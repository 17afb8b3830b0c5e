--------------------------- MODULE TemplateStore ---------------------------
(***************************************************************************)
(* What the template catalogue promises, one atomic step per operation:    *)
(* a template lineage is a chain of versions, an edit rewrites the current *)
(* version only while no live experiment was created from it and appends a *)
(* new version otherwise, and an experiment copies the current version.    *)
(* TemplateRequests is the detailed specification that implements it.      *)
(***************************************************************************)
EXTENDS Integers

CONSTANTS
    TemplateIds,    \* primary keys of experiment_templates rows
    ExpIds,         \* experiment ids, chosen by the ticketing service
    Contents,       \* name, description and forms of a template version
    NoContent,      \* the content of a row that does not exist
    Layouts,        \* component lists of a PDF template
    EmptyLayout,    \* the component list []
    NoLayout,       \* there is no pdf_templates row
    NoId            \* no template

ASSUME StoreConstants ==
    /\ NoContent \notin Contents
    /\ EmptyLayout \in Layouts
    /\ NoLayout \notin Layouts
    /\ NoId \notin TemplateIds

VARIABLES
    templates,      \* experiment_templates, by id
    layouts,        \* pdf_templates, by template id
    experiments     \* experiments, by id

storeVars == <<templates, layouts, experiments>>

Statuses == {"free", "live", "deleted"}

TemplateRow == [status  : Statuses,
                lineage : TemplateIds \cup {NoId},
                version : Nat,
                content : Contents \cup {NoContent},
                current : BOOLEAN]

ExperimentRow == [status   : Statuses,
                  template : TemplateIds \cup {NoId},
                  content  : Contents \cup {NoContent}]

FreeTemplate == [status |-> "free", lineage |-> NoId, version |-> 0,
                 content |-> NoContent, current |-> FALSE]

FreeExperiment == [status |-> "free", template |-> NoId, content |-> NoContent]

NewRow(l, n, c) == [status |-> "live", lineage |-> l, version |-> n,
                    content |-> c, current |-> TRUE]

\* Faulty variant: the lineage of a new template is left to a default.
Unnamed(t, c) == NewRow(NoId, 1, c)

\* A lineage is named by the id of its first version.
FirstVersion(t, c) == NewRow(t, 1, c)

\* Faulty variant: the new version keeps the number of the one it replaces.
SameNumber(row, c) == NewRow(row.lineage, row.version, c)

NextVersion(row, c) == NewRow(row.lineage, row.version + 1, c)

Snapshot(t) == [status |-> "live", template |-> t,
                content |-> templates[t].content]

IsFree(t)     == templates[t].status = "free"
IsLive(t)     == templates[t].status = "live"

\* Faulty variant: the query forgets is_current.
AnyVersion(t) == templates[t].status = "live"

IsCurrent(t)  == templates[t].status = "live" /\ templates[t].current

\* Faulty variant: experiments are looked for on every version but this one.
UsedElsewhere(t) == \E e \in ExpIds : /\ experiments[e].status = "live"
                                      /\ experiments[e].template # t

Used(t) == \E e \in ExpIds : /\ experiments[e].status = "live"
                             /\ experiments[e].template = t

\* The layout a new version starts with when the edit does not bring one.
Cloned(layout) == IF layout = NoLayout THEN EmptyLayout ELSE layout

-----------------------------------------------------------------------------
StoreInit ==
    /\ templates = [t \in TemplateIds |-> FreeTemplate]
    /\ layouts = [t \in TemplateIds |-> NoLayout]
    /\ experiments = [e \in ExpIds |-> FreeExperiment]

CreateTemplate(t, c) ==
    /\ IsFree(t)
    /\ templates' = [templates EXCEPT ![t] = FirstVersion(t, c)]
    /\ UNCHANGED <<layouts, experiments>>

EditInPlace(t, c) ==
    /\ IsCurrent(t)
    /\ ~Used(t)
    /\ templates' = [templates EXCEPT ![t].content = c]
    /\ UNCHANGED <<layouts, experiments>>

\* Retire version t and append version u of the same lineage. A form edit
\* carries the layout over, a layout edit carries the content over.
Fork(t, u, c, l) ==
    /\ IsCurrent(t)
    /\ IsFree(u)
    /\ c = templates[t].content \/ l = Cloned(layouts[t])
    /\ templates' = [templates EXCEPT ![t].current = FALSE,
                                      ![u] = NextVersion(templates[t], c)]
    /\ layouts' = [layouts EXCEPT ![u] = l]
    /\ UNCHANGED experiments

PutLayout(t, l) ==
    /\ IsCurrent(t)
    /\ ~Used(t)
    /\ layouts' = [layouts EXCEPT ![t] = l]
    /\ UNCHANGED <<templates, experiments>>

DeleteLayout(t) ==
    /\ layouts' = [layouts EXCEPT ![t] = NoLayout]
    /\ UNCHANGED <<templates, experiments>>

DeleteTemplate(t) ==
    /\ IsLive(t)
    /\ templates' = [templates EXCEPT ![t].status = "deleted",
                                      ![t].current = FALSE]
    /\ UNCHANGED <<layouts, experiments>>

CreateExperiment(e, t) ==
    /\ IsCurrent(t)
    /\ experiments[e].status = "free"
    /\ experiments' = [experiments EXCEPT ![e] = Snapshot(t)]
    /\ UNCHANGED <<templates, layouts>>

DeleteExperiment(e) ==
    /\ experiments[e].status = "live"
    /\ experiments' = [experiments EXCEPT ![e].status = "deleted"]
    /\ UNCHANGED <<templates, layouts>>

StoreNext ==
    \/ \E t \in TemplateIds, c \in Contents :
          CreateTemplate(t, c) \/ EditInPlace(t, c)
    \/ \E t, u \in TemplateIds, c \in Contents, l \in Layouts : Fork(t, u, c, l)
    \/ \E t \in TemplateIds, l \in Layouts : PutLayout(t, l)
    \/ \E t \in TemplateIds : DeleteLayout(t) \/ DeleteTemplate(t)
    \/ \E e \in ExpIds, t \in TemplateIds : CreateExperiment(e, t)
    \/ \E e \in ExpIds : DeleteExperiment(e)

StoreSpec == StoreInit /\ [][StoreNext]_storeVars

-----------------------------------------------------------------------------
StoreTypeOK ==
    /\ templates \in [TemplateIds -> TemplateRow]
    /\ layouts \in [TemplateIds -> Layouts \cup {NoLayout}]
    /\ experiments \in [ExpIds -> ExperimentRow]
    /\ \A t \in TemplateIds :
          ~IsFree(t) => /\ templates[t].lineage \in TemplateIds
                        /\ templates[t].content \in Contents

\* The snapshot an experiment took stays equal to the version it names: the
\* version that a live experiment was created from is never rewritten.
FrozenForms ==
    \A e \in ExpIds :
        experiments[e].status = "live" =>
            LET t == experiments[e].template
            IN  /\ t \in TemplateIds
                /\ templates[t].status # "free"
                /\ templates[t].content = experiments[e].content

\* A lineage is a chain: version numbers are distinct, at most one version is
\* current, no version is newer than the current one, a deleted version is not
\* current, and the row that names the lineage exists.
VersionChain ==
    \A t, u \in TemplateIds :
        /\ templates[t].current => IsLive(t)
        /\ ~IsFree(t) => ~IsFree(templates[t].lineage)
        /\ /\ t # u
           /\ ~IsFree(t) /\ ~IsFree(u)
           /\ templates[t].lineage = templates[u].lineage
           => /\ templates[t].version # templates[u].version
              /\ templates[t].current =>
                    templates[u].version < templates[t].version

\* A version that was retired or deleted is never made current again, and
\* its content never changes again.
RetiredStays ==
    \A t \in TemplateIds :
        ~IsFree(t) /\ ~templates[t].current =>
            /\ ~templates'[t].current
            /\ templates'[t].content = templates[t].content

RetiredForGood == [][RetiredStays]_storeVars

\* "Experiments freeze the specific version id at creation time, so their
\* pdf_template and snapshot are immutable for the lifetime of the experiment"
\* (migration 005).
LayoutImmutable ==
    [][\A t \in TemplateIds : Used(t) => layouts'[t] = layouts[t]]_storeVars

\* What the code keeps of that: the PDF layout of a version that live
\* experiments use is never replaced, a save of the layout goes to a new
\* version. delete_pdf_template does not look for experiments, so a layout in
\* use can be deleted, and that is the one change it meets.
LayoutKept ==
    \A t \in TemplateIds :
        Used(t) => layouts'[t] \in {layouts[t], NoLayout}

UsedLayoutKept == [][LayoutKept]_storeVars
=============================================================================
