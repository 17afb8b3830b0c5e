----------------------------- MODULE FormSchema -----------------------------
(***************************************************************************)
(* What a form contributes to an experiment's values. A form is a sequence *)
(* of questions; a repeatable group has children and a count. A value      *)
(* remembers whose answer or default it is, and how often it is repeated.  *)
(***************************************************************************)
EXTENDS Integers, Sequences, FiniteSets

CONSTANTS
    Ids,            \* question ids
    Defaults,       \* defaults that questions may declare
    NoDefault,      \* the question declares none
    NoCount         \* config.count is not an integer

ASSUME FormConstants == NoDefault \notin Defaults /\ NoCount \notin Nat

Once == -1          \* a bare value, not a column

Values == [of : Defaults \cup {"answer"}, times : Nat \cup {Once}]

Answered == [of |-> "answer", times |-> Once]

Question(id, default) ==
    [id |-> id, default |-> default, group |-> FALSE, count |-> NoCount,
     children |-> <<>>]

Group(id, count, children) ==
    [id |-> id, default |-> NoDefault, group |-> TRUE, count |-> count,
     children |-> children]

IsList(list) == Len(list) \in Nat /\ DOMAIN list = 1..Len(list)

IsQuestion(q) == q.id \in Ids /\ q.default \in Defaults \cup {NoDefault}

\* Only a group has children, and they are no groups.
IsForm(form) ==
    /\ IsList(form)
    /\ \A i \in DOMAIN form :
          /\ IsQuestion(form[i]) /\ form[i].group \in BOOLEAN
          /\ form[i].count \in Nat \cup {NoCount}
          /\ IsList(form[i].children)
          /\ form[i].group \/ form[i].children = <<>>
          /\ \A c \in DOMAIN form[i].children : IsQuestion(form[i].children[c])

-----------------------------------------------------------------------------
(* iter_questions. A slot is a form, client before lab, a question of it,  *)
(* and 0 or the number of a child when the question is a group.            *)

Slots(forms) ==
    UNION { UNION { { <<f, i, c>> : c \in 0..Len(forms[f][i].children) } :
                       i \in DOMAIN forms[f] } : f \in {1, 2} }

\* A group comes before its children.
Earlier(s, t) ==
    \/ s[1] < t[1]
    \/ s[1] = t[1] /\ s[2] < t[2]
    \/ s[1] = t[1] /\ s[2] = t[2] /\ s[3] < t[3]

QuestionAt(forms, s) ==
    LET q == forms[s[1]][s[2]] IN IF s[3] = 0 THEN q ELSE q.children[s[3]]

\* A child's default fills as many entries as the group has repetitions. The
\* group itself has no value.
Times(forms, s) ==
    LET q == forms[s[1]][s[2]]
    IN  IF s[3] # 0 THEN q.count ELSE IF q.group THEN NoCount ELSE Once

\* find_duplicate_question_ids
DuplicateIds(forms) ==
    { QuestionAt(forms, s).id : s \in { s \in Slots(forms) :
        \E t \in Slots(forms) \ {s} : QuestionAt(forms, s).id = QuestionAt(forms, t).id } }

-----------------------------------------------------------------------------
\* The slots that have a default for their id.
Offering(forms) ==
    { s \in Slots(forms) : /\ QuestionAt(forms, s).default # NoDefault
                           /\ Times(forms, s) # NoCount }

Offer(forms, s) ==
    [of |-> QuestionAt(forms, s).default, times |-> Times(forms, s)]

\* Faulty variant: a default replaces what is there already.
OverwriteWithDefault(values, forms, s) ==
    LET id == QuestionAt(forms, s).id
    IN  IF s \in Offering(forms)
          THEN [ k \in DOMAIN values \cup {id} |->
                   IF k = id THEN Offer(forms, s) ELSE values[k] ]
          ELSE values

\* The body of the loop of collect_values: a default is put in, unless the id
\* has a value.
FillDefault(values, forms, s) ==
    LET id == QuestionAt(forms, s).id
    IN  IF s \in Offering(forms) /\ id \notin DOMAIN values
          THEN [ k \in DOMAIN values \cup {id} |->
                   IF k = id THEN Offer(forms, s) ELSE values[k] ]
          ELSE values

-----------------------------------------------------------------------------
(* What the values ought to be *)

OffersTo(forms, id) == { s \in Offering(forms) : QuestionAt(forms, s).id = id }

FirstOf(slots) == CHOOSE s \in slots : \A t \in slots \ {s} : Earlier(s, t)

\* An id has its answer, or else the first default for it.
ExpectedValues(answers, forms) ==
    [ id \in DOMAIN answers \cup { id \in Ids : OffersTo(forms, id) # {} } |->
        IF id \in DOMAIN answers THEN answers[id]
                                 ELSE Offer(forms, FirstOf(OffersTo(forms, id))) ]
=============================================================================
