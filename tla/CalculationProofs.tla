-------------------------- MODULE CalculationProofs --------------------------
(***************************************************************************)
(* Calculations for every alphabet and all families of documents: what is  *)
(* collected, the order of evaluation, and what placeholders show.         *)
(***************************************************************************)
EXTENDS Calculations, FiniteSetTheorems, SequenceTheorems,
        WellFoundedInduction, TLAPS

AreForms(fs) == \A f \in {1, 2} : IsForm(fs[f])

\* The document, with the answers it began with or those collected since.
DraftSound ==
    /\ draft = [ client |-> draft.client, lab |-> draft.lab,
                 answers |-> draft.answers, formulas |-> draft.formulas ]
    /\ AreForms(forms)
    /\ DOMAIN draft.answers \subseteq Ids
    /\ draft.answers \in [DOMAIN draft.answers -> Values]
    /\ DOMAIN formulas \subseteq Names
    /\ formulas \in [DOMAIN formulas -> Formulas]

\* v holds the answers and, for ids that have none, the first default, as far
\* as it is in one of the slots that are done.
FilledFrom(v, answers, fs, done) ==
    v = [ id \in DOMAIN answers \cup { id \in Ids : OffersTo(fs, id) \cap done # {} } |->
            IF id \in DOMAIN answers THEN answers[id]
                                     ELSE Offer(fs, FirstOf(OffersTo(fs, id))) ]

\* The loop over the slots has come to those before the ones that are left.
ValuesSound ==
    /\ left \subseteq Slots(forms)
    /\ phase # "collect" => left = {}
    /\ \A s \in Slots(forms) \ left : \A t \in left : Earlier(s, t)
    /\ FilledFrom(values, draft.answers, forms, Slots(forms) \ left)
    /\ run = "calculate" => reply.duplicates = DuplicateIds(forms)

-----------------------------------------------------------------------------
(* Slots and values *)

LEMMA SlotIs ==
    ASSUME NEW fs, AreForms(fs), NEW s \in Slots(fs)
    PROVE  /\ s = <<s[1], s[2], s[3]>>
           /\ s[1] \in {1, 2} /\ s[2] \in DOMAIN fs[s[1]] /\ s[2] \in Nat
           /\ s[3] \in 0..Len(fs[s[1]][s[2]].children) /\ s[3] \in Nat
<1>1. PICK f \in {1, 2} :
         \E i \in DOMAIN fs[f] : \E c \in 0..Len(fs[f][i].children) : s = <<f, i, c>>
  BY DEF Slots
<1>2. PICK i \in DOMAIN fs[f] : \E c \in 0..Len(fs[f][i].children) : s = <<f, i, c>>
  BY <1>1
<1>3. PICK c \in 0..Len(fs[f][i].children) : s = <<f, i, c>>
  BY <1>2
<1>4. i \in Nat /\ c \in Nat
  BY DEF AreForms, IsForm, IsList
<1> QED
  BY <1>3, <1>4

LEMMA IsSlot ==
    ASSUME NEW fs, NEW f \in {1, 2}, NEW i \in DOMAIN fs[f],
           NEW c \in 0..Len(fs[f][i].children)
    PROVE  <<f, i, c>> \in Slots(fs)
  BY DEF Slots

LEMMA NotBoth ==
    ASSUME NEW fs, AreForms(fs), NEW s \in Slots(fs), NEW t \in Slots(fs)
    PROVE  ~(Earlier(s, t) /\ Earlier(t, s))
<1>1. /\ s[1] \in Int /\ s[2] \in Int /\ s[3] \in Int
      /\ t[1] \in Int /\ t[2] \in Int /\ t[3] \in Int
  BY SlotIs
<1> QED
  BY <1>1 DEF Earlier

LEMMA FirstIs ==
    ASSUME NEW fs, AreForms(fs), NEW S \in SUBSET Slots(fs), NEW s \in S,
           \A t \in S \ {s} : Earlier(s, t)
    PROVE  FirstOf(S) = s
<1>1. FirstOf(S) \in S /\ \A t \in S \ {FirstOf(S)} : Earlier(FirstOf(S), t)
  BY DEF FirstOf
<1> QED
  BY <1>1, NotBoth

LEMMA QuestionTypes ==
    ASSUME NEW fs, AreForms(fs), NEW s \in Slots(fs)
    PROVE  IsQuestion(QuestionAt(fs, s)) /\ Times(fs, s) \in Nat \cup {Once, NoCount}
<1> DEFINE q == fs[s[1]][s[2]]
<1>1. /\ IsForm(fs[s[1]]) /\ s[2] \in DOMAIN fs[s[1]]
      /\ s[3] \in 0..Len(q.children) /\ s[3] \in Nat
  BY SlotIs DEF AreForms
<1>2. /\ IsQuestion(q) /\ q.count \in Nat \cup {NoCount}
      /\ IsList(q.children)
      /\ \A c \in DOMAIN q.children : IsQuestion(q.children[c])
  BY <1>1 DEF IsForm
<1>3. s[3] # 0 => s[3] \in DOMAIN q.children
  BY <1>1, <1>2 DEF IsList
<1> QED
  BY <1>2, <1>3 DEF QuestionAt, Times

LEMMA OfferTypes ==
    ASSUME NEW fs, AreForms(fs), NEW s \in Offering(fs)
    PROVE  QuestionAt(fs, s).id \in Ids /\ Offer(fs, s) \in Values
<1>1. s \in Slots(fs) /\ QuestionAt(fs, s).default # NoDefault /\ Times(fs, s) # NoCount
  BY DEF Offering
<1>2. /\ QuestionAt(fs, s).id \in Ids /\ QuestionAt(fs, s).default \in Defaults
      /\ Times(fs, s) \in Nat \cup {Once}
  BY <1>1, QuestionTypes DEF IsQuestion
<1> QED
  BY <1>2 DEF Offer, Values

LEMMA DuplicateTypes ==
    ASSUME NEW fs, AreForms(fs)
    PROVE  DuplicateIds(fs) \subseteq Ids
  BY QuestionTypes DEF DuplicateIds, IsQuestion

\* One turn of the loop: the slot that is handled is the first of those left,
\* so its default is the first for its id unless the id has a value.
LEMMA FillOne ==
    ASSUME NEW fs, AreForms(fs), NEW answers, NEW todo \in SUBSET Slots(fs),
           \A u \in Slots(fs) \ todo : \A t \in todo : Earlier(u, t),
           NEW v, FilledFrom(v, answers, fs, Slots(fs) \ todo),
           DOMAIN v \subseteq Ids, v \in [DOMAIN v -> Values],
           NEW s \in todo, \A t \in todo \ {s} : Earlier(s, t)
    PROVE  /\ FilledFrom(FillDefault(v, fs, s), answers, fs, Slots(fs) \ (todo \ {s}))
           /\ \A u \in Slots(fs) \ (todo \ {s}) : \A t \in todo \ {s} : Earlier(u, t)
           /\ DOMAIN FillDefault(v, fs, s) \subseteq Ids
           /\ FillDefault(v, fs, s) \in [DOMAIN FillDefault(v, fs, s) -> Values]
<1> DEFINE done == Slots(fs) \ todo
           more == Slots(fs) \ (todo \ {s})
           id   == QuestionAt(fs, s).id
           w    == FillDefault(v, fs, s)
           To(k) == OffersTo(fs, k)
<1>1. more = done \cup {s} /\ s \in Slots(fs) /\ s \notin done
  OBVIOUS
<1>2. \A k : To(k) \subseteq Slots(fs)
  BY DEF OffersTo, Offering
<1>3. \A k : (To(k) \cap more # {}) <=> (To(k) \cap done # {} \/ s \in To(k))
  BY <1>1
<1>4. \A k : s \in To(k) <=> s \in Offering(fs) /\ k = id
  BY DEF OffersTo
<1>5. \A u \in more : \A t \in todo \ {s} : Earlier(u, t)
  BY <1>1
<1>6. CASE s \in Offering(fs) /\ id \notin DOMAIN v
  <2>2. /\ DOMAIN w = DOMAIN v \cup {id}
        /\ w = [ k \in DOMAIN v \cup {id} |-> IF k = id THEN Offer(fs, s) ELSE v[k] ]
    BY <1>6 DEF FillDefault
  <2>3. id \in Ids /\ Offer(fs, s) \in Values
    BY <1>6, OfferTypes
  <2>4. id \notin DOMAIN answers /\ To(id) \cap done = {}
    BY <1>6, <2>3 DEF FilledFrom
  <2>5. FirstOf(To(id)) = s
    <3>1. To(id) \subseteq todo /\ s \in To(id)
      BY <1>1, <1>2, <1>4, <1>6, <2>4
    <3>2. \A t \in To(id) \ {s} : Earlier(s, t)
      BY <3>1
    <3> QED
      BY <1>2, <3>1, <3>2, FirstIs
  <2>6. DOMAIN v = DOMAIN answers \cup { k \in Ids : To(k) \cap done # {} }
    BY DEF FilledFrom
  <2>7. DOMAIN v \cup {id} = DOMAIN answers \cup { k \in Ids : To(k) \cap more # {} }
    BY <1>3, <1>4, <1>6, <2>3, <2>6
  <2>8. \A k \in DOMAIN v :
           v[k] = IF k \in DOMAIN answers THEN answers[k] ELSE Offer(fs, FirstOf(To(k)))
    BY DEF FilledFrom
  <2> HIDE DEF w, To, more, done, id
  <2>9. w = [ k \in DOMAIN answers \cup { k \in Ids : To(k) \cap more # {} } |->
                IF k \in DOMAIN answers THEN answers[k] ELSE Offer(fs, FirstOf(To(k))) ]
    BY <1>6, <2>2, <2>4, <2>5, <2>7, <2>8
  <2>10. FilledFrom(w, answers, fs, more)
    BY <2>9 DEF FilledFrom, To
  <2>11. DOMAIN w \subseteq Ids /\ w \in [DOMAIN w -> Values]
    BY <2>2, <2>3
  <2> QED
    BY <1>5, <2>10, <2>11 DEF w, more
<1>7. CASE ~(s \in Offering(fs) /\ id \notin DOMAIN v)
  <2>1. w = v
    BY <1>7 DEF FillDefault
  <2>2. DOMAIN v = DOMAIN answers \cup { k \in Ids : To(k) \cap done # {} }
    BY DEF FilledFrom
  <2>3. DOMAIN v = DOMAIN answers \cup { k \in Ids : To(k) \cap more # {} }
    BY <1>3, <1>4, <1>7, <2>2
  <2>4. FilledFrom(v, answers, fs, more)
    BY <2>2, <2>3 DEF FilledFrom
  <2> QED
    BY <1>5, <2>1, <2>4
<1> QED
  BY <1>6, <1>7

\* When the loop has ended, the values are what they ought to be.
LEMMA FilledAll ==
    ASSUME NEW fs, NEW answers, NEW v
    PROVE  FilledFrom(v, answers, fs, Slots(fs)) <=> v = ExpectedValues(answers, fs)
<1>1. \A id : OffersTo(fs, id) \cap Slots(fs) = OffersTo(fs, id)
  BY DEF OffersTo, Offering
<1> QED
  BY <1>1 DEF FilledFrom, ExpectedValues

\* What was collected once is complete.
LEMMA Complete ==
    ASSUME NEW fs, NEW answers, NEW v, v = ExpectedValues(answers, fs)
    PROVE  v = ExpectedValues(v, fs)
<1>1. DOMAIN v = DOMAIN v \cup { id \in Ids : OffersTo(fs, id) # {} }
  BY DEF ExpectedValues
<1>2. v = [ id \in DOMAIN v |-> v[id] ]
  BY DEF ExpectedValues
<1> QED
  BY <1>1, <1>2 DEF ExpectedValues

\* The slot of the same question when the forms change places.
Swapped(s) == <<3 - s[1], s[2], s[3]>>

LEMMA SwapSlot ==
    ASSUME NEW c, NEW l, IsForm(c), IsForm(l), NEW s \in Slots(<<c, l>>)
    PROVE  /\ Swapped(s) \in Slots(<<l, c>>)
           /\ Swapped(Swapped(s)) = s
           /\ QuestionAt(<<l, c>>, Swapped(s)) = QuestionAt(<<c, l>>, s)
           /\ Times(<<l, c>>, Swapped(s)) = Times(<<c, l>>, s)
           /\ s \in Offering(<<c, l>>) => Swapped(s) \in Offering(<<l, c>>)
           /\ Offer(<<l, c>>, Swapped(s)) = Offer(<<c, l>>, s)
<1> DEFINE fs == <<c, l>>
           gs == <<l, c>>
<1>1. AreForms(fs) /\ AreForms(gs)
  BY DEF AreForms
<1>2. /\ s = <<s[1], s[2], s[3]>> /\ s[1] \in {1, 2}
      /\ s[2] \in DOMAIN fs[s[1]] /\ s[3] \in 0..Len(fs[s[1]][s[2]].children)
  <2> HIDE DEF fs
  <2> QED
    BY <1>1, SlotIs DEF fs
<1>3. 3 - s[1] \in {1, 2} /\ gs[3 - s[1]] = fs[s[1]] /\ 3 - (3 - s[1]) = s[1]
  BY <1>2
<1>4. Swapped(s) \in Slots(gs)
  <2> HIDE DEF gs
  <2>1. <<3 - s[1], s[2], s[3]>> \in Slots(gs)
    BY <1>2, <1>3, IsSlot
  <2> QED
    BY <2>1 DEF Swapped
<1>5. Swapped(Swapped(s)) = s
  BY <1>2, <1>3 DEF Swapped
<1>6. QuestionAt(gs, Swapped(s)) = QuestionAt(fs, s)
  BY <1>3 DEF QuestionAt, Swapped
<1>7. Times(gs, Swapped(s)) = Times(fs, s)
  BY <1>3 DEF Times, Swapped
<1>8. s \in Offering(fs) => Swapped(s) \in Offering(gs)
  BY <1>4, <1>6, <1>7 DEF Offering
<1>9. Offer(gs, Swapped(s)) = Offer(fs, s)
  BY <1>6, <1>7 DEF Offer
<1> QED
  BY <1>4, <1>5, <1>6, <1>7, <1>8, <1>9

\* No id used twice: at most one slot offers it a default.
LEMMA SwapForms ==
    ASSUME NEW c, NEW l, IsForm(c), IsForm(l), DuplicateIds(<<c, l>>) = {}, NEW answers
    PROVE  ExpectedValues(answers, <<c, l>>) = ExpectedValues(answers, <<l, c>>)
<1> DEFINE fs == <<c, l>>
           gs == <<l, c>>
<1>1. AreForms(fs) /\ AreForms(gs)
  BY DEF AreForms
<1>2. ASSUME NEW s \in Slots(fs), NEW t \in Slots(fs),
             QuestionAt(fs, s).id = QuestionAt(fs, t).id
      PROVE  s = t
  BY <1>2 DEF DuplicateIds
<1>3. ASSUME NEW id, NEW t \in OffersTo(gs, id)
      PROVE  Swapped(t) \in OffersTo(fs, id)
  <2>1. t \in Slots(gs) /\ t \in Offering(gs) /\ QuestionAt(gs, t).id = id
    BY DEF OffersTo, Offering
  <2> QED
    BY <2>1, SwapSlot DEF OffersTo
<1>4. ASSUME NEW id, NEW s \in OffersTo(fs, id)
      PROVE  /\ OffersTo(fs, id) = {s}
             /\ OffersTo(gs, id) = {Swapped(s)}
             /\ Offer(gs, Swapped(s)) = Offer(fs, s)
  <2>1. s \in Slots(fs) /\ s \in Offering(fs) /\ QuestionAt(fs, s).id = id
    BY DEF OffersTo, Offering
  <2>2. OffersTo(fs, id) = {s}
    BY <1>2, <2>1 DEF OffersTo, Offering
  <2>3. Swapped(s) \in OffersTo(gs, id) /\ Offer(gs, Swapped(s)) = Offer(fs, s)
    BY <2>1, SwapSlot DEF OffersTo
  <2>4. ASSUME NEW t \in OffersTo(gs, id)
        PROVE  t = Swapped(s)
    <3>1. Swapped(t) = s
      BY <1>3, <2>2
    <3>2. t \in Slots(gs)
      BY DEF OffersTo, Offering
    <3> QED
      BY <3>1, <3>2, SwapSlot
  <2> QED
    BY <2>2, <2>3, <2>4
<1>5. ASSUME NEW id
      PROVE  /\ OffersTo(fs, id) # {} <=> OffersTo(gs, id) # {}
             /\ OffersTo(fs, id) # {} =>
                   Offer(fs, FirstOf(OffersTo(fs, id))) = Offer(gs, FirstOf(OffersTo(gs, id)))
  <2>1. OffersTo(gs, id) # {} => OffersTo(fs, id) # {}
    BY <1>3
  <2>2. ASSUME NEW s \in OffersTo(fs, id)
        PROVE  /\ FirstOf(OffersTo(fs, id)) = s
               /\ FirstOf(OffersTo(gs, id)) = Swapped(s)
               /\ OffersTo(gs, id) # {}
    <3>1. \A x : FirstOf({x}) = x
      BY DEF FirstOf
    <3> QED
      BY <1>4, <3>1
  <2> QED
    BY <1>4, <2>1, <2>2
<1> HIDE DEF fs, gs
<1>6. ExpectedValues(answers, fs) = ExpectedValues(answers, gs)
  BY <1>5 DEF ExpectedValues
<1> QED
  BY <1>6 DEF fs, gs

-----------------------------------------------------------------------------
(* The order of evaluation *)

\* A set of natural numbers that is not empty has a least element.
LEMMA LeastElement ==
    ASSUME NEW T \in SUBSET Nat, T # {}
    PROVE  \E t \in T : \A u \in T : t <= u
<1> DEFINE Below == { ss \in Nat \X Nat : ss[1] < ss[2] }
<1>1. IsWellFoundedOn(Below, Nat)
  BY NatLessThanWellFounded DEF OpToRel
<1>2. PICK t \in T : \A u \in T : <<u, t>> \notin Below
  <2> HIDE DEF Below
  <2> QED
    BY <1>1, WFMin
<1>3. ASSUME NEW u \in T
      PROVE  t <= u
  <2>1. u \in Nat /\ t \in Nat /\ <<u, t>> \notin Below
    BY <1>2
  <2> QED
    BY <2>1
<1> QED
  BY <1>3

LEMMA NamesFinite ==
    /\ IsFiniteSet(Names)
    /\ \A n \in Names : Place(n) \in DOMAIN Alphabet /\ Alphabet[Place(n)] = n
    /\ \A n \in Names : Place(n) \in Nat
    /\ \A m, n \in Names : Place(m) = Place(n) => m = n
<1>1. DOMAIN Alphabet = 1..Len(Alphabet) /\ Len(Alphabet) \in Nat
  BY CalculationConstants DEF IsList
<1>2. \A n \in Names : Place(n) \in DOMAIN Alphabet /\ Alphabet[Place(n)] = n
  BY DEF Names, ToSet, Place
<1>3. IsFiniteSet(1..Len(Alphabet))
  BY <1>1, FS_Interval
<1>4. IsFiniteSet(Names)
  <2> DEFINE f == [ i \in DOMAIN Alphabet |-> Alphabet[i] ]
  <2>1. f \in Surjection(DOMAIN Alphabet, Names)
    BY DEF Surjection, Names, ToSet
  <2> HIDE DEF f
  <2> QED
    BY <1>1, <1>3, <2>1, FS_Surjection
<1> QED
  BY <1>1, <1>2, <1>4

LEMMA ListOf ==
    ASSUME NEW S, IsFiniteSet(S), NEW list \in SetToSeqs(S)
    PROVE  /\ list \in [1..Cardinality(S) -> S] /\ Cardinality(S) \in Nat
           /\ list \in Seq(S) /\ Len(list) = Cardinality(S)
           /\ \A m, n \in 1..Cardinality(S) : m # n => list[m] # list[n]
           /\ ToSet(list) = S
<1>1. /\ list \in [1..Cardinality(S) -> S] /\ Cardinality(S) \in Nat
      /\ \A m, n \in 1..Cardinality(S) : m # n => list[m] # list[n]
  BY FS_CardinalityType DEF SetToSeqs, IsInjective
<1>2. list \in Seq(S) /\ Len(list) = Cardinality(S)
  BY <1>1
<1>3. list \in Injection(1..Cardinality(S), S)
  BY <1>1 DEF Injection, IsInjective
<1>4. /\ IsFiniteSet(1..Cardinality(S))
      /\ Cardinality(1..Cardinality(S)) = Cardinality(S)
  BY <1>1, FS_Interval
<1>5. list \in Surjection(1..Cardinality(S), S)
  BY <1>3, <1>4, FS_Injection
<1>6. ToSet(list) = S
  BY <1>1, <1>5 DEF Surjection, ToSet
<1> QED
  BY <1>1, <1>2, <1>6

\* Names that differ have one order, by induction on the size of the set: the
\* last name comes after a list of the others.
LEMMA SortedList ==
    ASSUME NEW S \in SUBSET Names
    PROVE  Sorted(S) \in SetToSeqs(S) /\ Ascending(Sorted(S))
<1> DEFINE HasList(T) == \E list \in SetToSeqs(T) : Ascending(list)
           Bad == { k \in Nat : \E T \in SUBSET Names : Cardinality(T) = k /\ ~HasList(T) }
<1>1. \A T \in SUBSET Names : IsFiniteSet(T) /\ Cardinality(T) \in Nat
  BY NamesFinite, FS_Subset, FS_CardinalityType
<1>2. ASSUME Bad # {}
      PROVE  FALSE
  <2>1. PICK k \in Bad : \A m \in Bad : k <= m
    <3>1. Bad \in SUBSET Nat
      OBVIOUS
    <3> HIDE DEF Bad
    <3> QED
      BY <1>2, <3>1, LeastElement
  <2>2. PICK T \in SUBSET Names : Cardinality(T) = k /\ ~HasList(T)
    OBVIOUS
  <2>3. T # {}
    <3>1. SUFFICES ASSUME T = {} PROVE FALSE
      OBVIOUS
    <3>2. Cardinality(T) = 0
      BY <3>1, FS_EmptySet
    <3>3. <<>> \in SetToSeqs(T) /\ Ascending(<<>>)
      BY <3>2 DEF SetToSeqs, Ascending, IsInjective
    <3> QED
      BY <2>2, <3>3
  <2>4. PICK x \in T : \A n \in T : Place(n) <= Place(x)
    <3> DEFINE Len0 == Len(Alphabet)
               After0 == { Len0 - Place(n) : n \in T }
    <3>1. /\ Len0 \in Nat /\ \A n \in T : /\ Place(n) \in Nat /\ Place(n) <= Len0
                                          /\ Len0 - Place(n) \in Nat
      BY NamesFinite, CalculationConstants DEF IsList
    <3>2. After0 \in SUBSET Nat /\ After0 # {}
      BY <2>3, <3>1
    <3>3. PICK a \in After0 : \A b \in After0 : a <= b
      <4> HIDE DEF After0
      <4> QED
        BY <3>2, LeastElement
    <3>4. PICK x \in T : a = Len0 - Place(x)
      OBVIOUS
    <3>5. \A n \in T : Len0 - Place(x) <= Len0 - Place(n)
      BY <3>3, <3>4
    <3> HIDE DEF Len0
    <3> QED
      BY <3>1, <3>5
  <2> DEFINE U == T \ {x}
  <2>5. U \in SUBSET Names /\ Cardinality(U) = k - 1 /\ k \in Nat /\ k - 1 \in Nat
    <3>1. Cardinality(U) = Cardinality(T) - 1
      BY <1>1, FS_RemoveElement
    <3>2. Cardinality(U) \in Nat
      BY <1>1
    <3> QED
      BY <2>2, <3>1, <3>2
  <2>6. PICK list \in SetToSeqs(U) : Ascending(list)
    <3>1. k - 1 \notin Bad
      BY <2>1, <2>5
    <3> QED
      BY <2>5, <3>1
  <2>7. /\ list \in [1..(k - 1) -> U]
        /\ \A i, j \in 1..(k - 1) : i # j => list[i] # list[j]
    BY <2>5, <2>6 DEF SetToSeqs, IsInjective
  <2> HIDE DEF U, Bad, HasList
  <2> DEFINE longer == [ i \in 1..k |-> IF i = k THEN x ELSE list[i] ]
  <2>8. longer \in [1..k -> T] /\ \A i, j \in 1..k : i # j => longer[i] # longer[j]
    BY <2>5, <2>7 DEF U
  <2>9. longer \in SetToSeqs(T)
    BY <2>2, <2>8 DEF SetToSeqs, IsInjective
  <2>10. Ascending(longer)
    <3>1. ASSUME NEW i \in 1..k, NEW j \in 1..k, i < j
          PROVE  Place(longer[i]) < Place(longer[j])
      <4>1. i \in 1..(k - 1) /\ longer[i] = list[i] /\ list[i] \in U
        BY <2>5, <2>7, <3>1
      <4>2. CASE j = k
        <5>1. list[i] \in T /\ list[i] # x /\ list[i] \in Names /\ x \in Names
          BY <4>1 DEF U
        <5>2. Place(list[i]) <= Place(x) /\ Place(list[i]) # Place(x)
          BY <2>4, <5>1, NamesFinite
        <5>3. Place(list[i]) \in Nat /\ Place(x) \in Nat
          BY <5>1, NamesFinite
        <5> QED
          BY <4>1, <4>2, <5>2, <5>3
      <4>3. CASE j # k
        <5>1. j \in 1..(k - 1) /\ longer[j] = list[j]
          BY <2>5, <4>3
        <5> QED
          BY <2>6, <2>7, <3>1, <4>1, <5>1 DEF Ascending
      <4> QED
        BY <4>2, <4>3
    <3> QED
      BY <3>1 DEF Ascending
  <2> QED
    BY <2>2, <2>9, <2>10 DEF HasList
<1>3. HasList(S)
  BY <1>1, <1>2
<1> QED
  BY <1>3 DEF Sorted

\* Each name once, after all it refers to.
IsOrder(F, list) ==
    /\ list \in Seq(DOMAIN F)
    /\ \A i, j \in DOMAIN list : i # j => list[i] # list[j]
    /\ \A i \in DOMAIN list : Dependencies(F)[list[i]] \subseteq { list[j] : j \in 1..(i - 1) }

\* The names in R, which more lists, come next after those of the list.
ComesNext(F, list, R, more, both) ==
    /\ both = list \o more
    /\ IsOrder(F, list)
    /\ R \in SUBSET DOMAIN F /\ R \cap ToSet(list) = {} /\ IsFiniteSet(R)
    /\ \A n \in R : Dependencies(F)[n] \subseteq ToSet(list)
    /\ more \in SetToSeqs(R)

Extended(F, list, R, more, both) ==
    /\ IsOrder(F, both)
    /\ ToSet(both) = ToSet(list) \cup R
    /\ Len(both) = Len(list) + Cardinality(R)
    /\ \A i \in 1..Len(list) : both[i] = list[i]
    /\ \A i \in 1..Cardinality(R) : both[Len(list) + i] = more[i]

\* A round of the loop, on whatever list there is.
LEMMA ExtendOrder ==
    ASSUME NEW F, NEW list, NEW R, NEW more, NEW both,
           ComesNext(F, list, R, more, both)
    PROVE  Extended(F, list, R, more, both)
<1> DEFINE L == Len(list)
           K == Cardinality(R)
<1>0. both = list \o more
  BY DEF ComesNext
<1>1. /\ IsOrder(F, list)
      /\ R \in SUBSET DOMAIN F /\ R \cap ToSet(list) = {} /\ IsFiniteSet(R)
      /\ \A n \in R : Dependencies(F)[n] \subseteq ToSet(list)
      /\ more \in SetToSeqs(R)
  BY DEF ComesNext
<1>2. /\ list \in Seq(DOMAIN F) /\ L \in Nat /\ DOMAIN list = 1..L
      /\ \A i, j \in 1..L : i # j => list[i] # list[j]
      /\ \A i \in 1..L : Dependencies(F)[list[i]] \subseteq { list[j] : j \in 1..(i - 1) }
      /\ ToSet(list) = { list[i] : i \in 1..L }
  BY <1>1 DEF IsOrder, ToSet
<1>3. /\ more \in Seq(R) /\ K \in Nat /\ Len(more) = K /\ DOMAIN more = 1..K
      /\ \A i, j \in 1..K : i # j => more[i] # more[j]
      /\ R = { more[i] : i \in 1..K }
  BY <1>1, ListOf DEF ToSet
<1>4. more \in Seq(DOMAIN F)
  BY <1>1, <1>3
<1> HIDE DEF L, K
<1>5. /\ both \in Seq(DOMAIN F) /\ Len(both) = L + K
      /\ \A i \in 1..(L + K) : both[i] = IF i <= L THEN list[i] ELSE more[i - L]
  <2>1. /\ both \in Seq(DOMAIN F) /\ Len(both) = Len(list) + Len(more)
        /\ \A i \in 1..(Len(list) + Len(more)) :
              both[i] = IF i <= Len(list) THEN list[i] ELSE more[i - Len(list)]
    BY <1>0, <1>2, <1>4, ConcatProperties
  <2>2. Len(list) = L /\ Len(more) = K
    BY <1>3 DEF L
  <2> QED
    BY <2>1, <2>2
<1>6. /\ DOMAIN both = 1..(L + K)
      /\ \A i \in 1..L : both[i] = list[i] /\ i \in 1..(L + K)
      /\ \A i \in 1..K : both[L + i] = more[i] /\ L + i \in 1..(L + K)
  <2>1. DOMAIN both = 1..(L + K)
    BY <1>5
  <2>2. ASSUME NEW i \in 1..L
        PROVE  both[i] = list[i] /\ i \in 1..(L + K)
    BY <1>2, <1>3, <1>5
  <2>3. ASSUME NEW i \in 1..K
        PROVE  both[L + i] = more[i] /\ L + i \in 1..(L + K)
    <3>1. L + i \in 1..(L + K) /\ ~(L + i <= L) /\ (L + i) - L = i
      BY <1>2, <1>3
    <3> QED
      BY <1>5, <3>1
  <2> QED
    BY <2>1, <2>2, <2>3
<1>7. \A i \in 1..(L + K) : \/ i \in 1..L
                            \/ \E k \in 1..K : i = L + k /\ both[i] \in R
  <2>1. ASSUME NEW i \in 1..(L + K), i \notin 1..L
        PROVE  i - L \in 1..K /\ i = L + (i - L)
    BY <1>2, <1>3, <2>1
  <2> QED
    BY <1>1, <1>3, <1>6, <2>1
<1>8. ToSet(both) = ToSet(list) \cup R
  <2>1. ToSet(both) \subseteq ToSet(list) \cup R
    BY <1>1, <1>2, <1>6, <1>7 DEF ToSet
  <2>2. ToSet(list) \cup R \subseteq ToSet(both)
    <3>1. \A i \in 1..L : list[i] \in ToSet(both)
      BY <1>6 DEF ToSet
    <3>2. \A i \in 1..K : more[i] \in ToSet(both)
      BY <1>6 DEF ToSet
    <3> QED
      BY <1>2, <1>3, <3>1, <3>2
  <2> QED
    BY <2>1, <2>2
<1>9. ASSUME NEW i \in 1..(L + K), NEW j \in 1..(L + K), i # j
      PROVE  both[i] # both[j]
  <2>1. CASE i \in 1..L /\ j \in 1..L
    BY <1>2, <1>6, <1>9, <2>1
  <2>2. CASE i \in 1..L /\ j \notin 1..L
    BY <1>1, <1>2, <1>6, <1>7, <2>2
  <2>3. CASE i \notin 1..L /\ j \in 1..L
    BY <1>1, <1>2, <1>6, <1>7, <2>3
  <2>4. CASE i \notin 1..L /\ j \notin 1..L
    <3>1. PICK k \in 1..K : i = L + k
      BY <1>7, <2>4
    <3>2. PICK m \in 1..K : j = L + m
      BY <1>7, <2>4
    <3> QED
      BY <1>1, <1>3, <1>6, <1>9, <3>1, <3>2
  <2> QED
    BY <2>1, <2>2, <2>3, <2>4
<1>10. ASSUME NEW i \in 1..(L + K)
       PROVE  Dependencies(F)[both[i]] \subseteq { both[j] : j \in 1..(i - 1) }
  <2>1. CASE i \in 1..L
    <3>1. \A j \in 1..(i - 1) : both[j] = list[j]
      BY <1>2, <1>6, <2>1
    <3>2. Dependencies(F)[list[i]] \subseteq { list[j] : j \in 1..(i - 1) }
      BY <1>2, <2>1
    <3> QED
      BY <1>1, <1>6, <2>1, <3>1, <3>2
  <2>2. CASE i \notin 1..L
    <3>1. both[i] \in R
      BY <1>7, <2>2
    <3>2. \A j \in 1..L : j \in 1..(i - 1)
      BY <1>2, <2>2
    <3>3. { list[j] : j \in 1..L } \subseteq { both[j] : j \in 1..(i - 1) }
      BY <1>6, <3>2
    <3> QED
      BY <1>1, <1>2, <3>1, <3>3
  <2> QED
    BY <2>1, <2>2
<1>11. IsOrder(F, both)
  BY <1>5, <1>6, <1>9, <1>10 DEF IsOrder
<1> QED
  BY <1>5, <1>6, <1>8, <1>11 DEF L, K, Extended

\* Behind[n] is the least set with the dependencies of n and of its members.
LEMMA BehindLeast ==
    ASSUME NEW n \in DOMAIN formulas
    PROVE  /\ Behind[n] \subseteq DOMAIN formulas
           /\ Dependencies(formulas)[n] \subseteq Behind[n]
           /\ \A m \in Behind[n] : Dependencies(formulas)[m] \subseteq Behind[n]
           /\ \A S \in SUBSET DOMAIN formulas :
                 (/\ Dependencies(formulas)[n] \subseteq S
                  /\ \A m \in S : Dependencies(formulas)[m] \subseteq S)
                 => Behind[n] \subseteq S
<1> DEFINE D == Dependencies(formulas)
           closed == { S \in SUBSET DOMAIN formulas : \A m \in S : D[m] \subseteq S }
<1>1. Behind[n] = { m \in DOMAIN formulas : \A S \in closed : D[n] \subseteq S => m \in S }
  BY DEF Behind
<1>2. \A m \in DOMAIN formulas : D[m] \subseteq DOMAIN formulas
  BY DEF Dependencies
<1>3. Behind[n] \subseteq DOMAIN formulas /\ D[n] \subseteq Behind[n]
  BY <1>1, <1>2
<1>4. ASSUME NEW m \in Behind[n]
      PROVE  D[m] \subseteq Behind[n]
  <2>1. m \in DOMAIN formulas /\ \A S \in closed : D[n] \subseteq S => m \in S
    BY <1>1
  <2> QED
    BY <1>1, <1>2, <2>1
<1>5. ASSUME NEW S \in SUBSET DOMAIN formulas, D[n] \subseteq S,
             \A m \in S : D[m] \subseteq S
      PROVE  Behind[n] \subseteq S
  BY <1>1, <1>5
<1> QED
  BY <1>3, <1>4, <1>5

LEMMA BehindStep ==
    ASSUME NEW n \in DOMAIN formulas
    PROVE  /\ \A m \in Behind[n] : m \in DOMAIN formulas /\ Behind[m] \subseteq Behind[n]
           /\ Behind[n] = Dependencies(formulas)[n]
                            \cup UNION { Behind[m] : m \in Dependencies(formulas)[n] }
<1> DEFINE D == Dependencies(formulas)
           S == D[n] \cup UNION { Behind[m] : m \in D[n] }
<1>1. \A m \in Behind[n] : m \in DOMAIN formulas /\ Behind[m] \subseteq Behind[n]
  BY BehindLeast
<1>2. \A m \in D[n] : m \in DOMAIN formulas /\ m \in Behind[n]
  BY BehindLeast
<1>3. S \subseteq Behind[n]
  BY <1>1, <1>2
<1>4. ASSUME NEW k \in S
      PROVE  D[k] \subseteq S
  <2>1. CASE k \in D[n]
    BY <1>2, <2>1, BehindLeast
  <2>2. CASE k \notin D[n]
    <3>1. PICK m \in D[n] : k \in Behind[m]
      BY <1>4, <2>2
    <3> QED
      BY <1>2, <3>1, BehindLeast
  <2> QED
    BY <2>1, <2>2
<1>5. S \subseteq DOMAIN formulas
  BY <1>3, BehindLeast
<1>6. Behind[n] \subseteq S
  <2> HIDE DEF S
  <2>1. D[n] \subseteq S
    BY DEF S
  <2> QED
    BY <1>4, <1>5, <2>1, BehindLeast
<1> QED
  BY <1>1, <1>3, <1>6

LEMMA BehindEarlier ==
    ASSUME NEW list, IsOrder(formulas, list), NEW i \in DOMAIN list
    PROVE  /\ list[i] \in DOMAIN formulas
           /\ Behind[list[i]] \subseteq { list[j] : j \in 1..(i - 1) }
           /\ \A j \in 1..(i - 1) : j \in DOMAIN list /\ list[j] # list[i]
<1> DEFINE S == { list[j] : j \in 1..(i - 1) }
<1>1. /\ DOMAIN list = 1..Len(list) /\ Len(list) \in Nat
      /\ \A j \in DOMAIN list : list[j] \in DOMAIN formulas
      /\ \A j, k \in DOMAIN list : j # k => list[j] # list[k]
      /\ \A j \in DOMAIN list :
            Dependencies(formulas)[list[j]] \subseteq { list[k] : k \in 1..(j - 1) }
  BY DEF IsOrder
<1>2. i \in Nat /\ \A j \in 1..(i - 1) : j \in DOMAIN list /\ j # i
  BY <1>1
<1>3. S \subseteq DOMAIN formulas
  BY <1>1, <1>2
<1>4. ASSUME NEW m \in S
      PROVE  Dependencies(formulas)[m] \subseteq S
  <2>1. PICK j \in 1..(i - 1) : m = list[j]
    OBVIOUS
  <2>2. \A k \in 1..(j - 1) : k \in 1..(i - 1)
    BY <1>2
  <2>3. { list[k] : k \in 1..(j - 1) } \subseteq S
    BY <2>2
  <2>4. Dependencies(formulas)[m] \subseteq { list[k] : k \in 1..(j - 1) }
    BY <1>1, <1>2, <2>1
  <2> QED
    BY <2>3, <2>4
<1>5. Dependencies(formulas)[list[i]] \subseteq S
  BY <1>1
<1>6. Behind[list[i]] \subseteq S
  <2> HIDE DEF S
  <2> QED
    BY <1>1, <1>3, <1>4, <1>5, BehindLeast
<1> QED
  BY <1>1, <1>2, <1>6

\* Nothing in an order is on a cycle or behind one.
LEMMA OrderedAcyclic ==
    ASSUME NEW list, IsOrder(formulas, list), NEW n \in ToSet(list)
    PROVE  n \in DOMAIN formulas /\ ({n} \cup Behind[n]) \cap Cyclic = {}
           /\ Behind[n] \subseteq ToSet(list)
<1>1. ASSUME NEW m \in ToSet(list)
      PROVE  /\ m \in DOMAIN formulas /\ m \notin Behind[m]
             /\ Behind[m] \subseteq ToSet(list)
  <2>1. PICK i \in DOMAIN list : m = list[i]
    BY DEF ToSet
  <2> QED
    BY <2>1, BehindEarlier DEF ToSet
<1> QED
  BY <1>1 DEF Cyclic

\* What no round resolves always has a dependency that is not resolved either;
\* the one with the least behind it is on a cycle.
LEMMA LeftOutCyclic ==
    ASSUME IsFiniteSet(DOMAIN formulas),
           NEW U \in SUBSET DOMAIN formulas,
           \A u \in U : Dependencies(formulas)[u] \cap U # {},
           NEW n \in U
    PROVE  ({n} \cup Behind[n]) \cap Cyclic # {}
<1> DEFINE X == ({n} \cup Behind[n]) \cap U
           Sizes == { Cardinality(Behind[u]) : u \in X }
<1>1. \A u \in DOMAIN formulas : IsFiniteSet(Behind[u]) /\ Cardinality(Behind[u]) \in Nat
  BY BehindLeast, FS_Subset, FS_CardinalityType
<1>2. Sizes \in SUBSET Nat /\ Sizes # {}
  BY <1>1
<1>3. PICK u \in X : \A v \in X : Cardinality(Behind[u]) <= Cardinality(Behind[v])
  <2>1. PICK k \in Sizes : \A m \in Sizes : k <= m
    <3> HIDE DEF Sizes
    <3> QED
      BY <1>2, LeastElement
  <2> QED
    BY <2>1
<1>4. PICK v \in Dependencies(formulas)[u] \cap U : TRUE
  OBVIOUS
<1>5. u \in DOMAIN formulas /\ v \in DOMAIN formulas /\ v \in Behind[u]
  BY <1>4, BehindLeast
<1>6. v \in X /\ Behind[v] \subseteq Behind[u]
  <2>1. Behind[v] \subseteq Behind[u]
    BY <1>5, BehindStep
  <2>2. v \in Behind[n]
    <3>1. CASE u = n
      BY <1>5, <3>1
    <3>2. CASE u \in Behind[n]
      BY <1>4, <3>2, BehindLeast
    <3> QED
      BY <3>1, <3>2
  <2> QED
    BY <1>4, <2>1, <2>2
<1>7. v \in Behind[v]
  <2>1. Cardinality(Behind[u]) <= Cardinality(Behind[v])
    BY <1>3, <1>6
  <2>2. IsFiniteSet(Behind[u]) /\ Cardinality(Behind[u]) \in Nat /\ Cardinality(Behind[v]) \in Nat
    BY <1>1, <1>5
  <2>3. Behind[v] = Behind[u]
    <3>1. SUFFICES ASSUME Behind[v] # Behind[u] PROVE FALSE
      OBVIOUS
    <3>2. Cardinality(Behind[v]) < Cardinality(Behind[u])
      BY <1>6, <2>2, <3>1, FS_Subset
    <3> QED
      BY <2>1, <2>2, <3>2
  <2> QED
    BY <1>5, <2>3
<1> QED
  BY <1>5, <1>6, <1>7 DEF Cyclic

-----------------------------------------------------------------------------
(* Placeholders *)

\* Max is the maximum of a set of natural numbers that has a bound.
LEMMA MaxIsLargest ==
    ASSUME NEW S \in SUBSET Nat, S # {}, NEW n \in Nat, \A x \in S : x <= n
    PROVE  Max(S) \in S /\ \A x \in S : x <= Max(S)
<1> DEFINE T == { n - x : x \in S }
<1>1. T \subseteq Nat /\ T # {}
  <2>1. \A x \in S : x \in Nat /\ x <= n /\ n - x \in Nat
    OBVIOUS
  <2>2. PICK x \in S : TRUE
    OBVIOUS
  <2> QED
    BY <2>1, <2>2
<1>2. PICK t \in T : \A u \in T : t <= u
  <2> HIDE DEF T
  <2> QED
    BY <1>1, LeastElement
<1>3. PICK m \in S : t = n - m
  OBVIOUS
<1>4. \A x \in S : m >= x
  BY <1>2, <1>3
<1> QED
  BY <1>3, <1>4 DEF Max

LEMMA ShowsMetadata ==
    ASSUME NEW answered, NEW results, NEW key \in Metadata
    PROVE  /\ DOMAIN Shows(key, answered, results) = {key} \cap Placeholders
           /\ \A k \in {key} \cap Placeholders : Shows(key, answered, results)[k] = "metadata"
<1>1. key # "values" /\ key # "calculations"
  BY ContextConstants
<1> QED
  BY <1>1 DEF Shows

LEMMA ShowsAnswers ==
    ASSUME NEW answered, NEW results
    PROVE  /\ DOMAIN Shows("values", answered, results) = answered \cap Placeholders
           /\ \A k \in answered \cap Placeholders :
                 Shows("values", answered, results)[k] = "answer"
  BY DEF Shows

LEMMA ShowsResults ==
    ASSUME NEW answered, NEW results
    PROVE  /\ DOMAIN Shows("calculations", answered, results) = DOMAIN results \cap Placeholders
           /\ \A k \in DOMAIN results \cap Placeholders :
                 Shows("calculations", answered, results)[k] =
                    IF results[k] = "value" THEN "result" ELSE "formula"
  BY DEF Shows

\* Calculations before answers before metadata.
Preferred(answered, results) ==
    [ k \in (Metadata \cup answered \cup DOMAIN results) \cap Placeholders |->
        IF k \in DOMAIN results
          THEN IF results[k] = "value" THEN "result" ELSE "formula"
        ELSE IF k \in answered THEN "answer" ELSE "metadata" ]

\* Whatever the order of the keys: what the walk leaves of the answers and the
\* calculations is put over, and only metadata remains of it.
LEMMA FlattenIs ==
    ASSUME NEW keys \in SetToSeqs(TopLevel), NEW answered, NEW results
    PROVE  FlattenContext(keys, answered, results) = Preferred(answered, results)
<1> DEFINE S     == [ key \in TopLevel |-> Shows(key, answered, results) ]
           all   == UNION { DOMAIN S[keys[i]] : i \in DOMAIN keys }
           W     == Walk(keys, answered, results)
           Every == (Metadata \cup answered \cup DOMAIN results) \cap Placeholders
<1>1. IsFiniteSet(TopLevel)
  <2>1. IsFiniteSet({"values"} \cup {"calculations"})
    BY FS_Singleton, FS_AddElement
  <2> QED
    <3>1. TopLevel = Metadata \cup ({"values"} \cup {"calculations"})
      BY DEF TopLevel
    <3> QED
      BY <2>1, <3>1, ContextConstants, FS_Union
<1>2. /\ DOMAIN keys = 1..Cardinality(TopLevel) /\ Cardinality(TopLevel) \in Nat
      /\ TopLevel = { keys[i] : i \in DOMAIN keys }
  BY <1>1, ListOf DEF ToSet
<1>3. /\ DOMAIN S["values"] = answered \cap Placeholders
      /\ \A k \in answered \cap Placeholders : S["values"][k] = "answer"
      /\ DOMAIN S["calculations"] = DOMAIN results \cap Placeholders
      /\ \A k \in DOMAIN results \cap Placeholders :
            S["calculations"][k] = IF results[k] = "value" THEN "result" ELSE "formula"
      /\ \A key \in Metadata :
            /\ DOMAIN S[key] = {key} \cap Placeholders
            /\ \A k \in {key} \cap Placeholders : S[key][k] = "metadata"
  <2>1. "values" \in TopLevel /\ "calculations" \in TopLevel /\ Metadata \subseteq TopLevel
    BY DEF TopLevel
  <2>2. /\ DOMAIN S["values"] = answered \cap Placeholders
        /\ \A k \in answered \cap Placeholders : S["values"][k] = "answer"
    BY <2>1, ShowsAnswers
  <2>3. /\ DOMAIN S["calculations"] = DOMAIN results \cap Placeholders
        /\ \A k \in DOMAIN results \cap Placeholders :
              S["calculations"][k] = IF results[k] = "value" THEN "result" ELSE "formula"
    BY <2>1, ShowsResults
  <2>4. ASSUME NEW key \in Metadata
        PROVE  /\ DOMAIN S[key] = {key} \cap Placeholders
               /\ \A k \in {key} \cap Placeholders : S[key][k] = "metadata"
    <3>1. S[key] = Shows(key, answered, results)
      BY <2>1
    <3> HIDE DEF S
    <3> QED
      BY <3>1, ShowsMetadata
  <2> HIDE DEF S
  <2> QED
    BY <2>2, <2>3, <2>4
<1>4. /\ \A i \in DOMAIN keys : S[keys[i]] = Shows(keys[i], answered, results)
      /\ DOMAIN W = all
      /\ \A k \in all :
            W[k] = Shows(keys[Max({ i \in DOMAIN keys :
                                     k \in DOMAIN Shows(keys[i], answered, results) })],
                         answered, results)[k]
  <2>1. \A i \in DOMAIN keys : S[keys[i]] = Shows(keys[i], answered, results)
    BY <1>2
  <2>2. all = UNION { DOMAIN Shows(keys[i], answered, results) : i \in DOMAIN keys }
    BY <2>1
  <2> HIDE DEF all, S
  <2> QED
    BY <2>1, <2>2 DEF Walk
<1>5. FlattenContext(keys, answered, results) = Update(Update(W, S["values"]), S["calculations"])
  BY DEF FlattenContext, TopLevel
<1> HIDE DEF S, W
<1>6. all = Every
  <2>1. all = UNION { DOMAIN S[key] : key \in TopLevel }
    BY <1>2
  <2>2. ASSUME NEW key \in TopLevel
        PROVE  DOMAIN S[key] \subseteq Every
    <3>1. CASE key \in Metadata
      BY <1>3, <3>1
    <3>2. CASE key = "values"
      BY <1>3, <3>2
    <3>3. CASE key = "calculations"
      BY <1>3, <3>3
    <3> QED
      BY <3>1, <3>2, <3>3 DEF TopLevel
  <2>3. ASSUME NEW k \in Every
        PROVE  \E key \in TopLevel : k \in DOMAIN S[key]
    <3>1. CASE k \in Metadata
      <4>1. k \in TopLevel /\ k \in DOMAIN S[k]
        BY <1>3, <3>1 DEF TopLevel
      <4> QED
        BY <4>1
    <3>2. CASE k \in answered
      <4>1. "values" \in TopLevel /\ k \in DOMAIN S["values"]
        BY <1>3, <3>2 DEF TopLevel
      <4> QED
        BY <4>1
    <3>3. CASE k \in DOMAIN results
      <4>1. "calculations" \in TopLevel /\ k \in DOMAIN S["calculations"]
        BY <1>3, <3>3 DEF TopLevel
      <4> QED
        BY <4>1
    <3> QED
      BY <3>1, <3>2, <3>3
  <2> QED
    BY <2>1, <2>2, <2>3
<1>7. ASSUME NEW k \in all, k \notin answered, k \notin DOMAIN results
      PROVE  W[k] = "metadata"
  <2>1. PICK by : by = { i \in DOMAIN keys : k \in DOMAIN Shows(keys[i], answered, results) }
    OBVIOUS
  <2>2. Max(by) \in by
    <3>1. PICK i \in DOMAIN keys : k \in DOMAIN S[keys[i]]
      BY <1>7
    <3>2. i \in by /\ by \subseteq 1..Cardinality(TopLevel)
      BY <1>2, <1>4, <2>1, <3>1
    <3>3. Cardinality(TopLevel) \in Nat
      BY <1>2
    <3>4. \A m \in by : m \in Nat /\ m <= Cardinality(TopLevel)
      BY <3>2, <3>3
    <3> QED
      BY <3>2, <3>3, <3>4, MaxIsLargest
  <2>3. PICK key \in TopLevel : k \in DOMAIN S[key] /\ W[k] = S[key][k]
    BY <1>2, <1>4, <2>1, <2>2
  <2>4. key \in Metadata
    BY <1>3, <1>7, <2>3 DEF TopLevel
  <2> QED
    BY <1>3, <2>3, <2>4
<1> HIDE DEF all
<1>8. DOMAIN W = Every
  BY <1>4, <1>6
<1> QED
  <2>1. Update(W, S["values"]) =
          [ k \in Every |-> IF k \in answered THEN "answer" ELSE W[k] ]
    BY <1>3, <1>8 DEF Update
  <2>2. PICK f : f = Update(W, S["values"])
    OBVIOUS
  <2>3. Update(f, S["calculations"]) =
          [ k \in Every |-> IF k \in DOMAIN results THEN S["calculations"][k] ELSE f[k] ]
    BY <1>3, <2>1, <2>2 DEF Update
  <2>4. ASSUME NEW k \in Every
        PROVE  (IF k \in DOMAIN results THEN S["calculations"][k] ELSE f[k]) =
               (IF k \in DOMAIN results
                  THEN IF results[k] = "value" THEN "result" ELSE "formula"
                ELSE IF k \in answered THEN "answer" ELSE "metadata")
    BY <1>3, <1>6, <1>7, <2>1, <2>2
  <2> QED
    BY <1>5, <2>2, <2>3, <2>4 DEF Preferred

-----------------------------------------------------------------------------
(* The invariant *)

OrderSound ==
    /\ IsOrder(formulas, order)
    /\ DOMAIN remaining \subseteq DOMAIN formulas \ ToSet(order)
    /\ phase \in {"order", "evaluate"} =>
          remaining = [ n \in DOMAIN formulas \ ToSet(order) |-> Dependencies(formulas)[n] ]
    /\ phase = "evaluate" => Ready = {}

\* A result is a value or nothing, and a calculation goes on with results only.
IsResult(outcome) == outcome.status = "ok" /\ outcome.detail \in {"value", "nothing"}

OutcomesSound ==
    /\ phase = "order" => outcomes = Empty /\ saw = Empty /\ at = 1 /\ space = Fresh
    /\ phase = "evaluate" => DOMAIN outcomes = { order[j] : j \in 1..(at - 1) }
    /\ \A n \in DOMAIN outcomes : outcomes[n].status = "ok" => IsResult(outcomes[n])
    /\ run = "calculate" /\ phase = "evaluate" =>
          \A n \in DOMAIN outcomes : IsResult(outcomes[n])

Inv ==
    /\ TypeOK
    /\ DraftSound
    /\ ValuesSound
    /\ OrderSound
    /\ OutcomesSound
    /\ PlaceholdersShow

LEMMA FormulasFinite ==
    ASSUME DraftSound
    PROVE  /\ IsFiniteSet(DOMAIN formulas) /\ Cardinality(DOMAIN formulas) \in Nat
           /\ \A S \in SUBSET DOMAIN formulas :
                 /\ IsFiniteSet(S) /\ Cardinality(S) \in Nat
                 /\ Cardinality(S) <= Cardinality(DOMAIN formulas)
  BY NamesFinite, FS_Subset, FS_CardinalityType DEF DraftSound

\* An order is no longer than there are formulas outside of U to put in it.
LEMMA OrderSize ==
    ASSUME DraftSound, NEW list, IsOrder(formulas, list),
           NEW U \in SUBSET DOMAIN formulas, U \cap ToSet(list) = {}
    PROVE  /\ Cardinality(ToSet(list)) = Len(list) /\ Len(list) \in Nat
           /\ ToSet(list) \subseteq DOMAIN formulas
           /\ Len(list) + Cardinality(U) <= Cardinality(DOMAIN formulas)
<1>1. /\ DOMAIN list = 1..Len(list) /\ Len(list) \in Nat
      /\ \A i \in DOMAIN list : list[i] \in DOMAIN formulas
      /\ \A i, j \in DOMAIN list : i # j => list[i] # list[j]
  BY DEF IsOrder
<1>2. list \in Bijection(1..Len(list), ToSet(list))
  <2>1. list \in [1..Len(list) -> ToSet(list)]
    BY <1>1 DEF IsOrder, ToSet
  <2> QED
    BY <1>1, <2>1 DEF Bijection, Injection, Surjection, IsInjective, ToSet
<1>3. Cardinality(ToSet(list)) = Len(list) /\ IsFiniteSet(ToSet(list))
  <2>1. ExistsBijection(1..Len(list), ToSet(list))
    BY <1>2 DEF ExistsBijection
  <2>2. IsFiniteSet(1..Len(list)) /\ Cardinality(1..Len(list)) = Len(list)
    BY <1>1, FS_Interval
  <2> QED
    BY <2>1, <2>2, FS_Bijection
<1>4. ToSet(list) \subseteq DOMAIN formulas
  BY <1>1 DEF ToSet
<1>5. Cardinality(ToSet(list) \cup U) = Len(list) + Cardinality(U)
  <2>1. IsFiniteSet(U)
    BY FormulasFinite
  <2>2. Cardinality(ToSet(list) \cap U) = 0
    <3>1. ToSet(list) \cap U = {}
      OBVIOUS
    <3> QED
      BY <3>1, FS_EmptySet
  <2>3. Cardinality(U) \in Nat
    BY <2>1, FS_CardinalityType
  <2> QED
    <3>1. Cardinality(ToSet(list) \cup U) =
             Cardinality(ToSet(list)) + Cardinality(U) - Cardinality(ToSet(list) \cap U)
      BY <1>3, <2>1, FS_Union
    <3> QED
      BY <1>1, <1>3, <2>2, <2>3, <3>1
<1>6. Cardinality(ToSet(list) \cup U) <= Cardinality(DOMAIN formulas)
  BY <1>4, FormulasFinite
<1> QED
  BY <1>1, <1>3, <1>4, <1>5, <1>6

LEMMA EmptyOrder ==
    ASSUME NEW F
    PROVE  IsOrder(F, <<>>) /\ ToSet(<<>>) = {} /\ Len(<<>>) = 0
  BY DEF IsOrder, ToSet

\* The values before the loop over the slots begins.
LEMMA NothingFilled ==
    ASSUME DraftSound
    PROVE  FilledFrom(draft.answers, draft.answers, forms, {})
  BY DEF DraftSound, FilledFrom

LEMMA SameDraft ==
    ASSUME DraftSound, draft' = draft
    PROVE  DraftSound' /\ forms' = forms /\ formulas' = formulas
  BY DEF DraftSound, forms, formulas

LEMMA InitInv == Init => Inv
<1> SUFFICES ASSUME Init PROVE Inv
  OBVIOUS
<1>1. PICK family \in Families :
         draft \in [ client : family.forms, lab : family.forms,
                     answers : family.answers, formulas : family.formulas ]
  BY DEF Init
<1>2. /\ draft = [ client |-> draft.client, lab |-> draft.lab,
                   answers |-> draft.answers, formulas |-> draft.formulas ]
      /\ draft.client \in family.forms /\ draft.lab \in family.forms
      /\ draft.answers \in family.answers /\ draft.formulas \in family.formulas
  BY <1>1
<1>3. DraftSound
  <2>1. IsForm(draft.client) /\ IsForm(draft.lab)
    BY <1>2, CalculationConstants
  <2>2. AreForms(forms)
    BY <2>1 DEF AreForms, forms
  <2>3. /\ DOMAIN draft.answers \subseteq Ids
        /\ draft.answers \in [DOMAIN draft.answers -> Values]
    BY <1>2, CalculationConstants
  <2>4. DOMAIN formulas \subseteq Names /\ formulas \in [DOMAIN formulas -> Formulas]
    BY <1>2, CalculationConstants DEF formulas
  <2> QED
    BY <1>2, <2>2, <2>3, <2>4 DEF DraftSound
<1>4. DOMAIN Empty = {}
  BY DEF Empty
<1>5. TypeOK
  <2>1. run \in {"dry_run", "calculate"}
    BY DEF Init
  <2>2. phase \in {"collect", "order", "evaluate", "report", "done"}
    BY DEF Init
  <2>3. left \subseteq Slots(forms) /\ DOMAIN values \subseteq Ids
        /\ values \in [DOMAIN values -> Values]
    BY <1>3 DEF Init, DraftSound
  <2>4. /\ DOMAIN remaining \subseteq DOMAIN formulas
        /\ Len(order) + Cardinality(Unresolved) <= Cardinality(DOMAIN formulas)
        /\ at \in 1..Len(order) + 1
    <3>1. Cardinality({}) = 0 /\ Cardinality(DOMAIN formulas) \in Nat
      BY <1>3, FormulasFinite, FS_EmptySet
    <3> QED
      BY <1>4, <3>1, EmptyOrder DEF Init, Unresolved
  <2>5. space \in [Names -> {"unbound", "local", "result"}]
    BY DEF Init, Fresh
  <2>6. IsOutcomes(outcomes) /\ IsOutcomes(reply.outcomes)
    BY <1>4 DEF Init, IsOutcomes
  <2>7. reply.missing \subseteq Ids /\ reply.duplicates \subseteq Ids
    BY DEF Init
  <2>8. stored \in [DOMAIN formulas -> {"value", "nothing"}]
    BY DEF Init, formulas
  <2>9. \A k \in DOMAIN context : context[k] \in Sources
    BY <1>4 DEF Init
  <2> QED
    BY <2>1, <2>2, <2>3, <2>4, <2>5, <2>6, <2>7, <2>8, <2>9 DEF TypeOK
<1>6. ValuesSound
  BY <1>3, NothingFilled DEF Init, ValuesSound
<1>7. OrderSound
  BY <1>4, EmptyOrder DEF Init, OrderSound
<1>8. OutcomesSound
  BY <1>4 DEF Init, OutcomesSound
<1>9. PlaceholdersShow
  BY DEF Init, PlaceholdersShow
<1> QED
  BY <1>3, <1>5, <1>6, <1>7, <1>8, <1>9 DEF Inv

LEMMA CollectInv ==
    ASSUME Inv, NEW s, Collect(s)
    PROVE  Inv'
<1> USE DEF Collect, ordering, replies
<1>1. /\ draft' = draft /\ run' = run /\ phase' = phase /\ phase = "collect"
      /\ remaining' = remaining /\ order' = order /\ at' = at /\ space' = space
      /\ outcomes' = outcomes /\ saw' = saw
      /\ reply' = reply /\ stored' = stored /\ context' = context
  OBVIOUS
<1>2. DraftSound' /\ forms' = forms /\ formulas' = formulas
  BY <1>1, SameDraft DEF Inv
<1>3. /\ AreForms(forms) /\ left \subseteq Slots(forms)
      /\ \A u \in Slots(forms) \ left : \A t \in left : Earlier(u, t)
      /\ FilledFrom(values, draft.answers, forms, Slots(forms) \ left)
      /\ DOMAIN values \subseteq Ids /\ values \in [DOMAIN values -> Values]
      /\ s \in left /\ \A t \in left \ {s} : Earlier(s, t)
      /\ values' = FillDefault(values, forms, s) /\ left' = left \ {s}
  BY DEF Inv, DraftSound, ValuesSound, TypeOK
<1>4. /\ FilledFrom(values', draft.answers, forms, Slots(forms) \ left')
      /\ \A u \in Slots(forms) \ left' : \A t \in left' : Earlier(u, t)
      /\ DOMAIN values' \subseteq Ids /\ values' \in [DOMAIN values' -> Values]
  BY <1>3, FillOne
<1>5. TypeOK'
  BY <1>1, <1>2, <1>3, <1>4 DEF Inv, TypeOK, IsOutcomes, Unresolved
<1>6. ValuesSound'
  BY <1>1, <1>2, <1>3, <1>4 DEF Inv, ValuesSound
<1>7. OrderSound'
  BY <1>1, <1>2 DEF Inv, OrderSound
<1>8. OutcomesSound'
  BY <1>1 DEF Inv, OutcomesSound
<1>9. PlaceholdersShow'
  BY <1>1 DEF PlaceholdersShow
<1> QED
  BY <1>2, <1>5, <1>6, <1>7, <1>8, <1>9 DEF Inv

LEMMA CollectedInv ==
    ASSUME Inv, Collected
    PROVE  Inv'
<1> USE DEF Collected, inputs, replies
<1>1. /\ draft' = draft /\ run' = run /\ left' = left /\ values' = values
      /\ reply' = reply /\ stored' = stored /\ context' = context
      /\ phase = "collect" /\ phase' = "order" /\ left = {}
      /\ remaining' = Dependencies(formulas) /\ order' = <<>> /\ at' = 1
      /\ space' = Fresh /\ outcomes' = Empty /\ saw' = Empty
  OBVIOUS
<1>2. DraftSound' /\ forms' = forms /\ formulas' = formulas
  BY <1>1, SameDraft DEF Inv
<1>3. DOMAIN Empty = {} /\ DOMAIN Dependencies(formulas) = DOMAIN formulas
  BY DEF Empty, Dependencies
<1>4. ValuesSound'
  BY <1>1, <1>2 DEF Inv, ValuesSound
<1>5. OrderSound'
  <2>1. IsOrder(formulas', order') /\ ToSet(order') = {}
    BY <1>1, EmptyOrder
  <2>2. remaining' = [ n \in DOMAIN formulas \ {} |-> Dependencies(formulas)[n] ]
    BY <1>1, <1>3 DEF Dependencies
  <2> QED
    BY <1>1, <1>2, <1>3, <2>1, <2>2 DEF OrderSound
<1>6. OutcomesSound'
  BY <1>1, <1>3 DEF OutcomesSound
<1>7. TypeOK'
  <2>1. Len(order') + Cardinality(Unresolved') <= Cardinality(DOMAIN formulas)
    <3>1. Len(order') = 0 /\ Unresolved' = DOMAIN formulas
      BY <1>1, <1>3, EmptyOrder DEF Unresolved
    <3> QED
      BY <3>1, FormulasFinite DEF Inv
  <2>2. space' \in [Names -> {"unbound", "local", "result"}]
    BY <1>1 DEF Fresh
  <2>3. at' \in 1..Len(order') + 1
    BY <1>1, EmptyOrder
  <2>4. IsOutcomes(outcomes)' /\ IsOutcomes(reply.outcomes)'
    BY <1>1, <1>2, <1>3 DEF Inv, TypeOK, IsOutcomes
  <2> QED
    BY <1>1, <1>2, <1>3, <2>1, <2>2, <2>3, <2>4 DEF Inv, TypeOK
<1>8. PlaceholdersShow'
  BY <1>1 DEF PlaceholdersShow
<1> QED
  BY <1>2, <1>4, <1>5, <1>6, <1>7, <1>8 DEF Inv

\* What a round adds to the order.
LEMMA RoundOrder ==
    ASSUME Inv, Round
    PROVE  /\ Ready \subseteq DOMAIN formulas \ ToSet(order)
           /\ IsOrder(formulas, order')
           /\ ToSet(order') = ToSet(order) \cup Ready
           /\ Len(order') = Len(order) + Cardinality(Ready)
           /\ \A i \in 1..Len(order) : order'[i] = order[i]
           /\ \A i \in 1..Cardinality(Ready) : order'[Len(order) + i] = Sorted(Ready)[i]
           /\ remaining' = [ n \in DOMAIN formulas \ ToSet(order') |-> Dependencies(formulas)[n] ]
<1>1. /\ remaining = [ n \in DOMAIN formulas \ ToSet(order) |-> Dependencies(formulas)[n] ]
      /\ IsOrder(formulas, order)
      /\ order' = order \o Sorted(Ready)
      /\ remaining' = [ n \in DOMAIN remaining \ Ready |-> remaining[n] ]
  BY DEF Inv, OrderSound, Round, WithoutReady, Restrict
<1>2. /\ Ready \subseteq DOMAIN formulas \ ToSet(order)
      /\ \A n \in Ready : Dependencies(formulas)[n] \subseteq ToSet(order)
  BY <1>1 DEF Ready
<1>3. Sorted(Ready) \in SetToSeqs(Ready) /\ IsFiniteSet(Ready)
  <2>1. Ready \in SUBSET Names /\ Ready \in SUBSET DOMAIN formulas
    BY <1>2 DEF Inv, DraftSound
  <2> QED
    BY <2>1, SortedList, FormulasFinite DEF Inv
<1>4. PICK R : R = Ready
  OBVIOUS
<1>5. PICK list : list = order'
  OBVIOUS
<1>6. /\ IsOrder(formulas, list)
      /\ ToSet(list) = ToSet(order) \cup R
      /\ Len(list) = Len(order) + Cardinality(R)
      /\ \A i \in 1..Len(order) : list[i] = order[i]
      /\ \A i \in 1..Cardinality(R) : list[Len(order) + i] = Sorted(R)[i]
  <2>1. /\ R \in SUBSET DOMAIN formulas /\ R \cap ToSet(order) = {} /\ IsFiniteSet(R)
        /\ \A n \in R : Dependencies(formulas)[n] \subseteq ToSet(order)
        /\ Sorted(R) \in SetToSeqs(R) /\ IsOrder(formulas, order)
        /\ list = order \o Sorted(R)
    BY <1>1, <1>2, <1>3, <1>4, <1>5
  <2>2. PICK more : more = Sorted(R)
    OBVIOUS
  <2>3. /\ more \in SetToSeqs(R) /\ list = order \o more
        /\ \A n \in R : Dependencies(formulas)[n] \subseteq ToSet(order)
    BY <2>1, <2>2
  <2>4. ComesNext(formulas, order, R, more, list)
    BY <2>1, <2>3 DEF ComesNext
  <2>5. Extended(formulas, order, R, more, list)
    BY <2>4, ExtendOrder
  <2> QED
    BY <2>2, <2>5 DEF Extended
<1>7. remaining' = [ n \in DOMAIN formulas \ ToSet(list) |-> Dependencies(formulas)[n] ]
  BY <1>1, <1>2, <1>4, <1>6
<1> QED
  BY <1>2, <1>4, <1>5, <1>6, <1>7

LEMMA RoundInv ==
    ASSUME Inv, Round
    PROVE  Inv'
<1>1. /\ draft' = draft /\ run' = run /\ left' = left /\ values' = values
      /\ reply' = reply /\ stored' = stored /\ context' = context
      /\ phase = "order" /\ phase' = "order" /\ at' = at /\ space' = space
      /\ outcomes' = outcomes /\ saw' = saw
  BY DEF Round, inputs, replies
<1>2. DraftSound' /\ forms' = forms /\ formulas' = formulas
  BY <1>1, SameDraft DEF Inv
<1>3. /\ IsOrder(formulas, order')
      /\ remaining' = [ n \in DOMAIN formulas \ ToSet(order') |-> Dependencies(formulas)[n] ]
      /\ Len(order') = Len(order) + Cardinality(Ready)
      /\ Ready \in SUBSET DOMAIN formulas
  BY RoundOrder
<1>4. ValuesSound'
  BY <1>1, <1>2 DEF Inv, ValuesSound
<1>5. OrderSound'
  BY <1>1, <1>2, <1>3 DEF OrderSound
<1>6. OutcomesSound'
  BY <1>1 DEF Inv, OutcomesSound
<1>7. TypeOK'
  <2>1. /\ Len(order') + Cardinality(Unresolved') <= Cardinality(DOMAIN formulas)
        /\ Unresolved' \subseteq DOMAIN formulas /\ Len(order') \in Nat
    <3>1. Unresolved' = DOMAIN formulas \ ToSet(order')
      BY <1>3 DEF Unresolved
    <3>2. PICK U : U = Unresolved'
      OBVIOUS
    <3>3. PICK list : list = order'
      OBVIOUS
    <3>4. U \in SUBSET DOMAIN formulas /\ U \cap ToSet(list) = {} /\ IsOrder(formulas, list)
      BY <1>3, <3>1, <3>2, <3>3
    <3> QED
      BY <3>2, <3>3, <3>4, OrderSize DEF Inv
  <2>2. at' \in 1..Len(order') + 1
    <3>1. at = 1
      BY <1>1 DEF Inv, OutcomesSound
    <3> QED
      BY <1>1, <2>1, <3>1
  <2>3. IsOutcomes(outcomes)' /\ IsOutcomes(reply.outcomes)'
    BY <1>1, <1>2 DEF Inv, TypeOK, IsOutcomes
  <2> QED
    BY <1>1, <1>2, <2>1, <2>2, <2>3 DEF Inv, TypeOK, Unresolved
<1>8. PlaceholdersShow'
  BY <1>1 DEF PlaceholdersShow
<1> QED
  BY <1>2, <1>4, <1>5, <1>6, <1>7, <1>8 DEF Inv

LEMMA OrderEndsInv ==
    ASSUME Inv, OrderEnds
    PROVE  Inv'
<1>1. /\ draft' = draft /\ run' = run /\ left' = left /\ values' = values
      /\ reply' = reply /\ stored' = stored /\ context' = context
      /\ remaining' = remaining /\ order' = order /\ at' = at /\ space' = space
      /\ outcomes' = outcomes /\ saw' = saw
      /\ phase = "order" /\ phase' \in {"report", "evaluate"} /\ Ready = {}
  BY DEF OrderEnds, LoopEnds, inputs, ordering, replies
<1>2. DraftSound' /\ forms' = forms /\ formulas' = formulas
  BY <1>1, SameDraft DEF Inv
<1>3. outcomes = Empty /\ DOMAIN Empty = {} /\ at = 1
  BY <1>1 DEF Inv, OutcomesSound, Empty
<1>4. ValuesSound'
  BY <1>1, <1>2 DEF Inv, ValuesSound
<1>5. OrderSound'
  BY <1>1, <1>2 DEF Inv, OrderSound, Ready
<1>6. OutcomesSound'
  BY <1>1, <1>3 DEF OutcomesSound
<1>7. TypeOK'
  BY <1>1, <1>2 DEF Inv, TypeOK, IsOutcomes, Unresolved
<1>8. PlaceholdersShow'
  BY <1>1 DEF PlaceholdersShow
<1> QED
  BY <1>2, <1>4, <1>5, <1>6, <1>7, <1>8 DEF Inv

\* The formula whose turn it is has an outcome from now on.
LEMMA SettleInv ==
    ASSUME Inv, NEW n, NEW outcome, Turn(n), Settle(n, outcome),
           outcome.status \in Statuses, outcome.names \subseteq Names \cup Ids,
           outcome.status = "ok" => IsResult(outcome),
           phase' = "report" \/ (phase' = "evaluate" /\ (run = "calculate" => IsResult(outcome))),
           space' \in [Names -> {"unbound", "local", "result"}]
    PROVE  Inv'
<1>1. /\ draft' = draft /\ run' = run /\ left' = left /\ values' = values
      /\ reply' = reply /\ stored' = stored /\ context' = context
      /\ remaining' = remaining /\ order' = order /\ at' = at + 1
      /\ phase = "evaluate" /\ at <= Len(order) /\ n = order[at]
      /\ outcomes' = Update(outcomes, [ k \in {n} |-> outcome ])
  BY DEF Settle, Turn, inputs, ordering, replies
<1>2. DraftSound' /\ forms' = forms /\ formulas' = formulas
  BY <1>1, SameDraft DEF Inv
<1>3. /\ at \in 1..Len(order) /\ at \in Nat /\ Len(order) \in Nat
      /\ DOMAIN order = 1..Len(order) /\ n \in DOMAIN formulas
  <2>1. at \in 1..Len(order) + 1 /\ order \in Seq(DOMAIN formulas)
    BY DEF Inv, TypeOK, OrderSound, IsOrder
  <2> QED
    BY <1>1, <2>1
<1>4. /\ DOMAIN outcomes' = DOMAIN outcomes \cup {n}
      /\ \A k \in DOMAIN outcomes' : outcomes'[k] = IF k = n THEN outcome ELSE outcomes[k]
  BY <1>1 DEF Update
<1>5. ValuesSound'
  BY <1>1, <1>2 DEF Inv, ValuesSound
<1>6. OrderSound'
  BY <1>1, <1>2 DEF Inv, OrderSound, Ready
<1>7. OutcomesSound'
  <2>1. DOMAIN outcomes' = { order[j] : j \in 1..at }
    <3>1. DOMAIN outcomes = { order[j] : j \in 1..(at - 1) }
      BY <1>1 DEF Inv, OutcomesSound
    <3>2. \A j : j \in 1..at <=> j \in 1..(at - 1) \/ j = at
      BY <1>3
    <3>3. DOMAIN outcomes' = { order[j] : j \in 1..(at - 1) } \cup {order[at]}
      BY <1>1, <1>4, <3>1
    <3>4. \A k \in DOMAIN outcomes' : \E j \in 1..at : k = order[j]
      BY <3>2, <3>3
    <3>5. \A j \in 1..at : order[j] \in DOMAIN outcomes'
      BY <3>2, <3>3
    <3> QED
      BY <3>4, <3>5
  <2>2. (at + 1) - 1 = at
    BY <1>3
  <2>3. \A k \in DOMAIN outcomes' : outcomes'[k].status = "ok" => IsResult(outcomes'[k])
    BY <1>4 DEF Inv, OutcomesSound
  <2>4. run = "calculate" /\ phase' = "evaluate" => \A k \in DOMAIN outcomes' : IsResult(outcomes'[k])
    BY <1>1, <1>4 DEF Inv, OutcomesSound
  <2>5. phase' # "order"
    OBVIOUS
  <2> QED
    BY <1>1, <2>1, <2>2, <2>3, <2>4, <2>5 DEF OutcomesSound
<1>8. TypeOK'
  <2>1. at' \in 1..Len(order) + 1
    BY <1>1, <1>3
  <2>2. IsOutcomes(outcomes)'
    BY <1>2, <1>3, <1>4 DEF Inv, TypeOK, IsOutcomes
  <2>3. IsOutcomes(reply.outcomes)'
    BY <1>1, <1>2 DEF Inv, TypeOK, IsOutcomes
  <2> QED
    BY <1>1, <1>2, <2>1, <2>2, <2>3 DEF Inv, TypeOK, Unresolved
<1>9. PlaceholdersShow'
  BY DEF PlaceholdersShow
<1> QED
  BY <1>2, <1>5, <1>6, <1>7, <1>8, <1>9 DEF Inv

LEMMA FormulaTypes ==
    ASSUME Inv, NEW n, Turn(n)
    PROVE  /\ n \in DOMAIN formulas /\ n \in Names
           /\ formulas[n].names \subseteq Names /\ formulas[n].keys \subseteq Ids
           /\ formulas[n].reads \subseteq formulas[n].names
           /\ formulas[n].looks \subseteq Ids /\ formulas[n].binds \subseteq Names
           /\ formulas[n].gives \in {"value", "nothing"} \cup Errors
<1>1. /\ order \in Seq(DOMAIN formulas) /\ at \in 1..Len(order) + 1 /\ at <= Len(order)
      /\ n = order[at]
  BY DEF Inv, TypeOK, OrderSound, IsOrder, Turn
<1>2. n \in DOMAIN formulas
  BY <1>1
<1>3. n \in Names /\ formulas[n] \in Formulas
  BY <1>2 DEF Inv, DraftSound
<1> QED
  BY <1>2, <1>3 DEF Formulas

LEMMA SpaceTypes ==
    ASSUME Inv, NEW f, NEW bound
    PROVE  After(f, bound) \in [Names -> {"unbound", "local", "result"}]
<1>1. space \in [Names -> {"unbound", "local", "result"}]
  BY DEF Inv, TypeOK
<1>2. Before(f) \in [Names -> {"unbound", "local", "result"}]
  BY <1>1 DEF Before
<1> QED
  BY <1>2 DEF After

LEMMA ErrorIs ==
    ASSUME NEW f, NEW e \in ErrorsOf(f)
    PROVE  \/ e.kind = "undefined_name" /\ \E m \in Unbound(f) : e.names = {m}
           \/ e.kind = "missing_value" /\ \E id \in Missing(f) : e.names = {id}
           \/ e.kind = f.gives /\ f.gives \in Errors /\ e.names \subseteq Names \cup Ids
<1>1. CASE e \in [ kind : {"undefined_name"}, names : { {m} : m \in Unbound(f) } ]
  BY <1>1
<1>2. CASE e \in [ kind : {"missing_value"}, names : { {id} : id \in Missing(f) } ]
  BY <1>2
<1>3. CASE f.gives \in Errors /\ e \in [ kind : {f.gives}, names : OwnNames(f) ]
  <2>1. e.kind = f.gives /\ e.names \in OwnNames(f)
    BY <1>3
  <2>2. \A names \in OwnNames(f) : names \subseteq Names \cup Ids
    BY <1>3 DEF OwnNames, Errors
  <2> QED
    BY <1>3, <2>1, <2>2
<1> QED
  BY <1>1, <1>2, <1>3 DEF ErrorsOf

\* A formula that raises an error otherwise cannot succeed.
LEMMA OwnError ==
    ASSUME NEW f, f.gives \in Errors
    PROVE  ErrorsOf(f) # {}
<1>1. {} \in OwnNames(f)
  BY DEF OwnNames, Errors
<1>2. [kind |-> f.gives, names |-> {}] \in ErrorsOf(f)
  BY <1>1 DEF ErrorsOf
<1> QED
  BY <1>2

LEMMA SkipInv ==
    ASSUME Inv, NEW n, Skip(n)
    PROVE  Inv'
<1>1. /\ Turn(n) /\ run = "dry_run" /\ phase' = phase /\ phase = "evaluate" /\ space' = space
      /\ Settle(n, OutcomeOf("skipped", "dependency_failed", BlockedBy(formulas[n])))
  BY DEF Skip, Blocked, Turn
<1>2. BlockedBy(formulas[n]) \subseteq Names
  BY <1>1, FormulaTypes DEF BlockedBy
<1>3. PICK o : o = OutcomeOf("skipped", "dependency_failed", BlockedBy(formulas[n]))
  OBVIOUS
<1>4. o.status = "skipped" /\ o.names \subseteq Names
  BY <1>2, <1>3 DEF OutcomeOf
<1>5. space' \in [Names -> {"unbound", "local", "result"}]
  BY <1>1 DEF Inv, TypeOK
<1> QED
  BY <1>1, <1>3, <1>4, <1>5, SettleInv DEF Statuses

LEMMA SucceedInv ==
    ASSUME Inv, NEW n, Succeed(n)
    PROVE  Inv'
<1>1. /\ Turn(n) /\ phase' = phase /\ phase = "evaluate" /\ ErrorsOf(formulas[n]) = {}
      /\ space' = [After(formulas[n], formulas[n].binds) EXCEPT ![n] = "result"]
      /\ Settle(n, OutcomeOf("ok", ValueOf(formulas[n]), {}))
  BY DEF Succeed, Turn, Exported
<1>2. ValueOf(formulas[n]) \in {"value", "nothing"}
  <2>1. formulas[n].gives \notin Errors
    BY <1>1, OwnError
  <2> QED
    BY <1>1, <2>1, FormulaTypes DEF ValueOf
<1>3. PICK o : o = OutcomeOf("ok", ValueOf(formulas[n]), {})
  OBVIOUS
<1>4. o.status = "ok" /\ o.names = {} /\ IsResult(o)
  BY <1>2, <1>3 DEF OutcomeOf, IsResult
<1>5. space' \in [Names -> {"unbound", "local", "result"}]
  BY <1>1, SpaceTypes
<1> QED
  BY <1>1, <1>3, <1>4, <1>5, SettleInv DEF Statuses

LEMMA FailInv ==
    ASSUME Inv, NEW n, Fail(n)
    PROVE  Inv'
<1>1. PICK e \in ErrorsOf(formulas[n]) :
         /\ Settle(n, OutcomeOf("error", e.kind, e.names))
         /\ \/ \E bound \in SUBSET formulas[n].binds : space' = After(formulas[n], bound)
            \/ e.kind = "other" /\ UNCHANGED space
  BY DEF Fail
<1>2. Turn(n) /\ phase' = (IF run = "calculate" THEN "report" ELSE phase) /\ phase = "evaluate"
  BY DEF Fail, Turn
<1>3. e.names \subseteq Names \cup Ids
  BY <1>2, ErrorIs, FormulaTypes DEF Unbound, Missing
<1>4. PICK o : o = OutcomeOf("error", e.kind, e.names)
  OBVIOUS
<1>5. o.status = "error" /\ o.names \subseteq Names \cup Ids
  BY <1>3, <1>4 DEF OutcomeOf
<1>6. space' \in [Names -> {"unbound", "local", "result"}]
  BY <1>1, SpaceTypes DEF Inv, TypeOK
<1> QED
  BY <1>1, <1>2, <1>4, <1>5, <1>6, SettleInv DEF Statuses

LEMMA AnswerDryRunInv ==
    ASSUME Inv, AnswerDryRun
    PROVE  Inv'
<1> DEFINE circular == [ n \in Unresolved |-> OutcomeOf("error", "circular", Unresolved \ {n}) ]
<1>1. /\ draft' = draft /\ run = "dry_run" /\ run' = "calculate"
      /\ phase = "evaluate" /\ phase' = "collect"
      /\ left' = Slots(forms) /\ values' = draft.answers
      /\ remaining' = remaining /\ order' = order /\ at' = at /\ space' = space
      /\ outcomes' = outcomes /\ saw' = saw /\ stored' = stored /\ context' = context
  BY DEF AnswerDryRun, ordering
<1>2. /\ reply'.missing = (UNION { formulas[n].keys : n \in DOMAIN formulas }) \ DOMAIN values
      /\ reply'.duplicates = DuplicateIds(forms)
      /\ reply'.outcomes = Update(outcomes, circular)
  BY DEF AnswerDryRun
<1>3. DraftSound' /\ forms' = forms /\ formulas' = formulas
  BY <1>1, SameDraft DEF Inv
<1>4. ValuesSound'
  <2>1. FilledFrom(draft.answers, draft.answers, forms, {})
    BY NothingFilled DEF Inv
  <2>2. Slots(forms) \ Slots(forms) = {}
    OBVIOUS
  <2> QED
    BY <1>1, <1>2, <1>3, <2>1, <2>2 DEF ValuesSound
<1>5. OrderSound'
  BY <1>1, <1>3 DEF Inv, OrderSound
<1>6. OutcomesSound'
  BY <1>1 DEF Inv, OutcomesSound
<1>7. TypeOK'
  <2>1. DOMAIN values' \subseteq Ids /\ values' \in [DOMAIN values' -> Values]
    BY <1>1 DEF Inv, DraftSound
  <2>2. IsOutcomes(outcomes)'
    BY <1>1, <1>3 DEF Inv, TypeOK, IsOutcomes
  <2>3. IsOutcomes(reply.outcomes)'
    <3>1. Unresolved \subseteq DOMAIN formulas /\ DOMAIN formulas \subseteq Names
      BY DEF Inv, TypeOK, DraftSound, Unresolved
    <3>2. /\ DOMAIN reply'.outcomes = DOMAIN outcomes \cup Unresolved
          /\ \A n \in DOMAIN outcomes \cup Unresolved :
                reply'.outcomes[n] = IF n \in Unresolved
                                       THEN OutcomeOf("error", "circular", Unresolved \ {n})
                                       ELSE outcomes[n]
      BY <1>2 DEF Update
    <3>3. \A n \in Unresolved :
            /\ OutcomeOf("error", "circular", Unresolved \ {n}).status \in Statuses
            /\ OutcomeOf("error", "circular", Unresolved \ {n}).names \subseteq Names
      BY <3>1 DEF OutcomeOf, Statuses
    <3>4. \A n \in DOMAIN outcomes :
            outcomes[n].status \in Statuses /\ outcomes[n].names \subseteq Names \cup Ids
      BY DEF Inv, TypeOK, IsOutcomes
    <3>5. DOMAIN outcomes \subseteq DOMAIN formulas
      BY DEF Inv, TypeOK, IsOutcomes
    <3> QED
      BY <1>3, <3>1, <3>2, <3>3, <3>4, <3>5 DEF IsOutcomes
  <2>4. reply'.missing \subseteq Ids /\ reply'.duplicates \subseteq Ids
    <3>1. \A n \in DOMAIN formulas : formulas[n].keys \subseteq Ids
      BY DEF Inv, DraftSound, Formulas
    <3>2. DuplicateIds(forms) \subseteq Ids
      BY DuplicateTypes DEF Inv, DraftSound
    <3> QED
      BY <1>2, <3>1, <3>2
  <2> QED
    BY <1>1, <1>3, <2>1, <2>2, <2>3, <2>4 DEF Inv, TypeOK, Unresolved
<1>8. PlaceholdersShow'
  BY <1>1 DEF PlaceholdersShow
<1> QED
  BY <1>3, <1>4, <1>5, <1>6, <1>7, <1>8 DEF Inv

\* What was collected is complete: collected again, it stays as it is.
LEMMA StoreInv ==
    ASSUME Inv, Store
    PROVE  Inv'
<1>1. /\ phase = "evaluate" /\ run = "calculate" /\ phase' = "report"
      /\ run' = run /\ left' = left /\ values' = values /\ remaining' = remaining
      /\ order' = order /\ at' = at /\ space' = space /\ outcomes' = outcomes
      /\ saw' = saw /\ reply' = reply /\ context' = context
      /\ draft' = [draft EXCEPT !.answers = values]
      /\ stored' = [ n \in DOMAIN formulas |->
                       IF n \in DOMAIN outcomes THEN outcomes[n].detail ELSE "nothing" ]
  BY DEF Store, ordering
<1>2. /\ draft'.client = draft.client /\ draft'.lab = draft.lab
      /\ draft'.formulas = draft.formulas /\ draft'.answers = values
      /\ draft' = [ client |-> draft.client, lab |-> draft.lab,
                    answers |-> values, formulas |-> draft.formulas ]
  BY <1>1 DEF Inv, DraftSound
<1>3. forms' = forms /\ formulas' = formulas
  BY <1>2 DEF forms, formulas
<1>4. DOMAIN values \subseteq Ids /\ values \in [DOMAIN values -> Values]
  BY DEF Inv, TypeOK
<1>5. DraftSound'
  BY <1>2, <1>3, <1>4 DEF Inv, DraftSound
<1>6. ValuesSound'
  <2>1. left = {} /\ FilledFrom(values, draft.answers, forms, Slots(forms) \ left)
    BY <1>1 DEF Inv, ValuesSound
  <2>2. Slots(forms) \ left = Slots(forms)
    BY <2>1
  <2>3. FilledFrom(values, values, forms, Slots(forms))
    BY <2>1, <2>2, FilledAll, Complete
  <2> QED
    BY <1>1, <1>2, <1>3, <2>1, <2>2, <2>3 DEF Inv, ValuesSound
<1>7. OrderSound'
  BY <1>1, <1>3 DEF Inv, OrderSound
<1>8. OutcomesSound'
  BY <1>1 DEF Inv, OutcomesSound
<1>9. TypeOK'
  <2>1. stored' \in [DOMAIN formulas -> {"value", "nothing"}]
    BY <1>1 DEF Inv, OutcomesSound, IsResult
  <2>2. IsOutcomes(outcomes)' /\ IsOutcomes(reply.outcomes)'
    BY <1>1, <1>3 DEF Inv, TypeOK, IsOutcomes
  <2> QED
    BY <1>1, <1>3, <2>1, <2>2 DEF Inv, TypeOK, Unresolved
<1>10. PlaceholdersShow'
  BY <1>1 DEF PlaceholdersShow
<1> QED
  BY <1>5, <1>6, <1>7, <1>8, <1>9, <1>10 DEF Inv

LEMMA ReportInv ==
    ASSUME Inv, Report
    PROVE  Inv'
<1>1. /\ phase = "report" /\ phase' = "done"
      /\ draft' = draft /\ run' = run /\ left' = left /\ values' = values
      /\ remaining' = remaining /\ order' = order /\ at' = at /\ space' = space
      /\ outcomes' = outcomes /\ saw' = saw /\ reply' = reply /\ stored' = stored
  BY DEF Report, inputs, ordering
<1>2. DraftSound' /\ forms' = forms /\ formulas' = formulas
  BY <1>1, SameDraft DEF Inv
<1>3. PICK keys \in SetToSeqs(TopLevel) :
         context' = FlattenContext(keys, DOMAIN draft.answers, stored)
  BY DEF Report
<1>4. context' = [ k \in (Metadata \cup DOMAIN draft.answers \cup DOMAIN stored) \cap Placeholders |->
                     IF k \in DOMAIN stored
                       THEN IF stored[k] = "value" THEN "result" ELSE "formula"
                     ELSE IF k \in DOMAIN draft.answers THEN "answer" ELSE "metadata" ]
  <2>1. context' = Preferred(DOMAIN draft.answers, stored)
    BY <1>3, FlattenIs
  <2> QED
    BY <2>1 DEF Preferred
<1>5. PlaceholdersShow'
  BY <1>1, <1>4 DEF PlaceholdersShow
<1>6. TypeOK'
  <2>1. \A k \in DOMAIN context' : context'[k] \in Sources
    BY <1>4 DEF Sources
  <2>2. IsOutcomes(outcomes)' /\ IsOutcomes(reply.outcomes)'
    BY <1>1, <1>2 DEF Inv, TypeOK, IsOutcomes
  <2> QED
    BY <1>1, <1>2, <2>1, <2>2 DEF Inv, TypeOK, Unresolved
<1>7. ValuesSound'
  BY <1>1, <1>2 DEF Inv, ValuesSound
<1>8. OrderSound'
  BY <1>1, <1>2 DEF Inv, OrderSound
<1>9. OutcomesSound'
  BY <1>1 DEF Inv, OutcomesSound
<1> QED
  BY <1>2, <1>5, <1>6, <1>7, <1>8, <1>9 DEF Inv

LEMMA SameInv ==
    ASSUME Inv, UNCHANGED vars
    PROVE  Inv'
<1>1. /\ draft' = draft /\ run' = run /\ phase' = phase /\ left' = left /\ values' = values
      /\ remaining' = remaining /\ order' = order /\ at' = at /\ space' = space
      /\ outcomes' = outcomes /\ saw' = saw /\ reply' = reply /\ stored' = stored
      /\ context' = context
  BY DEF vars
<1>2. DraftSound' /\ forms' = forms /\ formulas' = formulas
  BY <1>1, SameDraft DEF Inv
<1>3. TypeOK'
  BY <1>1, <1>2 DEF Inv, TypeOK, IsOutcomes, Unresolved
<1>4. ValuesSound'
  BY <1>1, <1>2 DEF Inv, ValuesSound
<1>5. OrderSound'
  BY <1>1, <1>2 DEF Inv, OrderSound, Ready
<1>6. OutcomesSound'
  BY <1>1 DEF Inv, OutcomesSound
<1>7. PlaceholdersShow'
  BY <1>1 DEF Inv, PlaceholdersShow
<1> QED
  BY <1>2, <1>3, <1>4, <1>5, <1>6, <1>7 DEF Inv

LEMMA NextInv ==
    ASSUME Inv, [Next]_vars
    PROVE  Inv'
<1>1. CASE UNCHANGED vars
  BY <1>1, SameInv
<1>2. CASE Advance
  <2>1. CASE Collected
    BY <2>1, CollectedInv
  <2>2. CASE Round
    BY <2>2, RoundInv
  <2>3. CASE OrderEnds
    BY <2>3, OrderEndsInv
  <2>4. CASE AnswerDryRun
    BY <2>4, AnswerDryRunInv
  <2>5. CASE Store
    BY <2>5, StoreInv
  <2>6. CASE Report
    BY <2>6, ReportInv
  <2>7. CASE \E s \in left : Collect(s)
    BY <2>7, CollectInv
  <2>8. CASE \E n \in Names : Evaluate(n)
    BY <2>8, SkipInv, SucceedInv, FailInv DEF Evaluate
  <2> QED
    BY <1>2, <2>1, <2>2, <2>3, <2>4, <2>5, <2>6, <2>7, <2>8 DEF Advance
<1> QED
  BY <1>1, <1>2 DEF Next, Done

LEMMA Invariance == Spec => []Inv
<1>1. Init => Inv
  BY InitInv
<1>2. Inv /\ [Next]_vars => Inv'
  BY NextInv
<1> QED
  BY <1>1, <1>2, PTL DEF Spec

\* What is collected is what is expected.
LEMMA CollectedAll ==
    ASSUME Inv
    PROVE  ValuesCollected
<1> SUFFICES ASSUME phase # "collect"
             PROVE  /\ values = ExpectedValues(draft.answers, forms)
                    /\ (run = "calculate" /\ reply.duplicates = {}) =>
                          values = ExpectedValues(draft.answers, <<draft.lab, draft.client>>)
  BY DEF ValuesCollected
<1>1. /\ left = {} /\ FilledFrom(values, draft.answers, forms, Slots(forms) \ left)
      /\ run = "calculate" => reply.duplicates = DuplicateIds(forms)
  BY DEF Inv, ValuesSound
<1>2. Slots(forms) \ left = Slots(forms)
  BY <1>1
<1>3. values = ExpectedValues(draft.answers, forms)
  BY <1>1, <1>2, FilledAll
<1>4. IsForm(draft.client) /\ IsForm(draft.lab)
  <2>1. AreForms(forms)
    BY DEF Inv, DraftSound
  <2> QED
    BY <2>1 DEF AreForms, forms
<1>5. ASSUME run = "calculate", reply.duplicates = {}
      PROVE  ExpectedValues(draft.answers, forms)
               = ExpectedValues(draft.answers, <<draft.lab, draft.client>>)
  <2>1. DuplicateIds(<<draft.client, draft.lab>>) = {}
    BY <1>1, <1>5 DEF forms
  <2> QED
    BY <1>4, <2>1, SwapForms DEF forms
<1> QED
  BY <1>3, <1>5

\* What the rounds have not resolved when they end is on or behind a cycle.
LEMMA ExactOrder ==
    ASSUME Inv
    PROVE  OrderExact
<1> SUFFICES ASSUME phase = "evaluate"
             PROVE  /\ \A i \in DOMAIN order :
                          Dependencies(formulas)[order[i]]
                             \subseteq { order[j] : j \in 1..(i - 1) }
                    /\ Cardinality(ToSet(order)) = Len(order)
                    /\ ToSet(order) = { n \in DOMAIN formulas :
                                          ({n} \cup Behind[n]) \cap Cyclic = {} }
  BY DEF OrderExact, Ordered
<1>1. /\ IsOrder(formulas, order) /\ DraftSound /\ Ready = {}
      /\ remaining = [ n \in DOMAIN formulas \ ToSet(order) |-> Dependencies(formulas)[n] ]
  BY DEF Inv, OrderSound
<1>2. PICK U : U = DOMAIN formulas \ ToSet(order)
  OBVIOUS
<1>3. Cardinality(ToSet(order)) = Len(order) /\ ToSet(order) \subseteq DOMAIN formulas
  <2>1. U \in SUBSET DOMAIN formulas /\ U \cap ToSet(order) = {}
    BY <1>2
  <2> QED
    BY <1>1, <2>1, OrderSize
<1>4. \A n \in ToSet(order) : ({n} \cup Behind[n]) \cap Cyclic = {}
  BY <1>1, OrderedAcyclic
<1>5. \A u \in U : Dependencies(formulas)[u] \cap U # {}
  <2>1. SUFFICES ASSUME NEW u \in U, Dependencies(formulas)[u] \cap U = {}
                 PROVE  FALSE
    OBVIOUS
  <2>2. Dependencies(formulas)[u] \subseteq DOMAIN formulas
    BY <1>2 DEF Dependencies
  <2>3. Dependencies(formulas)[u] \subseteq ToSet(order)
    BY <1>2, <2>1, <2>2
  <2>4. u \in Ready
    BY <1>1, <1>2, <2>3 DEF Ready
  <2> QED
    BY <1>1, <2>4
<1>6. \A n \in U : ({n} \cup Behind[n]) \cap Cyclic # {}
  <2>1. IsFiniteSet(DOMAIN formulas) /\ U \in SUBSET DOMAIN formulas
    BY <1>1, <1>2, FormulasFinite
  <2> QED
    BY <1>5, <2>1, LeftOutCyclic
<1>7. \A i \in DOMAIN order :
         Dependencies(formulas)[order[i]] \subseteq { order[j] : j \in 1..(i - 1) }
  BY <1>1 DEF IsOrder
<1> QED
  BY <1>2, <1>3, <1>4, <1>6, <1>7

-----------------------------------------------------------------------------
\* The types, among them that the order never holds a formula twice: it and
\* what has no place yet are together no more than the formulas.
THEOREM TypeCorrect == Spec => []TypeOK
<1>1. Inv => TypeOK
  BY DEF Inv
<1> QED
  BY <1>1, Invariance, PTL

\* For all forms: an id gets its answer, or else the first default for it in
\* the order of the forms (collect_values), also in a document that was
\* calculated before; and when find_duplicate_question_ids reports nothing, the
\* order of the forms does not matter.
THEOREM ValuesAreComplete == Spec => []ValuesCollected
<1>1. Inv => ValuesCollected
  BY CollectedAll
<1> QED
  BY <1>1, Invariance, PTL

\* For all formulas and names: _resolve_order puts each formula once, after all
\* it refers to, and leaves out exactly those on a cycle and those behind one.
THEOREM OrderIsExact == Spec => []OrderExact
<1>1. Inv => OrderExact
  BY ExactOrder
<1> QED
  BY <1>1, Invariance, PTL

\* For all documents, in whatever order their keys are stored: flatten_context
\* lets a calculation win over an answer, and an answer over metadata.
THEOREM PlaceholdersPreferResults == Spec => []PlaceholdersShow
<1>1. Inv => PlaceholdersShow
  BY DEF Inv
<1> QED
  BY <1>1, Invariance, PTL
=============================================================================
