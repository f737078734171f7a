-------------------------- MODULE GuildSessionsProofs --------------------------
(***************************************************************************)
(* Proofs that the cutover to the guild index misses no session, and that  *)
(* a listing misses none that stays in its place, for any number of        *)
(* sessions, any situation and any page size.                              *)
(*                                                                         *)
(* The cutover: what the verification has passed stays as it was verified, *)
(* because every writer and the backfill itself leave the keys of what     *)
(* they save.                                                              *)
(*                                                                         *)
(* The listing: a session whose place stays the same is in the result, or  *)
(* in the page that is read again, or ahead of the cursor of its state,    *)
(* from the first page to the last.                                        *)
(***************************************************************************)
EXTENDS GuildSessions, FiniteSetTheorems, NaturalsInduction, TLAPS

Complete(s) == item[s].keys = Keys(item[s])

ItemType == [state : States \cup {None}, at : Nat,
             keys : [state : States \cup {None}, at : Nat]]

ItemsTyped == item \in [Sessions -> ItemType] /\ clock \in Nat

\* The pass over the source is the one that looks at the keys; the pass over
\* the index follows it, and the marker follows both.
VerifiedInv ==
    /\ ItemsTyped
    /\ operator.stage = "source" /\ ~operator.missing =>
          \A s \in Sessions \ operator.left : Complete(s)
    /\ operator.stage = "index" /\ ~operator.missing => \A s \in Sessions : Complete(s)
    /\ CutoverIsComplete

-----------------------------------------------------------------------------
(* Items                                                                   *)

LEMMA SavedItem ==
    ASSUME NEW st, NEW at
    PROVE  LET i == toSessionItem(st, at) IN i.keys = Keys(i)
BY DEF toSessionItem, Keys

LEMMA ProjectedItem ==
    ASSUME NEW i \in ItemType
    PROVE  LET j == [i EXCEPT !.keys = Keys(i)]
           IN  j \in ItemType /\ j.keys = Keys(j)
BY DEF ItemType, Keys

LEMMA MissingItem ==
    ASSUME NEW s \in Sessions, ~Exists(s) PROVE Complete(s)
BY DEF Exists, Complete, NoItem, NoKeys, Keys

LEMMA VerifiedInit == Init => VerifiedInv
<1> SUFFICES ASSUME Init PROVE VerifiedInv
  OBVIOUS
<1>1. ItemsTyped
  BY GuildAssumption DEF Init, ItemsTyped, ItemType, NoItem, NoKeys
<1>2. operator.stage = "idle"
  BY DEF Init, NoOperator
<1>3. ASSUME cutover, NEW s \in Sessions PROVE Complete(s)
  <2>1. situation \in Situations /\ situation.cutover
    BY <1>3 DEF Init
  <2>2. CASE s \notin DOMAIN situation.stored
    BY <2>2, MissingItem DEF Init, Exists
  <2>3. CASE s \in DOMAIN situation.stored
    <3>1. s \notin situation.legacy
      BY <2>1, <2>3, GuildAssumption
    <3>2. QED
      BY <2>3, <3>1 DEF Init, Complete, Keys
  <2>4. QED
    BY <2>2, <2>3
<1>4. QED
  BY <1>1, <1>2, <1>3 DEF VerifiedInv, CutoverIsComplete, Complete

-----------------------------------------------------------------------------
(* Steps                                                                   *)

(* A save and a projection only make items complete.                       *)
LEMMA SaveKeepsComplete ==
    ASSUME ItemsTyped, NEW s \in Sessions, NEW st \in States, Save(s, st)
    PROVE  /\ ItemsTyped'
           /\ \A x \in Sessions : Complete(x) => Complete(x)'
<1>1. clock' \in Nat
  BY DEF Save, ItemsTyped
<1>2. toSessionItem(st, clock') \in ItemType
  BY <1>1 DEF toSessionItem, ItemType
<1>3. item' = [item EXCEPT ![s] = toSessionItem(st, clock')]
  BY DEF Save
<1>4. item' \in [Sessions -> ItemType]
  BY <1>2, <1>3 DEF ItemsTyped
<1>5. ASSUME NEW x \in Sessions, Complete(x) PROVE Complete(x)'
  <2>1. CASE x = s
    BY <2>1, <1>3, SavedItem DEF Complete, ItemsTyped
  <2>2. CASE x # s
    BY <2>2, <1>3, <1>5 DEF Complete, ItemsTyped
  <2>3. QED
    BY <2>1, <2>2
<1>6. QED
  BY <1>1, <1>4, <1>5 DEF ItemsTyped

LEMMA ProjectKeepsComplete ==
    ASSUME ItemsTyped, ProjectItem
    PROVE  /\ ItemsTyped'
           /\ \A x \in Sessions : Complete(x) => Complete(x)'
<1>1. PICK read \in operator.page :
        item' = IF CanProject(read)
                THEN [item EXCEPT ![read.id].keys = Keys(read.item)] ELSE item
  BY DEF ProjectItem
<1>2. clock' = clock
  BY DEF ProjectItem
<1>3. CASE ~CanProject(read) \/ read.id \notin Sessions
  <2>1. item' = item
    BY <1>1, <1>3 DEF ItemsTyped
  <2>2. QED
    BY <1>2, <2>1 DEF ItemsTyped, Complete
<1>4. CASE CanProject(read) /\ read.id \in Sessions
  <2> DEFINE i == item[read.id]
  <2>1. item' = [item EXCEPT ![read.id] = [i EXCEPT !.keys = Keys(i)]]
    BY <1>1, <1>4 DEF CanProject
  <2>2. i \in ItemType
    BY <1>4 DEF ItemsTyped
  <2> HIDE DEF i
  <2>3. LET j == [i EXCEPT !.keys = Keys(i)] IN j \in ItemType /\ j.keys = Keys(j)
    BY <2>2, ProjectedItem
  <2>4. item' \in [Sessions -> ItemType]
    BY <2>1, <2>3 DEF ItemsTyped
  <2>5. ASSUME NEW x \in Sessions, Complete(x) PROVE Complete(x)'
    <3>1. CASE x = read.id
      BY <3>1, <2>1, <2>3, <1>4 DEF Complete, ItemsTyped
    <3>2. CASE x # read.id
      BY <3>2, <2>1, <2>5 DEF Complete, ItemsTyped
    <3>3. QED
      BY <3>1, <3>2
  <2>6. QED
    BY <1>2, <2>4, <2>5 DEF ItemsTyped
<1>5. QED
  BY <1>3, <1>4

(* The pass over the source stops at an item without its keys.             *)
LEMMA SourcePass ==
    ASSUME VerifiedInv, VerifySource
    PROVE  VerifiedInv'
<1>1. item' = item /\ clock' = clock /\ cutover' = cutover /\ operator.stage = "source"
  BY DEF VerifySource
<1>2. \A s \in Sessions : Complete(s)' <=> Complete(s)
  BY <1>1 DEF Complete
<1>3. ItemsTyped' /\ CutoverIsComplete'
  BY <1>1 DEF VerifiedInv, ItemsTyped, CutoverIsComplete
<1>4. CASE operator.left = {}
  <2>1. operator' = [operator EXCEPT !.stage = "index", !.left = Sessions]
    BY <1>4 DEF VerifySource
  <2>2. operator'.stage = "index" /\ (operator'.missing <=> operator.missing)
    BY <2>1, <1>1
  <2>3. QED
    BY <1>1, <1>2, <1>3, <1>4, <2>2 DEF VerifiedInv
<1>5. CASE operator.left # {}
  <2> DEFINE s == CHOOSE x \in operator.left : \A y \in operator.left : x <= y
  <2>1. operator' = [operator EXCEPT
           !.left = @ \ {s},
           !.missing = @ \/ (Exists(s) /\ item[s].keys # Keys(item[s])),
           !.source = [st \in States |-> IF item[s].state = st THEN @[st] + 1 ELSE @[st]]]
    BY <1>5 DEF VerifySource
  <2> DEFINE absent == Exists(s) /\ item[s].keys # Keys(item[s])
  <2>2. operator'.missing = (operator.missing \/ absent)
    <3> HIDE DEF s, absent
    <3>1. operator' = [operator EXCEPT
             !.left = @ \ {s}, !.missing = @ \/ absent,
             !.source = [st \in States |-> IF item[s].state = st THEN @[st] + 1 ELSE @[st]]]
      BY <2>1 DEF absent
    <3>2. QED
      BY <3>1
  <2>3. absent <=> Exists(s) /\ ~Complete(s)
    BY DEF Complete
  <2> HIDE DEF s, absent
  <2>4. operator'.stage = "source" /\ operator'.left = operator.left \ {s}
    BY <2>1, <1>1
  <2>5. /\ operator'.stage = "source"
        /\ operator'.left = operator.left \ {s}
        /\ operator'.missing <=> operator.missing \/ (Exists(s) /\ ~Complete(s))
    BY <2>2, <2>3, <2>4, Zenon
  <2>6. ASSUME ~operator'.missing, NEW x \in Sessions \ operator'.left PROVE Complete(x)
    <3>1. CASE x \notin operator.left
      BY <3>1, <2>5, <2>6, <1>1 DEF VerifiedInv
    <3>2. CASE x = s
      BY <3>2, <2>5, <2>6, MissingItem
    <3>3. QED
      BY <3>1, <3>2, <2>5, <2>6
  <2>7. QED
    BY <1>2, <1>3, <2>5, <2>6 DEF VerifiedInv
<1>6. QED
  BY <1>4, <1>5

LEMMA VerifiedNext == VerifiedInv /\ [Next]_vars => VerifiedInv'
<1> SUFFICES ASSUME VerifiedInv, [Next]_vars PROVE VerifiedInv'
  OBVIOUS
<1>1. ASSUME ItemsTyped', \A x \in Sessions : Complete(x) => Complete(x)',
             UNCHANGED <<cutover, operator>>
      PROVE  VerifiedInv'
  BY <1>1 DEF VerifiedInv, CutoverIsComplete, Complete
<1>2. ASSUME UNCHANGED <<item, clock, cutover, operator>> PROVE VerifiedInv'
  BY <1>2 DEF VerifiedInv, ItemsTyped, CutoverIsComplete, Complete
<1>3. ASSUME ItemsTyped', \A x \in Sessions : Complete(x) => Complete(x)',
             cutover' = cutover, operator'.stage \notin {"source", "index"}
      PROVE  VerifiedInv'
  BY <1>3 DEF VerifiedInv, CutoverIsComplete, Complete
<1>4. ASSUME UNCHANGED <<item, clock>>
      PROVE  ItemsTyped' /\ \A x \in Sessions : Complete(x) => Complete(x)'
  BY <1>4 DEF VerifiedInv, ItemsTyped, Complete
<1>5. ASSUME NEW s \in Sessions, NEW st \in States, Save(s, st) PROVE VerifiedInv'
  <2>1. UNCHANGED <<cutover, operator>>
    BY <1>5 DEF Save
  <2>2. QED
    BY <1>1, <1>5, <2>1, SaveKeepsComplete DEF VerifiedInv
<1>6. ASSUME NEW s \in Sessions, Replicate(s) PROVE VerifiedInv'
  BY <1>2, <1>6 DEF Replicate
<1>7. CASE Operator
  <2>1. CASE StartBackfill \/ ScanPage \/ StopOperator
    <3>1. operator'.stage \notin {"source", "index"}
      <4>1. CASE StartBackfill
        BY <4>1 DEF StartBackfill, NoOperator
      <4>2. CASE ScanPage
        BY <4>2 DEF ScanPage
      <4>3. CASE StopOperator
        BY <4>3 DEF StopOperator, NoOperator
      <4>4. QED
        BY <2>1, <4>1, <4>2, <4>3
    <3>2. UNCHANGED <<item, clock, cutover>>
      BY <2>1 DEF StartBackfill, ScanPage, StopOperator
    <3>3. QED
      BY <1>3, <1>4, <3>1, <3>2
  <2>2. CASE ProjectItem
    <3>1. operator'.stage \notin {"source", "index"} /\ cutover' = cutover
      BY <2>2 DEF ProjectItem
    <3>2. QED
      BY <1>3, <2>2, <3>1, ProjectKeepsComplete DEF VerifiedInv
  <2>3. CASE StartCutover
    <3>1. /\ operator'.stage = "source" /\ operator'.left = Sessions
          /\ UNCHANGED <<item, clock, cutover>>
      BY <2>3 DEF StartCutover, NoOperator
    <3>2. QED
      BY <3>1 DEF VerifiedInv, ItemsTyped, CutoverIsComplete, Complete
  <2>4. CASE VerifySource
    BY <2>4, SourcePass
  <2>5. CASE VerifyIndex
    <3>1. /\ operator.stage = "index" /\ operator'.stage = "index"
          /\ operator'.missing <=> operator.missing
          /\ UNCHANGED <<item, clock, cutover>>
      BY <2>5 DEF VerifyIndex
    <3>2. QED
      BY <3>1 DEF VerifiedInv, ItemsTyped, CutoverIsComplete, Complete
  <2>6. CASE EnableGuildSessionIndex
    <3>1. operator.stage = "index" /\ ~operator.missing
      BY <2>6 DEF EnableGuildSessionIndex, Valid
    <3>2. \A s \in Sessions : Complete(s)
      BY <3>1 DEF VerifiedInv
    <3>3. operator'.stage = "idle" /\ UNCHANGED <<item, clock>>
      BY <2>6 DEF EnableGuildSessionIndex, NoOperator
    <3>4. QED
      BY <3>2, <3>3 DEF VerifiedInv, ItemsTyped, CutoverIsComplete, Complete
  <2>7. QED
    BY <1>7, <2>1, <2>2, <2>3, <2>4, <2>5, <2>6 DEF Operator
<1>8. CASE Reader
  BY <1>2, <1>8 DEF Reader, Start, ListPage, MergePage, ScanCompatibility, EndPage,
                    ResolveCardControl, ResolveLegacyCardControl, Revalidate, QueryState
<1>9. CASE UNCHANGED vars
  BY <1>2, <1>9 DEF vars
<1>10. QED
  BY <1>5, <1>6, <1>7, <1>8, <1>9 DEF Next, Writer

(* Whatever is created, saved, projected or replicated while the operator   *)
(* verifies, the marker is written only when the index leaves no one out.   *)
THEOREM CutoverMissesNoSession == Spec => []CutoverIsComplete
<1>1. VerifiedInv => CutoverIsComplete
  BY DEF VerifiedInv
<1>2. QED
  BY <1>1, VerifiedInit, VerifiedNext, PTL DEF Spec

-----------------------------------------------------------------------------
(* The order of a listing                                                  *)

Entries == [id : Sessions, at : Nat, state : States]

Ordered(S) == \A a, b \in S : a = b \/ Precedes(a, b) \/ Precedes(b, a)

Rank(a, S) == Cardinality({b \in S : Precedes(b, a)})

LEMMA LeastOf ==
    ASSUME NEW N \in SUBSET Nat, N # {}
    PROVE  \E n \in N : \A m \in N : n <= m
<1>1. PICK n \in N : \A m \in N : <<m, n>> \notin OpToRel(<, Nat)
  BY NatLessThanWellFounded, WFMin
<1>2. \A m \in N : ~(m < n)
  BY <1>1 DEF OpToRel
<1>3. QED
  BY <1>2

LEMMA EntryFields ==
    ASSUME NEW a \in Entries
    PROVE  a.id \in Nat /\ a.at \in Nat /\ a.id \in Sessions /\ a.state \in States
BY GuildAssumption DEF Entries

LEMMA PrecedesOrders ==
    /\ \A a \in Entries : ~Precedes(a, a)
    /\ \A a, b, c \in Entries : Precedes(a, b) /\ Precedes(b, c) => Precedes(a, c)
    /\ \A a, b \in Entries : a.id # b.id => Precedes(a, b) \/ Precedes(b, a)
    /\ \A a, b \in Entries : a.state = b.state =>
          a = b \/ Precedes(a, b) \/ Precedes(b, a)
<1>1. \A a \in Entries : ~Precedes(a, a)
  BY EntryFields DEF Precedes
<1>2. \A a, b, c \in Entries : Precedes(a, b) /\ Precedes(b, c) => Precedes(a, c)
  BY EntryFields DEF Precedes
<1>3. \A a, b \in Entries : a.id # b.id => Precedes(a, b) \/ Precedes(b, a)
  BY EntryFields DEF Precedes
<1>4. \A a, b \in Entries : a.state = b.state /\ a.id = b.id /\ a.at = b.at => a = b
  BY DEF Entries
<1>5. \A a, b \in Entries : a.id = b.id /\ a.at # b.at => Precedes(a, b) \/ Precedes(b, a)
  BY EntryFields DEF Precedes
<1>6. QED
  BY <1>1, <1>2, <1>3, <1>4, <1>5

(* Entries with distinct IDs are finitely many, and totally ordered. *)
LEMMA DistinctEntries ==
    ASSUME NEW S \in SUBSET Entries, \A a, b \in S : a.id = b.id => a = b
    PROVE  IsFiniteSet(S) /\ Ordered(S)
<1> DEFINE f == [a \in S |-> a.id]
<1>1. f \in Injection(S, Sessions)
  BY EntryFields DEF Injection, IsInjective
<1>2. IsFiniteSet(S)
  BY <1>1, GuildAssumption, FS_Injection
<1>3. Ordered(S)
  BY PrecedesOrders DEF Ordered
<1>4. QED
  BY <1>2, <1>3

LEMMA RankTyped ==
    ASSUME NEW S, IsFiniteSet(S), NEW a
    PROVE  Rank(a, S) \in Nat /\ IsFiniteSet({b \in S : Precedes(b, a)})
<1>1. IsFiniteSet({b \in S : Precedes(b, a)})
  BY FS_Subset
<1>2. QED
  BY <1>1, FS_CardinalityType DEF Rank

LEMMA RankGrows ==
    ASSUME NEW S \in SUBSET Entries, IsFiniteSet(S), NEW a \in S, NEW b \in Entries,
           Precedes(a, b)
    PROVE  Rank(a, S) < Rank(b, S)
<1> DEFINE A == {c \in S : Precedes(c, a)}
           B == {c \in S : Precedes(c, b)}
<1>1. A \subseteq B
  BY PrecedesOrders
<1>2. a \in B /\ a \notin A
  BY PrecedesOrders
<1>3. IsFiniteSet(A) /\ IsFiniteSet(B) /\ Rank(a, S) \in Nat /\ Rank(b, S) \in Nat
  BY RankTyped
<1> HIDE DEF A, B
<1>4. Cardinality(A) <= Cardinality(B) /\ Cardinality(A) # Cardinality(B)
  BY <1>1, <1>2, <1>3, FS_Subset
<1>5. Rank(a, S) = Cardinality(A) /\ Rank(b, S) = Cardinality(B)
  BY DEF Rank, A, B
<1>6. QED
  BY <1>3, <1>4, <1>5

LEMMA FirstByRank ==
    ASSUME NEW S, NEW n
    PROVE  First(n, S) = {a \in S : Rank(a, S) < n}
BY DEF First, Rank

(* What a page takes precedes what it leaves. *)
LEMMA FirstPrecedes ==
    ASSUME NEW S \in SUBSET Entries, IsFiniteSet(S), NEW n \in Nat,
           NEW a \in First(n, S), NEW e \in S \ First(n, S),
           a = e \/ Precedes(a, e) \/ Precedes(e, a)
    PROVE  Precedes(a, e)
<1>1. a \in S /\ Rank(a, S) < n /\ ~(Rank(e, S) < n)
  BY FirstByRank
<1>2. Rank(a, S) \in Nat /\ Rank(e, S) \in Nat
  BY RankTyped
<1>3. Precedes(e, a) => Rank(e, S) < Rank(a, S)
  BY <1>1, RankGrows
<1>4. QED
  BY <1>1, <1>2, <1>3

LEMMA LeastRank ==
    ASSUME NEW S \in SUBSET Entries, IsFiniteSet(S), NEW T \in SUBSET S, T # {}
    PROVE  \E a \in T : \A b \in T : ~Precedes(b, a)
<1> DEFINE N == {Rank(a, S) : a \in T}
<1>1. N \in SUBSET Nat /\ N # {}
  BY RankTyped
<1> HIDE DEF N
<1>2. PICK n \in N : \A m \in N : n <= m
  BY <1>1, LeastOf
<1>3. PICK a \in T : n = Rank(a, S)
  BY <1>2 DEF N
<1>4. ASSUME NEW b \in T, Precedes(b, a) PROVE FALSE
  <2>1. Rank(b, S) < Rank(a, S)
    BY <1>4, RankGrows
  <2>2. Rank(a, S) <= Rank(b, S)
    BY <1>2, <1>3 DEF N
  <2>3. Rank(a, S) \in Nat /\ Rank(b, S) \in Nat
    BY RankTyped
  <2>4. QED
    BY <2>1, <2>2, <2>3
<1>5. QED
  BY <1>4

(* A page takes something if there is anything. *)
LEMMA FirstTakes ==
    ASSUME NEW S \in SUBSET Entries, IsFiniteSet(S), S # {}, NEW n \in Nat \ {0}
    PROVE  First(n, S) # {}
<1>1. PICK a \in S : \A b \in S : ~Precedes(b, a)
  BY LeastRank
<1>2. {b \in S : Precedes(b, a)} = {}
  BY <1>1
<1>3. Rank(a, S) = 0
  BY <1>2, FS_EmptySet DEF Rank
<1>4. QED
  BY <1>3, FirstByRank

(* The last entry of a set is defined: the successors of an entry are fewer *)
(* than those of one that precedes it.                                     *)
LEMMA LastIsLast ==
    ASSUME NEW T \in SUBSET Entries, IsFiniteSet(T), T # {}, Ordered(T)
    PROVE  /\ Last(T) \in T
           /\ \A b \in T : b = Last(T) \/ Precedes(b, Last(T))
<1> DEFINE After(a) == {c \in T : Precedes(a, c)}
           N == {Cardinality(After(a)) : a \in T}
<1>1. \A a \in T : IsFiniteSet(After(a)) /\ Cardinality(After(a)) \in Nat
  BY FS_Subset, FS_CardinalityType
<1>2. N \in SUBSET Nat /\ N # {}
  BY <1>1
<1> HIDE DEF N
<1>3. PICK n \in N : \A m \in N : n <= m
  BY <1>2, LeastOf
<1>4. PICK a \in T : n = Cardinality(After(a))
  BY <1>3 DEF N
<1>5. ASSUME NEW b \in T, Precedes(a, b) PROVE FALSE
  <2>1. After(b) \subseteq After(a) /\ b \in After(a) /\ b \notin After(b)
    BY <1>5, PrecedesOrders
  <2>2. Cardinality(After(a)) <= Cardinality(After(b))
    BY <1>3, <1>4 DEF N
  <2> HIDE DEF After
  <2>3. Cardinality(After(b)) <= Cardinality(After(a)) /\ After(b) # After(a)
    BY <1>1, <2>1, FS_Subset
  <2>4. Cardinality(After(b)) = Cardinality(After(a))
    BY <1>1, <2>2, <2>3
  <2>5. QED
    BY <1>1, <2>1, <2>3, <2>4, FS_Subset
<1>6. \A b \in T : a = b \/ Precedes(b, a)
  BY <1>5 DEF Ordered
<1>7. QED
  BY <1>6 DEF Last

(* A stream that leaves an entry behind has as many as it may.             *)
LEMMA FullFirst ==
    ASSUME NEW S \in SUBSET Entries, IsFiniteSet(S), Ordered(S), NEW n \in Nat \ {0},
           NEW e \in S \ First(n, S)
    PROVE  Cardinality(First(n, S)) = n
<1> DEFINE P == First(n, S)
<1>1. P \subseteq S /\ IsFiniteSet(P) /\ Cardinality(P) \in Nat
  BY FS_Subset, FS_CardinalityType DEF First
<1>2. P # {}
  BY FirstTakes
<1>3. n <= Cardinality(P)
  <2>1. S \ P # {} /\ S \ P \in SUBSET S
    OBVIOUS
  <2>2. PICK a \in S \ P : \A b \in S \ P : ~Precedes(b, a)
    BY <2>1, LeastRank
  <2>3. {b \in S : Precedes(b, a)} \subseteq P
    BY <2>2
  <2>4. Rank(a, S) <= Cardinality(P)
    BY <1>1, <2>3, FS_Subset DEF Rank
  <2>5. ~(Rank(a, S) < n) /\ Rank(a, S) \in Nat
    BY FirstByRank, RankTyped
  <2>6. QED
    BY <1>1, <2>4, <2>5
<1>4. Cardinality(P) <= n
  <2>1. Ordered(P) /\ P \in SUBSET Entries
    BY <1>1 DEF Ordered
  <2> DEFINE l == Last(P)
             Q == {b \in S : Precedes(b, l)}
  <2>2. l \in P /\ \A b \in P : b = l \/ Precedes(b, l)
    BY <1>1, <1>2, <2>1, LastIsLast
  <2>3. IsFiniteSet(Q) /\ Cardinality(Q) = Rank(l, S) /\ Rank(l, S) \in Nat
    BY RankTyped DEF Rank
  <2>4. Rank(l, S) < n
    BY <2>2, FirstByRank
  <2>5. P \subseteq Q \cup {l}
    BY <1>1, <2>2
  <2> HIDE DEF P, Q, l
  <2>6. IsFiniteSet(Q \cup {l}) /\ Cardinality(Q \cup {l}) <= Cardinality(Q) + 1
    <3>1. Cardinality(Q) \in Nat
      BY <2>3
    <3>2. /\ IsFiniteSet(Q \cup {l})
          /\ Cardinality(Q \cup {l}) = IF l \in Q THEN Cardinality(Q) ELSE Cardinality(Q) + 1
      BY <2>3, FS_AddElement
    <3>3. QED
      BY <3>1, <3>2
  <2>7. Cardinality(Q \cup {l}) \in Nat
    BY <2>6, FS_CardinalityType
  <2>8. Cardinality(P) <= Cardinality(Q \cup {l})
    BY <2>5, <2>6, FS_Subset
  <2>9. QED
    BY <1>1, <2>3, <2>4, <2>6, <2>7, <2>8
<1>5. QED
  BY <1>1, <1>3, <1>4

(* The entry that a cursor is moved to precedes what is left. *)
LEMMA LastPrecedes ==
    ASSUME NEW T \in SUBSET Entries, IsFiniteSet(T), T # {}, Ordered(T),
           NEW e, \A x \in T : Precedes(x, e)
    PROVE  Last(T) \in Entries /\ Precedes(Last(T), e)
BY LastIsLast

-----------------------------------------------------------------------------
(* The listing: its inductive invariant                                    *)

(* The place of a session that has not moved. *)
Place(s) == Entry(s, item[s])

ListingType ==
    [stage : {"idle", "page", "scan", "index", "revalidate", "done"},
     mode : {"none", "scan", "index"}, target : Sessions \cup {None},
     position : [Wanted -> Entries \cup {None}], done : SUBSET Wanted,
     after : Entries \cup {None}, asked : SUBSET Wanted, streams : SUBSET Entries,
     full : SUBSET Wanted, page : SUBSET Sessions, more : BOOLEAN,
     result : SUBSET Sessions, moved : SUBSET Sessions]

KeysType == [state : States \cup {None}, at : Nat]

ReaderType ==
    /\ listing \in ListingType
    /\ IsFiniteSet(listing.streams)
    /\ index \in [Sessions -> KeysType]

(* The stages of a page, in the mode of its cursor. *)
StageInv ==
    /\ listing.stage = "scan" => listing.mode = "scan"
    /\ listing.stage = "index" =>
          /\ listing.mode = "index"
          /\ \A x \in listing.streams : x.state \notin listing.asked
    /\ listing.stage = "revalidate" => listing.mode # "none"
    /\ listing.stage \in {"idle", "done"} => listing.mode = "none"
    /\ listing.mode = "none" =>
          /\ listing.after = None /\ listing.done = {}
          /\ \A st \in Wanted : listing.position[st] = None
    /\ listing.target # None /\ listing.stage # "done" => listing.result = {}

(* A cursor of the index is made after the cutover; from then on an entry   *)
(* that has not moved is that of its item.                                 *)
IndexInv ==
    listing.mode = "index" =>
        /\ cutover
        /\ \A s \in Sessions \ listing.moved : index[s] = item[s].keys

(* The cursor has not passed the place of s. *)
Ahead(s) ==
    /\ listing.mode = "scan" =>
          listing.after = None \/ Precedes(listing.after, Place(s))
    /\ listing.mode = "index" =>
          /\ item[s].state \notin listing.done
          /\ \/ listing.position[item[s].state] = None
             \/ Precedes(listing.position[item[s].state], Place(s))

(* The stream of its state has the place of s, or was cut off before it. *)
Streamed(s) ==
    \/ Place(s) \in listing.streams
    \/ /\ item[s].state \in listing.full
       /\ \A x \in listing.streams : x.state = item[s].state => Precedes(x, Place(s))

Sought(s) ==
    /\ s \in Sessions \ listing.moved
    /\ item[s].state \in Wanted /\ listing.target \in {None, s}

Covered(s) ==
    /\ listing.stage \in {"page", "scan"} => s \in listing.result \/ Ahead(s)
    /\ listing.stage = "index" =>
          \/ s \in listing.result
          \/ Ahead(s) /\ (item[s].state \in listing.asked \/ Streamed(s))
    /\ listing.stage = "revalidate" =>
          s \in listing.result \cup listing.page \/ (listing.more /\ Ahead(s))
    /\ listing.stage = "done" =>
          s \in listing.result /\ (listing.target = s => listing.result = {s})

CoverInv == \A s \in Sessions : Sought(s) => Covered(s)

ListingInv == ReaderType /\ StageInv /\ IndexInv /\ CoverInv

LEMMA ListingFields ==
    ASSUME ListingInv
    PROVE  /\ listing \in ListingType
           /\ listing.stage \in {"idle", "page", "scan", "index", "revalidate", "done"}
           /\ listing.mode \in {"none", "scan", "index"}
           /\ listing.target \in Sessions \cup {None}
           /\ listing.position \in [Wanted -> Entries \cup {None}]
           /\ listing.done \subseteq Wanted /\ listing.after \in Entries \cup {None}
           /\ listing.asked \subseteq Wanted /\ listing.streams \subseteq Entries
           /\ listing.full \subseteq Wanted /\ listing.page \subseteq Sessions
           /\ listing.more \in BOOLEAN /\ listing.result \subseteq Sessions
           /\ listing.moved \subseteq Sessions
           /\ IsFiniteSet(listing.streams) /\ index \in [Sessions -> KeysType]
BY DEF ListingInv, ReaderType, ListingType

LEMMA PlaceTyped ==
    ASSUME ItemsTyped, NEW s \in Sessions, item[s].state \in Wanted
    PROVE  /\ Place(s) \in Entries /\ Place(s).state = item[s].state /\ Place(s).id = s
BY GuildAssumption DEF ItemsTyped, ItemType, Place, Entry, Entries

LEMMA NoListingTyped ==
    /\ NoListing \in ListingType
    /\ NoListing.stage = "idle" /\ NoListing.mode = "none" /\ NoListing.target = None
    /\ NoListing.after = None /\ NoListing.done = {} /\ NoListing.streams = {}
    /\ \A st \in Wanted : NoListing.position[st] = None
    /\ NoListing.result = {}
<1>1. [st \in Wanted |-> None] \in [Wanted -> Entries \cup {None}]
  OBVIOUS
<1>2. NoListing \in ListingType
  BY <1>1 DEF NoListing, ListingType
<1>3. QED
  BY <1>2 DEF NoListing

LEMMA ListingInit == Init => ListingInv
<1> SUFFICES ASSUME Init PROVE ListingInv
  OBVIOUS
<1>1. ItemsTyped /\ listing = NoListing
  BY VerifiedInit DEF VerifiedInv, Init
<1>2. index \in [Sessions -> KeysType]
  BY <1>1 DEF Init, ItemsTyped, ItemType, KeysType
<1>3. ReaderType
  BY <1>1, <1>2, NoListingTyped, FS_EmptySet DEF ReaderType
<1>4. StageInv /\ IndexInv
  BY <1>1, NoListingTyped DEF StageInv, IndexInv
<1>5. CoverInv
  BY <1>1, NoListingTyped DEF CoverInv, Covered
<1>6. QED
  BY <1>3, <1>4, <1>5 DEF ListingInv

-----------------------------------------------------------------------------
(* The listing: steps of the others                                        *)

(* What a listing knows of a session stays while its place does. *)
LEMMA OthersStay ==
    ASSUME ListingInv, NEW M \in SUBSET Sessions,
           listing' = listing \/ listing' = [listing EXCEPT !.moved = @ \cup M],
           listing.stage # "idle" =>
              \A x \in Sessions \ listing'.moved :
                  item'[x].state = item[x].state /\ item'[x].at = item[x].at,
           listing.mode = "index" =>
              cutover' /\ \A x \in Sessions \ listing'.moved : index'[x] = item'[x].keys,
           index' \in [Sessions -> KeysType]
    PROVE  ListingInv'
<1>1. /\ listing' \in ListingType /\ listing.moved \subseteq listing'.moved
      /\ listing'.stage = listing.stage /\ listing'.mode = listing.mode
      /\ listing'.target = listing.target /\ listing'.position = listing.position
      /\ listing'.done = listing.done /\ listing'.after = listing.after
      /\ listing'.asked = listing.asked /\ listing'.streams = listing.streams
      /\ listing'.full = listing.full /\ listing'.page = listing.page
      /\ listing'.more = listing.more /\ listing'.result = listing.result
  <2>1. CASE listing' = listing
    BY <2>1, ListingFields
  <2>2. CASE listing' = [listing EXCEPT !.moved = @ \cup M]
    BY <2>2, ListingFields DEF ListingType
  <2>3. QED
    BY <2>1, <2>2
<1>2. ReaderType'
  BY <1>1, ListingFields DEF ReaderType
<1>3. StageInv'
  BY <1>1 DEF ListingInv, StageInv
<1>4. IndexInv'
  BY <1>1 DEF IndexInv
<1>5. ASSUME NEW x \in Sessions, Sought(x)', listing.stage # "idle" PROVE Covered(x)'
  <2>1. item'[x].state = item[x].state /\ item'[x].at = item[x].at
    BY <1>5 DEF Sought
  <2>2. Sought(x)
    BY <1>1, <1>5, <2>1 DEF Sought
  <2>3. Place(x)' = Place(x)
    BY <2>1 DEF Place, Entry
  <2>4. Ahead(x)' <=> Ahead(x)
    BY <1>1, <2>1, <2>3 DEF Ahead
  <2>5. Streamed(x)' <=> Streamed(x)
    BY <1>1, <2>1, <2>3 DEF Streamed
  <2>6. Covered(x)
    BY <2>2 DEF ListingInv, CoverInv
  <2>7. QED
    BY <1>1, <2>1, <2>4, <2>5, <2>6 DEF Covered
<1>6. CoverInv'
  <2>1. CASE listing.stage = "idle"
    BY <1>1, <2>1 DEF CoverInv, Covered
  <2>2. CASE listing.stage # "idle"
    BY <1>5, <2>2 DEF CoverInv
  <2>3. QED
    BY <2>1, <2>2
<1>7. QED
  BY <1>2, <1>3, <1>4, <1>6 DEF ListingInv

LEMMA SaveStays ==
    ASSUME VerifiedInv, ListingInv, NEW s \in Sessions, NEW st \in States, Save(s, st)
    PROVE  ListingInv'
<1>1. /\ item' = [item EXCEPT ![s] = toSessionItem(st, clock')]
      /\ index' = index /\ cutover' = cutover
      /\ listing' = IF listing.stage = "idle" THEN listing
                     ELSE [listing EXCEPT !.moved = @ \cup {s}]
  BY DEF Save, Moved
<1>2. {s} \in SUBSET Sessions /\ item \in [Sessions -> ItemType]
  BY DEF VerifiedInv, ItemsTyped
<1>3. listing.stage # "idle" => s \in listing'.moved /\ listing.moved \subseteq listing'.moved
  BY <1>1, ListingFields DEF ListingType
<1>4. \A x \in Sessions \ {s} : item'[x] = item[x]
  BY <1>1, <1>2
<1>5. listing.mode = "index" => listing.stage # "idle"
  BY DEF ListingInv, StageInv
<1>6. listing.mode = "index" =>
         cutover' /\ \A x \in Sessions \ listing'.moved : index'[x] = item'[x].keys
  BY <1>1, <1>3, <1>4, <1>5 DEF ListingInv, IndexInv
<1>7. QED
  BY <1>1, <1>2, <1>3, <1>4, <1>6, ListingFields, OthersStay

LEMMA ReplicateStays ==
    ASSUME VerifiedInv, ListingInv, NEW s \in Sessions, Replicate(s)
    PROVE  ListingInv'
<1>1. /\ index' = [index EXCEPT ![s] = item[s].keys]
      /\ item' = item /\ cutover' = cutover
      /\ \/ listing.mode # "index" /\ listing' = listing
         \/ /\ listing.mode = "index" /\ listing.stage # "idle"
            /\ listing' = [listing EXCEPT !.moved = @ \cup {s}]
  BY DEF Replicate, Moved, ListingInv, StageInv
<1>2. item[s].keys \in KeysType
  BY DEF VerifiedInv, ItemsTyped, ItemType, KeysType
<1>3. index' \in [Sessions -> KeysType]
  BY <1>1, <1>2, ListingFields
<1>4. listing.mode = "index" =>
         /\ s \in listing'.moved
         /\ \A x \in Sessions \ listing'.moved : x \notin listing.moved
  BY <1>1, ListingFields DEF ListingType
<1>5. listing.mode = "index" =>
         cutover' /\ \A x \in Sessions \ listing'.moved : index'[x] = item'[x].keys
  BY <1>1, <1>4, ListingFields DEF ListingInv, IndexInv
<1>6. {s} \in SUBSET Sessions
  OBVIOUS
<1>7. QED
  BY <1>1, <1>3, <1>5, <1>6, OthersStay

(* After the cutover the backfill has nothing left to change. *)
LEMMA ProjectStays ==
    ASSUME VerifiedInv, ListingInv, ProjectItem
    PROVE  ListingInv'
<1>1. index' = index /\ cutover' = cutover /\ listing' = listing
  BY DEF ProjectItem
<1>2. PICK read \in operator.page :
        item' = IF CanProject(read)
                THEN [item EXCEPT ![read.id].keys = Keys(read.item)] ELSE item
  BY DEF ProjectItem
<1>3. \A x \in Sessions : item'[x].state = item[x].state /\ item'[x].at = item[x].at
  <2>1. item \in [Sessions -> ItemType]
    BY DEF VerifiedInv, ItemsTyped
  <2> DEFINE k == Keys(read.item)
  <2>2. \/ item' = item
        \/ item' = [item EXCEPT ![read.id] = [item[read.id] EXCEPT !.keys = k]]
    BY <1>2
  <2> HIDE DEF k
  <2>3. TAKE x \in Sessions
  <2>4. [item[x] EXCEPT !.keys = k].state = item[x].state
    BY <2>1 DEF ItemType
  <2>5. [item[x] EXCEPT !.keys = k].at = item[x].at
    BY <2>1 DEF ItemType
  <2>6. item'[x] \in {item[x], [item[x] EXCEPT !.keys = k]}
    BY <2>1, <2>2
  <2>7. QED
    BY <2>4, <2>5, <2>6
<1>4. listing.mode = "index" => \A x \in Sessions : item'[x].keys = item[x].keys
  <2>1. SUFFICES ASSUME listing.mode = "index", NEW x \in Sessions
                 PROVE  item'[x].keys = item[x].keys
    OBVIOUS
  <2>2. Complete(x)
    BY <2>1 DEF ListingInv, IndexInv, VerifiedInv, CutoverIsComplete, Complete
  <2>3. Complete(x)'
    BY <2>2, ProjectKeepsComplete DEF VerifiedInv
  <2>4. QED
    BY <1>3, <2>2, <2>3 DEF Complete, Keys
<1>5. listing.mode = "index" =>
         cutover' /\ \A x \in Sessions \ listing'.moved : index'[x] = item'[x].keys
  BY <1>1, <1>4 DEF ListingInv, IndexInv
<1>6. {} \in SUBSET Sessions
  OBVIOUS
<1>7. QED
  BY <1>1, <1>3, <1>5, <1>6, ListingFields, OthersStay

LEMMA OperatorStays ==
    ASSUME VerifiedInv, ListingInv, Operator
    PROVE  ListingInv'
<1>1. CASE ProjectItem
  BY <1>1, ProjectStays
<1>2. CASE ~ProjectItem
  <2>1. item' = item /\ index' = index /\ listing' = listing /\ (cutover => cutover')
    <3>1. CASE StartBackfill \/ StopOperator \/ StartCutover
      BY <3>1 DEF StartBackfill, StopOperator, StartCutover
    <3>2. CASE ScanPage
      BY <3>2 DEF ScanPage
    <3>3. CASE VerifySource
      BY <3>3 DEF VerifySource
    <3>4. CASE VerifyIndex
      BY <3>4 DEF VerifyIndex
    <3>5. CASE EnableGuildSessionIndex
      BY <3>5 DEF EnableGuildSessionIndex
    <3>6. QED
      BY <1>2, <3>1, <3>2, <3>3, <3>4, <3>5 DEF Operator
  <2>2. listing.mode = "index" =>
           cutover' /\ \A x \in Sessions \ listing'.moved : index'[x] = item'[x].keys
    BY <2>1 DEF ListingInv, IndexInv
  <2>3. {} \in SUBSET Sessions
    OBVIOUS
  <2>4. QED
    BY <2>1, <2>2, <2>3, ListingFields, OthersStay
<1>3. QED
  BY <1>1, <1>2

-----------------------------------------------------------------------------
(* The listing: its own steps                                              *)

LEMMA StartsEmpty ==
    ASSUME ListingInv, NEW t \in Sessions \cup {None},
           Start(t) \/ (t # None /\ ResolveCardControl(t))
    PROVE  ListingInv'
<1>1. index' = index
  BY DEF Start, ResolveCardControl
<1>2. CASE Start(t)
  <2>1. listing' = [NoListing EXCEPT !.stage = "page", !.target = t]
    BY <1>2 DEF Start
  <2>2. listing' \in ListingType
    BY <2>1, NoListingTyped DEF ListingType
  <2>3. /\ listing'.stage = "page" /\ listing'.mode = "none" /\ listing'.streams = {}
        /\ listing'.after = None /\ listing'.done = {} /\ listing'.result = {}
        /\ \A st \in Wanted : listing'.position[st] = None
    BY <2>1, NoListingTyped DEF ListingType
  <2>4. ReaderType'
    BY <1>1, <2>2, <2>3, ListingFields, FS_EmptySet DEF ReaderType
  <2>5. StageInv' /\ IndexInv'
    BY <2>3 DEF StageInv, IndexInv
  <2>6. CoverInv'
    BY <2>3 DEF CoverInv, Covered, Ahead
  <2>7. QED
    BY <2>4, <2>5, <2>6 DEF ListingInv
<1>3. CASE t # None /\ ResolveCardControl(t)
  <2>1. listing' = [NoListing EXCEPT !.stage = "done", !.target = t, !.result = {t}]
    BY <1>3 DEF ResolveCardControl
  <2>2. listing' \in ListingType
    BY <1>3, <2>1, NoListingTyped DEF ListingType
  <2>3. /\ listing'.stage = "done" /\ listing'.mode = "none" /\ listing'.streams = {}
        /\ listing'.after = None /\ listing'.done = {} /\ listing'.result = {t}
        /\ \A st \in Wanted : listing'.position[st] = None
        /\ listing'.target = t
    BY <2>1, NoListingTyped DEF ListingType
  <2>4. ReaderType'
    BY <1>1, <2>2, <2>3, ListingFields, FS_EmptySet DEF ReaderType
  <2>5. StageInv' /\ IndexInv'
    BY <2>3 DEF StageInv, IndexInv
  <2>6. CoverInv'
    BY <1>3, <2>3 DEF CoverInv, Covered, Sought
  <2>7. QED
    BY <2>4, <2>5, <2>6 DEF ListingInv
<1>4. QED
  BY <1>2, <1>3

LEMMA ListPageCovers ==
    ASSUME ListingInv, ListPage
    PROVE  ListingInv'
<1> DEFINE m == CursorMode
           v == IF listing.mode = "none" /\ CursorMode = "index"
                THEN listing.moved \cup Lagging ELSE listing.moved
<1>1. /\ listing.stage = "page" /\ item' = item /\ index' = index /\ cutover' = cutover
      /\ listing' = [listing EXCEPT !.stage = m, !.mode = m, !.moved = v,
                        !.asked = Wanted \ listing.done, !.streams = {}, !.full = {}]
  BY DEF ListPage
<1>2. /\ m \in {"scan", "index"} /\ (listing.mode # "none" => m = listing.mode)
      /\ m = "index" /\ listing.mode = "none" => cutover
  BY ListingFields DEF CursorMode
<1>3. /\ v \subseteq Sessions /\ listing.moved \subseteq v
      /\ m = "index" /\ listing.mode = "none" => Lagging \subseteq v
  BY ListingFields DEF Lagging
<1> HIDE DEF m, v
<1>4. listing' \in ListingType
  BY <1>1, <1>2, <1>3, ListingFields DEF ListingType
<1>5. /\ listing'.stage = m /\ listing'.mode = m /\ listing'.moved = v
      /\ listing'.asked = Wanted \ listing.done /\ listing'.streams = {}
      /\ listing'.target = listing.target /\ listing'.position = listing.position
      /\ listing'.done = listing.done /\ listing'.after = listing.after
      /\ listing'.result = listing.result
  BY <1>1, ListingFields DEF ListingType
<1>6. ReaderType'
  BY <1>1, <1>4, <1>5, ListingFields, FS_EmptySet DEF ReaderType
<1>7. StageInv'
  BY <1>1, <1>2, <1>5 DEF ListingInv, StageInv
<1>8. IndexInv'
  <2>1. SUFFICES ASSUME m = "index"
                 PROVE  cutover /\ \A s \in Sessions \ v : index[s] = item[s].keys
    BY <1>1, <1>5 DEF IndexInv
  <2>2. CASE listing.mode = "none"
    BY <1>2, <1>3, <2>1, <2>2 DEF Lagging
  <2>3. CASE listing.mode # "none"
    BY <1>2, <1>3, <2>1, <2>3 DEF ListingInv, IndexInv
  <2>4. QED
    BY <2>2, <2>3
<1>9. ASSUME NEW x \in Sessions, Sought(x)' PROVE Covered(x)'
  <2>1. Sought(x)
    BY <1>1, <1>3, <1>5, <1>9 DEF Sought
  <2>2. x \in listing.result \/ Ahead(x)
    BY <1>1, <2>1 DEF ListingInv, CoverInv, Covered
  <2>3. x \in listing.result \/ Ahead(x)'
    <3>1. Place(x)' = Place(x)
      BY <1>1 DEF Place
    <3>2. CASE listing.mode = "none"
      <4>1. item[x].state \in Wanted
        BY <2>1 DEF Sought
      <4>2. QED
        BY <1>1, <1>5, <3>2, <4>1 DEF ListingInv, StageInv, Ahead
    <3>3. CASE listing.mode # "none"
      BY <1>1, <1>2, <1>5, <2>2, <3>1, <3>3 DEF Ahead
    <3>4. QED
      BY <3>2, <3>3
  <2>4. Ahead(x)' /\ m = "index" => item'[x].state \in listing'.asked
    BY <1>1, <1>5, <2>1 DEF Ahead, Sought
  <2>5. QED
    BY <1>2, <1>5, <2>3, <2>4 DEF Covered
<1>10. QED
  BY <1>6, <1>7, <1>8, <1>9 DEF ListingInv, CoverInv

LEMMA QueryCovers ==
    ASSUME VerifiedInv, ListingInv, NEW st \in Wanted, QueryState(st)
    PROVE  ListingInv'
<1> DEFINE from == listing.position[st]
           range == {Entry(s, index[s]) : s \in {x \in Sessions : index[x].state = st}}
           seen == IF from = None THEN range ELSE {e \in range : Precedes(from, e)}
           stream == First(PageSize, seen)
           f == IF Cardinality(stream) = PageSize THEN listing.full \cup {st}
                ELSE listing.full
<1>1. /\ listing.stage = "index" /\ st \in listing.asked
      /\ item' = item /\ index' = index /\ cutover' = cutover
      /\ listing' = [listing EXCEPT !.asked = listing.asked \ {st},
                        !.streams = listing.streams \cup stream, !.full = f]
  BY DEF QueryState
<1>2. /\ range \in SUBSET Entries /\ \A e \in range : e.state = st
      /\ \A a, b \in range : a.id = b.id => a = b
  <2>1. \A x \in Sessions : index[x] \in KeysType
    BY ListingFields
  <2>2. st \in States
    BY GuildAssumption
  <2>3. \A x \in Sessions : index[x].state = st =>
           Entry(x, index[x]) \in Entries /\ Entry(x, index[x]).state = st
    BY <2>1, <2>2 DEF KeysType, Entry, Entries
  <2>4. \A x \in Sessions : Entry(x, index[x]).id = x
    BY DEF Entry
  <2>5. QED
    BY <2>3, <2>4
<1>3. seen \subseteq range
  OBVIOUS
<1>4. seen \in SUBSET Entries /\ IsFiniteSet(seen) /\ Ordered(seen)
  <2>1. seen \in SUBSET Entries /\ \A a, b \in seen : a.id = b.id => a = b
    BY <1>2, <1>3
  <2> HIDE DEF seen
  <2>2. QED
    BY <2>1, DistinctEntries
<1>5. /\ stream \subseteq seen /\ IsFiniteSet(stream)
      /\ stream \in SUBSET Entries /\ \A e \in stream : e.state = st
  <2>1. stream \subseteq seen
    BY DEF First
  <2> HIDE DEF stream, seen
  <2>2. IsFiniteSet(stream)
    BY <1>4, <2>1, FS_Subset
  <2>3. QED
    BY <1>2, <1>3, <1>4, <2>1, <2>2
<1>6. f \subseteq Wanted /\ listing.full \subseteq f
  BY ListingFields
<1>7. Cardinality(stream) = PageSize => st \in f
  OBVIOUS
<1> HIDE DEF f
<1>8. listing' \in ListingType
  <2> DEFINE u == listing.streams \cup stream
             a == listing.asked \ {st}
  <2>1. u \in SUBSET Entries /\ a \in SUBSET Wanted /\ f \in SUBSET Wanted
    BY <1>5, <1>6, ListingFields
  <2>2. listing' = [listing EXCEPT !.asked = a, !.streams = u, !.full = f]
    BY <1>1
  <2> HIDE DEF u, a
  <2>3. QED
    BY <2>1, <2>2, ListingFields DEF ListingType
<1>9. /\ listing'.stage = "index" /\ listing'.mode = listing.mode
      /\ listing'.target = listing.target /\ listing'.position = listing.position
      /\ listing'.done = listing.done /\ listing'.after = listing.after
      /\ listing'.asked = listing.asked \ {st}
      /\ listing'.streams = listing.streams \cup stream /\ listing'.full = f
      /\ listing'.result = listing.result /\ listing'.moved = listing.moved
  BY <1>1, ListingFields DEF ListingType
<1>10. ReaderType'
  <2>1. IsFiniteSet(listing.streams \cup stream)
    BY <1>5, ListingFields, FS_Union
  <2>2. QED
    BY <1>1, <1>8, <1>9, <2>1, ListingFields DEF ReaderType
<1>11. listing.mode = "index" /\ \A y \in listing.streams : y.state \notin listing.asked
  BY <1>1 DEF ListingInv, StageInv
<1>12. StageInv'
  <2>1. \A y \in listing.streams \cup stream : y.state \notin listing.asked \ {st}
    BY <1>5, <1>11
  <2>2. listing.target # None => listing.result = {}
    BY <1>1 DEF ListingInv, StageInv
  <2>3. QED
    BY <1>9, <1>11, <2>1, <2>2 DEF StageInv
<1>13. IndexInv'
  BY <1>1, <1>9 DEF ListingInv, IndexInv
<1>14. ASSUME NEW x \in Sessions, Sought(x)' PROVE Covered(x)'
  <2>1. Sought(x) /\ item[x].state \in Wanted
    BY <1>1, <1>9, <1>14 DEF Sought
  <2>2. \/ x \in listing.result
        \/ Ahead(x) /\ (item[x].state \in listing.asked \/ Streamed(x))
    BY <1>1, <2>1 DEF ListingInv, CoverInv, Covered
  <2>3. Place(x)' = Place(x)
    BY <1>1 DEF Place
  <2>4. Ahead(x)' <=> Ahead(x)
    BY <1>1, <1>9, <2>3 DEF Ahead
  <2>5. Place(x) \in Entries /\ Place(x).state = item[x].state
    BY <2>1, PlaceTyped DEF VerifiedInv
  <2>6. CASE item[x].state # st
    <3>1. Streamed(x) => Streamed(x)'
      BY <1>1, <1>5, <1>6, <1>9, <2>3, <2>6 DEF Streamed
    <3>2. QED
      BY <1>1, <1>9, <2>2, <2>4, <2>6, <3>1 DEF Covered
  <2>7. ASSUME item[x].state = st, Ahead(x) PROVE Streamed(x)'
    <3>1. index[x] = item[x].keys /\ item[x].keys = Keys(item[x])
      BY <1>11, <2>1
      DEF ListingInv, IndexInv, VerifiedInv, CutoverIsComplete, Sought
    <3>2. Entry(x, index[x]) = Place(x) /\ index[x].state = st
      BY <2>7, <3>1 DEF Entry, Place, Keys
    <3>3. Place(x) \in range
      BY <3>2
    <3>4. from = None \/ Precedes(from, Place(x))
      BY <1>11, <2>7 DEF Ahead
    <3>5. Place(x) \in seen
      BY <3>3, <3>4
    <3>6. CASE Place(x) \in stream
      BY <1>9, <2>3, <3>6 DEF Streamed
    <3>7. CASE Place(x) \notin stream
      <4> HIDE DEF seen, range, from
      <4>1. Place(x) \in seen \ First(PageSize, seen) /\ PageSize \in Nat \ {0}
        BY <3>5, <3>7, GuildAssumption
      <4>2. st \in f
        BY <1>4, <1>7, <4>1, FullFirst
      <4>3. ASSUME NEW y \in stream PROVE Precedes(y, Place(x))
        <5>1. y \in First(PageSize, seen)
          BY <4>3
        <5>2. y = Place(x) \/ Precedes(y, Place(x)) \/ Precedes(Place(x), y)
          BY <1>4, <1>5, <3>5 DEF Ordered
        <5>3. PageSize \in Nat
          BY <4>1
        <5> HIDE DEF stream
        <5>4. QED
          BY <1>4, <4>1, <5>1, <5>2, <5>3, FirstPrecedes
      <4>4. \A y \in listing.streams : y.state # st
        BY <1>1, <1>11
      <4> HIDE DEF stream
      <4>5. QED
        BY <1>1, <1>9, <2>3, <2>7, <4>2, <4>3, <4>4 DEF Streamed
    <3>8. QED
      BY <3>6, <3>7
  <2>8. CASE item[x].state = st
    BY <1>9, <2>2, <2>4, <2>7, <2>8 DEF Covered
  <2>9. QED
    BY <2>6, <2>8
<1>15. QED
  BY <1>10, <1>12, <1>13, <1>14 DEF ListingInv, CoverInv

(* What the page takes of a state is totally ordered; the cursor moves to   *)
(* the last of it.                                                         *)
LEMMA TakenOrdered ==
    ASSUME ListingInv, NEW page \in SUBSET listing.streams, NEW st \in Wanted
    PROVE  LET taken == {e \in page : e.state = st}
           IN  /\ taken \in SUBSET Entries /\ IsFiniteSet(taken) /\ Ordered(taken)
               /\ NextPosition(st, page) \in Entries \cup {None}
<1> DEFINE taken == {e \in page : e.state = st}
<1>1. taken \subseteq listing.streams /\ taken \in SUBSET Entries
  BY ListingFields
<1>2. IsFiniteSet(taken)
  BY <1>1, ListingFields, FS_Subset
<1>3. Ordered(taken)
  BY <1>1, PrecedesOrders DEF Ordered
<1>4. NextPosition(st, page) = IF taken = {} THEN listing.position[st] ELSE Last(taken)
  BY DEF NextPosition
<1>5. taken # {} => Last(taken) \in Entries
  <2> HIDE DEF taken
  <2>1. QED
    BY <1>1, <1>2, <1>3, LastIsLast
<1>6. listing.position[st] \in Entries \cup {None}
  BY ListingFields
<1>7. QED
  BY <1>1, <1>2, <1>3, <1>4, <1>5, <1>6

LEMMA MergeCovers ==
    ASSUME VerifiedInv, ListingInv, MergePage
    PROVE  ListingInv'
<1> DEFINE page == First(PageSize, listing.streams)
           open == {st \in Wanted \ listing.done :
                      \/ st \in listing.full
                      \/ \E e \in listing.streams \ page : e.state = st}
           ids == {e.id : e \in page}
           position == [st \in Wanted |-> NextPosition(st, page)]
           more == open # {}
           done == Wanted \ open
<1>1. /\ listing.stage = "index" /\ listing.asked = {}
      /\ item' = item /\ index' = index /\ cutover' = cutover
      /\ listing' = [listing EXCEPT !.stage = "revalidate", !.page = ids,
                        !.position = position, !.done = done, !.more = more,
                        !.streams = {}, !.full = {}]
  BY DEF MergePage
<1>2. page \in SUBSET listing.streams /\ PageSize \in Nat
  BY GuildAssumption DEF First
<1>3. /\ ids \in SUBSET Sessions /\ position \in [Wanted -> Entries \cup {None}]
      /\ done \in SUBSET Wanted /\ more \in BOOLEAN
  <2>1. \A e \in page : e.id \in Sessions
    BY <1>2, ListingFields, EntryFields
  <2>2. \A st \in Wanted : NextPosition(st, page) \in Entries \cup {None}
    <3> HIDE DEF page
    <3>1. QED
      BY <1>2, TakenOrdered
  <2>3. QED
    BY <2>1, <2>2
<1>4. \A st \in Wanted : position[st] = NextPosition(st, page)
  OBVIOUS
<1>5. \A st \in Wanted \ listing.done :
         st \in listing.full \/ (\E e \in listing.streams \ page : e.state = st)
            => more /\ st \notin done
  OBVIOUS
<1>6. \A e \in page : e.id \in ids
  OBVIOUS
<1> HIDE DEF ids, position, more, done, open
<1>7. listing' \in ListingType
  BY <1>1, <1>3, ListingFields DEF ListingType
<1>8. /\ listing'.stage = "revalidate" /\ listing'.mode = listing.mode
      /\ listing'.target = listing.target /\ listing'.position = position
      /\ listing'.done = done /\ listing'.streams = {} /\ listing'.page = ids
      /\ listing'.more = more /\ listing'.result = listing.result
      /\ listing'.moved = listing.moved
  BY <1>1, ListingFields DEF ListingType
<1>9. ReaderType'
  BY <1>1, <1>7, <1>8, ListingFields, FS_EmptySet DEF ReaderType
<1>10. listing.mode = "index"
  BY <1>1 DEF ListingInv, StageInv
<1>11. StageInv' /\ IndexInv'
  BY <1>1, <1>8, <1>10 DEF ListingInv, StageInv, IndexInv
<1>12. ASSUME NEW x \in Sessions, Sought(x)' PROVE Covered(x)'
  <2> DEFINE q == item[x].state
  <2>1. Sought(x) /\ q \in Wanted
    BY <1>1, <1>8, <1>12 DEF Sought
  <2>2. x \in listing.result \/ (Ahead(x) /\ Streamed(x))
    BY <1>1, <2>1 DEF ListingInv, CoverInv, Covered
  <2>3. Place(x)' = Place(x)
    BY <1>1 DEF Place
  <2>4. Place(x) \in Entries /\ Place(x).state = q /\ Place(x).id = x
    BY <2>1, PlaceTyped DEF VerifiedInv
  <2>5. ASSUME Ahead(x), Streamed(x), Place(x) \notin page PROVE more /\ Ahead(x)'
    <3>1. q \in Wanted \ listing.done
      BY <1>10, <2>1, <2>5 DEF Ahead
    <3>2. q \in listing.full \/ Place(x) \in listing.streams \ page
      BY <2>5 DEF Streamed
    <3>3. more /\ q \notin done
      BY <1>5, <2>4, <3>1, <3>2
    <3> DEFINE taken == {e \in page : e.state = q}
    <3>4. ASSUME NEW y \in taken PROVE Precedes(y, Place(x))
      <4>1. y \in page /\ y \in listing.streams /\ y.state = q /\ y \in Entries
        BY <1>2, <3>4, ListingFields
      <4>2. CASE Place(x) \in listing.streams
        <5>1. y = Place(x) \/ Precedes(y, Place(x)) \/ Precedes(Place(x), y)
          BY <2>4, <4>1, PrecedesOrders
        <5>2. /\ listing.streams \in SUBSET Entries /\ IsFiniteSet(listing.streams)
              /\ y \in First(PageSize, listing.streams)
              /\ Place(x) \in listing.streams \ First(PageSize, listing.streams)
          BY <2>5, <4>1, <4>2, ListingFields
        <5>3. QED
          BY <1>2, <5>1, <5>2, FirstPrecedes
      <4>3. CASE Place(x) \notin listing.streams
        BY <2>5, <4>1, <4>3 DEF Streamed
      <4>4. QED
        BY <4>2, <4>3
    <3>5. position[q] = IF taken = {} THEN listing.position[q] ELSE Last(taken)
      BY <1>4, <2>1 DEF NextPosition
    <3>6. position[q] = None \/ Precedes(position[q], Place(x))
      <4>1. CASE taken = {}
        BY <1>10, <2>5, <3>5, <4>1 DEF Ahead
      <4>2. CASE taken # {}
        <5>1. taken \in SUBSET Entries /\ IsFiniteSet(taken) /\ Ordered(taken)
          <6> HIDE DEF page
          <6>1. QED
            BY <1>2, <2>1, TakenOrdered
        <5> HIDE DEF taken
        <5>2. Precedes(Last(taken), Place(x))
          BY <3>4, <4>2, <5>1, LastPrecedes
        <5>3. QED
          BY <3>5, <4>2, <5>2
      <4>3. QED
        BY <4>1, <4>2
    <3>7. Ahead(x)'
      BY <1>1, <1>8, <1>10, <2>3, <3>3, <3>6 DEF Ahead
    <3>8. QED
      BY <3>3, <3>7
  <2>6. Place(x) \in page => x \in ids
    BY <1>6, <2>4
  <2>7. x \in listing'.result \cup listing'.page \/ (listing'.more /\ Ahead(x)')
    BY <1>8, <2>2, <2>5, <2>6
  <2>8. QED
    BY <1>8, <2>7 DEF Covered
<1>13. QED
  BY <1>9, <1>11, <1>12 DEF ListingInv, CoverInv

LEMMA ScanCovers ==
    ASSUME VerifiedInv, ListingInv, ScanCompatibility
    PROVE  ListingInv'
<1> DEFINE sessions == {Entry(s, item[s]) : s \in {x \in Sessions : item[x].state \in Wanted}}
           rest == IF listing.after = None THEN sessions
                   ELSE {e \in sessions : Precedes(listing.after, e)}
           page == First(PageSize, rest)
           ids == {e.id : e \in page}
           more == page # rest
           after == IF page # rest THEN Last(page) ELSE None
<1>1. /\ listing.stage = "scan" /\ item' = item /\ index' = index /\ cutover' = cutover
      /\ listing' = [listing EXCEPT !.stage = "revalidate", !.page = ids,
                        !.more = more, !.after = after]
  BY DEF ScanCompatibility
<1>2. \A s \in Sessions : item[s].state \in Wanted => Entry(s, item[s]) \in Entries
  BY PlaceTyped DEF VerifiedInv, Place
<1>3. rest \subseteq sessions
  OBVIOUS
<1>4. rest \in SUBSET Entries /\ IsFiniteSet(rest) /\ Ordered(rest)
  <2>1. \A s \in Sessions : Entry(s, item[s]).id = s
    BY DEF Entry
  <2>2. sessions \in SUBSET Entries /\ \A a, b \in sessions : a.id = b.id => a = b
    BY <1>2, <2>1
  <2>3. rest \in SUBSET Entries /\ \A a, b \in rest : a.id = b.id => a = b
    BY <1>3, <2>2
  <2> HIDE DEF rest
  <2>4. QED
    BY <2>3, DistinctEntries
<1>5. \A x \in Sessions : item[x].state \in Wanted
         /\ (listing.after = None \/ Precedes(listing.after, Place(x))) => Place(x) \in rest
  BY DEF Place
<1> HIDE DEF sessions, rest
<1>6. /\ page \subseteq rest /\ page \in SUBSET Entries /\ IsFiniteSet(page)
      /\ Ordered(page) /\ PageSize \in Nat \ {0}
  <2>1. page \subseteq rest
    BY DEF First
  <2> HIDE DEF page
  <2>2. IsFiniteSet(page) /\ Ordered(page)
    BY <1>4, <2>1, FS_Subset DEF Ordered
  <2>3. QED
    BY <1>4, <2>1, <2>2, GuildAssumption
<1>7. more => page # {}
  <2>1. CASE rest = {}
    BY <1>6, <2>1
  <2>2. CASE rest # {}
    BY <1>4, <1>6, <2>2, FirstTakes
  <2>3. QED
    BY <2>1, <2>2
<1>8. more => after = Last(page) /\ Last(page) \in Entries
  <2> HIDE DEF page
  <2>1. more => Last(page) \in Entries
    BY <1>6, <1>7, LastIsLast
  <2>2. QED
    BY <2>1
<1>9. ids \in SUBSET Sessions /\ more \in BOOLEAN /\ after \in Entries \cup {None}
  <2>1. \A e \in page : e.id \in Sessions
    BY <1>6, EntryFields
  <2>2. ids \in SUBSET Sessions
    BY <2>1
  <2>3. after \in Entries \cup {None}
    BY <1>8
  <2>4. QED
    BY <2>2, <2>3
<1>10. \A e \in page : e.id \in ids
  OBVIOUS
<1>11. \A e \in rest : e \notin page => more
  OBVIOUS
<1> HIDE DEF ids, more, after
<1>12. listing' \in ListingType
  BY <1>1, <1>9, ListingFields DEF ListingType
<1>13. /\ listing'.stage = "revalidate" /\ listing'.mode = listing.mode
       /\ listing'.target = listing.target /\ listing'.after = after
       /\ listing'.streams = listing.streams /\ listing'.page = ids
       /\ listing'.more = more /\ listing'.result = listing.result
       /\ listing'.moved = listing.moved
  BY <1>1, ListingFields DEF ListingType
<1>14. ReaderType'
  BY <1>1, <1>12, <1>13, ListingFields DEF ReaderType
<1>15. listing.mode = "scan"
  BY <1>1 DEF ListingInv, StageInv
<1>16. StageInv' /\ IndexInv'
  BY <1>1, <1>13, <1>15 DEF ListingInv, StageInv, IndexInv
<1>17. ASSUME NEW x \in Sessions, Sought(x)' PROVE Covered(x)'
  <2>1. Sought(x) /\ item[x].state \in Wanted
    BY <1>1, <1>13, <1>17 DEF Sought
  <2>2. x \in listing.result \/ Ahead(x)
    BY <1>1, <2>1 DEF ListingInv, CoverInv, Covered
  <2>3. Place(x)' = Place(x)
    BY <1>1 DEF Place
  <2>4. Place(x) \in Entries /\ Place(x).id = x
    BY <2>1, PlaceTyped DEF VerifiedInv
  <2>5. Ahead(x) => Place(x) \in rest
    BY <1>5, <1>15, <2>1 DEF Ahead
  <2>6. ASSUME Place(x) \in rest, Place(x) \notin page PROVE more /\ Ahead(x)'
    <3>1. more
      BY <1>11, <2>6
    <3>2. ASSUME NEW y \in page PROVE Precedes(y, Place(x))
      <4>1. y = Place(x) \/ Precedes(y, Place(x)) \/ Precedes(Place(x), y)
        BY <1>4, <1>6, <2>6, <3>2 DEF Ordered
      <4>2. /\ y \in First(PageSize, rest) /\ PageSize \in Nat
            /\ Place(x) \in rest \ First(PageSize, rest)
        BY <1>6, <2>6, <3>2
      <4>3. QED
        BY <1>4, <4>1, <4>2, FirstPrecedes
    <3>3. Precedes(after, Place(x))
      <4>1. page # {} /\ after = Last(page)
        BY <1>7, <1>8, <3>1
      <4> HIDE DEF page
      <4>2. Precedes(Last(page), Place(x))
        BY <1>6, <3>2, <4>1, LastPrecedes
      <4>3. QED
        BY <4>1, <4>2
    <3>4. QED
      BY <1>13, <1>15, <2>3, <3>1, <3>3 DEF Ahead
  <2>7. Place(x) \in page => x \in ids
    BY <1>10, <2>4
  <2>8. x \in listing'.result \cup listing'.page \/ (listing'.more /\ Ahead(x)')
    BY <1>13, <2>2, <2>5, <2>6, <2>7
  <2>9. QED
    BY <1>13, <2>8 DEF Covered
<1>18. QED
  BY <1>14, <1>16, <1>17 DEF ListingInv, CoverInv

LEMMA DoneFields ==
    ASSUME ListingInv, NEW r \in SUBSET Sessions
    PROVE  /\ Done(r) \in ListingType
           /\ Done(r).stage = "done" /\ Done(r).mode = "none" /\ Done(r).streams = {}
           /\ Done(r).after = None /\ Done(r).done = {} /\ Done(r).result = r
           /\ \A st \in Wanted : Done(r).position[st] = None
           /\ Done(r).target = listing.target /\ Done(r).moved = listing.moved
<1> DEFINE t == listing.target
           v == listing.moved
<1>1. Done(r) = [NoListing EXCEPT !.stage = "done", !.target = t, !.result = r, !.moved = v]
  BY DEF Done
<1>2. t \in Sessions \cup {None} /\ v \in SUBSET Sessions
  BY ListingFields
<1> HIDE DEF t, v
<1>3. Done(r) \in ListingType
  BY <1>1, <1>2, NoListingTyped DEF ListingType
<1>4. /\ Done(r).stage = "done" /\ Done(r).mode = "none" /\ Done(r).streams = {}
      /\ Done(r).after = None /\ Done(r).done = {} /\ Done(r).result = r
      /\ \A st \in Wanted : Done(r).position[st] = None
      /\ Done(r).target = t /\ Done(r).moved = v
  BY <1>1, NoListingTyped DEF ListingType
<1>5. QED
  BY <1>3, <1>4 DEF t, v

(* A listing ends with a result that has what was sought. *)
LEMMA DoneCovers ==
    ASSUME ListingInv, NEW r \in SUBSET Sessions, listing' = Done(r),
           item' = item, index' = index,
           \A x \in Sessions : Sought(x) => x \in r /\ (listing.target = x => r = {x})
    PROVE  ListingInv'
<1>1. ReaderType'
  BY DoneFields, ListingFields, FS_EmptySet DEF ReaderType
<1>2. StageInv' /\ IndexInv'
  BY DoneFields DEF StageInv, IndexInv
<1>3. ASSUME NEW x \in Sessions, Sought(x)' PROVE Covered(x)'
  <2>1. Sought(x)
    BY <1>3, DoneFields DEF Sought
  <2>2. QED
    BY <2>1, DoneFields DEF Covered
<1>4. QED
  BY <1>1, <1>2, <1>3 DEF ListingInv, CoverInv

LEMMA RevalidateCovers ==
    ASSUME ListingInv, NEW s \in Sessions, Revalidate(s)
    PROVE  ListingInv'
<1>1. /\ listing.stage = "revalidate" /\ s \in listing.page
      /\ item' = item /\ index' = index /\ cutover' = cutover
  BY DEF Revalidate
<1>2. CASE listing.target = s
  <2>1. listing' = Done({s}) /\ {s} \in SUBSET Sessions
    BY <1>2 DEF Revalidate
  <2>2. \A x \in Sessions : Sought(x) => x \in {s} /\ (listing.target = x => {s} = {x})
    BY <1>2, GuildAssumption DEF Sought
  <2>3. QED
    BY <1>1, <2>1, <2>2, DoneCovers
<1>3. CASE listing.target # s
  <2> DEFINE p == listing.page \ {s}
             r == IF listing.target = None /\ item[s].state \in Wanted
                  THEN listing.result \cup {s} ELSE listing.result
  <2>1. listing' = [listing EXCEPT !.page = p, !.result = r]
    BY <1>3 DEF Revalidate
  <2>2. p \in SUBSET Sessions /\ r \in SUBSET Sessions
    BY ListingFields
  <2>3. Sought(s) => s \in r
    BY <1>3 DEF Sought
  <2>4. listing.result \subseteq r /\ (listing.target # None => r = listing.result)
    OBVIOUS
  <2>5. listing.page \subseteq p \cup {s}
    OBVIOUS
  <2> HIDE DEF p, r
  <2>6. listing' \in ListingType
    BY <2>1, <2>2, ListingFields DEF ListingType
  <2>7. /\ listing'.stage = listing.stage /\ listing'.mode = listing.mode
        /\ listing'.target = listing.target /\ listing'.position = listing.position
        /\ listing'.done = listing.done /\ listing'.after = listing.after
        /\ listing'.streams = listing.streams /\ listing'.page = p
        /\ listing'.more = listing.more /\ listing'.result = r
        /\ listing'.moved = listing.moved
    BY <2>1, ListingFields DEF ListingType
  <2>8. ReaderType'
    BY <1>1, <2>6, <2>7, ListingFields DEF ReaderType
  <2>9. StageInv' /\ IndexInv'
    BY <1>1, <2>4, <2>7 DEF ListingInv, StageInv, IndexInv
  <2>10. ASSUME NEW x \in Sessions, Sought(x)' PROVE Covered(x)'
    <3>1. Sought(x)
      BY <1>1, <2>7, <2>10 DEF Sought
    <3>2. x \in listing.result \cup listing.page \/ (listing.more /\ Ahead(x))
      BY <1>1, <3>1 DEF ListingInv, CoverInv, Covered
    <3>3. Place(x)' = Place(x)
      BY <1>1 DEF Place
    <3>4. Ahead(x)' <=> Ahead(x)
      BY <1>1, <2>7, <3>3 DEF Ahead
    <3>5. x \in r \cup p \/ (listing.more /\ Ahead(x))
      BY <2>3, <2>4, <2>5, <3>1, <3>2
    <3>6. QED
      BY <1>1, <2>7, <3>4, <3>5 DEF Covered
  <2>11. QED
    BY <2>8, <2>9, <2>10 DEF ListingInv, CoverInv
<1>4. QED
  BY <1>2, <1>3

LEMMA EndPageCovers ==
    ASSUME ListingInv, EndPage
    PROVE  ListingInv'
<1>1. /\ listing.stage = "revalidate" /\ listing.page = {}
      /\ item' = item /\ index' = index /\ cutover' = cutover
      /\ listing' = IF listing.more THEN [listing EXCEPT !.stage = "page"]
                     ELSE Done(listing.result)
  BY DEF EndPage
<1>2. \A x \in Sessions : Sought(x) => x \in listing.result \/ (listing.more /\ Ahead(x))
  BY <1>1 DEF ListingInv, CoverInv, Covered
<1>3. listing.mode # "none" /\ (listing.target # None => listing.result = {})
  BY <1>1 DEF ListingInv, StageInv
<1>4. CASE listing.more
  <2>1. listing' = [listing EXCEPT !.stage = "page"]
    BY <1>1, <1>4
  <2>2. listing' \in ListingType
    BY <2>1, ListingFields DEF ListingType
  <2>3. /\ listing'.stage = "page" /\ listing'.mode = listing.mode
        /\ listing'.target = listing.target /\ listing'.position = listing.position
        /\ listing'.done = listing.done /\ listing'.after = listing.after
        /\ listing'.streams = listing.streams /\ listing'.result = listing.result
        /\ listing'.moved = listing.moved
    BY <2>1, ListingFields DEF ListingType
  <2>4. ReaderType'
    BY <1>1, <2>2, <2>3, ListingFields DEF ReaderType
  <2>5. StageInv' /\ IndexInv'
    BY <1>1, <1>3, <2>3 DEF ListingInv, StageInv, IndexInv
  <2>6. ASSUME NEW x \in Sessions, Sought(x)' PROVE Covered(x)'
    <3>1. Sought(x)
      BY <1>1, <2>3, <2>6 DEF Sought
    <3>2. Place(x)' = Place(x)
      BY <1>1 DEF Place
    <3>3. Ahead(x)' <=> Ahead(x)
      BY <1>1, <2>3, <3>2 DEF Ahead
    <3>4. QED
      BY <1>2, <2>3, <3>1, <3>3 DEF Covered
  <2>7. QED
    BY <2>4, <2>5, <2>6 DEF ListingInv, CoverInv
<1>5. CASE ~listing.more
  <2>1. listing' = Done(listing.result) /\ listing.result \in SUBSET Sessions
    BY <1>1, <1>5, ListingFields
  <2>2. \A x \in Sessions :
           Sought(x) => /\ x \in listing.result
                        /\ listing.target = x => listing.result = {x}
    BY <1>2, <1>3, <1>5, GuildAssumption
  <2>3. QED
    BY <1>1, <2>1, <2>2, DoneCovers
<1>6. QED
  BY <1>4, <1>5

LEMMA ReaderCovers ==
    ASSUME VerifiedInv, ListingInv, Reader
    PROVE  ListingInv'
<1>1. CASE Start(None)
  BY <1>1, StartsEmpty
<1>2. CASE ListPage
  BY <1>2, ListPageCovers
<1>3. CASE MergePage
  BY <1>3, MergeCovers
<1>4. CASE ScanCompatibility
  BY <1>4, ScanCovers
<1>5. CASE EndPage
  BY <1>5, EndPageCovers
<1>6. ASSUME NEW s \in Sessions, ResolveCardControl(s) \/ ResolveLegacyCardControl(s)
      PROVE  ListingInv'
  <2>1. s \in Sessions \cup {None} /\ s # None
    BY GuildAssumption
  <2>2. Start(s) \/ ResolveCardControl(s)
    BY <1>6 DEF ResolveLegacyCardControl
  <2>3. QED
    BY <2>1, <2>2, StartsEmpty
<1>7. ASSUME NEW s \in Sessions, Revalidate(s) PROVE ListingInv'
  BY <1>7, RevalidateCovers
<1>8. ASSUME NEW st \in Wanted, QueryState(st) PROVE ListingInv'
  BY <1>8, QueryCovers
<1>9. QED
  BY <1>1, <1>2, <1>3, <1>4, <1>5, <1>6, <1>7, <1>8 DEF Reader

LEMMA ListingNext == VerifiedInv /\ ListingInv /\ [Next]_vars => ListingInv'
<1> SUFFICES ASSUME VerifiedInv, ListingInv, [Next]_vars PROVE ListingInv'
  OBVIOUS
<1>1. ASSUME NEW s \in Sessions, NEW st \in States, Save(s, st) PROVE ListingInv'
  BY <1>1, SaveStays
<1>2. ASSUME NEW s \in Sessions, Replicate(s) PROVE ListingInv'
  BY <1>2, ReplicateStays
<1>3. CASE Operator
  BY <1>3, OperatorStays
<1>4. CASE Reader
  BY <1>4, ReaderCovers
<1>5. CASE UNCHANGED vars
  <2>1. item' = item /\ index' = index /\ cutover' = cutover /\ listing' = listing
    BY <1>5 DEF vars
  <2>2. listing.mode = "index" =>
           cutover' /\ \A x \in Sessions \ listing'.moved : index'[x] = item'[x].keys
    BY <2>1 DEF ListingInv, IndexInv
  <2>3. {} \in SUBSET Sessions
    OBVIOUS
  <2>4. QED
    BY <2>1, <2>2, <2>3, ListingFields, OthersStay
<1>6. QED
  BY <1>1, <1>2, <1>3, <1>4, <1>5 DEF Next, Writer

(* A listing that comes to its end has every session whose place stayed the *)
(* same while it was listed, across every page, every stream and the        *)
(* cutover: what its cursors have passed, it has read.                      *)
THEOREM ListingMissesNoSession == Spec => []UnmovedAreListed
<1>1. VerifiedInv /\ ListingInv => UnmovedAreListed
  <2> SUFFICES ASSUME ListingInv, listing.stage = "done",
                      NEW s \in Sessions \ listing.moved, item[s].state \in Wanted
               PROVE  /\ listing.target = None => s \in listing.result
                      /\ listing.target = s => listing.result = {s}
    BY DEF UnmovedAreListed
  <2>1. listing.target \in {None, s} => Covered(s)
    BY DEF ListingInv, CoverInv, Sought
  <2>2. QED
    BY <2>1 DEF Covered
<1>2. Init => VerifiedInv /\ ListingInv
  BY VerifiedInit, ListingInit
<1>3. VerifiedInv /\ ListingInv /\ [Next]_vars => VerifiedInv' /\ ListingInv'
  BY VerifiedNext, ListingNext
<1>4. QED
  BY <1>1, <1>2, <1>3, PTL DEF Spec
=============================================================================
