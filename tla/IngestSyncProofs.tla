--------------------------- MODULE IngestSyncProofs ---------------------------
(***************************************************************************)
(* Theorems about IngestSync for any conversations, runs, sizes and        *)
(* faults.                                                                 *)
(*                                                                         *)
(* The argument is about the list of a run.  A page is collected only up   *)
(* to the room of its window (FewShown), so the list keeps the limit; an   *)
(* entry enters it with the last_seen of its conversation, which only      *)
(* grows, so whatever is fetched for it later is at least as new           *)
(* (EntryInv); hence what is stored with its last_seen is complete.        *)
(***************************************************************************)
EXTENDS IngestSync, FiniteSetTheorems, TLAPS

-------------------------------------------------------------------------------
(* Sets of conversations *)

\* Every set of conversations is finite and has a natural number of elements.
LEMMA ConvsFinite ==
  ASSUME NEW S \in SUBSET Convs
  PROVE  IsFiniteSet(S) /\ Cardinality(S) \in Nat
<1>1. IsFiniteSet(S)
  BY ConvsAssumption, FS_Subset
<1> QED
  BY <1>1, FS_CardinalityType

\* The place of a conversation in a list of conversations is a natural number.
LEMMA RankType ==
  ASSUME NEW S \in SUBSET Convs, NEW c
  PROVE  Rank(c, S) \in Nat
BY ConvsFinite DEF Rank

\* Of two conversations the one that comes before has the smaller place.
LEMMA RankGrows ==
  ASSUME lastActive \in [Convs -> Times], NEW S \in SUBSET Convs,
         NEW c \in S, NEW d \in S, Before(c, d)
  PROVE  Rank(c, S) < Rank(d, S)
<1> DEFINE P == {x \in S : Before(x, c)}
           Q == {x \in S : Before(x, d)}
<1>1. \A x \in S : lastActive[x] \in Nat /\ x \in Nat
  BY ConvsAssumption, SizesAssumption DEF Times
<1>2. P \subseteq Q /\ c \in Q /\ c \notin P
  BY <1>1 DEF Before
<1>3. IsFiniteSet(Q) /\ Cardinality(P) \in Nat /\ Cardinality(Q) \in Nat
  BY ConvsFinite
<1>4. Cardinality(P) <= Cardinality(Q) /\ Cardinality(P) # Cardinality(Q)
  BY <1>2, <1>3, FS_Subset
<1> QED
  BY <1>3, <1>4 DEF Rank

\* No more than n conversations of a list have a place below n.
LEMMA FewBelow ==
  ASSUME lastActive \in [Convs -> Times], NEW S \in SUBSET Convs, NEW n \in Nat,
         NEW T \in SUBSET S, \A c \in T : Rank(c, S) < n
  PROVE  Cardinality(T) <= n
<1> DEFINE f == [c \in T |-> Rank(c, S) + 1]
<1>1. \A c \in S : Rank(c, S) \in Nat
  BY RankType
<1>2. f \in [T -> 1..n]
  BY <1>1
<1>3. \A c, d \in T : Before(c, d) \/ Before(d, c) \/ c = d
  <2>1. \A c \in T : lastActive[c] \in Nat /\ c \in Nat
    BY ConvsAssumption, SizesAssumption DEF Times
  <2> QED
    BY <2>1 DEF Before
<1>4. \A c, d \in T : f[c] = f[d] => c = d
  BY <1>1, <1>3, RankGrows
<1>5. f \in Injection(T, 1..n)
  BY <1>2, <1>4 DEF Injection, IsInjective
<1>6. IsFiniteSet(1..n) /\ Cardinality(1..n) = n
  BY FS_Interval
<1> QED
  BY <1>5, <1>6, FS_Injection

-------------------------------------------------------------------------------
(* A page of the inbox *)

\* What a page shows is conversations with a message, and no more of them than
\* the window has room for.
LEMMA ShownFacts ==
  ASSUME TypeOK, SweepInv, NEW r \in Runs, pc[r] = "listing"
  PROVE  /\ Shown(r) \in SUBSET Convs
         /\ Cardinality(Shown(r)) \in Nat
         /\ Count(r) \in Nat
         /\ Count(r) <= window[r].room
<1>1. Shown(r) \subseteq Page(r) /\ Page(r) \in SUBSET Convs
  BY DEF Shown, Page, WindowInbox, Inbox
<1>2. Cardinality(Shown(r)) \in Nat
  BY <1>1, ConvsFinite
<1>3. window[r].count \in Nat /\ window[r].room \in Int /\ window[r].count <= window[r].room
  BY DEF TypeOK, Types, SweepInv
<1>4. window[r].room - window[r].count \in Nat
  BY <1>3
<1>5. \A c \in Page(r) : Rank(c, Page(r)) \in Nat
  BY <1>1, RankType
<1>6. \A c \in Shown(r) : Rank(c, Page(r)) < window[r].room - window[r].count
  BY <1>1, <1>3, <1>5 DEF Shown
<1>7. lastActive \in [Convs -> Times]
  BY DEF TypeOK, Types
<1>8. Cardinality(Shown(r)) <= window[r].room - window[r].count
  BY <1>1, <1>4, <1>6, <1>7, FewBelow
<1> QED
  BY <1>1, <1>2, <1>3, <1>8 DEF Count

\* The list with the entries of a page: one entry per conversation, each with
\* the last_seen of its conversation, and no more new ones than the page shows.
LEMMA CollectFacts ==
  ASSUME SyncInv, NEW r \in Runs, pc[r] = "listing"
  PROVE  /\ Collect(r) \in SUBSET Entries
         /\ IsFiniteSet(Collect(r))
         /\ Cardinality(Collect(r)) \in Nat
         /\ Cardinality(Collect(r)) <= Cardinality(listed[r]) + Cardinality(Shown(r))
         /\ \A e, f \in Collect(r) : e.conv = f.conv => e = f
         /\ \A e \in Collect(r) : e.seen <= lastActive[e.conv]
<1> DEFINE new == Shown(r) \ ConvsIn(listed[r])
           entry(c) == [conv |-> c, seen |-> lastActive[c],
                        place |-> Cardinality(listed[r]) + Rank(c, new)]
           added == {entry(c) : c \in new}
           f == [c \in new |-> entry(c)]
<1>1. Collect(r) = listed[r] \cup added
  BY DEF Collect
<1>2. /\ listed[r] \in SUBSET Entries /\ IsFiniteSet(listed[r])
      /\ lastActive \in [Convs -> Times]
      /\ Cardinality(listed[r]) \in Nat
  BY FS_CardinalityType DEF SyncInv, TypeOK, Types, SweepInv
<1>3. /\ Shown(r) \in SUBSET Convs /\ Cardinality(Shown(r)) \in Nat
      /\ new \in SUBSET Shown(r) /\ new \in SUBSET Convs
  BY ShownFacts DEF SyncInv
<1>4. \A c \in new : entry(c) \in Entries
  <2>1. \A c \in new : Rank(c, new) \in Nat
    BY <1>3, RankType
  <2>2. ASSUME NEW c \in new
        PROVE  entry(c) \in Entries
    <3>1. c \in Convs /\ lastActive[c] \in Times
      BY <1>2, <1>3
    <3>2. Rank(c, new) \in Nat
      BY <2>1
    <3>3. Cardinality(listed[r]) \in Nat
      BY <1>2
    <3>4. Cardinality(listed[r]) + Rank(c, new) \in Nat
      BY <3>2, <3>3
    <3> QED
      BY <3>1, <3>4 DEF Entries
  <2> QED
    BY <2>2
<1>5. IsFiniteSet(new) /\ Cardinality(new) \in Nat /\ Cardinality(new) <= Cardinality(Shown(r))
  BY <1>3, ConvsFinite, FS_Subset
<1>6. IsFiniteSet(added) /\ Cardinality(added) \in Nat /\ Cardinality(added) <= Cardinality(new)
  <2>1. f \in Surjection(new, added)
    BY DEF Surjection
  <2>2. IsFiniteSet(added) /\ Cardinality(added) <= Cardinality(new)
    BY <1>5, <2>1, FS_Surjection
  <2> QED
    BY <2>2, FS_CardinalityType
<1>7. /\ IsFiniteSet(Collect(r)) /\ Cardinality(Collect(r)) \in Nat
      /\ Cardinality(Collect(r)) <= Cardinality(listed[r]) + Cardinality(Shown(r))
  <2> HIDE DEF added
  <2>1. IsFiniteSet(listed[r] \cap added) /\ Cardinality(listed[r] \cap added) \in Nat
    BY <1>2, FS_Subset, FS_CardinalityType
  <2>2. IsFiniteSet(listed[r] \cup added)
        /\ Cardinality(listed[r] \cup added)
             = Cardinality(listed[r]) + Cardinality(added) - Cardinality(listed[r] \cap added)
    BY <1>2, <1>6, FS_Union
  <2>3. Cardinality(listed[r] \cup added) \in Nat
    BY <2>2, FS_CardinalityType
  <2> QED
    BY <1>1, <1>2, <1>3, <1>5, <1>6, <2>1, <2>2, <2>3
<1>8. \A e, g \in Collect(r) : e.conv = g.conv => e = g
  <2>1. \A e, g \in listed[r] : e.conv = g.conv => e = g
    BY DEF SyncInv, ListedOnce
  <2>2. \A e \in listed[r] : e.conv \in ConvsIn(listed[r])
    BY DEF ConvsIn
  <2>3. \A e \in added : e.conv \in new /\ e = entry(e.conv)
    OBVIOUS
  <2>4. \A e \in listed[r], g \in added : e.conv # g.conv
    BY <2>2, <2>3
  <2>5. \A e, g \in added : e.conv = g.conv => e = g
    BY <2>3
  <2> HIDE DEF added
  <2> QED
    BY <1>1, <2>1, <2>4, <2>5
<1>9. \A e \in Collect(r) : e.seen <= lastActive[e.conv]
  <2>1. \A e \in listed[r] : e.seen <= lastActive[e.conv]
    BY DEF SyncInv, EntryInv
  <2>2. \A e \in added : e.seen <= lastActive[e.conv]
    <3>1. \A c \in new : lastActive[c] \in Nat
      BY <1>2, <1>3, SizesAssumption DEF Times
    <3>2. \A c \in new : entry(c).seen <= lastActive[entry(c).conv]
      BY <3>1
    <3> QED
      BY <3>2
  <2> QED
    BY <1>1, <2>1, <2>2
<1> HIDE DEF added
<1> QED
  BY <1>1, <1>2, <1>4, <1>7, <1>8, <1>9 DEF added

-------------------------------------------------------------------------------
(* Type correctness *)

\* The variables have their types in every initial state.
LEMMA TypesInit == Init => Types
<1> SUFFICES ASSUME Init PROVE Types
  OBVIOUS
<1>1. 0 \in Times /\ 1 \in Times \ {0} /\ 0..1 \subseteq Times
  BY SizesAssumption DEF Times
<1>2. NoWindow \in [end : Int, page : Nat, room : Int, count : Nat, empties : Nat]
  BY DEF NoWindow
<1>3. lastActive \in [Convs -> Times]
  BY <1>1 DEF Init
<1> QED
  BY <1>1, <1>2, <1>3 DEF Init, Types

\* The later of two times is one of them.
LEMMA LaterFacts ==
  ASSUME NEW a \in Times, NEW b \in Times
  PROVE  Later(a, b) \in Times /\ Later(a, b) >= a /\ Later(a, b) >= b
BY SizesAssumption DEF Later, Times

\* Exit resets what the run remembers to values of the types.
LEMMA ExitTypes ==
  ASSUME Types, NEW r \in Runs, Exit(r)
  PROVE  /\ pc' \in [Runs -> {"idle", "starting", "listing", "ingesting"}]
         /\ started' \in [Runs -> Times] /\ startDate' \in [Runs -> Times]
         /\ window' \in [Runs -> [end : Int, page : Nat, room : Int, count : Nat, empties : Nat]]
         /\ listed' \in [Runs -> SUBSET Entries]
         /\ fetched' \in [Runs -> [Convs -> Times]]
         /\ done' \in [Runs -> SUBSET Convs]
         /\ closed' \in [Runs -> SUBSET Nat]
BY SizesAssumption DEF Types, Exit, NoWindow, Times

\* The window of a run after it has been listing: the next page, or the window
\* before.
LEMMA WindowTypes ==
  ASSUME SyncInv, NEW r \in Runs, pc[r] = "listing"
  PROVE  /\ [window EXCEPT ![r].page = @ + 1, ![r].count = Count(r)]
              \in [Runs -> [end : Int, page : Nat, room : Int, count : Nat, empties : Nat]]
         /\ NextWindow(r) \in [end : Int, page : Nat, room : Int, count : Nat, empties : Nat]
<1>1. /\ window \in [Runs -> [end : Int, page : Nat, room : Int, count : Nat, empties : Nat]]
      /\ startDate \in [Runs -> Times]
  BY DEF SyncInv, TypeOK, Types
<1>2. Count(r) \in Nat
  BY ShownFacts DEF SyncInv
<1>3. WindowStart(r) \in Int
  BY <1>1, SizesAssumption DEF WindowStart, Times
<1>4. Cardinality(Collect(r)) \in Nat
  BY CollectFacts
<1>5. HardLimit - Cardinality(Collect(r)) \in Int
  BY <1>4, SizesAssumption
<1>6. Empties(r) \in Nat
  BY <1>1 DEF Empties
<1>7. NextWindow(r) \in [end : Int, page : Nat, room : Int, count : Nat, empties : Nat]
  BY <1>3, <1>5, <1>6 DEF NextWindow
<1>8. [window EXCEPT ![r].page = @ + 1, ![r].count = Count(r)]
        \in [Runs -> [end : Int, page : Nat, room : Int, count : Nat, empties : Nat]]
  <2> DEFINE paged == [window EXCEPT ![r].page = @ + 1]
  <2>1. paged \in [Runs -> [end : Int, page : Nat, room : Int, count : Nat, empties : Nat]]
    BY <1>1
  <2> HIDE DEF paged
  <2>2. [paged EXCEPT ![r].count = Count(r)]
          \in [Runs -> [end : Int, page : Nat, room : Int, count : Nat, empties : Nat]]
    BY <1>2, <2>1
  <2> QED
    BY <2>2 DEF paged
<1> QED
  BY <1>7, <1>8

\* Every action keeps the types.
LEMMA TypesPreserved ==
  ASSUME SyncInv, [Next]_vars
  PROVE  Types'
<1> USE DEF momants, conversations, syncState, sweep, work, history
<1>0. Types
  BY DEF SyncInv, TypeOK
<1>1. CASE Tick
  BY <1>0, <1>1, SizesAssumption DEF Tick, Types, Times
<1>2. ASSUME NEW c \in Convs, Activity(c)
      PROVE  Types'
  <2>1. passed' \in [Convs -> Times]
    BY <1>0, <1>2 DEF Activity, Types
  <2>2. lastActive' \in [Convs -> Times]
    BY <1>0, <1>2 DEF Activity, Types
  <2> QED
    BY <1>0, <1>2, <2>1, <2>2 DEF Activity, Types
<1>3. ASSUME NEW r \in Runs, Start(r)
      PROVE  Types'
  BY <1>0, <1>3 DEF Start, Types
<1>4. ASSUME NEW r \in Runs, BeginSweep(r)
      PROVE  Types'
  <2>1. clock \in Int /\ HardLimit \in Int
    BY <1>0, SizesAssumption DEF Types, Times
  <2> QED
    BY <1>0, <1>4, <2>1 DEF BeginSweep, Types
<1>5. ASSUME NEW r \in Runs, ReadPage(r)
      PROVE  Types'
  <2>1. Collect(r) \in SUBSET Entries
    BY <1>5, CollectFacts DEF ReadPage
  <2>2. window' \in [Runs -> [end : Int, page : Nat, room : Int, count : Nat, empties : Nat]]
    BY <1>5, WindowTypes DEF ReadPage
  <2>3. listed' \in [Runs -> SUBSET Entries]
    BY <1>0, <1>5, <2>1 DEF ReadPage, Types
  <2> QED
    BY <1>0, <1>5, <2>2, <2>3 DEF ReadPage, Types
<1>6. ASSUME NEW r \in Runs, ReadLastPage(r)
      PROVE  Types'
  <2>1. Collect(r) \in SUBSET Entries
    BY <1>6, CollectFacts DEF ReadLastPage
  <2>2. window' \in [Runs -> [end : Int, page : Nat, room : Int, count : Nat, empties : Nat]]
    <3>1. NextWindow(r) \in [end : Int, page : Nat, room : Int, count : Nat, empties : Nat]
      BY <1>6, WindowTypes DEF ReadLastPage
    <3>2. NoWindow \in [end : Int, page : Nat, room : Int, count : Nat, empties : Nat]
      BY DEF NoWindow
    <3> QED
      BY <1>0, <1>6, <3>1, <3>2 DEF ReadLastPage, Types
  <2>3. listed' \in [Runs -> SUBSET Entries]
    BY <1>0, <1>6, <2>1 DEF ReadLastPage, Types
  <2>4. pc' \in [Runs -> {"idle", "starting", "listing", "ingesting"}]
    BY <1>0, <1>6 DEF ReadLastPage, Types
  <2>5. passed' \in [Convs -> Times]
    BY <1>0, <1>6 DEF ReadLastPage, Types
  <2>6. UNCHANGED <<momants, conversations, syncState, started, startDate, work, backfilled>>
    BY <1>6 DEF ReadLastPage
  <2> QED
    BY <1>0, <2>2, <2>3, <2>4, <2>5, <2>6 DEF Types
<1>7. ASSUME NEW r \in Runs, NEW e \in listed[r],
             Skip(r, e) \/ Fetch(r, e) \/ Store(r, e) \/ FailConversation(r, e)
      PROVE  Types'
  <2>1. e.conv \in Convs /\ e.seen \in Times
    BY <1>0, <1>7 DEF Types, Entries
  <2>2. CASE Skip(r, e)
    BY <1>0, <2>1, <2>2 DEF Skip, Deal, Types
  <2>3. CASE Fetch(r, e)
    BY <1>0, <2>1, <2>3 DEF Fetch, Types
  <2>4. CASE Store(r, e)
    <3>1. Later(messages[e.conv], fetched[r][e.conv]) \in Times
      BY <1>0, <2>1, LaterFacts DEF Types
    <3> QED
      BY <1>0, <2>1, <2>4, <3>1, SizesAssumption DEF Store, Deal, Types, Times
  <2>5. CASE FailConversation(r, e)
    <3>1. Later(passed[e.conv], e.seen) \in Times
      BY <1>0, <2>1, LaterFacts DEF Types
    <3> QED
      BY <1>0, <2>1, <2>5, <3>1, SizesAssumption DEF FailConversation, Deal, Types, Times
  <2> QED
    BY <1>7, <2>2, <2>3, <2>4, <2>5
<1>8. ASSUME NEW r \in Runs, NEW b \in Batches(r), CompleteBatch(r, b) \/ CancelBatch(r, b)
      PROVE  Types'
  <2>1. b \in Nat
    <3>1. PICK e \in listed[r] : b = Batch(e)
      BY <1>8 DEF Batches
    <3>2. e.place \in Nat
      BY <1>0 DEF Types, Entries
    <3> QED
      BY <3>1, <3>2, SizesAssumption DEF Batch
  <2>2. CASE CompleteBatch(r, b)
    BY <1>0, <2>1, <2>2 DEF CompleteBatch, Types
  <2>3. CASE CancelBatch(r, b)
    <3> DEFINE left == {e \in Members(r, b) : e.conv \notin done[r]}
    <3>1. \A e \in left : e.conv \in Convs /\ e.seen \in Times
      BY <1>0 DEF Types, Members, Entries
    <3>2. ConvsIn(left) \subseteq Convs
      BY <3>1 DEF ConvsIn
    <3>3. ASSUME NEW c \in ConvsIn(left)
          PROVE  (CHOOSE e \in left : e.conv = c).seen \in Times
      <4>1. \E e \in left : e.conv = c
        BY <3>3 DEF ConvsIn
      <4>2. (CHOOSE e \in left : e.conv = c) \in left
        BY <4>1
      <4> QED
        BY <3>1, <4>2
    <3>4. \A c \in ConvsIn(left) :
            Later(passed[c], (CHOOSE e \in left : e.conv = c).seen) \in Times
      BY <1>0, <3>2, <3>3, LaterFacts DEF Types
    <3>5. passed' \in [Convs -> Times]
      BY <1>0, <2>3, <3>4 DEF CancelBatch, Types
    <3>6. done' \in [Runs -> SUBSET Convs]
      BY <1>0, <2>3, <3>2 DEF CancelBatch, Types
    <3>7. closed' \in [Runs -> SUBSET Nat]
      BY <1>0, <2>1, <2>3 DEF CancelBatch, Types
    <3>8. UNCHANGED <<momants, conversations, syncState, pc, sweep, fetched, backfilled>>
      BY <2>3 DEF CancelBatch
    <3> QED
      BY <1>0, <3>5, <3>6, <3>7, <3>8 DEF Types
  <2> QED
    BY <1>8, <2>2, <2>3
<1>9. ASSUME NEW r \in Runs, FinishSync(r) \/ Abort(r)
      PROVE  Types'
  <2>1. Exit(r)
    BY <1>9 DEF FinishSync, Abort
  <2>2. watermark' \in Times
    BY <1>0, <1>9 DEF FinishSync, Abort, Types
  <2>3. UNCHANGED <<momants, conversations, lastComplete, history>>
    BY <1>9 DEF FinishSync, Abort
  <2> QED
    BY <1>0, <2>1, <2>2, <2>3, ExitTypes DEF Types
<1>10. CASE UNCHANGED vars
  BY <1>0, <1>10 DEF vars, Types
<1> QED
  BY <1>1, <1>2, <1>3, <1>4, <1>5, <1>6, <1>7, <1>8, <1>9, <1>10 DEF Next, Step, Fault

-------------------------------------------------------------------------------
(* The list of a run *)

\* The properties of the lists of the runs: the limit, one entry per
\* conversation, and the room that is left.
ListLimit == \A r \in Runs : Cardinality(listed[r]) <= HardLimit
ListInv == ListLimit /\ ListedOnce /\ SweepInv

\* The lists are empty in every initial state.
LEMMA ListInit == Init => ListInv
<1>1. IsFiniteSet({}) /\ Cardinality({}) = 0
  BY FS_EmptySet
<1> QED
  BY <1>1, SizesAssumption DEF Init, ListInv, ListLimit, ListedOnce, SweepInv

\* A page keeps the list of a run within the limit, and what is not used of the
\* room stays free.
LEMMA RoomAfterPage ==
  ASSUME SyncInv, NEW r \in Runs, pc[r] = "listing"
  PROVE  /\ Cardinality(Collect(r)) + window[r].room - Count(r) <= HardLimit
         /\ Cardinality(Collect(r)) <= HardLimit
         /\ Count(r) <= window[r].room
<1>1. /\ Cardinality(Shown(r)) \in Nat /\ Count(r) <= window[r].room
  BY ShownFacts DEF SyncInv
<1>2. /\ Cardinality(Collect(r)) \in Nat
      /\ Cardinality(Collect(r)) <= Cardinality(listed[r]) + Cardinality(Shown(r))
  BY CollectFacts
<1>3. /\ window[r].count \in Nat /\ window[r].room \in Int
      /\ IsFiniteSet(listed[r])
      /\ Cardinality(listed[r]) + window[r].room - window[r].count <= HardLimit
  BY DEF SyncInv, TypeOK, Types, SweepInv
<1>4. Cardinality(listed[r]) \in Nat
  BY <1>3, FS_CardinalityType
<1>5. Count(r) = window[r].count + Cardinality(Shown(r))
  BY DEF Count
<1>6. HardLimit \in Nat
  BY SizesAssumption
<1>7. Cardinality(Collect(r)) + window[r].room - Count(r) <= HardLimit
  BY <1>1, <1>2, <1>3, <1>4, <1>5, <1>6
<1> QED
  BY <1>1, <1>2, <1>3, <1>5, <1>6, <1>7

\* A step of run r that leaves the others alone keeps the properties of the
\* lists if it keeps those of r.
LEMMA OneList ==
  ASSUME ListInv, NEW r \in Runs,
         \A s \in Runs \ {r} :
           pc'[s] = pc[s] /\ window'[s] = window[s] /\ listed'[s] = listed[s],
         IsFiniteSet(listed'[r]), Cardinality(listed'[r]) <= HardLimit,
         \A e, f \in listed'[r] : e.conv = f.conv => e = f,
         pc'[r] \in {"idle", "starting"} => listed'[r] = {} /\ window'[r] = NoWindow,
         pc'[r] = "listing" =>
           /\ window'[r].count <= window'[r].room
           /\ Cardinality(listed'[r]) + window'[r].room - window'[r].count <= HardLimit
  PROVE  ListInv'
<1>1. ListLimit'
  BY DEF ListInv, ListLimit
<1>2. ListedOnce'
  BY DEF ListInv, ListedOnce
<1>3. SweepInv'
  BY DEF ListInv, SweepInv, NoWindow
<1> QED
  BY <1>1, <1>2, <1>3 DEF ListInv

\* Every action keeps the properties of the lists.
LEMMA ListPreserved ==
  ASSUME SyncInv, [Next]_vars
  PROVE  ListInv'
<1> USE DEF momants, conversations, syncState, sweep, work, history
<1>0. Types /\ ListInv
  BY DEF SyncInv, TypeOK, ListInv, ListLimit
<1>a. IsFiniteSet({}) /\ Cardinality({}) = 0 /\ HardLimit \in Nat
  BY FS_EmptySet, SizesAssumption
<1>1. CASE UNCHANGED <<pc, window, listed>>
  BY <1>0, <1>1 DEF ListInv, ListLimit, ListedOnce, SweepInv, NoWindow
<1>2. ASSUME NEW r \in Runs, Start(r)
      PROVE  ListInv'
  <2>1. listed[r] = {} /\ window[r] = NoWindow
    BY <1>0, <1>2 DEF Start, ListInv, SweepInv
  <2>2. pc'[r] = "starting" /\ UNCHANGED <<window, listed>>
        /\ \A s \in Runs \ {r} : pc'[s] = pc[s]
    BY <1>0, <1>2 DEF Start, Types
  <2>3. /\ listed'[r] = {} /\ IsFiniteSet(listed'[r]) /\ Cardinality(listed'[r]) = 0
        /\ \A e, f \in listed'[r] : e.conv = f.conv => e = f
    BY <1>a, <2>1, <2>2
  <2> QED
    BY <1>0, <1>a, <2>1, <2>2, <2>3, OneList
<1>3. ASSUME NEW r \in Runs, BeginSweep(r)
      PROVE  ListInv'
  <2>1. listed[r] = {} /\ window[r] = NoWindow
    BY <1>0, <1>3 DEF BeginSweep, ListInv, SweepInv
  <2>2. /\ pc'[r] = "listing" /\ UNCHANGED listed
        /\ window'[r].room = HardLimit /\ window'[r].count = 0
        /\ \A s \in Runs \ {r} : pc'[s] = pc[s] /\ window'[s] = window[s]
    BY <1>0, <1>3, <2>1 DEF BeginSweep, Types, NoWindow
  <2>3. /\ listed'[r] = {} /\ IsFiniteSet(listed'[r]) /\ Cardinality(listed'[r]) = 0
        /\ \A e, f \in listed'[r] : e.conv = f.conv => e = f
    BY <1>a, <2>1, <2>2
  <2> QED
    BY <1>0, <1>a, <2>1, <2>2, <2>3, OneList
<1>4. ASSUME NEW r \in Runs, ReadPage(r) \/ ReadLastPage(r)
      PROVE  ListInv'
  <2>1. pc[r] = "listing" /\ listed' = [listed EXCEPT ![r] = Collect(r)]
    BY <1>4 DEF ReadPage, ReadLastPage
  <2>2. /\ IsFiniteSet(Collect(r)) /\ Cardinality(Collect(r)) \in Nat
        /\ \A e, f \in Collect(r) : e.conv = f.conv => e = f
    BY <2>1, CollectFacts
  <2>3. /\ Cardinality(Collect(r)) + window[r].room - Count(r) <= HardLimit
        /\ Cardinality(Collect(r)) <= HardLimit
        /\ Count(r) <= window[r].room
    BY <2>1, RoomAfterPage
  <2>4. listed'[r] = Collect(r) /\ \A s \in Runs \ {r} : listed'[s] = listed[s]
    BY <1>0, <2>1 DEF Types
  <2>5. CASE ReadPage(r)
    <3>1. /\ pc' = pc /\ window'[r].room = window[r].room /\ window'[r].count = Count(r)
          /\ \A s \in Runs \ {r} : window'[s] = window[s]
      BY <1>0, <2>5 DEF ReadPage, Types
    <3> QED
      BY <1>0, <2>1, <2>2, <2>3, <2>4, <3>1, OneList
  <2>6. CASE ReadLastPage(r)
    <3>1. \A s \in Runs \ {r} : pc'[s] = pc[s] /\ window'[s] = window[s]
      BY <1>0, <2>6 DEF ReadLastPage, Types
    <3>2. \/ pc'[r] = "ingesting"
          \/ /\ pc'[r] = "listing"
             /\ window'[r].room = HardLimit - Cardinality(Collect(r)) /\ window'[r].count = 0
      BY <1>0, <2>1, <2>6 DEF ReadLastPage, NextWindow, Types
    <3>3. pc'[r] = "listing" =>
            /\ window'[r].count <= window'[r].room
            /\ Cardinality(Collect(r)) + window'[r].room - window'[r].count <= HardLimit
      BY <1>a, <2>2, <2>3, <3>2
    <3> QED
      BY <1>0, <2>2, <2>3, <2>4, <3>1, <3>2, <3>3, OneList
  <2> QED
    BY <1>4, <2>5, <2>6
<1>5. ASSUME NEW r \in Runs, FinishSync(r) \/ Abort(r)
      PROVE  ListInv'
  <2>1. Exit(r)
    BY <1>5 DEF FinishSync, Abort
  <2>2. /\ pc'[r] = "idle" /\ listed'[r] = {} /\ window'[r] = NoWindow
        /\ \A s \in Runs \ {r} :
             pc'[s] = pc[s] /\ window'[s] = window[s] /\ listed'[s] = listed[s]
    BY <1>0, <2>1 DEF Exit, Types
  <2>3. /\ listed'[r] = {} /\ IsFiniteSet(listed'[r]) /\ Cardinality(listed'[r]) = 0
        /\ \A e, f \in listed'[r] : e.conv = f.conv => e = f
    BY <1>a, <2>2
  <2>4. Cardinality(listed'[r]) <= HardLimit /\ pc'[r] # "listing"
    BY <1>a, <2>2, <2>3
  <2> QED
    BY <1>0, <2>2, <2>3, <2>4, OneList
<1>6. ASSUME NEW r \in Runs, NEW e \in listed[r],
             Skip(r, e) \/ Fetch(r, e) \/ Store(r, e) \/ FailConversation(r, e)
      PROVE  UNCHANGED <<pc, window, listed>>
  BY <1>6 DEF Skip, Fetch, Store, FailConversation
<1>7. ASSUME NEW r \in Runs, NEW b \in Batches(r), CompleteBatch(r, b) \/ CancelBatch(r, b)
      PROVE  UNCHANGED <<pc, window, listed>>
  BY <1>7 DEF CompleteBatch, CancelBatch
<1>8. CASE Tick \/ UNCHANGED vars
  BY <1>1, <1>8 DEF Tick, vars
<1>9. ASSUME NEW c \in Convs, Activity(c)
      PROVE  UNCHANGED <<pc, window, listed>>
  BY <1>9 DEF Activity
<1> QED
  BY <1>1, <1>2, <1>3, <1>4, <1>5, <1>6, <1>7, <1>8, <1>9 DEF Next, Step, Fault

-------------------------------------------------------------------------------
(* Entries, what is fetched for them and what is stored *)

\* Nothing is listed or fetched in an initial state.
LEMMA EntryInit == Init => EntryInv /\ StoredUpToLastSeen
BY DEF Init, EntryInv, StoredUpToLastSeen

\* Every action keeps EntryInv: the activity of a conversation only grows, and
\* what is fetched is its activity of that moment.
LEMMA EntryPreserved ==
  ASSUME SyncInv, [Next]_vars
  PROVE  EntryInv'
<1> USE DEF momants, conversations, syncState, sweep, work, history
<1>0. Types /\ EntryInv
  BY DEF SyncInv, TypeOK
<1>a. \A r \in Runs : \A e \in listed[r] :
        e.conv \in Convs /\ e.seen \in Nat /\ lastActive[e.conv] \in Nat
  BY <1>0, SizesAssumption DEF Types, Entries, Times
<1>1. CASE UNCHANGED <<lastActive, pc, listed, fetched>>
  BY <1>0, <1>1 DEF EntryInv
<1>2. ASSUME NEW c \in Convs, Activity(c)
      PROVE  EntryInv'
  <2>1. \A d \in Convs : lastActive[d] \in Nat /\ lastActive'[d] \in Nat
                         /\ lastActive[d] <= lastActive'[d]
    BY <1>0, <1>2, SizesAssumption DEF Activity, Types, Times
  <2>2. \A r \in Runs : \A e \in listed[r] : e.seen <= lastActive'[e.conv]
    BY <1>0, <1>a, <2>1 DEF EntryInv
  <2> QED
    BY <1>0, <1>2, <2>2 DEF Activity, EntryInv
<1>3. ASSUME NEW r \in Runs, Start(r) \/ BeginSweep(r)
      PROVE  EntryInv'
  <2>1. UNCHANGED <<lastActive, listed, fetched>> /\ pc[r] # "ingesting"
        /\ \A s \in Runs \ {r} : pc'[s] = pc[s]
    BY <1>0, <1>3 DEF Start, BeginSweep, Types
  <2> QED
    BY <1>0, <2>1 DEF EntryInv
<1>4. ASSUME NEW r \in Runs, ReadPage(r) \/ ReadLastPage(r)
      PROVE  EntryInv'
  <2>1. /\ pc[r] = "listing" /\ listed' = [listed EXCEPT ![r] = Collect(r)]
        /\ UNCHANGED <<lastActive, fetched>>
        /\ \A s \in Runs \ {r} : pc'[s] = pc[s]
    BY <1>0, <1>4 DEF ReadPage, ReadLastPage, Types
  <2>2. listed'[r] = Collect(r) /\ \A s \in Runs \ {r} : listed'[s] = listed[s]
    BY <1>0, <2>1 DEF Types
  <2>3. \A e \in Collect(r) : e.conv \in Convs /\ e.seen <= lastActive[e.conv]
    BY <2>1, CollectFacts DEF Entries
  <2>4. \A c \in Convs : fetched[r][c] = 0
    BY <1>0, <2>1 DEF EntryInv
  <2> QED
    BY <1>0, <2>1, <2>2, <2>3, <2>4 DEF EntryInv
<1>5. ASSUME NEW r \in Runs, NEW e \in listed[r], Fetch(r, e)
      PROVE  EntryInv'
  <2>1. UNCHANGED <<lastActive, pc, listed>> /\ pc[r] = "ingesting"
    BY <1>5 DEF Fetch, Turn
  <2>2. /\ fetched'[r] = [fetched[r] EXCEPT ![e.conv] = lastActive[e.conv]]
        /\ \A s \in Runs \ {r} : fetched'[s] = fetched[s]
    BY <1>0, <1>5 DEF Fetch, Types
  <2>3. \A f \in listed[r] : fetched'[r][f.conv] > 0 => f.seen <= fetched'[r][f.conv]
    <3>1. fetched[r] \in [Convs -> Times]
      BY <1>0 DEF Types
    <3> QED
      BY <1>0, <1>a, <2>2, <3>1 DEF EntryInv
  <2> QED
    BY <1>0, <2>1, <2>2, <2>3, ZenonT(30) DEF EntryInv
<1>6. ASSUME NEW r \in Runs, NEW e \in listed[r], Store(r, e) \/ FailConversation(r, e)
      PROVE  EntryInv'
  <2>1. UNCHANGED <<lastActive, pc, listed>> /\ pc[r] = "ingesting"
    BY <1>6 DEF Store, FailConversation, Turn
  <2>2. /\ fetched'[r] = [fetched[r] EXCEPT ![e.conv] = 0]
        /\ \A s \in Runs \ {r} : fetched'[s] = fetched[s]
    BY <1>0, <1>6 DEF Store, FailConversation, Types
  <2>3. \A f \in listed[r] : fetched'[r][f.conv] > 0 => f.seen <= fetched'[r][f.conv]
    <3>1. fetched[r] \in [Convs -> Times]
      BY <1>0 DEF Types
    <3> QED
      BY <1>0, <1>a, <2>2, <3>1 DEF EntryInv
  <2> QED
    BY <1>0, <2>1, <2>2, <2>3, ZenonT(30) DEF EntryInv
<1>7. ASSUME NEW r \in Runs, FinishSync(r) \/ Abort(r)
      PROVE  EntryInv'
  <2>1. Exit(r) /\ UNCHANGED lastActive
    BY <1>7 DEF FinishSync, Abort
  <2>2. /\ listed'[r] = {} /\ fetched'[r] = [c \in Convs |-> 0]
        /\ \A s \in Runs \ {r} :
             pc'[s] = pc[s] /\ listed'[s] = listed[s] /\ fetched'[s] = fetched[s]
    BY <1>0, <2>1 DEF Exit, Types
  <2> QED
    BY <1>0, <2>1, <2>2 DEF EntryInv
<1>8. ASSUME NEW r \in Runs,
             (\E e \in listed[r] : Skip(r, e))
               \/ (\E b \in Batches(r) : CompleteBatch(r, b) \/ CancelBatch(r, b))
      PROVE  UNCHANGED <<lastActive, pc, listed, fetched>>
  BY <1>8 DEF Skip, CompleteBatch, CancelBatch
<1>9. CASE Tick \/ UNCHANGED vars
  BY <1>1, <1>9 DEF Tick, vars
<1> QED
  BY <1>1, <1>2, <1>3, <1>4, <1>5, <1>6, <1>7, <1>8, <1>9 DEF Next, Step, Fault

\* Every action keeps StoredUpToLastSeen: only Skip and Store write the
\* conversation, and neither writes a last_seen newer than its messages.
LEMMA StoredPreserved ==
  ASSUME SyncInv, [Next]_vars
  PROVE  StoredUpToLastSeen'
<1> USE DEF momants, conversations, syncState, sweep, work, history
<1>0. Types /\ EntryInv /\ StoredUpToLastSeen
  BY DEF SyncInv, TypeOK
<1>a. \A c \in Convs : messages[c] \in Nat /\ sourceLastSeen[c] \in Nat
  BY <1>0, SizesAssumption DEF Types, Times
<1>1. CASE UNCHANGED <<messages, sourceLastSeen>>
  BY <1>0, <1>1 DEF StoredUpToLastSeen
<1>2. ASSUME NEW r \in Runs, NEW e \in listed[r], Skip(r, e)
      PROVE  StoredUpToLastSeen'
  <2>1. e.conv \in Convs /\ e.seen \in Nat
    BY <1>0, <1>2, SizesAssumption DEF Types, Entries, Times
  <2>2. e.seen <= messages[e.conv]
    BY <1>0, <1>2, <1>a, <2>1 DEF Skip, ShouldSkipFetch, StoredUpToLastSeen
  <2>3. UNCHANGED messages /\ sourceLastSeen' = [sourceLastSeen EXCEPT ![e.conv] = e.seen]
    BY <1>2 DEF Skip
  <2> QED
    BY <1>0, <2>1, <2>2, <2>3 DEF StoredUpToLastSeen, Types
<1>3. ASSUME NEW r \in Runs, NEW e \in listed[r], Store(r, e)
      PROVE  StoredUpToLastSeen'
  <2>1. /\ e.conv \in Convs /\ e.seen \in Times
        /\ fetched[r][e.conv] \in Times /\ messages[e.conv] \in Times
    BY <1>0, <1>3 DEF Types, Entries
  <2>2. e.seen <= fetched[r][e.conv]
    BY <1>0, <1>3 DEF EntryInv, Store
  <2>3. e.seen <= Later(messages[e.conv], fetched[r][e.conv])
    <3>1. Later(messages[e.conv], fetched[r][e.conv]) \in Times
          /\ Later(messages[e.conv], fetched[r][e.conv]) >= fetched[r][e.conv]
      BY <2>1, LaterFacts
    <3> QED
      BY <2>1, <2>2, <3>1, SizesAssumption DEF Times
  <2>4. /\ messages' = [messages EXCEPT ![e.conv] = Later(@, fetched[r][e.conv])]
        /\ sourceLastSeen' = [sourceLastSeen EXCEPT ![e.conv] = e.seen]
    BY <1>3 DEF Store
  <2> QED
    BY <1>0, <2>1, <2>3, <2>4 DEF StoredUpToLastSeen, Types
<1>4. ASSUME NEW r \in Runs,
             \/ Start(r) \/ BeginSweep(r) \/ ReadPage(r) \/ ReadLastPage(r)
             \/ \E e \in listed[r] : Fetch(r, e) \/ FailConversation(r, e)
             \/ \E b \in Batches(r) : CompleteBatch(r, b) \/ CancelBatch(r, b)
             \/ FinishSync(r) \/ Abort(r)
      PROVE  UNCHANGED <<messages, sourceLastSeen>>
  BY <1>4 DEF Start, BeginSweep, ReadPage, ReadLastPage, Fetch, FailConversation,
              CompleteBatch, CancelBatch, FinishSync, Abort
<1>5. CASE Tick \/ (\E c \in Convs : Activity(c)) \/ UNCHANGED vars
  BY <1>1, <1>5 DEF Tick, Activity, vars
<1> QED
  BY <1>1, <1>2, <1>3, <1>4, <1>5 DEF Next, Step, Fault

-------------------------------------------------------------------------------
(* What a run has still to see *)

\* A place in a list is below the length of the list, and every one is taken.
LEMMA RanksFill ==
  ASSUME lastActive \in [Convs -> Times], NEW S \in SUBSET Convs
  PROVE  /\ \A c \in S : Rank(c, S) < Cardinality(S)
         /\ \A n \in 0..(Cardinality(S) - 1) : \E c \in S : Rank(c, S) = n
<1> DEFINE N == Cardinality(S)
           f == [c \in S |-> Rank(c, S)]
<1>1. IsFiniteSet(S) /\ N \in Nat
  BY ConvsFinite
<1>2. \A x \in S : lastActive[x] \in Nat /\ x \in Nat
  BY ConvsAssumption, SizesAssumption DEF Times
<1>3. ASSUME NEW c \in S
      PROVE  Rank(c, S) \in 0..(N - 1)
  <2> DEFINE P == {d \in S : Before(d, c)}
  <2>1. P \subseteq S /\ c \in S /\ c \notin P
    BY <1>2 DEF Before
  <2>2. Cardinality(P) \in Nat /\ Cardinality(P) <= N /\ Cardinality(P) # N
    BY <1>1, <2>1, ConvsFinite, FS_Subset
  <2> QED
    BY <1>1, <2>2 DEF Rank
<1>4. \A c, d \in S : Before(c, d) \/ Before(d, c) \/ c = d
  BY <1>2 DEF Before
<1>5. \A c, d \in S : Rank(c, S) = Rank(d, S) => c = d
  BY <1>3, <1>4, RankGrows
<1>6. f \in Injection(S, 0..(N - 1))
  BY <1>3, <1>5 DEF Injection, IsInjective
<1>7. IsFiniteSet(0..(N - 1)) /\ Cardinality(0..(N - 1)) = N
  BY <1>1, FS_Interval
<1>8. f \in Surjection(S, 0..(N - 1))
  BY <1>6, <1>7, FS_Injection
<1>9. \A n \in 0..(N - 1) : \E c \in S : Rank(c, S) = n
  BY <1>8 DEF Surjection
<1>10. \A c \in S : Rank(c, S) < N
  BY <1>1, <1>3
<1> QED
  BY <1>9, <1>10

\* Of two conversations the one with the greater place is not the newer one.
LEMMA RankOrder ==
  ASSUME lastActive \in [Convs -> Times], NEW S \in SUBSET Convs,
         NEW c \in S, NEW d \in S, Rank(d, S) < Rank(c, S)
  PROVE  lastActive[c] <= lastActive[d]
<1>1. lastActive[c] \in Nat /\ lastActive[d] \in Nat
  BY ConvsAssumption, SizesAssumption DEF Times
<1>2. Rank(c, S) \in Nat /\ Rank(d, S) \in Nat
  BY RankType
<1>3. ~Before(c, d)
  BY <1>2, RankGrows
<1> QED
  BY <1>1, <1>3 DEF Before

\* What a page does not show for lack of room is older than what it shows.
LEMMA NotShown ==
  ASSUME TypeOK, SweepInv, NEW r \in Runs, pc[r] = "listing", NEW c \in Page(r) \ Shown(r)
  PROVE  Truncated(r) /\ \A d \in Shown(r) : lastActive[c] <= lastActive[d]
<1> DEFINE P == Page(r)
           k == window[r].room - window[r].count
           f == [d \in Shown(r) |-> Rank(d, P)]
<1>1. P \in SUBSET Convs /\ Shown(r) \subseteq P /\ c \in P
  BY DEF Page, Shown, WindowInbox, Inbox
<1>2. /\ window[r].count \in Nat /\ window[r].room \in Int /\ window[r].count <= window[r].room
      /\ lastActive \in [Convs -> Times]
  BY DEF TypeOK, Types, SweepInv
<1>3. k \in Nat
  BY <1>2
<1>4. \A d \in P : Rank(d, P) \in Nat
  BY <1>1, RankType
<1>5. \A d \in P : d \in Shown(r) <=> Rank(d, P) < k
  BY <1>2, <1>4 DEF Shown
<1>6. ~(Rank(c, P) < k)
  BY <1>1, <1>5
<1>7. \A d \in Shown(r) : lastActive[c] <= lastActive[d]
  <2> SUFFICES ASSUME NEW d \in Shown(r) PROVE Rank(d, P) < Rank(c, P)
    BY <1>1, <1>2, RankOrder
  <2> QED
    BY <1>1, <1>3, <1>4, <1>5, <1>6
<1>8. Cardinality(P) \in Nat /\ Rank(c, P) < Cardinality(P)
  BY <1>1, <1>2, ConvsFinite, RanksFill
<1>9. \A n \in 0..(k - 1) : n \in 0..(Cardinality(P) - 1)
  BY <1>1, <1>3, <1>4, <1>6, <1>8
<1>10. \A n \in 0..(k - 1) : \E d \in Shown(r) : f[d] = n
  <2> SUFFICES ASSUME NEW n \in 0..(k - 1) PROVE \E d \in Shown(r) : Rank(d, P) = n
    OBVIOUS
  <2>1. PICK d \in P : Rank(d, P) = n
    BY <1>1, <1>2, <1>9, RanksFill
  <2> QED
    BY <1>3, <1>5, <2>1
<1>11. \A d \in Shown(r) : f[d] \in 0..(k - 1)
  BY <1>1, <1>3, <1>4, <1>5
<1>12. \A d, e \in Shown(r) : f[d] = f[e] => d = e
  <2>1. \A d, e \in P : Before(d, e) \/ Before(e, d) \/ d = e
    <3>1. \A d \in Convs : lastActive[d] \in Nat /\ d \in Nat
      BY <1>2, ConvsAssumption, SizesAssumption DEF Times
    <3> QED
      BY <1>1, <3>1 DEF Before
  <2>2. \A d, e \in P : Before(d, e) => Rank(d, P) < Rank(e, P)
    BY <1>1, <1>2, RankGrows
  <2> QED
    BY <1>1, <1>4, <2>1, <2>2
<1>13. f \in Injection(Shown(r), 0..(k - 1)) /\ f \in Surjection(Shown(r), 0..(k - 1))
  BY <1>10, <1>11, <1>12 DEF Injection, IsInjective, Surjection
<1>14. IsFiniteSet(0..(k - 1)) /\ Cardinality(0..(k - 1)) = k
  BY <1>3, FS_Interval, SMTT(30)
<1>15. Cardinality(Shown(r)) = k
  BY <1>13, <1>14, FS_Injection
<1> QED
  BY <1>2, <1>7, <1>15 DEF Truncated, Count

\* A conversation on the pages to come is shown by the next one, or on a page
\* after it, or given up for lack of room.
LEMMA NextPage ==
  ASSUME TypeOK, SweepInv, NEW r \in Runs, pc[r] = "listing", window[r].page > 0, NEW c \in ToCome(r)
  PROVE  \/ c \in Shown(r)
         \/ Truncated(r) /\ \A d \in Shown(r) : lastActive[c] <= lastActive[d]
         \/ ~LastPage(r) /\ Rank(c, WindowInbox(r)) >= window[r].page * PageSize
<1> DEFINE W == WindowInbox(r)
           lo == (window[r].page - 1) * PageSize
           hi == window[r].page * PageSize
<1>1. W \in SUBSET Convs /\ c \in W /\ lastActive \in [Convs -> Times]
  BY DEF ToCome, WindowInbox, Inbox, TypeOK, Types
<1>2. lo \in Nat /\ hi \in Nat /\ hi = lo + PageSize /\ PageSize \in Nat \ {0}
  <2>1. window[r].page \in Nat /\ PageSize \in Nat \ {0}
    BY SizesAssumption DEF TypeOK, Types
  <2>2. window[r].page - 1 \in Nat
    BY <2>1
  <2> QED
    BY <2>1, <2>2
<1>3. \A d \in W : Rank(d, W) \in Nat
  BY <1>1, RankType
<1>4. Cardinality(W) \in Nat /\ Rank(c, W) < Cardinality(W)
  BY <1>1, ConvsFinite, RanksFill
<1>5. Rank(c, W) >= lo
  BY DEF ToCome
<1>6. \A d \in W : d \in Page(r) <=> lo <= Rank(d, W) /\ Rank(d, W) < hi
  BY <1>2, <1>3 DEF Page
<1>7. CASE c \in Page(r)
  BY <1>7, NotShown
<1>8. CASE c \notin Page(r)
  <2>1. Rank(c, W) >= hi
    BY <1>1, <1>2, <1>3, <1>5, <1>6, <1>8
  <2>2. Page(r) # {}
    <3>1. lo \in 0..(Cardinality(W) - 1)
      BY <1>1, <1>2, <1>3, <1>4, <1>5
    <3>2. PICK d \in W : Rank(d, W) = lo
      BY <1>1, <3>1, RanksFill
    <3> QED
      BY <1>2, <1>6, <3>2
  <2>3. ~(hi >= Cardinality(W))
    BY <1>1, <1>2, <1>3, <1>4, <2>1
  <2>4. \A d \in Shown(r) : lastActive[c] <= lastActive[d]
    <3> SUFFICES ASSUME NEW d \in Shown(r) PROVE Rank(d, W) < Rank(c, W) /\ d \in W
      BY <1>1, RankOrder
    <3>1. d \in Page(r) /\ d \in W
      BY DEF Shown, Page
    <3> QED
      BY <1>1, <1>2, <1>3, <1>6, <2>1, <3>1
  <2> QED
    BY <2>1, <2>2, <2>3, <2>4 DEF LastPage
<1> QED
  BY <1>7, <1>8
-------------------------------------------------------------------------------
(* Times, and what a run has dealt with *)

\* The watermark and the runs are of the past in every initial state, and
\* nothing is dealt with.
LEMMA DealtInit == Init => TimeInv /\ DealtInv
BY DEF Init, TimeInv, DealtInv, NoWindow

\* Every action keeps TimeInv: the clock only goes forward.
LEMMA TimePreserved ==
  ASSUME SyncInv, TimeInv, [Next]_vars
  PROVE  TimeInv'
<1> USE DEF momants, conversations, syncState, sweep, work, history
<1>0. Types
  BY DEF SyncInv, TypeOK
<1>a. /\ clock \in Nat /\ watermark \in Nat /\ \A r \in Runs : started[r] \in Nat
      /\ watermark <= clock /\ \A r \in Runs : started[r] <= clock
  BY <1>0, SizesAssumption DEF Types, Times, TimeInv
<1>1. CASE UNCHANGED <<clock, watermark, started>>
  BY <1>a, <1>1 DEF TimeInv
<1>2. CASE Tick
  <2>1. clock' = clock + 1 /\ UNCHANGED <<watermark, started>>
    BY <1>2 DEF Tick
  <2> QED
    BY <1>a, <2>1 DEF TimeInv
<1>3. ASSUME NEW r \in Runs, Start(r)
      PROVE  TimeInv'
  <2>1. UNCHANGED <<clock, watermark>> /\ \A s \in Runs : started'[s] = started[s] \/ started'[s] = clock
    BY <1>0, <1>3 DEF Start, Types
  <2> QED
    BY <1>a, <2>1 DEF TimeInv
<1>4. ASSUME NEW r \in Runs, FinishSync(r) \/ Abort(r)
      PROVE  TimeInv'
  <2>1. /\ UNCHANGED clock /\ watermark' \in {watermark, started[r]}
        /\ \A s \in Runs : started'[s] = started[s] \/ started'[s] = 0
    BY <1>0, <1>4 DEF FinishSync, Abort, Exit, Types
  <2> QED
    BY <1>a, <2>1 DEF TimeInv
<1>5. ASSUME NEW r \in Runs,
             \/ BeginSweep(r) \/ ReadPage(r) \/ ReadLastPage(r)
             \/ \E e \in listed[r] : Skip(r, e) \/ Fetch(r, e) \/ Store(r, e) \/ FailConversation(r, e)
             \/ \E b \in Batches(r) : CompleteBatch(r, b) \/ CancelBatch(r, b)
      PROVE  UNCHANGED <<clock, watermark, started>>
  BY <1>5 DEF BeginSweep, ReadPage, ReadLastPage, Skip, Fetch, Store, FailConversation,
              CompleteBatch, CancelBatch
<1>6. CASE (\E c \in Convs : Activity(c)) \/ UNCHANGED vars
  BY <1>1, <1>6 DEF Activity, vars
<1> QED
  BY <1>1, <1>2, <1>3, <1>4, <1>5, <1>6 DEF Next, Step, Fault

\* What DealtInv says of one run.
DealtBy(r) ==
  /\ \A e \in listed[r] :
       /\ lastActive[e.conv] < started[r] => e.seen = lastActive[e.conv]
       /\ Batch(e) \in closed[r] => e.conv \in done[r]
  /\ pc[r] # "ingesting" => done[r] = {} /\ closed[r] = {}
  /\ window[r].page > 0

\* A step of run r that leaves the others alone keeps DealtInv if it keeps r's.
LEMMA DealtByOne ==
  ASSUME DealtInv, NEW r \in Runs, lastActive' = lastActive,
         \A s \in Runs \ {r} :
           /\ pc'[s] = pc[s] /\ started'[s] = started[s] /\ window'[s] = window[s]
           /\ listed'[s] = listed[s] /\ done'[s] = done[s] /\ closed'[s] = closed[s],
         DealtBy(r)'
  PROVE  DealtInv'
<1>1. ASSUME NEW s \in Runs, s # r PROVE DealtBy(s)'
  BY <1>1 DEF DealtInv, DealtBy, Batch
<1> QED
  BY <1>1 DEF DealtInv, DealtBy

\* The list after a page: old entries, and entries with the newest activity.
LEMMA CollectNew ==
  ASSUME NEW r \in Runs, NEW e \in Collect(r)
  PROVE  e \in listed[r] \/ (e.conv \in Shown(r) /\ e.seen = lastActive[e.conv])
BY DEF Collect

\* ... and every conversation listed before or shown is in it.
LEMMA CollectConvs ==
  ASSUME NEW r \in Runs
  PROVE  ConvsIn(listed[r]) \cup Shown(r) \subseteq ConvsIn(Collect(r))
<1> DEFINE new == Shown(r) \ ConvsIn(listed[r])
           entry(c) == [conv |-> c, seen |-> lastActive[c],
                        place |-> Cardinality(listed[r]) + Rank(c, new)]
<1>1. Collect(r) = listed[r] \cup {entry(c) : c \in new}
  BY DEF Collect
<1>2. ASSUME NEW c \in new PROVE c \in ConvsIn(Collect(r))
  <2>1. entry(c) \in Collect(r) /\ entry(c).conv = c
    BY <1>1
  <2> HIDE DEF entry
  <2> QED
    BY <2>1 DEF ConvsIn
<1>3. ConvsIn(listed[r]) \subseteq ConvsIn(Collect(r))
  BY <1>1 DEF ConvsIn
<1> QED
  BY <1>2, <1>3

\* Every action keeps DealtInv.
LEMMA DealtPreserved ==
  ASSUME SyncInv, TimeInv, DealtInv, [Next]_vars
  PROVE  DealtInv'
<1> USE DEF momants, conversations, syncState, sweep, work, history
<1>0. Types /\ SweepInv
  BY DEF SyncInv, TypeOK
<1>a. \A r \in Runs : \A e \in listed[r] :
        e.conv \in Convs /\ e.seen \in Nat /\ lastActive[e.conv] \in Nat
  BY <1>0, SizesAssumption DEF Types, Entries, Times
<1>b. \A r \in Runs : DealtBy(r)
  BY DEF DealtInv, DealtBy
<1>1. CASE UNCHANGED <<lastActive, pc, started, window, listed, done, closed>>
  BY <1>1 DEF DealtInv, Batch
<1>2. ASSUME NEW c \in Convs, Activity(c)
      PROVE  DealtInv'
  <2>1. /\ UNCHANGED <<pc, started, window, listed, done, closed>>
        /\ \A d \in Convs : lastActive'[d] = IF d = c THEN clock ELSE lastActive[d]
    BY <1>0, <1>2 DEF Activity, Types
  <2>2. \A r \in Runs : ~(clock < started[r])
    BY <1>0, SizesAssumption DEF TimeInv, Types, Times
  <2>3. \A r \in Runs : \A e \in listed[r] :
          lastActive'[e.conv] < started[r] => e.seen = lastActive'[e.conv]
    BY <1>a, <2>1, <2>2 DEF DealtInv
  <2> QED
    BY <2>1, <2>3 DEF DealtInv, Batch
<1>3. ASSUME NEW r \in Runs, Start(r) \/ BeginSweep(r)
      PROVE  DealtInv'
  <2>1. /\ listed[r] = {} /\ done[r] = {} /\ closed[r] = {} /\ pc[r] # "ingesting" /\ window[r] = NoWindow
    BY <1>0, <1>3, <1>b DEF Start, BeginSweep, SweepInv, DealtBy
  <2>2. /\ UNCHANGED <<lastActive, listed, done, closed>> /\ pc'[r] # "ingesting" /\ window'[r].page = window[r].page
        /\ \A s \in Runs \ {r} : pc'[s] = pc[s] /\ started'[s] = started[s] /\ window'[s] = window[s]
    BY <1>0, <1>3 DEF Start, BeginSweep, Types
  <2>3. DealtBy(r)'
    BY <1>b, <2>1, <2>2 DEF DealtBy
  <2> QED
    BY <2>2, <2>3, DealtByOne
<1>4. ASSUME NEW r \in Runs, ReadPage(r) \/ ReadLastPage(r)
      PROVE  DealtInv'
  <2>1. /\ pc[r] = "listing" /\ listed' = [listed EXCEPT ![r] = Collect(r)]
        /\ UNCHANGED <<lastActive, started, done, closed>>
        /\ \A s \in Runs \ {r} : pc'[s] = pc[s] /\ window'[s] = window[s]
    BY <1>0, <1>4 DEF ReadPage, ReadLastPage, Types
  <2>2. listed'[r] = Collect(r) /\ \A s \in Runs \ {r} : listed'[s] = listed[s]
    BY <1>0, <2>1 DEF Types
  <2>3. window'[r].page > 0
    <3>1. window[r].page \in Nat
      BY <1>0 DEF Types
    <3> QED
      BY <1>0, <1>4, <1>b, <3>1 DEF ReadPage, ReadLastPage, NextWindow, NoWindow, DealtBy, Types
  <2>4. DealtBy(r)'
    BY <1>b, <2>1, <2>2, <2>3, CollectNew DEF DealtBy
  <2> QED
    BY <2>1, <2>2, <2>4, DealtByOne
<1>5. ASSUME NEW r \in Runs, NEW e \in listed[r],
             Skip(r, e) \/ Fetch(r, e) \/ Store(r, e) \/ FailConversation(r, e)
      PROVE  DealtInv'
  <2>1. /\ UNCHANGED <<lastActive, pc, started, window, listed, closed>> /\ pc[r] = "ingesting"
        /\ done[r] \subseteq done'[r] /\ \A s \in Runs \ {r} : done'[s] = done[s]
    BY <1>0, <1>5 DEF Skip, Fetch, Store, FailConversation, Deal, Turn, Types
  <2>2. DealtBy(r)'
    BY <1>b, <2>1 DEF DealtBy, Batch
  <2> QED
    BY <2>1, <2>2, DealtByOne
<1>6. ASSUME NEW r \in Runs, NEW b \in Batches(r), CompleteBatch(r, b) \/ CancelBatch(r, b)
      PROVE  DealtInv'
  <2>1. /\ UNCHANGED <<lastActive, pc, started, window, listed>> /\ pc[r] = "ingesting"
        /\ done[r] \subseteq done'[r] /\ closed'[r] = closed[r] \cup {b}
        /\ \A s \in Runs \ {r} : done'[s] = done[s] /\ closed'[s] = closed[s]
    <3>1. CASE CompleteBatch(r, b)
      BY <1>0, <3>1 DEF CompleteBatch, momants, sweep, work, Types
    <3>2. CASE CancelBatch(r, b)
      BY <1>0, <3>2 DEF CancelBatch, momants, sweep, work, Types
    <3> QED
      BY <1>6, <3>1, <3>2
  <2>2. \A e \in Members(r, b) : e.conv \in done'[r]
    <3>1. CASE CompleteBatch(r, b)
      BY <3>1 DEF CompleteBatch
    <3>2. CASE CancelBatch(r, b)
      <4> DEFINE left == {e \in Members(r, b) : e.conv \notin done[r]}
      <4>1. done'[r] = done[r] \cup ConvsIn(left)
        BY <1>0, <3>2 DEF CancelBatch, Types
      <4>2. \A e \in left : e.conv \in ConvsIn(left)
        BY DEF ConvsIn
      <4> QED
        BY <4>1, <4>2
    <3> QED
      BY <1>6, <3>1, <3>2
  <2>3. DealtBy(r)'
    BY <1>b, <2>1, <2>2 DEF DealtBy, Members, Batch
  <2> QED
    BY <2>1, <2>3, DealtByOne
<1>7. ASSUME NEW r \in Runs, FinishSync(r) \/ Abort(r)
      PROVE  DealtInv'
  <2>1. Exit(r) /\ UNCHANGED lastActive
    BY <1>7 DEF FinishSync, Abort
  <2>2. /\ pc'[r] = "idle" /\ listed'[r] = {} /\ done'[r] = {} /\ closed'[r] = {} /\ window'[r] = NoWindow
        /\ \A s \in Runs \ {r} :
             /\ pc'[s] = pc[s] /\ started'[s] = started[s] /\ window'[s] = window[s]
             /\ listed'[s] = listed[s] /\ done'[s] = done[s] /\ closed'[s] = closed[s]
    BY <1>0, <2>1 DEF Exit, Types
  <2>3. DealtBy(r)'
    BY <2>2 DEF DealtBy, NoWindow
  <2> QED
    BY <2>1, <2>2, <2>3, DealtByOne
<1>8. CASE Tick \/ UNCHANGED vars
  BY <1>1, <1>8 DEF Tick, vars
<1> QED
  BY <1>1, <1>2, <1>3, <1>4, <1>5, <1>6, <1>7, <1>8 DEF Next, Step, Fault
-------------------------------------------------------------------------------
(* What a run owes *)

\* Conversations keep being accounted for while they are quiet.
Keeps(c) ==
  /\ lastActive'[c] = lastActive[c]
  /\ messages'[c] >= messages[c]
  /\ passed'[c] >= passed[c] \/ passed'[c] >= lastActive[c]

LEMMA StillAccounted ==
  ASSUME Types, Types', NEW c \in Convs, Keeps(c), Accounted(c)
  PROVE  Accounted(c)'
<1>1. /\ messages[c] \in Nat /\ messages'[c] \in Nat /\ passed[c] \in Nat
      /\ passed'[c] \in Nat /\ lastActive[c] \in Nat
  BY SizesAssumption DEF Types, Times
<1> QED
  BY <1>1 DEF Keeps, Accounted

\* What a run sees of the inbox depends on its window and on the activity.
LEMMA SameToCome ==
  ASSUME NEW r \in Runs, lastActive' = lastActive, window'[r] = window[r], startDate'[r] = startDate[r]
  PROVE  WindowStart(r)' = WindowStart(r) /\ ToCome(r)' = ToCome(r)
<1>1. WindowStart(r)' = WindowStart(r)
  BY DEF WindowStart, ReachesStart
<1>2. WindowInbox(r)' = WindowInbox(r)
  BY <1>1 DEF WindowInbox, Inbox
<1>3. \A c, S : Rank(c, S)' = Rank(c, S)
  BY DEF Rank, Before
<1>4. \A c : Rank(c, WindowInbox(r))' = Rank(c, WindowInbox(r))
  BY <1>2 DEF Rank, Before
<1> QED
  BY <1>1, <1>2, <1>4 DEF ToCome

\* A step of run r in which nothing is sent keeps OwedInv if it keeps what
\* is accounted for and what r itself will meet.
LEMMA OwedByOne ==
  ASSUME Types, Types', OwedInv, NEW r \in Runs, lastActive' = lastActive, \A c \in Convs : Keeps(c),
         \A s \in Runs \ {r} :
           /\ pc'[s] = pc[s] /\ started'[s] = started[s] /\ startDate'[s] = startDate[s]
           /\ window'[s] = window[s] /\ listed'[s] = listed[s] /\ done'[s] = done[s],
         WillMeet(r)'
  PROVE  OwedInv'
<1>1. ASSUME NEW s \in Runs, s # r PROVE WillMeet(s)'
  <2>1. WillMeet(s) /\ s \in Runs \ {r}
    BY <1>1 DEF OwedInv
  <2>2. Owed(s)' \subseteq Owed(s)
    BY <2>1, StillAccounted DEF Owed
  <2>3. WindowStart(s)' = WindowStart(s) /\ ToCome(s)' = ToCome(s)
    BY <2>1, SameToCome
  <2>4. ConvsIn(listed[s])' = ConvsIn(listed[s])
    BY <2>1 DEF ConvsIn
  <2> QED
    BY <2>1, <2>2, <2>3, <2>4 DEF WillMeet, Owed
<1> QED
  BY <1>1 DEF OwedInv

\* A page shows what is to come, lists it, or gives it up.
LEMMA OwedAfterPage ==
  ASSUME SyncInv, NEW r \in Runs, pc[r] = "listing", window[r].page > 0, NEW c \in ToCome(r),
         c \notin ConvsIn(Collect(r))
  PROVE  c \in GivenUp(r) \/ (~LastPage(r) /\ Rank(c, WindowInbox(r)) >= window[r].page * PageSize)
<1>1. c \notin Shown(r)
  BY CollectConvs
<1>2. c \in Convs
  BY DEF ToCome, WindowInbox, Inbox
<1> QED
  BY <1>1, <1>2, NextPage DEF GivenUp, SyncInv

\* What is older than the last window is given up with the sweep.
LEMMA OwedAfterSweep ==
  ASSUME SyncInv, NEW r \in Runs, pc[r] = "listing", SweepEnds(r), ~ReachesStart(r),
         NEW c \in Convs, c \notin ConvsIn(Collect(r)), lastActive[c] < WindowStart(r)
  PROVE  c \in GivenUp(r)
<1>1. CASE startDate[r] = 0
  BY <1>1 DEF GivenUp
<1>2. CASE startDate[r] # 0
  <2>1. Cardinality(Collect(r)) >= HardLimit
    BY <1>2 DEF SweepEnds
  <2>2. /\ Cardinality(Shown(r)) \in Nat /\ Count(r) \in Nat /\ Count(r) <= window[r].room
        /\ Cardinality(Collect(r)) \in Nat
        /\ Cardinality(Collect(r)) <= Cardinality(listed[r]) + Cardinality(Shown(r))
    BY ShownFacts, CollectFacts DEF SyncInv
  <2>3. /\ window[r].count \in Nat /\ window[r].room \in Int /\ IsFiniteSet(listed[r])
        /\ Cardinality(listed[r]) + window[r].room - window[r].count <= HardLimit
        /\ startDate[r] \in Int /\ window[r].end \in Int /\ lastActive \in [Convs -> Times]
    BY SizesAssumption DEF SyncInv, TypeOK, Types, SweepInv, Times
  <2>4. Cardinality(listed[r]) \in Nat /\ HardLimit \in Nat
    BY <2>3, FS_CardinalityType, SizesAssumption
  <2>5. Truncated(r)
    BY <2>1, <2>2, <2>3, <2>4 DEF Truncated, Count
  <2>6. ASSUME NEW d \in Shown(r) PROVE lastActive[c] <= lastActive[d]
    <3>1. d \in Convs /\ lastActive[d] \in WindowStart(r)..window[r].end
      BY DEF Shown, Page, WindowInbox, Inbox
    <3>2. WindowStart(r) \in Int /\ lastActive[c] \in Int /\ lastActive[d] \in Int
      BY <2>3, <3>1, SizesAssumption DEF WindowStart, Times
    <3> QED
      BY <2>3, <3>1, <3>2
  <2> QED
    BY <2>5, <2>6 DEF GivenUp
<1> QED
  BY <1>1, <1>2

\* NothingLost in terms of what is accounted for.
LEMMA LostFacts == NothingLost <=> \A c \in Convs : lastActive[c] < watermark => Accounted(c)
BY DEF NothingLost, UpToDate, Accounted

\* A page keeps what a run will meet.
LEMMA OwedByPage ==
  ASSUME SyncInv, Types', DealtInv, OwedInv, NEW r \in Runs, ReadPage(r) \/ ReadLastPage(r)
  PROVE  OwedInv' /\ \A c \in Convs : Keeps(c)
<1> USE DEF momants, conversations, syncState, sweep, work, history
<1>0. Types /\ SweepInv /\ WillMeet(r) /\ window[r].page > 0 /\ done[r] = {} /\ pc[r] = "listing"
  BY DEF SyncInv, TypeOK, OwedInv, DealtInv, ReadPage, ReadLastPage
<1>1. /\ listed'[r] = Collect(r) /\ UNCHANGED <<lastActive, messages, started, startDate, done>>
      /\ \A s \in Runs \ {r} : pc'[s] = pc[s] /\ window'[s] = window[s] /\ listed'[s] = listed[s]
  BY <1>0 DEF ReadPage, ReadLastPage, Types
<1>2. \A c \in Convs : /\ lastActive[c] \in Nat /\ messages[c] \in Nat /\ passed[c] \in Nat
  BY <1>0, SizesAssumption DEF Types, Times
<1>3. \A c \in Convs : passed'[c] = passed[c] \/ passed'[c] = lastActive[c]
  BY <1>0 DEF ReadPage, ReadLastPage, Types
<1>4. \A c \in Convs : Keeps(c)
  BY <1>1, <1>2, <1>3 DEF Keeps
<1>5. Owed(r)' \subseteq Owed(r)
  BY <1>0, <1>1, <1>4, StillAccounted DEF Owed
<1>6. \A c \in Owed(r)' : lastActive[c] >= startDate[r]
  BY <1>0, <1>5 DEF WillMeet
<1>7. ConvsIn(listed[r])' = ConvsIn(Collect(r))
  BY <1>1 DEF ConvsIn
<1>8. ConvsIn(listed[r]) \subseteq ConvsIn(Collect(r))
  BY CollectConvs
<1>9. ASSUME NEW c \in Owed(r)', c \notin ConvsIn(Collect(r))
      PROVE  c \in Convs /\ (lastActive[c] < WindowStart(r) \/ c \in ToCome(r))
  BY <1>0, <1>5, <1>8, <1>9 DEF WillMeet, Owed
<1>10. /\ window[r] \in [end : Int, page : Nat, room : Int, count : Nat, empties : Nat]
       /\ startDate[r] \in Int /\ WindowStart(r) \in Int /\ PageSize \in Nat
  BY <1>0, SizesAssumption DEF Types, WindowStart, Times
<1>11. CASE ReadPage(r)
  <2>1. pc' = pc /\ window'[r] = [window[r] EXCEPT !.page = @ + 1, !.count = Count(r)] /\ ~LastPage(r)
    BY <1>0, <1>11 DEF ReadPage, Types
  <2>2. window'[r].end = window[r].end /\ window'[r].page = window[r].page + 1
    BY <1>10, <2>1
  <2>3. WindowStart(r)' = WindowStart(r) /\ WindowInbox(r)' = WindowInbox(r)
    BY <1>1, <2>2 DEF WindowStart, ReachesStart, WindowInbox, Inbox
  <2>4. \A c : Rank(c, WindowInbox(r))' = Rank(c, WindowInbox(r))
    BY <1>1, <2>3 DEF Rank, Before
  <2>5. ASSUME NEW c \in Owed(r)', c \notin ConvsIn(Collect(r)), c \in ToCome(r)
        PROVE  c \in ToCome(r)'
    <3>1. c \in GivenUp(r) \/ Rank(c, WindowInbox(r)) >= window[r].page * PageSize
      BY <1>0, <2>5, OwedAfterPage
    <3>2. ~Truncated(r)
      BY <2>1 DEF LastPage
    <3>3. c \notin Shown(r) /\ c \in Convs
      BY <2>5, CollectConvs DEF ToCome, WindowInbox, Inbox
    <3>4. Rank(c, WindowInbox(r)) >= window[r].page * PageSize
      BY <1>0, <2>1, <2>5, <3>2, <3>3, NextPage DEF SyncInv
    <3>5. c \in WindowInbox(r)' /\ (window'[r].page - 1) * PageSize = window[r].page * PageSize
      BY <1>10, <2>2, <2>3, <2>5 DEF ToCome
    <3> QED
      BY <2>4, <3>4, <3>5 DEF ToCome
  <2>6. WillMeet(r)'
    BY <1>0, <1>1, <1>6, <1>7, <1>9, <2>1, <2>3, <2>5 DEF WillMeet
  <2> QED
    BY <1>0, <1>1, <1>4, <2>6, OwedByOne
<1>12. CASE ReadLastPage(r)
  <2>1. \A c \in GivenUp(r) : c \in Convs => Accounted(c)'
    <3>1. \A c \in GivenUp(r) : c \in Convs => passed'[c] = lastActive[c]
      BY <1>12 DEF ReadLastPage
    <3> QED
      BY <1>1, <1>2, <3>1 DEF Accounted
  <2>2. ASSUME NEW c \in Owed(r)', c \notin ConvsIn(Collect(r))
        PROVE  c \in Convs /\ lastActive[c] < WindowStart(r)
    <3>1. c \notin GivenUp(r)
      BY <1>9, <2>1, <2>2 DEF Owed
    <3>2. LastPage(r)
      BY <1>12 DEF ReadLastPage
    <3> QED
      BY <1>0, <1>9, <2>2, <3>1, <3>2, OwedAfterPage
  <2>3. CASE SweepEnds(r)
    <3>1. pc'[r] = "ingesting"
      BY <1>0, <1>12, <2>3 DEF ReadLastPage, Types
    <3>2. ASSUME NEW c \in Owed(r)' PROVE c \in ConvsIn(Collect(r))
      <4> SUFFICES ASSUME c \notin ConvsIn(Collect(r)) PROVE FALSE
        OBVIOUS
      <4>1. c \in Convs /\ lastActive[c] < WindowStart(r) /\ lastActive[c] >= startDate[r]
        BY <1>6, <2>2, <3>2
      <4>2. ~ReachesStart(r)
        BY <1>2, <1>10, <4>1 DEF WindowStart
      <4>3. c \in GivenUp(r)
        BY <1>0, <2>3, <4>1, <4>2, OwedAfterSweep
      <4> QED
        BY <2>1, <3>2, <4>1, <4>3 DEF Owed
    <3>3. WillMeet(r)'
      BY <1>0, <1>1, <1>6, <1>7, <3>1, <3>2 DEF WillMeet
    <3> QED
      BY <1>0, <1>1, <1>4, <3>3, OwedByOne
  <2>4. CASE ~SweepEnds(r)
    <3>1. pc'[r] = "listing" /\ window'[r].end = WindowStart(r) /\ window'[r].page = 1
      BY <1>0, <1>12, <2>4 DEF ReadLastPage, NextWindow, Types
    <3>2. ASSUME NEW c \in Owed(r)', c \notin ConvsIn(Collect(r))
          PROVE  lastActive'[c] < WindowStart(r)' \/ c \in ToCome(r)'
      <4>1. c \in Convs /\ lastActive[c] < WindowStart(r)
        BY <2>2, <3>2
      <4>2. lastActive[c] > 0
        BY <1>1, <1>2, <3>2, <4>1 DEF Owed, Accounted
      <4>3. WindowStart(r)' \in Int
        BY <1>1, <1>10, <3>1, SizesAssumption DEF WindowStart, ReachesStart
      <4>4. CASE lastActive[c] < WindowStart(r)'
        BY <1>1, <4>4
      <4>5. CASE ~(lastActive[c] < WindowStart(r)')
        <5>1. lastActive[c] \in WindowStart(r)'..window'[r].end
          BY <1>2, <1>10, <3>1, <4>1, <4>3, <4>5
        <5>2. c \in WindowInbox(r)'
          BY <1>1, <4>1, <4>2, <5>1 DEF WindowInbox, Inbox
        <5>3. Rank(c, WindowInbox(r))' \in Nat
          <6>1. {d \in WindowInbox(r) : Before(d, c)}' \subseteq Convs
            BY DEF WindowInbox, Inbox
          <6> QED
            BY <6>1, ConvsFinite DEF Rank
        <5>4. (window'[r].page - 1) * PageSize = 0
          BY <1>10, <3>1
        <5> QED
          BY <5>2, <5>3, <5>4 DEF ToCome
      <4> QED
        BY <4>4, <4>5
    <3>3. WillMeet(r)'
      BY <1>0, <1>1, <1>6, <1>7, <3>1, <3>2 DEF WillMeet
    <3> QED
      BY <1>0, <1>1, <1>4, <3>3, OwedByOne
  <2> QED
    BY <2>3, <2>4
<1> QED
  BY <1>4, <1>11, <1>12
\* Every action keeps OwedInv and NothingLost, unless a run takes the end of a
\* job for the watermark.
LEMMA WatermarkPreserved ==
  ASSUME SyncInv, SyncInv', TimeInv, DealtInv, OwedInv, NothingLost, [Next]_vars, ~backfilled'
  PROVE  OwedInv' /\ NothingLost'
<1> USE DEF momants, conversations, syncState, sweep, work, history
<1>0. /\ Types /\ Types' /\ SweepInv /\ EntryInv /\ StoredUpToLastSeen /\ ListedOnce
      /\ \A r \in Runs : WillMeet(r) /\ DealtBy(r)
  BY DEF SyncInv, TypeOK, OwedInv, DealtInv, DealtBy
<1>a. /\ \A c \in Convs : /\ lastActive[c] \in Nat /\ messages[c] \in Nat /\ passed[c] \in Nat
                           /\ sourceLastSeen[c] \in Nat
      /\ \A r \in Runs : started[r] \in Nat /\ startDate[r] \in Nat
      /\ \A r \in Runs : \A c \in Convs : fetched[r][c] \in Nat
      /\ clock \in Nat /\ watermark \in Nat /\ lastComplete \in Nat
  BY <1>0, SizesAssumption DEF Types, Times
<1>b. \A r \in Runs : \A e \in listed[r] :
        e.conv \in Convs /\ e.seen \in Nat /\ e.seen \in Times /\ e.seen <= lastActive[e.conv]
  BY <1>0, SizesAssumption DEF Types, Entries, Times, EntryInv
<1>c. ASSUME UNCHANGED watermark, \A c \in Convs : Keeps(c)
      PROVE  NothingLost'
  <2>1. \A c \in Convs : lastActive[c] < watermark => Accounted(c)
    BY LostFacts
  <2>2. \A c \in Convs : lastActive'[c] < watermark' => Accounted(c)'
    BY <1>0, <1>c, <2>1, StillAccounted DEF Keeps
  <2> QED
    BY <2>2 DEF NothingLost, UpToDate, Accounted
<1>1. CASE UNCHANGED <<lastActive, messages, passed, watermark, pc, started, startDate, window, listed, done>>
  <2>1. \A c \in Convs : Keeps(c)
    BY <1>1, <1>a DEF Keeps
  <2>2. ASSUME NEW r \in Runs PROVE WillMeet(r)'
    <3>1. WindowStart(r)' = WindowStart(r) /\ ToCome(r)' = ToCome(r)
      BY <1>1, SameToCome
    <3> QED
      BY <1>0, <1>1, <3>1 DEF WillMeet, Owed, Accounted, ConvsIn
  <2> QED
    BY <1>1, <1>c, <2>1, <2>2 DEF OwedInv
<1>2. ASSUME NEW c \in Convs, Activity(c)
      PROVE  OwedInv' /\ NothingLost'
  <2>1. /\ UNCHANGED <<messages, watermark, pc, started, startDate, window, listed, done>>
        /\ \A d \in Convs : lastActive'[d] = IF d = c THEN clock ELSE lastActive[d]
        /\ \A d \in Convs : passed'[d] =
             IF d # c /\ \E r \in Runs : d \in ToCome(r) \ ToCome(r)' THEN lastActive[d] ELSE passed[d]
    BY <1>0, <1>2 DEF Activity, Types
  <2>2. \A d \in Convs \ {c} : Keeps(d)
    BY <1>a, <2>1 DEF Keeps
  <2>3. \A d \in Convs : lastActive'[d] < watermark => Accounted(d)'
    <3>1. \A d \in Convs : lastActive[d] < watermark => Accounted(d)
      BY LostFacts
    <3>2. ~(clock < watermark)
      BY <1>a DEF TimeInv
    <3> QED
      BY <1>0, <2>1, <2>2, <3>1, <3>2, StillAccounted
  <2>4. NothingLost'
    BY <2>1, <2>3 DEF NothingLost, UpToDate, Accounted
  <2>5. ASSUME NEW r \in Runs PROVE WillMeet(r)'
    <3>1. \A d \in Owed(r)' : d # c /\ d \in Owed(r) /\ lastActive'[d] = lastActive[d]
      <4>1. ~(clock < started[r])
        BY <1>a DEF TimeInv
      <4> QED
        BY <1>0, <2>1, <2>2, <4>1, StillAccounted DEF Owed
    <3>2. WindowStart(r)' = WindowStart(r) /\ ConvsIn(listed[r])' = ConvsIn(listed[r])
      BY <2>1 DEF WindowStart, ReachesStart, ConvsIn
    <3>3. ASSUME NEW d \in Owed(r)', d \in ToCome(r) PROVE d \in ToCome(r)'
      <4>1. d \in Convs /\ ~Accounted(d)' /\ d # c
        BY <3>1, <3>3 DEF Owed
      <4>2. ~(passed'[d] >= lastActive[d])
        BY <3>1, <3>3, <4>1 DEF Accounted
      <4> QED
        BY <1>a, <2>1, <3>3, <4>1, <4>2
    <3> QED
      BY <1>0, <2>1, <3>1, <3>2, <3>3 DEF WillMeet
  <2> QED
    BY <2>4, <2>5 DEF OwedInv
<1>3. ASSUME NEW r \in Runs, Start(r)
      PROVE  OwedInv' /\ NothingLost'
  <2>1. /\ UNCHANGED <<lastActive, messages, passed, watermark, window, listed, done>> /\ pc'[r] = "starting"
        /\ \A s \in Runs \ {r} : pc'[s] = pc[s] /\ started'[s] = started[s] /\ startDate'[s] = startDate[s]
        /\ startDate'[r] = (IF watermark > 0 THEN watermark ELSE lastComplete)
        /\ ~(watermark = 0 /\ lastComplete > 0)
    BY <1>0, <1>3 DEF Start, Types
  <2>2. \A c \in Convs : Keeps(c)
    BY <1>a, <2>1 DEF Keeps
  <2>3. \A c \in Convs : ~Accounted(c)' => lastActive[c] >= startDate'[r]
    <3>1. \A c \in Convs : lastActive[c] < watermark => Accounted(c)
      BY LostFacts
    <3> QED
      BY <1>0, <1>a, <2>1, <2>2, <3>1, StillAccounted
  <2>4. WillMeet(r)'
    BY <2>1, <2>3 DEF WillMeet, Owed
  <2> QED
    BY <1>0, <1>c, <2>1, <2>2, <2>4, OwedByOne
<1>4. ASSUME NEW r \in Runs, BeginSweep(r)
      PROVE  OwedInv' /\ NothingLost'
  <2>1. /\ UNCHANGED <<lastActive, messages, passed, watermark, started, startDate, listed, done>>
        /\ pc[r] = "starting" /\ pc'[r] = "listing"
        /\ \A s \in Runs \ {r} : pc'[s] = pc[s] /\ window'[s] = window[s]
        /\ window'[r].end = clock /\ window'[r].page = 1
    BY <1>0, <1>4 DEF BeginSweep, Types, SweepInv, NoWindow
  <2>2. \A c \in Convs : Keeps(c)
    BY <1>a, <2>1 DEF Keeps
  <2>3. Owed(r)' = Owed(r)
    BY <2>1 DEF Owed, Accounted
  <2>4. ASSUME NEW c \in Owed(r)
        PROVE  lastActive'[c] < WindowStart(r)' \/ c \in ToCome(r)'
    <3>1. c \in Convs /\ lastActive[c] < started[r] /\ started[r] <= clock /\ lastActive[c] > 0
      BY <1>a DEF Owed, Accounted, TimeInv
    <3>2. WindowStart(r)' \in Int
      BY <1>a, <2>1, SizesAssumption DEF WindowStart, ReachesStart
    <3>3. CASE ~(lastActive[c] < WindowStart(r)')
      <4>1. lastActive[c] \in WindowStart(r)'..window'[r].end
        BY <1>a, <2>1, <3>1, <3>2, <3>3
      <4>2. c \in WindowInbox(r)'
        BY <2>1, <3>1, <4>1 DEF WindowInbox, Inbox
      <4>3. Rank(c, WindowInbox(r))' \in Nat
        <5>1. {d \in WindowInbox(r) : Before(d, c)}' \subseteq Convs
          BY DEF WindowInbox, Inbox
        <5> QED
          BY <5>1, ConvsFinite DEF Rank
      <4>4. (window'[r].page - 1) * PageSize = 0
        BY <2>1, SizesAssumption
      <4> QED
        BY <4>2, <4>3, <4>4 DEF ToCome
    <3> QED
      BY <2>1, <3>3
  <2>5. WillMeet(r)'
    BY <1>0, <2>1, <2>3, <2>4 DEF WillMeet
  <2> QED
    BY <1>0, <1>c, <2>1, <2>2, <2>5, OwedByOne
<1>5. ASSUME NEW r \in Runs, ReadPage(r) \/ ReadLastPage(r)
      PROVE  OwedInv' /\ NothingLost'
  <2>1. OwedInv' /\ \A c \in Convs : Keeps(c)
    BY <1>0, <1>5, OwedByPage
  <2>2. UNCHANGED watermark
    BY <1>5 DEF ReadPage, ReadLastPage
  <2> QED
    BY <1>c, <2>1, <2>2
\* Run r deals with conversations: each of them is accounted for.
<1>6. ASSUME NEW r \in Runs, pc[r] = "ingesting", \A c \in Convs : Keeps(c),
             UNCHANGED <<lastActive, watermark, pc, started, startDate, window, listed>>,
             \A s \in Runs \ {r} : done'[s] = done[s],
             \A c \in done'[r] \ done[r] : c \in Convs /\ lastActive[c] < started[r] => Accounted(c)'
      PROVE  OwedInv' /\ NothingLost'
  <2>1. Owed(r)' \subseteq Owed(r)
    BY <1>0, <1>6, StillAccounted DEF Owed
  <2>2. Owed(r)' \cap (done'[r] \ done[r]) = {}
    BY <1>6 DEF Owed
  <2>3. WillMeet(r)'
    BY <1>0, <1>6, <2>1, <2>2 DEF WillMeet, ConvsIn
  <2> QED
    BY <1>0, <1>6, <1>c, <2>3, OwedByOne
<1>7. ASSUME NEW r \in Runs, NEW e \in listed[r], Skip(r, e)
      PROVE  OwedInv' /\ NothingLost'
  <2>1. /\ UNCHANGED <<lastActive, messages, passed, watermark, pc, started, startDate, window, listed>>
        /\ pc[r] = "ingesting" /\ done'[r] = done[r] \cup {e.conv}
        /\ \A s \in Runs \ {r} : done'[s] = done[s]
    BY <1>0, <1>7 DEF Skip, Deal, Turn, Types
  <2>2. \A c \in Convs : Keeps(c)
    BY <1>a, <2>1 DEF Keeps
  <2>3. e.seen <= messages[e.conv]
    BY <1>0, <1>7, <1>a, <1>b DEF Skip, ShouldSkipFetch, StoredUpToLastSeen
  <2>4. lastActive[e.conv] < started[r] => Accounted(e.conv)'
    BY <1>0, <1>a, <1>b, <2>1, <2>3 DEF DealtBy, Accounted
  <2> QED
    BY <1>6, <2>1, <2>2, <2>4
<1>8. ASSUME NEW r \in Runs, NEW e \in listed[r], Store(r, e)
      PROVE  OwedInv' /\ NothingLost'
  <2>1. /\ UNCHANGED <<lastActive, passed, watermark, pc, started, startDate, window, listed>>
        /\ pc[r] = "ingesting" /\ done'[r] = done[r] \cup {e.conv} /\ fetched[r][e.conv] > 0
        /\ \A s \in Runs \ {r} : done'[s] = done[s]
        /\ \A c \in Convs : messages'[c] = IF c = e.conv THEN Later(messages[c], fetched[r][c]) ELSE messages[c]
    BY <1>0, <1>8 DEF Store, Deal, Turn, Types
  <2>2. \A c \in Convs : Keeps(c)
    BY <1>a, <1>b, <2>1 DEF Keeps, Later
  <2>3. e.seen <= fetched[r][e.conv]
    BY <1>0, <2>1 DEF EntryInv
  <2>4. lastActive[e.conv] < started[r] => Accounted(e.conv)'
    BY <1>0, <1>a, <1>b, <2>1, <2>3 DEF DealtBy, Accounted, Later
  <2> QED
    BY <1>6, <2>1, <2>2, <2>4
<1>9. ASSUME NEW r \in Runs, NEW e \in listed[r], FailConversation(r, e)
      PROVE  OwedInv' /\ NothingLost'
  <2>1. /\ UNCHANGED <<lastActive, messages, watermark, pc, started, startDate, window, listed>>
        /\ pc[r] = "ingesting" /\ done'[r] = done[r] \cup {e.conv}
        /\ \A s \in Runs \ {r} : done'[s] = done[s]
        /\ \A c \in Convs : passed'[c] = IF c = e.conv THEN Later(passed[c], e.seen) ELSE passed[c]
    BY <1>0, <1>9 DEF FailConversation, Deal, Turn, Types
  <2>2. \A c \in Convs : Keeps(c)
    BY <1>a, <1>b, <2>1 DEF Keeps, Later
  <2>3. lastActive[e.conv] < started[r] => Accounted(e.conv)'
    BY <1>0, <1>a, <1>b, <2>1 DEF DealtBy, Accounted, Later
  <2> QED
    BY <1>6, <1>b, <2>1, <2>2, <2>3
<1>10. ASSUME NEW r \in Runs, NEW b \in Batches(r), CancelBatch(r, b)
       PROVE  OwedInv' /\ NothingLost'
  <2> DEFINE rest == {e \in Members(r, b) : e.conv \notin done[r]}
             entry(c) == CHOOSE e \in rest : e.conv = c
  <2>1. /\ UNCHANGED <<lastActive, messages, watermark, pc, started, startDate, window, listed>>
        /\ pc[r] = "ingesting" /\ done'[r] = done[r] \cup ConvsIn(rest)
        /\ \A s \in Runs \ {r} : done'[s] = done[s]
        /\ \A c \in Convs : passed'[c] =
             IF c \in ConvsIn(rest) THEN Later(passed[c], entry(c).seen) ELSE passed[c]
    BY <1>0, <1>10 DEF CancelBatch, Types
  <2>2. \A c \in ConvsIn(rest) : entry(c) \in listed[r] /\ entry(c).conv = c
    <3>1. \A c \in ConvsIn(rest) : \E e \in rest : e.conv = c
      BY DEF ConvsIn
    <3>2. \A c \in ConvsIn(rest) : entry(c) \in rest /\ entry(c).conv = c
      BY <3>1
    <3> QED
      BY <3>2 DEF Members
  <2> HIDE DEF entry, rest
  <2>3. \A c \in ConvsIn(rest) : c \in Convs /\ entry(c).seen \in Nat
    BY <1>b, <2>2
  <2>4. \A c \in Convs : Keeps(c)
    BY <1>a, <2>1, <2>3 DEF Keeps, Later
  <2>5. ASSUME NEW c \in ConvsIn(rest), lastActive[c] < started[r] PROVE Accounted(c)'
    <3>1. entry(c).seen = lastActive[c]
      BY <1>0, <2>2, <2>5 DEF DealtBy
    <3> QED
      BY <1>a, <2>1, <2>3, <2>5, <3>1 DEF Accounted, Later
  <2> QED
    BY <1>6, <2>1, <2>3, <2>4, <2>5
<1>11. ASSUME NEW r \in Runs, FinishSync(r) \/ Abort(r)
       PROVE  OwedInv' /\ NothingLost'
  <2>1. /\ UNCHANGED <<lastActive, messages, passed>> /\ pc'[r] = "idle"
        /\ \A s \in Runs \ {r} :
             /\ pc'[s] = pc[s] /\ started'[s] = started[s] /\ startDate'[s] = startDate[s]
             /\ window'[s] = window[s] /\ listed'[s] = listed[s] /\ done'[s] = done[s]
    BY <1>0, <1>11 DEF FinishSync, Abort, Exit, Types
  <2>2. \A c \in Convs : Keeps(c)
    BY <1>a, <2>1 DEF Keeps
  <2>3. WillMeet(r)'
    BY <2>1 DEF WillMeet
  <2>4. OwedInv'
    BY <1>0, <2>1, <2>2, <2>3, OwedByOne
  <2>5. CASE Abort(r)
    BY <1>c, <2>2, <2>4, <2>5 DEF Abort
  <2>6. CASE FinishSync(r)
    <3>1. pc[r] = "ingesting" /\ closed[r] = Batches(r) /\ watermark' = started[r]
      BY <2>6 DEF FinishSync
    <3>2. ConvsIn(listed[r]) \subseteq done[r]
      BY <1>0, <3>1 DEF DealtBy, Batches, ConvsIn
    <3>3. Owed(r) = {}
      BY <1>0, <3>1, <3>2 DEF WillMeet
    <3>4. \A c \in Convs : lastActive'[c] < watermark' => Accounted(c)'
      BY <2>1, <3>1, <3>3 DEF Owed, Accounted
    <3> QED
      BY <2>4, <3>4 DEF NothingLost, UpToDate, Accounted
  <2> QED
    BY <1>11, <2>5, <2>6
<1>12. ASSUME NEW r \in Runs,
              (\E e \in listed[r] : Fetch(r, e)) \/ (\E b \in Batches(r) : CompleteBatch(r, b))
       PROVE  UNCHANGED <<lastActive, messages, passed, watermark, pc, started, startDate, window, listed, done>>
  BY <1>12 DEF Fetch, CompleteBatch
<1>13. CASE Tick \/ UNCHANGED vars
  BY <1>1, <1>13 DEF Tick, vars
<1> QED
  BY <1>1, <1>2, <1>3, <1>4, <1>5, <1>7, <1>8, <1>9, <1>10, <1>11, <1>12, <1>13 DEF Next, Step, Fault
-------------------------------------------------------------------------------
(* The theorems *)

\* SyncInv is inductive.
THEOREM SyncInvariant == Spec => []SyncInv
<1>1. Init => SyncInv
  BY TypesInit, ListInit, EntryInit DEF SyncInv, TypeOK, ListInv, ListLimit
<1>2. SyncInv /\ [Next]_vars => SyncInv'
  BY TypesPreserved, ListPreserved, EntryPreserved, StoredPreserved
  DEF SyncInv, TypeOK, ListInv, ListLimit
<1> QED
  BY <1>1, <1>2, PTL DEF Spec

\* The variables of the ingest keep their types, and no run ever lists more
\* conversations than ingestion_max_conversations.
THEOREM SyncTypeCorrect == Spec => []TypeOK
<1>1. SyncInv => TypeOK
  BY DEF SyncInv
<1> QED
  BY <1>1, SyncInvariant, PTL

\* A run lists each conversation once: the deduplication of
\* collect_inbox_entries_by_window keeps two of its batches apart.
THEOREM ListedOnceAlways == Spec => []ListedOnce
<1>1. SyncInv => ListedOnce
  BY DEF SyncInv
<1> QED
  BY <1>1, SyncInvariant, PTL

\* A conversation is stored up to its source_last_seen, whichever runs overlap,
\* fail, are cancelled or killed: the premise of _should_skip_fetch.
THEOREM StoredAlways == Spec => []StoredUpToLastSeen
<1>1. SyncInv => StoredUpToLastSeen
  BY DEF SyncInv
<1> QED
  BY <1>1, SyncInvariant, PTL

\* WatermarkInv is inductive.
THEOREM WatermarkInvariant == Spec => []WatermarkInv
<1>1. Init => WatermarkInv
  <2> SUFFICES ASSUME Init PROVE WatermarkInv
    OBVIOUS
  <2>1. SyncInv
    BY TypesInit, ListInit, EntryInit DEF SyncInv, TypeOK, ListInv, ListLimit
  <2>2. OwedInv
    BY DEF Init, OwedInv, WillMeet
  <2>3. \A c \in Convs : ~(lastActive[c] < watermark)
    BY <2>1, SizesAssumption DEF Init, SyncInv, TypeOK, Types, Times
  <2> QED
    BY <2>1, <2>2, <2>3, DealtInit, LostFacts DEF WatermarkInv
<1>2. WatermarkInv /\ [Next]_vars => WatermarkInv'
  <2> SUFFICES ASSUME WatermarkInv, [Next]_vars PROVE WatermarkInv'
    OBVIOUS
  <2>1. SyncInv'
    BY TypesPreserved, ListPreserved, EntryPreserved, StoredPreserved
    DEF WatermarkInv, SyncInv, TypeOK, ListInv, ListLimit
  <2>2. backfilled => backfilled'
    BY DEF WatermarkInv, Next, Step, Fault, vars, history, Tick, Activity, Start, BeginSweep, ReadPage,
           ReadLastPage, Skip, Fetch, Store, FailConversation, CompleteBatch, CancelBatch, FinishSync, Abort
  <2> QED
    BY <2>1, <2>2, TimePreserved, DealtPreserved, WatermarkPreserved DEF WatermarkInv
<1> QED
  BY <1>1, <1>2, PTL DEF Spec

\* What was active before the watermark is stored up to that activity, unless a
\* run passed over it or took the end of a job for the watermark: the overlap
\* of runs, the order of pages, cancellations and kills lose nothing else.
THEOREM NothingLostAlways == Spec => []NothingLostBehindWatermark
<1>1. WatermarkInv => NothingLostBehindWatermark
  BY DEF WatermarkInv, NothingLostBehindWatermark
<1> QED
  BY <1>1, WatermarkInvariant, PTL
===============================================================================
