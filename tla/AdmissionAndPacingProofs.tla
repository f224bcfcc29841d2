----------------------- MODULE AdmissionAndPacingProofs -----------------------
(***************************************************************************)
(* Theorems about JobAdmission, for any number of callers, kinds, agents   *)
(* and any limits, and about RequestPacing, for any number of threads, any *)
(* interval, delays, lifetimes and margin, and any bounds.  The two share  *)
(* no state; one run checks both.                                          *)
(*                                                                         *)
(* JobAdmission: the limits are sets of rows counted by Cardinality, so    *)
(* the argument is about sets: the caller that owns the mutex has seen     *)
(* every covered row of the kinds it has counted (CountsCover), because no *)
(* one else can add a covered row meanwhile and rows only disappear;       *)
(* counts below the limits therefore leave room for one more covered row   *)
(* (RoomLeft).                                                             *)
(*                                                                         *)
(* RequestPacing: the rate is about numbers of requests and slots.  Each   *)
(* request was sent by a thread that had slept until a slot of its own, so *)
(* there are no fewer slots than requests sent and threads that hold a     *)
(* slot (SlotsUsed; a login that fails gives its slot up), and a slot that *)
(* has not come yet is one a thread still sleeps for (SlotsAhead): the     *)
(* requests sent are at most the slots that have come.                     *)
(***************************************************************************)
EXTENDS JobAdmission, RequestPacing, FiniteSetTheorems, TLAPS

-------------------------------------------------------------------------------
(* JobAdmission: sets of rows and the limits *)

\* The instance of SlotPool has its own copy of Cardinality.
LEMMA PoolCardinality ==
  ASSUME NEW S
  PROVE  Pool!Cardinality(S) = Cardinality(S)
BY DEF Pool!Cardinality, Cardinality

\* Pool!Fits, with the Cardinality that the theorems on finite sets are about.
LEMMA FitsDefinition ==
  ASSUME NEW S
  PROVE  Pool!Fits(S) <=>
           /\ Cardinality(S) <= MaxTotal
           /\ \A k \in Kinds : Cardinality(Pool!OfKind(S, k)) <= MaxKind[k]
           /\ \A k \in Kinds, a \in Agents :
                Cardinality(Pool!OfAgent(Pool!OfKind(S, k), a)) <= MaxPerAgent[k]
BY PoolCardinality DEF Pool!Fits

\* A part of a set of rows that fits the limits fits them too.
LEMMA FitsSubset ==
  ASSUME NEW S, NEW T, IsFiniteSet(T), S \subseteq T, Pool!Fits(T)
  PROVE  Pool!Fits(S)
<1>1. ASSUME NEW A, NEW B, A \subseteq B, B \subseteq T, NEW n \in Nat, Cardinality(B) <= n
      PROVE  Cardinality(A) <= n
  <2>1. IsFiniteSet(B)
    BY <1>1, FS_Subset
  <2>2. Cardinality(A) <= Cardinality(B) /\ IsFiniteSet(A)
    BY <1>1, <2>1, FS_Subset
  <2>3. Cardinality(A) \in Nat /\ Cardinality(B) \in Nat
    BY <2>1, <2>2, FS_CardinalityType
  <2> QED
    BY <1>1, <2>2, <2>3
<1>2. Cardinality(S) <= MaxTotal
  BY <1>1, FitsDefinition, LimitsAssumption
<1>3. ASSUME NEW k \in Kinds
      PROVE  Cardinality(Pool!OfKind(S, k)) <= MaxKind[k]
  <2>1. MaxKind[k] \in Nat
    BY LimitsAssumption
  <2>2. Cardinality(Pool!OfKind(T, k)) <= MaxKind[k]
    BY FitsDefinition
  <2>3. Pool!OfKind(S, k) \subseteq Pool!OfKind(T, k) /\ Pool!OfKind(T, k) \subseteq T
    BY DEF Pool!OfKind
  <2> QED
    BY <1>1, <2>1, <2>2, <2>3
<1>4. ASSUME NEW k \in Kinds, NEW a \in Agents
      PROVE  Cardinality(Pool!OfAgent(Pool!OfKind(S, k), a)) <= MaxPerAgent[k]
  <2> DEFINE Rows(R) == Pool!OfAgent(Pool!OfKind(R, k), a)
  <2>1. MaxPerAgent[k] \in Nat
    BY LimitsAssumption
  <2>2. Cardinality(Rows(T)) <= MaxPerAgent[k]
    BY FitsDefinition
  <2>3. Rows(S) \subseteq Rows(T) /\ Rows(T) \subseteq T
    BY DEF Pool!OfKind, Pool!OfAgent
  <2> HIDE DEF Rows
  <2>4. Cardinality(Rows(S)) <= MaxPerAgent[k]
    BY <1>1, <2>1, <2>2, <2>3
  <2> QED
    BY <2>4 DEF Rows
<1> QED
  BY <1>2, <1>3, <1>4, FitsDefinition

\* One more element than a subset of a set that is below a bound.
LEMMA AddBelow ==
  ASSUME NEW A, NEW B, IsFiniteSet(B), A \subseteq B, NEW x, NEW n \in Nat, Cardinality(B) < n
  PROVE  Cardinality(A \cup {x}) <= n
<1>1. IsFiniteSet(A) /\ Cardinality(A) <= Cardinality(B)
  BY FS_Subset
<1>2. Cardinality(A) \in Nat /\ Cardinality(B) \in Nat
  BY <1>1, FS_CardinalityType
<1>3. Cardinality(A \cup {x}) = IF x \in A THEN Cardinality(A) ELSE Cardinality(A) + 1
  BY <1>1, FS_AddElement
<1> QED
  BY <1>1, <1>2, <1>3

\* The heart of admission.  Caller j has counted the rows in T (every row of S
\* among them) below the total and below the limit of its kind, and the rows of
\* its kind and agent in R (every row of S among them) below that limit: with
\* the row of j added, S still fits.
LEMMA FitsAdd ==
  ASSUME NEW j \in Jobs, NEW S \in SUBSET Jobs, NEW T \in SUBSET Jobs, NEW R \in SUBSET Jobs,
         S \subseteq T, S \subseteq R, Pool!Fits(S),
         Cardinality(T) < MaxTotal,
         Cardinality(Pool!OfKind(T, KindOf[j])) < MaxKind[KindOf[j]],
         Cardinality(Pool!OfAgent(Pool!OfKind(R, KindOf[j]), AgentOf[j]))
           < MaxPerAgent[KindOf[j]]
  PROVE  Pool!Fits(S \cup {j})
<1> DEFINE U == S \cup {j}
           Rows(X, k, a) == Pool!OfAgent(Pool!OfKind(X, k), a)
<1>1. /\ KindOf[j] \in Kinds
      /\ MaxTotal \in Nat
      /\ \A k \in Kinds : MaxKind[k] \in Nat /\ MaxPerAgent[k] \in Nat
  BY KindsAssumption, LimitsAssumption
<1>2. \A X \in SUBSET Jobs : IsFiniteSet(X)
  BY JobsAssumption, FS_Subset
<1>3. Cardinality(U) <= MaxTotal
  BY <1>1, <1>2, AddBelow
<1>4. ASSUME NEW k \in Kinds
      PROVE  Cardinality(Pool!OfKind(U, k)) <= MaxKind[k]
  <2>1. CASE k = KindOf[j]
    <3>1. Pool!OfKind(U, k) = Pool!OfKind(S, k) \cup {j}
      BY <2>1 DEF Pool!OfKind
    <3>2. Pool!OfKind(S, k) \subseteq Pool!OfKind(T, k) /\ Pool!OfKind(T, k) \in SUBSET Jobs
      BY DEF Pool!OfKind
    <3> QED
      BY <1>1, <1>2, <2>1, <3>1, <3>2, AddBelow
  <2>2. CASE k # KindOf[j]
    <3>1. Pool!OfKind(U, k) = Pool!OfKind(S, k)
      BY <2>2 DEF Pool!OfKind
    <3> QED
      BY <3>1, FitsDefinition
  <2> QED
    BY <2>1, <2>2
<1>5. ASSUME NEW k \in Kinds, NEW a \in Agents
      PROVE  Cardinality(Rows(U, k, a)) <= MaxPerAgent[k]
  <2>1. CASE k = KindOf[j] /\ a = AgentOf[j]
    <3>1. Rows(U, k, a) = Rows(S, k, a) \cup {j}
      BY <2>1 DEF Pool!OfKind, Pool!OfAgent
    <3>2. Rows(S, k, a) \subseteq Rows(R, k, a) /\ Rows(R, k, a) \in SUBSET Jobs
      BY DEF Pool!OfKind, Pool!OfAgent
    <3>3. IsFiniteSet(Rows(R, k, a)) /\ Cardinality(Rows(R, k, a)) < MaxPerAgent[k]
      BY <1>2, <2>1, <3>2
    <3>4. MaxPerAgent[k] \in Nat
      BY <1>1
    <3> HIDE DEF Rows
    <3>5. Cardinality(Rows(S, k, a) \cup {j}) <= MaxPerAgent[k]
      BY <3>2, <3>3, <3>4, AddBelow
    <3> QED
      BY <3>1, <3>5
  <2>2. CASE ~(k = KindOf[j] /\ a = AgentOf[j])
    <3>1. Rows(U, k, a) = Rows(S, k, a)
      BY <2>2 DEF Pool!OfKind, Pool!OfAgent
    <3> QED
      BY <3>1, FitsDefinition
  <2> QED
    BY <2>1, <2>2
<1> QED
  BY <1>3, <1>4, <1>5, FitsDefinition

-------------------------------------------------------------------------------
(* Type correctness *)

\* The variables have their types in the initial state.
LEMMA TypeInit == Init => TypeOK
BY DEF Init, TypeOK, Locations, InCall, InBlock

\* Every action keeps the types.
LEMMA TypePreserved == TypeOK /\ [Next]_vars => TypeOK'
<1> SUFFICES ASSUME TypeOK, [Next]_vars PROVE TypeOK'
  OBVIOUS
<1>1. TypeOK'
  <2> USE DEF TypeOK, Locations, InCall, InBlock, Go
  <2>1. ASSUME NEW j \in Jobs, Call(j) PROVE TypeOK'
    BY <2>1 DEF Call, StartCounting
  <2>2. ASSUME NEW j \in Jobs, CountKind(j) PROVE TypeOK'
    BY <2>2, KindsAssumption DEF CountKind, Pool!OfKind
  <2>3. ASSUME NEW j \in Jobs, SlotSeen(j) \/ SlotTaken(j) PROVE TypeOK'
    BY <2>3, SMTT(30) DEF SlotSeen, SlotTaken, StartCounting
  <2>13. ASSUME NEW j \in Jobs, WaitTimesOut(j) PROVE TypeOK'
    BY <2>13 DEF WaitTimesOut
  <2>4. ASSUME NEW j \in Jobs, AcquireMutex(j) \/ ProceedWithoutMutex(j) PROVE TypeOK'
    BY <2>4 DEF AcquireMutex, ProceedWithoutMutex
  <2>5. ASSUME NEW j \in Jobs, Admit(j) \/ Refuse(j) \/ Insert(j) PROVE TypeOK'
    BY <2>5 DEF Admit, Refuse, Insert
  <2>6. ASSUME NEW j \in Jobs, DatabaseError(j) PROVE TypeOK'
    BY <2>6 DEF DatabaseError, StartCounting
  <2>7. ASSUME NEW j \in Jobs, Leave(j) PROVE TypeOK'
    <3>1. AfterBlock(j) \in Locations
      BY <2>7 DEF Leave, AfterBlock
    <3> QED
      BY <2>7, <3>1 DEF Leave, StartCounting
  <2>8. ASSUME NEW j \in Jobs, EndJob(j) \/ CancelRow(j) \/ DeadlinePasses(j) PROVE TypeOK'
    BY <2>8 DEF EndJob, CancelRow, DeadlinePasses
  <2>9. ASSUME NEW a \in Agents, FailOrphanedJobs(a) PROVE TypeOK'
    BY <2>9 DEF FailOrphanedJobs, Pool!OfAgent
  <2>10. ASSUME NEW a \in Agents, Crash(a) PROVE TypeOK'
    BY <2>10 DEF Crash
  <2>11. CASE ExpireMutex
    BY <2>11 DEF ExpireMutex
  <2>12. CASE UNCHANGED vars
    BY <2>12 DEF vars
  <2> QED
    BY <2>1, <2>2, <2>3, <2>4, <2>5, <2>6, <2>7, <2>8, <2>9, <2>10, <2>11, <2>12, <2>13 DEF Next, Step
<1> QED
  BY <1>1

\* Every variable keeps its type, and no caller carries counts from one
\* can_start_job into the next.
THEOREM TypeCorrect == Spec => []TypeOK
BY TypeInit, TypePreserved, PTL DEF Spec

-------------------------------------------------------------------------------
(* The limits *)

\* A step that adds no covered row keeps the counts and the room of the owner
\* of the mutex, unless it moves the owner itself.
LEMMA Frame ==
  ASSUME AdmissionInv, TypeOK', covered' \subseteq covered,
         \A m \in Jobs : mutex' = m =>
           \/ pc'[m] \notin {"checking", "inserting"}
           \/ /\ mutex = m /\ pc'[m] = pc[m]
              /\ counted'[m] = counted[m] /\ seen'[m] = seen[m]
  PROVE  CountsCover' /\ RoomLeft' /\ CoveredWithinLimits'
<1>1. \A X \in SUBSET Jobs : IsFiniteSet(X)
  BY JobsAssumption, FS_Subset
<1>2. covered \in SUBSET Jobs /\ Pool!Fits(covered)
  BY DEF AdmissionInv, TypeOK, CoveredWithinLimits
<1>3. Pool!Fits(covered')
  BY <1>1, <1>2, FitsSubset
<1>4. CoveredWithinLimits'
  BY <1>3, PoolCardinality DEF CoveredWithinLimits, Pool!Fits, Pool!OfKind, Pool!OfAgent
<1>5. CountsCover'
  BY DEF AdmissionInv, CountsCover, Pool!OfKind
<1>6. RoomLeft'
  <2> SUFFICES ASSUME NEW m \in Jobs, mutex' = m, pc'[m] = "inserting"
               PROVE  Pool!Fits(covered \cup {m})'
    BY DEF RoomLeft
  <2>1. Pool!Fits(covered \cup {m})
    BY DEF AdmissionInv, RoomLeft
  <2>2. covered' \cup {m} \subseteq covered \cup {m} /\ covered \cup {m} \in SUBSET Jobs
    BY <1>2
  <2>3. Pool!Fits(covered' \cup {m})
    BY <1>1, <2>1, <2>2, FitsSubset
  <2> QED
    BY <2>3 DEF Pool!Fits, Pool!OfKind, Pool!OfAgent
<1> QED
  BY <1>4, <1>5, <1>6

\* At first nobody owns the mutex and no row is covered.
LEMMA AdmissionInit == Init => AdmissionInv
<1> SUFFICES ASSUME Init PROVE AdmissionInv
  OBVIOUS
<1>1. Pool!Fits({})
  <2>1. \A k \in Kinds : Pool!OfKind({}, k) = {}
    BY DEF Pool!OfKind
  <2>2. \A a \in Agents : Pool!OfAgent({}, a) = {}
    BY DEF Pool!OfAgent
  <2>3. Cardinality({}) = 0
    BY FS_EmptySet
  <2>4. /\ MaxTotal >= 0
        /\ \A k \in Kinds : MaxKind[k] >= 0 /\ MaxPerAgent[k] >= 0
    BY LimitsAssumption
  <2> QED
    BY <2>1, <2>2, <2>3, <2>4, FitsDefinition
<1> QED
  BY <1>1, TypeInit, JobsAssumption
     DEF Init, AdmissionInv, MutexHeldInside, CountsCover, RoomLeft, CoveredWithinLimits

\* One step per action; most of them are covered by Frame.
LEMMA AdmissionPreserved == AdmissionInv /\ [Next]_vars => AdmissionInv'
<1> SUFFICES ASSUME AdmissionInv, [Next]_vars PROVE AdmissionInv'
  OBVIOUS
<1>0. TypeOK /\ TypeOK'
  BY TypePreserved DEF AdmissionInv
<1>a. MutexHeldInside /\ CountsCover /\ RoomLeft /\ CoveredWithinLimits
  BY DEF AdmissionInv
<1> DEFINE Unmoved == \A m \in Jobs : mutex' = m =>
             \/ pc'[m] \notin {"checking", "inserting"}
             \/ /\ mutex = m /\ pc'[m] = pc[m]
                /\ counted'[m] = counted[m] /\ seen'[m] = seen[m]
<1>b. ASSUME covered' \subseteq covered, Unmoved, MutexHeldInside'
      PROVE  AdmissionInv'
  BY <1>0, <1>b, Frame DEF AdmissionInv
<1>1. ASSUME NEW j \in Jobs, Call(j) PROVE AdmissionInv'
  <2>1. covered' \subseteq covered /\ Unmoved /\ MutexHeldInside'
    BY <1>0, <1>1, <1>a DEF Call, Go, StartCounting, TypeOK, MutexHeldInside, InBlock
  <2> QED
    BY <1>b, <2>1
<1>2. ASSUME NEW j \in Jobs, CountKind(j) PROVE AdmissionInv'
  <2>1. MutexHeldInside'
    BY <1>0, <1>2, <1>a DEF CountKind, TypeOK, MutexHeldInside
  <2>2. CASE mutex # j
    <3>1. covered' \subseteq covered /\ Unmoved
      BY <1>0, <1>2, <2>2 DEF CountKind, TypeOK
    <3> QED
      BY <1>b, <2>1, <3>1
  <2>3. CASE mutex = j
    <3>1. CountsCover'
      <4> SUFFICES ASSUME NEW m \in Jobs, mutex' = m, pc'[m] = "checking",
                          NEW i \in 1..counted'[m]
                   PROVE  Pool!OfKind(covered, KindOrder[i])' \subseteq seen'[m]
        BY DEF CountsCover, Pool!OfKind
      <4>1. m = j /\ pc[j] = "checking" /\ covered' = covered
        BY <1>2, <2>3 DEF CountKind
      <4>2. /\ counted'[j] = counted[j] + 1 /\ counted[j] \in Nat
            /\ seen'[j] = seen[j] \cup Pool!OfKind(running, KindOrder[counted[j] + 1])
        BY <1>0, <1>2 DEF CountKind, TypeOK
      <4>3. CASE i \in 1..counted[j]
        <5>1. Pool!OfKind(covered, KindOrder[i]) \subseteq seen[j]
          BY <1>a, <2>3, <4>1, <4>3 DEF CountsCover
        <5> QED
          BY <4>1, <4>2, <5>1 DEF Pool!OfKind
      <4>4. CASE i = counted[j] + 1
        BY <1>0, <4>1, <4>2, <4>4 DEF Pool!OfKind, TypeOK
      <4> QED
        BY <4>1, <4>2, <4>3, <4>4
    <3>2. RoomLeft'
      BY <1>2, <2>3 DEF RoomLeft, CountKind
    <3>3. CoveredWithinLimits'
      BY <1>2, <1>a DEF CountKind, CoveredWithinLimits, Pool!Fits, Pool!OfKind, Pool!OfAgent
    <3> QED
      BY <1>0, <2>1, <3>1, <3>2, <3>3 DEF AdmissionInv
  <2> QED
    BY <2>2, <2>3
<1>3. ASSUME NEW j \in Jobs, SlotSeen(j) PROVE AdmissionInv'
  <2>1. covered' \subseteq covered /\ Unmoved /\ MutexHeldInside'
    BY <1>0, <1>3, <1>a DEF SlotSeen, Go, StartCounting, TypeOK, MutexHeldInside, InBlock
  <2> QED
    BY <1>b, <2>1
<1>4. ASSUME NEW j \in Jobs, SlotTaken(j) PROVE AdmissionInv'
  <2>1. covered' \subseteq covered /\ Unmoved /\ MutexHeldInside'
    BY <1>0, <1>4, <1>a DEF SlotTaken, StartCounting, TypeOK, MutexHeldInside, InBlock
  <2> QED
    BY <1>b, <2>1
<1>5. ASSUME NEW j \in Jobs, WaitTimesOut(j) PROVE AdmissionInv'
  <2>1. covered' \subseteq covered /\ Unmoved /\ MutexHeldInside'
    BY <1>0, <1>5, <1>a DEF WaitTimesOut, Go, TypeOK, MutexHeldInside, InBlock
  <2> QED
    BY <1>b, <2>1
<1>6. ASSUME NEW j \in Jobs, AcquireMutex(j) PROVE AdmissionInv'
  <2>1. MutexHeldInside'
    BY <1>0, <1>6 DEF AcquireMutex, Go, TypeOK, MutexHeldInside, InBlock
  <2>2. CountsCover'
    <3>1. mutex' = j /\ counted'[j] = 0
      BY <1>0, <1>6 DEF AcquireMutex, TypeOK
    <3> QED
      BY <3>1 DEF CountsCover
  <2>3. RoomLeft'
    BY <1>0, <1>6 DEF RoomLeft, AcquireMutex, Go, TypeOK
  <2>4. CoveredWithinLimits'
    BY <1>6, <1>a DEF AcquireMutex, CoveredWithinLimits, Pool!Fits, Pool!OfKind, Pool!OfAgent
  <2> QED
    BY <1>0, <2>1, <2>2, <2>3, <2>4 DEF AdmissionInv
<1>7. ASSUME NEW j \in Jobs, ProceedWithoutMutex(j) PROVE AdmissionInv'
  <2>1. covered' \subseteq covered /\ Unmoved /\ MutexHeldInside'
    BY <1>0, <1>7, <1>a, JobsAssumption
       DEF ProceedWithoutMutex, Go, TypeOK, MutexHeldInside, InBlock
  <2> QED
    BY <1>b, <2>1
<1>8. ASSUME NEW j \in Jobs, Admit(j) PROVE AdmissionInv'
  <2>1. MutexHeldInside'
    BY <1>0, <1>8, <1>a DEF Admit, Go, TypeOK, MutexHeldInside, InBlock
  <2>2. CASE mutex # j
    <3>1. covered' \subseteq covered /\ Unmoved
      BY <1>0, <1>8, <2>2 DEF Admit, Go, TypeOK
    <3> QED
      BY <1>b, <2>1, <3>1
  <2>3. CASE mutex = j
    <3>1. pc'[j] = "inserting" /\ mutex' = j /\ covered' = covered
      BY <1>0, <1>8, <2>3 DEF Admit, Go, TypeOK
    <3>2. covered \subseteq seen[j]
      <4> SUFFICES ASSUME NEW x \in covered PROVE x \in seen[j]
        OBVIOUS
      <4>1. x \in Jobs /\ KindOf[x] \in Kinds
        BY <1>0, KindsAssumption DEF TypeOK
      <4>2. PICK i \in 1..Len(KindOrder) : KindOf[x] = KindOrder[i]
        BY <4>1 DEF Kinds
      <4>3. Pool!OfKind(covered, KindOrder[i]) \subseteq seen[j]
        BY <1>8, <1>a, <2>3 DEF Admit, CountsDone, CountsCover
      <4> QED
        BY <4>2, <4>3 DEF Pool!OfKind
    <3>3. Pool!Fits(covered \cup {j})
      BY <1>0, <1>8, <1>a, <3>2, FitsAdd DEF Admit, CanStart, TypeOK, CoveredWithinLimits
    <3>4. RoomLeft'
      BY <3>1, <3>3 DEF RoomLeft, Pool!Fits, Pool!OfKind, Pool!OfAgent
    <3>5. CountsCover'
      BY <3>1 DEF CountsCover
    <3>6. CoveredWithinLimits'
      BY <3>1, <1>a DEF CoveredWithinLimits, Pool!Fits, Pool!OfKind, Pool!OfAgent
    <3> QED
      BY <1>0, <2>1, <3>4, <3>5, <3>6 DEF AdmissionInv
  <2> QED
    BY <2>2, <2>3
<1>9. ASSUME NEW j \in Jobs, Refuse(j) PROVE AdmissionInv'
  <2>1. covered' \subseteq covered /\ Unmoved /\ MutexHeldInside'
    BY <1>0, <1>9, <1>a DEF Refuse, Go, TypeOK, MutexHeldInside, InBlock
  <2> QED
    BY <1>b, <2>1
<1>10. ASSUME NEW j \in Jobs, Insert(j) PROVE AdmissionInv'
  <2>1. MutexHeldInside'
    BY <1>0, <1>10, <1>a DEF Insert, Go, TypeOK, MutexHeldInside, InBlock
  <2>2. CASE mutex # j
    <3>1. covered' \subseteq covered /\ Unmoved
      BY <1>0, <1>10, <2>2 DEF Insert, Go, TypeOK
    <3> QED
      BY <1>b, <2>1, <3>1
  <2>3. CASE mutex = j
    <3>1. pc'[j] = "admitted" /\ mutex' = j /\ covered' = covered \cup {j}
      BY <1>0, <1>10, <2>3 DEF Insert, Go, TypeOK
    <3>2. Pool!Fits(covered \cup {j})
      BY <1>10, <1>a, <2>3 DEF Insert, RoomLeft
    <3>3. CoveredWithinLimits'
      BY <3>1, <3>2 DEF CoveredWithinLimits, Pool!Fits, Pool!OfKind, Pool!OfAgent
    <3>4. CountsCover' /\ RoomLeft'
      BY <3>1 DEF CountsCover, RoomLeft
    <3> QED
      BY <1>0, <2>1, <3>3, <3>4 DEF AdmissionInv
  <2> QED
    BY <2>2, <2>3
<1>11. ASSUME NEW j \in Jobs, DatabaseError(j) PROVE AdmissionInv'
  <2>1. covered' \subseteq covered /\ Unmoved /\ MutexHeldInside'
    BY <1>0, <1>11, <1>a DEF DatabaseError, Go, StartCounting, TypeOK, MutexHeldInside, InBlock
  <2> QED
    BY <1>b, <2>1
<1>12. ASSUME NEW j \in Jobs, Leave(j) PROVE AdmissionInv'
  <2>1. covered' \subseteq covered /\ Unmoved /\ MutexHeldInside'
    BY <1>0, <1>12, <1>a, JobsAssumption
       DEF Leave, Go, StartCounting, TypeOK, MutexHeldInside, InBlock
  <2> QED
    BY <1>b, <2>1
<1>13. ASSUME NEW j \in Jobs, EndJob(j) PROVE AdmissionInv'
  <2>1. covered' \subseteq covered /\ Unmoved /\ MutexHeldInside'
    BY <1>0, <1>13, <1>a DEF EndJob, Go, TypeOK, MutexHeldInside, InBlock
  <2> QED
    BY <1>b, <2>1
<1>14. ASSUME NEW j \in Jobs, CancelRow(j) \/ DeadlinePasses(j) PROVE AdmissionInv'
  <2>1. covered' \subseteq covered /\ Unmoved /\ MutexHeldInside'
    BY <1>14, <1>a DEF CancelRow, DeadlinePasses, MutexHeldInside
  <2> QED
    BY <1>b, <2>1
<1>15. ASSUME NEW a \in Agents, FailOrphanedJobs(a) PROVE AdmissionInv'
  <2>1. covered' \subseteq covered /\ Unmoved /\ MutexHeldInside'
    BY <1>15, <1>a DEF FailOrphanedJobs, MutexHeldInside
  <2> QED
    BY <1>b, <2>1
<1>16. ASSUME NEW a \in Agents, Crash(a) PROVE AdmissionInv'
  <2>1. covered' \subseteq covered /\ Unmoved /\ MutexHeldInside'
    BY <1>0, <1>16, <1>a, JobsAssumption DEF Crash, TypeOK, MutexHeldInside, InBlock
  <2> QED
    BY <1>b, <2>1
<1>17. CASE ExpireMutex
  <2>1. covered' \subseteq covered /\ Unmoved /\ MutexHeldInside'
    BY <1>17, JobsAssumption DEF ExpireMutex, MutexHeldInside
  <2> QED
    BY <1>b, <2>1
<1>18. CASE UNCHANGED vars
  <2>1. covered' \subseteq covered /\ Unmoved /\ MutexHeldInside'
    BY <1>18, <1>a DEF vars, MutexHeldInside
  <2> QED
    BY <1>b, <2>1
<1> QED
  BY <1>1, <1>2, <1>3, <1>4, <1>5, <1>6, <1>7, <1>8, <1>9, <1>10, <1>11, <1>12,
     <1>13, <1>14, <1>15, <1>16, <1>17, <1>18 DEF Next, Step

\* The rows inserted under the mutex stay within every limit, for any faults.
THEOREM CoveredSafe == Spec => []CoveredWithinLimits
<1>1. AdmissionInv => CoveredWithinLimits
  BY DEF AdmissionInv
<1> QED
  BY <1>1, AdmissionInit, AdmissionPreserved, PTL DEF Spec

\* No step takes the mutex from its owner inside the block, except the TTL.
THEOREM OwnerSafe == Spec => MutexNotStolen
<1>1. TypeOK /\ [Next]_vars =>
        [\A j \in Jobs : mutex = j /\ mutex' # j => pc'[j] \notin InBlock \/ pc' = pc]_vars
  <2> SUFFICES ASSUME TypeOK, [Next]_vars, NEW j \in Jobs, mutex = j, mutex' # j, pc' # pc
               PROVE  pc'[j] \notin InBlock
    OBVIOUS
  <2>0. mutex # Free /\ mutex # Stray
    BY JobsAssumption
  <2>1. ASSUME NEW i \in Jobs, Leave(i) PROVE pc'[j] \notin InBlock
    <3>1. i = j
      BY <2>1 DEF Leave
    <3>2. AfterBlock(j) \in {"working", "idle", "polling"}
      BY <2>1, <3>1 DEF Leave, AfterBlock
    <3> QED
      BY <2>1, <3>1, <3>2 DEF Leave, Go, TypeOK, InBlock
  <2>2. ASSUME NEW a \in Agents, Crash(a) PROVE pc'[j] \notin InBlock
    BY <2>2 DEF Crash, InBlock
  <2> QED
    BY <2>0, <2>1, <2>2
       DEF Next, Step, Call, CountKind, SlotSeen, SlotTaken, WaitTimesOut, AcquireMutex,
           ProceedWithoutMutex, Admit, Refuse, Insert, DatabaseError, EndJob, CancelRow,
           DeadlinePasses, FailOrphanedJobs, ExpireMutex, vars
<1> QED
  BY <1>1, TypeCorrect, PTL DEF Spec, MutexNotStolen

-------------------------------------------------------------------------------
(* A mutex that is neither missed nor lost *)

\* At first nobody is in the block and there is no row.
LEMMA ReliableInit == Init => ReliableInv
BY DEF Init, ReliableInv, InBlock

\* As long as the mutex is reliable every action keeps ReliableInv: the SET that
\* opens the block makes its caller the owner, and the block ends with the release.
LEMMA ReliablePreserved ==
  ASSUME MutexReliable, TypeOK, ReliableInv, MutexHeldInside, [Next]_vars
  PROVE  ReliableInv'
<1> USE DEF ReliableInv, TypeOK, InBlock, InCall
<1>0. "redis" \notin Faults /\ "timeout" \notin Faults /\ "expiry" \notin Faults
  BY DEF MutexReliable
<1>1. ASSUME NEW j \in Jobs, Call(j) PROVE ReliableInv'
  BY <1>1 DEF Call, Go, StartCounting
<1>2. ASSUME NEW j \in Jobs, CountKind(j) PROVE ReliableInv'
  BY <1>2 DEF CountKind
<1>3. ASSUME NEW j \in Jobs, SlotSeen(j) \/ SlotTaken(j) PROVE ReliableInv'
  BY <1>3 DEF SlotSeen, SlotTaken, Go, StartCounting
<1>4. ASSUME NEW j \in Jobs, WaitTimesOut(j) PROVE ReliableInv'
  BY <1>4 DEF WaitTimesOut, Go
<1>5. ASSUME NEW j \in Jobs, AcquireMutex(j) PROVE ReliableInv'
  BY <1>5, JobsAssumption DEF AcquireMutex, Go
<1>6. ASSUME NEW j \in Jobs, ProceedWithoutMutex(j) PROVE ReliableInv'
  BY <1>0, <1>6 DEF ProceedWithoutMutex
<1>7. ASSUME NEW j \in Jobs, Admit(j) \/ Refuse(j) PROVE ReliableInv'
  BY <1>7 DEF Admit, Refuse, Go
<1>8. ASSUME NEW j \in Jobs, Insert(j) PROVE ReliableInv'
  BY <1>8 DEF Insert, Go
<1>9. ASSUME NEW j \in Jobs, DatabaseError(j) PROVE ReliableInv'
  BY <1>9 DEF DatabaseError, Go, StartCounting
<1>10. ASSUME NEW j \in Jobs, Leave(j) PROVE ReliableInv'
  <2>1. mutex = j /\ mutex' = Free /\ covered' = covered /\ running' = running
    BY <1>0, <1>10 DEF Leave
  <2>2. pc' = [pc EXCEPT ![j] = AfterBlock(j)]
    BY <1>10 DEF Leave, Go
  <2>3. /\ AfterBlock(j) \in {"working", "idle", "polling"}
        /\ AfterBlock(j) = "polling" => pc[j] = "refused"
    BY <1>10 DEF Leave, AfterBlock
  <2> QED
    BY <2>1, <2>2, <2>3
<1>11. ASSUME NEW j \in Jobs, EndJob(j) PROVE ReliableInv'
  BY <1>11 DEF EndJob, Go
<1>12. ASSUME NEW j \in Jobs, CancelRow(j) \/ DeadlinePasses(j) PROVE ReliableInv'
  BY <1>12 DEF CancelRow, DeadlinePasses
<1>13. ASSUME NEW a \in Agents, FailOrphanedJobs(a) PROVE ReliableInv'
  BY <1>13 DEF FailOrphanedJobs, Pool!OfAgent
<1>14. ASSUME NEW a \in Agents, Crash(a) PROVE ReliableInv'
  BY <1>14 DEF Crash
<1>15. CASE ExpireMutex
  BY <1>0, <1>15, JobsAssumption DEF ExpireMutex
<1>16. CASE UNCHANGED vars
  BY <1>16 DEF vars
<1> QED
  BY <1>1, <1>2, <1>3, <1>4, <1>5, <1>6, <1>7, <1>8, <1>9, <1>10, <1>11, <1>12,
     <1>13, <1>14, <1>15, <1>16 DEF Next, Step

\* With a reliable mutex the running rows never exceed a limit.
THEOREM LimitsSafe ==
  ASSUME MutexReliable
  PROVE  Spec => []WithinLimits
<1> DEFINE Inv == AdmissionInv /\ ReliableInv
<1>1. Init => Inv
  BY AdmissionInit, ReliableInit
<1>2. Inv /\ [Next]_vars => Inv'
  BY AdmissionPreserved, ReliablePreserved DEF AdmissionInv
<1>3. Inv => WithinLimits
  BY DEF AdmissionInv, ReliableInv, CoveredWithinLimits, WithinLimits
<1> QED
  BY <1>1, <1>2, <1>3, PTL DEF Spec

\* With a reliable mutex admission implements the pool of slots: the check and
\* the insert are one atomic step.
THEOREM AdmissionImplementsPool ==
  ASSUME MutexReliable
  PROVE  Spec => ImplementsSlotPool
<1> DEFINE Inv == AdmissionInv /\ ReliableInv
<1>1. Init => Inv
  BY AdmissionInit, ReliableInit
<1>2. Inv /\ [Next]_vars => Inv'
  BY AdmissionPreserved, ReliablePreserved DEF AdmissionInv
<1>3. Init => Pool!Init
  BY DEF Init, Pool!Init
<1>4. Inv /\ [Next]_vars => [Pool!Next]_running
  <2> SUFFICES ASSUME AdmissionInv, ReliableInv, [Next]_vars,
                      running' # running
               PROVE  Pool!Next
    OBVIOUS
  <2>1. ASSUME NEW j \in Jobs, Insert(j) PROVE Pool!Next
    <3>1. mutex = j /\ covered = running /\ j \notin running
      BY <2>1 DEF ReliableInv, Insert, InBlock, InCall
    <3>2. Pool!Fits(running \cup {j})
      BY <2>1, <3>1 DEF AdmissionInv, RoomLeft, Insert
    <3>3. Pool!Admit(j)
      BY <2>1, <3>1, <3>2 DEF Insert, Pool!Admit
    <3> QED
      BY <3>3 DEF Pool!Next
  <2>2. ASSUME NEW S \in SUBSET running, running' = running \ S PROVE Pool!Next
    BY <2>2 DEF Pool!Next, Pool!Vacate
  <2>3. ASSUME NEW j \in Jobs, EndJob(j) \/ CancelRow(j) PROVE Pool!Next
    <3>1. running' = running \ (running \cap {j})
      BY <2>3 DEF EndJob, CancelRow
    <3> QED
      BY <2>2, <3>1
  <2>4. ASSUME NEW a \in Agents, FailOrphanedJobs(a) PROVE Pool!Next
    BY <2>2, <2>4 DEF FailOrphanedJobs, Pool!OfAgent
  <2> QED
    BY <2>1, <2>3, <2>4
       DEF Next, Step, Call, CountKind, SlotSeen, SlotTaken, WaitTimesOut, AcquireMutex,
           ProceedWithoutMutex, Admit, Refuse, Leave, DatabaseError, DeadlinePasses,
           Crash, ExpireMutex, vars
<1> QED
  BY <1>1, <1>2, <1>3, <1>4, PTL DEF Spec, Pool!Spec, ImplementsSlotPool

-------------------------------------------------------------------------------
(* RequestPacing *)

\* PacingTypeOK in parts: the times, the threads, the token, the history.
TimeTypes == now \in 0..MaxTime /\ nextAllowed \in Nat

ThreadTypes ==
  /\ ppc \in [Threads -> PacingPlaces] /\ wake \in [Threads -> Nat]
  /\ attempt \in [Threads -> 0..MaxRetries] /\ calls \in [Threads -> 0..MaxCalls]
  /\ outcome \in [Threads -> {"none", "answered", "raised"}]

TokenTypes ==
  /\ token \in [usable : Nat, dies : Nat]
  /\ issued = None \/ issued \in [at : 0..MaxTime, life : Lifetimes]
  /\ login \in Threads \cup {None} /\ \A t \in Threads : ppc[t] = "login" <=> login = t

HistoryTypes == slots \subseteq Nat /\ sent \in Nat /\ logins \in Nat /\ dead \in BOOLEAN /\ shortLived \in BOOLEAN

\* The threads that have reserved a slot and not yet sent the request for it.
Holding == {"sleeping", "token", "login", "sending"}
Holders == {t \in Threads : ppc[t] \in Holding}

\* Those of them that may still log in for it.
Waiting == {"sleeping", "token"}
Waiters == {t \in Threads : ppc[t] \in Waiting}

\* The slots are apart, and the next one is behind them all.
SlotsApart ==
  /\ \A s \in slots : s + Interval <= nextAllowed
  /\ \A s, u \in slots : s < u => u - s >= Interval

\* There are as many slots as are used or held.
SlotsUsed == IsFiniteSet(slots) /\ sent + Cardinality(Holders) <= Cardinality(slots)

\* A slot is followed by one login at most.
LoginsUsed == logins + Cardinality(Waiters) <= Cardinality(slots)

\* Somebody sleeps for each slot to come.
SlotsAhead == \A s \in slots : s > now => \E t \in Threads : ppc[t] = "sleeping" /\ wake[t] = s

\* A token is not used longer than it lives, unless it is short-lived.
TokenInTime ==
  /\ ~shortLived => token.usable <= token.dies
  /\ TokenAlive

PacingInv == PacingTypeOK /\ SlotsApart /\ SlotsUsed /\ LoginsUsed /\ SlotsAhead /\ TokenInTime
-------------------------------------------------------------------------------
\* A step keeps the types of the times.
LEMMA TimesPreserved ==
  ASSUME PacingConstants, TimeTypes, [PacingNext]_pacingVars
  PROVE  TimeTypes'
<1>1. CASE UNCHANGED pacingVars
  BY <1>1 DEF pacingVars, TimeTypes
<1>2. CASE Pass
  BY <1>2 DEF Pass, TimeTypes, PacingConstants
<1>3. ASSUME NEW t \in Threads, StartRequest(t) PROVE TimeTypes'
  BY <1>3 DEF StartRequest, TimeTypes
<1>4. ASSUME NEW t \in Threads, Reserve(t) PROVE TimeTypes'
  BY <1>4 DEF Reserve, Later, TimeTypes, PacingConstants
<1>5. ASSUME NEW t \in Threads, WakeUp(t) PROVE TimeTypes'
  BY <1>5 DEF WakeUp, TimeTypes
<1>6. ASSUME NEW t \in Threads, TryAgain(t) PROVE TimeTypes'
  BY <1>6 DEF TryAgain, TimeTypes
<1>7. ASSUME NEW t \in Threads, TakeToken(t) PROVE TimeTypes'
  BY <1>7 DEF TakeToken, TimeTypes
<1>8. ASSUME NEW t \in Threads, Issue(t) PROVE TimeTypes'
  BY <1>8 DEF Issue, TimeTypes
<1>9. ASSUME NEW t \in Threads, LoggedIn(t) PROVE TimeTypes'
  BY <1>9 DEF LoggedIn, TimeTypes
<1>10. ASSUME NEW t \in Threads, LoginFails(t) PROVE TimeTypes'
  BY <1>10 DEF LoginFails, TimeTypes
<1>11. ASSUME NEW t \in Threads, Answered(t) PROVE TimeTypes'
  BY <1>11 DEF Answered, TimeTypes
<1>12. ASSUME NEW t \in Threads, Failed(t) PROVE TimeTypes'
  BY <1>12 DEF Failed, TimeTypes
<1> QED
  BY <1>1, <1>2, <1>3, <1>4, <1>5, <1>6, <1>7, <1>8, <1>9, <1>10, <1>11, <1>12 DEF PacingNext

\* A step keeps the types of the threads.
LEMMA ThreadsPreserved ==
  ASSUME PacingConstants, TimeTypes, ThreadTypes, [PacingNext]_pacingVars
  PROVE  ThreadTypes'
<1>1. CASE UNCHANGED pacingVars
  BY <1>1 DEF pacingVars, ThreadTypes
<1>2. CASE Pass
  BY <1>2 DEF Pass, ThreadTypes
<1>3. ASSUME NEW t \in Threads, StartRequest(t) PROVE ThreadTypes'
  BY <1>3 DEF StartRequest, At, ThreadTypes, PacingPlaces, PacingConstants
<1>4. ASSUME NEW t \in Threads, Reserve(t) PROVE ThreadTypes'
  BY <1>4 DEF Reserve, At, Later, TimeTypes, ThreadTypes, PacingPlaces
<1>5. ASSUME NEW t \in Threads, WakeUp(t) PROVE ThreadTypes'
  BY <1>5 DEF WakeUp, At, ThreadTypes, PacingPlaces
<1>6. ASSUME NEW t \in Threads, TryAgain(t) PROVE ThreadTypes'
  BY <1>6 DEF TryAgain, At, ThreadTypes, PacingPlaces
<1>7. ASSUME NEW t \in Threads, TakeToken(t) PROVE ThreadTypes'
  BY <1>7 DEF TakeToken, At, ThreadTypes, PacingPlaces
<1>8. ASSUME NEW t \in Threads, Issue(t) PROVE ThreadTypes'
  BY <1>8 DEF Issue, ThreadTypes
<1>9. ASSUME NEW t \in Threads, LoggedIn(t) PROVE ThreadTypes'
  BY <1>9 DEF LoggedIn, At, ThreadTypes, PacingPlaces
<1>10. ASSUME NEW t \in Threads, LoginFails(t) PROVE ThreadTypes'
  BY <1>10 DEF LoginFails, RetryRequest, At, EndRequest, TimeTypes, ThreadTypes, PacingPlaces, PacingConstants
<1>11. ASSUME NEW t \in Threads, Answered(t) PROVE ThreadTypes'
  BY <1>11 DEF Answered, At, EndRequest, ThreadTypes, PacingPlaces
<1>12. ASSUME NEW t \in Threads, Failed(t) PROVE ThreadTypes'
  BY <1>12 DEF Failed, RetryRequest, At, EndRequest, TimeTypes, ThreadTypes, PacingPlaces, PacingConstants
<1> QED
  BY <1>1, <1>2, <1>3, <1>4, <1>5, <1>6, <1>7, <1>8, <1>9, <1>10, <1>11, <1>12 DEF PacingNext

\* A step keeps the types of the token, and the mutex with its login.
LEMMA TokensPreserved ==
  ASSUME PacingConstants, TimeTypes, ThreadTypes, TokenTypes, [PacingNext]_pacingVars
  PROVE  TokenTypes'
<1>1. CASE UNCHANGED pacingVars
  BY <1>1 DEF pacingVars, TokenTypes
<1>2. CASE Pass
  BY <1>2 DEF Pass, TokenTypes
<1>3. ASSUME NEW t \in Threads, StartRequest(t) PROVE TokenTypes'
  BY <1>3 DEF StartRequest, At, TokenTypes
<1>4. ASSUME NEW t \in Threads, Reserve(t) PROVE TokenTypes'
  BY <1>4 DEF Reserve, At, TokenTypes
<1>5. ASSUME NEW t \in Threads, WakeUp(t) PROVE TokenTypes'
  BY <1>5 DEF WakeUp, At, TokenTypes
<1>6. ASSUME NEW t \in Threads, TryAgain(t) PROVE TokenTypes'
  BY <1>6 DEF TryAgain, At, TokenTypes
<1>7. ASSUME NEW t \in Threads, TakeToken(t) PROVE TokenTypes'
  BY <1>7 DEF TakeToken, At, ThreadTypes, TokenTypes, PacingConstants
<1>8. ASSUME NEW t \in Threads, Issue(t) PROVE TokenTypes'
  BY <1>8 DEF Issue, TimeTypes, TokenTypes
<1>9. ASSUME NEW t \in Threads, LoggedIn(t) PROVE TokenTypes'
  <2>1. issued \in [at : 0..MaxTime, life : Lifetimes]
    BY <1>9 DEF LoggedIn, TokenTypes
  <2>2. issued.at \in Nat /\ issued.life \in Nat
    <3>1. issued.at \in 0..MaxTime /\ issued.life \in Lifetimes
      BY <2>1
    <3>2. Lifetimes \subseteq Nat /\ 0..MaxTime \subseteq Nat
      BY DEF PacingConstants
    <3> QED
      BY <3>1, <3>2
  <2>3. token' \in [usable : Nat, dies : Nat]
    <3>1. Later(issued.life - Margin, Margin) \in Nat
      BY <2>2 DEF Later, PacingConstants
    <3> QED
      BY <1>9, <2>2, <3>1 DEF LoggedIn, TimeTypes
  <2>4. /\ issued' = None /\ login' \in Threads \cup {None}
        /\ \A u \in Threads : ppc'[u] = "login" <=> login' = u
    BY <1>9 DEF LoggedIn, At, ThreadTypes, TokenTypes, PacingConstants
  <2> QED
    BY <2>3, <2>4 DEF TokenTypes
<1>10. ASSUME NEW t \in Threads, LoginFails(t) PROVE TokenTypes'
  BY <1>10 DEF LoginFails, RetryRequest, At, EndRequest, ThreadTypes, TokenTypes, PacingConstants
<1>11. ASSUME NEW t \in Threads, Answered(t) PROVE TokenTypes'
  BY <1>11 DEF Answered, At, EndRequest, TokenTypes
<1>12. ASSUME NEW t \in Threads, Failed(t) PROVE TokenTypes'
  BY <1>12 DEF Failed, RetryRequest, At, EndRequest, ThreadTypes, TokenTypes
<1> QED
  BY <1>1, <1>2, <1>3, <1>4, <1>5, <1>6, <1>7, <1>8, <1>9, <1>10, <1>11, <1>12 DEF PacingNext

\* A step keeps the types of the history.
LEMMA HistoryPreserved ==
  ASSUME PacingConstants, TimeTypes, HistoryTypes, [PacingNext]_pacingVars
  PROVE  HistoryTypes'
<1>1. CASE UNCHANGED pacingVars
  BY <1>1 DEF pacingVars, HistoryTypes
<1>2. CASE Pass
  BY <1>2 DEF Pass, HistoryTypes
<1>3. ASSUME NEW t \in Threads, StartRequest(t) PROVE HistoryTypes'
  BY <1>3 DEF StartRequest, HistoryTypes
<1>4. ASSUME NEW t \in Threads, Reserve(t) PROVE HistoryTypes'
  BY <1>4 DEF Reserve, Later, TimeTypes, HistoryTypes
<1>5. ASSUME NEW t \in Threads, WakeUp(t) PROVE HistoryTypes'
  BY <1>5 DEF WakeUp, HistoryTypes
<1>6. ASSUME NEW t \in Threads, TryAgain(t) PROVE HistoryTypes'
  BY <1>6 DEF TryAgain, HistoryTypes
<1>7. ASSUME NEW t \in Threads, TakeToken(t) PROVE HistoryTypes'
  <2>1. dead' \in BOOLEAN
    BY <1>7, Zenon DEF TakeToken, HistoryTypes
  <2>2. logins' \in Nat /\ slots' = slots /\ sent' = sent /\ shortLived' = shortLived
    BY <1>7 DEF TakeToken, HistoryTypes
  <2> QED
    BY <2>1, <2>2 DEF HistoryTypes
<1>8. ASSUME NEW t \in Threads, Issue(t) PROVE HistoryTypes'
  BY <1>8 DEF Issue, HistoryTypes
<1>9. ASSUME NEW t \in Threads, LoggedIn(t) PROVE HistoryTypes'
  BY <1>9 DEF LoggedIn, HistoryTypes
<1>10. ASSUME NEW t \in Threads, LoginFails(t) PROVE HistoryTypes'
  BY <1>10 DEF LoginFails, HistoryTypes
<1>11. ASSUME NEW t \in Threads, Answered(t) PROVE HistoryTypes'
  BY <1>11 DEF Answered, HistoryTypes
<1>12. ASSUME NEW t \in Threads, Failed(t) PROVE HistoryTypes'
  BY <1>12 DEF Failed, HistoryTypes
<1> QED
  BY <1>1, <1>2, <1>3, <1>4, <1>5, <1>6, <1>7, <1>8, <1>9, <1>10, <1>11, <1>12 DEF PacingNext

\* A step keeps the slots apart: a new one is not before nextAllowed.
LEMMA ApartPreserved ==
  ASSUME PacingConstants, TimeTypes, HistoryTypes, SlotsApart, [PacingNext]_pacingVars
  PROVE  SlotsApart'
<1>1. CASE UNCHANGED pacingVars
  BY <1>1 DEF pacingVars, SlotsApart
<1>2. CASE Pass
  BY <1>2 DEF Pass, SlotsApart
<1>3. ASSUME NEW t \in Threads, StartRequest(t) PROVE SlotsApart'
  BY <1>3 DEF StartRequest, SlotsApart
<1>4. ASSUME NEW t \in Threads, Reserve(t) PROVE SlotsApart'
  BY <1>4 DEF Reserve, Later, TimeTypes, HistoryTypes, SlotsApart, PacingConstants
<1>5. ASSUME NEW t \in Threads, WakeUp(t) PROVE SlotsApart'
  BY <1>5 DEF WakeUp, SlotsApart
<1>6. ASSUME NEW t \in Threads, TryAgain(t) PROVE SlotsApart'
  BY <1>6 DEF TryAgain, SlotsApart
<1>7. ASSUME NEW t \in Threads, TakeToken(t) PROVE SlotsApart'
  BY <1>7 DEF TakeToken, SlotsApart
<1>8. ASSUME NEW t \in Threads, Issue(t) PROVE SlotsApart'
  BY <1>8 DEF Issue, SlotsApart
<1>9. ASSUME NEW t \in Threads, LoggedIn(t) PROVE SlotsApart'
  BY <1>9 DEF LoggedIn, SlotsApart
<1>10. ASSUME NEW t \in Threads, LoginFails(t) PROVE SlotsApart'
  BY <1>10 DEF LoginFails, SlotsApart
<1>11. ASSUME NEW t \in Threads, Answered(t) PROVE SlotsApart'
  BY <1>11 DEF Answered, SlotsApart
<1>12. ASSUME NEW t \in Threads, Failed(t) PROVE SlotsApart'
  BY <1>12 DEF Failed, SlotsApart
<1> QED
  BY <1>1, <1>2, <1>3, <1>4, <1>5, <1>6, <1>7, <1>8, <1>9, <1>10, <1>11, <1>12 DEF PacingNext

\* Who goes to one of some places joins the threads there, and nobody else moves.
LEMMA ThreadsCounted ==
  ASSUME PacingConstants, ThreadTypes, NEW Places, NEW t \in Threads, NEW place \in PacingPlaces, At(t, place)
  PROVE  LET Those == {u \in Threads : ppc[u] \in Places} IN
         /\ Cardinality(Those) \in Nat
         /\ Cardinality(Those') =
              Cardinality(Those) + (IF place \in Places THEN 1 ELSE 0) - (IF ppc[t] \in Places THEN 1 ELSE 0)
<1> DEFINE Those == {u \in Threads : ppc[u] \in Places}
           Then == {u \in Threads : ppc'[u] \in Places}
<1>1. IsFiniteSet(Those) /\ Cardinality(Those) \in Nat
  BY FS_Subset, FS_CardinalityType DEF PacingConstants
<1>2. ppc'[t] = place /\ \A u \in Threads \ {t} : ppc'[u] = ppc[u]
  BY DEF At, ThreadTypes
<1>3. t \in Those <=> ppc[t] \in Places
  OBVIOUS
<1>4. Cardinality(Then) =
        Cardinality(Those) + (IF place \in Places THEN 1 ELSE 0) - (IF ppc[t] \in Places THEN 1 ELSE 0)
  <2>1. CASE place \in Places
    <3>1. Then = Those \cup {t}
      BY <1>2, <2>1
    <3> HIDE DEF Those, Then
    <3> QED
      BY <1>1, <1>3, <2>1, <3>1, FS_AddElement, SMTT(30)
  <2>2. CASE place \notin Places
    <3>1. Then = Those \ {t}
      BY <1>2, <2>2
    <3> HIDE DEF Those, Then
    <3>2. Cardinality(Then) = IF t \in Those THEN Cardinality(Those) - 1 ELSE Cardinality(Those)
      BY <1>1, <3>1, FS_RemoveElement
    <3> QED
      BY <1>1, <1>3, <2>2, <3>2
  <2> QED
    BY <2>1, <2>2
<1>5. Then = Those'
  OBVIOUS
<1> QED
  BY <1>1, <1>4, <1>5

\* The holders and the waiters are as many as the threads that came less those that left.
LEMMA HoldersCounted ==
  ASSUME PacingConstants, ThreadTypes
  PROVE  /\ Cardinality(Holders) \in Nat
         /\ \A t \in Threads, place \in PacingPlaces : At(t, place) =>
              Cardinality(Holders') =
                Cardinality(Holders) + (IF place \in Holding THEN 1 ELSE 0) - (IF t \in Holders THEN 1 ELSE 0)
<1>1. Cardinality(Holders) \in Nat
  BY FS_Subset, FS_CardinalityType DEF Holders, PacingConstants
<1>2. ASSUME NEW t \in Threads, NEW place \in PacingPlaces, At(t, place)
      PROVE  Cardinality(Holders') =
               Cardinality(Holders) + (IF place \in Holding THEN 1 ELSE 0) - (IF t \in Holders THEN 1 ELSE 0)
  BY <1>2, ThreadsCounted DEF Holders
<1> QED
  BY <1>1, <1>2

LEMMA WaitersCounted ==
  ASSUME PacingConstants, ThreadTypes
  PROVE  /\ Cardinality(Waiters) \in Nat
         /\ \A t \in Threads, place \in PacingPlaces : At(t, place) =>
              Cardinality(Waiters') =
                Cardinality(Waiters) + (IF place \in Waiting THEN 1 ELSE 0) - (IF t \in Waiters THEN 1 ELSE 0)
<1>1. Cardinality(Waiters) \in Nat
  BY FS_Subset, FS_CardinalityType DEF Waiters, PacingConstants
<1>2. ASSUME NEW t \in Threads, NEW place \in PacingPlaces, At(t, place)
      PROVE  Cardinality(Waiters') =
               Cardinality(Waiters) + (IF place \in Waiting THEN 1 ELSE 0) - (IF t \in Waiters THEN 1 ELSE 0)
  BY <1>2, ThreadsCounted DEF Waiters
<1> QED
  BY <1>1, <1>2

\* The slots are counted by a natural number.
LEMMA SlotsCounted == ASSUME SlotsUsed PROVE Cardinality(slots) \in Nat
BY FS_CardinalityType DEF SlotsUsed

\* A step keeps count: who reserves a slot holds it, who sends gives it up.
LEMMA UsedPreserved ==
  ASSUME PacingConstants, TimeTypes, ThreadTypes, HistoryTypes, SlotsApart, SlotsUsed, [PacingNext]_pacingVars
  PROVE  SlotsUsed'
<1>1. CASE UNCHANGED pacingVars
  BY <1>1 DEF pacingVars, SlotsUsed, Holders
<1>2. CASE Pass
  BY <1>2 DEF Pass, SlotsUsed, Holders
<1>3. ASSUME NEW t \in Threads, StartRequest(t) PROVE SlotsUsed'
  BY <1>3 DEF StartRequest, At, SlotsUsed, Holders, Holding
<1>4. ASSUME NEW t \in Threads, Reserve(t) PROVE SlotsUsed'
  <2>1. slots' = slots \cup {Later(now, nextAllowed)}
    BY <1>4 DEF Reserve
  <2>2. Later(now, nextAllowed) \notin slots
    BY DEF Later, SlotsApart, TimeTypes, HistoryTypes, PacingConstants
  <2>3. Cardinality(slots') = Cardinality(slots) + 1 /\ IsFiniteSet(slots')
    BY <2>1, <2>2, FS_AddElement DEF SlotsUsed
  <2>4. t \notin Holders /\ At(t, "sleeping") /\ sent' = sent
    BY <1>4 DEF Reserve, Holders, Holding
  <2>5. Cardinality(Holders') = Cardinality(Holders) + 1
    BY <2>4, HoldersCounted DEF PacingPlaces, Holding
  <2> QED
    BY <2>3, <2>4, <2>5, HoldersCounted, SlotsCounted DEF SlotsUsed, HistoryTypes
<1>5. ASSUME NEW t \in Threads, WakeUp(t) PROVE SlotsUsed'
  BY <1>5 DEF WakeUp, At, SlotsUsed, Holders, Holding
<1>6. ASSUME NEW t \in Threads, TryAgain(t) PROVE SlotsUsed'
  BY <1>6 DEF TryAgain, At, SlotsUsed, Holders, Holding
<1>7. ASSUME NEW t \in Threads, TakeToken(t) PROVE SlotsUsed'
  <2>1. t \in Holders /\ \E place \in {"sending", "login"} : At(t, place)
    BY <1>7 DEF TakeToken, Holders, Holding
  <2>2. Cardinality(Holders') = Cardinality(Holders)
    BY <2>1, HoldersCounted DEF PacingPlaces, Holding
  <2> QED
    BY <1>7, <2>2 DEF TakeToken, SlotsUsed
<1>8. ASSUME NEW t \in Threads, Issue(t) PROVE SlotsUsed'
  BY <1>8 DEF Issue, SlotsUsed, Holders
<1>9. ASSUME NEW t \in Threads, LoggedIn(t) PROVE SlotsUsed'
  BY <1>9 DEF LoggedIn, At, SlotsUsed, Holders, Holding
<1>10. ASSUME NEW t \in Threads, LoginFails(t) PROVE SlotsUsed'
  <2>1. t \in Holders /\ \E place \in {"backoff", "idle"} : At(t, place)
    BY <1>10 DEF LoginFails, RetryRequest, EndRequest, Holders, Holding
  <2>2. Cardinality(Holders') = Cardinality(Holders) - 1
    BY <2>1, HoldersCounted DEF PacingPlaces, Holding
  <2> QED
    BY <1>10, <2>2, HoldersCounted, SlotsCounted DEF LoginFails, SlotsUsed, HistoryTypes
<1>11. ASSUME NEW t \in Threads, Answered(t) PROVE SlotsUsed'
  <2>1. t \in Holders /\ At(t, "idle")
    BY <1>11 DEF Answered, EndRequest, Holders, Holding
  <2>2. Cardinality(Holders') = Cardinality(Holders) - 1
    BY <2>1, HoldersCounted DEF PacingPlaces, Holding
  <2> QED
    BY <1>11, <2>2, HoldersCounted, SlotsCounted DEF Answered, SlotsUsed, HistoryTypes
<1>12. ASSUME NEW t \in Threads, Failed(t) PROVE SlotsUsed'
  <2>1. t \in Holders /\ \E place \in {"backoff", "idle"} : At(t, place)
    BY <1>12 DEF Failed, RetryRequest, EndRequest, Holders, Holding
  <2>2. Cardinality(Holders') = Cardinality(Holders) - 1
    BY <2>1, HoldersCounted DEF PacingPlaces, Holding
  <2> QED
    BY <1>12, <2>2, HoldersCounted, SlotsCounted DEF Failed, SlotsUsed, HistoryTypes
<1> QED
  BY <1>1, <1>2, <1>3, <1>4, <1>5, <1>6, <1>7, <1>8, <1>9, <1>10, <1>11, <1>12 DEF PacingNext

\* A step keeps LoginsUsed: a login takes a waiter away, and only a slot brings one.
LEMMA LoginsPreserved ==
  ASSUME PacingConstants, TimeTypes, ThreadTypes, HistoryTypes, SlotsApart, SlotsUsed, LoginsUsed,
         [PacingNext]_pacingVars
  PROVE  LoginsUsed'
<1>0. Cardinality(Waiters) \in Nat /\ Cardinality(slots) \in Nat /\ logins \in Nat
  BY WaitersCounted, SlotsCounted DEF HistoryTypes
<1>1. CASE UNCHANGED pacingVars
  BY <1>1 DEF pacingVars, LoginsUsed, Waiters
<1>2. CASE Pass
  BY <1>2 DEF Pass, LoginsUsed, Waiters
<1>3. ASSUME NEW t \in Threads, StartRequest(t) PROVE LoginsUsed'
  BY <1>3 DEF StartRequest, At, LoginsUsed, Waiters, Waiting
<1>4. ASSUME NEW t \in Threads, Reserve(t) PROVE LoginsUsed'
  <2>1. slots' = slots \cup {Later(now, nextAllowed)} /\ Later(now, nextAllowed) \notin slots
    BY <1>4 DEF Reserve, Later, SlotsApart, TimeTypes, HistoryTypes, PacingConstants
  <2>2. Cardinality(slots') = Cardinality(slots) + 1
    BY <2>1, FS_AddElement DEF SlotsUsed
  <2>3. t \notin Waiters /\ At(t, "sleeping") /\ logins' = logins
    BY <1>4 DEF Reserve, Waiters, Waiting
  <2>4. Cardinality(Waiters') = Cardinality(Waiters) + 1
    BY <1>0, <2>3, WaitersCounted DEF PacingPlaces, Waiting
  <2> QED
    BY <1>0, <2>2, <2>3, <2>4 DEF LoginsUsed
<1>5. ASSUME NEW t \in Threads, WakeUp(t) PROVE LoginsUsed'
  BY <1>5 DEF WakeUp, At, LoginsUsed, Waiters, Waiting
<1>6. ASSUME NEW t \in Threads, TryAgain(t) PROVE LoginsUsed'
  BY <1>6 DEF TryAgain, At, LoginsUsed, Waiters, Waiting
<1>7. ASSUME NEW t \in Threads, TakeToken(t) PROVE LoginsUsed'
  <2>1. t \in Waiters /\ \E place \in {"sending", "login"} : At(t, place)
    BY <1>7 DEF TakeToken, Waiters, Waiting
  <2>2. Cardinality(Waiters') = Cardinality(Waiters) - 1
    BY <1>0, <2>1, WaitersCounted DEF PacingPlaces, Waiting
  <2>3. slots' = slots /\ (logins' = logins \/ logins' = logins + 1)
    BY <1>7 DEF TakeToken
  <2> QED
    BY <1>0, <2>2, <2>3 DEF LoginsUsed
<1>8. ASSUME NEW t \in Threads, Issue(t) PROVE LoginsUsed'
  BY <1>8 DEF Issue, LoginsUsed, Waiters
<1>9. ASSUME NEW t \in Threads, LoggedIn(t) PROVE LoginsUsed'
  BY <1>9 DEF LoggedIn, At, LoginsUsed, Waiters, Waiting
<1>10. ASSUME NEW t \in Threads, LoginFails(t) PROVE LoginsUsed'
  <2>1. t \notin Waiters /\ \E place \in {"backoff", "idle"} : At(t, place)
    BY <1>10 DEF LoginFails, RetryRequest, EndRequest, Waiters, Waiting
  <2>2. Cardinality(Waiters') = Cardinality(Waiters)
    BY <1>0, <2>1, WaitersCounted DEF PacingPlaces, Waiting
  <2> QED
    BY <1>10, <2>2 DEF LoginFails, LoginsUsed
<1>11. ASSUME NEW t \in Threads, Answered(t) PROVE LoginsUsed'
  BY <1>11 DEF Answered, At, EndRequest, LoginsUsed, Waiters, Waiting
<1>12. ASSUME NEW t \in Threads, Failed(t) PROVE LoginsUsed'
  <2>1. t \notin Waiters /\ \E place \in {"backoff", "idle"} : At(t, place)
    BY <1>12 DEF Failed, RetryRequest, EndRequest, Waiters, Waiting
  <2>2. Cardinality(Waiters') = Cardinality(Waiters)
    BY <1>0, <2>1, WaitersCounted DEF PacingPlaces, Waiting
  <2> QED
    BY <1>12, <2>2 DEF Failed, LoginsUsed
<1> QED
  BY <1>1, <1>2, <1>3, <1>4, <1>5, <1>6, <1>7, <1>8, <1>9, <1>10, <1>11, <1>12 DEF PacingNext

\* A step keeps SlotsAhead: nobody wakes up before the slot has come.
LEMMA AheadPreserved ==
  ASSUME PacingConstants, TimeTypes, ThreadTypes, HistoryTypes, SlotsAhead, [PacingNext]_pacingVars
  PROVE  SlotsAhead'
<1>1. CASE UNCHANGED pacingVars
  BY <1>1 DEF pacingVars, SlotsAhead
<1>2. CASE Pass
  BY <1>2 DEF Pass, TimeTypes, ThreadTypes, HistoryTypes, SlotsAhead
<1>3. ASSUME NEW t \in Threads, StartRequest(t) PROVE SlotsAhead'
  BY <1>3 DEF StartRequest, At, SlotsAhead
<1>4. ASSUME NEW t \in Threads, Reserve(t) PROVE SlotsAhead'
  BY <1>4 DEF Reserve, At, ThreadTypes, SlotsAhead
<1>5. ASSUME NEW t \in Threads, WakeUp(t) PROVE SlotsAhead'
  BY <1>5 DEF WakeUp, At, TimeTypes, HistoryTypes, SlotsAhead
<1>6. ASSUME NEW t \in Threads, TryAgain(t) PROVE SlotsAhead'
  BY <1>6 DEF TryAgain, At, SlotsAhead
<1>7. ASSUME NEW t \in Threads, TakeToken(t) PROVE SlotsAhead'
  BY <1>7 DEF TakeToken, At, ThreadTypes, SlotsAhead
<1>8. ASSUME NEW t \in Threads, Issue(t) PROVE SlotsAhead'
  BY <1>8 DEF Issue, SlotsAhead
<1>9. ASSUME NEW t \in Threads, LoggedIn(t) PROVE SlotsAhead'
  BY <1>9 DEF LoggedIn, At, SlotsAhead
<1>10. ASSUME NEW t \in Threads, LoginFails(t) PROVE SlotsAhead'
  BY <1>10 DEF LoginFails, RetryRequest, At, EndRequest, ThreadTypes, SlotsAhead
<1>11. ASSUME NEW t \in Threads, Answered(t) PROVE SlotsAhead'
  BY <1>11 DEF Answered, At, EndRequest, SlotsAhead
<1>12. ASSUME NEW t \in Threads, Failed(t) PROVE SlotsAhead'
  BY <1>12 DEF Failed, RetryRequest, At, EndRequest, ThreadTypes, SlotsAhead
<1> QED
  BY <1>1, <1>2, <1>3, <1>4, <1>5, <1>6, <1>7, <1>8, <1>9, <1>10, <1>11, <1>12 DEF PacingNext

\* A step keeps TokenInTime.
LEMMA InTimePreserved ==
  ASSUME PacingConstants, TimeTypes, TokenTypes, HistoryTypes, TokenInTime, [PacingNext]_pacingVars
  PROVE  TokenInTime'
<1>1. CASE UNCHANGED pacingVars
  BY <1>1 DEF pacingVars, TokenInTime, TokenAlive
<1>2. CASE Pass
  BY <1>2 DEF Pass, TokenInTime, TokenAlive
<1>3. ASSUME NEW t \in Threads, StartRequest(t) PROVE TokenInTime'
  BY <1>3 DEF StartRequest, TokenInTime, TokenAlive
<1>4. ASSUME NEW t \in Threads, Reserve(t) PROVE TokenInTime'
  BY <1>4 DEF Reserve, TokenInTime, TokenAlive
<1>5. ASSUME NEW t \in Threads, WakeUp(t) PROVE TokenInTime'
  BY <1>5 DEF WakeUp, TokenInTime, TokenAlive
<1>6. ASSUME NEW t \in Threads, TryAgain(t) PROVE TokenInTime'
  BY <1>6 DEF TryAgain, TokenInTime, TokenAlive
<1>7. ASSUME NEW t \in Threads, TakeToken(t) PROVE TokenInTime'
  BY <1>7 DEF TakeToken, TimeTypes, TokenTypes, HistoryTypes, TokenInTime, TokenAlive
<1>8. ASSUME NEW t \in Threads, Issue(t) PROVE TokenInTime'
  BY <1>8 DEF Issue, TokenInTime, TokenAlive
<1>9. ASSUME NEW t \in Threads, LoggedIn(t) PROVE TokenInTime'
  <2>1. issued \in [at : 0..MaxTime, life : Lifetimes]
    BY <1>9 DEF LoggedIn, TokenTypes
  <2>2. issued.at \in 0..MaxTime /\ issued.life \in Lifetimes
    BY <2>1
  <2>3. issued.at \in Nat /\ issued.life \in Nat /\ now \in Nat /\ Margin \in Nat \ {0}
    <3>1. Lifetimes \subseteq Nat /\ 0..MaxTime \subseteq Nat /\ Margin \in Nat \ {0}
      BY DEF PacingConstants
    <3> QED
      BY <2>2, <3>1 DEF TimeTypes
  <2>4. /\ token'.usable = now + Later(issued.life - Margin, Margin)
        /\ token'.dies = issued.at + issued.life
    BY <1>9 DEF LoggedIn
  <2>5. ~shortLived' => ~shortLived /\ issued.life >= 2 * Margin /\ now - issued.at <= Margin
    <3>1. shortLived' = (shortLived \/ issued.life < 2 * Margin \/ now - issued.at > Margin)
      BY <1>9 DEF LoggedIn
    <3>2. ~shortLived' => ~shortLived /\ ~(issued.life < 2 * Margin) /\ ~(now - issued.at > Margin)
      BY <3>1, Zenon
    <3> QED
      BY <2>3, <3>2
  <2>6. ~shortLived' => token'.usable <= token'.dies /\ now < token'.dies
    BY <2>3, <2>4, <2>5 DEF Later
  <2>7. dead' = (dead \/ now >= token'.dies)
    BY <1>9 DEF LoggedIn
  <2>8. token'.dies \in Nat
    BY <2>3, <2>4
  <2>9. ~shortLived' => ~(now >= token'.dies)
    BY <2>3, <2>6, <2>8
  <2>10. dead' => shortLived'
    BY <2>5, <2>7, <2>9, Zenon DEF TokenInTime, TokenAlive
  <2> QED
    BY <2>6, <2>10 DEF TokenInTime, TokenAlive
<1>10. ASSUME NEW t \in Threads, LoginFails(t) PROVE TokenInTime'
  BY <1>10 DEF LoginFails, TokenInTime, TokenAlive
<1>11. ASSUME NEW t \in Threads, Answered(t) PROVE TokenInTime'
  BY <1>11 DEF Answered, TokenInTime, TokenAlive
<1>12. ASSUME NEW t \in Threads, Failed(t) PROVE TokenInTime'
  BY <1>12 DEF Failed, TokenInTime, TokenAlive
<1> QED
  BY <1>1, <1>2, <1>3, <1>4, <1>5, <1>6, <1>7, <1>8, <1>9, <1>10, <1>11, <1>12 DEF PacingNext
-------------------------------------------------------------------------------
\* The invariant holds in every initial state.
LEMMA PacingInvInit ==
  ASSUME PacingConstants, PacingInit
  PROVE  PacingInv
<1>1. TimeTypes /\ ThreadTypes /\ HistoryTypes
  <2>1. 0 \in 0..MaxTime /\ 0 \in 0..MaxRetries /\ 0 \in 0..MaxCalls
    BY DEF PacingConstants
  <2>2. ThreadTypes
    BY <2>1 DEF PacingInit, ThreadTypes, PacingPlaces
  <2> QED
    BY <2>1, <2>2 DEF PacingInit, TimeTypes, HistoryTypes
<1>2. TokenTypes
  BY DEF PacingConstants, PacingInit, TokenTypes
<1>3. SlotsApart /\ SlotsAhead /\ TokenInTime
  BY DEF PacingInit, SlotsApart, SlotsAhead, TokenInTime, TokenAlive
<1>4. SlotsUsed /\ LoginsUsed
  <2>1. Holders = {} /\ Waiters = {}
    BY DEF PacingInit, Holders, Holding, Waiters, Waiting
  <2> QED
    BY <2>1, FS_EmptySet DEF PacingInit, SlotsUsed, LoginsUsed
<1> QED
  BY <1>1, <1>2, <1>3, <1>4 DEF PacingInv, PacingTypeOK, TimeTypes, ThreadTypes, TokenTypes, HistoryTypes

\* The invariant is preserved by every step.
LEMMA PacingInvPreserved ==
  ASSUME PacingConstants, PacingInv, [PacingNext]_pacingVars
  PROVE  PacingInv'
<1>1. TimeTypes /\ ThreadTypes /\ TokenTypes /\ HistoryTypes
  BY DEF PacingInv, PacingTypeOK, TimeTypes, ThreadTypes, TokenTypes, HistoryTypes
<1>2. TimeTypes' /\ ThreadTypes' /\ TokenTypes' /\ HistoryTypes'
  BY <1>1, TimesPreserved, ThreadsPreserved, TokensPreserved, HistoryPreserved
<1>3. PacingTypeOK'
  BY <1>2 DEF PacingTypeOK, TimeTypes, ThreadTypes, TokenTypes, HistoryTypes
<1>4. SlotsApart' /\ SlotsUsed' /\ LoginsUsed' /\ SlotsAhead' /\ TokenInTime'
  BY <1>1, ApartPreserved, UsedPreserved, LoginsPreserved, AheadPreserved, InTimePreserved DEF PacingInv
<1> QED
  BY <1>3, <1>4 DEF PacingInv

\* As many slots have come as requests were sent, and as logins: each slot that has not come is
\* one a holder sleeps for.
LEMMA InvGivesRate ==
  ASSUME PacingConstants, PacingInv
  PROVE  NeverAheadOfRate
<1> DEFINE Come == {s \in slots : s <= now}
           Ahead == {s \in slots : s > now}
           Sleepers == {t \in Threads : ppc[t] = "sleeping" /\ wake[t] \in Ahead}
           slotOf == [t \in Sleepers |-> wake[t]]
<1>1. ThreadTypes /\ HistoryTypes /\ TimeTypes /\ SlotsUsed /\ LoginsUsed /\ SlotsAhead
  BY DEF PacingInv, PacingTypeOK, ThreadTypes, HistoryTypes, TimeTypes
<1>2. IsFiniteSet(slots) /\ Cardinality(slots) \in Nat
  BY <1>1, SlotsCounted DEF SlotsUsed
<1>3. /\ IsFiniteSet(Holders) /\ IsFiniteSet(Sleepers)
      /\ Cardinality(Holders) \in Nat /\ Cardinality(Sleepers) \in Nat
      /\ Cardinality(Sleepers) <= Cardinality(Holders)
      /\ Cardinality(Waiters) \in Nat /\ Cardinality(Sleepers) <= Cardinality(Waiters)
  <2>1. /\ Sleepers \subseteq Holders /\ Holders \subseteq Threads
        /\ Sleepers \subseteq Waiters /\ Waiters \subseteq Threads
    BY DEF Holders, Holding, Waiters, Waiting
  <2> HIDE DEF Sleepers
  <2> QED
    BY <2>1, FS_Subset, FS_CardinalityType DEF PacingConstants
<1>4. Cardinality(Ahead) <= Cardinality(Sleepers)
  <2>1. slotOf \in Surjection(Sleepers, Ahead)
    BY <1>1 DEF SlotsAhead, Surjection
  <2> QED
    BY <1>3, <2>1, FS_Surjection
<1>5. Cardinality(Come) = Cardinality(slots) - Cardinality(Ahead)
  <2>1. Come = slots \ Ahead /\ slots \cap Ahead = Ahead
    <3>1. now \in Nat /\ \A s \in slots : s \in Nat
      BY <1>1 DEF HistoryTypes, TimeTypes, PacingConstants
    <3> QED
      BY <3>1
  <2> HIDE DEF Come, Ahead
  <2> QED
    BY <1>2, <2>1, FS_Difference
<1>6. Cardinality(Ahead) \in Nat
  BY <1>2, FS_Subset, FS_CardinalityType
<1>7. sent <= Cardinality(Come) /\ logins <= Cardinality(Come)
  <2> HIDE DEF Come, Ahead, Sleepers
  <2> QED
    BY <1>1, <1>2, <1>3, <1>4, <1>5, <1>6 DEF SlotsUsed, LoginsUsed, HistoryTypes
<1>8. \A s, u \in slots : s < u => u - s >= Interval
  BY DEF PacingInv, SlotsApart
<1> QED
  BY <1>7, <1>8 DEF NeverAheadOfRate

\* However many threads share the client, and whatever they retry: the process
\* keeps to its rate, logins apart, of which there is one at most to a slot
\* (_RateLimiter, _request), and no token is handed out dead unless it
\* is short-lived or its login was slow (MomantsAuthClient).
THEOREM PacingCorrect == ASSUME PacingConstants PROVE PacingSpec => []PacingSafe
<1>1. PacingInit => PacingInv
  BY PacingInvInit
<1>2. PacingInv /\ [PacingNext]_pacingVars => PacingInv'
  BY PacingInvPreserved
<1>3. PacingInv => PacingSafe
  BY InvGivesRate DEF PacingInv, TokenInTime, PacingSafe
<1> QED
  BY <1>1, <1>2, <1>3, PTL DEF PacingSpec
===============================================================================
