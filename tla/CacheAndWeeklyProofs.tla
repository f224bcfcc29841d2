------------------------ MODULE CacheAndWeeklyProofs -------------------------
(***************************************************************************)
(* Theorems about CacheWarming, for any keys, processes, requests,         *)
(* versions and conversations, and about WeeklyRun, for any agents, runs   *)
(* and deaths: the two components with a lock that expires and that a      *)
(* process hands to its child.                                             *)
(*                                                                         *)
(* The cache: what a process has still to do is in order (TodoInv), so     *)
(* that it stores only what it has just built and writes the run state     *)
(* only over one it has just read; a child gives the lock up with its last *)
(* step.  Every child that lives has the lock or has lost it               *)
(* (WarmLockInv); a payload from before a purge that can still reach a key *)
(* is one the purge found on its way (PurgeInv).                           *)
(*                                                                         *)
(* The weekly run: whoever has the lock and did not lose it is the one the *)
(* lock names (LockInv).  While the state says "running" some run has      *)
(* still to say how it ended, unless one was killed, Redis failed or a run *)
(* without the lock brought the "running" back (StateInv).  That a run     *)
(* with the lock never does so rests on its updates being made before it   *)
(* goes on (OwedInv): what it writes back it has read while it was at      *)
(* work, and its own end comes later.                                      *)
(***************************************************************************)
EXTENDS CacheWarming, WeeklyRun, SequenceTheorems, TLAPS

(* The cache *)

\* A payload is stored right after it was built, the run state is written right
\* after it was read.
Prepared(s, v, b) ==
  \A i \in 1..Len(s) :
    /\ s[i].do = "store" => IF i = 1 THEN v # Absent ELSE s[i - 1] = Build(s[i].key)
    /\ s[i].do \in {"stage", "progress", "update"} => IF i = 1 THEN b # Absent ELSE s[i - 1] = Read

\* No more is done than there is; the lock is given up in the end.
Bounded(s) == \A i \in 1..Len(s) : s[i].do \in {"progress", "update"} => s[i].done <= s[i].total
UnlocksLast(s) == \A i \in 1..Len(s) : s[i].do \in {"conversations", "release"} => i = Len(s)

TodoInv ==
  /\ \A p \in Procs : Prepared(todo[p], val[p], blob[p]) /\ Bounded(todo[p])
  /\ \A p \in Children : UnlocksLast(todo[p])

\* A child that lives has the lock, or lost it.
WarmLockInv == \A p \in Children : Alive(p) => warmLock = p \/ p \in unlocked

ProgressInv ==
  ProgressBounded /\ \A p \in Procs : blob[p] # Absent => blob[p].done <= blob[p].total

PurgeInv ==
  /\ purgedAt <= version
  /\ PurgedStaysGone
  /\ \A k \in AgentKeys \ doomed : OnItsWay(k) => k \in raced

\* CacheTypeOK in parts.
DataTypes ==
  /\ cast \in Casts /\ version \in Versions /\ purgedAt \in Versions /\ count \in 0..MaxConvs
  /\ faults \in 0..MaxFaults
KeyTypes ==
  /\ cache \in [AgentKeys -> Versions \cup {Absent}]
  /\ doomed \subseteq AgentKeys /\ raced \subseteq AgentKeys
LockTypes == warmLock \in Children \cup {Absent} /\ unlocked \subseteq Children
ReadTypes ==
  /\ val \in [Procs \cup Readers -> Versions \cup {Absent}]
  /\ reading \in [Readers -> AgentKeys \cup {Absent}]
  /\ \A r \in Readers : (reading[r] = Absent) <=> (val[r] = Absent)
RunTypes == run \in RunStates /\ blob \in [Procs -> RunStates \cup {Absent}]
TodoTypes == todo \in [Procs -> Seq(Steps)]

CacheInv == CacheTypeOK /\ TodoInv /\ WarmLockInv /\ ProgressInv /\ PurgeInv
-------------------------------------------------------------------------------
(* Lists of steps *)

\* What a step of a given name carries.
LEMMA StepFields ==
  ASSUME NEW s \in Steps
  PROVE  /\ s.do \in {"build", "store"} => s.key \in AgentKeys
         /\ s.do = "stage" => s.stage \in Stages
         /\ s.do = "progress" => s.done \in 0..MaxConvs /\ s.total \in 0..MaxConvs
         /\ s.do = "update" => s.stage \in Stages /\ s.done \in 0..MaxConvs /\ s.total \in 0..MaxConvs
         /\ s.do = "conversations" => s.total \in 0..MaxConvs
BY DEF Steps, Build, Store, Stage, Progress, Update, Conversations, Read, Popen, IngestAll, Unlock

\* The constructors build steps.
LEMMA StepsMade ==
  /\ \A k \in AgentKeys : Build(k) \in Steps /\ Store(k) \in Steps
  /\ \A s \in Stages : Stage(s) \in Steps
  /\ \A d, t \in 0..MaxConvs : Progress(d, t) \in Steps /\ \A s \in Stages : Update(s, d, t) \in Steps
  /\ \A n \in 0..MaxConvs : Conversations(n) \in Steps
  /\ Read \in Steps /\ Popen \in Steps /\ IngestAll \in Steps /\ Unlock \in Steps
BY DEF Steps

LEMMA FunctionIsSeq ==
  ASSUME NEW S, NEW n \in Nat, NEW f \in [1..n -> S]
  PROVE  f \in Seq(S) /\ Len(f) = n
OBVIOUS

\* The head and the tail of a list, by place.
LEMMA TailByPlace ==
  ASSUME NEW s \in Seq(Steps), s # <<>>
  PROVE  /\ Len(s) \in Nat \ {0} /\ Head(s) = s[1] /\ Head(s) \in Steps
         /\ Tail(s) \in Seq(Steps) /\ Len(Tail(s)) = Len(s) - 1
         /\ \A i \in 1..Len(Tail(s)) : Tail(s)[i] = s[i + 1]
<1>1. Len(s) \in Nat \ {0}
  BY EmptySeq
<1>2. Head(s) = s[1] /\ s[1] \in Steps
  BY <1>1, HeadTailProperties
<1>3. Tail(s) \in Seq(Steps) /\ Len(Tail(s)) = Len(s) - 1
  BY <1>1, HeadTailProperties
<1>4. \A i \in 1..Len(Tail(s)) : Tail(s)[i] = s[i + 1]
  BY <1>1, <1>3, HeadTailProperties
<1> QED
  BY <1>1, <1>2, <1>3, <1>4

\* Taking a step leaves a list in order, provided a build leaves a payload and
\* a read a run state.
LEMMA TailPrepared ==
  ASSUME NEW s \in Seq(Steps), s # <<>>, NEW v, NEW b, NEW w, NEW c,
         Prepared(s, v, b),
         Head(s).do = "build" => w # Absent,
         Head(s).do = "read" => c # Absent
  PROVE  Prepared(Tail(s), w, c)
<1> SUFFICES ASSUME NEW i \in 1..Len(Tail(s))
             PROVE  /\ Tail(s)[i].do = "store" =>
                         IF i = 1 THEN w # Absent ELSE Tail(s)[i - 1] = Build(Tail(s)[i].key)
                    /\ Tail(s)[i].do \in {"stage", "progress", "update"} =>
                         IF i = 1 THEN c # Absent ELSE Tail(s)[i - 1] = Read
  BY DEF Prepared
<1>1. i + 1 \in 1..Len(s) /\ i + 1 # 1 /\ Tail(s)[i] = s[i + 1]
  BY TailByPlace
<1>2. /\ s[i + 1].do = "store" => s[i] = Build(s[i + 1].key)
      /\ s[i + 1].do \in {"stage", "progress", "update"} => s[i] = Read
  BY <1>1 DEF Prepared
<1>3. CASE i = 1
  BY <1>1, <1>2, <1>3, TailByPlace DEF Build, Read
<1>4. CASE i # 1
  <2>1. i - 1 \in 1..Len(Tail(s)) /\ Tail(s)[i - 1] = s[i]
    BY <1>4, TailByPlace
  <2> QED
    BY <1>1, <1>2, <1>4, <2>1
<1> QED
  BY <1>3, <1>4

LEMMA TailKeeps ==
  ASSUME NEW s \in Seq(Steps), s # <<>>
  PROVE  /\ Bounded(s) => Bounded(Tail(s))
         /\ UnlocksLast(s) => UnlocksLast(Tail(s))
<1>1. \A i \in 1..Len(Tail(s)) : i + 1 \in 1..Len(s) /\ Tail(s)[i] = s[i + 1]
  BY TailByPlace
<1>2. Len(s) = Len(Tail(s)) + 1 /\ Len(Tail(s)) \in Nat
  BY TailByPlace
<1>3. ASSUME Bounded(s) PROVE Bounded(Tail(s))
  BY <1>1, <1>3 DEF Bounded
<1>4. ASSUME UnlocksLast(s) PROVE UnlocksLast(Tail(s))
  <2> SUFFICES ASSUME NEW i \in 1..Len(Tail(s)), Tail(s)[i].do \in {"conversations", "release"}
               PROVE  i = Len(Tail(s))
    BY DEF UnlocksLast
  <2>1. i + 1 = Len(s)
    BY <1>1, <1>4 DEF UnlocksLast
  <2>2. \A m, n \in Nat : \A j \in 1..n : j + 1 = m /\ m = n + 1 => j = n
    OBVIOUS
  <2>3. Len(s) \in Nat
    BY <1>2
  <2> QED
    BY <1>2, <2>1, <2>2, <2>3, Zenon
<1> QED
  BY <1>3, <1>4

\* Counted(steps) is a list like steps, with the number of conversations in it.
LEMMA CountedKeeps ==
  ASSUME NEW s \in Seq(Steps), count \in 0..MaxConvs, NEW v, NEW b
  PROVE  /\ Counted(s) \in Seq(Steps)
         /\ Prepared(s, v, b) => Prepared(Counted(s), v, b)
         /\ Bounded(s) => Bounded(Counted(s))
         /\ UnlocksLast(s) => UnlocksLast(Counted(s))
<1>1. Len(s) \in Nat /\ DOMAIN s = 1..Len(s) /\ \A i \in 1..Len(s) : s[i] \in Steps
  BY LenProperties, ElementOfSeq
<1>2. \A i \in 1..Len(s) : Counted(s)[i] \in Steps
  BY <1>1, StepsMade DEF Counted
<1>3. Counted(s) \in Seq(Steps) /\ Len(Counted(s)) = Len(s)
  <2>1. Counted(s) \in [1..Len(s) -> Steps]
    BY <1>1, <1>2 DEF Counted
  <2> QED
    BY <1>1, <2>1, FunctionIsSeq
<1>4. \A i \in 1..Len(s) :
        /\ s[i].do # "conversations" => Counted(s)[i] = s[i]
        /\ s[i].do = "conversations" => Counted(s)[i].do = "conversations"
  BY <1>1 DEF Counted, Conversations
<1>5. ASSUME Prepared(s, v, b) PROVE Prepared(Counted(s), v, b)
  <2> SUFFICES ASSUME NEW i \in 1..Len(s)
               PROVE  /\ Counted(s)[i].do = "store" =>
                           IF i = 1 THEN v # Absent ELSE Counted(s)[i - 1] = Build(Counted(s)[i].key)
                      /\ Counted(s)[i].do \in {"stage", "progress", "update"} =>
                           IF i = 1 THEN b # Absent ELSE Counted(s)[i - 1] = Read
    BY <1>3 DEF Prepared
  <2>1. /\ s[i].do = "store" => IF i = 1 THEN v # Absent ELSE s[i - 1] = Build(s[i].key)
        /\ s[i].do \in {"stage", "progress", "update"} => IF i = 1 THEN b # Absent ELSE s[i - 1] = Read
    BY <1>5 DEF Prepared
  <2>2. i # 1 => i - 1 \in 1..Len(s)
    BY <1>1
  <2>3. i # 1 /\ s[i - 1].do \in {"build", "read"} => Counted(s)[i - 1] = s[i - 1]
    BY <1>4, <2>2
  <2>3a. \A k : Build(k).do = "build" /\ Read.do = "read"
    BY DEF Build, Read
  <2>4. CASE s[i].do = "conversations"
    BY <1>4, <2>4
  <2>5. CASE s[i].do # "conversations" /\ i = 1
    BY <1>4, <2>1, <2>5
  <2>6. CASE s[i].do # "conversations" /\ i # 1
    <3>1. Counted(s)[i] = s[i]
      BY <1>4, <2>6
    <3>2. s[i].do = "store" => Counted(s)[i - 1] = Build(s[i].key)
      BY <2>1, <2>3, <2>3a, <2>6
    <3>3. s[i].do \in {"stage", "progress", "update"} => Counted(s)[i - 1] = Read
      BY <2>1, <2>3, <2>3a, <2>6
    <3> QED
      BY <2>6, <3>1, <3>2, <3>3
  <2> QED
    BY <2>4, <2>5, <2>6
<1>6. ASSUME Bounded(s) PROVE Bounded(Counted(s))
  BY <1>3, <1>4, <1>6 DEF Bounded
<1>7. ASSUME UnlocksLast(s) PROVE UnlocksLast(Counted(s))
  BY <1>3, <1>4, <1>7 DEF UnlocksLast
<1> QED
  BY <1>3, <1>5, <1>6, <1>7

\* Two lists one after the other; the second one begins with neither a store
\* nor a write.
LEMMA JoinKeeps ==
  ASSUME NEW s \in Seq(Steps), NEW t \in Seq(Steps), s # <<>>, NEW v, NEW b,
         Prepared(s, v, b), Bounded(s), Prepared(t, Absent, Absent), Bounded(t)
  PROVE  /\ s \o t \in Seq(Steps) /\ Prepared(s \o t, v, b) /\ Bounded(s \o t)
         /\ (\A i \in 1..Len(s) : s[i].do \notin {"conversations", "release"}) /\ UnlocksLast(t)
              => UnlocksLast(s \o t)
<1> DEFINE u == s \o t
<1> DEFINE m == Len(s)
<1> DEFINE n == Len(t)
<1>1. m \in Nat \ {0} /\ n \in Nat
  BY TailByPlace, LenProperties
<1>2. /\ u \in Seq(Steps) /\ Len(u) = m + n
      /\ \A i \in 1..m : u[i] = s[i]
      /\ \A i \in 1..n : u[m + i] = t[i]
  <2>1. /\ u \in Seq(Steps) /\ Len(u) = m + n
        /\ \A i \in 1..(m + n) : u[i] = IF i <= m THEN s[i] ELSE t[i - m]
    BY ConcatProperties
  <2> HIDE DEF u, m, n
  <2>2. \A i \in 1..m : u[i] = s[i]
    BY <1>1, <2>1
  <2>3. \A i \in 1..n : u[m + i] = t[i]
    BY <1>1, <2>1
  <2> QED
    BY <2>1, <2>2, <2>3
<1>3. \A i \in 1..m : /\ s[i].do = "store" => IF i = 1 THEN v # Absent ELSE s[i - 1] = Build(s[i].key)
                      /\ s[i].do \in {"stage", "progress", "update"} => IF i = 1 THEN b # Absent ELSE s[i - 1] = Read
                      /\ s[i].do \in {"progress", "update"} => s[i].done <= s[i].total
  BY DEF Prepared, Bounded
<1>4. \A i \in 1..n : /\ t[i].do = "store" => i # 1 /\ t[i - 1] = Build(t[i].key)
                      /\ t[i].do \in {"stage", "progress", "update"} => i # 1 /\ t[i - 1] = Read
                      /\ t[i].do \in {"progress", "update"} => t[i].done <= t[i].total
  BY DEF Prepared, Bounded
<1>5. Prepared(u, v, b) <=>
        \A i \in 1..Len(u) :
          /\ u[i].do = "store" => IF i = 1 THEN v # Absent ELSE u[i - 1] = Build(u[i].key)
          /\ u[i].do \in {"stage", "progress", "update"} => IF i = 1 THEN b # Absent ELSE u[i - 1] = Read
  BY DEF Prepared
<1>6. Bounded(u) <=> \A i \in 1..Len(u) : u[i].do \in {"progress", "update"} => u[i].done <= u[i].total
  BY DEF Bounded
<1>7. UnlocksLast(u) <=> \A i \in 1..Len(u) : u[i].do \in {"conversations", "release"} => i = Len(u)
  BY DEF UnlocksLast
<1>8. UnlocksLast(t) <=> \A i \in 1..n : t[i].do \in {"conversations", "release"} => i = n
  BY DEF UnlocksLast
<1> HIDE DEF u, m, n
<1>9. ASSUME NEW i \in 1..Len(u), i > m
      PROVE  i - m \in 1..n /\ u[i] = t[i - m] /\ (i - m # 1 => u[i - 1] = t[i - m - 1])
  <2>1. i - m \in 1..n /\ m + (i - m) = i
    BY <1>1, <1>2, <1>9
  <2>2. i - m # 1 => i - m - 1 \in 1..n /\ m + (i - m - 1) = i - 1
    BY <1>1, <1>2, <1>9
  <2> QED
    BY <1>2, <2>1, <2>2
<1>10. ASSUME NEW i \in 1..Len(u), i <= m
       PROVE  i \in 1..m /\ u[i] = s[i] /\ (i # 1 => u[i - 1] = s[i - 1])
  BY <1>1, <1>2, <1>10
<1>11. Prepared(u, v, b)
  <2> SUFFICES ASSUME NEW i \in 1..Len(u)
               PROVE  /\ u[i].do = "store" => IF i = 1 THEN v # Absent ELSE u[i - 1] = Build(u[i].key)
                      /\ u[i].do \in {"stage", "progress", "update"} => IF i = 1 THEN b # Absent ELSE u[i - 1] = Read
    BY <1>5
  <2>1. CASE i <= m
    BY <1>3, <1>10, <2>1
  <2>2. CASE i > m
    BY <1>1, <1>4, <1>9, <2>2
  <2> QED
    BY <1>1, <1>2, <2>1, <2>2
<1>12. Bounded(u)
  <2> SUFFICES ASSUME NEW i \in 1..Len(u), u[i].do \in {"progress", "update"}
               PROVE  u[i].done <= u[i].total
    BY <1>6
  <2>1. CASE i <= m
    BY <1>3, <1>10, <2>1
  <2>2. CASE i > m
    BY <1>4, <1>9, <2>2
  <2> QED
    BY <1>1, <1>2, <2>1, <2>2
<1>13. ASSUME \A i \in 1..m : s[i].do \notin {"conversations", "release"}, UnlocksLast(t)
       PROVE  UnlocksLast(u)
  <2> SUFFICES ASSUME NEW i \in 1..Len(u), u[i].do \in {"conversations", "release"}
               PROVE  i = Len(u)
    BY <1>7
  <2>1. CASE i <= m
    BY <1>10, <1>13, <2>1
  <2>2. CASE i > m
    <3>1. i - m = n
      BY <1>8, <1>9, <1>13, <2>2
    <3> QED
      BY <1>1, <1>2, <3>1
  <2> QED
    BY <1>1, <1>2, <2>1, <2>2
<1> QED
  BY <1>2, <1>11, <1>12, <1>13 DEF u, m

\* The loop over the conversations.
LEMMA ConversationSteps ==
  ASSUME NEW n \in 0..MaxConvs, NEW v, NEW b
  PROVE  /\ WarmConversations(n) \in Seq(Steps) /\ WarmConversations(n) # <<>>
         /\ Prepared(WarmConversations(n), v, b) /\ Bounded(WarmConversations(n))
         /\ UnlocksLast(WarmConversations(n))
<1> DEFINE w == WarmConversations(n)
<1> DEFINE last == 2 * n + 5
<1>1. n \in Nat /\ last \in Nat /\ last >= 5 /\ n <= MaxConvs /\ MaxConvs \in Nat
  BY CacheAssumption
<1>2. ASSUME NEW i \in 1..last
      PROVE  w[i] = CASE i = 2 -> Update("warming", 0, n)
                      [] i = last - 1 -> Update("ready", n, n)
                      [] i = last -> Unlock
                      [] i < last /\ i % 2 = 1 -> Read
                      [] i \in 4..(last - 2) /\ i % 2 = 0 -> Progress((i - 2) \div 2, n)
  BY DEF WarmConversations
<1>3. /\ w[2] = Update("warming", 0, n) /\ w[last - 1] = Update("ready", n, n) /\ w[last] = Unlock
      /\ \A i \in 1..last : i < last /\ i % 2 = 1 => w[i] = Read
      /\ \A i \in 4..(last - 2) : i % 2 = 0 => w[i] = Progress((i - 2) \div 2, n)
  <2>1. (last - 1) % 2 = 0 /\ last % 2 = 1 /\ 2 % 2 = 0
    BY <1>1
  <2> HIDE DEF w
  <2>2. w[2] = Update("warming", 0, n)
    BY <1>1, <1>2
  <2>3. w[last - 1] = Update("ready", n, n)
    BY <1>1, <1>2, <2>1
  <2>4. w[last] = Unlock
    BY <1>1, <1>2, <2>1
  <2>5. \A i \in 1..last : i < last /\ i % 2 = 1 => w[i] = Read
    BY <1>1, <1>2, <2>1
  <2>6. \A i \in 4..(last - 2) : i % 2 = 0 => w[i] = Progress((i - 2) \div 2, n)
    BY <1>1, <1>2, <2>1
  <2> QED
    BY <2>2, <2>3, <2>4, <2>5, <2>6
<1>4. \A i \in 1..last :
        \/ i = last
        \/ i < last /\ i % 2 = 1
        \/ i \in {2, last - 1} /\ i - 1 \in 1..last /\ i - 1 < last /\ (i - 1) % 2 = 1
        \/ /\ i \in 4..(last - 2) /\ i % 2 = 0 /\ i - 1 \in 1..last /\ i - 1 < last /\ (i - 1) % 2 = 1
           /\ (i - 2) \div 2 \in 0..MaxConvs /\ (i - 2) \div 2 <= n
  BY <1>1
<1>5. w \in [1..last -> Steps]
  <2>1. \A i \in 1..last : w[i] \in Steps
    <3> HIDE DEF w
    <3>1. "warming" \in Stages /\ "ready" \in Stages /\ 0 \in 0..MaxConvs
      BY <1>1 DEF Stages
    <3> QED
      BY <1>3, <1>4, <3>1, StepsMade
  <2> QED
    BY <2>1 DEF WarmConversations
<1>6. w \in Seq(Steps) /\ Len(w) = last
  BY <1>1, <1>5, FunctionIsSeq
<1>7. w # <<>>
  BY <1>1, <1>6, EmptySeq
<1>8. \A i \in 1..last :
        \/ i = last /\ w[i] = Unlock
        \/ w[i] = Read
        \/ i # 1 /\ w[i - 1] = Read /\ \E d \in 0..MaxConvs :
             /\ d <= n
             /\ w[i] = Progress(d, n) \/ \E s \in Stages : w[i] = Update(s, d, n)
  <2> HIDE DEF w
  <2>1. "warming" \in Stages /\ "ready" \in Stages /\ 0 \in 0..MaxConvs /\ 0 <= n
    BY <1>1 DEF Stages
  <2> QED
    BY <1>1, <1>3, <1>4, <2>1
<1>9. Prepared(w, v, b)
  <2> HIDE DEF w
  <2> QED
    BY <1>6, <1>8 DEF Prepared, Read, Unlock, Progress, Update
<1>10. Bounded(w)
  <2> HIDE DEF w
  <2> QED
    BY <1>6, <1>8 DEF Bounded, Read, Unlock, Progress, Update
<1>11. UnlocksLast(w)
  <2> HIDE DEF w
  <2> QED
    BY <1>6, <1>8 DEF UnlocksLast, Read, Unlock, Progress, Update
<1> QED
  BY <1>6, <1>7, <1>9, <1>10, <1>11

\* warm_agent_cache up to the loop over the conversations.
LEMMA WarmSteps ==
  /\ Warm \in Seq(Steps) /\ Warm # <<>>
  /\ Prepared(Warm, Absent, Absent) /\ Bounded(Warm) /\ UnlocksLast(Warm)
<1> DEFINE keys == Len(KeyOrder)
<1> DEFINE last == 2 * keys + 1
<1>1. keys \in Nat \ {0} /\ last \in Nat /\ last >= 3
  BY CacheAssumption
<1>2. \A j \in 1..keys : KeyOrder[j] \in AgentKeys
  BY CacheAssumption DEF AgentKeys
<1>3. \A i \in 1..last :
        \/ i = last /\ i > 2 * keys
        \/ i <= 2 * keys /\ i % 2 = 1 /\ (i + 1) \div 2 \in 1..keys
        \/ /\ i <= 2 * keys /\ i % 2 = 0 /\ i \div 2 \in 1..keys /\ i # 1
           /\ i - 1 \in 1..last /\ i - 1 <= 2 * keys /\ (i - 1) % 2 = 1 /\ ((i - 1) + 1) \div 2 = i \div 2
  <2> HIDE DEF keys
  <2> QED
    BY <1>1
<1>4. ASSUME NEW i \in 1..last
      PROVE  Warm[i] = CASE i > 2 * keys -> Conversations(0)
                         [] i <= 2 * keys /\ i % 2 = 1 -> Build(KeyOrder[(i + 1) \div 2])
                         [] i <= 2 * keys /\ i % 2 = 0 -> Store(KeyOrder[i \div 2])
  BY DEF Warm
<1>5. \A i \in 1..last :
        /\ i > 2 * keys => Warm[i] = Conversations(0)
        /\ i <= 2 * keys /\ i % 2 = 1 => Warm[i] = Build(KeyOrder[(i + 1) \div 2])
        /\ i <= 2 * keys /\ i % 2 = 0 => Warm[i] = Store(KeyOrder[i \div 2])
  <2> HIDE DEF keys
  <2> QED
    BY <1>1, <1>4
<1>6. \A i \in 1..last :
        \/ i = last /\ Warm[i] = Conversations(0)
        \/ \E k \in AgentKeys : Warm[i] = Build(k)
        \/ i # 1 /\ \E k \in AgentKeys : Warm[i] = Store(k) /\ Warm[i - 1] = Build(k)
  <2> HIDE DEF keys
  <2> QED
    BY <1>2, <1>3, <1>5
<1>7. Warm \in [1..last -> Steps]
  <2>1. 0 \in 0..MaxConvs
    BY CacheAssumption
  <2>2. \A i \in 1..last : Warm[i] \in Steps
    BY <1>6, <2>1, StepsMade
  <2> QED
    BY <2>2 DEF Warm
<1>8. Warm \in Seq(Steps) /\ Len(Warm) = last
  BY <1>1, <1>7, FunctionIsSeq
<1>9. Warm # <<>>
  BY <1>1, <1>8, EmptySeq
<1>a. \A k \in AgentKeys : Build(k).do = "build" /\ Store(k).do = "store" /\ Store(k).key = k
  BY DEF Build, Store
<1>b. Conversations(0).do = "conversations"
  BY DEF Conversations
<1>10. Prepared(Warm, Absent, Absent)
  <2> SUFFICES ASSUME NEW i \in 1..last
               PROVE  /\ Warm[i].do = "store" =>
                           IF i = 1 THEN Absent # Absent ELSE Warm[i - 1] = Build(Warm[i].key)
                      /\ Warm[i].do \notin {"stage", "progress", "update"}
    BY <1>8 DEF Prepared
  <2> HIDE DEF last
  <2> QED
    BY <1>6, <1>a, <1>b
<1>11. Bounded(Warm)
  <2>1. \A i \in 1..last : Warm[i].do \in {"conversations", "build", "store"}
    BY <1>6, <1>a, <1>b
  <2> QED
    BY <1>8, <2>1 DEF Bounded
<1>12. UnlocksLast(Warm)
  <2>1. \A i \in 1..last : i # last => Warm[i].do \in {"build", "store"}
    BY <1>6, <1>a
  <2> QED
    BY <1>8, <2>1 DEF UnlocksLast
<1> QED
  BY <1>8, <1>9, <1>10, <1>11, <1>12

LEMMA ChildStepsKeep ==
  ASSUME NEW v, NEW b
  PROVE  /\ ChildSteps \in Seq(Steps)
         /\ Prepared(ChildSteps, v, b) /\ Bounded(ChildSteps) /\ UnlocksLast(ChildSteps)
<1> DEFINE s == <<Read, Update("warming", 0, 0), Popen>>
<1>1. "warming" \in Stages /\ 0 \in 0..MaxConvs
  BY CacheAssumption DEF Stages
<1>2. s \in Seq(Steps) /\ s # <<>> /\ Len(s) = 3
  BY <1>1, StepsMade
<1>3. Prepared(s, v, b) /\ Bounded(s) /\ \A i \in 1..Len(s) : s[i].do \notin {"conversations", "release"}
  BY DEF Prepared, Bounded, Read, Update, Popen
<1> HIDE DEF s
<1>4. /\ s \o Warm \in Seq(Steps)
      /\ Prepared(s \o Warm, v, b) /\ Bounded(s \o Warm) /\ UnlocksLast(s \o Warm)
  BY <1>2, <1>3, WarmSteps, JoinKeeps
<1> QED
  BY <1>4 DEF ChildSteps, s

LEMMA PipelineStepsKeep ==
  ASSUME NEW v, NEW b
  PROVE  PipelineSteps \in Seq(Steps) /\ Prepared(PipelineSteps, v, b) /\ Bounded(PipelineSteps)
<1> DEFINE s == <<Read, Update("ingest", 0, 0), IngestAll, Read, Stage("sentiment"), Read, Stage("insights"),
                  Read, Stage("intents"), Read, Stage("warming")>>
<1> DEFINE t == <<Read, Stage("ready")>>
<1>1. {"ingest", "sentiment", "insights", "intents", "warming", "ready"} \subseteq Stages /\ 0 \in 0..MaxConvs
  BY CacheAssumption DEF Stages
<1>2. s \in Seq(Steps) /\ s # <<>> /\ t \in Seq(Steps)
  BY <1>1, StepsMade
<1>3. Prepared(s, v, b) /\ Bounded(s) /\ Prepared(t, Absent, Absent) /\ Bounded(t)
  BY DEF Prepared, Bounded, Read, Update, IngestAll, Stage
<1> HIDE DEF s, t
<1>4. s \o Warm \in Seq(Steps) /\ Prepared(s \o Warm, v, b) /\ Bounded(s \o Warm) /\ s \o Warm # <<>>
  <2>1. s \o Warm \in Seq(Steps) /\ Prepared(s \o Warm, v, b) /\ Bounded(s \o Warm)
    BY <1>2, <1>3, WarmSteps, JoinKeeps
  <2>2. s \o Warm # <<>>
    BY <1>2, WarmSteps, ConcatSimplifications
  <2> QED
    BY <2>1, <2>2
<1>5. (s \o Warm) \o t \in Seq(Steps) /\ Prepared((s \o Warm) \o t, v, b) /\ Bounded((s \o Warm) \o t)
  BY <1>2, <1>3, <1>4, JoinKeeps
<1> QED
  BY <1>5 DEF PipelineSteps, s, t
-------------------------------------------------------------------------------
(* Steps and the lists *)

LEMMA TypesInParts ==
  CacheTypeOK <=> DataTypes /\ KeyTypes /\ LockTypes /\ ReadTypes /\ RunTypes /\ TodoTypes
BY DEF CacheTypeOK, DataTypes, KeyTypes, LockTypes, ReadTypes, RunTypes, TodoTypes

\* A list that is not empty has a head, which is a step.
LEMMA HeadOf ==
  ASSUME TodoTypes, NEW p \in Procs, Alive(p)
  PROVE  todo[p] \in Seq(Steps) /\ todo[p] # <<>> /\ Head(todo[p]) = todo[p][1] /\ Head(todo[p]) \in Steps
         /\ 1 \in 1..Len(todo[p])
BY TailByPlace DEF TodoTypes, Alive

\* What the head of a list in order says of what the process has in hand.
LEMMA InHand ==
  ASSUME TodoTypes, TodoInv, NEW p \in Procs
  PROVE  /\ Next1(p, "store") => val[p] # Absent
         /\ Next1(p, "stage") \/ Next1(p, "progress") \/ Next1(p, "update") => blob[p] # Absent
         /\ Next1(p, "progress") \/ Next1(p, "update") => Head(todo[p]).done <= Head(todo[p]).total
         /\ p \in Children /\ (Next1(p, "release") \/ Next1(p, "conversations")) => Tail(todo[p]) = <<>>
<1> SUFFICES ASSUME Alive(p)
             PROVE  /\ Next1(p, "store") => val[p] # Absent
                    /\ Next1(p, "stage") \/ Next1(p, "progress") \/ Next1(p, "update") => blob[p] # Absent
                    /\ Next1(p, "progress") \/ Next1(p, "update") => Head(todo[p]).done <= Head(todo[p]).total
                    /\ p \in Children /\ (Next1(p, "release") \/ Next1(p, "conversations")) => Tail(todo[p]) = <<>>
  BY DEF Next1
<1>1. /\ todo[p] \in Seq(Steps) /\ todo[p] # <<>> /\ Head(todo[p]) = todo[p][1] /\ 1 \in 1..Len(todo[p])
      /\ Prepared(todo[p], val[p], blob[p]) /\ Bounded(todo[p])
      /\ p \in Children => UnlocksLast(todo[p])
  BY HeadOf DEF TodoInv
<1>2. Next1(p, "store") => val[p] # Absent
  BY <1>1 DEF Next1, Prepared
<1>3. Next1(p, "stage") \/ Next1(p, "progress") \/ Next1(p, "update") => blob[p] # Absent
  BY <1>1 DEF Next1, Prepared
<1>4. Next1(p, "progress") \/ Next1(p, "update") => Head(todo[p]).done <= Head(todo[p]).total
  BY <1>1 DEF Next1, Bounded
<1>5. p \in Children /\ (Next1(p, "release") \/ Next1(p, "conversations")) => Tail(todo[p]) = <<>>
  <2> SUFFICES ASSUME p \in Children, Next1(p, "release") \/ Next1(p, "conversations")
               PROVE  Tail(todo[p]) = <<>>
    OBVIOUS
  <2>1. Len(todo[p]) = 1
    BY <1>1 DEF Next1, UnlocksLast
  <2>2. Tail(todo[p]) \in Seq(Steps) /\ Len(Tail(todo[p])) = 0
    BY <1>1, <2>1, TailByPlace
  <2> QED
    BY <2>2, EmptySeq
<1> QED
  BY <1>2, <1>3, <1>4, <1>5

\* What a step may do with the list of a process.
Unmoved(p) == todo'[p] = todo[p] /\ val'[p] = val[p] /\ blob'[p] = blob[p]
Advanced(p) ==
  /\ Alive(p) /\ todo'[p] = Tail(todo[p])
  /\ Head(todo[p]).do = "build" => val'[p] = version
  /\ Head(todo[p]).do = "read" => blob'[p] = run
Listed(p) == Next1(p, "build") /\ todo'[p] = Counted(Tail(todo[p])) /\ val'[p] = version
Planned(p) ==
  /\ Next1(p, "conversations") /\ val'[p] = val[p] /\ blob'[p] = blob[p]
  /\ todo'[p] = WarmConversations(Head(todo[p]).total) \o Tail(todo[p])
Begun(p) ==
  \/ p \in Children /\ todo'[p] = ChildSteps
  \/ p \notin Children /\ todo'[p] = PipelineSteps
Ended(p) == todo'[p] = <<>>

TodoStep ==
  /\ todo' = [p \in Procs |-> todo'[p]]
  /\ \A p \in Procs : Unmoved(p) \/ Advanced(p) \/ Listed(p) \/ Planned(p) \/ Begun(p) \/ Ended(p)

\* Every step does one of these with the list of each process.
LEMMA TodoSteps ==
  ASSUME TodoTypes, ReadTypes, RunTypes, [CacheNext]_cacheVars
  PROVE  TodoStep
<1>0. /\ DOMAIN todo = Procs /\ todo = [p \in Procs |-> todo[p]]
      /\ val \in [Procs \cup Readers -> Versions \cup {Absent}]
      /\ blob \in [Procs -> RunStates \cup {Absent}]
  BY DEF TodoTypes, ReadTypes, RunTypes
<1>1. ASSUME NEW p \in Procs, ProcStep(p)
      PROVE  TodoStep
  <2>1. ASSUME Advanced(p), Step(p), \A q \in Procs \ {p} : val'[q] = val[q] /\ blob'[q] = blob[q]
        PROVE  TodoStep
    BY <1>0, <2>1 DEF TodoStep, Step, Unmoved
  <2>2. CASE BuildPayload(p)
    <3>1. val'[p] = version /\ \A q \in Procs \ {p} : val'[q] = val[q] /\ blob'[q] = blob[q]
      BY <1>0, <2>2 DEF BuildPayload
    <3>2. CASE Step(p)
      BY <1>0, <2>1, <2>2, <3>1, <3>2 DEF BuildPayload, Next1, Advanced, Step
    <3>3. CASE todo' = [todo EXCEPT ![p] = Counted(Tail(@))]
      BY <1>0, <2>2, <3>1, <3>3 DEF BuildPayload, Listed, TodoStep, Unmoved
    <3> QED
      BY <2>2, <3>2, <3>3 DEF BuildPayload
  <2>3. CASE StorePayload(p)
    <3>1. Advanced(p) /\ Step(p) /\ \A q \in Procs \ {p} : val'[q] = val[q] /\ blob'[q] = blob[q]
      BY <1>0, <2>3 DEF StorePayload, Next1, Advanced, Step
    <3> QED
      BY <2>1, <3>1
  <2>4. CASE PlanConversations(p)
    BY <1>0, <2>4 DEF PlanConversations, Planned, TodoStep, Unmoved
  <2>5. CASE ReadRunState(p)
    <3>1. Advanced(p) /\ Step(p) /\ \A q \in Procs \ {p} : val'[q] = val[q] /\ blob'[q] = blob[q]
      BY <1>0, <2>5 DEF ReadRunState, Next1, Advanced, Step
    <3> QED
      BY <2>1, <3>1
  <2>6. CASE WriteRunState(p)
    <3>1. Advanced(p) /\ Step(p) /\ \A q \in Procs \ {p} : val'[q] = val[q] /\ blob'[q] = blob[q]
      BY <1>0, <2>6 DEF WriteRunState, Next1, Advanced, Step
    <3> QED
      BY <2>1, <3>1
  <2>7. CASE ReleaseWarmLock(p)
    <3>1. Advanced(p) /\ Step(p) /\ \A q \in Procs \ {p} : val'[q] = val[q] /\ blob'[q] = blob[q]
      BY <1>0, <2>7 DEF ReleaseWarmLock, Next1, Advanced, Step
    <3> QED
      BY <2>1, <3>1
  <2>8. CASE SpawnChild(p)
    <3>1. Advanced(p) /\ Step(p) /\ \A q \in Procs \ {p} : val'[q] = val[q] /\ blob'[q] = blob[q]
      BY <1>0, <2>8 DEF SpawnChild, Next1, Advanced, Step
    <3> QED
      BY <2>1, <3>1
  <2>9. CASE Ingest(p)
    <3>1. Advanced(p) /\ Step(p) /\ \A q \in Procs \ {p} : val'[q] = val[q] /\ blob'[q] = blob[q]
      BY <1>0, <2>9 DEF Ingest, Next1, Advanced, Step
    <3> QED
      BY <2>1, <3>1
  <2> QED
    BY <1>1, <2>2, <2>3, <2>4, <2>5, <2>6, <2>7, <2>8, <2>9 DEF ProcStep
<1>2. ASSUME NEW p \in Procs, ProcDies(p)
      PROVE  TodoStep
  BY <1>0, <1>2 DEF ProcDies, TodoStep, Ended, Unmoved
<1>3. ASSUME NEW p \in Pipelines, StartPipeline(p)
      PROVE  TodoStep
  BY <1>0, <1>3, CacheAssumption DEF StartPipeline, TodoStep, Begun, Unmoved, Procs
<1>4. ASSUME NEW p \in Children, TriggerWarm(p)
      PROVE  TodoStep
  BY <1>0, <1>4 DEF TriggerWarm, TodoStep, Begun, Unmoved, Procs
<1>5. ASSUME NEW p \in Children, SpawnChildFails(p)
      PROVE  TodoStep
  BY <1>0, <1>5 DEF SpawnChildFails, TodoStep, Ended, Unmoved, Procs
<1>6. ASSUME NEW r \in Readers, StoreRead(r) \/ \E k \in AgentKeys : Miss(r, k)
      PROVE  TodoStep
  <2>1. \A p \in Procs : p # r
    BY CacheAssumption
  <2> QED
    BY <1>0, <1>6, <2>1 DEF StoreRead, Miss, TodoStep, Unmoved
<1>7. ASSUME UNCHANGED <<todo, val, blob>>
      PROVE  TodoStep
  BY <1>0, <1>7 DEF TodoStep, Unmoved
<1>8. CASE \/ ExpireWarmLock \/ PurgeRows \/ UNCHANGED cacheVars
           \/ (\E k \in AgentKeys : ExpireKey(k) \/ DeleteKey(k)) \/ (\E K \in SUBSET doomed : KeysStay(K))
  BY <1>7, <1>8 DEF ExpireWarmLock, ExpireKey, DeleteKey, KeysStay, PurgeRows, cacheVars
<1> QED
  BY <1>1, <1>2, <1>3, <1>4, <1>5, <1>6, <1>8 DEF CacheNext

\* The lists stay in order.
LEMMA TodoPreserved ==
  ASSUME DataTypes, RunTypes, TodoTypes, TodoInv, TodoStep
  PROVE  TodoTypes' /\ TodoInv'
<1>1. ASSUME NEW p \in Procs
      PROVE  /\ todo'[p] \in Seq(Steps) /\ Prepared(todo'[p], val'[p], blob'[p]) /\ Bounded(todo'[p])
             /\ p \in Children => UnlocksLast(todo'[p])
  <2>1. /\ todo[p] \in Seq(Steps) /\ Prepared(todo[p], val[p], blob[p]) /\ Bounded(todo[p])
        /\ p \in Children => UnlocksLast(todo[p])
    BY DEF TodoTypes, TodoInv
  <2>2. version # Absent /\ run # Absent /\ count \in 0..MaxConvs
    BY CacheAssumption DEF DataTypes, RunTypes
  <2>3. ASSUME Alive(p)
        PROVE  todo[p] # <<>> /\ Tail(todo[p]) \in Seq(Steps) /\ Bounded(Tail(todo[p]))
               /\ (p \in Children => UnlocksLast(Tail(todo[p])))
    <3>1. todo[p] # <<>>
      BY <2>3 DEF Alive
    <3> QED
      BY <2>1, <3>1, TailByPlace, TailKeeps
  <2>4. CASE Unmoved(p)
    BY <2>1, <2>4 DEF Unmoved
  <2>5. CASE Advanced(p)
    <3>1. Alive(p) /\ todo'[p] = Tail(todo[p])
      BY <2>5 DEF Advanced
    <3>2. (Head(todo[p]).do = "build" => val'[p] # Absent) /\ (Head(todo[p]).do = "read" => blob'[p] # Absent)
      BY <2>2, <2>5 DEF Advanced
    <3>3. Prepared(Tail(todo[p]), val'[p], blob'[p])
      BY <2>1, <2>3, <3>1, <3>2, TailPrepared
    <3> QED
      BY <2>3, <3>1, <3>3
  <2>6. CASE Listed(p)
    <3>1. Alive(p) /\ Head(todo[p]).do = "build" /\ val'[p] # Absent /\ todo'[p] = Counted(Tail(todo[p]))
      BY <2>2, <2>6 DEF Listed, Next1
    <3>2. Prepared(Tail(todo[p]), val'[p], blob'[p])
      BY <2>1, <2>3, <3>1, TailPrepared
    <3> QED
      BY <2>2, <2>3, <3>1, <3>2, CountedKeeps
  <2>7. CASE Planned(p)
    <3> DEFINE w == WarmConversations(Head(todo[p]).total)
    <3>1. /\ Alive(p) /\ Head(todo[p]).do = "conversations" /\ val'[p] = val[p] /\ blob'[p] = blob[p]
          /\ todo'[p] = w \o Tail(todo[p])
      BY <2>7 DEF Planned, Next1
    <3>2. Head(todo[p]).total \in 0..MaxConvs
      BY <3>1, HeadOf, StepFields
    <3>3. /\ w \in Seq(Steps) /\ w # <<>> /\ Prepared(w, val'[p], blob'[p]) /\ Bounded(w) /\ UnlocksLast(w)
      BY <3>2, ConversationSteps
    <3>4. Prepared(Tail(todo[p]), Absent, Absent)
      BY <2>1, <2>3, <3>1, TailPrepared
    <3> HIDE DEF w
    <3>5. w \o Tail(todo[p]) \in Seq(Steps) /\ Prepared(w \o Tail(todo[p]), val'[p], blob'[p])
          /\ Bounded(w \o Tail(todo[p]))
      BY <2>3, <3>1, <3>3, <3>4, JoinKeeps
    <3>6. p \in Children => w \o Tail(todo[p]) = w
      <4> SUFFICES ASSUME p \in Children
                   PROVE  w \o Tail(todo[p]) = w
        OBVIOUS
      <4>1. Next1(p, "conversations")
        BY <3>1 DEF Next1
      <4>2. Tail(todo[p]) = <<>>
        BY <4>1, InHand
      <4> QED
        BY <3>3, <4>2, ConcatEmptySeq
    <3> QED
      BY <3>1, <3>3, <3>5, <3>6
  <2>8. CASE Begun(p)
    BY <2>8, ChildStepsKeep, PipelineStepsKeep DEF Begun
  <2>9. CASE Ended(p)
    <3>1. <<>> \in Seq(Steps) /\ Len(<<>>) = 0
      BY EmptySeq
    <3> QED
      BY <2>9, <3>1 DEF Ended, Prepared, Bounded, UnlocksLast
  <2> QED
    BY <2>4, <2>5, <2>6, <2>7, <2>8, <2>9 DEF TodoStep
<1>2. TodoInv'
  BY <1>1 DEF TodoInv, Procs
<1>3. TodoTypes'
  <2>1. todo' = [p \in Procs |-> todo'[p]]
    BY DEF TodoStep
  <2> QED
    BY <1>1, <2>1 DEF TodoTypes
<1> QED
  BY <1>2, <1>3
-------------------------------------------------------------------------------
(* Types *)

\* Writing a field of a run state leaves a run state.
LEMMA MergedTypes ==
  ASSUME NEW s \in Steps, s.do \in {"stage", "progress", "update"}, NEW old \in RunStates
  PROVE  /\ Merged(s, old) \in RunStates
         /\ s.do = "stage" => Merged(s, old).done = old.done /\ Merged(s, old).total = old.total
         /\ s.do # "stage" => Merged(s, old).done = s.done /\ Merged(s, old).total = s.total
<1>1. CASE s.do = "stage"
  BY <1>1, StepFields DEF Merged, RunStates
<1>2. CASE s.do = "progress"
  BY <1>2, StepFields DEF Merged, RunStates
<1>3. CASE s.do = "update"
  BY <1>3, StepFields DEF Merged, RunStates
<1> QED
  BY <1>1, <1>2, <1>3

LEMMA TypesPreserved ==
  ASSUME CacheTypeOK, TodoInv, [CacheNext]_cacheVars
  PROVE  CacheTypeOK'
<1>0. DataTypes /\ KeyTypes /\ LockTypes /\ ReadTypes /\ RunTypes /\ TodoTypes
  BY TypesInParts
<1>a. /\ MaxVersion \in Nat /\ MaxFaults \in Nat /\ MaxConvs \in Nat
      /\ Absent \notin AgentKeys /\ Absent \notin Procs /\ Absent \notin Versions /\ Absent \notin RunStates
      /\ \A p \in Procs, r \in Readers : p # r
  BY CacheAssumption
<1>b. TodoTypes'
  BY <1>0, TodoSteps, TodoPreserved
<1> DEFINE Rest == (DataTypes /\ KeyTypes /\ LockTypes /\ ReadTypes /\ RunTypes)'
<1>1. ASSUME NEW p \in Procs, BuildPayload(p)
      PROVE  Rest
  BY <1>0, <1>a, <1>1
     DEF BuildPayload, dataVars, DataTypes, KeyTypes, LockTypes, ReadTypes, RunTypes
<1>2. ASSUME NEW p \in Procs, StorePayload(p)
      PROVE  Rest
  <2>1. Head(todo[p]).key \in AgentKeys /\ val[p] \in Versions
    BY <1>0, <1>2, HeadOf, StepFields, InHand DEF StorePayload, Next1, ReadTypes
  <2> QED
    BY <1>0, <1>a, <1>2, <2>1
       DEF StorePayload, dataVars, DataTypes, KeyTypes, LockTypes, ReadTypes, RunTypes
<1>3. ASSUME NEW p \in Procs, PlanConversations(p)
      PROVE  Rest
  BY <1>0, <1>3 DEF PlanConversations, dataVars, DataTypes, KeyTypes, LockTypes, ReadTypes, RunTypes
<1>4. ASSUME NEW p \in Procs, ReadRunState(p)
      PROVE  Rest
  BY <1>0, <1>4 DEF ReadRunState, dataVars, DataTypes, KeyTypes, LockTypes, ReadTypes, RunTypes
<1>5. ASSUME NEW p \in Procs, WriteRunState(p)
      PROVE  Rest
  <2>1. run' \in RunStates
    <3>1. blob[p] \in RunStates
      BY <1>0, <1>5, InHand DEF WriteRunState, RunTypes
    <3>2. Head(todo[p]) \in Steps /\ Head(todo[p]).do \in {"stage", "progress", "update"}
      BY <1>0, <1>5, HeadOf DEF WriteRunState, Next1
    <3> QED
      BY <1>5, <3>1, <3>2, MergedTypes DEF WriteRunState
  <2> QED
    BY <1>0, <1>5, <2>1 DEF WriteRunState, dataVars, DataTypes, KeyTypes, LockTypes, ReadTypes, RunTypes
<1>6. ASSUME NEW p \in Procs, ReleaseWarmLock(p)
      PROVE  Rest
  BY <1>0, <1>6 DEF ReleaseWarmLock, Dispossess, dataVars, DataTypes, KeyTypes, LockTypes, ReadTypes, RunTypes
<1>7. ASSUME NEW p \in Procs, SpawnChild(p)
      PROVE  Rest
  BY <1>0, <1>7 DEF SpawnChild, dataVars, DataTypes, KeyTypes, LockTypes, ReadTypes, RunTypes
<1>8. ASSUME NEW p \in Procs, Ingest(p)
      PROVE  Rest
  <2>1. version' \in Versions /\ count' \in 0..MaxConvs
    BY <1>0, <1>a, <1>8 DEF Ingest, DataTypes, Versions
  <2> QED
    BY <1>0, <1>8, <2>1 DEF Ingest, DataTypes, KeyTypes, LockTypes, ReadTypes, RunTypes
<1>9. ASSUME NEW p \in Procs, ProcDies(p)
      PROVE  Rest
  BY <1>0, <1>a, <1>9 DEF ProcDies, dataVars, DataTypes, KeyTypes, LockTypes, ReadTypes, RunTypes
<1>10. ASSUME NEW p \in Pipelines, StartPipeline(p)
       PROVE  Rest
  BY <1>0, <1>10 DEF StartPipeline, dataVars, DataTypes, KeyTypes, LockTypes, ReadTypes, RunTypes
<1>11. ASSUME NEW p \in Children, TriggerWarm(p)
       PROVE  Rest
  BY <1>0, <1>11 DEF TriggerWarm, dataVars, DataTypes, KeyTypes, LockTypes, ReadTypes, RunTypes
<1>12. ASSUME NEW p \in Children, SpawnChildFails(p)
       PROVE  Rest
  BY <1>0, <1>a, <1>12
     DEF SpawnChildFails, Dispossess, dataVars, DataTypes, KeyTypes, LockTypes, ReadTypes, RunTypes
<1>13. ASSUME ExpireWarmLock
       PROVE  Rest
  <2>1. LockTypes'
    <3>1. warmLock \in Children /\ (unlocked' = unlocked \cup {warmLock} \/ unlocked' = unlocked)
      BY <1>0, <1>13 DEF ExpireWarmLock, LockTypes
    <3> QED
      BY <1>0, <1>13, <3>1 DEF ExpireWarmLock, LockTypes
  <2>2. UNCHANGED <<dataVars, cache, run, val, blob, reading, doomed, faults, raced>>
    BY <1>13 DEF ExpireWarmLock
  <2> QED
    BY <1>0, <2>1, <2>2 DEF dataVars, DataTypes, KeyTypes, ReadTypes, RunTypes
<1>14. ASSUME NEW k \in AgentKeys, ExpireKey(k)
       PROVE  Rest
  BY <1>0, <1>a, <1>14 DEF ExpireKey, dataVars, DataTypes, KeyTypes, LockTypes, ReadTypes, RunTypes
<1>15. ASSUME NEW r \in Readers, NEW k \in AgentKeys, Miss(r, k)
       PROVE  Rest
  BY <1>0, <1>a, <1>15 DEF Miss, dataVars, DataTypes, KeyTypes, LockTypes, ReadTypes, RunTypes
<1>16. ASSUME NEW r \in Readers, StoreRead(r)
       PROVE  Rest
  <2>1. reading[r] \in AgentKeys /\ val[r] \in Versions
    BY <1>0, <1>16 DEF StoreRead, ReadTypes
  <2> QED
    BY <1>0, <1>a, <1>16, <2>1 DEF StoreRead, dataVars, DataTypes, KeyTypes, LockTypes, ReadTypes, RunTypes
<1>17. ASSUME PurgeRows
       PROVE  Rest
  <2>1. DataTypes'
    <3>1. version' = version + 1 /\ purgedAt' = version' /\ version < MaxVersion
      BY <1>17 DEF PurgeRows
    <3>2. version' \in Versions /\ purgedAt' \in Versions
      BY <1>0, <1>a, <3>1 DEF DataTypes, Versions
    <3> QED
      BY <1>0, <1>a, <1>17, <3>2 DEF PurgeRows, DataTypes
  <2> QED
    BY <1>0, <1>17, <2>1 DEF PurgeRows, KeyTypes, LockTypes, ReadTypes, RunTypes
<1>18. ASSUME NEW k \in AgentKeys, DeleteKey(k)
       PROVE  Rest
  <2>1. KeyTypes'
    <3>1. raced' = raced \cup {k} \/ raced' = raced \ {k}
      BY <1>18 DEF DeleteKey
    <3> QED
      BY <1>0, <1>18, <3>1 DEF DeleteKey, KeyTypes
  <2>2. UNCHANGED <<dataVars, warmLock, run, val, blob, reading, faults, unlocked>>
    BY <1>18 DEF DeleteKey
  <2> QED
    BY <1>0, <2>1, <2>2 DEF dataVars, DataTypes, LockTypes, ReadTypes, RunTypes
<1>19. ASSUME UNCHANGED cacheVars
       PROVE  Rest
  <2>1. DataTypes' /\ KeyTypes' /\ LockTypes'
    BY <1>0, <1>19 DEF cacheVars, DataTypes, KeyTypes, LockTypes
  <2>2. ReadTypes' /\ RunTypes'
    BY <1>0, <1>19 DEF cacheVars, ReadTypes, RunTypes
  <2> QED
    BY <2>1, <2>2
<1>21. ASSUME NEW K \in SUBSET doomed, KeysStay(K)
       PROVE  Rest
  <2>1. faults' \in 0..MaxFaults
    <3>1. faults' = faults + 1 /\ faults < MaxFaults
      BY <1>21 DEF KeysStay
    <3> QED
      BY <1>0, <1>a, <3>1 DEF DataTypes
  <2>2. KeyTypes' /\ UNCHANGED <<dataVars, warmLock, run, val, blob, reading, unlocked>>
    BY <1>0, <1>21 DEF KeysStay, KeyTypes
  <2> QED
    BY <1>0, <2>1, <2>2 DEF dataVars, DataTypes, LockTypes, ReadTypes, RunTypes
<1>20. Rest
  BY <1>1, <1>2, <1>3, <1>4, <1>5, <1>6, <1>7, <1>8, <1>9, <1>10, <1>11, <1>12, <1>13, <1>14, <1>15,
     <1>16, <1>17, <1>18, <1>19, <1>21 DEF CacheNext, ProcStep
<1> QED
  BY <1>20, <1>b DEF CacheTypeOK, DataTypes, KeyTypes, LockTypes, ReadTypes, RunTypes, TodoTypes
-------------------------------------------------------------------------------
(* The warming lock, the run state *)

LEMMA WarmLockPreserved ==
  ASSUME CacheTypeOK, TodoInv, WarmLockInv, [CacheNext]_cacheVars
  PROVE  WarmLockInv'
<1>0. LockTypes /\ TodoTypes /\ ReadTypes /\ RunTypes
  BY TypesInParts
<1>a. Absent \notin Children /\ Children \subseteq Procs /\ DOMAIN todo = Procs
  BY <1>0, CacheAssumption DEF Procs, TodoTypes
<1>1. ASSUME UNCHANGED <<warmLock, unlocked>>, \A q \in Children : Alive(q)' => Alive(q)
      PROVE  WarmLockInv'
  BY <1>1 DEF WarmLockInv
<1>2. ASSUME NEW p \in Procs, Step(p), Alive(p)
      PROVE  \A q \in Children : Alive(q)' => Alive(q)
  BY <1>a, <1>2 DEF Step, Alive
<1>3. ASSUME NEW p \in Procs, ProcStep(p)
      PROVE  WarmLockInv'
  <2>1. CASE ReleaseWarmLock(p)
    <3>1. \A q \in Children : Alive(q)' => Alive(q) /\ q # p
      <4>1. p \in Children => Tail(todo[p]) = <<>>
        BY <1>0, <2>1, InHand DEF ReleaseWarmLock
      <4> QED
        BY <1>a, <2>1, <4>1 DEF ReleaseWarmLock, Next1, Step, Alive
    <3> QED
      BY <2>1, <3>1 DEF ReleaseWarmLock, Dispossess, WarmLockInv
  <2>2. CASE BuildPayload(p)
    <3>1. \A q \in Children : Alive(q)' => Alive(q)
      BY <1>a, <2>2 DEF BuildPayload, Next1, Step, Alive
    <3> QED
      BY <1>1, <2>2, <3>1 DEF BuildPayload
  <2>3. CASE PlanConversations(p)
    <3>1. \A q \in Children : Alive(q)' => Alive(q)
      BY <1>a, <2>3 DEF PlanConversations, Next1, Alive
    <3> QED
      BY <1>1, <2>3, <3>1 DEF PlanConversations
  <2>4. CASE StorePayload(p)
    BY <1>1, <1>2, <2>4 DEF StorePayload, Next1
  <2>5. CASE ReadRunState(p)
    BY <1>1, <1>2, <2>5 DEF ReadRunState, Next1
  <2>6. CASE WriteRunState(p)
    BY <1>1, <1>2, <2>6 DEF WriteRunState, Next1
  <2>7. CASE SpawnChild(p)
    BY <1>1, <1>2, <2>7 DEF SpawnChild, Next1
  <2>8. CASE Ingest(p)
    BY <1>1, <1>2, <2>8 DEF Ingest, Next1
  <2> QED
    BY <1>3, <2>1, <2>2, <2>3, <2>4, <2>5, <2>6, <2>7, <2>8 DEF ProcStep
<1>4. ASSUME NEW p \in Procs, ProcDies(p)
      PROVE  WarmLockInv'
  <2>1. \A q \in Children : Alive(q)' => Alive(q) /\ q # p
    BY <1>a, <1>4 DEF ProcDies, Alive
  <2> QED
    BY <1>4, <2>1 DEF ProcDies, WarmLockInv
<1>5. ASSUME NEW p \in Pipelines, StartPipeline(p)
      PROVE  WarmLockInv'
  <2>1. p \in Procs /\ p \notin Children
    BY CacheAssumption DEF Procs
  <2>2. \A q \in Children : Alive(q)' => Alive(q)
    BY <1>a, <1>5, <2>1 DEF StartPipeline, Alive
  <2> QED
    BY <1>1, <1>5, <2>2 DEF StartPipeline
<1>6. ASSUME NEW p \in Children, TriggerWarm(p)
      PROVE  WarmLockInv'
  <2>1. \A q \in Children : Alive(q)' => Alive(q) \/ q = p
    BY <1>a, <1>6 DEF TriggerWarm, Alive
  <2> QED
    BY <1>a, <1>6, <2>1 DEF TriggerWarm, WarmLockInv
<1>7. ASSUME NEW p \in Children, SpawnChildFails(p)
      PROVE  WarmLockInv'
  <2>1. \A q \in Children : Alive(q)' => Alive(q) /\ q # p
    BY <1>a, <1>7 DEF SpawnChildFails, Alive
  <2> QED
    BY <1>7, <2>1 DEF SpawnChildFails, Dispossess, WarmLockInv
<1>8. CASE ExpireWarmLock
  <2>1. todo' = todo /\ \A q \in Children : Alive(q)' => Alive(q)
    BY <1>8 DEF ExpireWarmLock, Alive
  <2> QED
    BY <1>8, <2>1 DEF ExpireWarmLock, WarmLockInv
<1>9. CASE \/ \E k \in AgentKeys : ExpireKey(k) \/ DeleteKey(k)
           \/ \E r \in Readers : StoreRead(r) \/ \E k \in AgentKeys : Miss(r, k)
           \/ PurgeRows \/ UNCHANGED cacheVars \/ \E K \in SUBSET doomed : KeysStay(K)
  <2>1. UNCHANGED <<warmLock, unlocked, todo>>
    BY <1>9 DEF ExpireKey, DeleteKey, KeysStay, StoreRead, Miss, PurgeRows, cacheVars
  <2> QED
    BY <1>1, <2>1 DEF Alive
<1> QED
  BY <1>3, <1>4, <1>5, <1>6, <1>7, <1>8, <1>9 DEF CacheNext

LEMMA ProgressPreserved ==
  ASSUME CacheTypeOK, TodoInv, ProgressInv, [CacheNext]_cacheVars
  PROVE  ProgressInv'
<1>0. RunTypes /\ TodoTypes /\ Absent \notin RunStates
  BY TypesInParts, CacheAssumption
<1>1. ASSUME NEW p \in Procs, ReadRunState(p)
      PROVE  ProgressInv'
  BY <1>0, <1>1 DEF ReadRunState, ProgressInv, ProgressBounded, RunTypes
<1>2. ASSUME NEW p \in Procs, WriteRunState(p)
      PROVE  ProgressInv'
  <2>1. blob[p] \in RunStates /\ blob[p].done <= blob[p].total
    BY <1>0, <1>2, InHand DEF WriteRunState, RunTypes, ProgressInv
  <2>2. /\ Head(todo[p]) \in Steps /\ Head(todo[p]).do \in {"stage", "progress", "update"}
        /\ Head(todo[p]).do # "stage" => Head(todo[p]).done <= Head(todo[p]).total
    BY <1>0, <1>2, HeadOf, InHand DEF WriteRunState, Next1
  <2>3. run'.done <= run'.total
    BY <1>2, <2>1, <2>2, MergedTypes DEF WriteRunState
  <2> QED
    BY <1>0, <1>2, <2>3 DEF WriteRunState, ProgressInv, ProgressBounded, RunTypes
<1>3. ASSUME NEW p \in Procs, ProcDies(p)
      PROVE  ProgressInv'
  BY <1>0, <1>3 DEF ProcDies, ProgressInv, ProgressBounded, RunTypes
<1>4. ASSUME UNCHANGED <<run, blob>>
      PROVE  ProgressInv'
  BY <1>4 DEF ProgressInv, ProgressBounded
<1>5. ASSUME NEW p \in Procs, \/ BuildPayload(p) \/ StorePayload(p) \/ PlanConversations(p)
                              \/ ReleaseWarmLock(p) \/ SpawnChild(p) \/ Ingest(p)
      PROVE  ProgressInv'
  BY <1>4, <1>5 DEF BuildPayload, StorePayload, PlanConversations, ReleaseWarmLock, SpawnChild, Ingest
<1>6. ASSUME NEW p \in Procs, StartPipeline(p) \/ TriggerWarm(p) \/ SpawnChildFails(p)
      PROVE  ProgressInv'
  BY <1>4, <1>6 DEF StartPipeline, TriggerWarm, SpawnChildFails
<1>7. CASE \/ \E k \in AgentKeys : ExpireKey(k) \/ DeleteKey(k)
           \/ \E r \in Readers : StoreRead(r) \/ \E k \in AgentKeys : Miss(r, k)
           \/ ExpireWarmLock \/ PurgeRows \/ UNCHANGED cacheVars \/ \E K \in SUBSET doomed : KeysStay(K)
  BY <1>4, <1>7 DEF ExpireKey, DeleteKey, KeysStay, StoreRead, Miss, ExpireWarmLock, PurgeRows, cacheVars
<1> QED
  BY <1>1, <1>2, <1>3, <1>5, <1>6, <1>7 DEF CacheNext, ProcStep, Procs
-------------------------------------------------------------------------------
(* The purge *)

\* No step puts a payload from before the purge on its way.
LEMMA NothingSetsOut ==
  ASSUME CacheTypeOK, TodoInv, purgedAt <= version, [CacheNext]_cacheVars, ~PurgeRows,
         NEW k \in AgentKeys, OnItsWay(k)'
  PROVE  OnItsWay(k)
<1>0. DataTypes /\ TodoTypes /\ ReadTypes /\ RunTypes /\ TodoStep /\ TodoTypes' /\ TodoInv'
  BY TypesInParts, TodoSteps, TodoPreserved
<1>a. /\ Absent \notin AgentKeys /\ Absent \notin Versions
      /\ \A p \in Procs, r \in Readers : p # r
      /\ version \in Nat /\ purgedAt \in Nat
  BY <1>0, CacheAssumption DEF DataTypes, Versions
<1>1. purgedAt' = purgedAt
  BY DEF CacheNext, ProcStep, BuildPayload, StorePayload, PlanConversations, ReadRunState, WriteRunState,
         ReleaseWarmLock, SpawnChild, Ingest, ProcDies, StartPipeline, TriggerWarm, SpawnChildFails,
         ExpireWarmLock, ExpireKey, Miss, StoreRead, DeleteKey, KeysStay, dataVars, cacheVars
<1>2. ASSUME NEW r \in Readers, reading'[r] = k, val'[r] < purgedAt
      PROVE  OnItsWay(k)
  <2>1. \/ reading'[r] = reading[r] /\ val'[r] = val[r]
        \/ reading'[r] = Absent
        \/ val'[r] = version
    <3>1. ASSUME NEW p \in Procs, ProcStep(p) \/ ProcDies(p)
          PROVE  reading'[r] = reading[r] /\ val'[r] = val[r]
      BY <1>0, <1>a, <3>1
         DEF ProcStep, BuildPayload, StorePayload, PlanConversations, ReadRunState, WriteRunState,
             ReleaseWarmLock, SpawnChild, Ingest, ProcDies, ReadTypes
    <3>2. ASSUME NEW q \in Readers, StoreRead(q) \/ \E l \in AgentKeys : Miss(q, l)
          PROVE  \/ reading'[r] = reading[r] /\ val'[r] = val[r]
                 \/ reading'[r] = Absent
                 \/ val'[r] = version
      BY <1>0, <3>2 DEF StoreRead, Miss, ReadTypes
    <3>3. ASSUME NEW p \in Procs, StartPipeline(p) \/ TriggerWarm(p) \/ SpawnChildFails(p)
          PROVE  UNCHANGED <<reading, val>>
      BY <3>3 DEF StartPipeline, TriggerWarm, SpawnChildFails
    <3>4. CASE \/ ExpireWarmLock \/ (\E l \in AgentKeys : ExpireKey(l) \/ DeleteKey(l))
               \/ (\E K \in SUBSET doomed : KeysStay(K)) \/ UNCHANGED cacheVars
      BY <3>4 DEF ExpireWarmLock, ExpireKey, DeleteKey, KeysStay, cacheVars
    <3> QED
      BY <3>1, <3>2, <3>3, <3>4 DEF CacheNext, Procs
  <2>2. reading[r] = k /\ val[r] < purgedAt
    BY <1>2, <1>a, <2>1
  <2> QED
    BY <2>2 DEF OnItsWay
<1>3. ASSUME NEW p \in Procs, Next1(p, "store")', Head(todo'[p]).key = k, val'[p] < purgedAt
      PROVE  OnItsWay(k)
  <2>1. val'[p] # version
    BY <1>a, <1>3
  <2>2. /\ todo'[p] \in Seq(Steps) /\ todo'[p] # <<>> /\ Head(todo'[p]).do = "store"
        /\ Head(todo'[p]) = todo'[p][1] /\ 1 \in 1..Len(todo'[p])
    <3>1. todo'[p] \in Seq(Steps) /\ todo'[p] # <<>> /\ Head(todo'[p]).do = "store"
      BY <1>0, <1>3 DEF TodoTypes, Next1, Alive
    <3> QED
      BY <3>1, TailByPlace
  <2>3. CASE Unmoved(p)
    BY <1>3, <2>3 DEF Unmoved, OnItsWay, Next1, Alive
  <2>4. ASSUME Alive(p), \/ todo'[p] = Tail(todo[p]) \/ todo'[p] = Counted(Tail(todo[p]))
        PROVE  Head(todo[p]).do = "build"
    <3>1. /\ todo[p] \in Seq(Steps) /\ todo[p] # <<>> /\ Prepared(todo[p], val[p], blob[p])
      BY <1>0, <2>4 DEF TodoTypes, TodoInv, Alive
    <3>2. Tail(todo[p]) \in Seq(Steps) /\ DOMAIN Tail(todo[p]) = 1..Len(Tail(todo[p])) /\ Len(Tail(todo[p])) \in Nat
      BY <3>1, TailByPlace, LenProperties
    <3>3. 1 \in 1..Len(Tail(todo[p])) /\ Tail(todo[p])[1].do = "store"
      <4>1. CASE todo'[p] = Tail(todo[p])
        BY <2>2, <4>1
      <4>2. CASE todo'[p] = Counted(Tail(todo[p]))
        <5>1. Len(todo'[p]) = Len(Tail(todo[p]))
          <6>1. DOMAIN todo'[p] = 1..Len(Tail(todo[p]))
            BY <3>2, <4>2 DEF Counted
          <6>2. DOMAIN todo'[p] = 1..Len(todo'[p]) /\ Len(todo'[p]) \in Nat
            BY <2>2, LenProperties
          <6> QED
            BY <3>2, <6>1, <6>2
        <5>2. 1 \in DOMAIN Tail(todo[p])
          BY <2>2, <3>2, <5>1
        <5> QED
          BY <2>2, <3>2, <4>2, <5>1, <5>2 DEF Counted, Conversations
      <4> QED
        BY <2>4, <4>1, <4>2
    <3>4. Tail(todo[p])[1] = todo[p][2] /\ 2 \in 1..Len(todo[p]) /\ Head(todo[p]) = todo[p][1]
      BY <3>1, <3>3, TailByPlace
    <3>5. todo[p][1] = Build(todo[p][2].key)
      BY <3>1, <3>3, <3>4 DEF Prepared
    <3> QED
      BY <3>4, <3>5 DEF Build
  <2>5. CASE Advanced(p)
    BY <2>1, <2>4, <2>5 DEF Advanced
  <2>6. CASE Listed(p)
    BY <2>1, <2>6 DEF Listed
  <2>7. CASE Planned(p)
    <3> DEFINE w == WarmConversations(Head(todo[p]).total)
    <3>1. Alive(p) /\ Head(todo[p]).do = "conversations" /\ todo'[p] = w \o Tail(todo[p])
      BY <2>7 DEF Planned, Next1
    <3>2. Head(todo[p]).total \in 0..MaxConvs
      BY <1>0, <3>1, HeadOf, StepFields
    <3>3. w \in Seq(Steps) /\ w # <<>> /\ Prepared(w, Absent, Absent)
      BY <3>2, ConversationSteps
    <3> HIDE DEF w
    <3>4. todo'[p][1] = w[1] /\ 1 \in 1..Len(w)
      <4>1. Tail(todo[p]) \in Seq(Steps) /\ Len(w) \in Nat \ {0} /\ Len(Tail(todo[p])) \in Nat
        BY <1>0, <3>1, <3>3, TailByPlace, LenProperties, EmptySeq DEF Alive, TodoTypes
      <4> QED
        BY <3>1, <3>3, <4>1, ConcatProperties
    <3> QED
      BY <2>2, <3>3, <3>4 DEF Prepared
  <2>8. CASE Begun(p)
    <3>1. Prepared(todo'[p], Absent, Absent)
      BY <2>8, ChildStepsKeep, PipelineStepsKeep DEF Begun
    <3> QED
      BY <2>2, <3>1 DEF Prepared
  <2>9. CASE Ended(p)
    BY <2>2, <2>9 DEF Ended
  <2> QED
    BY <1>0, <2>3, <2>5, <2>6, <2>7, <2>8, <2>9 DEF TodoStep
<1> QED
  BY <1>1, <1>2, <1>3 DEF OnItsWay

LEMMA PurgePreserved ==
  ASSUME CacheTypeOK, TodoInv, PurgeInv, [CacheNext]_cacheVars
  PROVE  PurgeInv'
<1>0. DataTypes /\ KeyTypes /\ TodoTypes /\ ReadTypes /\ RunTypes
  BY TypesInParts
<1>a. /\ version \in Nat /\ purgedAt \in Nat /\ purgedAt <= version
      /\ \A k \in AgentKeys \ doomed : cache[k] # Absent /\ cache[k] < purgedAt => k \in raced
      /\ \A k \in AgentKeys \ doomed : OnItsWay(k) => k \in raced
  BY <1>0, CacheAssumption DEF PurgeInv, PurgedStaysGone, DataTypes, Versions
<1>1. CASE PurgeRows
  <2>1. purgedAt' = version' /\ doomed' = AgentKeys /\ version' \in Nat
    BY <1>a, <1>1 DEF PurgeRows
  <2> QED
    BY <2>1 DEF PurgeInv, PurgedStaysGone
<1>2. CASE ~PurgeRows
  <2>1. \A k \in AgentKeys : OnItsWay(k)' => OnItsWay(k)
    BY <1>2, <1>a, NothingSetsOut
  <2>2. ASSUME purgedAt' = purgedAt, purgedAt <= version', UNCHANGED <<doomed, raced>>,
               \A k \in AgentKeys : \/ cache'[k] = cache[k] \/ cache'[k] = Absent
                                    \/ cache'[k] < purgedAt => OnItsWay(k)
        PROVE  PurgeInv'
    <3>1. \A k \in AgentKeys \ doomed : cache'[k] # Absent /\ cache'[k] < purgedAt => k \in raced
      BY <1>a, <2>2
    <3>2. \A k \in AgentKeys \ doomed : OnItsWay(k)' => k \in raced
      BY <1>a, <2>1
    <3> QED
      BY <2>2, <3>1, <3>2 DEF PurgeInv, PurgedStaysGone
  <2>3. ASSUME NEW p \in Procs, StorePayload(p)
        PROVE  PurgeInv'
    <3>1. \A k \in AgentKeys : cache'[k] = cache[k] \/ (cache'[k] < purgedAt => OnItsWay(k))
      BY <1>0, <2>3 DEF StorePayload, OnItsWay, KeyTypes
    <3> QED
      BY <1>a, <2>2, <2>3, <3>1 DEF StorePayload, dataVars
  <2>4. ASSUME NEW r \in Readers, StoreRead(r)
        PROVE  PurgeInv'
    <3>1. \A k \in AgentKeys : cache'[k] = cache[k] \/ (cache'[k] < purgedAt => OnItsWay(k))
      BY <1>0, <2>4 DEF StoreRead, OnItsWay, KeyTypes
    <3> QED
      BY <1>a, <2>2, <2>4, <3>1 DEF StoreRead, dataVars
  <2>5. ASSUME NEW l \in AgentKeys, ExpireKey(l)
        PROVE  PurgeInv'
    <3>1. \A k \in AgentKeys : cache'[k] = cache[k] \/ cache'[k] = Absent
      BY <1>0, <2>5 DEF ExpireKey, KeyTypes
    <3> QED
      BY <1>a, <2>2, <2>5, <3>1 DEF ExpireKey, dataVars
  <2>6. ASSUME NEW l \in AgentKeys, DeleteKey(l)
        PROVE  PurgeInv'
    <3>1. /\ UNCHANGED <<version, purgedAt>> /\ doomed' = doomed \ {l}
          /\ cache' = [cache EXCEPT ![l] = Absent]
          /\ OnItsWay(l) => raced' = raced \cup {l}
          /\ ~OnItsWay(l) => raced' = raced \ {l}
      BY <2>6 DEF DeleteKey, dataVars
    <3>2. ASSUME NEW k \in AgentKeys \ doomed', cache'[k] # Absent, cache'[k] < purgedAt
          PROVE  k \in raced'
      <4>1. k # l /\ cache'[k] = cache[k] /\ k \in AgentKeys \ doomed
        BY <1>0, <3>1, <3>2 DEF KeyTypes
      <4>2. k \in raced
        BY <1>a, <3>2, <4>1
      <4> QED
        BY <3>1, <4>1, <4>2
    <3>3. ASSUME NEW k \in AgentKeys \ doomed', OnItsWay(k)'
          PROVE  k \in raced'
      <4>1. OnItsWay(k)
        BY <2>1, <3>3
      <4>2. CASE k = l
        BY <3>1, <4>1, <4>2
      <4>3. CASE k # l
        <5>1. k \in raced
          BY <1>a, <3>1, <3>3, <4>1, <4>3
        <5> QED
          BY <3>1, <4>3, <5>1
      <4> QED
        BY <4>2, <4>3
    <3> QED
      BY <1>a, <3>1, <3>2, <3>3 DEF PurgeInv, PurgedStaysGone
  <2>12. ASSUME NEW K \in SUBSET doomed, KeysStay(K)
         PROVE  PurgeInv'
    <3>1. /\ UNCHANGED <<version, purgedAt, cache>>
          /\ doomed' = doomed \ K /\ raced' = raced \cup K
      BY <2>12 DEF KeysStay, dataVars
    <3>2. \A k \in AgentKeys \ doomed' : k \in raced' \/ k \in AgentKeys \ doomed
      BY <3>1
    <3> QED
      BY <1>a, <2>1, <3>1, <3>2 DEF PurgeInv, PurgedStaysGone
  <2>7. ASSUME NEW p \in Procs, Ingest(p)
        PROVE  PurgeInv'
    <3>1. version' \in {version, version + 1} /\ UNCHANGED <<cache, purgedAt, doomed, raced>>
      BY <2>7 DEF Ingest
    <3> QED
      BY <1>a, <2>2, <3>1
  <2>8. ASSUME UNCHANGED <<version, purgedAt, cache, doomed, raced>>
        PROVE  PurgeInv'
    BY <1>a, <2>2, <2>8
  <2>9. ASSUME NEW p \in Procs, \/ BuildPayload(p) \/ PlanConversations(p) \/ ReadRunState(p)
                                \/ WriteRunState(p) \/ ReleaseWarmLock(p) \/ SpawnChild(p) \/ ProcDies(p)
        PROVE  PurgeInv'
    BY <2>8, <2>9 DEF BuildPayload, PlanConversations, ReadRunState, WriteRunState, ReleaseWarmLock,
                      SpawnChild, ProcDies, dataVars
  <2>10. ASSUME NEW p \in Procs, StartPipeline(p) \/ TriggerWarm(p) \/ SpawnChildFails(p)
         PROVE  PurgeInv'
    BY <2>8, <2>10 DEF StartPipeline, TriggerWarm, SpawnChildFails, dataVars
  <2>11. CASE ExpireWarmLock \/ (\E r \in Readers, k \in AgentKeys : Miss(r, k)) \/ UNCHANGED cacheVars
    BY <2>8, <2>11 DEF ExpireWarmLock, Miss, dataVars, cacheVars
  <2> QED
    BY <1>2, <2>3, <2>4, <2>5, <2>6, <2>7, <2>9, <2>10, <2>11, <2>12 DEF CacheNext, ProcStep, Procs
<1> QED
  BY <1>1, <1>2
-------------------------------------------------------------------------------
(* The theorems *)

LEMMA CacheInitial == CacheInit => CacheInv
<1> SUFFICES ASSUME CacheInit
             PROVE  CacheInv
  OBVIOUS
<1>0. /\ MaxConvs \in Nat /\ MaxVersion \in Nat /\ MaxFaults \in Nat
      /\ \A p \in Procs, r \in Readers : p # r
  BY CacheAssumption
<1>1. CacheTypeOK
  <2>1. DataTypes /\ KeyTypes /\ LockTypes /\ RunTypes
    BY <1>0 DEF CacheInit, DataTypes, KeyTypes, LockTypes, RunTypes, RunStates, Stages, Versions
  <2>2. ReadTypes
    BY <1>0 DEF CacheInit, ReadTypes
  <2>3. TodoTypes
    BY EmptySeq DEF CacheInit, TodoTypes
  <2> QED
    BY <2>1, <2>2, <2>3, TypesInParts
<1>2. TodoInv
  BY EmptySeq DEF CacheInit, TodoInv, Prepared, Bounded, UnlocksLast, Procs
<1>3. WarmLockInv
  BY DEF CacheInit, WarmLockInv, Alive, Procs
<1>4. ProgressInv
  BY DEF CacheInit, ProgressInv, ProgressBounded
<1>5. PurgeInv
  <2>1. \A k \in AgentKeys : ~OnItsWay(k)
    BY CacheAssumption DEF CacheInit, OnItsWay, Next1, Alive
  <2> QED
    BY <2>1 DEF CacheInit, PurgeInv, PurgedStaysGone
<1> QED
  BY <1>1, <1>2, <1>3, <1>4, <1>5 DEF CacheInv

LEMMA CacheInvPreserved == CacheInv /\ [CacheNext]_cacheVars => CacheInv'
<1> SUFFICES ASSUME CacheInv, [CacheNext]_cacheVars
             PROVE  CacheInv'
  OBVIOUS
<1>1. CacheTypeOK'
  BY TypesPreserved DEF CacheInv
<1>2. TodoInv'
  BY TypesInParts, TodoSteps, TodoPreserved DEF CacheInv
<1>3. WarmLockInv' /\ ProgressInv' /\ PurgeInv'
  BY WarmLockPreserved, ProgressPreserved, PurgePreserved DEF CacheInv
<1> QED
  BY <1>1, <1>2, <1>3 DEF CacheInv

THEOREM CacheInvariant == CacheSpec => []CacheInv
BY CacheInitial, CacheInvPreserved, PTL DEF CacheSpec

\* The variables have their types; a process has only steps of the code still
\* to take.
THEOREM CacheTypeCorrect == CacheSpec => []CacheTypeOK
<1>1. CacheInv => CacheTypeOK
  BY DEF CacheInv
<1> QED
  BY <1>1, CacheInvariant, PTL

\* Two children of trigger_background_warm_if_needed live only if the lock of
\* one expired or was deleted under it.
THEOREM CacheOneWarmer == CacheSpec => []OneWarmer
<1>1. CacheInv => OneWarmer
  BY DEF CacheInv, WarmLockInv, OneWarmer
<1> QED
  BY <1>1, CacheInvariant, PTL

\* set_pipeline_run_state never leaves more done than there is, whatever
\* processes merge into the run state in between.
THEOREM CacheProgressBounded == CacheSpec => []ProgressBounded
<1>1. CacheInv => ProgressBounded
  BY DEF CacheInv, ProgressInv
<1> QED
  BY <1>1, CacheInvariant, PTL

\* After clear_agent_cache a key holds a payload from before the purge only if
\* a reader or a warmer had it in hand when the key was deleted.
THEOREM CachePurgedStaysGone == CacheSpec => []PurgedStaysGone
<1>1. CacheInv => PurgedStaysGone
  BY DEF CacheInv, PurgeInv
<1> QED
  BY <1>1, CacheInvariant, PTL
-------------------------------------------------------------------------------
(* The weekly run *)

\* A run for all agents has its lock exactly while it works, and only the launcher
\* spawns.
LockedPlaces ==
  \A p \in WeekRuns :
    /\ p \notin Single => (p \in locked <=> wpc[p] \notin {"off", "loading", "despawning"})
    /\ p \in Single => wpc[p] \in {"off", "loading"} \cup Busy
    /\ wpc[p] \in {"spawning", "despawning"} => p \in Launched

\* An update of the progress under way is one that is due, where some are.
OwedInv ==
  \A p \in WeekRuns :
    /\ held[p] # None => due[p] > 0
    /\ due[p] > 0 => wpc[p] \in {"loading", "collect", "agents", "finish"} \cup Attending

\* The lock names whoever took it and has not lost it.
LockInv == \A p \in locked \ lost : lock = p

\* A run of which the state still says that it goes on.
Marked(p) == p \in locked /\ wpc[p] \notin {"marking", "release"}

StateInv ==
  /\ lock # None /\ locked = {} => ghost
  /\ state = "running" => ghost \/ \E p \in WeekRuns : Marked(p) \/ wpc[p] = "despawning"

\* What the steps of a run keep of an agent's row, and what the bundle has.
Rows == [status : RowStatus, counts : Marks, findings : Marks, pdf : BOOLEAN]
Entries == [of : Agents \cup {None}, pdf : Marks]

\* The bundle is of the complete agents.
BundleInv ==
  ~overlap =>
    /\ \A p, q \in Working : p = q
    /\ week = "complete" => Working = {} /\ Bundled
    /\ \A p \in WeekRuns : wpc[p] = "zipping" => picked[p] = CompleteAgents
    /\ \A p \in WeekRuns : wpc[p] = "summary" => Bundled

\* WeeklyTypeOK in parts: where the runs are, the run state, the lock and what is
\* marked, what the agents have.
ControlTypes ==
  /\ wpc \in [WeekRuns -> Places] /\ cur \in [WeekRuns -> Agents \cup {None}]
  /\ queue \in [WeekRuns -> SUBSET Agents] /\ picked \in [WeekRuns -> SUBSET Agents]
  /\ \A p \in WeekRuns : (wpc[p] \in Attending) <=> (cur[p] # None)

ProgressTypes ==
  /\ state \in Statuses
  /\ due \in [WeekRuns -> 0..2] /\ held \in [WeekRuns -> Statuses \cup {None}]

OtherTypes ==
  /\ crew \in Crews /\ lock \in WeekRuns \cup {None}
  /\ week \in {"none", "running", "complete"} /\ deaths \in 0..MaxDeaths
  /\ locked \subseteq WeekRuns \ Single /\ lost \subseteq WeekRuns /\ error \subseteq WeekRuns
  /\ ghost \in BOOLEAN /\ overlap \in BOOLEAN /\ abandoned \in BOOLEAN

OutputTypes == row \in [Agents -> Rows] /\ file \in [Agents -> Marks] /\ zip \in [Names -> Entries]

WeeklyInv ==
  /\ WeeklyTypeOK /\ LockedPlaces /\ OwedInv /\ LockInv /\ StateInv
  /\ ReportOfOneAttempt /\ BundleInv
-------------------------------------------------------------------------------
\* Every step of a run is one of these.
LEMMA WeeklySteps ==
  ASSUME WeeklyNext
  PROVE  \/ ExpireLock \/ ExpireState
         \/ \E p \in WeekRuns :
              \/ Launch(p) \/ Schedule(p) \/ StartByHand(p) \/ ReadProgress(p) \/ WriteProgress(p)
              \/ Claim(p) \/ MarkStarted(p) \/ Spawn(p) \/ ClearState(p)
              \/ BeginWeek(p) \/ StartAgent(p) \/ NextStage(p) \/ SkipAgent(p) \/ Complete(p)
              \/ FailAgent(p) \/ PickAgents(p) \/ Zip(p) \/ Summarise(p)
              \/ MarkFinished(p) \/ ReleaseLock(p)
              \/ ClaimUnanswered(p) \/ SpawnFails(p) \/ NoAgents(p) \/ Raise(p) \/ Die(p)
BY DEF WeeklyNext, Begin, Work, Trouble
-------------------------------------------------------------------------------
\* The invariant holds in every initial state.
LEMMA WeeklyInvInit ==
  ASSUME WeeklyConstants, WeeklyInit
  PROVE  WeeklyInv
<1>1. OtherTypes
  <2>1. deaths \in 0..MaxDeaths
    BY DEF WeeklyConstants, WeeklyInit
  <2> QED
    BY <2>1 DEF WeeklyInit, OtherTypes
<1>2. ControlTypes
  BY DEF WeeklyInit, ControlTypes, Places, Attending
<1>3. ProgressTypes
  BY DEF WeeklyInit, ProgressTypes, Statuses
<1>4. OutputTypes
  BY DEF WeeklyInit, OutputTypes, Rows, RowStatus, Marks, Entries
<1>5. WeeklyTypeOK
  BY <1>1, <1>2, <1>3, <1>4 DEF WeeklyTypeOK, ControlTypes, ProgressTypes, OtherTypes, OutputTypes, Rows, Entries
<1>6. LockedPlaces /\ OwedInv /\ LockInv /\ StateInv
  BY DEF WeeklyConstants, WeeklyInit, LockedPlaces, OwedInv, LockInv, StateInv
<1>7. ReportOfOneAttempt /\ BundleInv
  BY DEF WeeklyInit, ReportOfOneAttempt, BundleInv, Working, Busy, Attending
<1> QED
  BY <1>5, <1>6, <1>7 DEF WeeklyInv
-------------------------------------------------------------------------------
\* A step keeps the runs in their places.
LEMMA ControlPreserved ==
  ASSUME WeeklyConstants, ControlTypes, [WeeklyNext]_weeklyVars
  PROVE  ControlTypes'
<1>1. CASE UNCHANGED weeklyVars
  BY <1>1 DEF weeklyVars, ControlTypes
<1>2. CASE ExpireLock \/ ExpireState
  BY <1>2 DEF ExpireLock, ExpireState, workVars, ControlTypes
<1>3. ASSUME NEW p \in WeekRuns, Launch(p) PROVE ControlTypes'
  BY <1>3 DEF Launch, GoTo, At, ControlTypes, Places, Busy, Attending, workVars
<1>4. ASSUME NEW p \in WeekRuns, Schedule(p) PROVE ControlTypes'
  BY <1>4 DEF Schedule, GoTo, At, ControlTypes, Places, Busy, Attending, workVars
<1>5. ASSUME NEW p \in WeekRuns, StartByHand(p) PROVE ControlTypes'
  BY <1>5 DEF StartByHand, GoTo, At, ControlTypes, Places, Busy, Attending, workVars
<1>6. ASSUME NEW p \in WeekRuns, ReadProgress(p) PROVE ControlTypes'
  BY <1>6 DEF ReadProgress, ControlTypes, workVars
<1>7. ASSUME NEW p \in WeekRuns, WriteProgress(p) PROVE ControlTypes'
  BY <1>7 DEF WriteProgress, ControlTypes, workVars
<1>8. ASSUME NEW p \in WeekRuns, Claim(p) PROVE ControlTypes'
  BY <1>8 DEF Claim, GoTo, At, ControlTypes, Places, Busy, Attending, workVars
<1>9. ASSUME NEW p \in WeekRuns, MarkStarted(p) PROVE ControlTypes'
  BY <1>9 DEF MarkStarted, GoTo, At, ControlTypes, Places, Busy, Attending, workVars
<1>10. ASSUME NEW p \in WeekRuns, Spawn(p) PROVE ControlTypes'
  BY <1>10 DEF Spawn, GoTo, At, ControlTypes, Places, Busy, Attending, workVars
<1>11. ASSUME NEW p \in WeekRuns, ClearState(p) PROVE ControlTypes'
  BY <1>11 DEF ClearState, GoTo, At, ControlTypes, Places, Busy, Attending, workVars
<1>12. ASSUME NEW p \in WeekRuns, BeginWeek(p) PROVE ControlTypes'
  BY <1>12 DEF BeginWeek, GoTo, At, ControlTypes, Places, Busy, Attending
<1>13. ASSUME NEW p \in WeekRuns, StartAgent(p) PROVE ControlTypes'
  BY <1>13 DEF StartAgent, GoTo, At, ControlTypes, Places, Busy, Attending
<1>14. ASSUME NEW p \in WeekRuns, NextStage(p) PROVE ControlTypes'
  BY <1>14 DEF NextStage, GoTo, At, ControlTypes, Places, Busy, Attending, workVars
<1>15. ASSUME NEW p \in WeekRuns, SkipAgent(p) PROVE ControlTypes'
  BY <1>15 DEF SkipAgent, LeaveAgent, GoTo, At, ControlTypes, Places, Busy, Attending
<1>16. ASSUME NEW p \in WeekRuns, Complete(p) PROVE ControlTypes'
  BY <1>16 DEF Complete, LeaveAgent, GoTo, At, ControlTypes, Places, Busy, Attending
<1>17. ASSUME NEW p \in WeekRuns, FailAgent(p) PROVE ControlTypes'
  BY <1>17 DEF FailAgent, LeaveAgent, GoTo, At, ControlTypes, Places, Busy, Attending
<1>18. ASSUME NEW p \in WeekRuns, PickAgents(p) PROVE ControlTypes'
  BY <1>18 DEF PickAgents, GoTo, At, CompleteAgents, ControlTypes, Places, Busy, Attending
<1>19. ASSUME NEW p \in WeekRuns, Zip(p) PROVE ControlTypes'
  BY <1>19 DEF Zip, GoTo, At, ControlTypes, Places, Busy, Attending, workVars
<1>20. ASSUME NEW p \in WeekRuns, Summarise(p) PROVE ControlTypes'
  BY <1>20 DEF Summarise, GoTo, At, ControlTypes, Places, Busy, Attending
<1>21. ASSUME NEW p \in WeekRuns, MarkFinished(p) PROVE ControlTypes'
  BY <1>21 DEF MarkFinished, GoTo, At, ControlTypes, Places, Busy, Attending
<1>22. ASSUME NEW p \in WeekRuns, ReleaseLock(p) PROVE ControlTypes'
  BY <1>22 DEF ReleaseLock, GoTo, At, ControlTypes, Places, Busy, Attending, workVars
<1>23. ASSUME NEW p \in WeekRuns, ClaimUnanswered(p) PROVE ControlTypes'
  BY <1>23 DEF ClaimUnanswered, GoTo, At, ControlTypes, Places, Busy, Attending, workVars
<1>24. ASSUME NEW p \in WeekRuns, SpawnFails(p) PROVE ControlTypes'
  BY <1>24 DEF SpawnFails, GoTo, At, ControlTypes, Places, Busy, Attending, workVars
<1>25. ASSUME NEW p \in WeekRuns, NoAgents(p) PROVE ControlTypes'
  BY <1>25 DEF NoAgents, GoTo, At, ControlTypes, Places, Busy, Attending
<1>26. ASSUME NEW p \in WeekRuns, Raise(p) PROVE ControlTypes'
  BY <1>26 DEF Raise, GoTo, At, Drop, ControlTypes, Places, Busy, Attending
<1>27. ASSUME NEW p \in WeekRuns, Die(p) PROVE ControlTypes'
  BY <1>27 DEF Die, GoTo, At, Drop, ControlTypes, Places, Busy, Attending
<1> QED
  BY WeeklySteps, <1>1, <1>2, <1>3, <1>4, <1>5, <1>6, <1>7, <1>8, <1>9, <1>10, <1>11, <1>12, <1>13, <1>14,
     <1>15, <1>16, <1>17, <1>18, <1>19, <1>20, <1>21, <1>22, <1>23, <1>24, <1>25, <1>26, <1>27

\* A step keeps the types of the run state and of the updates under way.
LEMMA ProgressTypesPreserved ==
  ASSUME WeeklyConstants, ProgressTypes, OwedInv, [WeeklyNext]_weeklyVars
  PROVE  ProgressTypes'
<1>1. CASE UNCHANGED weeklyVars
  BY <1>1 DEF weeklyVars, ProgressTypes
<1>2. CASE ExpireLock \/ ExpireState
  BY <1>2 DEF ExpireLock, ExpireState, progressVars, ProgressTypes, Statuses
<1>3. ASSUME NEW p \in WeekRuns, Launch(p) PROVE ProgressTypes'
  BY <1>3 DEF Launch, ProgressTypes, progressVars
<1>4. ASSUME NEW p \in WeekRuns, Schedule(p) PROVE ProgressTypes'
  BY <1>4 DEF Schedule, ProgressTypes, progressVars
<1>5. ASSUME NEW p \in WeekRuns, StartByHand(p) PROVE ProgressTypes'
  BY <1>5 DEF StartByHand, Owes, ProgressTypes
<1>6. ASSUME NEW p \in WeekRuns, ReadProgress(p) PROVE ProgressTypes'
  BY <1>6 DEF ReadProgress, ProgressTypes
<1>7. ASSUME NEW p \in WeekRuns, WriteProgress(p) PROVE ProgressTypes'
  BY <1>7 DEF WriteProgress, ProgressTypes, OwedInv
<1>8. ASSUME NEW p \in WeekRuns, Claim(p) PROVE ProgressTypes'
  BY <1>8 DEF Claim, ProgressTypes, progressVars
<1>9. ASSUME NEW p \in WeekRuns, MarkStarted(p) PROVE ProgressTypes'
  BY <1>9 DEF MarkStarted, Statuses, ProgressTypes, progressVars
<1>10. ASSUME NEW p \in WeekRuns, Spawn(p) PROVE ProgressTypes'
  BY <1>10 DEF Spawn, Owes, ProgressTypes
<1>11. ASSUME NEW p \in WeekRuns, ClearState(p) PROVE ProgressTypes'
  BY <1>11 DEF ClearState, Statuses, ProgressTypes, progressVars
<1>12. ASSUME NEW p \in WeekRuns, BeginWeek(p) PROVE ProgressTypes'
  BY <1>12 DEF BeginWeek, Owes, ProgressTypes, progressVars
<1>13. ASSUME NEW p \in WeekRuns, StartAgent(p) PROVE ProgressTypes'
  BY <1>13 DEF StartAgent, Owes, ProgressTypes
<1>14. ASSUME NEW p \in WeekRuns, NextStage(p) PROVE ProgressTypes'
  BY <1>14 DEF NextStage, Owes, ProgressTypes
<1>15. ASSUME NEW p \in WeekRuns, SkipAgent(p) PROVE ProgressTypes'
  BY <1>15 DEF SkipAgent, LeaveAgent, Owes, ProgressTypes
<1>16. ASSUME NEW p \in WeekRuns, Complete(p) PROVE ProgressTypes'
  BY <1>16 DEF Complete, LeaveAgent, Owes, ProgressTypes
<1>17. ASSUME NEW p \in WeekRuns, FailAgent(p) PROVE ProgressTypes'
  BY <1>17 DEF FailAgent, LeaveAgent, Owes, ProgressTypes
<1>18. ASSUME NEW p \in WeekRuns, PickAgents(p) PROVE ProgressTypes'
  BY <1>18 DEF PickAgents, ProgressTypes, progressVars
<1>19. ASSUME NEW p \in WeekRuns, Zip(p) PROVE ProgressTypes'
  BY <1>19 DEF Zip, ProgressTypes, progressVars
<1>20. ASSUME NEW p \in WeekRuns, Summarise(p) PROVE ProgressTypes'
  BY <1>20 DEF Summarise, Owes, ProgressTypes
<1>21. ASSUME NEW p \in WeekRuns, MarkFinished(p) PROVE ProgressTypes'
  BY <1>21 DEF MarkFinished, Statuses, ProgressTypes, progressVars
<1>22. ASSUME NEW p \in WeekRuns, ReleaseLock(p) PROVE ProgressTypes'
  BY <1>22 DEF ReleaseLock, ProgressTypes, progressVars
<1>23. ASSUME NEW p \in WeekRuns, ClaimUnanswered(p) PROVE ProgressTypes'
  BY <1>23 DEF ClaimUnanswered, ProgressTypes, progressVars
<1>24. ASSUME NEW p \in WeekRuns, SpawnFails(p) PROVE ProgressTypes'
  BY <1>24 DEF SpawnFails, ProgressTypes, progressVars
<1>25. ASSUME NEW p \in WeekRuns, NoAgents(p) PROVE ProgressTypes'
  BY <1>25 DEF NoAgents, ProgressTypes, progressVars
<1>26. ASSUME NEW p \in WeekRuns, Raise(p) PROVE ProgressTypes'
  BY <1>26 DEF Raise, ProgressTypes, progressVars
<1>27. ASSUME NEW p \in WeekRuns, Die(p) PROVE ProgressTypes'
  BY <1>27 DEF Die, ProgressTypes
<1> QED
  BY WeeklySteps, <1>1, <1>2, <1>3, <1>4, <1>5, <1>6, <1>7, <1>8, <1>9, <1>10, <1>11, <1>12, <1>13, <1>14,
     <1>15, <1>16, <1>17, <1>18, <1>19, <1>20, <1>21, <1>22, <1>23, <1>24, <1>25, <1>26, <1>27

\* One more failure stays within the bound.
LEMMA FaultCounts ==
  ASSUME WeeklyConstants, OtherTypes, WeekFault
  PROVE  deaths' \in 0..MaxDeaths
BY DEF WeeklyConstants, OtherTypes, WeekFault

\* A step keeps the types of the lock, the marks and the history.
LEMMA OthersPreserved ==
  ASSUME WeeklyConstants, OtherTypes, LockedPlaces, [WeeklyNext]_weeklyVars
  PROVE  OtherTypes'
<1>1. CASE UNCHANGED weeklyVars
  BY <1>1 DEF weeklyVars, OtherTypes
<1>2. CASE ExpireLock \/ ExpireState
  BY <1>2 DEF ExpireLock, ExpireState, lockVars, workVars, dbVars, pastVars, OtherTypes
<1>3. ASSUME NEW p \in WeekRuns, Launch(p) PROVE OtherTypes'
  BY <1>3 DEF Launch, Acquire, OtherTypes, WeeklyConstants, workVars, dbVars, pastVars
<1>4. ASSUME NEW p \in WeekRuns, Schedule(p) PROVE OtherTypes'
  BY <1>4 DEF Schedule, Acquire, OtherTypes, WeeklyConstants, workVars, dbVars, pastVars
<1>5. ASSUME NEW p \in WeekRuns, StartByHand(p) PROVE OtherTypes'
  BY <1>5 DEF StartByHand, OtherTypes, lockVars, workVars, dbVars, pastVars
<1>6. ASSUME NEW p \in WeekRuns, ReadProgress(p) PROVE OtherTypes'
  BY <1>6 DEF ReadProgress, OtherTypes, lockVars, workVars, dbVars, pastVars
<1>7. ASSUME NEW p \in WeekRuns, WriteProgress(p) PROVE OtherTypes'
  BY <1>7 DEF WriteProgress, OtherTypes, lockVars, workVars, dbVars, pastVars
<1>8. ASSUME NEW p \in WeekRuns, Claim(p) PROVE OtherTypes'
  <2>1. CASE lock = None
    <3>1. p \notin Single
      BY <1>8 DEF Claim, WeeklyConstants
    <3>2. Acquire(p) /\ UNCHANGED <<workVars, dbVars, deaths, ghost, pastVars>>
      BY <1>8, <2>1 DEF Claim
    <3>3. lock' \in WeekRuns /\ locked' \subseteq WeekRuns \ Single /\ lost' \subseteq WeekRuns /\ crew' \in Crews
      BY <3>1, <3>2 DEF Acquire, OtherTypes
    <3> QED
      BY <3>2, <3>3 DEF workVars, dbVars, pastVars, OtherTypes
  <2>2. CASE lock # None
    BY <1>8, <2>2 DEF Claim, GoTo, lockVars, workVars, dbVars, pastVars, OtherTypes
  <2> QED
    BY <2>1, <2>2
<1>9. ASSUME NEW p \in WeekRuns, MarkStarted(p) PROVE OtherTypes'
  <2>1. deaths' \in 0..MaxDeaths
    BY <1>9, FaultCounts DEF MarkStarted, OtherTypes
  <2>2. week' \in {"none", "running", "complete"}
    BY <1>9 DEF MarkStarted, OtherTypes, lockVars, workVars, dbVars
  <2>3. ghost' \in BOOLEAN /\ overlap' \in BOOLEAN /\ abandoned' \in BOOLEAN
    BY <1>9 DEF MarkStarted, OtherTypes, pastVars
  <2>4. /\ crew' \in Crews /\ lock' \in WeekRuns \cup {None}
        /\ locked' \subseteq WeekRuns \ Single /\ lost' \subseteq WeekRuns /\ error' \subseteq WeekRuns
    BY <1>9 DEF MarkStarted, OtherTypes, lockVars, workVars
  <2> QED
    BY <2>1, <2>2, <2>3, <2>4 DEF OtherTypes
<1>10. ASSUME NEW p \in WeekRuns, Spawn(p) PROVE OtherTypes'
  BY <1>10 DEF Spawn, OtherTypes, lockVars, workVars, dbVars, pastVars
<1>11. ASSUME NEW p \in WeekRuns, ClearState(p) PROVE OtherTypes'
  <2>1. deaths' \in 0..MaxDeaths
    BY <1>11, FaultCounts DEF ClearState, OtherTypes
  <2>2. week' \in {"none", "running", "complete"}
    BY <1>11 DEF ClearState, OtherTypes, lockVars, workVars, dbVars
  <2>3. ghost' \in BOOLEAN /\ overlap' \in BOOLEAN /\ abandoned' \in BOOLEAN
    BY <1>11 DEF ClearState, OtherTypes, pastVars
  <2>4. /\ crew' \in Crews /\ lock' \in WeekRuns \cup {None}
        /\ locked' \subseteq WeekRuns \ Single /\ lost' \subseteq WeekRuns /\ error' \subseteq WeekRuns
    BY <1>11 DEF ClearState, OtherTypes, lockVars, workVars
  <2> QED
    BY <2>1, <2>2, <2>3, <2>4 DEF OtherTypes
<1>12. ASSUME NEW p \in WeekRuns, BeginWeek(p) PROVE OtherTypes'
  BY <1>12 DEF BeginWeek, OtherTypes, lockVars
<1>13. ASSUME NEW p \in WeekRuns, StartAgent(p) PROVE OtherTypes'
  BY <1>13 DEF StartAgent, OtherTypes, lockVars, pastVars
<1>14. ASSUME NEW p \in WeekRuns, NextStage(p) PROVE OtherTypes'
  BY <1>14 DEF NextStage, OtherTypes, lockVars, workVars, dbVars, pastVars
<1>15. ASSUME NEW p \in WeekRuns, SkipAgent(p) PROVE OtherTypes'
  BY <1>15 DEF SkipAgent, LeaveAgent, OtherTypes, lockVars, pastVars
<1>16. ASSUME NEW p \in WeekRuns, Complete(p) PROVE OtherTypes'
  BY <1>16 DEF Complete, LeaveAgent, OtherTypes, lockVars, pastVars
<1>17. ASSUME NEW p \in WeekRuns, FailAgent(p) PROVE OtherTypes'
  BY <1>17 DEF FailAgent, LeaveAgent, OtherTypes, lockVars, pastVars
<1>18. ASSUME NEW p \in WeekRuns, PickAgents(p) PROVE OtherTypes'
  BY <1>18 DEF PickAgents, OtherTypes, lockVars, dbVars, pastVars
<1>19. ASSUME NEW p \in WeekRuns, Zip(p) PROVE OtherTypes'
  BY <1>19 DEF Zip, OtherTypes, lockVars, workVars, pastVars
<1>20. ASSUME NEW p \in WeekRuns, Summarise(p) PROVE OtherTypes'
  BY <1>20 DEF Summarise, OtherTypes, lockVars, pastVars
<1>21. ASSUME NEW p \in WeekRuns, MarkFinished(p) PROVE OtherTypes'
  <2>1. deaths' \in 0..MaxDeaths
    BY <1>21, FaultCounts DEF MarkFinished, OtherTypes
  <2>2. week' \in {"none", "running", "complete"}
    BY <1>21 DEF MarkFinished, OtherTypes, lockVars, dbVars
  <2>3. ghost' \in BOOLEAN /\ overlap' \in BOOLEAN /\ abandoned' \in BOOLEAN
    BY <1>21 DEF MarkFinished, OtherTypes, pastVars
  <2>4. /\ crew' \in Crews /\ lock' \in WeekRuns \cup {None}
        /\ locked' \subseteq WeekRuns \ Single /\ lost' \subseteq WeekRuns /\ error' \subseteq WeekRuns
    BY <1>21 DEF MarkFinished, OtherTypes, lockVars
  <2> QED
    BY <2>1, <2>2, <2>3, <2>4 DEF OtherTypes
<1>22. ASSUME NEW p \in WeekRuns, ReleaseLock(p) PROVE OtherTypes'
  <2>1. deaths' \in 0..MaxDeaths
    BY <1>22, FaultCounts DEF ReleaseLock, OtherTypes
  <2>2. week' \in {"none", "running", "complete"}
    BY <1>22 DEF ReleaseLock, OtherTypes, workVars, dbVars
  <2>3. ghost' \in BOOLEAN /\ overlap' \in BOOLEAN /\ abandoned' \in BOOLEAN
    BY <1>22 DEF ReleaseLock, OtherTypes, pastVars
  <2>4. /\ crew' \in Crews /\ lock' \in WeekRuns \cup {None}
        /\ locked' \subseteq WeekRuns \ Single /\ lost' \subseteq WeekRuns /\ error' \subseteq WeekRuns
    BY <1>22 DEF ReleaseLock, Release, LeaveLock, OtherTypes, workVars
  <2> QED
    BY <2>1, <2>2, <2>3, <2>4 DEF OtherTypes
<1>23. ASSUME NEW p \in WeekRuns, ClaimUnanswered(p) PROVE OtherTypes'
  <2>1. deaths' \in 0..MaxDeaths
    BY <1>23, FaultCounts DEF ClaimUnanswered, OtherTypes
  <2>2. week' \in {"none", "running", "complete"}
    BY <1>23 DEF ClaimUnanswered, OtherTypes, workVars, dbVars
  <2>3. ghost' \in BOOLEAN /\ overlap' \in BOOLEAN /\ abandoned' \in BOOLEAN
    BY <1>23 DEF ClaimUnanswered, OtherTypes, pastVars
  <2>4. /\ crew' \in Crews /\ lock' \in WeekRuns \cup {None}
        /\ locked' \subseteq WeekRuns \ Single /\ lost' \subseteq WeekRuns /\ error' \subseteq WeekRuns
    BY <1>23 DEF ClaimUnanswered, OtherTypes, workVars
  <2> QED
    BY <2>1, <2>2, <2>3, <2>4 DEF OtherTypes
<1>24. ASSUME NEW p \in WeekRuns, SpawnFails(p) PROVE OtherTypes'
  <2>1. deaths' \in 0..MaxDeaths
    BY <1>24, FaultCounts DEF SpawnFails, OtherTypes
  <2>2. week' \in {"none", "running", "complete"}
    BY <1>24 DEF SpawnFails, OtherTypes, workVars, dbVars
  <2>3. ghost' \in BOOLEAN /\ overlap' \in BOOLEAN /\ abandoned' \in BOOLEAN
    BY <1>24 DEF SpawnFails, OtherTypes, pastVars
  <2>4. /\ crew' \in Crews /\ lock' \in WeekRuns \cup {None}
        /\ locked' \subseteq WeekRuns \ Single /\ lost' \subseteq WeekRuns /\ error' \subseteq WeekRuns
    BY <1>24 DEF SpawnFails, Release, LeaveLock, OtherTypes, workVars
  <2> QED
    BY <2>1, <2>2, <2>3, <2>4 DEF OtherTypes
<1>25. ASSUME NEW p \in WeekRuns, NoAgents(p) PROVE OtherTypes'
  <2>1. deaths' \in 0..MaxDeaths
    BY <1>25, FaultCounts DEF NoAgents, OtherTypes
  <2>2. week' \in {"none", "running", "complete"}
    BY <1>25 DEF NoAgents, OtherTypes, lockVars
  <2>3. ghost' \in BOOLEAN /\ overlap' \in BOOLEAN /\ abandoned' \in BOOLEAN
    BY <1>25 DEF NoAgents, OtherTypes
  <2>4. /\ crew' \in Crews /\ lock' \in WeekRuns \cup {None}
        /\ locked' \subseteq WeekRuns \ Single /\ lost' \subseteq WeekRuns /\ error' \subseteq WeekRuns
    BY <1>25 DEF NoAgents, OtherTypes, lockVars
  <2> QED
    BY <2>1, <2>2, <2>3, <2>4 DEF OtherTypes
<1>26. ASSUME NEW p \in WeekRuns, Raise(p) PROVE OtherTypes'
  BY <1>26 DEF Raise, WeekFault, Drop, OtherTypes, WeeklyConstants, lockVars
<1>27. ASSUME NEW p \in WeekRuns, Die(p) PROVE OtherTypes'
  BY <1>27 DEF Die, WeekFault, Drop, OtherTypes, WeeklyConstants, dbVars
<1> QED
  BY WeeklySteps, <1>1, <1>2, <1>3, <1>4, <1>5, <1>6, <1>7, <1>8, <1>9, <1>10, <1>11, <1>12, <1>13, <1>14,
     <1>15, <1>16, <1>17, <1>18, <1>19, <1>20, <1>21, <1>22, <1>23, <1>24, <1>25, <1>26, <1>27

\* A step keeps the types of rows, files and bundle.
LEMMA OutputsPreserved ==
  ASSUME WeeklyConstants, OutputTypes, ControlTypes, [WeeklyNext]_weeklyVars
  PROVE  OutputTypes'
<1>1. CASE UNCHANGED weeklyVars
  BY <1>1 DEF weeklyVars, OutputTypes
<1>2. CASE ExpireLock \/ ExpireState
  BY <1>2 DEF ExpireLock, ExpireState, dbVars, OutputTypes
<1>3. ASSUME NEW p \in WeekRuns, Launch(p) PROVE OutputTypes'
  BY <1>3 DEF Launch, OutputTypes, dbVars
<1>4. ASSUME NEW p \in WeekRuns, Schedule(p) PROVE OutputTypes'
  BY <1>4 DEF Schedule, OutputTypes, dbVars
<1>5. ASSUME NEW p \in WeekRuns, StartByHand(p) PROVE OutputTypes'
  BY <1>5 DEF StartByHand, OutputTypes, dbVars
<1>6. ASSUME NEW p \in WeekRuns, ReadProgress(p) PROVE OutputTypes'
  BY <1>6 DEF ReadProgress, OutputTypes, dbVars
<1>7. ASSUME NEW p \in WeekRuns, WriteProgress(p) PROVE OutputTypes'
  BY <1>7 DEF WriteProgress, OutputTypes, dbVars
<1>8. ASSUME NEW p \in WeekRuns, Claim(p) PROVE OutputTypes'
  BY <1>8 DEF Claim, OutputTypes, dbVars
<1>9. ASSUME NEW p \in WeekRuns, MarkStarted(p) PROVE OutputTypes'
  BY <1>9 DEF MarkStarted, OutputTypes, dbVars
<1>10. ASSUME NEW p \in WeekRuns, Spawn(p) PROVE OutputTypes'
  BY <1>10 DEF Spawn, OutputTypes, dbVars
<1>11. ASSUME NEW p \in WeekRuns, ClearState(p) PROVE OutputTypes'
  BY <1>11 DEF ClearState, OutputTypes, dbVars
<1>12. ASSUME NEW p \in WeekRuns, BeginWeek(p) PROVE OutputTypes'
  BY <1>12 DEF BeginWeek, OutputTypes
<1>13. ASSUME NEW p \in WeekRuns, StartAgent(p) PROVE OutputTypes'
  <2>1. PICK a \in queue[p] :
          /\ SetRow(a, [row[a] EXCEPT !.status = "running", !.counts = Aged(@), !.findings = "none"])
          /\ file' = [file EXCEPT ![a] = Aged(@)]
          /\ zip' = [n \in Names |-> IF zip[n].of = a THEN [zip[n] EXCEPT !.pdf = Aged(@)] ELSE zip[n]]
    BY <1>13 DEF StartAgent
  <2>2. a \in Agents /\ row[a] \in Rows
    BY <2>1 DEF ControlTypes, OutputTypes
  <2>3. \A m \in Marks : Aged(m) \in Marks
    BY DEF Marks, Aged
  <2>4. [row[a] EXCEPT !.status = "running", !.counts = Aged(@), !.findings = "none"] \in Rows
    BY <2>2, <2>3 DEF Rows, RowStatus, Marks
  <2>5. row' \in [Agents -> Rows]
    BY <2>1, <2>4 DEF SetRow, OutputTypes
  <2>6. file' \in [Agents -> Marks]
    BY <2>1, <2>2, <2>3 DEF OutputTypes
  <2>7. zip' \in [Names -> Entries]
    <3>1. \A n \in Names : zip[n] \in Entries /\ [zip[n] EXCEPT !.pdf = Aged(@)] \in Entries
      BY <2>3 DEF OutputTypes, Entries
    <3> QED
      BY <2>1, <3>1
  <2> QED
    BY <2>5, <2>6, <2>7 DEF OutputTypes
<1>14. ASSUME NEW p \in WeekRuns, NextStage(p) PROVE OutputTypes'
  BY <1>14 DEF NextStage, OutputTypes, dbVars
<1>15. ASSUME NEW p \in WeekRuns, SkipAgent(p) PROVE OutputTypes'
  BY <1>15 DEF SkipAgent, LeaveAgent, SetRow, OutputTypes, Rows, RowStatus, Marks
<1>16. ASSUME NEW p \in WeekRuns, Complete(p) PROVE OutputTypes'
  BY <1>16 DEF Complete, LeaveAgent, SetRow, OutputTypes, Rows, RowStatus, Marks
<1>17. ASSUME NEW p \in WeekRuns, FailAgent(p) PROVE OutputTypes'
  <2>1. cur[p] \in Agents
    BY <1>17 DEF FailAgent, At, Attending, ControlTypes
  <2>2. row[cur[p]] \in Rows
    BY <2>1 DEF OutputTypes
  <2>3. /\ [row[cur[p]] EXCEPT !.status = "failed"] \in Rows
        /\ [row[cur[p]] EXCEPT !.status = "failed", !.findings = "last"] \in Rows
        /\ [row[cur[p]] EXCEPT !.status = "failed", !.findings = "last", !.counts = "last"] \in Rows
    BY <2>2 DEF Rows, RowStatus, Marks
  <2>4. \E r \in Rows : SetRow(cur[p], r)
    BY <1>17, <2>3 DEF FailAgent
  <2>5. file' = file /\ zip' = zip
    BY <1>17 DEF FailAgent, LeaveAgent
  <2> QED
    BY <2>4, <2>5 DEF SetRow, OutputTypes
<1>18. ASSUME NEW p \in WeekRuns, PickAgents(p) PROVE OutputTypes'
  BY <1>18 DEF PickAgents, OutputTypes, dbVars
<1>19. ASSUME NEW p \in WeekRuns, Zip(p) PROVE OutputTypes'
  <2>1. PICK pick \in [Names -> Agents \cup {None}] :
          zip' = [n \in Names |-> [of |-> pick[n], pdf |-> IF pick[n] = None THEN "none" ELSE file[pick[n]]]]
    BY <1>19 DEF Zip
  <2>2. \A n \in Names : (IF pick[n] = None THEN "none" ELSE file[pick[n]]) \in Marks
    BY DEF OutputTypes, Marks
  <2>3. zip' \in [Names -> Entries]
    BY <2>1, <2>2 DEF Entries
  <2> QED
    BY <1>19, <2>3 DEF Zip, OutputTypes
<1>20. ASSUME NEW p \in WeekRuns, Summarise(p) PROVE OutputTypes'
  BY <1>20 DEF Summarise, OutputTypes
<1>21. ASSUME NEW p \in WeekRuns, MarkFinished(p) PROVE OutputTypes'
  BY <1>21 DEF MarkFinished, OutputTypes, dbVars
<1>22. ASSUME NEW p \in WeekRuns, ReleaseLock(p) PROVE OutputTypes'
  BY <1>22 DEF ReleaseLock, OutputTypes, dbVars
<1>23. ASSUME NEW p \in WeekRuns, ClaimUnanswered(p) PROVE OutputTypes'
  BY <1>23 DEF ClaimUnanswered, OutputTypes, dbVars
<1>24. ASSUME NEW p \in WeekRuns, SpawnFails(p) PROVE OutputTypes'
  BY <1>24 DEF SpawnFails, OutputTypes, dbVars
<1>25. ASSUME NEW p \in WeekRuns, NoAgents(p) PROVE OutputTypes'
  BY <1>25 DEF NoAgents, OutputTypes
<1>26. ASSUME NEW p \in WeekRuns, Raise(p) PROVE OutputTypes'
  BY <1>26 DEF Raise, OutputTypes, Marks
<1>27. ASSUME NEW p \in WeekRuns, Die(p) PROVE OutputTypes'
  BY <1>27 DEF Die, OutputTypes, dbVars
<1> QED
  BY WeeklySteps, <1>1, <1>2, <1>3, <1>4, <1>5, <1>6, <1>7, <1>8, <1>9, <1>10, <1>11, <1>12, <1>13, <1>14,
     <1>15, <1>16, <1>17, <1>18, <1>19, <1>20, <1>21, <1>22, <1>23, <1>24, <1>25, <1>26, <1>27

\* A step leaves no run at work without the lock it took.
LEMMA LockedPlacesPreserved ==
  ASSUME WeeklyConstants, ControlTypes, OtherTypes, LockedPlaces, [WeeklyNext]_weeklyVars
  PROVE  LockedPlaces'
<1>1. CASE UNCHANGED weeklyVars
  BY <1>1 DEF weeklyVars, LockedPlaces
<1>2. CASE ExpireLock \/ ExpireState
  BY <1>2 DEF ExpireLock, ExpireState, lockVars, LockedPlaces
<1>3. ASSUME NEW p \in WeekRuns, Launch(p) PROVE LockedPlaces'
  BY <1>3 DEF Launch, GoTo, At, Acquire, ControlTypes, OtherTypes, LockedPlaces, Busy, Attending, WeeklyConstants
<1>4. ASSUME NEW p \in WeekRuns, Schedule(p) PROVE LockedPlaces'
  BY <1>4 DEF Schedule, GoTo, At, Acquire, ControlTypes, OtherTypes, LockedPlaces, Busy, Attending, WeeklyConstants
<1>5. ASSUME NEW p \in WeekRuns, StartByHand(p) PROVE LockedPlaces'
  BY <1>5 DEF StartByHand, GoTo, At, ControlTypes, OtherTypes, LockedPlaces, Busy, Attending, WeeklyConstants, lockVars
<1>6. ASSUME NEW p \in WeekRuns, ReadProgress(p) PROVE LockedPlaces'
  BY <1>6 DEF ReadProgress, LockedPlaces, lockVars
<1>7. ASSUME NEW p \in WeekRuns, WriteProgress(p) PROVE LockedPlaces'
  BY <1>7 DEF WriteProgress, LockedPlaces, lockVars
<1>8. ASSUME NEW p \in WeekRuns, Claim(p) PROVE LockedPlaces'
  BY <1>8 DEF Claim, GoTo, At, Acquire, ControlTypes, OtherTypes, LockedPlaces, Busy, Attending, WeeklyConstants, lockVars
<1>9. ASSUME NEW p \in WeekRuns, MarkStarted(p) PROVE LockedPlaces'
  BY <1>9 DEF MarkStarted, GoTo, At, ControlTypes, OtherTypes, LockedPlaces, Busy, Attending, lockVars
<1>10. ASSUME NEW p \in WeekRuns, Spawn(p) PROVE LockedPlaces'
  BY <1>10 DEF Spawn, GoTo, At, ControlTypes, OtherTypes, LockedPlaces, Busy, Attending, lockVars
<1>11. ASSUME NEW p \in WeekRuns, ClearState(p) PROVE LockedPlaces'
  BY <1>11 DEF ClearState, GoTo, At, ControlTypes, OtherTypes, LockedPlaces, Busy, Attending, lockVars
<1>12. ASSUME NEW p \in WeekRuns, BeginWeek(p) PROVE LockedPlaces'
  BY <1>12 DEF BeginWeek, GoTo, At, ControlTypes, OtherTypes, LockedPlaces, Busy, Attending, lockVars
<1>13. ASSUME NEW p \in WeekRuns, StartAgent(p) PROVE LockedPlaces'
  BY <1>13 DEF StartAgent, GoTo, At, ControlTypes, OtherTypes, LockedPlaces, Busy, Attending, lockVars
<1>14. ASSUME NEW p \in WeekRuns, NextStage(p) PROVE LockedPlaces'
  BY <1>14 DEF NextStage, GoTo, At, ControlTypes, OtherTypes, LockedPlaces, Busy, Attending, lockVars
<1>15. ASSUME NEW p \in WeekRuns, SkipAgent(p) PROVE LockedPlaces'
  BY <1>15 DEF SkipAgent, LeaveAgent, GoTo, At, ControlTypes, OtherTypes, LockedPlaces, Busy, Attending, lockVars
<1>16. ASSUME NEW p \in WeekRuns, Complete(p) PROVE LockedPlaces'
  BY <1>16 DEF Complete, LeaveAgent, GoTo, At, ControlTypes, OtherTypes, LockedPlaces, Busy, Attending, lockVars
<1>17. ASSUME NEW p \in WeekRuns, FailAgent(p) PROVE LockedPlaces'
  BY <1>17 DEF FailAgent, LeaveAgent, GoTo, At, ControlTypes, OtherTypes, LockedPlaces, Busy, Attending, lockVars
<1>18. ASSUME NEW p \in WeekRuns, PickAgents(p) PROVE LockedPlaces'
  BY <1>18 DEF PickAgents, GoTo, At, ControlTypes, OtherTypes, LockedPlaces, Busy, Attending, lockVars
<1>19. ASSUME NEW p \in WeekRuns, Zip(p) PROVE LockedPlaces'
  BY <1>19 DEF Zip, GoTo, At, ControlTypes, OtherTypes, LockedPlaces, Busy, Attending, lockVars
<1>20. ASSUME NEW p \in WeekRuns, Summarise(p) PROVE LockedPlaces'
  BY <1>20 DEF Summarise, GoTo, At, ControlTypes, OtherTypes, LockedPlaces, Busy, Attending, lockVars
<1>21. ASSUME NEW p \in WeekRuns, MarkFinished(p) PROVE LockedPlaces'
  BY <1>21 DEF MarkFinished, GoTo, At, ControlTypes, OtherTypes, LockedPlaces, Busy, Attending, lockVars
<1>22. ASSUME NEW p \in WeekRuns, ReleaseLock(p) PROVE LockedPlaces'
  BY <1>22 DEF ReleaseLock, GoTo, At, Release, LeaveLock, ControlTypes, OtherTypes, LockedPlaces, Busy, Attending
<1>23. ASSUME NEW p \in WeekRuns, ClaimUnanswered(p) PROVE LockedPlaces'
  BY <1>23 DEF ClaimUnanswered, GoTo, At, ControlTypes, OtherTypes, LockedPlaces, Busy, Attending, WeeklyConstants
<1>24. ASSUME NEW p \in WeekRuns, SpawnFails(p) PROVE LockedPlaces'
  BY <1>24 DEF SpawnFails, GoTo, At, Release, LeaveLock, ControlTypes, OtherTypes, LockedPlaces, Busy, Attending
<1>25. ASSUME NEW p \in WeekRuns, NoAgents(p) PROVE LockedPlaces'
  BY <1>25 DEF NoAgents, GoTo, At, ControlTypes, OtherTypes, LockedPlaces, Busy, Attending, lockVars
<1>26. ASSUME NEW p \in WeekRuns, Raise(p) PROVE LockedPlaces'
  BY <1>26 DEF Raise, GoTo, At, ControlTypes, OtherTypes, LockedPlaces, Busy, Attending, lockVars
<1>27. ASSUME NEW p \in WeekRuns, Die(p) PROVE LockedPlaces'
  BY <1>27 DEF Die, GoTo, At, ControlTypes, OtherTypes, LockedPlaces, Busy, Attending
<1> QED
  BY WeeklySteps, <1>1, <1>2, <1>3, <1>4, <1>5, <1>6, <1>7, <1>8, <1>9, <1>10, <1>11, <1>12, <1>13, <1>14,
     <1>15, <1>16, <1>17, <1>18, <1>19, <1>20, <1>21, <1>22, <1>23, <1>24, <1>25, <1>26, <1>27

\* A run moves on only when its updates are made.
LEMMA OwedPreserved ==
  ASSUME WeeklyConstants, ControlTypes, ProgressTypes, OwedInv, [WeeklyNext]_weeklyVars
  PROVE  OwedInv'
<1>1. CASE UNCHANGED weeklyVars
  BY <1>1 DEF weeklyVars, OwedInv
<1>2. CASE ExpireLock \/ ExpireState
  BY <1>2 DEF ExpireLock, ExpireState, progressVars, OwedInv
<1>3. ASSUME NEW p \in WeekRuns, Launch(p) PROVE OwedInv'
  BY <1>3 DEF Launch, GoTo, At, ControlTypes, ProgressTypes, OwedInv, Attending, progressVars
<1>4. ASSUME NEW p \in WeekRuns, Schedule(p) PROVE OwedInv'
  BY <1>4 DEF Schedule, GoTo, At, ControlTypes, ProgressTypes, OwedInv, Attending, progressVars
<1>5. ASSUME NEW p \in WeekRuns, StartByHand(p) PROVE OwedInv'
  BY <1>5 DEF StartByHand, GoTo, At, Owes, ControlTypes, ProgressTypes, OwedInv, Attending
<1>6. ASSUME NEW p \in WeekRuns, ReadProgress(p) PROVE OwedInv'
  BY <1>6 DEF ReadProgress, ProgressTypes, OwedInv
<1>7. ASSUME NEW p \in WeekRuns, WriteProgress(p) PROVE OwedInv'
  BY <1>7 DEF WriteProgress, ProgressTypes, OwedInv
<1>8. ASSUME NEW p \in WeekRuns, Claim(p) PROVE OwedInv'
  BY <1>8 DEF Claim, GoTo, At, ControlTypes, ProgressTypes, OwedInv, Attending, progressVars
<1>9. ASSUME NEW p \in WeekRuns, MarkStarted(p) PROVE OwedInv'
  BY <1>9 DEF MarkStarted, GoTo, At, ControlTypes, ProgressTypes, OwedInv, Attending, progressVars
<1>10. ASSUME NEW p \in WeekRuns, Spawn(p) PROVE OwedInv'
  BY <1>10 DEF Spawn, GoTo, At, Owes, ControlTypes, ProgressTypes, OwedInv, Attending
<1>11. ASSUME NEW p \in WeekRuns, ClearState(p) PROVE OwedInv'
  BY <1>11 DEF ClearState, GoTo, At, ControlTypes, ProgressTypes, OwedInv, Attending, progressVars
<1>12. ASSUME NEW p \in WeekRuns, BeginWeek(p) PROVE OwedInv'
  BY <1>12 DEF BeginWeek, GoTo, At, Owes, ControlTypes, ProgressTypes, OwedInv, Attending, progressVars
<1>13. ASSUME NEW p \in WeekRuns, StartAgent(p) PROVE OwedInv'
  BY <1>13 DEF StartAgent, GoTo, At, Owes, ControlTypes, ProgressTypes, OwedInv, Attending
<1>14. ASSUME NEW p \in WeekRuns, NextStage(p) PROVE OwedInv'
  BY <1>14 DEF NextStage, GoTo, At, Owes, ControlTypes, ProgressTypes, OwedInv, Attending
<1>15. ASSUME NEW p \in WeekRuns, SkipAgent(p) PROVE OwedInv'
  BY <1>15 DEF SkipAgent, LeaveAgent, GoTo, At, Owes, ControlTypes, ProgressTypes, OwedInv, Attending
<1>16. ASSUME NEW p \in WeekRuns, Complete(p) PROVE OwedInv'
  BY <1>16 DEF Complete, LeaveAgent, GoTo, At, Owes, ControlTypes, ProgressTypes, OwedInv, Attending
<1>17. ASSUME NEW p \in WeekRuns, FailAgent(p) PROVE OwedInv'
  BY <1>17 DEF FailAgent, LeaveAgent, GoTo, At, Owes, ControlTypes, ProgressTypes, OwedInv, Attending
<1>18. ASSUME NEW p \in WeekRuns, PickAgents(p) PROVE OwedInv'
  BY <1>18 DEF PickAgents, GoTo, At, ControlTypes, ProgressTypes, OwedInv, Attending, progressVars
<1>19. ASSUME NEW p \in WeekRuns, Zip(p) PROVE OwedInv'
  BY <1>19 DEF Zip, GoTo, At, ControlTypes, ProgressTypes, OwedInv, Attending, progressVars
<1>20. ASSUME NEW p \in WeekRuns, Summarise(p) PROVE OwedInv'
  BY <1>20 DEF Summarise, GoTo, At, Owes, ControlTypes, ProgressTypes, OwedInv, Attending
<1>21. ASSUME NEW p \in WeekRuns, MarkFinished(p) PROVE OwedInv'
  BY <1>21 DEF MarkFinished, GoTo, At, ControlTypes, ProgressTypes, OwedInv, Attending, progressVars
<1>22. ASSUME NEW p \in WeekRuns, ReleaseLock(p) PROVE OwedInv'
  BY <1>22 DEF ReleaseLock, GoTo, At, ControlTypes, ProgressTypes, OwedInv, Attending, progressVars
<1>23. ASSUME NEW p \in WeekRuns, ClaimUnanswered(p) PROVE OwedInv'
  BY <1>23 DEF ClaimUnanswered, GoTo, At, ControlTypes, ProgressTypes, OwedInv, Attending, progressVars
<1>24. ASSUME NEW p \in WeekRuns, SpawnFails(p) PROVE OwedInv'
  BY <1>24 DEF SpawnFails, GoTo, At, ControlTypes, ProgressTypes, OwedInv, Attending, progressVars
<1>25. ASSUME NEW p \in WeekRuns, NoAgents(p) PROVE OwedInv'
  BY <1>25 DEF NoAgents, GoTo, At, ControlTypes, ProgressTypes, OwedInv, Attending, progressVars
<1>26. ASSUME NEW p \in WeekRuns, Raise(p) PROVE OwedInv'
  BY <1>26 DEF Raise, GoTo, At, ControlTypes, ProgressTypes, OwedInv, Attending, progressVars
<1>27. ASSUME NEW p \in WeekRuns, Die(p) PROVE OwedInv'
  BY <1>27 DEF Die, GoTo, At, ControlTypes, ProgressTypes, OwedInv, Attending
<1> QED
  BY WeeklySteps, <1>1, <1>2, <1>3, <1>4, <1>5, <1>6, <1>7, <1>8, <1>9, <1>10, <1>11, <1>12, <1>13, <1>14,
     <1>15, <1>16, <1>17, <1>18, <1>19, <1>20, <1>21, <1>22, <1>23, <1>24, <1>25, <1>26, <1>27

\* Whoever had taken the lock that is free has lost it.
LEMMA FreeLockIsLost ==
  ASSUME OtherTypes, LockInv, WeeklyConstants, lock = None
  PROVE  locked \subseteq lost
BY DEF LockInv, OtherTypes, WeeklyConstants

LEMMA AcquireKeepsLock ==
  ASSUME OtherTypes, LockInv, WeeklyConstants, NEW p \in WeekRuns, Acquire(p)
  PROVE  LockInv'
<1>1. locked \subseteq lost
  BY FreeLockIsLost DEF Acquire
<1> QED
  BY <1>1 DEF Acquire, LockInv

\* A step keeps LockInv: only the holder's own release, or the TTL, frees the lock.
LEMMA LockPreserved ==
  ASSUME WeeklyConstants, OtherTypes, LockInv, [WeeklyNext]_weeklyVars
  PROVE  LockInv'
<1>1. CASE UNCHANGED weeklyVars
  BY <1>1 DEF weeklyVars, LockInv
<1>2. CASE ExpireLock \/ ExpireState
  BY <1>2 DEF ExpireLock, ExpireState, lockVars, LockInv
<1>3. ASSUME NEW p \in WeekRuns, Launch(p) PROVE LockInv'
  BY <1>3, AcquireKeepsLock DEF Launch
<1>4. ASSUME NEW p \in WeekRuns, Schedule(p) PROVE LockInv'
  BY <1>4, AcquireKeepsLock DEF Schedule
<1>5. ASSUME NEW p \in WeekRuns, StartByHand(p) PROVE LockInv'
  BY <1>5 DEF StartByHand, LockInv, lockVars
<1>6. ASSUME NEW p \in WeekRuns, ReadProgress(p) PROVE LockInv'
  BY <1>6 DEF ReadProgress, LockInv, lockVars
<1>7. ASSUME NEW p \in WeekRuns, WriteProgress(p) PROVE LockInv'
  BY <1>7 DEF WriteProgress, LockInv, lockVars
<1>8. ASSUME NEW p \in WeekRuns, Claim(p) PROVE LockInv'
  <2>1. CASE lock = None
    BY <1>8, <2>1, AcquireKeepsLock DEF Claim
  <2>2. CASE lock # None
    BY <1>8, <2>2 DEF Claim, lockVars, LockInv
  <2> QED
    BY <2>1, <2>2
<1>9. ASSUME NEW p \in WeekRuns, MarkStarted(p) PROVE LockInv'
  BY <1>9 DEF MarkStarted, LockInv, lockVars
<1>10. ASSUME NEW p \in WeekRuns, Spawn(p) PROVE LockInv'
  BY <1>10 DEF Spawn, LockInv, lockVars
<1>11. ASSUME NEW p \in WeekRuns, ClearState(p) PROVE LockInv'
  BY <1>11 DEF ClearState, LockInv, lockVars
<1>12. ASSUME NEW p \in WeekRuns, BeginWeek(p) PROVE LockInv'
  BY <1>12 DEF BeginWeek, LockInv, lockVars
<1>13. ASSUME NEW p \in WeekRuns, StartAgent(p) PROVE LockInv'
  BY <1>13 DEF StartAgent, LockInv, lockVars
<1>14. ASSUME NEW p \in WeekRuns, NextStage(p) PROVE LockInv'
  BY <1>14 DEF NextStage, LockInv, lockVars
<1>15. ASSUME NEW p \in WeekRuns, SkipAgent(p) PROVE LockInv'
  BY <1>15 DEF SkipAgent, LeaveAgent, LockInv, lockVars
<1>16. ASSUME NEW p \in WeekRuns, Complete(p) PROVE LockInv'
  BY <1>16 DEF Complete, LeaveAgent, LockInv, lockVars
<1>17. ASSUME NEW p \in WeekRuns, FailAgent(p) PROVE LockInv'
  BY <1>17 DEF FailAgent, LeaveAgent, LockInv, lockVars
<1>18. ASSUME NEW p \in WeekRuns, PickAgents(p) PROVE LockInv'
  BY <1>18 DEF PickAgents, LockInv, lockVars
<1>19. ASSUME NEW p \in WeekRuns, Zip(p) PROVE LockInv'
  BY <1>19 DEF Zip, LockInv, lockVars
<1>20. ASSUME NEW p \in WeekRuns, Summarise(p) PROVE LockInv'
  BY <1>20 DEF Summarise, LockInv, lockVars
<1>21. ASSUME NEW p \in WeekRuns, MarkFinished(p) PROVE LockInv'
  BY <1>21 DEF MarkFinished, LockInv, lockVars
<1>22. ASSUME NEW p \in WeekRuns, ReleaseLock(p) PROVE LockInv'
  BY <1>22 DEF ReleaseLock, Release, LeaveLock, LockInv
<1>23. ASSUME NEW p \in WeekRuns, ClaimUnanswered(p) PROVE LockInv'
  BY <1>23, FreeLockIsLost DEF ClaimUnanswered, LockInv
<1>24. ASSUME NEW p \in WeekRuns, SpawnFails(p) PROVE LockInv'
  BY <1>24 DEF SpawnFails, Release, LeaveLock, LockInv
<1>25. ASSUME NEW p \in WeekRuns, NoAgents(p) PROVE LockInv'
  BY <1>25 DEF NoAgents, LockInv, lockVars
<1>26. ASSUME NEW p \in WeekRuns, Raise(p) PROVE LockInv'
  BY <1>26 DEF Raise, LockInv, lockVars
<1>27. ASSUME NEW p \in WeekRuns, Die(p) PROVE LockInv'
  BY <1>27 DEF Die, LockInv
<1> QED
  BY WeeklySteps, <1>1, <1>2, <1>3, <1>4, <1>5, <1>6, <1>7, <1>8, <1>9, <1>10, <1>11, <1>12, <1>13, <1>14,
     <1>15, <1>16, <1>17, <1>18, <1>19, <1>20, <1>21, <1>22, <1>23, <1>24, <1>25, <1>26, <1>27

\* A step keeps StateInv: each way out of a run marks it, but for a kill or an error
\* of Redis, and a run with the lock brings back only a "running" that is its own to end.
LEMMA StatePreserved ==
  ASSUME WeeklyConstants, ControlTypes, OtherTypes, LockedPlaces, OwedInv, StateInv, [WeeklyNext]_weeklyVars
  PROVE  StateInv'
<1>1. CASE UNCHANGED weeklyVars
  BY <1>1 DEF weeklyVars, StateInv, Marked
<1>2. CASE ExpireLock \/ ExpireState
  BY <1>2 DEF ExpireLock, ExpireState, lockVars, StateInv, Marked
<1>3. ASSUME NEW p \in WeekRuns, Launch(p) PROVE StateInv'
  BY <1>3 DEF Launch, GoTo, At, Acquire, ControlTypes, OtherTypes, LockedPlaces, StateInv, Marked
<1>4. ASSUME NEW p \in WeekRuns, Schedule(p) PROVE StateInv'
  BY <1>4 DEF Schedule, GoTo, At, Acquire, ControlTypes, OtherTypes, LockedPlaces, StateInv, Marked
<1>5. ASSUME NEW p \in WeekRuns, StartByHand(p) PROVE StateInv'
  BY <1>5 DEF StartByHand, GoTo, At, ControlTypes, OtherTypes, LockedPlaces, StateInv, Marked, lockVars
<1>6. ASSUME NEW p \in WeekRuns, ReadProgress(p) PROVE StateInv'
  BY <1>6 DEF ReadProgress, lockVars, StateInv, Marked
<1>7. ASSUME NEW p \in WeekRuns, WriteProgress(p) PROVE StateInv'
  <2>1. UNCHANGED <<lock, locked, wpc>> /\ (ghost => ghost')
    <3>1. UNCHANGED <<lock, locked, wpc>>
      BY <1>7 DEF WriteProgress, lockVars
    <3>2. ghost => ghost'
      BY <1>7 DEF WriteProgress
    <3> QED
      BY <3>1, <3>2
  <2>2. CASE state' = "running" /\ state # "running" /\ p \in locked
    <3>1. Marked(p)
      BY <1>7, <2>2 DEF WriteProgress, OwedInv, LockedPlaces, OtherTypes, Marked, Attending
    <3>2. Marked(p)'
      BY <2>1, <3>1 DEF Marked
    <3> QED
      BY <2>1, <3>2 DEF StateInv
  <2>3. CASE state' = "running" /\ state # "running" /\ p \notin locked
    <3>1. ghost'
      BY <1>7, <2>3 DEF WriteProgress
    <3> QED
      BY <3>1 DEF StateInv
  <2>4. CASE state' # "running" \/ state = "running"
    BY <2>1, <2>4 DEF StateInv, Marked
  <2> QED
    BY <2>2, <2>3, <2>4
<1>8. ASSUME NEW p \in WeekRuns, Claim(p) PROVE StateInv'
  BY <1>8 DEF Claim, GoTo, At, Acquire, ControlTypes, OtherTypes, LockedPlaces, StateInv, Marked, lockVars
<1>9. ASSUME NEW p \in WeekRuns, MarkStarted(p) PROVE StateInv'
  BY <1>9 DEF MarkStarted, GoTo, At, ControlTypes, OtherTypes, LockedPlaces, StateInv, Marked, Busy, Attending, lockVars
<1>10. ASSUME NEW p \in WeekRuns, Spawn(p) PROVE StateInv'
  BY <1>10 DEF Spawn, GoTo, At, ControlTypes, OtherTypes, LockedPlaces, StateInv, Marked, lockVars
<1>11. ASSUME NEW p \in WeekRuns, ClearState(p) PROVE StateInv'
  BY <1>11 DEF ClearState, GoTo, At, ControlTypes, OtherTypes, LockedPlaces, StateInv, Marked, lockVars
<1>12. ASSUME NEW p \in WeekRuns, BeginWeek(p) PROVE StateInv'
  BY <1>12 DEF BeginWeek, GoTo, At, ControlTypes, LockedPlaces, StateInv, Marked, lockVars
<1>13. ASSUME NEW p \in WeekRuns, StartAgent(p) PROVE StateInv'
  BY <1>13 DEF StartAgent, GoTo, At, ControlTypes, LockedPlaces, StateInv, Marked, lockVars
<1>14. ASSUME NEW p \in WeekRuns, NextStage(p) PROVE StateInv'
  BY <1>14 DEF NextStage, GoTo, At, ControlTypes, LockedPlaces, StateInv, Marked, lockVars
<1>15. ASSUME NEW p \in WeekRuns, SkipAgent(p) PROVE StateInv'
  BY <1>15 DEF SkipAgent, LeaveAgent, GoTo, At, ControlTypes, LockedPlaces, StateInv, Marked, lockVars
<1>16. ASSUME NEW p \in WeekRuns, Complete(p) PROVE StateInv'
  BY <1>16 DEF Complete, LeaveAgent, GoTo, At, ControlTypes, LockedPlaces, StateInv, Marked, lockVars
<1>17. ASSUME NEW p \in WeekRuns, FailAgent(p) PROVE StateInv'
  BY <1>17 DEF FailAgent, LeaveAgent, GoTo, At, ControlTypes, LockedPlaces, StateInv, Marked, lockVars
<1>18. ASSUME NEW p \in WeekRuns, PickAgents(p) PROVE StateInv'
  BY <1>18 DEF PickAgents, GoTo, At, ControlTypes, LockedPlaces, StateInv, Marked, lockVars
<1>19. ASSUME NEW p \in WeekRuns, Zip(p) PROVE StateInv'
  BY <1>19 DEF Zip, GoTo, At, ControlTypes, LockedPlaces, StateInv, Marked, lockVars
<1>20. ASSUME NEW p \in WeekRuns, Summarise(p) PROVE StateInv'
  BY <1>20 DEF Summarise, GoTo, At, ControlTypes, LockedPlaces, StateInv, Marked, OtherTypes, lockVars
<1>21. ASSUME NEW p \in WeekRuns, MarkFinished(p) PROVE StateInv'
  BY <1>21 DEF MarkFinished, GoTo, At, ControlTypes, OtherTypes, LockedPlaces, StateInv, Marked, lockVars
<1>22. ASSUME NEW p \in WeekRuns, ReleaseLock(p) PROVE StateInv'
  BY <1>22 DEF ReleaseLock, GoTo, At, Release, LeaveLock, ControlTypes, OtherTypes, LockedPlaces, StateInv, Marked
<1>23. ASSUME NEW p \in WeekRuns, ClaimUnanswered(p) PROVE StateInv'
  BY <1>23 DEF ClaimUnanswered, GoTo, At, ControlTypes, OtherTypes, LockedPlaces, StateInv, Marked
<1>24. ASSUME NEW p \in WeekRuns, SpawnFails(p) PROVE StateInv'
  BY <1>24 DEF SpawnFails, GoTo, At, Release, LeaveLock, ControlTypes, OtherTypes, LockedPlaces, StateInv, Marked
<1>25. ASSUME NEW p \in WeekRuns, NoAgents(p) PROVE StateInv'
  BY <1>25 DEF NoAgents, GoTo, At, ControlTypes, LockedPlaces, StateInv, Marked, lockVars
<1>26. ASSUME NEW p \in WeekRuns, Raise(p) PROVE StateInv'
  BY <1>26 DEF Raise, GoTo, At, ControlTypes, LockedPlaces, StateInv, Marked, OtherTypes, Busy, Attending, lockVars
<1>27. ASSUME NEW p \in WeekRuns, Die(p) PROVE StateInv'
  BY <1>27 DEF Die, GoTo, At, ControlTypes, OtherTypes, LockedPlaces, StateInv, Marked
<1> QED
  BY WeeklySteps, <1>1, <1>2, <1>3, <1>4, <1>5, <1>6, <1>7, <1>8, <1>9, <1>10, <1>11, <1>12, <1>13, <1>14,
     <1>15, <1>16, <1>17, <1>18, <1>19, <1>20, <1>21, <1>22, <1>23, <1>24, <1>25, <1>26, <1>27

\* A step keeps complete reports of one attempt.
LEMMA ReportPreserved ==
  ASSUME WeeklyConstants, ControlTypes, OutputTypes, ReportOfOneAttempt, [WeeklyNext]_weeklyVars
  PROVE  ReportOfOneAttempt'
<1>1. CASE UNCHANGED weeklyVars
  BY <1>1 DEF weeklyVars, ReportOfOneAttempt
<1>2. CASE ExpireLock \/ ExpireState
  BY <1>2 DEF ExpireLock, ExpireState, dbVars, ReportOfOneAttempt
<1>3. ASSUME NEW p \in WeekRuns, Launch(p) PROVE ReportOfOneAttempt'
  BY <1>3 DEF Launch, ReportOfOneAttempt, dbVars
<1>4. ASSUME NEW p \in WeekRuns, Schedule(p) PROVE ReportOfOneAttempt'
  BY <1>4 DEF Schedule, ReportOfOneAttempt, dbVars
<1>5. ASSUME NEW p \in WeekRuns, StartByHand(p) PROVE ReportOfOneAttempt'
  BY <1>5 DEF StartByHand, ReportOfOneAttempt, dbVars
<1>6. ASSUME NEW p \in WeekRuns, ReadProgress(p) PROVE ReportOfOneAttempt'
  BY <1>6 DEF ReadProgress, ReportOfOneAttempt, dbVars
<1>7. ASSUME NEW p \in WeekRuns, WriteProgress(p) PROVE ReportOfOneAttempt'
  BY <1>7 DEF WriteProgress, ReportOfOneAttempt, dbVars
<1>8. ASSUME NEW p \in WeekRuns, Claim(p) PROVE ReportOfOneAttempt'
  BY <1>8 DEF Claim, ReportOfOneAttempt, dbVars
<1>9. ASSUME NEW p \in WeekRuns, MarkStarted(p) PROVE ReportOfOneAttempt'
  BY <1>9 DEF MarkStarted, ReportOfOneAttempt, dbVars
<1>10. ASSUME NEW p \in WeekRuns, Spawn(p) PROVE ReportOfOneAttempt'
  BY <1>10 DEF Spawn, ReportOfOneAttempt, dbVars
<1>11. ASSUME NEW p \in WeekRuns, ClearState(p) PROVE ReportOfOneAttempt'
  BY <1>11 DEF ClearState, ReportOfOneAttempt, dbVars
<1>12. ASSUME NEW p \in WeekRuns, BeginWeek(p) PROVE ReportOfOneAttempt'
  BY <1>12 DEF BeginWeek, ReportOfOneAttempt
<1>13. ASSUME NEW p \in WeekRuns, StartAgent(p) PROVE ReportOfOneAttempt'
  BY <1>13 DEF StartAgent, SetRow, OutputTypes, ReportOfOneAttempt
<1>14. ASSUME NEW p \in WeekRuns, NextStage(p) PROVE ReportOfOneAttempt'
  BY <1>14 DEF NextStage, ReportOfOneAttempt, dbVars
<1>15. ASSUME NEW p \in WeekRuns, SkipAgent(p) PROVE ReportOfOneAttempt'
  BY <1>15 DEF SkipAgent, LeaveAgent, SetRow, OutputTypes, ReportOfOneAttempt
<1>16. ASSUME NEW p \in WeekRuns, Complete(p) PROVE ReportOfOneAttempt'
  BY <1>16 DEF Complete, LeaveAgent, SetRow, OutputTypes, ReportOfOneAttempt
<1>17. ASSUME NEW p \in WeekRuns, FailAgent(p) PROVE ReportOfOneAttempt'
  <2>1. cur[p] \in Agents
    BY <1>17 DEF FailAgent, At, Attending, ControlTypes
  <2>2. row[cur[p]] \in Rows
    BY <2>1 DEF OutputTypes
  <2>3. row'[cur[p]].status = "failed" /\ \A a \in Agents \ {cur[p]} : row'[a] = row[a]
    BY <1>17, <2>1, <2>2, ZenonT(30) DEF FailAgent, SetRow, OutputTypes, Rows
  <2>4. file' = file
    BY <1>17 DEF FailAgent
  <2> QED
    BY <2>3, <2>4 DEF ReportOfOneAttempt
<1>18. ASSUME NEW p \in WeekRuns, PickAgents(p) PROVE ReportOfOneAttempt'
  BY <1>18 DEF PickAgents, ReportOfOneAttempt, dbVars
<1>19. ASSUME NEW p \in WeekRuns, Zip(p) PROVE ReportOfOneAttempt'
  BY <1>19 DEF Zip, ReportOfOneAttempt
<1>20. ASSUME NEW p \in WeekRuns, Summarise(p) PROVE ReportOfOneAttempt'
  BY <1>20 DEF Summarise, ReportOfOneAttempt
<1>21. ASSUME NEW p \in WeekRuns, MarkFinished(p) PROVE ReportOfOneAttempt'
  BY <1>21 DEF MarkFinished, ReportOfOneAttempt, dbVars
<1>22. ASSUME NEW p \in WeekRuns, ReleaseLock(p) PROVE ReportOfOneAttempt'
  BY <1>22 DEF ReleaseLock, ReportOfOneAttempt, dbVars
<1>23. ASSUME NEW p \in WeekRuns, ClaimUnanswered(p) PROVE ReportOfOneAttempt'
  BY <1>23 DEF ClaimUnanswered, ReportOfOneAttempt, dbVars
<1>24. ASSUME NEW p \in WeekRuns, SpawnFails(p) PROVE ReportOfOneAttempt'
  BY <1>24 DEF SpawnFails, ReportOfOneAttempt, dbVars
<1>25. ASSUME NEW p \in WeekRuns, NoAgents(p) PROVE ReportOfOneAttempt'
  BY <1>25 DEF NoAgents, ReportOfOneAttempt
<1>26. ASSUME NEW p \in WeekRuns, Raise(p) PROVE ReportOfOneAttempt'
  BY <1>26 DEF Raise, OutputTypes, ReportOfOneAttempt
<1>27. ASSUME NEW p \in WeekRuns, Die(p) PROVE ReportOfOneAttempt'
  BY <1>27 DEF Die, ReportOfOneAttempt, dbVars
<1> QED
  BY WeeklySteps, <1>1, <1>2, <1>3, <1>4, <1>5, <1>6, <1>7, <1>8, <1>9, <1>10, <1>11, <1>12, <1>13, <1>14,
     <1>15, <1>16, <1>17, <1>18, <1>19, <1>20, <1>21, <1>22, <1>23, <1>24, <1>25, <1>26, <1>27

\* A step keeps BundleInv: nobody else changes a row between the choice of the
\* agents and the end of the run, unless runs overlap.
LEMMA BundlePreserved ==
  ASSUME WeeklyConstants, ControlTypes, OutputTypes, ReportOfOneAttempt, BundleInv, [WeeklyNext]_weeklyVars
  PROVE  BundleInv'
<1>1. CASE UNCHANGED weeklyVars
  BY <1>1 DEF weeklyVars, BundleInv, Bundled, Working, CompleteAgents
<1>2. CASE ExpireLock \/ ExpireState
  BY <1>2 DEF ExpireLock, ExpireState, workVars, dbVars, pastVars, BundleInv, Bundled, Working, CompleteAgents
<1>3. ASSUME NEW p \in WeekRuns, Launch(p) PROVE BundleInv'
  BY <1>3 DEF Launch, GoTo, At, ControlTypes, BundleInv, Bundled, Working, Busy, Attending, CompleteAgents, workVars, dbVars, pastVars
<1>4. ASSUME NEW p \in WeekRuns, Schedule(p) PROVE BundleInv'
  BY <1>4 DEF Schedule, GoTo, At, ControlTypes, BundleInv, Bundled, Working, Busy, Attending, CompleteAgents, workVars, dbVars, pastVars
<1>5. ASSUME NEW p \in WeekRuns, StartByHand(p) PROVE BundleInv'
  BY <1>5 DEF StartByHand, GoTo, At, ControlTypes, BundleInv, Bundled, Working, Busy, Attending, CompleteAgents, workVars, dbVars, pastVars
<1>6. ASSUME NEW p \in WeekRuns, ReadProgress(p) PROVE BundleInv'
  BY <1>6 DEF ReadProgress, BundleInv, Bundled, Working, CompleteAgents, workVars, dbVars, pastVars
<1>7. ASSUME NEW p \in WeekRuns, WriteProgress(p) PROVE BundleInv'
  BY <1>7 DEF WriteProgress, BundleInv, Bundled, Working, CompleteAgents, workVars, dbVars, pastVars
<1>8. ASSUME NEW p \in WeekRuns, Claim(p) PROVE BundleInv'
  BY <1>8 DEF Claim, GoTo, At, ControlTypes, BundleInv, Bundled, Working, Busy, Attending, CompleteAgents, workVars, dbVars, pastVars
<1>9. ASSUME NEW p \in WeekRuns, MarkStarted(p) PROVE BundleInv'
  BY <1>9 DEF MarkStarted, GoTo, At, ControlTypes, BundleInv, Bundled, Working, Busy, Attending, CompleteAgents, workVars, dbVars, pastVars
<1>10. ASSUME NEW p \in WeekRuns, Spawn(p) PROVE BundleInv'
  BY <1>10 DEF Spawn, GoTo, At, ControlTypes, BundleInv, Bundled, Working, Busy, Attending, CompleteAgents, workVars, dbVars, pastVars
<1>11. ASSUME NEW p \in WeekRuns, ClearState(p) PROVE BundleInv'
  BY <1>11 DEF ClearState, GoTo, At, ControlTypes, BundleInv, Bundled, Working, Busy, Attending, CompleteAgents, workVars, dbVars, pastVars
<1>12. ASSUME NEW p \in WeekRuns, BeginWeek(p) PROVE BundleInv'
  BY <1>12 DEF BeginWeek, GoTo, At, ControlTypes, BundleInv, Working, Busy, Attending
<1>13. ASSUME NEW p \in WeekRuns, StartAgent(p) PROVE BundleInv'
  BY <1>13 DEF StartAgent, GoTo, At, ControlTypes, BundleInv, Working, Busy, Attending, pastVars
<1>14. ASSUME NEW p \in WeekRuns, NextStage(p) PROVE BundleInv'
  BY <1>14 DEF NextStage, GoTo, At, ControlTypes, BundleInv, Working, Busy, Attending, workVars, dbVars, pastVars
<1>15. ASSUME NEW p \in WeekRuns, SkipAgent(p) PROVE BundleInv'
  BY <1>15 DEF SkipAgent, LeaveAgent, GoTo, At, ControlTypes, BundleInv, Working, Busy, Attending, pastVars
<1>16. ASSUME NEW p \in WeekRuns, Complete(p) PROVE BundleInv'
  BY <1>16 DEF Complete, LeaveAgent, GoTo, At, ControlTypes, BundleInv, Working, Busy, Attending, pastVars
<1>17. ASSUME NEW p \in WeekRuns, FailAgent(p) PROVE BundleInv'
  BY <1>17 DEF FailAgent, LeaveAgent, GoTo, At, ControlTypes, BundleInv, Working, Busy, Attending, pastVars
<1>18. ASSUME NEW p \in WeekRuns, PickAgents(p) PROVE BundleInv'
  BY <1>18 DEF PickAgents, GoTo, At, ControlTypes, BundleInv, Bundled, Working, Busy, Attending, CompleteAgents, dbVars, pastVars
<1>19. ASSUME NEW p \in WeekRuns, Zip(p) PROVE BundleInv'
  <2>1. CASE ~overlap
    <3>1. picked[p] = CompleteAgents /\ \A q \in Working : q = p
      BY <1>19, <2>1 DEF Zip, BundleInv, Working, Busy
    <3>2. \A a \in Agents : a \in CompleteAgents => file[a] = "last"
      BY DEF ReportOfOneAttempt, CompleteAgents
    <3>3. PICK pick \in [Names -> Agents \cup {None}] :
            /\ \A n \in Names : IF Packed(p, n) = {} THEN pick[n] = None ELSE pick[n] \in Packed(p, n)
            /\ zip' = [n \in Names |-> [of |-> pick[n],
                                        pdf |-> IF pick[n] = None THEN "none" ELSE file[pick[n]]]]
      BY <1>19 DEF Zip
    <3>4. CompleteAgents' = CompleteAgents /\ CompleteAgents \subseteq Agents
      BY <1>19 DEF Zip, CompleteAgents
    <3>5. ASSUME NEW n \in Names
          PROVE  IF \E a \in CompleteAgents : NameOf[a] = n
                 THEN zip'[n].of \in CompleteAgents /\ NameOf[zip'[n].of] = n /\ zip'[n].pdf = "last"
                 ELSE zip'[n].pdf = "none"
      <4>1. Packed(p, n) = {a \in CompleteAgents : NameOf[a] = n}
        BY <3>1, <3>2, <3>4 DEF Packed
      <4>2. CASE \E a \in CompleteAgents : NameOf[a] = n
        <5>1. pick[n] \in CompleteAgents /\ NameOf[pick[n]] = n
          BY <3>3, <4>1, <4>2
        <5>2. pick[n] \in Agents /\ pick[n] # None /\ file[pick[n]] = "last"
          BY <3>2, <3>4, <5>1 DEF WeeklyConstants
        <5>3. zip'[n].of = pick[n] /\ zip'[n].pdf = "last"
          BY <3>3, <5>2
        <5> QED
          BY <4>2, <5>1, <5>3
      <4>3. CASE ~\E a \in CompleteAgents : NameOf[a] = n
        <5>1. pick[n] = None
          BY <3>3, <4>1, <4>3
        <5> QED
          BY <3>3, <4>3, <5>1
      <4> QED
        BY <4>2, <4>3
    <3>6. Bundled'
      BY <3>4, <3>5 DEF Bundled
    <3>7. week # "complete"
      BY <1>19, <2>1 DEF Zip, BundleInv, Working, Busy
    <3> QED
      BY <1>19, <3>1, <3>6, <3>7 DEF Zip, GoTo, ControlTypes, BundleInv, Working, Busy
  <2> QED
    BY <1>19, <2>1 DEF Zip, pastVars, BundleInv
<1>20. ASSUME NEW p \in WeekRuns, Summarise(p) PROVE BundleInv'
  BY <1>20 DEF Summarise, GoTo, At, ControlTypes, BundleInv, Bundled, Working, Busy, Attending, CompleteAgents, pastVars
<1>21. ASSUME NEW p \in WeekRuns, MarkFinished(p) PROVE BundleInv'
  BY <1>21 DEF MarkFinished, GoTo, At, ControlTypes, BundleInv, Bundled, Working, Busy, Attending, CompleteAgents, dbVars, pastVars
<1>22. ASSUME NEW p \in WeekRuns, ReleaseLock(p) PROVE BundleInv'
  BY <1>22 DEF ReleaseLock, GoTo, At, ControlTypes, BundleInv, Bundled, Working, Busy, Attending, CompleteAgents, workVars, dbVars, pastVars
<1>23. ASSUME NEW p \in WeekRuns, ClaimUnanswered(p) PROVE BundleInv'
  BY <1>23 DEF ClaimUnanswered, GoTo, At, ControlTypes, BundleInv, Bundled, Working, Busy, Attending, CompleteAgents, workVars, dbVars, pastVars
<1>24. ASSUME NEW p \in WeekRuns, SpawnFails(p) PROVE BundleInv'
  BY <1>24 DEF SpawnFails, GoTo, At, ControlTypes, BundleInv, Bundled, Working, Busy, Attending, CompleteAgents, workVars, dbVars, pastVars
<1>25. ASSUME NEW p \in WeekRuns, NoAgents(p) PROVE BundleInv'
  BY <1>25 DEF NoAgents, GoTo, At, ControlTypes, BundleInv, Bundled, Working, Busy, Attending, CompleteAgents
<1>26. ASSUME NEW p \in WeekRuns, Raise(p) PROVE BundleInv'
  BY <1>26 DEF Raise, GoTo, At, Drop, ControlTypes, BundleInv, Working, Busy, Attending
<1>27. ASSUME NEW p \in WeekRuns, Die(p) PROVE BundleInv'
  BY <1>27 DEF Die, GoTo, At, Drop, ControlTypes, BundleInv, Bundled, Working, Busy, Attending, CompleteAgents, dbVars
<1> QED
  BY WeeklySteps, <1>1, <1>2, <1>3, <1>4, <1>5, <1>6, <1>7, <1>8, <1>9, <1>10, <1>11, <1>12, <1>13, <1>14,
     <1>15, <1>16, <1>17, <1>18, <1>19, <1>20, <1>21, <1>22, <1>23, <1>24, <1>25, <1>26, <1>27
-------------------------------------------------------------------------------
\* The invariant is preserved by every step.
LEMMA WeeklyInvPreserved ==
  ASSUME WeeklyConstants, WeeklyInv, [WeeklyNext]_weeklyVars
  PROVE  WeeklyInv'
<1>1. ControlTypes /\ ProgressTypes /\ OtherTypes /\ OutputTypes
  BY DEF WeeklyInv, WeeklyTypeOK, ControlTypes, ProgressTypes, OtherTypes, OutputTypes, Rows, Entries
<1>2. ControlTypes' /\ ProgressTypes' /\ OtherTypes' /\ OutputTypes'
  BY <1>1, ControlPreserved, ProgressTypesPreserved, OthersPreserved, OutputsPreserved DEF WeeklyInv
<1>3. WeeklyTypeOK'
  BY <1>2 DEF WeeklyTypeOK, ControlTypes, ProgressTypes, OtherTypes, OutputTypes, Rows, Entries
<1>4. LockedPlaces' /\ OwedInv' /\ LockInv' /\ StateInv'
  BY <1>1, LockedPlacesPreserved, OwedPreserved, LockPreserved, StatePreserved DEF WeeklyInv
<1>5. ReportOfOneAttempt' /\ BundleInv'
  BY <1>1, ReportPreserved, BundlePreserved DEF WeeklyInv
<1> QED
  BY <1>3, <1>4, <1>5 DEF WeeklyInv

\* WeeklyInv is an invariant of the weekly run.
THEOREM WeeklyInvariant == ASSUME WeeklyConstants PROVE WeeklySpec => []WeeklyInv
<1>1. WeeklyInit => WeeklyInv
  BY WeeklyInvInit
<1>2. WeeklyInv /\ [WeeklyNext]_weeklyVars => WeeklyInv'
  BY WeeklyInvPreserved
<1> QED
  BY <1>1, <1>2, PTL DEF WeeklySpec

\* The variables have their types, and a run holds an agent exactly while it is
\* at work on it.
THEOREM WeeklyTypeCorrect == ASSUME WeeklyConstants PROVE WeeklySpec => []WeeklyTypeOK
<1>1. WeeklyInv => WeeklyTypeOK
  BY DEF WeeklyInv
<1> QED
  BY <1>1, WeeklyInvariant, PTL

\* Runs for all agents overlap only if a lock expired or was deleted, whoever
\* starts them (launcher.py, scheduler_loop.py, pipeline.py).
THEOREM WeeklyOneRun == ASSUME WeeklyConstants PROVE WeeklySpec => []OneWeeklyRun
<1>1. WeeklyInv => OneWeeklyRun
  BY DEF WeeklyInv, LockInv, OneWeeklyRun
<1> QED
  BY <1>1, WeeklyInvariant, PTL

\* The page shows a run, and refuses to start one, only while one goes on, or
\* after one was killed, after an error of Redis, or after a run without the lock
\* wrote back a "running" it had read (settings_store.set_weekly_run_state).
THEOREM WeeklyNoGhost == ASSUME WeeklyConstants PROVE WeeklySpec => []NoGhostRun
<1>1. WeeklyInv => NoGhostRun
  <2> SUFFICES ASSUME WeeklyInv, state = "running" \/ lock # None, locked = {}
               PROVE  ghost \/ \E p \in Launched : wpc[p] = "despawning"
    BY DEF NoGhostRun
  <2>1. CASE lock # None
    BY <2>1 DEF WeeklyInv, StateInv
  <2>2. CASE state = "running"
    BY <2>2 DEF WeeklyInv, StateInv, Marked, LockedPlaces
  <2> QED
    BY <2>1, <2>2
<1> QED
  BY <1>1, WeeklyInvariant, PTL

\* The counts, findings and PDF of a complete agent are of one attempt, and the
\* bundle of a complete week holds the last PDFs of its complete agents, one for
\* each name, unless runs overlapped.
THEOREM WeeklyOutputs == ASSUME WeeklyConstants PROVE WeeklySpec => []OutputsMatch
<1>1. WeeklyInv => OutputsMatch
  BY DEF WeeklyInv, BundleInv, OutputsMatch, BundleMatches
<1> QED
  BY <1>1, WeeklyInvariant, PTL
===============================================================================
