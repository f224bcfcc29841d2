------------------------------ MODULE IngestSync ------------------------------
(***************************************************************************)
(* Incremental ingest of one agent: the watermark (AgentIngestStateService)*)
(* the backward sweep of the Momants inbox in date windows                 *)
(* (MomantsClient.collect_inbox_entries_by_window), the batches of         *)
(* run_pipeline and the rule by which IngestionService skips conversations.*)
(*                                                                         *)
(* Time is a small natural number and 0 stands for None.  A conversation   *)
(* is described by the time of its newest message: lastActive in Momants,  *)
(* messages for what the database holds.  Runs of the same agent can       *)
(* overlap: the pipeline lock does not prevent it.                         *)
(***************************************************************************)
EXTENDS Integers, FiniteSets

CONSTANTS
  Convs,         \* conversations of the agent, numbered as Momants breaks ties
  Runs,          \* processes that execute run_pipeline, again and again
  Reanalyze,     \* the runs started with --reanalyze
  MaxTime,       \* bound on the clock
  WindowWidth,   \* settings.ingestion_window_days
  MaxEmpty,      \* settings.ingestion_max_empty_windows
  PageSize,      \* settings.ingestion_page_size
  HardLimit,     \* settings.ingestion_max_conversations
  BatchSize,     \* settings.ingestion_batch_size
  Faults         \* which of FaultKinds can happen

\* "fail"   one conversation cannot be fetched or stored
\* "cancel" a worker of the run finds the cancel flag of its batch
\* "abort"  the run raises, or its process is killed
\* "drift"  a message arrives while a run is between two pages of a window
FaultKinds == {"fail", "cancel", "abort", "drift"}

ASSUME ConvsAssumption == Convs \subseteq Nat /\ IsFiniteSet(Convs)
ASSUME RunsAssumption == Reanalyze \subseteq Runs /\ Faults \subseteq FaultKinds
ASSUME SizesAssumption ==
  /\ MaxTime \in Nat \ {0} /\ WindowWidth \in Nat \ {0} /\ MaxEmpty \in Nat \ {0}
  /\ PageSize \in Nat \ {0} /\ HardLimit \in Nat \ {0} /\ BatchSize \in Nat \ {0}

VARIABLES
  clock,
  lastActive,      \* Momants: last_seen of each conversation
  messages,        \* database: the newest message stored of each conversation
  sourceLastSeen,  \* database: conversations.source_last_seen
  watermark,       \* database: agent_ingest_states.last_sync_completed_at
  lastComplete,    \* database: the newest completed_at of a complete ingestion job
  pc,              \* what each run does: "idle", "starting", "listing", "ingesting"
  started,         \* its sync_started_at
  startDate,       \* its inbox_start_date
  window,          \* the window it is listing
  listed,          \* the entries it has collected, one per conversation
  fetched,         \* what it has fetched and not stored yet
  done,            \* the conversations it has dealt with
  closed,          \* the batches whose job has ended
  passed,          \* history: the newest message of each conversation that a run passed over
  backfilled       \* history: a run has taken lastComplete for the watermark

momants == <<clock, lastActive>>
conversations == <<messages, sourceLastSeen>>
syncState == <<watermark, lastComplete>>
sweep == <<started, startDate, window, listed>>
work == <<fetched, done, closed>>
history == <<passed, backfilled>>
vars == <<momants, conversations, syncState, pc, sweep, work, history>>

Times == 0..MaxTime
\* An inbox entry and its place in the list of the run.
Entries == [conv : Convs, seen : Times, place : Nat]
NoWindow == [end |-> 0, page |-> 1, room |-> 0, count |-> 0, empties |-> 0]

Init ==
  /\ clock = 1
  /\ lastActive \in [Convs -> 0..1]
  /\ messages = [c \in Convs |-> 0] /\ sourceLastSeen = [c \in Convs |-> 0]
  /\ watermark = 0 /\ lastComplete = 0
  /\ pc = [r \in Runs |-> "idle"]
  /\ started = [r \in Runs |-> 0] /\ startDate = [r \in Runs |-> 0]
  /\ window = [r \in Runs |-> NoWindow]
  /\ listed = [r \in Runs |-> {}]
  /\ fetched = [r \in Runs |-> [c \in Convs |-> 0]]
  /\ done = [r \in Runs |-> {}]
  /\ closed = [r \in Runs |-> {}]
  /\ passed = [c \in Convs |-> 0] /\ backfilled = FALSE
-------------------------------------------------------------------------------
(* Momants *)

Tick ==
  /\ clock < MaxTime
  /\ clock' = clock + 1
  /\ UNCHANGED <<lastActive, conversations, syncState, pc, sweep, work, history>>

\* The inbox from one date to another, and the place of a conversation in it:
\* newest first.
Inbox(from, to) == {c \in Convs : lastActive[c] > 0 /\ lastActive[c] \in from..to}
Before(c, d) == lastActive[c] > lastActive[d] \/ (lastActive[c] = lastActive[d] /\ c < d)
Rank(c, S) == Cardinality({d \in S : Before(d, c)})

\* The window that reaches the start date of run r ends there and is the last one.
ReachesStart(r) == startDate[r] > 0 /\ window[r].end - WindowWidth <= startDate[r]
WindowStart(r) == IF ReachesStart(r) THEN startDate[r] ELSE window[r].end - WindowWidth
WindowInbox(r) == Inbox(WindowStart(r), window[r].end)

\* The conversations of the window on the pages the run has not read.
ToCome(r) ==
  {c \in WindowInbox(r) : Rank(c, WindowInbox(r)) >= (window[r].page - 1) * PageSize}

\* A message is sent in conversation c, which moves to the front or out of the
\* window; what it was behind moves up, past a run that is between two pages.
Activity(c) ==
  /\ lastActive[c] < clock
  /\ "drift" \in Faults \/ \A r \in Runs : window[r].page = 1
  /\ lastActive' = [lastActive EXCEPT ![c] = clock]
  /\ UNCHANGED <<clock, conversations, syncState, pc, sweep, work, backfilled>>
  /\ passed' = [d \in Convs |->
       IF d # c /\ \E r \in Runs : d \in ToCome(r) \ ToCome(r)' THEN lastActive[d] ELSE passed[d]]
-------------------------------------------------------------------------------
(* The start of a run: mark_sync_started and get_inbox_start_date *)

Start(r) ==
  /\ pc[r] = "idle"
  /\ pc' = [pc EXCEPT ![r] = "starting"]
  /\ started' = [started EXCEPT ![r] = clock]
  /\ startDate' = [startDate EXCEPT ![r] = IF watermark > 0 THEN watermark ELSE lastComplete]
  /\ backfilled' = (backfilled \/ (watermark = 0 /\ lastComplete > 0))
  /\ UNCHANGED <<momants, conversations, syncState, window, listed, work, passed>>

\* The sweep reads the clock: its first window ends now.
BeginSweep(r) ==
  /\ pc[r] = "starting"
  /\ pc' = [pc EXCEPT ![r] = "listing"]
  /\ window' = [window EXCEPT ![r].end = clock, ![r].room = HardLimit]
  /\ UNCHANGED <<momants, conversations, syncState, started, startDate, listed, work, history>>
-------------------------------------------------------------------------------
(* The sweep: collect_inbox_entries_by_window *)

Page(r) ==
  {c \in WindowInbox(r) :
     Rank(c, WindowInbox(r)) \in (window[r].page - 1) * PageSize .. window[r].page * PageSize - 1}

\* What is collected of the page: no more than the limit leaves room for.
Shown(r) == {c \in Page(r) : window[r].count + Rank(c, Page(r)) < window[r].room}
Count(r) == window[r].count + Cardinality(Shown(r))
Truncated(r) == Count(r) = window[r].room

\* Mutant: pages are counted from 0.
LastPageEarly(r) ==
  \/ Page(r) = {}
  \/ Truncated(r)
  \/ (window[r].page + 1) * PageSize >= Cardinality(WindowInbox(r))

LastPage(r) ==
  \/ Page(r) = {}
  \/ Truncated(r)
  \/ window[r].page * PageSize >= Cardinality(WindowInbox(r))

ConvsIn(entries) == {e.conv : e \in entries}

\* Mutant: windows and pages are concatenated as they come.
CollectAll(r) ==
  LET place(c) == Cardinality(listed[r]) + Rank(c, Shown(r)) IN
  listed[r] \cup {[conv |-> c, seen |-> lastActive[c], place |-> place(c)] : c \in Shown(r)}

\* The list with the entries of the page, but for conversations already listed.
Collect(r) ==
  LET new == Shown(r) \ ConvsIn(listed[r])
      place(c) == Cardinality(listed[r]) + Rank(c, new)
  IN  listed[r] \cup {[conv |-> c, seen |-> lastActive[c], place |-> place(c)] : c \in new}

ReadPage(r) ==
  /\ pc[r] = "listing" /\ ~LastPage(r)
  /\ listed' = [listed EXCEPT ![r] = Collect(r)]
  /\ window' = [window EXCEPT ![r].page = @ + 1, ![r].count = Count(r)]
  /\ UNCHANGED <<momants, conversations, syncState, pc, started, startDate, work, history>>

Empties(r) == IF Count(r) = 0 THEN window[r].empties + 1 ELSE 0
SweepEnds(r) ==
  \/ ReachesStart(r)
  \/ startDate[r] = 0 /\ Empties(r) >= MaxEmpty
  \/ Cardinality(Collect(r)) >= HardLimit

\* What the sweep gives up: what is older than the last entry there was room
\* for, or than a run of empty windows.
GivenUp(r) ==
  {c \in Convs \ ConvsIn(Collect(r)) :
     \/ Truncated(r) /\ \A d \in Shown(r) : lastActive[c] <= lastActive[d]
     \/ startDate[r] = 0 /\ SweepEnds(r) /\ lastActive[c] < WindowStart(r)}

\* Mutants: the next window ends where this one does, or has the whole limit.
SameWindow(r) ==
  [end |-> window[r].end, page |-> 1, room |-> HardLimit - Cardinality(Collect(r)),
   count |-> 0, empties |-> 0]
RoomyWindow(r) ==
  [end |-> WindowStart(r), page |-> 1, room |-> HardLimit, count |-> 0, empties |-> Empties(r)]

NextWindow(r) ==
  [end |-> WindowStart(r), page |-> 1, room |-> HardLimit - Cardinality(Collect(r)),
   count |-> 0, empties |-> Empties(r)]

\* The last page of a window: the sweep goes on with the window before or ends.
ReadLastPage(r) ==
  /\ pc[r] = "listing" /\ LastPage(r)
  /\ listed' = [listed EXCEPT ![r] = Collect(r)]
  /\ IF SweepEnds(r)
       THEN pc' = [pc EXCEPT ![r] = "ingesting"] /\ window' = [window EXCEPT ![r] = NoWindow]
       ELSE UNCHANGED pc /\ window' = [window EXCEPT ![r] = NextWindow(r)]
  /\ passed' = [c \in Convs |-> IF c \in GivenUp(r) THEN lastActive[c] ELSE passed[c]]
  /\ UNCHANGED <<momants, conversations, syncState, started, startDate, work, backfilled>>
-------------------------------------------------------------------------------
(* The batches: IngestionService.run_job, one thread per batch *)

Batch(e) == e.place \div BatchSize
Members(r, b) == {e \in listed[r] : Batch(e) = b}
Batches(r) == {Batch(e) : e \in listed[r]}

\* Entry e is the next one of its batch.
Turn(r, e) ==
  /\ pc[r] = "ingesting"
  /\ Batch(e) \notin closed[r]
  /\ e.conv \notin done[r]
  /\ \A f \in Members(r, Batch(e)) : f.place < e.place => f.conv \in done[r]

Deal(r, c) == done' = [done EXCEPT ![r] = @ \cup {c}]
Later(a, b) == IF a < b THEN b ELSE a

\* _should_skip_fetch
ShouldSkipFetch(r, e) ==
  /\ r \notin Reanalyze
  /\ sourceLastSeen[e.conv] > 0 /\ e.seen <= sourceLastSeen[e.conv]

Skip(r, e) ==
  /\ Turn(r, e) /\ fetched[r][e.conv] = 0 /\ ShouldSkipFetch(r, e)
  /\ sourceLastSeen' = [sourceLastSeen EXCEPT ![e.conv] = e.seen]
  /\ Deal(r, e.conv)
  /\ UNCHANGED <<momants, messages, syncState, pc, sweep, fetched, closed, history>>

\* Mutant: the conversation row is written and committed before the messages.
FetchMarking(r, e) ==
  /\ Turn(r, e) /\ fetched[r][e.conv] = 0 /\ ~ShouldSkipFetch(r, e)
  /\ fetched' = [fetched EXCEPT ![r][e.conv] = lastActive[e.conv]]
  /\ sourceLastSeen' = [sourceLastSeen EXCEPT ![e.conv] = e.seen]
  /\ UNCHANGED <<momants, messages, syncState, pc, sweep, done, closed, history>>

\* fetch_conversation returns every message there is by then.
Fetch(r, e) ==
  /\ Turn(r, e) /\ fetched[r][e.conv] = 0 /\ ~ShouldSkipFetch(r, e)
  /\ fetched' = [fetched EXCEPT ![r][e.conv] = lastActive[e.conv]]
  /\ UNCHANGED <<momants, conversations, syncState, pc, sweep, done, closed, history>>

\* The conversation, with the entry's last_seen, and its messages are committed
\* together.  Messages are upserted: none is ever removed.
Store(r, e) ==
  /\ Turn(r, e) /\ fetched[r][e.conv] > 0
  /\ messages' = [messages EXCEPT ![e.conv] = Later(@, fetched[r][e.conv])]
  /\ sourceLastSeen' = [sourceLastSeen EXCEPT ![e.conv] = e.seen]
  /\ fetched' = [fetched EXCEPT ![r][e.conv] = 0]
  /\ Deal(r, e.conv)
  /\ UNCHANGED <<momants, syncState, pc, sweep, closed, history>>

\* The conversation counts as failed and the batch goes on.
FailConversation(r, e) ==
  /\ "fail" \in Faults
  /\ Turn(r, e) /\ ~ShouldSkipFetch(r, e)
  /\ fetched' = [fetched EXCEPT ![r][e.conv] = 0]
  /\ passed' = [passed EXCEPT ![e.conv] = Later(@, e.seen)]
  /\ Deal(r, e.conv)
  /\ UNCHANGED <<momants, conversations, syncState, pc, sweep, closed, backfilled>>

\* The job of a batch is complete whether or not conversations failed.
CompleteBatch(r, b) ==
  /\ pc[r] = "ingesting" /\ b \in Batches(r) \ closed[r]
  /\ \A e \in Members(r, b) : e.conv \in done[r]
  /\ closed' = [closed EXCEPT ![r] = @ \cup {b}]
  /\ lastComplete' = clock
  /\ UNCHANGED <<momants, conversations, watermark, pc, sweep, fetched, done, history>>

\* _check_cancelled before an entry or at the end: run_job returns, the
\* other batches and the run itself go on.
CancelBatch(r, b) ==
  LET left == {e \in Members(r, b) : e.conv \notin done[r]} IN
  /\ "cancel" \in Faults
  /\ pc[r] = "ingesting" /\ b \in Batches(r) \ closed[r]
  /\ \A e \in left : fetched[r][e.conv] = 0
  /\ closed' = [closed EXCEPT ![r] = @ \cup {b}]
  /\ done' = [done EXCEPT ![r] = @ \cup ConvsIn(left)]
  /\ passed' = [c \in Convs |->
                  IF c \in ConvsIn(left)
                  THEN Later(passed[c], (CHOOSE e \in left : e.conv = c).seen)
                  ELSE passed[c]]
  /\ UNCHANGED <<momants, conversations, syncState, pc, sweep, fetched, backfilled>>
-------------------------------------------------------------------------------
(* The end of a run *)

\* The run ends: its process and all it remembers is gone.
Exit(r) ==
  /\ pc' = [pc EXCEPT ![r] = "idle"]
  /\ started' = [started EXCEPT ![r] = 0] /\ startDate' = [startDate EXCEPT ![r] = 0]
  /\ window' = [window EXCEPT ![r] = NoWindow]
  /\ listed' = [listed EXCEPT ![r] = {}]
  /\ fetched' = [fetched EXCEPT ![r] = [c \in Convs |-> 0]]
  /\ done' = [done EXCEPT ![r] = {}] /\ closed' = [closed EXCEPT ![r] = {}]

\* Mutant: the watermark is the time of completion.
FinishSyncNow(r) ==
  /\ pc[r] = "ingesting" /\ closed[r] = Batches(r)
  /\ watermark' = clock
  /\ Exit(r)
  /\ UNCHANGED <<momants, conversations, lastComplete, history>>

\* mark_sync_completed, after the stages that follow ingest.
FinishSync(r) ==
  /\ pc[r] = "ingesting" /\ closed[r] = Batches(r)
  /\ watermark' = started[r]
  /\ Exit(r)
  /\ UNCHANGED <<momants, conversations, lastComplete, history>>

\* The run raises (in a later stage, say) or its process is killed.
Abort(r) ==
  /\ "abort" \in Faults
  /\ pc[r] # "idle"
  /\ Exit(r)
  /\ UNCHANGED <<momants, conversations, syncState, history>>
-------------------------------------------------------------------------------
Step(r) ==
  \/ BeginSweep(r) \/ ReadPage(r) \/ ReadLastPage(r) \/ FinishSync(r)
  \/ \E e \in listed[r] : Skip(r, e) \/ Fetch(r, e) \/ Store(r, e)
  \/ \E b \in Batches(r) : CompleteBatch(r, b)

Fault(r) ==
  \/ \E e \in listed[r] : FailConversation(r, e)
  \/ \E b \in Batches(r) : CancelBatch(r, b)
  \/ Abort(r)

Next ==
  \/ Tick
  \/ \E c \in Convs : Activity(c)
  \/ \E r \in Runs : Start(r) \/ Step(r) \/ Fault(r)

Spec == Init /\ [][Next]_vars

\* A started run keeps taking steps.  Nothing obliges anyone to start one.
FairSpec == Spec /\ \A r \in Runs : WF_vars(Step(r))
-------------------------------------------------------------------------------
(* Properties *)

Types ==
  /\ clock \in Times \ {0}
  /\ lastActive \in [Convs -> Times] /\ messages \in [Convs -> Times]
  /\ sourceLastSeen \in [Convs -> Times]
  /\ watermark \in Times /\ lastComplete \in Times
  /\ pc \in [Runs -> {"idle", "starting", "listing", "ingesting"}]
  /\ started \in [Runs -> Times] /\ startDate \in [Runs -> Times]
  /\ window \in [Runs -> [end : Int, page : Nat, room : Int, count : Nat, empties : Nat]]
  /\ listed \in [Runs -> SUBSET Entries]
  /\ fetched \in [Runs -> [Convs -> Times]]
  /\ done \in [Runs -> SUBSET Convs]
  /\ closed \in [Runs -> SUBSET Nat]
  /\ passed \in [Convs -> Times] /\ backfilled \in BOOLEAN

\* The variables have their types, and no run lists more than the limit.
TypeOK == Types /\ \A r \in Runs : Cardinality(listed[r]) <= HardLimit

\* What justifies the skip rule: a stored conversation has every message up to
\* its source_last_seen, however runs overlap, fail or are killed.
StoredUpToLastSeen == \A c \in Convs : sourceLastSeen[c] <= messages[c]

\* No two entries of a run are for one conversation, so no two of its batches
\* work on the same one (pipeline.py: it "otherwise lands in two batches").
ListedOnce ==
  \A r \in Runs : \A e, f \in listed[r] : e.conv = f.conv => e = f

\* An entry is not newer than its conversation, and what was fetched for it is
\* not older than the entry.
EntryInv ==
  /\ \A r \in Runs : \A e \in listed[r] :
       /\ e.seen <= lastActive[e.conv]
       /\ fetched[r][e.conv] > 0 => e.seen <= fetched[r][e.conv]
  /\ \A r \in Runs : pc[r] # "ingesting" => \A c \in Convs : fetched[r][c] = 0

\* The room of the window, but for what was counted in it, is left in the list.
SweepInv ==
  \A r \in Runs :
    /\ IsFiniteSet(listed[r])
    /\ pc[r] \in {"idle", "starting"} => listed[r] = {} /\ window[r] = NoWindow
    /\ pc[r] = "listing" =>
         /\ window[r].count <= window[r].room
         /\ Cardinality(listed[r]) + window[r].room - window[r].count <= HardLimit

\* The inductive invariant behind the three.
SyncInv == TypeOK /\ ListedOnce /\ EntryInv /\ SweepInv /\ StoredUpToLastSeen

\* A conversation that was active before the watermark is stored up to that
\* activity.
UpToDate(c) == lastActive[c] < watermark => messages[c] >= lastActive[c]

\* The time of a run or of the watermark is never ahead of the clock.
TimeInv == watermark <= clock /\ \A r \in Runs : started[r] <= clock

\* An entry whose conversation has been quiet since the run started is up to
\* date, and a batch is closed with all its conversations dealt with.
DealtInv ==
  \A r \in Runs :
    /\ \A e \in listed[r] :
         /\ lastActive[e.conv] < started[r] => e.seen = lastActive[e.conv]
         /\ Batch(e) \in closed[r] => e.conv \in done[r]
    /\ pc[r] # "ingesting" => done[r] = {} /\ closed[r] = {}
    /\ window[r].page > 0

\* What run r owes: conversations quiet since it started that are neither stored
\* nor passed over.
Accounted(c) == messages[c] >= lastActive[c] \/ passed[c] >= lastActive[c]
Owed(r) == {c \in Convs : lastActive[c] < started[r] /\ ~Accounted(c)}

\* They were active after its start date, and the run has them in its list or
\* still before it; once it ingests, they are listed and not yet dealt with.
WillMeet(r) ==
  /\ pc[r] # "idle" => \A c \in Owed(r) : lastActive[c] >= startDate[r]
  /\ pc[r] = "listing" => \A c \in Owed(r) :
       c \in ConvsIn(listed[r]) \/ lastActive[c] < WindowStart(r) \/ c \in ToCome(r)
  /\ pc[r] = "ingesting" => Owed(r) \subseteq ConvsIn(listed[r]) \ done[r]
OwedInv == \A r \in Runs : WillMeet(r)

\* Nothing is lost behind the watermark but what a run passed over.
NothingLost == \A c \in Convs : UpToDate(c) \/ passed[c] >= lastActive[c]

\* The same, as long as every run knew the watermark of the run before: the
\* conversations whose activity the sweep of a run cannot see, because it
\* comes meanwhile, are those the next run lists.
NothingLostBehindWatermark == backfilled \/ NothingLost

\* The inductive invariant behind it.
WatermarkInv == SyncInv /\ TimeInv /\ DealtInv /\ (backfilled \/ (OwedInv /\ NothingLost))

\* Every run ends: the sweep meets its start date, or enough empty windows, or
\* the limit, and every batch closes.
RunEnds == \A r \in Runs : []<>(pc[r] = "idle")
===============================================================================
