---------------------------- MODULE UnansweredRows ----------------------------
(***************************************************************************)
(* The unanswered questions of one agent: a row of unanswered_questions    *)
(* for each flagged message, and their number in conversation_metrics.     *)
(* The ingest and the first phase of an insights job write both from the   *)
(* order of the messages alone (MetricsService, tier1_only); the last      *)
(* phase scores the answers with models (UnansweredQuestionService).       *)
(*                                                                         *)
(* A conversation is the sequence of its messages, "Q" a question of the   *)
(* member, "A" a message of the agent; other messages of the member change *)
(* nothing here.  New messages come at the end.                            *)
(***************************************************************************)
EXTENDS Integers, Sequences, FiniteSets, FiniteSetsExt

CONSTANTS
  Order,       \* the conversations, in the order a job visits them
  Writers,     \* pipeline processes: an ingest, then an insights job on the same scope
  Scopes,      \* bound: the batches of each process
  Verdicts,    \* bound: what the models may say, by position of the question
  Every,       \* 25: analyze_agent commits at the first conversation, each Every-th and the last
  MaxLength,   \* bound: messages of a conversation
  Lengths,     \* bound: messages of each conversation, at most MaxLength
  MaxStarts,   \* bound: processes started
  MaxFaults    \* bound: conversations whose metrics raise, models that raise, kills

Convs == {Order[n] : n \in DOMAIN Order}
Positions == 1..MaxLength
Statuses == {"no_reply", "weak_answer", "not_answered"}

\* What the theorem assumes.
RowsConstants ==
  /\ Len(Order) \in Nat /\ DOMAIN Order = 1..Len(Order)
  /\ MaxLength \in Nat /\ \A c \in Convs : Lengths[c] \in 0..MaxLength
  /\ \A w \in Writers : \A S \in Scopes[w] : S \subseteq Convs /\ S # {}
  /\ Verdicts \subseteq [Positions -> {"answered", "weak_answer", "not_answered"}]

VARIABLES
  msgs,     \* msgs[c] : the stored messages
  rows,     \* rows[c][i] : status of the row of message i, or "none"
  counts,   \* counts[c] : [no_reply, weak_answer, not_answered, total] of the metrics
  verdict,  \* verdict[i] : "answered", "weak_answer" or "not_answered"
  wpc,      \* where each process is
  scope,    \* the conversations of its batch
  next,     \* the position in Order it has come to
  loaded,   \* the messages it has loaded, or <<>>
  cands,    \* candidates of analyze_agent: <<conversation, position>>
  open,     \* conversations whose rows it has deleted in a transaction not yet committed
  flag,     \* processes whose insights job is to be cancelled
  starts, faults,
  \* history
  dirty,    \* dirty[w] : conversations another process has written to during its job, or it gave up
  raced,    \* conversations written to between the load and the commit of another process
  settled   \* conversations whose last write is a job that reached its end

rowVars == <<msgs, rows, counts, verdict>>
workVars == <<wpc, scope, next, loaded, cands, open>>
unansweredVars == <<rowVars, workVars, flag, starts, faults, dirty, raced, settled>>

WorkSteps == {"off", "ingest", "tier1", "begin", "metrics", "write", "collect", "score"}
NoCounts == [no_reply |-> 0, weak_answer |-> 0, not_answered |-> 0, total |-> 0]

\* The variables have their types, and deletions are pending only during the collection.
RowsTypeOK ==
  /\ msgs \in [Convs -> UNION {[1..n -> {"Q", "A"}] : n \in 0..MaxLength}]
  /\ rows \in [Convs -> [Positions -> Statuses \cup {"none"}]]
  /\ counts \in [Convs -> [DOMAIN NoCounts -> 0..(2 * MaxLength)]]
  /\ verdict \in Verdicts
  /\ wpc \in [Writers -> WorkSteps] /\ scope \in [Writers -> SUBSET Convs]
  /\ next \in [Writers -> 1..(Len(Order) + 1)]
  /\ \A w \in Writers : Len(loaded[w]) <= MaxLength
  /\ cands \in [Writers -> SUBSET (Convs \X Positions)]
  /\ open \in [Writers -> SUBSET Convs]
  /\ \A w \in Writers : open[w] # {} => wpc[w] \in {"collect", "score"}
  /\ flag \subseteq Writers /\ starts \in 0..MaxStarts /\ faults \in 0..MaxFaults
  /\ dirty \in [Writers -> SUBSET Convs] /\ raced \subseteq Convs /\ settled \subseteq Convs

RowsInit ==
  /\ msgs = [c \in Convs |-> <<>>]
  /\ rows = [c \in Convs |-> [i \in Positions |-> "none"]]
  /\ counts = [c \in Convs |-> NoCounts]
  /\ verdict \in Verdicts
  /\ wpc = [w \in Writers |-> "off"] /\ scope = [w \in Writers |-> {}]
  /\ next = [w \in Writers |-> 1] /\ loaded = [w \in Writers |-> <<>>]
  /\ cands = [w \in Writers |-> {}] /\ open = [w \in Writers |-> {}]
  /\ flag = {} /\ starts = 0 /\ faults = 0
  /\ dirty = [w \in Writers |-> {}] /\ raced = {} /\ settled = {}
-------------------------------------------------------------------------------
(* Helpers *)

QuestionsIn(s) == {i \in DOMAIN s : s[i] = "Q"}
RepliedIn(s, i) == \E j \in (i + 1)..Len(s) : s[j] = "A"
Number(c, status) == Cardinality({i \in Positions : rows[c][i] = status})

\* The conversations of the batch from the position n on.
Rest(w, n) == {m \in n..Len(Order) : Order[m] \in scope[w]}
First(S) == IF S = {} THEN Len(Order) + 1 ELSE Min(S)
Here(w) == Order[next[w]]

\* w has committed something about the conversations of S.
Wrote(w, S) ==
  /\ dirty' = [v \in Writers |-> IF v = w THEN dirty[v] ELSE dirty[v] \cup (S \cap scope[v])]
  /\ settled' = settled \ S
  /\ raced' = raced \cup {c \in S : \E v \in Writers \ {w} :
                   \/ wpc[v] = "write" /\ Here(v) = c
                   \/ wpc[v] \in {"tier1", "collect", "score"} /\ c \in scope[v]}

\* Rows of the scored kinds that w has deleted are gone.
Committed(w, S) ==
  [c \in Convs |-> [i \in Positions |->
     IF c \in S /\ rows[c][i] # "no_reply" THEN "none" ELSE rows[c][i]]]

\* The process goes on with the next conversation of its batch, or with step s.
Onwards(w, stay, s) ==
  LET n == First(Rest(w, next[w] + 1)) IN
  IF n <= Len(Order)
  THEN next' = [next EXCEPT ![w] = n] /\ wpc' = [wpc EXCEPT ![w] = stay]
  ELSE next' = [next EXCEPT ![w] = First(Rest(w, 1))] /\ wpc' = [wpc EXCEPT ![w] = s]

\* The job is over, whatever its verdict.
Stop(w) ==
  /\ wpc' = [wpc EXCEPT ![w] = "off"] /\ next' = [next EXCEPT ![w] = 1]
  /\ scope' = [scope EXCEPT ![w] = {}] /\ loaded' = [loaded EXCEPT ![w] = <<>>]
  /\ cands' = [cands EXCEPT ![w] = {}] /\ open' = [open EXCEPT ![w] = {}]
  /\ dirty' = [dirty EXCEPT ![w] = {}]
  /\ flag' = flag \ {w}

-------------------------------------------------------------------------------
(* Ingest: _process_conversation *)

\* A batch, of a run that collects messages or of one that analyses what is stored.
Start(w) ==
  /\ wpc[w] = "off" /\ starts < MaxStarts
  /\ starts' = starts + 1
  /\ \E S \in Scopes[w] :
       /\ scope' = [scope EXCEPT ![w] = S]
       /\ next' = [next EXCEPT ![w] = Min({n \in DOMAIN Order : Order[n] \in S})]
  /\ \E s \in {"ingest", "begin"} : wpc' = [wpc EXCEPT ![w] = s]
  /\ UNCHANGED <<rowVars, loaded, cands, open, flag, faults, dirty, raced, settled>>

\* The new messages are committed first.
StoreMessages(w) ==
  /\ wpc[w] = "ingest"
  /\ LET c == Here(w) IN
     /\ \E new \in {<<>>, <<"Q">>, <<"A">>, <<"Q", "A">>} :
          /\ Len(msgs[c] \o new) <= Lengths[c]
          /\ msgs' = [msgs EXCEPT ![c] = @ \o new]
          /\ loaded' = [loaded EXCEPT ![w] = msgs[c] \o new]
     /\ Wrote(w, {c})
  /\ wpc' = [wpc EXCEPT ![w] = "tier1"]
  /\ UNCHANGED <<rows, counts, verdict, scope, next, cands, open, flag, starts, faults>>

\* Mutant: rows of questions that were answered since are kept.
Tier1RowsKeeping(c, s) ==
  [i \in Positions |-> IF i \in QuestionsIn(s) /\ ~RepliedIn(s, i) THEN "no_reply" ELSE rows[c][i]]

\* _compute_tier1_unanswered: the no_reply rows are deleted and inserted anew;
\* a question without a reply takes over a row of another status.
Tier1Rows(c, s) ==
  [i \in Positions |->
     IF i \in QuestionsIn(s) /\ ~RepliedIn(s, i) THEN "no_reply"
     ELSE IF rows[c][i] = "no_reply" THEN "none" ELSE rows[c][i]]

\* compute_for_conversation(tier1_only=True) and its commit.
WriteTier1(w, c) ==
  /\ rows' = [rows EXCEPT ![c] = Tier1Rows(c, loaded[w])]
  /\ LET n == Cardinality({i \in QuestionsIn(loaded[w]) : ~RepliedIn(loaded[w], i)}) IN
     counts' = [counts EXCEPT ![c] = [no_reply |-> n, weak_answer |-> 0, not_answered |-> 0, total |-> n]]
  /\ loaded' = [loaded EXCEPT ![w] = <<>>]
  /\ Wrote(w, {c})

IngestTier1(w) ==
  /\ wpc[w] = "tier1"
  /\ WriteTier1(w, Here(w))
  /\ Onwards(w, "ingest", "begin")
  /\ UNCHANGED <<msgs, verdict, scope, cands, open, flag, starts, faults>>
-------------------------------------------------------------------------------
(* The insights job *)

\* The job of the batch begins; nobody can cancel it before.
BeginInsights(w) ==
  /\ wpc[w] = "begin"
  /\ wpc' = [wpc EXCEPT ![w] = "metrics"]
  /\ dirty' = [dirty EXCEPT ![w] = {}]
  /\ UNCHANGED <<rowVars, scope, next, loaded, cands, open, flag, starts, faults, raced, settled>>

\* request_job_cancel
RequestCancel(w) ==
  /\ wpc[w] \in {"metrics", "write", "collect", "score"} /\ w \notin flag
  /\ flag' = flag \cup {w}
  /\ UNCHANGED <<rowVars, workVars, starts, faults, dirty, raced, settled>>

\* Stop deletes the flag again.
WipeFlag(w) ==
  /\ w \in flag
  /\ flag' = flag \ {w}
  /\ UNCHANGED <<rowVars, workVars, starts, faults, dirty, raced, settled>>

\* _check_cancelled finds the flag, before the metrics of a conversation, before
\* the analysis, or before it scores; its commit takes along what is pending.
Cancelled(w) ==
  /\ w \in flag
  /\ wpc[w] = "metrics" \/ (wpc[w] = "collect" /\ next[w] = First(Rest(w, 1)) /\ open[w] = {})
       \/ (wpc[w] = "score" /\ cands[w] # {})
  /\ rows' = Committed(w, open[w])
  /\ Stop(w)
  /\ settled' = settled \ scope[w]
  /\ UNCHANGED <<msgs, counts, verdict, starts, faults, raced>>

LoadMetrics(w) ==
  /\ wpc[w] = "metrics" /\ w \notin flag
  /\ loaded' = [loaded EXCEPT ![w] = msgs[Here(w)]]
  /\ wpc' = [wpc EXCEPT ![w] = "write"]
  /\ UNCHANGED <<rowVars, scope, next, cands, open, flag, starts, faults, dirty, raced, settled>>

WriteMetrics(w) ==
  /\ wpc[w] = "write"
  /\ WriteTier1(w, Here(w))
  /\ Onwards(w, "metrics", "collect")
  /\ UNCHANGED <<msgs, verdict, scope, cands, open, flag, starts, faults>>

\* The metrics of one conversation raise: counted as failed, and the job goes on.
MetricsRaise(w) ==
  /\ wpc[w] = "write" /\ faults < MaxFaults
  /\ faults' = faults + 1
  /\ dirty' = [dirty EXCEPT ![w] = @ \cup {Here(w)}]
  /\ loaded' = [loaded EXCEPT ![w] = <<>>]
  /\ Onwards(w, "metrics", "collect")
  /\ UNCHANGED <<rowVars, scope, cands, open, flag, starts, raced, settled>>

\* should_cancel breaks the collection off; what was not collected is given up,
\* and the analysis goes on with the rest.
BreakOff(w) ==
  /\ wpc[w] = "collect" /\ w \in flag
  /\ dirty' = [dirty EXCEPT ![w] = @ \cup {Order[n] : n \in Rest(w, next[w])}]
  /\ wpc' = [wpc EXCEPT ![w] = "score"]
  /\ UNCHANGED <<rowVars, scope, next, loaded, cands, open, flag, starts, faults, raced, settled>>

\* Mutant: the rows of an earlier analysis are kept.
DeletedNone(w, c) == {}

\* The rows the collection deletes are those of c.
Deleted(w, c) == {c}

\* Phase A for one conversation; some of the progress calls commit, and raise
\* instead when the job is cancelled.
Collect(w) ==
  /\ wpc[w] = "collect" /\ w \notin flag
  /\ LET c == Here(w)
         index == Cardinality(Rest(w, 1)) - Cardinality(Rest(w, next[w] + 1))
         commits == index = 1 \/ index % Every = 0 \/ Rest(w, next[w] + 1) = {}
         pending == open[w] \cup Deleted(w, c)
     IN
     /\ cands' = [cands EXCEPT ![w] = @ \cup {<<c, i>> : i \in {q \in QuestionsIn(msgs[c]) : RepliedIn(msgs[c], q)}}]
     /\ open' = [open EXCEPT ![w] = IF commits THEN {} ELSE pending]
     /\ rows' = IF commits THEN Committed(w, pending) ELSE rows
     /\ IF commits THEN Wrote(w, pending) ELSE UNCHANGED <<dirty, raced, settled>>
  /\ Onwards(w, "collect", "score")
  /\ UNCHANGED <<msgs, counts, verdict, scope, loaded, flag, starts, faults>>

\* Phases B and C and the commit of the job: the candidates are scored, those
\* found wanting get a row, and the counts of all conversations are written.
\* autoflush is off: the query for the no_reply rows does not see that one of
\* them has just become another kind.
Finish(w) ==
  /\ wpc[w] = "score" /\ (w \notin flag \/ cands[w] = {})
  /\ LET left == Committed(w, open[w])
         found == {x \in cands[w] : verdict[x[2]] # "answered"}
         of(c, status) == Cardinality({x \in found : x[1] = c /\ verdict[x[2]] = status})
         none(c) == Cardinality({i \in Positions : left[c][i] = "no_reply"})
     IN
     /\ rows' = [c \in Convs |-> [i \in Positions |-> IF <<c, i>> \in found THEN verdict[i] ELSE left[c][i]]]
     /\ counts' = [c \in Convs |->
          IF c \notin scope[w] THEN counts[c]
          ELSE [no_reply |-> none(c), weak_answer |-> of(c, "weak_answer"), not_answered |-> of(c, "not_answered"),
                total |-> none(c) + of(c, "weak_answer") + of(c, "not_answered")]]
  /\ settled' = (settled \ scope[w]) \cup (scope[w] \ dirty[w])
  /\ raced' = (raced \ scope[w]) \cup (scope[w] \cap dirty[w])
  /\ wpc' = [wpc EXCEPT ![w] = "off"] /\ next' = [next EXCEPT ![w] = 1]
  /\ scope' = [scope EXCEPT ![w] = {}] /\ cands' = [cands EXCEPT ![w] = {}]
  /\ open' = [open EXCEPT ![w] = {}] /\ flag' = flag \ {w}
  /\ dirty' = [v \in Writers |-> IF v = w THEN {} ELSE dirty[v] \cup (scope[w] \cap scope[v])]
  /\ UNCHANGED <<msgs, verdict, loaded, starts, faults>>

\* The models raise, or the process is killed: what is not committed is gone.
Die(w) ==
  /\ wpc[w] # "off" /\ faults < MaxFaults
  /\ faults' = faults + 1
  /\ Stop(w)
  /\ settled' = settled \ scope[w]
  /\ UNCHANGED <<rowVars, starts, raced>>

\* Other models or thresholds; a deployment, so no process is at work.
Retune ==
  /\ \A w \in Writers : wpc[w] = "off"
  /\ verdict' \in Verdicts \ {verdict}
  /\ settled' = {}
  /\ UNCHANGED <<msgs, rows, counts, workVars, flag, starts, faults, dirty, raced>>

RowsNext ==
  \/ \E w \in Writers :
       \/ Start(w) \/ StoreMessages(w) \/ IngestTier1(w)
       \/ BeginInsights(w) \/ RequestCancel(w) \/ WipeFlag(w) \/ Cancelled(w)
       \/ LoadMetrics(w) \/ WriteMetrics(w) \/ MetricsRaise(w)
       \/ BreakOff(w) \/ Collect(w) \/ Finish(w) \/ Die(w)
  \/ Retune

RowsSpec == RowsInit /\ [][RowsNext]_unansweredVars
-------------------------------------------------------------------------------
(* Properties *)

\* What a conversation's messages call for.
Expected(c) ==
  [i \in Positions |->
     IF i \notin QuestionsIn(msgs[c]) THEN "none"
     ELSE IF ~RepliedIn(msgs[c], i) THEN "no_reply"
     ELSE IF verdict[i] = "answered" THEN "none" ELSE verdict[i]]

\* The number of questions without reply that the dashboard sums up is the
\* number of rows it lists, unless two processes worked on the conversation at
\* once; and after an insights job that reached its end undisturbed the rows
\* are what the messages call for, whatever was analysed, cancelled or broken
\* off before, and all counts are theirs.
CountsMatchRows ==
  \A c \in Convs :
    /\ c \notin raced => counts[c].no_reply = Number(c, "no_reply")
    /\ c \in settled =>
         /\ rows[c] = Expected(c)
         /\ \A s \in Statuses : counts[c][s] = Number(c, s)
         /\ counts[c].total = Cardinality({i \in Positions : rows[c][i] # "none"})
===============================================================================
