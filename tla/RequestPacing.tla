----------------------------- MODULE RequestPacing -----------------------------
(***************************************************************************)
(* How the threads of one process call Momants (MomantsClient._request,    *)
(* _RateLimiter, MomantsAuthClient): each attempt reserves a time slot,    *)
(* sleeps until it, takes the shared token, logging in under a mutex when  *)
(* it is missing or old, and sends its request; some failures, of the      *)
(* request or of the login, are tried again after a delay.  A login is a   *)
(* request too: it goes to Momants beside the slots.                       *)
(*                                                                         *)
(* Time is counted in ticks, Interval of them to a slot.  Nothing happens  *)
(* at its exact time: whoever sleeps wakes up at its time or later.        *)
(***************************************************************************)
EXTENDS Integers, FiniteSets

CONSTANTS
  Threads,
  Interval,    \* 1 / momants_api_max_requests_per_second
  MaxRetries,  \* momants_api_max_retries
  Delays,      \* what a retry waits: Retry-After, or the backoff
  Lifetimes,   \* access_token_lifetime_seconds the server may answer
  Margin,      \* the 60 seconds subtracted from it, and the least validity
  MaxTime,     \* bound
  MaxCalls,    \* bound: calls of a thread
  None

\* What the theorems assume of the constants.
PacingConstants ==
  /\ IsFiniteSet(Threads) /\ None \notin Threads
  /\ Interval \in Nat \ {0} /\ Margin \in Nat \ {0}
  /\ MaxRetries \in Nat /\ MaxTime \in Nat /\ MaxCalls \in Nat
  /\ Delays \subseteq Nat /\ Lifetimes \subseteq Nat

VARIABLES
  now,
  nextAllowed,  \* _next_allowed of the limiter
  ppc,          \* where each thread is
  wake,         \* when it wakes up
  attempt,      \* the attempt of its call
  calls,        \* calls it has made
  token,        \* [usable, dies] : _expires_at, and when the server forgets it
  login,        \* the thread that logs in, or None
  issued,       \* the token the server has issued to it: [at, life], or None
  outcome,      \* how its last call ended
  \* history
  slots,        \* times that were reserved
  sent,         \* requests sent
  logins,       \* logins begun, each of one request
  dead,         \* a dead token was handed out
  shortLived    \* a token lives shorter than twice Margin, or its login took longer than Margin

pacingVars == <<now, nextAllowed, ppc, wake, attempt, calls, token, login, issued, outcome,
                slots, sent, logins, dead, shortLived>>

PacingPlaces == {"idle", "reserving", "sleeping", "token", "login", "sending", "backoff"}

\* The variables have their types; the mutex is held exactly during a login, and
\* no thread is in an attempt beyond the last.
PacingTypeOK ==
  /\ now \in 0..MaxTime /\ nextAllowed \in Nat
  /\ ppc \in [Threads -> PacingPlaces] /\ wake \in [Threads -> Nat]
  /\ attempt \in [Threads -> 0..MaxRetries] /\ calls \in [Threads -> 0..MaxCalls]
  /\ token \in [usable : Nat, dies : Nat]
  /\ issued = None \/ issued \in [at : 0..MaxTime, life : Lifetimes]
  /\ login \in Threads \cup {None} /\ \A t \in Threads : ppc[t] = "login" <=> login = t
  /\ outcome \in [Threads -> {"none", "answered", "raised"}]
  /\ slots \subseteq Nat /\ sent \in Nat /\ logins \in Nat /\ dead \in BOOLEAN /\ shortLived \in BOOLEAN

PacingInit ==
  /\ now = 0 /\ nextAllowed = 0
  /\ ppc = [t \in Threads |-> "idle"] /\ wake = [t \in Threads |-> 0]
  /\ attempt = [t \in Threads |-> 0] /\ calls = [t \in Threads |-> 0]
  /\ token = [usable |-> 0, dies |-> 0] /\ login = None /\ issued = None
  /\ outcome = [t \in Threads |-> "none"]
  /\ slots = {} /\ sent = 0 /\ logins = 0 /\ dead = FALSE /\ shortLived = FALSE
-------------------------------------------------------------------------------
At(t, place) == ppc' = [ppc EXCEPT ![t] = place]
Later(a, b) == IF a > b THEN a ELSE b

StartRequest(t) ==
  /\ ppc[t] = "idle" /\ calls[t] < MaxCalls
  /\ calls' = [calls EXCEPT ![t] = @ + 1]
  /\ attempt' = [attempt EXCEPT ![t] = 0]
  /\ At(t, "reserving")
  /\ UNCHANGED <<now, nextAllowed, wake, token, login, issued, outcome, slots, sent, logins, dead, shortLived>>

\* acquire, under the lock of the limiter.
Reserve(t) ==
  /\ ppc[t] = "reserving"
  /\ LET scheduled == Later(now, nextAllowed) IN
     /\ nextAllowed' = scheduled + Interval
     /\ wake' = [wake EXCEPT ![t] = scheduled]
     /\ slots' = slots \cup {scheduled}
  /\ At(t, "sleeping")
  /\ UNCHANGED <<now, attempt, calls, token, login, issued, outcome, sent, logins, dead, shortLived>>

WakeUp(t) ==
  /\ ppc[t] = "sleeping" /\ now >= wake[t]
  /\ At(t, "token")
  /\ UNCHANGED <<now, nextAllowed, wake, attempt, calls, token, login, issued, outcome, slots, sent, logins, dead, shortLived>>

\* get_access_token, under the lock of the auth client; a login posts at once,
\* without a slot of its own.
TakeToken(t) ==
  /\ ppc[t] = "token" /\ login = None
  /\ IF now < token.usable
     THEN At(t, "sending") /\ dead' = (dead \/ now >= token.dies) /\ UNCHANGED <<login, logins>>
     ELSE At(t, "login") /\ login' = t /\ logins' = logins + 1 /\ UNCHANGED dead
  /\ UNCHANGED <<now, nextAllowed, wake, attempt, calls, token, issued, outcome, slots, sent, shortLived>>

\* The server issues the token, and its answer arrives.
Issue(t) ==
  /\ ppc[t] = "login" /\ issued = None
  /\ \E life \in Lifetimes : issued' = [at |-> now, life |-> life]
  /\ UNCHANGED <<now, nextAllowed, ppc, wake, attempt, calls, token, login, outcome, slots, sent, logins, dead, shortLived>>

\* Mutant: the whole lifetime is used, and counted from the answer.
LoggedInNoMargin(t) ==
  /\ ppc[t] = "login" /\ issued # None
  /\ token' = [usable |-> now + Later(issued.life, Margin), dies |-> issued.at + issued.life]
  /\ shortLived' = (shortLived \/ issued.life < 2 * Margin \/ now - issued.at > Margin)
  /\ dead' = (dead \/ now >= token'.dies)
  /\ issued' = None /\ login' = None
  /\ At(t, "sending")
  /\ UNCHANGED <<now, nextAllowed, wake, attempt, calls, outcome, slots, sent, logins>>

LoggedIn(t) ==
  /\ ppc[t] = "login" /\ issued # None
  /\ token' = [usable |-> now + Later(issued.life - Margin, Margin), dies |-> issued.at + issued.life]
  /\ shortLived' = (shortLived \/ issued.life < 2 * Margin \/ now - issued.at > Margin)
  /\ dead' = (dead \/ now >= token'.dies)
  /\ issued' = None /\ login' = None
  /\ At(t, "sending")
  /\ UNCHANGED <<now, nextAllowed, wake, attempt, calls, outcome, slots, sent, logins>>

EndRequest(t, how) ==
  /\ At(t, "idle")
  /\ outcome' = [outcome EXCEPT ![t] = how]

\* An attempt failed: again after a delay, unless it was the last.
RetryRequest(t) ==
  IF attempt[t] < MaxRetries
  THEN /\ attempt' = [attempt EXCEPT ![t] = @ + 1]
       /\ \E d \in Delays : wake' = [wake EXCEPT ![t] = now + d]
       /\ At(t, "backoff") /\ UNCHANGED outcome
  ELSE EndRequest(t, "raised") /\ UNCHANGED <<attempt, wake>>

\* The login is within the try of _request: its timeouts and errors of the
\* network are retried; a status or an answer without a token is raised.
LoginFails(t) ==
  /\ ppc[t] = "login"
  /\ issued' = None /\ login' = None
  /\ \/ RetryRequest(t)
     \/ EndRequest(t, "raised") /\ UNCHANGED <<attempt, wake>>
  /\ UNCHANGED <<now, nextAllowed, calls, token, slots, sent, logins, dead, shortLived>>

\* The request is sent and answered, with success or with a status that is
\* not retried.
Answered(t) ==
  /\ ppc[t] = "sending"
  /\ sent' = sent + 1
  /\ \E how \in {"answered", "raised"} : EndRequest(t, how)
  /\ UNCHANGED <<now, nextAllowed, wake, attempt, calls, token, login, issued, slots, logins, dead, shortLived>>

\* Mutant: a retry sends again without a slot.
FailedUnpaced(t) ==
  /\ ppc[t] = "sending"
  /\ sent' = sent + 1
  /\ IF attempt[t] < MaxRetries
     THEN /\ attempt' = [attempt EXCEPT ![t] = @ + 1]
          /\ At(t, "token") /\ UNCHANGED <<wake, outcome>>
     ELSE EndRequest(t, "raised") /\ UNCHANGED <<attempt, wake>>
  /\ UNCHANGED <<now, nextAllowed, calls, token, login, issued, slots, logins, dead, shortLived>>

\* 429, 502, 503, 504, or a timeout or an error of the network.
Failed(t) ==
  /\ ppc[t] = "sending"
  /\ sent' = sent + 1
  /\ RetryRequest(t)
  /\ UNCHANGED <<now, nextAllowed, calls, token, login, issued, slots, logins, dead, shortLived>>

TryAgain(t) ==
  /\ ppc[t] = "backoff" /\ now >= wake[t]
  /\ At(t, "reserving")
  /\ UNCHANGED <<now, nextAllowed, wake, attempt, calls, token, login, issued, outcome, slots, sent, logins, dead, shortLived>>

Pass ==
  /\ now < MaxTime
  /\ now' = now + 1
  /\ UNCHANGED <<nextAllowed, ppc, wake, attempt, calls, token, login, issued, outcome, slots, sent, logins, dead, shortLived>>

PacingNext ==
  \/ Pass
  \/ \E t \in Threads :
       \/ StartRequest(t) \/ Reserve(t) \/ WakeUp(t) \/ TryAgain(t)
       \/ TakeToken(t) \/ Issue(t) \/ LoggedIn(t) \/ LoginFails(t)
       \/ Answered(t) \/ Failed(t)

PacingSpec == PacingInit /\ [][PacingNext]_pacingVars
-------------------------------------------------------------------------------
(* Properties *)

\* Whatever threads, retries, failed logins and late sleepers do: the reserved
\* slots are Interval apart, and by any time no more requests were sent than
\* slots had come.  Logins have no slot, but there is at most one of them for a
\* slot that has come: Momants never sees more than twice the rate.
NeverAheadOfRate ==
  LET come == Cardinality({s \in slots : s <= now}) IN
  /\ \A s, u \in slots : s < u => u - s >= Interval
  /\ sent <= come /\ logins <= come

\* A token is handed out after the server has forgotten it only if it lives
\* shorter than twice the margin, or the login took longer than the margin.
TokenAlive == dead => shortLived

\* Both: what Momants sees of the process is paced and signed in.
PacingSafe == NeverAheadOfRate /\ TokenAlive
===============================================================================
