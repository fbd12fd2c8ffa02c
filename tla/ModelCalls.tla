----------------------------- MODULE ModelCalls -----------------------------
(***************************************************************************)
(* The model calls one slot makes for the jobs it claims: the asynchronous   *)
(* client of the daemon (llm.py), its synchronous twin (deepseek.py) and     *)
(* the loop over the stages that calls them, over a clock.                   *)
(*                                                                         *)
(* The clock counts from the claim of the job, whose lease runs from there   *)
(* and is never renewed.  An action that waits for the network advances the  *)
(* clock by what it waited.  A line of the answer arrives in one read; lines *)
(* that bring no piece of text (keep-alives, finish reason, usage) are       *)
(* counted by the time they take.                                            *)
(***************************************************************************)
EXTENDS Integers

CONSTANTS
  Clients,    \* "async" and/or "sync"
  Stages,     \* model calls of the plan when no answer needs repair
  Retries,    \* NOVEL_MAX_RETRIES
  Timeout,    \* NOVEL_REQUEST_TIMEOUT
  OpenMax,    \* longest an attempt takes to the response headers (or its body, if an error)
  WaitCap,    \* cap of every wait (30 s)
  SyncCap,    \* cap of the synchronous client's own back-off (8 s)
  Gap,        \* longest the slot takes between two calls, in the store
  MaxPieces   \* longest answer

ASSUME ClientsAssumption == Clients \subseteq {"async", "sync"}
ASSUME StagesAssumption == Stages \in Nat \ {0}
ASSUME RetriesAssumption == Retries \in Nat
ASSUME TimesAssumption ==
  /\ Timeout \in Nat \ {0} /\ OpenMax \in Nat /\ Gap \in Nat
  /\ WaitCap \in Nat /\ SyncCap \in 0..WaitCap
ASSUME PiecesAssumption == MaxPieces \in Nat
ASSUME PowersAssumption == \A n \in 0..Retries : 2^n \in Nat

VARIABLES
  client,    \* which client the service was built with
  clock,     \* time since the claim
  phase,     \* where the slot is: see Phases
  stage,     \* stage of the plan it works on
  ask,       \* 1, or 2 when the stage's first answer was malformed: the repair call
  calls,     \* calls of this job that were answered
  started,   \* when the call began
  deadline,  \* when the body must be complete
  attempt,   \* attempts of the call so far
  given,     \* pieces of text read in this attempt
  size,      \* pieces of the answer the model sends in this attempt
  error      \* category of the last failure of the call

callsVars == <<client, clock, phase, stage, ask, calls, started, deadline,
               attempt, given, size, error>>

Phases == {"idle", "open", "wait", "body", "answered", "over"}

(* The error taxonomy, as far as the clients act on it: "transient" stands   *)
(* for tls_error, dns_error, connect_timeout, tcp_connection_error,          *)
(* response_error, http_error and a read timeout before the headers;         *)
(* "http_429" may name a wait; "final" for configuration, http_400, http_401 *)
(* and http_404; "unexpected" for an exception the asynchronous client does  *)
(* not turn into a DeepSeekError (the synchronous one turns them all).  All  *)
(* failures after the headers are "body".                                    *)
OpenErrors(c) == {"transient", "http_429", "final"} \cup (IF c = "async" THEN {"unexpected"} ELSE {})
Errors == {"none", "transient", "http_429", "final", "unexpected", "body"}

Least(a, b) == IF a < b THEN a ELSE b
Greatest(a, b) == IF a < b THEN b ELSE a

Init ==
  /\ client \in Clients
  /\ clock = 0 /\ phase = "idle" /\ stage = 1 /\ ask = 1 /\ calls = 0
  /\ started = 0 /\ deadline = 0 /\ attempt = 0 /\ given = 0 /\ size = 0
  /\ error = "none"

-----------------------------------------------------------------------------
(* One call.                                                                *)

(* The settings are read first: a call that cannot be made fails at once.   *)
(* The asynchronous client starts its deadline here, before any attempt.    *)
Begin(d) ==
  /\ phase = "idle"
  /\ clock' = clock + d /\ started' = clock' /\ deadline' = clock' + Timeout
  /\ given' = 0 /\ size' = 0
  /\ \/ phase' = "open" /\ attempt' = 1 /\ error' = "none"
     \/ phase' = "over" /\ attempt' = 0 /\ error' = "final"
  /\ UNCHANGED <<client, stage, ask, calls>>

(* Mutant: both clients retry a broken answer. *)
Retryable_body(c) == {"transient", "http_429", "body"}

(* tenacity retries the opening only, and DeepSeekErrors only; the            *)
(* synchronous loop retries all of the call.  The error that no attempt      *)
(* follows ends the job: fail_job, or the crash handler of the slot.         *)
Retryable(c) == {"transient", "http_429"} \cup (IF c = "sync" THEN {"body"} ELSE {})

(* Mutant: one attempt too many. *)
Fails_oneMore(e) ==
  /\ error' = e
  /\ phase' = IF attempt <= Retries + 1 /\ e \in Retryable(client) THEN "wait" ELSE "over"

Fails(e) ==
  /\ error' = e
  /\ phase' = IF attempt <= Retries /\ e \in Retryable(client) THEN "wait" ELSE "over"

OpenFails(d) ==
  /\ phase = "open"
  /\ clock' = clock + d
  /\ \E e \in OpenErrors(client) : Fails(e)
  /\ UNCHANGED <<client, stage, ask, calls, started, deadline, attempt, given, size>>

(* A 429 may say how long to wait, within the cap; otherwise the wait       *)
(* doubles from 1.                                                          *)
Backoff(c, n) == Least(2^(n - 1), IF c = "sync" THEN SyncCap ELSE WaitCap)
Waits(c, n, e) == {Backoff(c, n)} \cup (IF e = "http_429" THEN 0..WaitCap ELSE {})

Retry(d) ==
  /\ phase = "wait"
  /\ d \in Waits(client, attempt, error)
  /\ clock' = clock + d
  /\ phase' = "open" /\ attempt' = attempt + 1
  /\ UNCHANGED <<client, stage, ask, calls, started, deadline, given, size, error>>

(* Mutant: each attempt has the whole Timeout again. *)
Opened_restarts(d) ==
  /\ phase = "open"
  /\ clock' = clock + d
  /\ phase' = "body"
  /\ deadline' = clock' + Timeout
  /\ given' = 0 /\ size' \in 0..MaxPieces
  /\ error' = "none"
  /\ UNCHANGED <<client, stage, ask, calls, started, attempt>>

(* The headers are there.  The synchronous client starts its deadline here. *)
Opened(d) ==
  /\ phase = "open"
  /\ clock' = clock + d
  /\ phase' = "body"
  /\ deadline' = IF client = "sync" THEN clock' + Timeout ELSE deadline
  /\ given' = 0 /\ size' \in 0..MaxPieces
  /\ error' = "none"
  /\ UNCHANGED <<client, stage, ask, calls, started, attempt>>

(* A line arrives.  The asynchronous client waits up to Timeout for one and  *)
(* looks at its deadline when it has it; the synchronous one waits up to its *)
(* deadline.                                                                 *)
Arrives(d) ==
  /\ phase = "body"
  /\ d <= IF client = "sync" THEN deadline - clock ELSE Timeout
  /\ clock' = clock + d
  /\ UNCHANGED <<client, stage, ask, calls, started, deadline, attempt, size>>

InTime(d) == IF client = "sync" THEN clock < deadline ELSE clock + d <= deadline

Piece(d) ==
  /\ Arrives(d) /\ InTime(d)
  /\ given < size
  /\ given' = given + 1
  /\ UNCHANGED <<phase, error>>

OtherLine(d) ==
  /\ d > 0
  /\ Arrives(d) /\ InTime(d)
  /\ UNCHANGED <<phase, given, error>>

(* DONE, after the last piece: an answer, unless it was cut at max_tokens    *)
(* or has no text.                                                           *)
Done(d) ==
  /\ Arrives(d) /\ InTime(d)
  /\ given = size
  /\ \/ size > 0 /\ phase' = "answered" /\ UNCHANGED error
     \/ Fails("body")
  /\ UNCHANGED given

(* The line came too late.                                                  *)
Overdue(d) ==
  /\ Arrives(d) /\ ~InTime(d)
  /\ Fails("body")
  /\ UNCHANGED given

(* No line came, the connection broke or ended early, or the line made no   *)
(* sense.                                                                   *)
BodyFails(d) ==
  /\ Arrives(d) /\ (client = "sync" => clock < deadline)
  /\ Fails("body")
  /\ UNCHANGED given

-----------------------------------------------------------------------------
(* The caller: complete_structured(_async) and the loop over the stages.     *)

Unchanged == UNCHANGED <<client, clock, started, deadline, attempt, given, size, error>>

(* A valid answer ends the stage.                                           *)
Accept ==
  /\ phase = "answered"
  /\ calls' = calls + 1 /\ ask' = 1
  /\ IF stage < Stages THEN phase' = "idle" /\ stage' = stage + 1
                       ELSE phase' = "over" /\ UNCHANGED stage
  /\ Unchanged

(* Mutant: a malformed answer is asked for again every time. *)
Reject_again ==
  /\ phase = "answered"
  /\ calls' = calls + 1 /\ phase' = "idle"
  /\ UNCHANGED <<stage, ask>> /\ Unchanged

(* A malformed one is asked for again, once.                                *)
Reject ==
  /\ phase = "answered"
  /\ calls' = calls + 1
  /\ IF ask = 2 THEN phase' = "over" /\ UNCHANGED ask
               ELSE phase' = "idle" /\ ask' = 2
  /\ UNCHANGED stage /\ Unchanged

(* The job is drafted or has failed: the slot ends and another one claims   *)
(* the next job, with a service and clients of its own.                     *)
NextJob ==
  /\ phase = "over"
  /\ phase' = "idle" /\ clock' = 0 /\ stage' = 1 /\ ask' = 1 /\ calls' = 0
  /\ started' = 0 /\ deadline' = 0
  /\ UNCHANGED <<client, attempt, given, size, error>>

Next ==
  \/ \E d \in 0..Gap : Begin(d)
  \/ \E d \in 0..OpenMax : OpenFails(d) \/ Opened(d)
  \/ \E d \in 0..WaitCap : Retry(d)
  \/ \E d \in 0..Timeout : Piece(d) \/ OtherLine(d) \/ Done(d) \/ Overdue(d) \/ BodyFails(d)
  \/ Accept \/ Reject \/ NextJob

Spec == Init /\ [][Next]_callsVars

-----------------------------------------------------------------------------
CallsTypeOK ==
  /\ client \in Clients /\ clock \in Nat /\ phase \in Phases
  /\ stage \in 1..Stages /\ ask \in {1, 2} /\ calls \in Nat
  /\ started \in Nat /\ deadline \in Nat
  /\ attempt \in 0..(Retries + 1)
  /\ size \in 0..MaxPieces /\ given \in 0..size
  /\ error \in Errors

(* How long a call can take in all, and how long one that is answered can.   *)
Opening == (Retries + 1) * OpenMax + Retries * WaitCap
CallBound(c) ==
  IF c = "sync" THEN Opening + (Retries + 1) * Timeout ELSE Greatest(Opening, Timeout) + Timeout
AnswerBound(c) == IF c = "sync" THEN CallBound(c) ELSE Timeout

(* However attempts fail, lines trickle in and waits add up, a call is over  *)
(* within its bound; an answer of the asynchronous client always comes       *)
(* within one Timeout of the call, however often it was retried.             *)
CallBounded ==
  /\ phase # "idle" => clock - started <= CallBound(client)
  /\ phase = "answered" => clock - started <= AnswerBound(client)

(* Every job is over within this time of its claim, whatever its calls meet: *)
(* a lease at least that long does not lapse under a slot that is alive.     *)
JobBound(c) == (2 * Stages - 1) * (Gap + AnswerBound(c)) + Gap + CallBound(c)
JobBounded == clock <= JobBound(client)

(* What the caller sees of a call: the asynchronous client passes pieces on  *)
(* as they come, the synchronous one the whole answer at the end.            *)
CallSeen ==
  CASE phase \in {"open", "wait", "body"}   -> "going"
    [] phase \in {"idle", "over"} /\ error # "none" -> "failed"
    [] phase = "idle" /\ error = "none" /\ attempt = 0 -> "none"
    [] OTHER -> "answered"
GotSeen == IF client = "sync" /\ CallSeen # "answered" THEN 0 ELSE given
WholeSeen == IF GotSeen = 0 THEN 0 ELSE size

Stream == INSTANCE AnswerStream WITH call <- CallSeen, got <- GotSeen, whole <- WholeSeen

(* The clients keep the promise of AnswerStream: no retry repeats a piece    *)
(* the caller has, and no cut, empty or interrupted answer passes for one.   *)
StreamsAnswers == Stream!Spec

=============================================================================
