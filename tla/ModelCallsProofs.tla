-------------------------- MODULE ModelCallsProofs --------------------------
(***************************************************************************)
(* Proofs about ModelCalls: its types, the bound of a call, the bound of a   *)
(* job, and that the clients implement AnswerStream.                         *)
(*                                                                         *)
(* The bounds are proved from CallInv (how far the clock can be from the     *)
(* start of the call at each phase and attempt) and JobInv (how far the      *)
(* start of a call can be from the claim, by the calls already answered).    *)
(***************************************************************************)
EXTENDS ModelCalls, TLAPS

Assumptions ==
  /\ Clients \subseteq {"async", "sync"} /\ Stages \in Nat \ {0} /\ Retries \in Nat
  /\ Timeout \in Nat \ {0} /\ OpenMax \in Nat /\ Gap \in Nat
  /\ WaitCap \in Nat /\ SyncCap \in 0..WaitCap
  /\ MaxPieces \in Nat

LEMMA AssumptionsHold == Assumptions
  BY ClientsAssumption, StagesAssumption, RetriesAssumption, TimesAssumption,
     PiecesAssumption DEF Assumptions

(* A wait is within the cap. *)
LEMMA WaitsCapped ==
  ASSUME NEW c \in {"async", "sync"}, NEW n \in 1..Retries, NEW e \in Errors
  PROVE  Waits(c, n, e) \subseteq 0..WaitCap
<1>1. n - 1 \in 0..Retries
  BY AssumptionsHold DEF Assumptions
<1>2. 2^(n - 1) \in Nat
  BY <1>1, PowersAssumption
<1>3. Backoff(c, n) \in 0..WaitCap
  BY <1>2, AssumptionsHold DEF Assumptions, Backoff, Least
<1> QED
  BY <1>3, AssumptionsHold DEF Waits, Assumptions

-----------------------------------------------------------------------------
(* Types.                                                                   *)

(* Between calls nothing bounds attempt from below; in one it counts from 1. *)
AttemptInv ==
  /\ phase \in {"open", "body"} => attempt >= 1
  /\ phase = "wait" => attempt \in 1..Retries

TypeInv == CallsTypeOK /\ AttemptInv

LEMMA TypeInit == Init => TypeInv
<1> SUFFICES ASSUME Init PROVE TypeInv
  OBVIOUS
<1>1. stage \in 1..Stages /\ attempt \in 0..(Retries + 1) /\ size \in 0..MaxPieces /\ given \in 0..size
  BY AssumptionsHold DEF Init, Assumptions
<1> QED
  BY <1>1 DEF Init, TypeInv, CallsTypeOK, AttemptInv, Phases, Errors

(* A failure waits for another attempt, when one is left, or ends the call.  *)
LEMMA FailsWhere ==
  ASSUME TypeInv, phase \in {"open", "body"}, NEW e \in Errors, Fails(e)
  PROVE  /\ error' = e
         /\ \/ phase' = "over"
            \/ phase' = "wait" /\ attempt \in 1..Retries /\ e \in Retryable(client)
<1>1. attempt \in Nat /\ attempt >= 1
  BY AssumptionsHold DEF Assumptions, TypeInv, CallsTypeOK, AttemptInv
<1> QED
  BY <1>1, AssumptionsHold DEF Fails, Assumptions

LEMMA TypeNext == TypeInv /\ [Next]_callsVars => TypeInv'
<1> SUFFICES ASSUME TypeInv, [Next]_callsVars PROVE TypeInv'
  OBVIOUS
<1> USE AssumptionsHold DEF TypeInv, CallsTypeOK, AttemptInv, Phases, Errors, Assumptions
<1>1. ASSUME NEW d \in 0..Gap, Begin(d) PROVE TypeInv'
  BY <1>1 DEF Begin
<1>2. ASSUME NEW d \in 0..OpenMax, OpenFails(d) PROVE TypeInv'
  BY <1>2 DEF OpenFails, Fails, OpenErrors, Retryable
<1>3. ASSUME NEW d \in 0..OpenMax, Opened(d) PROVE TypeInv'
  BY <1>3 DEF Opened
<1>4. ASSUME NEW d \in 0..WaitCap, Retry(d) PROVE TypeInv'
  BY <1>4 DEF Retry
<1>5. ASSUME NEW d \in 0..Timeout, Piece(d) PROVE TypeInv'
  BY <1>5 DEF Piece, Arrives
<1>6. ASSUME NEW d \in 0..Timeout, OtherLine(d) PROVE TypeInv'
  BY <1>6 DEF OtherLine, Arrives
<1>7. ASSUME NEW d \in 0..Timeout, Done(d) PROVE TypeInv'
  <2>1. CASE phase' = "answered" /\ UNCHANGED error
    BY <1>7, <2>1 DEF Done, Arrives
  <2>2. CASE Fails("body")
    <3>1. phase' \in {"over", "wait"} /\ error' = "body" /\ (phase' = "wait" => attempt \in 1..Retries)
      BY <1>7, <2>2, FailsWhere DEF Done, Arrives
    <3> QED
      BY <1>7, <3>1 DEF Done, Arrives
  <2> QED
    BY <1>7, <2>1, <2>2 DEF Done
<1>8. ASSUME NEW d \in 0..Timeout, Overdue(d) PROVE TypeInv'
  <2>1. phase' \in {"over", "wait"} /\ error' = "body" /\ (phase' = "wait" => attempt \in 1..Retries)
    BY <1>8, FailsWhere DEF Overdue, Arrives
  <2> QED
    BY <1>8, <2>1 DEF Overdue, Arrives
<1>9. ASSUME NEW d \in 0..Timeout, BodyFails(d) PROVE TypeInv'
  <2>1. phase' \in {"over", "wait"} /\ error' = "body" /\ (phase' = "wait" => attempt \in 1..Retries)
    BY <1>9, FailsWhere DEF BodyFails, Arrives
  <2> QED
    BY <1>9, <2>1 DEF BodyFails, Arrives
<1>10. CASE Accept
  BY <1>10 DEF Accept, Unchanged
<1>11. CASE Reject
  BY <1>11 DEF Reject, Unchanged
<1>12. CASE NextJob
  BY <1>12 DEF NextJob
<1>13. CASE UNCHANGED callsVars
  BY <1>13 DEF callsVars
<1> QED
  BY <1>1, <1>2, <1>3, <1>4, <1>5, <1>6, <1>7, <1>8, <1>9, <1>10, <1>11, <1>12, <1>13 DEF Next

(* In every behaviour each variable keeps its type and pieces read never     *)
(* exceed the answer (llm.py, deepseek.py).                                  *)
THEOREM CallsTypes == Spec => []CallsTypeOK
<1>1. TypeInv => CallsTypeOK
  BY DEF TypeInv
<1> QED
  BY <1>1, TypeInit, TypeNext, PTL DEF Spec

-----------------------------------------------------------------------------
(* The bound of a call.  Each is what one attempt and the wait after it can  *)
(* take; an attempt begins after attempt - 1 of them.                        *)

Each(c) == OpenMax + WaitCap + (IF c = "sync" THEN Timeout ELSE 0)

Attempting ==
  /\ phase = "open" => clock - started <= (attempt - 1) * Each(client)
  /\ phase = "wait" => clock - started <= attempt * Each(client) - WaitCap

InBody ==
  phase = "body" =>
    IF client = "sync"
    THEN clock <= deadline /\ deadline - started <= attempt * Each(client) - WaitCap
    ELSE clock - started <= Greatest(Opening, Timeout)

Deadlined == client = "async" /\ phase \in {"open", "wait", "body"} => deadline = started + Timeout

CallInv == TypeInv /\ Attempting /\ InBody /\ Deadlined /\ CallBounded

LEMMA MoreIsMore ==
  ASSUME NEW a \in Nat, NEW b \in Nat, NEW k \in Nat, a <= b
  PROVE  a * k <= b * k
  OBVIOUS

LEMMA EachNat ==
  ASSUME NEW c \in {"async", "sync"}
  PROVE  Each(c) \in Nat /\ Each(c) >= OpenMax + WaitCap
  BY AssumptionsHold DEF Assumptions, Each

(* All the attempts take no longer than the bound of the call. *)
LEMMA AttemptsFit ==
  ASSUME NEW c \in {"async", "sync"}, NEW n \in 1..(Retries + 1)
  PROVE  /\ n * Each(c) \in Nat
         /\ (n - 1) * Each(c) = n * Each(c) - Each(c)
         /\ (n + 1 - 1) * Each(c) = n * Each(c)
         /\ n * Each(c) - WaitCap <= CallBound(c)
         /\ c = "async" => n * Each(c) - WaitCap <= Opening
<1> DEFINE e == Each(c)
<1>1. e \in Nat
  BY EachNat
<1>2. Retries \in Nat /\ n \in Nat /\ n <= Retries + 1 /\ Timeout \in Nat /\ OpenMax \in Nat /\ WaitCap \in Nat
  BY AssumptionsHold DEF Assumptions
<1>3. n * e \in Nat /\ (n - 1) * e = n * e - e /\ n + 1 - 1 = n
  BY <1>1, <1>2
<1>4. n * e <= (Retries + 1) * e
  BY <1>1, <1>2, MoreIsMore
<1>5. c = "async" => (Retries + 1) * e - WaitCap = Opening
  BY <1>2 DEF Each, Opening
<1>6. c = "sync" => (Retries + 1) * e - WaitCap = CallBound(c)
  BY <1>2 DEF Each, Opening, CallBound
<1>7. Opening \in Nat
  BY <1>2 DEF Opening
<1>8. c = "async" => CallBound(c) >= Opening
  BY <1>2, <1>7 DEF CallBound, Greatest
<1> HIDE DEF e
<1>9. n * e - WaitCap <= (Retries + 1) * e - WaitCap
  BY <1>1, <1>2, <1>4
<1>10. (Retries + 1) * e \in Nat
  BY <1>1, <1>2
<1>11. CASE c = "async"
  <2>1. CallBound(c) \in Nat
    BY <1>2, <1>7, <1>11 DEF CallBound, Greatest
  <2> QED
    BY <1>2, <1>3, <1>5, <1>7, <1>8, <1>9, <1>10, <1>11, <2>1 DEF e
<1>12. CASE c = "sync"
  BY <1>2, <1>3, <1>6, <1>9, <1>10, <1>12 DEF e
<1> QED
  BY <1>11, <1>12

(* What is known of the clock wherever an attempt can be. *)
LEMMA AttemptFacts ==
  ASSUME TypeInv, attempt >= 1
  PROVE  /\ client \in {"async", "sync"} /\ clock \in Nat /\ started \in Nat /\ deadline \in Nat
         /\ Timeout \in Nat /\ OpenMax \in Nat /\ WaitCap \in Nat /\ Gap \in Nat
         /\ Opening \in Nat /\ CallBound(client) \in Nat /\ Each(client) \in Nat
         /\ AnswerBound(client) \in Nat /\ AnswerBound(client) <= CallBound(client)
         /\ attempt * Each(client) \in Nat
         /\ (attempt - 1) * Each(client) = attempt * Each(client) - Each(client)
         /\ (attempt + 1 - 1) * Each(client) = attempt * Each(client)
         /\ attempt * Each(client) - WaitCap <= CallBound(client)
         /\ client = "async" => attempt * Each(client) - WaitCap <= Opening
         /\ client = "async" => Greatest(Opening, Timeout) + Timeout = CallBound(client)
         /\ Each(client) = OpenMax + WaitCap + (IF client = "sync" THEN Timeout ELSE 0)
<1>1. client \in {"async", "sync"} /\ attempt \in 1..(Retries + 1)
  BY AssumptionsHold DEF Assumptions, TypeInv, CallsTypeOK
<1>2. Opening \in Nat /\ CallBound(client) \in Nat /\ AnswerBound(client) \in Nat
      /\ AnswerBound(client) <= CallBound(client)
  <2>1. Opening \in Nat /\ (Retries + 1) * Timeout \in Nat
    BY AssumptionsHold DEF Assumptions, Opening
  <2> QED
    BY <2>1, AssumptionsHold DEF Assumptions, CallBound, AnswerBound, Greatest
<1>3. client = "async" => Greatest(Opening, Timeout) + Timeout = CallBound(client)
  BY DEF CallBound
<1> QED
  BY <1>1, <1>2, <1>3, AttemptsFit, EachNat, AssumptionsHold
  DEF Assumptions, TypeInv, CallsTypeOK, Each

(* A line, a failure or the end of the answer leaves the clock where the     *)
(* bound of the call allows.                                                 *)
LEMMA BodyStep ==
  ASSUME CallInv, NEW d \in 0..Timeout, Arrives(d)
  PROVE  /\ clock' \in Nat /\ clock' - started' <= CallBound(client')
         /\ client = "sync" => /\ clock' <= deadline'
                              /\ clock' - started' <= attempt * Each(client) - WaitCap
                              /\ deadline' - started' <= attempt * Each(client) - WaitCap
         /\ client = "async" => deadline' = started' + Timeout
<1>1. attempt >= 1
  BY DEF CallInv, TypeInv, AttemptInv, Arrives
<1>2. CASE client = "sync"
  BY <1>1, <1>2, AttemptFacts DEF CallInv, InBody, Arrives
<1>3. CASE client = "async"
  <2>1. clock - started <= Greatest(Opening, Timeout) /\ deadline = started + Timeout
    BY <1>3 DEF CallInv, InBody, Deadlined, Arrives
  <2>2. Greatest(Opening, Timeout) \in Nat
    BY <1>1, AttemptFacts DEF CallInv, Greatest
  <2> QED
    BY <1>1, <1>3, <2>1, <2>2, AttemptFacts DEF CallInv, Arrives
<1> QED
  BY <1>1, <1>2, <1>3, AttemptFacts DEF CallInv

(* A failure after the headers. *)
LEMMA BodyFailure ==
  ASSUME CallInv, NEW d \in 0..Timeout, Arrives(d), Fails("body"), TypeInv'
  PROVE  CallInv'
<1>1. attempt >= 1 /\ phase = "body" /\ attempt' = attempt /\ client' = client
  BY DEF CallInv, TypeInv, AttemptInv, Arrives
<1>2. phase' = "over" \/ (phase' = "wait" /\ client = "sync")
  BY <1>1 DEF Fails, Retryable
<1>3. CASE phase' = "over"
  BY <1>3, <1>1, BodyStep DEF CallInv, Attempting, InBody, Deadlined, CallBounded
<1>4. CASE phase' = "wait" /\ client = "sync"
  BY <1>4, <1>1, BodyStep DEF CallInv, Attempting, InBody, Deadlined, CallBounded
<1> QED
  BY <1>2, <1>3, <1>4

(* A line in time leaves the call in the body. *)
LEMMA BodyGoesOn ==
  ASSUME CallInv, NEW d \in 0..Timeout, Arrives(d), InTime(d), phase' = phase, TypeInv'
  PROVE  CallInv'
<1>1. attempt >= 1 /\ phase = "body" /\ attempt' = attempt /\ client' = client /\ deadline' = deadline
      /\ clock' = clock + d /\ started' = started
  BY DEF CallInv, TypeInv, AttemptInv, Arrives
<1>2. client = "async" => clock' - started' <= Greatest(Opening, Timeout)
  <2>1. client = "async" => clock' <= deadline /\ deadline = started + Timeout
    BY <1>1 DEF InTime, CallInv, Deadlined
  <2> QED
    BY <1>1, <2>1, AttemptFacts DEF Greatest, CallInv
<1>3. client \in {"async", "sync"}
  BY <1>1, AttemptFacts DEF CallInv
<1> QED
  BY <1>1, <1>2, <1>3, BodyStep DEF CallInv, Attempting, InBody, Deadlined, CallBounded

LEMMA CallNext == CallInv /\ [Next]_callsVars => CallInv'
<1> SUFFICES ASSUME CallInv, [Next]_callsVars PROVE CallInv'
  OBVIOUS
<1>0. TypeInv' /\ TypeInv
  BY TypeNext DEF CallInv
<1> USE DEF Attempting, InBody, Deadlined, CallBounded
<1>1. ASSUME NEW d \in 0..Gap, Begin(d) PROVE CallInv'
  <2>1. client' = client /\ clock' \in Nat /\ clock' - started' = 0 /\ deadline' = started' + Timeout
    BY <1>1, <1>0, AssumptionsHold DEF Begin, Assumptions, TypeInv, CallsTypeOK
  <2>2. client \in {"async", "sync"} /\ Each(client) \in Nat
    BY <1>0, EachNat, AssumptionsHold DEF Assumptions, TypeInv, CallsTypeOK
  <2>3. CallBound(client) \in Nat
    BY <2>2, AssumptionsHold DEF Assumptions, CallBound, Opening, Greatest
  <2>4. (phase' = "open" /\ attempt' = 1) \/ phase' = "over"
    BY <1>1 DEF Begin
  <2> QED
    BY <1>0, <2>1, <2>2, <2>3, <2>4 DEF CallInv
<1>2. ASSUME NEW d \in 0..OpenMax, OpenFails(d) PROVE CallInv'
  <2>1. PICK e \in OpenErrors(client) : Fails(e)
    BY <1>2 DEF OpenFails
  <2>2. attempt >= 1 /\ phase = "open"
    BY <1>0, <1>2 DEF OpenFails, TypeInv, AttemptInv
  <2>3. clock' = clock + d /\ UNCHANGED <<client, started, deadline, attempt>>
    BY <1>2 DEF OpenFails
  <2>4. phase' \in {"wait", "over"}
    BY <2>1 DEF Fails
  <2>5. clock' - started' <= attempt * Each(client) - WaitCap
    BY <1>0, <2>2, <2>3, AttemptFacts DEF CallInv
  <2>6. clock' - started' <= CallBound(client)
    BY <1>0, <2>2, <2>3, <2>5, AttemptFacts DEF CallInv
  <2>7. client = "async" => deadline' = started' + Timeout
    BY <2>2, <2>3 DEF CallInv
  <2> QED
    BY <1>0, <2>3, <2>4, <2>5, <2>6, <2>7 DEF CallInv
<1>3. ASSUME NEW d \in 0..OpenMax, Opened(d) PROVE CallInv'
  <2>1. attempt >= 1 /\ phase = "open" /\ phase' = "body"
    BY <1>0, <1>3 DEF Opened, TypeInv, AttemptInv
  <2>2. clock' = clock + d /\ UNCHANGED <<client, started, attempt>>
    BY <1>3 DEF Opened
  <2>3. clock' - started' <= attempt * Each(client) - WaitCap - (IF client = "sync" THEN Timeout ELSE 0)
    BY <1>0, <2>1, <2>2, AttemptFacts DEF CallInv
  <2>4. clock' - started' <= CallBound(client)
    BY <1>0, <2>1, <2>2, <2>3, AttemptFacts DEF CallInv
  <2>5. CASE client = "sync"
    <3>1. deadline' = clock' + Timeout
      BY <1>3, <2>5 DEF Opened
    <3>2. clock' <= deadline' /\ deadline' - started' <= attempt' * Each(client') - WaitCap
      BY <1>0, <2>1, <2>2, <2>3, <2>5, <3>1, AttemptFacts DEF CallInv
    <3> QED
      BY <1>0, <2>1, <2>2, <2>4, <2>5, <3>2 DEF CallInv
  <2>6. CASE client = "async"
    <3>1. deadline' = started' + Timeout
      BY <1>3, <2>1, <2>2, <2>6 DEF Opened, CallInv
    <3>2. clock' - started' <= Opening /\ Opening <= Greatest(Opening, Timeout)
      BY <1>0, <2>1, <2>2, <2>3, <2>6, AttemptFacts DEF CallInv, Greatest
    <3>3. Greatest(Opening, Timeout) \in Nat /\ Opening \in Nat /\ clock' - started' \in Int
      BY <1>0, <2>1, <2>2, AttemptFacts DEF Greatest
    <3>4. clock' - started' <= Greatest(Opening, Timeout)
      BY <3>2, <3>3
    <3> QED
      BY <1>0, <2>1, <2>2, <2>4, <2>6, <3>1, <3>4 DEF CallInv
  <2> QED
    BY <1>0, <2>1, <2>5, <2>6, AttemptFacts
<1>4. ASSUME NEW d \in 0..WaitCap, Retry(d) PROVE CallInv'
  <2>1. attempt >= 1 /\ phase = "wait" /\ phase' = "open" /\ attempt \in 1..Retries
    BY <1>0, <1>4, AssumptionsHold DEF Retry, TypeInv, AttemptInv, Assumptions
  <2>2. clock' = clock + d /\ attempt' = attempt + 1 /\ UNCHANGED <<client, started, deadline>>
    BY <1>4 DEF Retry
  <2>3. clock' - started' <= attempt * Each(client)
    BY <1>0, <2>1, <2>2, AttemptFacts DEF CallInv
  <2>4. attempt' \in 1..(Retries + 1) /\ client \in {"async", "sync"}
    BY <1>0, <2>1, <2>2, AttemptFacts, AssumptionsHold DEF Assumptions
  <2>5. (attempt' - 1) * Each(client) = attempt * Each(client)
    BY <1>0, <2>1, <2>2, AttemptFacts
  <2>6. attempt * Each(client) <= CallBound(client)
    <3>1. attempt' * Each(client) - WaitCap <= CallBound(client)
      BY <2>4, AttemptsFit
    <3>2. attempt' * Each(client) = attempt * Each(client) + Each(client)
      BY <1>0, <2>1, <2>2, AttemptFacts, AssumptionsHold DEF Assumptions, TypeInv, CallsTypeOK
    <3> QED
      BY <1>0, <2>1, <3>1, <3>2, EachNat, AttemptFacts
  <2>7. clock' - started' <= CallBound(client)
    BY <1>0, <2>1, <2>2, <2>3, <2>6, AttemptFacts
  <2> QED
    BY <1>0, <2>1, <2>2, <2>3, <2>5, <2>7 DEF CallInv
<1>5. ASSUME NEW d \in 0..Timeout, Piece(d) PROVE CallInv'
  BY <1>5, <1>0, BodyGoesOn DEF Piece
<1>6. ASSUME NEW d \in 0..Timeout, OtherLine(d) PROVE CallInv'
  BY <1>6, <1>0, BodyGoesOn DEF OtherLine
<1>7. ASSUME NEW d \in 0..Timeout, Done(d) PROVE CallInv'
  <2>1. CASE phase' = "answered" /\ UNCHANGED error
    <3>1. attempt >= 1 /\ phase = "body" /\ clock' = clock + d
          /\ UNCHANGED <<client, started, deadline, attempt>>
      BY <1>0, <1>7 DEF Done, Arrives, TypeInv, AttemptInv
    <3>2. clock' - started' <= CallBound(client)
      BY <1>7, <3>1, BodyStep DEF Done
    <3>3. client = "async" => clock' - started' <= Timeout
      BY <1>0, <1>7, <3>1, AttemptFacts DEF Done, InTime, CallInv
    <3>4. clock' - started' <= AnswerBound(client)
      BY <1>0, <3>1, <3>2, <3>3, AttemptFacts DEF AnswerBound
    <3> QED
      BY <1>0, <2>1, <3>1, <3>2, <3>4 DEF CallInv
  <2>2. CASE Fails("body")
    BY <1>7, <2>2, <1>0, BodyFailure DEF Done
  <2> QED
    BY <1>7, <2>1, <2>2 DEF Done
<1>8. ASSUME NEW d \in 0..Timeout, Overdue(d) PROVE CallInv'
  BY <1>8, <1>0, BodyFailure DEF Overdue
<1>9. ASSUME NEW d \in 0..Timeout, BodyFails(d) PROVE CallInv'
  BY <1>9, <1>0, BodyFailure DEF BodyFails
<1>10. CASE Accept \/ Reject
  <2>1. phase = "answered" /\ UNCHANGED <<client, clock, started>> /\ phase' \in {"idle", "over"}
    BY <1>10 DEF Accept, Reject, Unchanged
  <2> QED
    BY <1>0, <2>1 DEF CallInv
<1>11. CASE NextJob
  <2>1. phase' = "idle"
    BY <1>11 DEF NextJob
  <2> QED
    BY <1>0, <2>1 DEF CallInv
<1>12. CASE UNCHANGED callsVars
  BY <1>12, <1>0 DEF callsVars, CallInv
<1> QED
  BY <1>1, <1>2, <1>3, <1>4, <1>5, <1>6, <1>7, <1>8, <1>9, <1>10, <1>11, <1>12 DEF Next

(* However attempts fail, lines trickle in and waits add up, a call of       *)
(* either client is over within its bound, and an answer of the asynchronous *)
(* one comes within Timeout of the call (llm.py:163-233, deepseek.py:29-49). *)
THEOREM CallsBounded == Spec => []CallBounded
<1>1. Init => CallInv
  BY TypeInit DEF Init, CallInv, Attempting, InBody, Deadlined, CallBounded
<1>2. CallInv => CallBounded
  BY DEF CallInv
<1> QED
  BY <1>1, <1>2, CallNext, PTL DEF Spec

-----------------------------------------------------------------------------
(* The bound of a job, from the number of calls answered.                   *)

Round(c) == Gap + AnswerBound(c)

JobInv ==
  /\ phase # "over" => calls <= 2 * (stage - 1) + (ask - 1)
  /\ phase = "idle" => clock <= calls * Round(client)
  /\ phase \in {"open", "wait", "body", "answered"} =>
       started <= calls * Round(client) + Gap
  /\ JobBounded

LEMMA RoundNat ==
  ASSUME NEW c \in {"async", "sync"}
  PROVE  /\ Round(c) \in Nat /\ Gap \in Nat /\ Timeout \in Nat
         /\ AnswerBound(c) \in Nat /\ CallBound(c) \in Nat /\ AnswerBound(c) <= CallBound(c)
         /\ Round(c) = Gap + AnswerBound(c)
<1>1. Opening \in Nat /\ (Retries + 1) * Timeout \in Nat
  BY AssumptionsHold DEF Assumptions, Opening
<1>2. CallBound(c) \in Nat
  BY <1>1, AssumptionsHold DEF Assumptions, CallBound, Greatest
<1>3. AnswerBound(c) \in Nat /\ AnswerBound(c) <= CallBound(c)
  BY <1>1, <1>2, AssumptionsHold DEF Assumptions, CallBound, AnswerBound, Greatest
<1> QED
  BY <1>2, <1>3, AssumptionsHold DEF Assumptions, Round

(* The calls answered before one that is going on, and with it. *)
LEMMA RoundsFit ==
  ASSUME NEW c \in {"async", "sync"}, NEW k \in Nat, k <= 2 * Stages - 1
  PROVE  /\ k * Round(c) \in Nat
         /\ (k + 1) * Round(c) = k * Round(c) + Round(c)
         /\ k * Round(c) + Gap + CallBound(c) <= JobBound(c)
         /\ JobBound(c) \in Nat
<1>1. 2 * Stages - 1 \in Nat
  BY AssumptionsHold DEF Assumptions
<1>2. k * Round(c) <= (2 * Stages - 1) * Round(c)
  BY <1>1, RoundNat, MoreIsMore
<1>3. k * Round(c) \in Nat /\ (2 * Stages - 1) * Round(c) \in Nat
      /\ (k + 1) * Round(c) = k * Round(c) + Round(c)
  BY <1>1, RoundNat
<1>4. JobBound(c) = (2 * Stages - 1) * Round(c) + Gap + CallBound(c)
  BY DEF JobBound, Round
<1> QED
  BY <1>2, <1>3, <1>4, RoundNat

(* No more calls are answered than two per stage. *)
LEMMA CallsLeft ==
  ASSUME TypeInv, phase # "over", calls <= 2 * (stage - 1) + (ask - 1)
  PROVE  calls \in Nat /\ calls <= 2 * Stages - 1 /\ client \in {"async", "sync"}
  BY AssumptionsHold DEF Assumptions, TypeInv, CallsTypeOK

BoundInv == CallInv /\ JobInv

(* While a call goes on, the bound of the job holds if that of the call does. *)
LEMMA CallFitsJob ==
  ASSUME CallInv', phase' # "idle", client' = client, client \in {"async", "sync"},
         NEW k \in Nat, k <= 2 * Stages - 1, started' <= k * Round(client) + Gap
  PROVE  clock' <= JobBound(client')
<1>1. clock' \in Nat /\ started' \in Nat /\ clock' - started' <= CallBound(client)
  BY DEF CallInv, CallBounded, TypeInv, CallsTypeOK
<1>2. k * Round(client) \in Nat /\ k * Round(client) + Gap + CallBound(client) <= JobBound(client)
      /\ JobBound(client) \in Nat
  BY RoundsFit
<1>3. Gap \in Nat /\ CallBound(client) \in Nat
  BY RoundNat
<1> HIDE DEF JobBound
<1>4. clock' <= JobBound(client)
  BY <1>1, <1>2, <1>3
<1> QED
  BY <1>4

LEMMA JobNext == BoundInv /\ [Next]_callsVars => BoundInv'
<1> SUFFICES ASSUME BoundInv, [Next]_callsVars PROVE BoundInv'
  OBVIOUS
<1>0. CallInv /\ CallInv' /\ TypeInv /\ TypeInv'
  BY CallNext DEF BoundInv, CallInv
<1>1. client \in {"async", "sync"} /\ clock \in Nat /\ started \in Nat /\ calls \in Nat
  BY <1>0, AssumptionsHold DEF Assumptions, TypeInv, CallsTypeOK
<1>2. ASSUME NEW d \in 0..Gap, Begin(d) PROVE JobInv'
  <2>1. phase = "idle" /\ phase' \in {"open", "over"} /\ UNCHANGED <<client, calls, stage, ask>>
        /\ clock' = clock + d /\ started' = clock'
    BY <1>2 DEF Begin
  <2>2. calls \in Nat /\ calls <= 2 * Stages - 1
    BY <1>0, <2>1, CallsLeft DEF BoundInv, JobInv
  <2>3. started' <= calls * Round(client) + Gap
    BY <1>1, <2>1, <2>2, RoundNat, RoundsFit DEF BoundInv, JobInv
  <2>4. clock' <= JobBound(client')
    BY <1>0, <1>1, <2>1, <2>2, <2>3, CallFitsJob
  <2> QED
    BY <2>1, <2>3, <2>4 DEF BoundInv, JobInv, JobBounded
<1>3. ASSUME UNCHANGED <<client, calls, stage, ask, started>>, phase \in {"open", "wait", "body"},
             phase' \in {"open", "wait", "body", "answered", "over"}
      PROVE  JobInv'
  <2>1. calls \in Nat /\ calls <= 2 * Stages - 1
    BY <1>0, <1>3, CallsLeft DEF BoundInv, JobInv
  <2>2. started' <= calls * Round(client) + Gap
    BY <1>3 DEF BoundInv, JobInv
  <2>3. clock' <= JobBound(client')
    BY <1>0, <1>1, <1>3, <2>1, <2>2, CallFitsJob
  <2> QED
    BY <1>3, <2>2, <2>3 DEF BoundInv, JobInv, JobBounded
<1>4. CASE Accept \/ Reject
  <2>1. phase = "answered" /\ UNCHANGED <<client, clock, started>> /\ calls' = calls + 1
        /\ phase' \in {"idle", "over"}
    BY <1>4 DEF Accept, Reject, Unchanged
  <2>2. calls \in Nat /\ calls <= 2 * Stages - 1
    BY <1>0, <2>1, CallsLeft DEF BoundInv, JobInv
  <2>3. started <= calls * Round(client) + Gap /\ clock - started <= AnswerBound(client)
    BY <2>1 DEF BoundInv, JobInv, CallInv, CallBounded
  <2>4. clock' <= calls' * Round(client')
    BY <1>1, <2>1, <2>2, <2>3, RoundNat, RoundsFit
  <2>5. JobBounded'
    BY <2>1 DEF BoundInv, JobInv, JobBounded
  <2>6. phase' # "over" => calls' <= 2 * (stage' - 1) + (ask' - 1)
    <3>1. calls <= 2 * (stage - 1) + (ask - 1) /\ stage \in Nat /\ ask \in {1, 2}
      BY <1>0, <2>1, AssumptionsHold DEF Assumptions, BoundInv, JobInv, TypeInv, CallsTypeOK
    <3>2. CASE Accept
      <4>1. phase' = "idle" => stage' = stage + 1 /\ ask' = 1
        BY <3>2 DEF Accept
      <4> QED
        BY <1>1, <2>1, <3>1, <4>1
    <3>3. CASE Reject
      <4>1. phase' = "idle" => ask = 1 /\ ask' = 2 /\ stage' = stage
        BY <3>1, <3>3 DEF Reject
      <4> QED
        BY <1>1, <2>1, <3>1, <4>1
    <3> QED
      BY <1>4, <3>2, <3>3
  <2> QED
    BY <1>0, <2>1, <2>4, <2>5, <2>6 DEF JobInv, BoundInv
<1>5. CASE NextJob
  <2>1. phase' = "idle" /\ clock' = 0 /\ calls' = 0 /\ stage' = 1 /\ ask' = 1 /\ client' = client
    BY <1>5 DEF NextJob
  <2>2. 0 <= 2 * Stages - 1
    BY AssumptionsHold DEF Assumptions
  <2>3. JobBound(client) \in Nat /\ 0 * Round(client) = 0
    <3>1. 0 \in Nat
      OBVIOUS
    <3> HIDE DEF JobBound, Round
    <3>2. JobBound(client) \in Nat
      BY <1>1, <2>2, <3>1, RoundsFit
    <3> QED
      BY <1>1, <3>2, RoundNat
  <2>4. clock' <= calls' * Round(client') /\ clock' <= JobBound(client')
    BY <2>1, <2>3
  <2>5. calls' <= 2 * (stage' - 1) + (ask' - 1)
    BY <2>1
  <2> QED
    BY <1>0, <2>1, <2>4, <2>5 DEF JobInv, JobBounded, BoundInv
<1>6. CASE UNCHANGED callsVars
  <2>1. UNCHANGED <<client, clock, phase, stage, ask, calls, started>>
    BY <1>6 DEF callsVars
  <2>2. JobInv
    BY DEF BoundInv
  <2> QED
    BY <1>0, <2>1, <2>2 DEF JobInv, JobBounded, BoundInv
<1>7. ASSUME NEW d \in 0..OpenMax, OpenFails(d) \/ Opened(d) PROVE JobInv'
  BY <1>3, <1>7 DEF OpenFails, Opened, Fails
<1>8. ASSUME NEW d \in 0..WaitCap, Retry(d) PROVE JobInv'
  BY <1>3, <1>8 DEF Retry
<1>9. ASSUME NEW d \in 0..Timeout,
             Piece(d) \/ OtherLine(d) \/ Done(d) \/ Overdue(d) \/ BodyFails(d)
      PROVE  JobInv'
  BY <1>3, <1>9 DEF Piece, OtherLine, Done, Overdue, BodyFails, Arrives, Fails
<1> QED
  BY <1>0, <1>2, <1>4, <1>5, <1>6, <1>7, <1>8, <1>9 DEF Next, BoundInv

(* Every job is over within JobBound of its claim, whatever its calls meet:  *)
(* a lease (NOVEL_JOB_TIMEOUT) of at least JobBound never lapses under a     *)
(* live slot (service.py:146-176, 229-255; stages.py).                       *)
THEOREM JobsBounded == Spec => []JobBounded
<1>1. Init => BoundInv
  <2> SUFFICES ASSUME Init PROVE BoundInv
    OBVIOUS
  <2>1. CallInv
    BY TypeInit DEF Init, CallInv, Attempting, InBody, Deadlined, CallBounded
  <2>2. client \in {"async", "sync"} /\ 0 <= 2 * Stages - 1
    BY AssumptionsHold DEF Init, Assumptions
  <2>3. JobBound(client) \in Nat /\ 0 * Round(client) = 0
    <3>1. 0 \in Nat
      OBVIOUS
    <3>2. JobBound(client) \in Nat
      BY <2>2, <3>1, RoundsFit
    <3> QED
      BY <2>2, <3>2, RoundNat
  <2>4. clock <= calls * Round(client) /\ clock <= JobBound(client)
    BY <2>3 DEF Init
  <2> QED
    BY <2>1, <2>4 DEF Init, BoundInv, JobInv, JobBounded
<1>2. BoundInv => JobBounded
  BY DEF BoundInv, JobInv
<1> QED
  BY <1>1, <1>2, JobNext, PTL DEF Spec

-----------------------------------------------------------------------------
(* The clients implement AnswerStream.                                      *)

SeenInv ==
  /\ phase \in {"body", "answered"} => error = "none" /\ attempt >= 1
  /\ phase = "answered" => given = size /\ size > 0
  /\ phase = "over" /\ error = "none" => attempt >= 1
  /\ client = "async" /\ phase \in {"open", "wait"} => given = 0

StreamInv == TypeInv /\ SeenInv

(* What the caller sees, by the phase. *)
LEMMA SeenGoing ==
  ASSUME StreamInv, phase \in {"open", "wait", "body"}
  PROVE  /\ CallSeen = "going"
         /\ client = "sync" => GotSeen = 0 /\ WholeSeen = 0
         /\ client = "async" => GotSeen = given /\ WholeSeen = (IF given = 0 THEN 0 ELSE size)
  BY DEF CallSeen, GotSeen, WholeSeen

LEMMA SeenFailed ==
  ASSUME phase \in {"idle", "over"}, error # "none"
  PROVE  /\ CallSeen = "failed"
         /\ client = "sync" => GotSeen = 0 /\ WholeSeen = 0
         /\ client # "sync" => GotSeen = given /\ WholeSeen = (IF given = 0 THEN 0 ELSE size)
  BY DEF CallSeen, GotSeen, WholeSeen

LEMMA SeenAnswered ==
  ASSUME phase \in {"idle", "answered", "over"}, error = "none", phase = "idle" => attempt # 0
  PROVE  CallSeen = "answered" /\ GotSeen = given /\ WholeSeen = (IF given = 0 THEN 0 ELSE size)
  BY DEF CallSeen, GotSeen, WholeSeen

LEMMA StreamNext == StreamInv /\ [Next]_callsVars => StreamInv'
<1> SUFFICES ASSUME StreamInv, [Next]_callsVars PROVE StreamInv'
  OBVIOUS
<1>0. TypeInv /\ TypeInv'
  BY TypeNext DEF StreamInv
<1> USE DEF SeenInv
<1>1. ASSUME NEW d \in 0..Gap, Begin(d) PROVE SeenInv'
  BY <1>1 DEF Begin
<1>2. ASSUME NEW d \in 0..OpenMax, OpenFails(d) PROVE SeenInv'
  BY <1>2 DEF OpenFails, Fails, OpenErrors, StreamInv
<1>3. ASSUME NEW d \in 0..OpenMax, Opened(d) PROVE SeenInv'
  BY <1>0, <1>3 DEF Opened, TypeInv, AttemptInv
<1>4. ASSUME NEW d \in 0..WaitCap, Retry(d) PROVE SeenInv'
  BY <1>4 DEF Retry, StreamInv
<1>5. ASSUME NEW d \in 0..Timeout, Arrives(d), UNCHANGED <<phase, error>> PROVE SeenInv'
  BY <1>5 DEF Arrives, StreamInv
<1>6. ASSUME NEW d \in 0..Timeout, Arrives(d), Fails("body") PROVE SeenInv'
  BY <1>6 DEF Arrives, Fails, Retryable, StreamInv
<1>7. ASSUME NEW d \in 0..Timeout, Done(d) PROVE SeenInv'
  <2>1. CASE size > 0 /\ phase' = "answered" /\ UNCHANGED error
    BY <1>7, <2>1 DEF Done, Arrives, StreamInv
  <2> QED
    BY <1>6, <1>7, <2>1 DEF Done
<1>8. CASE Accept \/ Reject
  BY <1>0, <1>8 DEF Accept, Reject, Unchanged, StreamInv
<1>9. CASE NextJob
  BY <1>0, <1>9 DEF NextJob, StreamInv
<1>10. CASE UNCHANGED callsVars
  BY <1>0, <1>10 DEF callsVars, StreamInv
<1> QED
  BY <1>0, <1>1, <1>2, <1>3, <1>4, <1>5, <1>6, <1>7, <1>8, <1>9, <1>10
  DEF Next, Piece, OtherLine, Overdue, BodyFails, StreamInv

LEMMA StepImplements == StreamInv /\ [Next]_callsVars => [Stream!Next]_(Stream!callVars)
<1> SUFFICES ASSUME StreamInv, [Next]_callsVars PROVE [Stream!Next]_(Stream!callVars)
  OBVIOUS
<1>0. StreamInv' /\ TypeInv /\ TypeInv' /\ client \in {"async", "sync"}
  BY StreamNext, TypeNext, AssumptionsHold DEF StreamInv, TypeInv, CallsTypeOK, Assumptions
<1> USE DEF Stream!Next, Stream!callVars, Stream!Begin, Stream!Give, Stream!End, Stream!Fail
<1>1. ASSUME NEW d \in 0..Gap, Begin(d) PROVE Stream!Begin
  <2>1. CallSeen # "going"
    BY <1>1 DEF Begin, CallSeen
  <2>2. given' = 0 /\ size' = 0 /\ client' = client /\ (phase' = "open" \/ (phase' = "over" /\ error' = "final"))
    BY <1>1 DEF Begin
  <2>3. CallSeen' \in {"going", "failed"} /\ GotSeen' = 0 /\ WholeSeen' = 0
    BY <2>2 DEF CallSeen, GotSeen, WholeSeen
  <2> QED
    BY <2>1, <2>3
<1>2. ASSUME Fails("body") \/ (\E e \in OpenErrors(client) : Fails(e)), phase \in {"open", "body"},
             UNCHANGED <<client, given, size>>
      PROVE  Stream!Fail \/ UNCHANGED <<CallSeen, GotSeen, WholeSeen>>
  <2>1. error' # "none" /\ phase' \in {"wait", "over"}
    BY <1>2 DEF Fails, OpenErrors
  <2>2. CallSeen = "going" /\ CallSeen' \in {"going", "failed"}
    BY <1>2, <2>1 DEF CallSeen
  <2>3. GotSeen' = GotSeen /\ WholeSeen' = WholeSeen
    BY <1>2, <2>2 DEF GotSeen, WholeSeen
  <2> QED
    BY <2>2, <2>3
<1>3. ASSUME NEW d \in 0..OpenMax, OpenFails(d) PROVE Stream!Fail \/ UNCHANGED <<CallSeen, GotSeen, WholeSeen>>
  BY <1>2, <1>3 DEF OpenFails
<1>4. ASSUME NEW d \in 0..OpenMax, Opened(d) PROVE UNCHANGED <<CallSeen, GotSeen, WholeSeen>>
  <2>1. phase = "open" /\ phase' = "body" /\ client' = client /\ given' = 0
    BY <1>4 DEF Opened
  <2>2. client = "async" => given = 0
    BY <2>1 DEF StreamInv, SeenInv
  <2> QED
    BY <1>0, <2>1, <2>2 DEF CallSeen, GotSeen, WholeSeen
<1>5. ASSUME NEW d \in 0..WaitCap, Retry(d) PROVE UNCHANGED <<CallSeen, GotSeen, WholeSeen>>
  BY <1>5 DEF Retry, CallSeen, GotSeen, WholeSeen
<1>6. ASSUME NEW d \in 0..Timeout, Piece(d) PROVE Stream!Give \/ UNCHANGED <<CallSeen, GotSeen, WholeSeen>>
  <2>1. phase = "body" /\ phase' = "body" /\ client' = client /\ size' = size
        /\ given' = given + 1 /\ given < size
    BY <1>6 DEF Piece, Arrives
  <2>2. size \in 1..MaxPieces /\ given \in Nat
    BY <1>0, <2>1, AssumptionsHold DEF TypeInv, CallsTypeOK, Assumptions
  <2>3. CallSeen = "going" /\ CallSeen' = "going"
    BY <2>1 DEF CallSeen
  <2>4. CASE client = "sync"
    BY <2>1, <2>3, <2>4 DEF GotSeen, WholeSeen
  <2>5. CASE client = "async"
    BY <2>1, <2>2, <2>3, <2>5 DEF GotSeen, WholeSeen
  <2> QED
    BY <1>0, <2>4, <2>5
<1>7. ASSUME NEW d \in 0..Timeout, OtherLine(d) PROVE UNCHANGED <<CallSeen, GotSeen, WholeSeen>>
  BY <1>7 DEF OtherLine, Arrives, CallSeen, GotSeen, WholeSeen
<1>8. ASSUME NEW d \in 0..Timeout, Done(d)
      PROVE  Stream!Give \/ Stream!End \/ Stream!Fail \/ UNCHANGED <<CallSeen, GotSeen, WholeSeen>>
  <2>1. CASE size > 0 /\ phase' = "answered"
    <3>1. phase = "body" /\ client' = client /\ size' = size /\ given' = given /\ given = size
      BY <1>8 DEF Done, Arrives
    <3>2. size \in 1..MaxPieces
      BY <1>0, <2>1, AssumptionsHold DEF TypeInv, CallsTypeOK, Assumptions
    <3>3. CallSeen = "going" /\ CallSeen' = "answered" /\ GotSeen' = size /\ WholeSeen' = size
      BY <2>1, <3>1, <3>2 DEF CallSeen, GotSeen, WholeSeen
    <3>4. CASE client = "sync"
      <4>1. GotSeen = 0
        BY <3>3, <3>4 DEF GotSeen
      <4> QED
        BY <3>2, <3>3, <4>1
    <3>5. CASE client = "async"
      <4>1. GotSeen = size /\ WholeSeen = size
        BY <3>1, <3>2, <3>5 DEF GotSeen, WholeSeen
      <4> QED
        BY <3>2, <3>3, <4>1
    <3> QED
      BY <1>0, <3>4, <3>5
  <2>2. CASE Fails("body")
    BY <1>2, <1>8, <2>2 DEF Done, Arrives
  <2> QED
    BY <1>8, <2>1, <2>2 DEF Done
<1>9. ASSUME NEW d \in 0..Timeout, Overdue(d) \/ BodyFails(d)
      PROVE  Stream!Fail \/ UNCHANGED <<CallSeen, GotSeen, WholeSeen>>
  BY <1>2, <1>9 DEF Overdue, BodyFails, Arrives
<1>10. CASE Accept \/ Reject
  <2>1. phase = "answered" /\ phase' \in {"idle", "over"} /\ UNCHANGED <<client, attempt, given, size, error>>
    BY <1>10 DEF Accept, Reject, Unchanged
  <2>2. error = "none" /\ attempt # 0
    BY <1>0, <2>1 DEF StreamInv, SeenInv, TypeInv, CallsTypeOK
  <2> QED
    BY <2>1, <2>2 DEF CallSeen, GotSeen, WholeSeen
<1>11. CASE NextJob
  <2>1. phase = "over" /\ phase' = "idle" /\ UNCHANGED <<client, attempt, given, size, error>>
    BY <1>11 DEF NextJob
  <2>2. error = "none" => attempt # 0
    BY <1>0, <2>1 DEF StreamInv, SeenInv, TypeInv, CallsTypeOK
  <2> QED
    BY <2>1, <2>2 DEF CallSeen, GotSeen, WholeSeen
<1>12. CASE UNCHANGED callsVars
  BY <1>12 DEF callsVars, CallSeen, GotSeen, WholeSeen
<1> QED
  BY <1>1, <1>3, <1>4, <1>5, <1>6, <1>7, <1>8, <1>9, <1>10, <1>11, <1>12 DEF Next

(* Both clients keep the promise of AnswerStream: pieces come in order and   *)
(* once each whatever is retried, and a call is answered only with the whole *)
(* of a finished answer (llm.py:131-239, deepseek.py:29-49, 97-123).         *)
THEOREM CallsStream == Spec => StreamsAnswers
<1>1. Init => StreamInv
  BY TypeInit DEF Init, StreamInv, SeenInv
<1>2. Init => Stream!Init
  BY DEF Init, Stream!Init, CallSeen, GotSeen, WholeSeen
<1> QED
  BY <1>1, <1>2, StreamNext, StepImplements, PTL DEF Spec, StreamsAnswers, Stream!Spec

=============================================================================
