----------------------------- MODULE JobLifecycle ----------------------------
(***************************************************************************)
(* What the job queue promises, whatever the worker does with a job: one    *)
(* holder per job, each hold entered through a claim that counts a try, a   *)
(* settled job reopened by its submitter only (or by the holder that has    *)
(* settled it and then failed), a lost job returned to the queue.           *)
(***************************************************************************)
EXTENDS Naturals

CONSTANTS Job, Worker

VARIABLES
  status,   \* per job
  holders,  \* who works on it: nobody or one worker
  tries     \* how often it was claimed

jobVars == <<status, holders, tries>>

Settled == {"SUCCEEDED", "FAILED", "CANCELLED"}

Init ==
  /\ status = [j \in Job |-> "NONE"]
  /\ holders = [j \in Job |-> {}]
  /\ tries = [j \in Job |-> 0]

(* Only a job that nobody holds is submitted, again or for the first time. *)
Submit(j) ==
  /\ status[j] \in {"NONE", "FAILED", "CANCELLED"} /\ holders[j] = {}
  /\ status' = [status EXCEPT ![j] = "PENDING"]
  /\ UNCHANGED <<holders, tries>>

Withdraw(j) ==
  /\ status[j] = "PENDING" /\ holders[j] = {}
  /\ status' = [status EXCEPT ![j] = "CANCELLED"]
  /\ UNCHANGED <<holders, tries>>

(* A claim takes a pending job, or a running one whose holder is lost, and  *)
(* returns other lost jobs to the queue.                                    *)
Lost(j) == status[j] = "RUNNING" /\ holders[j] = {}

Claim(j, w) ==
  /\ status[j] = "PENDING" \/ Lost(j)
  /\ holders[j] = {}
  /\ \E returned \in SUBSET {k \in Job \ {j} : Lost(k)} :
       status' = [k \in Job |-> IF k = j THEN "RUNNING"
                                ELSE IF k \in returned THEN "PENDING" ELSE status[k]]
  /\ holders' = [holders EXCEPT ![j] = {w}]
  /\ tries' = [tries EXCEPT ![j] = @ + 1]

(* The holder ends its try: settled, or pending for another one.  It may    *)
(* keep a successful job for a while (to export its result), and fail then. *)
Settle(j, w) ==
  /\ holders[j] = {w}
  /\ \E s \in Settled \cup {"PENDING"}, kept \in {{w}, {}} :
       /\ kept # {} => s = "SUCCEEDED"
       /\ status' = [status EXCEPT ![j] = s]
       /\ holders' = [holders EXCEPT ![j] = kept]
  /\ UNCHANGED tries

(* Holders are killed, or let go of a job they have settled. *)
Release(js) ==
  /\ holders' = [j \in Job |-> IF j \in js THEN {} ELSE holders[j]]
  /\ UNCHANGED <<status, tries>>

Next ==
  \/ \E j \in Job : Submit(j) \/ Withdraw(j)
  \/ \E j \in Job, w \in Worker : Claim(j, w) \/ Settle(j, w)
  \/ \E js \in SUBSET Job : Release(js)

Spec == Init /\ [][Next]_jobVars

=============================================================================
