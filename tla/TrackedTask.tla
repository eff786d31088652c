---------------------------- MODULE TrackedTask -----------------------------
(***************************************************************************)
(* What a tracked remote task promises to the code that starts one.        *)
(*                                                                         *)
(* The row goes from pending to running to one terminal status and stays   *)
(* there; a success or a timeout is recorded only if the script really     *)
(* ended that way; and the callback of the recorded status is invoked at   *)
(* most once, after it was recorded.  How connections, deadlines, monitors *)
(* and restarts achieve it is TaskRecovery's business.                     *)
(***************************************************************************)
EXTENDS Integers, Sequences

CONSTANT Tasks

VARIABLES
  row,     \* row[t]: the status column
  code,    \* code[t]: the script's exit code, -1 until it ended
  calls    \* calls[t]: the callbacks invoked

vars == <<row, code, calls>>

Unsettled == {"pending", "running"}
Verdicts == {"finished", "failed", "timeout"}

Init ==
  /\ row = [t \in Tasks |-> "none"]
  /\ code = [t \in Tasks |-> -1]
  /\ calls = [t \in Tasks |-> << >>]

Create(t) ==
  /\ row[t] = "none"
  /\ row' = [row EXCEPT ![t] = "pending"]
  /\ UNCHANGED <<code, calls>>

Begin(t) ==
  /\ row[t] = "pending"
  /\ row' = [row EXCEPT ![t] = "running"]
  /\ UNCHANGED <<code, calls>>

\* The script ends on the server, whether or not anybody still watches it.
End(t) ==
  /\ row[t] # "none"
  /\ code[t] = -1
  /\ \E c \in {0, 1, 124} : code' = [code EXCEPT ![t] = c]
  /\ UNCHANGED <<row, calls>>

Settle(t) ==
  /\ row[t] \in Unsettled
  /\ \E v \in Verdicts :
       /\ v = "finished" => code[t] = 0
       /\ v = "timeout" => code[t] = 124
       /\ row' = [row EXCEPT ![t] = v]
  /\ UNCHANGED <<code, calls>>

CallbackFor(s) ==
  IF s = "finished" THEN "OnSuccess" ELSE IF s = "timeout" THEN "OnExpired" ELSE "OnFailure"

Notify(t) ==
  /\ row[t] \in Verdicts
  /\ calls[t] = << >>
  /\ calls' = [calls EXCEPT ![t] = <<CallbackFor(row[t])>>]
  /\ UNCHANGED <<row, code>>

Next == \E t \in Tasks : Create(t) \/ Begin(t) \/ End(t) \/ Settle(t) \/ Notify(t)

Spec == Init /\ [][Next]_vars
=============================================================================
