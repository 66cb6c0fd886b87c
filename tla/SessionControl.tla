--------------------------- MODULE SessionControl ---------------------------
(***************************************************************************)
(* What starting and stopping the agent from the console amounts to: one   *)
(* session at a time; a session that was told to stop begins at most one   *)
(* more trading cycle, and ends.                                           *)
(***************************************************************************)
EXTENDS Integers

VARIABLES
  mode,   \* "idle", "running" or "stopping"
  late    \* cycles the last session began after it was told to stop

vars == <<mode, late>>

Init == mode = "idle" /\ late = 0

Start == mode = "idle" /\ mode' = "running" /\ late' = 0

Stop == mode = "running" /\ mode' = "stopping" /\ UNCHANGED late

LateCycle == mode = "stopping" /\ late = 0 /\ late' = 1 /\ UNCHANGED mode

(* The session ends; a restarted server has also forgotten it.             *)
End == mode # "idle" /\ mode' = "idle" /\ late' \in {late, 0}

Forget == mode = "idle" /\ late' = 0 /\ UNCHANGED mode

Next == Start \/ Stop \/ LateCycle \/ End \/ Forget

Safety == Init /\ [][Next]_vars

Spec == Safety /\ WF_vars(mode = "stopping" /\ End)

=============================================================================
