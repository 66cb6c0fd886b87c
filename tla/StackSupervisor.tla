--------------------------- MODULE StackSupervisor ---------------------------
(***************************************************************************)
(* quantz.stack: one process that starts the services of a deployment one  *)
(* after the other, waits for their health, watches them, and when one of  *)
(* them exits or the operator presses Ctrl+C takes the others down: first  *)
(* SIGTERM to each, then, 8 seconds later at the latest, SIGKILL.          *)
(***************************************************************************)
EXTENDS Integers, FiniteSets, Sequences

CONSTANTS
  WithFrontend, WithBridge, \* the services of the StackConfig
  MaxSlow                   \* bound: services that ignore SIGTERM

ASSUME ServiceAssumption == WithFrontend \in BOOLEAN /\ WithBridge \in BOOLEAN
ASSUME SlowAssumption == MaxSlow \in Nat

(* build_service_specs.                                                    *)
Specs == <<"backend">> \o (IF WithFrontend THEN <<"frontend">> ELSE <<>>)
                       \o (IF WithBridge THEN <<"mt5-bridge">> ELSE <<>>)

Services == {Specs[i] : i \in DOMAIN Specs}

VARIABLES
  phase,     \* of run_stack: "start", "health", "watch", "term", "reap", "gone"
  started,   \* services run_stack has started
  proc,      \* each service's process: "none", "up", "exited", "dead"
  signalled, \* services that have been sent SIGTERM
  killed,    \* services that have been sent SIGKILL
  deaf,      \* services that ignore SIGTERM
  turn,      \* the next service of the loop the supervisor is in
  cause      \* why it ends: "none", "exit", "interrupt", or how it was cut
             \* off outside its try block: "popen", "cut"

stackVars == <<phase, started, proc, signalled, killed, deaf, turn, cause>>

StackInit ==
  /\ phase = "start" /\ started = 0
  /\ proc = [s \in Services |-> "none"]
  /\ signalled = {} /\ killed = {} /\ deaf = {}
  /\ turn = 1 /\ cause = "none"

Up(s) == proc[s] = "up"
Children == {Specs[i] : i \in 1..started}

-----------------------------------------------------------------------------
(* run_stack.                                                              *)

Popen ==
  /\ phase = "start" /\ started < Len(Specs)
  /\ started' = started + 1
  /\ proc' = [proc EXCEPT ![Specs[started + 1]] = "up"]
  /\ UNCHANGED <<phase, signalled, killed, deaf, turn, cause>>

(* The command cannot be run: the exception leaves run_stack, before the   *)
(* try block, with the services started so far.                            *)
PopenFails ==
  /\ phase = "start" /\ started < Len(Specs)
  /\ phase' = "gone" /\ cause' = "popen"
  /\ UNCHANGED <<started, proc, signalled, killed, deaf, turn>>

AllStarted ==
  /\ phase = "start" /\ started = Len(Specs)
  /\ phase' = "health"
  /\ UNCHANGED <<started, proc, signalled, killed, deaf, turn, cause>>

(* _wait_for_health: every service is healthy, or 45 seconds are over; the *)
(* supervisor says which of the two and goes on alike.                     *)
HealthDone ==
  /\ phase = "health"
  /\ phase' = "watch" /\ turn' = 1
  /\ UNCHANGED <<started, proc, signalled, killed, deaf, cause>>

(* Mutant: only the first service is polled.                               *)
PollFirst ==
  /\ phase = "watch"
  /\ IF Up(Specs[1])
       THEN UNCHANGED <<phase, cause>> /\ turn' = 1
       ELSE phase' = "term" /\ cause' = "exit" /\ turn' = Len(Specs)
  /\ UNCHANGED <<started, proc, signalled, killed, deaf>>

(* One poll of the watching loop; an exit code leads to the finally block. *)
Poll ==
  /\ phase = "watch"
  /\ IF Up(Specs[turn])
       THEN /\ turn' = (turn % Len(Specs)) + 1
            /\ UNCHANGED <<phase, cause>>
       ELSE phase' = "term" /\ cause' = "exit" /\ turn' = Len(Specs)
  /\ UNCHANGED <<started, proc, signalled, killed, deaf>>

(* Ctrl+C.  Within the try block it leads to the finally block; while the  *)
(* services are started, or in the finally block, it ends the supervisor.  *)
Interrupt ==
  /\ phase # "gone"
  /\ IF phase \in {"health", "watch"}
       THEN phase' = "term" /\ cause' = "interrupt" /\ turn' = Len(Specs)
       ELSE phase' = "gone" /\ cause' = "cut" /\ UNCHANGED turn
  /\ UNCHANGED <<started, proc, signalled, killed, deaf>>

(* Mutant: the loop does not stop at the first service.                    *)
TerminateOn ==
  /\ phase = "term"
  /\ signalled' = IF Up(Specs[turn]) THEN signalled \cup {Specs[turn]} ELSE signalled
  /\ turn' = turn - 1 /\ phase' = IF turn > 1 THEN phase ELSE "reap"
  /\ UNCHANGED <<started, proc, killed, deaf, cause>>

(* _terminate, first loop: SIGTERM from the last service to the first.     *)
Terminate ==
  /\ phase = "term"
  /\ signalled' = IF Up(Specs[turn]) THEN signalled \cup {Specs[turn]} ELSE signalled
  /\ IF turn > 1 THEN turn' = turn - 1 /\ UNCHANGED phase
               ELSE turn' = Len(Specs) /\ phase' = "reap"
  /\ UNCHANGED <<started, proc, killed, deaf, cause>>

(* Mutant: a service that is still up is left to itself.                   *)
ReapGently ==
  /\ phase = "reap"
  /\ killed' = killed
  /\ IF turn > 1 THEN turn' = turn - 1 /\ UNCHANGED phase
               ELSE phase' = "gone" /\ UNCHANGED turn
  /\ UNCHANGED <<started, proc, signalled, deaf, cause>>

(* Second loop: it waits for the service until it is down or the deadline  *)
(* all of them share is over, and kills it then; it does not wait for the  *)
(* end of what it killed.                                                  *)
Reap ==
  /\ phase = "reap"
  /\ killed' = IF Up(Specs[turn]) THEN killed \cup {Specs[turn]} ELSE killed
  /\ IF turn > 1 THEN turn' = turn - 1 /\ UNCHANGED phase
               ELSE phase' = "gone" /\ UNCHANGED turn
  /\ UNCHANGED <<started, proc, signalled, deaf, cause>>

-----------------------------------------------------------------------------
(* The services.                                                           *)

(* A service ends of itself: it fails, its port is taken, it is stopped.   *)
Exits(s) ==
  /\ Up(s)
  /\ proc' = [proc EXCEPT ![s] = "exited"]
  /\ UNCHANGED <<phase, started, signalled, killed, deaf, turn, cause>>

(* A service hangs and does not heed SIGTERM any more.                     *)
GoesDeaf(s) ==
  /\ Up(s) /\ s \notin deaf /\ Cardinality(deaf) < MaxSlow
  /\ deaf' = deaf \cup {s}
  /\ UNCHANGED <<phase, started, proc, signalled, killed, turn, cause>>

Dies(s) ==
  /\ Up(s)
  /\ s \in killed \/ (s \in signalled /\ s \notin deaf)
  /\ proc' = [proc EXCEPT ![s] = "dead"]
  /\ UNCHANGED <<phase, started, signalled, killed, deaf, turn, cause>>

Supervise == Popen \/ AllStarted \/ HealthDone \/ Poll \/ Terminate \/ Reap

StackNext ==
  \/ Supervise \/ PopenFails \/ Interrupt
  \/ \E s \in Services : Exits(s) \/ GoesDeaf(s) \/ Dies(s)

(* The supervisor's loops run on or time out, and a signal arrives.        *)
StackFair == /\ WF_stackVars(Supervise)
             /\ \A s \in Services : WF_stackVars(Dies(s))

StackSpec == StackInit /\ [][StackNext]_stackVars /\ StackFair

-----------------------------------------------------------------------------
(* Properties.                                                             *)

(* The shape of the state; only processes that were started are signalled, *)
(* killed or ignore a signal.                                              *)
StackTypeOK ==
  /\ phase \in {"start", "health", "watch", "term", "reap", "gone"}
  /\ started \in 0..Len(Specs) /\ turn \in 1..Len(Specs)
  /\ proc \in [Services -> {"none", "up", "exited", "dead"}]
  /\ signalled \cup killed \cup deaf \subseteq Children

(* When the supervisor has ended, a service that is up has been killed, or *)
(* the supervisor was cut off outside its try block: no child is forgotten *)
(* whichever of them exited first, or exited while the others were stopped.*)
NoneForgotten ==
  phase = "gone" /\ cause \in {"exit", "interrupt"} =>
    \A s \in Services : Up(s) => s \in killed

(* A service that exits, also while the supervisor waits for health, takes *)
(* the whole stack down with it.                                           *)
OneForAll ==
  \A s \in Services :
    proc[s] = "exited" /\ phase \in {"health", "watch"}
      ~> \/ \A t \in Services : ~Up(t)
         \/ cause = "cut"

=============================================================================
