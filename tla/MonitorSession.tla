--------------------------- MODULE MonitorSession ---------------------------
(***************************************************************************)
(* AutonomousRuntime's monitor sessions: API threads that start and stop   *)
(* the agent, the daemon threads that run _monitor_loop, and the server    *)
(* process dying under all of them.                                        *)
(*                                                                         *)
(* start_agent and stop_agent hold monitor_lock throughout, and the loop   *)
(* takes it only in its finally clause, so each is one step.  Everything   *)
(* else the loop does is a step of its own: a stop can come anywhere.      *)
(* monitor_state is modelled by its "status": "running" is TRUE in it      *)
(* exactly when the status is "running".                                   *)
(***************************************************************************)
EXTENDS Integers

CONSTANTS
  MaxThreads,     \* bound: sessions started in a behaviour
  NumSymbols,     \* Len(settings.symbols)
  MaxIterations,  \* bound: largest max_iterations a session is started with
  EventLimit      \* monitor_events keeps this many (100 in the code)

ASSUME ThreadsAssumption == MaxThreads \in Nat
ASSUME SymbolsAssumption == NumSymbols \in Nat \ {0}
ASSUME IterationsAssumption == MaxIterations \in Nat
ASSUME EventLimitAssumption == EventLimit \in Nat \ {0}

VARIABLES
  current,    \* monitor_thread with its monitor_stop_event; 0 is None
  started,    \* threads created so far
  limit,      \* each thread's max_iterations; 0 is "until stopped"
  status,     \* monitor_state["status"]
  phase,      \* where each thread is in _monitor_loop
  stop,       \* each thread's stop_event
  next,       \* the symbol each thread is at
  iteration,  \* the loop's counter; not kept when there is no limit
  failed,     \* the loop's error is set
  late,       \* run_once calls a thread began after its stop event was set
  events      \* Len(monitor_events)

control == <<current, started, limit>>
loop == <<next, iteration, failed, late>>
vars == <<control, status, phase, stop, loop, events>>

Threads == 1..MaxThreads

(* "unborn", then is_alive() from "build" to "notify", then "dead".        *)
Working == {"build", "head", "symbol", "fetch", "cycle", "wait", "finally"}
Phases  == Working \cup {"unborn", "notify", "dead"}

Alive(t) == phase[t] \in Working \cup {"notify"}

Init ==
  /\ current = 0 /\ started = 0
  /\ limit = [t \in Threads |-> 0]
  /\ status = "stopped"
  /\ phase = [t \in Threads |-> "unborn"]
  /\ stop = [t \in Threads |-> FALSE]
  /\ next = [t \in Threads |-> 1]
  /\ iteration = [t \in Threads |-> 0]
  /\ failed = [t \in Threads |-> FALSE]
  /\ late = [t \in Threads |-> 0]
  /\ events = 0

Goto(t, p) == phase' = [phase EXCEPT ![t] = p]

-----------------------------------------------------------------------------
(* Mutant: start_agent trusts monitor_state["running"].                    *)
NoSessionByState == status # "running"

(* start_agent: a thread that is alive answers "already_running" (nothing  *)
(* changes); else a new stop event, a new state, a new thread.             *)
NoSession == current # 0 => ~Alive(current)

StartAgent(maxIterations) ==
  /\ started < MaxThreads
  /\ NoSession
  /\ limit' = [limit EXCEPT ![started + 1] = maxIterations]
  /\ started' = started + 1
  /\ current' = started + 1
  /\ status' = "running"
  /\ Goto(started + 1, "build")
  /\ UNCHANGED <<stop, loop, events>>

(* Mutant: stop_agent writes the final status itself.                      *)
StopAgentAtOnce ==
  /\ stop' = IF current = 0 THEN stop ELSE [stop EXCEPT ![current] = TRUE]
  /\ status' = "stopped"
  /\ UNCHANGED <<control, phase, loop, events>>

(* stop_agent: sets the event of the last thread there was, if any, and    *)
(* writes "stopping" whatever the state was.                               *)
StopAgent ==
  /\ stop' = IF current = 0 THEN stop ELSE [stop EXCEPT ![current] = TRUE]
  /\ status' = "stopping"
  /\ UNCHANGED <<control, phase, loop, events>>

(* The server process ends and another one starts: daemon threads die and  *)
(* AutonomousRuntime.__init__ knows nothing of them.                       *)
RestartServer ==
  /\ current' = 0
  /\ status' = "stopped"
  /\ phase' = [t \in Threads |-> IF Alive(t) THEN "dead" ELSE phase[t]]
  /\ events' = 0
  /\ UNCHANGED <<started, limit, stop, loop>>

-----------------------------------------------------------------------------
(* _monitor_loop.                                                          *)

(* Building the feeds and the agent.                                       *)
Build(t) ==
  /\ phase[t] = "build"
  /\ Goto(t, "head")
  /\ UNCHANGED <<control, status, stop, loop, events>>

MoreIterations(t) == limit[t] = 0 \/ iteration[t] < limit[t]

(* Mutant: the while condition without the stop event.                     *)
HeadUnstoppable(t) ==
  /\ phase[t] = "head"
  /\ IF MoreIterations(t)
       THEN /\ Goto(t, "symbol")
            /\ next' = [next EXCEPT ![t] = 1]
            /\ iteration' = [iteration EXCEPT ![t] =
                               IF limit[t] = 0 THEN 0 ELSE @ + 1]
       ELSE /\ Goto(t, "finally")
            /\ UNCHANGED <<next, iteration>>
  /\ UNCHANGED <<control, status, stop, failed, late, events>>

(* The while condition.                                                    *)
Head(t) ==
  /\ phase[t] = "head"
  /\ IF ~stop[t] /\ MoreIterations(t)
       THEN /\ Goto(t, "symbol")
            /\ next' = [next EXCEPT ![t] = 1]
            /\ iteration' = [iteration EXCEPT ![t] =
                               IF limit[t] = 0 THEN 0 ELSE @ + 1]
       ELSE /\ Goto(t, "finally")
            /\ UNCHANGED <<next, iteration>>
  /\ UNCHANGED <<control, status, stop, failed, late, events>>

(* Mutant: the event is checked once per iteration, not once per symbol.   *)
NextSymbolUnchecked(t) ==
  /\ phase[t] = "symbol"
  /\ Goto(t, IF next[t] <= NumSymbols THEN "fetch"
             ELSE IF MoreIterations(t) THEN "wait" ELSE "head")
  /\ UNCHANGED <<control, status, stop, loop, events>>

(* The next symbol, the check of the stop event before it, and, after the  *)
(* last one, the choice to wait for the interval.                          *)
NextSymbol(t) ==
  /\ phase[t] = "symbol"
  /\ Goto(t, IF next[t] <= NumSymbols /\ ~stop[t] THEN "fetch"
             ELSE IF MoreIterations(t) THEN "wait" ELSE "head")
  /\ UNCHANGED <<control, status, stop, loop, events>>

(* The market snapshot and the account state are here; run_once begins.    *)
BeginCycle(t) ==
  /\ phase[t] = "fetch"
  /\ Goto(t, "cycle")
  /\ late' = [late EXCEPT ![t] = IF stop[t] THEN @ + 1 ELSE @]
  /\ UNCHANGED <<control, status, stop, next, iteration, failed, events>>

(* Mutant: the list of events is not trimmed.                              *)
EndCycleUntrimmed(t) ==
  /\ phase[t] = "cycle"
  /\ Goto(t, "symbol")
  /\ next' = [next EXCEPT ![t] = @ + 1]
  /\ events' = events + 1
  /\ UNCHANGED <<control, status, stop, iteration, failed, late>>

(* run_once returned: its event is appended and the list trimmed.          *)
EndCycle(t) ==
  /\ phase[t] = "cycle"
  /\ Goto(t, "symbol")
  /\ next' = [next EXCEPT ![t] = @ + 1]
  /\ events' = IF events < EventLimit THEN events + 1 ELSE events
  /\ UNCHANGED <<control, status, stop, iteration, failed, late>>

(* stop_event.wait(interval): the event is set or the time is over.        *)
WaitOver(t) ==
  /\ phase[t] = "wait"
  /\ Goto(t, "head")
  /\ UNCHANGED <<control, status, stop, loop, events>>

(* An exception of the settings, a feed, the agent.                        *)
Raise(t) ==
  /\ phase[t] \in {"build", "fetch", "cycle"}
  /\ Goto(t, "finally")
  /\ failed' = [failed EXCEPT ![t] = TRUE]
  /\ UNCHANGED <<control, status, stop, next, iteration, late, events>>

(* The finally clause writes the state the session ended with ...          *)
Finally(t) ==
  /\ phase[t] = "finally"
  /\ status' = IF failed[t] THEN "error" ELSE "stopped"
  /\ Goto(t, "notify")
  /\ UNCHANGED <<control, stop, loop, events>>

(* ... and notifies; only then is the thread no longer alive.              *)
Exit(t) ==
  /\ phase[t] = "notify"
  /\ Goto(t, "dead")
  /\ UNCHANGED <<control, status, stop, loop, events>>

Step(t) ==
  \/ Build(t) \/ Head(t) \/ NextSymbol(t) \/ BeginCycle(t) \/ EndCycle(t)
  \/ WaitOver(t) \/ Raise(t) \/ Finally(t) \/ Exit(t)

Next ==
  \/ \E n \in 0..MaxIterations : StartAgent(n)
  \/ StopAgent
  \/ RestartServer
  \/ \E t \in Threads : Step(t)

Spec == Init /\ [][Next]_vars

(* A thread that can take a step is scheduled some day; every call the     *)
(* loop makes has a timeout (the planner's, the analyst's, the bridge's).  *)
(* Nobody has to start or stop anything.                                   *)
FairSpec == Spec /\ \A t \in Threads : WF_vars(Step(t))

-----------------------------------------------------------------------------
(* The shape of the state; a thread that was born is alive or dead.        *)
TypeOK ==
  /\ current \in 0..MaxThreads /\ started \in 0..MaxThreads
  /\ status \in {"stopped", "running", "stopping", "error"}
  /\ phase \in [Threads -> Phases]
  /\ \A t \in Threads : phase[t] = "unborn" <=> t > started
  /\ stop \in [Threads -> BOOLEAN] /\ failed \in [Threads -> BOOLEAN]
  /\ next \in [Threads -> 1..NumSymbols + 1]
  /\ iteration \in [Threads -> 0..MaxIterations]
  /\ late \in [Threads -> Nat]
  /\ events \in 0..EventLimit

(* Two agents never trade at once: a session cannot be started while the   *)
(* thread of an earlier one, stopped or not, is still alive.               *)
OneLoop ==
  \A t, u \in Threads : Alive(t) /\ Alive(u) => t = u

(* A console that reads "stopped" or "error" may rely on it: no thread is  *)
(* anywhere in its loop.                                                   *)
StoppedIsQuiet ==
  status \in {"stopped", "error"} => \A t \in Threads : phase[t] \notin Working

(* A console that reads "running" may rely on it: there is a session, and  *)
(* nobody has told it to stop.                                             *)
RunningIsLive ==
  status = "running" =>
    /\ current # 0
    /\ phase[current] \in Working
    /\ ~stop[current]

(* The console can believe the status it reads, whichever of the two       *)
(* threads wrote it last.                                                  *)
TruthfulStatus == StoppedIsQuiet /\ RunningIsLive

(* A stop may come between the check of the event and run_once, which may  *)
(* then place an order; but that is the only cycle begun after a stop.     *)
OneLateCycle ==
  \A t \in Threads : late[t] <= 1

(* A stopped session ends, wherever in its loop the stop finds it.         *)
StopQuiesces ==
  \A t \in Threads : (stop[t] /\ Alive(t)) ~> ~Alive(t)

(* "stopping" does not stay on the console when the stop came before the   *)
(* session's own last write of the state.                                  *)
StoppingSettles ==
  (status = "stopping" /\ current # 0 /\ phase[current] \in Working)
    ~> status # "stopping"

(* A stop is carried out: the thread ends, and the console is told.        *)
StopCompletes == StopQuiesces /\ StoppingSettles

Session == INSTANCE SessionControl WITH
  mode <- IF current = 0 \/ phase[current] \notin Working THEN "idle"
          ELSE IF stop[current] THEN "stopping" ELSE "running",
  late <- IF current = 0 THEN 0 ELSE late[current]

(* Threads, events, locks and the finally clause implement the console's   *)
(* view of one session, its end included.                                  *)
SessionImplemented == Session!Spec

-----------------------------------------------------------------------------
(* The inductive strengthening of the safety invariants.                   *)

(* A session's limit is the one it was started with.                       *)
LimitInv == limit \in [Threads -> 0..MaxIterations]

(* Only the last thread started can be alive.                              *)
CurrentInv ==
  /\ current <= started
  /\ \A t \in Threads : Alive(t) => t = current

(* What is true of a thread's stop event and of its late cycles where it   *)
(* stands in the loop.                                                     *)
LateInv ==
  \A t \in Threads :
    /\ phase[t] = "unborn" => ~stop[t]
    /\ ~stop[t] => late[t] = 0
    /\ phase[t] = "fetch" => late[t] = 0

(* A cycle is about a symbol there is.                                     *)
SymbolInv ==
  \A t \in Threads : phase[t] \in {"fetch", "cycle"} => next[t] <= NumSymbols

IInv ==
  /\ TypeOK
  /\ LimitInv
  /\ CurrentInv
  /\ SymbolInv
  /\ LateInv
  /\ OneLateCycle
  /\ TruthfulStatus

=============================================================================
