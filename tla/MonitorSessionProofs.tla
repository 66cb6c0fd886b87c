------------------------ MODULE MonitorSessionProofs ------------------------
(***************************************************************************)
(* Theorems about MonitorSession for any number of sessions, symbols and   *)
(* iterations.                                                             *)
(***************************************************************************)
EXTENDS MonitorSession, TLAPS

LEMMA InitInv == Init => IInv
  BY ThreadsAssumption, SymbolsAssumption, IterationsAssumption,
     EventLimitAssumption
     DEF Init, IInv, TypeOK, LimitInv, CurrentInv, SymbolInv, LateInv, OneLateCycle,
         TruthfulStatus, StoppedIsQuiet, RunningIsLive, Threads, Phases, Working, Alive

-----------------------------------------------------------------------------
(* One lemma for the type invariant, with a step per action.               *)
LEMMA TypeStep ==
  ASSUME TypeOK, LimitInv, SymbolInv, [Next]_vars
  PROVE  TypeOK'
<1> USE ThreadsAssumption, SymbolsAssumption, IterationsAssumption,
        EventLimitAssumption
    DEF TypeOK, Threads, Phases, Working, Alive, control, loop, Goto
<1>1. ASSUME NEW n \in 0..MaxIterations, StartAgent(n) PROVE TypeOK'
  BY <1>1 DEF StartAgent
<1>2. CASE StopAgent
  BY <1>2 DEF StopAgent
<1>3. CASE RestartServer
  BY <1>3 DEF RestartServer
<1>4. ASSUME NEW t \in Threads, Step(t) PROVE TypeOK'
  <2>1. CASE Build(t)
    BY <2>1 DEF Build
  <2>2. CASE Head(t)
    <3>1. CASE ~stop[t] /\ MoreIterations(t)
      <4>1. next' = [next EXCEPT ![t] = 1] /\ Goto(t, "symbol")
            /\ iteration' = [iteration EXCEPT ![t] =
                               IF limit[t] = 0 THEN 0 ELSE @ + 1]
        BY <2>2, <3>1 DEF Head
      <4>2. limit[t] = 0 \/ iteration[t] + 1 \in 0..MaxIterations
        <5>1. limit[t] = 0 \/ iteration[t] < limit[t]
          BY <3>1, Zenon DEF MoreIterations
        <5>2. iteration[t] \in 0..MaxIterations /\ limit[t] \in 0..MaxIterations
          BY DEF LimitInv
        <5>3. QED
          BY <5>1, <5>2
      <4>3. iteration' \in [Threads -> 0..MaxIterations]
        BY <4>1, <4>2
      <4>4. next' \in [Threads -> 1..NumSymbols + 1]
        BY <4>1
      <4>5. QED
        BY <2>2, <4>1, <4>3, <4>4 DEF Head
    <3>2. CASE ~(~stop[t] /\ MoreIterations(t))
      <4>1. Goto(t, "finally") /\ UNCHANGED <<next, iteration>>
        BY <2>2, <3>2 DEF Head
      <4>2. QED
        BY <2>2, <4>1 DEF Head
    <3>3. QED
      BY <3>1, <3>2
  <2>3. CASE NextSymbol(t)
    BY <2>3 DEF NextSymbol, MoreIterations
  <2>4. CASE BeginCycle(t)
    <3>1. late' \in [Threads -> Nat]
      <4>1. late[t] \in Nat /\ late[t] + 1 \in Nat
        OBVIOUS
      <4>2. CASE stop[t]
        BY <2>4, <4>1, <4>2 DEF BeginCycle
      <4>3. CASE ~stop[t]
        BY <2>4, <4>1, <4>3 DEF BeginCycle
      <4>4. QED
        BY <4>2, <4>3
    <3>2. QED
      BY <2>4, <3>1 DEF BeginCycle
  <2>5. CASE EndCycle(t)
    <3>1. next[t] + 1 \in 1..NumSymbols + 1
      BY <2>5 DEF EndCycle, SymbolInv
    <3>2. next' \in [Threads -> 1..NumSymbols + 1]
      BY <2>5, <3>1 DEF EndCycle
    <3>3. events' \in 0..EventLimit
      BY <2>5 DEF EndCycle
    <3>4. phase' \in [Threads -> Phases]
          /\ \A u \in Threads : phase'[u] = "unborn" <=> phase[u] = "unborn"
      BY <2>5 DEF EndCycle
    <3>5. UNCHANGED <<current, started, status, stop, failed, iteration, late>>
      BY <2>5 DEF EndCycle
    <3>6. QED
      BY <3>2, <3>3, <3>4, <3>5
  <2>6. CASE WaitOver(t)
    BY <2>6 DEF WaitOver
  <2>7. CASE Raise(t)
    BY <2>7 DEF Raise
  <2>8. CASE Finally(t)
    BY <2>8 DEF Finally
  <2>9. CASE Exit(t)
    BY <2>9 DEF Exit
  <2>10. QED
    BY <1>4, <2>1, <2>2, <2>3, <2>4, <2>5, <2>6, <2>7, <2>8, <2>9 DEF Step
<1>5. CASE UNCHANGED vars
  BY <1>5 DEF vars
<1>6. QED
  BY <1>1, <1>2, <1>3, <1>4, <1>5 DEF Next

(* Only start_agent sets a limit, that of the thread it creates.           *)
LEMMA LimitStep ==
  ASSUME LimitInv, [Next]_vars
  PROVE  LimitInv'
<1>1. ASSUME NEW n \in 0..MaxIterations, StartAgent(n) PROVE LimitInv'
  BY <1>1 DEF StartAgent, LimitInv
<1>2. CASE UNCHANGED limit
  BY <1>2 DEF LimitInv
<1>3. UNCHANGED limit \/ \E n \in 0..MaxIterations : StartAgent(n)
  BY DEF Next, Step, StopAgent, RestartServer, Build, Head, NextSymbol,
     BeginCycle, EndCycle, WaitOver, Raise, Finally, Exit, control, vars
<1>4. QED
  BY <1>1, <1>2, <1>3

-----------------------------------------------------------------------------
(* The inductive step of the rest, an action at a time.                    *)

Rest == CurrentInv /\ SymbolInv /\ LateInv /\ OneLateCycle
          /\ TruthfulStatus

LEMMA RestStep ==
  ASSUME IInv, [Next]_vars
  PROVE  Rest'
<1> USE ThreadsAssumption, SymbolsAssumption
    DEF Rest, IInv, TypeOK, CurrentInv, SymbolInv, LateInv, OneLateCycle,
        TruthfulStatus, StoppedIsQuiet, RunningIsLive, Threads, Phases, Working, Alive,
        control, loop, Goto
<1>1. ASSUME NEW n \in 0..MaxIterations, StartAgent(n) PROVE Rest'
  <2>1. /\ started + 1 \in Threads /\ phase[started + 1] = "unborn"
        /\ phase' = [phase EXCEPT ![started + 1] = "build"]
        /\ started' = started + 1 /\ current' = started + 1
        /\ status' = "running"
        /\ UNCHANGED <<stop, next, late>>
    BY <1>1 DEF StartAgent
  <2>2. \A t \in Threads : ~Alive(t)
    BY <1>1 DEF StartAgent, NoSession
  <2>3. QED
    BY <2>1, <2>2
<1>2. CASE StopAgent
  BY <1>2 DEF StopAgent
<1>3. CASE RestartServer
  BY <1>3 DEF RestartServer
<1>4. ASSUME NEW t \in Threads, Step(t) PROVE Rest'
  <2>1. CASE Build(t)
    BY <2>1 DEF Build
  <2>2. CASE Head(t)
    <3>1. phase[t] = "head" /\ UNCHANGED <<control, status, stop, late>>
      BY <2>2 DEF Head
    <3>2. Goto(t, "symbol") \/ Goto(t, "finally")
      BY <2>2 DEF Head
    <3>3. \A u \in Threads : phase'[u] = "fetch" \/ phase'[u] = "cycle"
                              => next'[u] = next[u] /\ phase[u] = phase'[u]
      BY <2>2, <3>1 DEF Head
    <3>4. QED
      BY <3>1, <3>2, <3>3
  <2>3. CASE NextSymbol(t)
    BY <2>3 DEF NextSymbol
  <2>4. CASE BeginCycle(t)
    BY <2>4 DEF BeginCycle
  <2>5. CASE EndCycle(t)
    BY <2>5 DEF EndCycle
  <2>6. CASE WaitOver(t)
    BY <2>6 DEF WaitOver
  <2>7. CASE Raise(t)
    BY <2>7 DEF Raise
  <2>8. CASE Finally(t)
    BY <2>8 DEF Finally
  <2>9. CASE Exit(t)
    BY <2>9 DEF Exit
  <2>10. QED
    BY <1>4, <2>1, <2>2, <2>3, <2>4, <2>5, <2>6, <2>7, <2>8, <2>9 DEF Step
<1>5. CASE UNCHANGED vars
  BY <1>5 DEF vars
<1>6. QED
  BY <1>1, <1>2, <1>3, <1>4, <1>5 DEF Next

(* The inductive invariant.                                                *)
THEOREM Invariance == Spec => []IInv
<1>1. IInv /\ [Next]_vars => IInv'
  <2> SUFFICES ASSUME IInv, [Next]_vars PROVE IInv'
    OBVIOUS
  <2>1. TypeOK'
    BY TypeStep DEF IInv
  <2>2. Rest'
    BY RestStep
  <2>3. LimitInv'
    BY LimitStep DEF IInv
  <2>4. QED
    BY <2>1, <2>2, <2>3 DEF IInv, Rest
<1>2. QED
  BY InitInv, <1>1, PTL DEF Spec

(* The state keeps its shape: in particular the console's list of events   *)
(* never outgrows its limit, whichever session appends to it.              *)
THEOREM TypeCorrect == Spec => []TypeOK
<1>1. IInv => TypeOK
  BY DEF IInv
<1>2. QED
  BY Invariance, <1>1, PTL

(* No two sessions are ever alive, in any number of starts, stops and      *)
(* restarts.                                                               *)
THEOREM OneLoopAtATime == Spec => []OneLoop
<1>1. IInv => OneLoop
  BY DEF IInv, CurrentInv, OneLoop
<1>2. QED
  BY Invariance, <1>1, PTL

(* The console can believe its status: "stopped" and "error" mean that     *)
(* nothing is polled, decided or ordered, "running" that a thread nobody   *)
(* has stopped runs.                                                       *)
THEOREM StatusIsTruthful == Spec => []TruthfulStatus
<1>1. IInv => TruthfulStatus
  BY DEF IInv
<1>2. QED
  BY Invariance, <1>1, PTL

(* At most one agent cycle begins after a stop.                            *)
THEOREM AtMostOneLateCycle == Spec => []OneLateCycle
<1>1. IInv => OneLateCycle
  BY DEF IInv
<1>2. QED
  BY Invariance, <1>1, PTL

-----------------------------------------------------------------------------
(* SessionControl, step by step.                                           *)

Mode ==
  IF current = 0 \/ phase[current] \notin Working THEN "idle"
  ELSE IF stop[current] THEN "stopping" ELSE "running"
CyclesLate == IF current = 0 THEN 0 ELSE late[current]

(* What the abstract steps are, in terms of the two.                       *)
LEMMA SessionMoves ==
  ASSUME \/ Mode = "idle" /\ Mode' = "running" /\ CyclesLate' = 0
         \/ Mode = "running" /\ Mode' = "stopping" /\ CyclesLate' = CyclesLate
         \/ Mode = "stopping" /\ Mode' = Mode /\ CyclesLate = 0 /\ CyclesLate' = 1
         \/ Mode' = "idle" /\ CyclesLate' \in {CyclesLate, 0}
         \/ Mode' = Mode /\ CyclesLate' = CyclesLate
  PROVE  [Session!Next]_(Session!vars)
<1>1. CASE Mode = "idle" /\ Mode' = "running" /\ CyclesLate' = 0
  <2>1. Session!Start
    BY <1>1 DEF Session!Start, Mode, CyclesLate
  <2>2. QED
    BY <2>1 DEF Session!Next
<1>2. CASE Mode = "running" /\ Mode' = "stopping" /\ CyclesLate' = CyclesLate
  <2>1. Session!Stop
    BY <1>2 DEF Session!Stop, Mode, CyclesLate
  <2>2. QED
    BY <2>1 DEF Session!Next
<1>3. CASE Mode = "stopping" /\ Mode' = Mode /\ CyclesLate = 0 /\ CyclesLate' = 1
  <2>1. Session!LateCycle
    BY <1>3 DEF Session!LateCycle, Mode, CyclesLate
  <2>2. QED
    BY <2>1 DEF Session!Next
<1>4. CASE Mode = "idle" /\ Mode' = "idle" /\ CyclesLate' = 0
  <2>1. Session!Forget
    BY <1>4 DEF Session!Forget, Mode, CyclesLate
  <2>2. QED
    BY <2>1 DEF Session!Next
<1>5. CASE Mode # "idle" /\ Mode' = "idle" /\ CyclesLate' \in {CyclesLate, 0}
  <2>1. Session!End
    BY <1>5 DEF Session!End, Mode, CyclesLate
  <2>2. QED
    BY <2>1 DEF Session!Next
<1>6. CASE Mode' = Mode /\ CyclesLate' = CyclesLate
  BY <1>6 DEF Session!vars, Mode, CyclesLate
<1>7. QED
  BY <1>1, <1>2, <1>3, <1>4, <1>5, <1>6

LEMMA SessionStep ==
  ASSUME IInv, [Next]_vars
  PROVE  [Session!Next]_(Session!vars)
<1> USE DEF IInv, TypeOK, CurrentInv, LateInv, Threads, Phases, Working, Alive,
            control, loop, Goto, Mode, CyclesLate
<1>1. MaxThreads \in Nat /\ current \in 0..MaxThreads /\ (current # 0 => current \in Threads)
  BY ThreadsAssumption
<1>2. ASSUME NEW n \in 0..MaxIterations, StartAgent(n) PROVE [Session!Next]_(Session!vars)
  <2>1. Mode = "idle"
    BY <1>2 DEF StartAgent, NoSession
  <2>2. started + 1 \in Threads /\ phase[started + 1] = "unborn"
    BY <1>1, <1>2 DEF StartAgent
  <2>3. /\ current' = started + 1 /\ current' # 0
        /\ phase'[current'] = "build"
        /\ stop'[current'] = FALSE /\ late'[current'] = 0
    BY <1>2, <2>2 DEF StartAgent
  <2>4. Mode' = "running" /\ CyclesLate' = 0
    BY <2>3
  <2>5. QED
    BY <2>1, <2>4, SessionMoves
<1>3. CASE StopAgent
  <2>1. UNCHANGED <<current, phase, late>>
    BY <1>3 DEF StopAgent
  <2>2. current # 0 => stop'[current] = TRUE
    BY <1>1, <1>3 DEF StopAgent
  <2>3. CyclesLate' = CyclesLate
    BY <2>1
  <2>4. CASE Mode = "running"
    <3>1. Mode' = "stopping"
      BY <2>1, <2>2, <2>4
    <3>2. QED
      BY <2>3, <2>4, <3>1, SessionMoves
  <2>5. CASE Mode # "running"
    <3>1. Mode' = Mode
      BY <2>1, <2>2, <2>5
    <3>2. QED
      BY <2>3, <3>1, SessionMoves
  <2>6. QED
    BY <2>4, <2>5
<1>4. CASE RestartServer
  <2>1. Mode' = "idle" /\ CyclesLate' = 0
    BY <1>4 DEF RestartServer
  <2>2. QED
    BY <2>1, SessionMoves
<1>5. ASSUME NEW t \in Threads, Step(t) PROVE [Session!Next]_(Session!vars)
  <2>1. t = current /\ current # 0
    BY <1>1, <1>5 DEF Step, Build, Head, NextSymbol, BeginCycle, EndCycle, WaitOver, Raise,
       Finally, Exit
  <2>2. current' = current /\ stop' = stop
    BY <1>5 DEF Step, Build, Head, NextSymbol, BeginCycle, EndCycle, WaitOver, Raise,
       Finally, Exit
  <2>3. CASE BeginCycle(t)
    <3>1. phase[t] = "fetch" /\ phase'[t] = "cycle" /\ late[t] = 0
          /\ late'[t] = IF stop[t] THEN 1 ELSE 0
      BY <2>3 DEF BeginCycle
    <3>2. Mode \in {"running", "stopping"} /\ Mode' = Mode /\ CyclesLate = 0
          /\ CyclesLate' = IF Mode = "stopping" THEN 1 ELSE 0
      BY <2>1, <2>2, <3>1
    <3>3. QED
      BY <3>2, SessionMoves
  <2>4. CASE Finally(t) \/ Exit(t)
    <3>1. phase'[t] \in {"notify", "dead"} /\ late' = late
      BY <2>4 DEF Finally, Exit
    <3>2. Mode' = "idle" /\ CyclesLate' = CyclesLate
      BY <2>1, <2>2, <3>1
    <3>3. QED
      BY <3>2, SessionMoves
  <2>5. CASE \/ Build(t) \/ Head(t) \/ NextSymbol(t) \/ EndCycle(t) \/ WaitOver(t)
             \/ Raise(t)
    <3>1. phase[t] \in Working /\ phase'[t] \in Working /\ late' = late
      BY <2>5 DEF Build, Head, NextSymbol, EndCycle, WaitOver, Raise
    <3>2. Mode' = Mode /\ CyclesLate' = CyclesLate
      BY <2>1, <2>2, <3>1
    <3>3. QED
      BY <3>2, SessionMoves
  <2>6. QED
    BY <1>5, <2>3, <2>4, <2>5 DEF Step
<1>6. CASE UNCHANGED vars
  <2>1. Mode' = Mode /\ CyclesLate' = CyclesLate
    BY <1>6 DEF vars
  <2>2. QED
    BY <2>1, SessionMoves
<1>7. QED
  BY <1>2, <1>3, <1>4, <1>5, <1>6 DEF Next

(* The steps of the threads, the API calls and the restarts are steps of   *)
(* the one session SessionControl describes, or none: what                 *)
(* SessionImplemented says without its liveness.                           *)
THEOREM ImplementsSession == Spec => Session!Safety
<1>1. Init => Session!Init
  BY DEF Init, Session!Init
<1>2. IInv /\ [Next]_vars => [Session!Next]_(Session!vars)
  BY SessionStep
<1>3. QED
  BY Invariance, <1>1, <1>2, PTL DEF Spec, Session!Safety

=============================================================================
