--------------------------- MODULE OperationsProofs --------------------------
(***************************************************************************)
(* Theorems about what runs beside the agents: the stack for any           *)
(* deployment, experiments on any markets with any results, training       *)
(* sessions over any candles and gates, and the three side by side.        *)
(***************************************************************************)
EXTENDS MCOperations, SetFacts

-----------------------------------------------------------------------------
(* StackSupervisor.                                                        *)

LEMMA SpecsFacts ==
  /\ Len(Specs) \in Nat \ {0}
  /\ DOMAIN Specs = 1..Len(Specs)
  /\ \A i \in 1..Len(Specs) : Specs[i] \in Services
  /\ \A s \in Services : \E i \in 1..Len(Specs) : s = Specs[i]
<1> DEFINE Names == {"backend", "frontend", "mt5-bridge"}
           front == IF WithFrontend THEN <<"frontend">> ELSE <<>>
           bridge == IF WithBridge THEN <<"mt5-bridge">> ELSE <<>>
<1>1. front \in Seq(Names) /\ bridge \in Seq(Names) /\ <<"backend">> \in Seq(Names)
  <2>1. /\ <<"frontend">> \in Seq(Names) /\ <<"mt5-bridge">> \in Seq(Names)
        /\ <<>> \in Seq(Names) /\ <<"backend">> \in Seq(Names)
    OBVIOUS
  <2>2. QED
    BY <2>1, Zenon
<1>2. Len(<<"backend">>) = 1
  OBVIOUS
<1>3. Specs = (<<"backend">> \o front) \o bridge
  BY DEF Specs
<1> HIDE DEF front, bridge
<1>4. /\ <<"backend">> \o front \in Seq(Names)
      /\ Len(<<"backend">> \o front) = 1 + Len(front)
  BY <1>1, <1>2
<1>5. Specs \in Seq(Names) /\ Len(Specs) = 1 + Len(front) + Len(bridge)
  BY <1>1, <1>3, <1>4
<1>6. Len(front) \in Nat /\ Len(bridge) \in Nat
  BY <1>1
<1>7. Len(Specs) \in Nat \ {0} /\ DOMAIN Specs = 1..Len(Specs)
  BY <1>5, <1>6
<1>8. QED
  BY <1>7, Zenon DEF Services

(* How far the second loop of _terminate has come: behind its place no     *)
(* service is up that has not been killed.                                 *)
Settled(i) == Up(Specs[i]) => Specs[i] \in killed

StackInv ==
  /\ StackTypeOK
  /\ \A s \in Services : proc[s] # "none" => s \in Children
  /\ phase = "reap" => \A i \in 1..Len(Specs) : i > turn => Settled(i)
  /\ phase = "gone" /\ cause \in {"exit", "interrupt"} =>
       \A i \in 1..Len(Specs) : Settled(i)

LEMMA StackInitInv == StackInit => StackInv
  BY SpecsFacts DEF StackInit, StackInv, StackTypeOK

LEMMA SuperviseStep ==
  ASSUME StackInv, Supervise \/ PopenFails \/ Interrupt
  PROVE  StackInv'
<1> USE SpecsFacts DEF StackInv, StackTypeOK, Settled, Up
<1>1. CASE Popen
  <2>1. /\ phase = "start" /\ started' = started + 1 /\ started' \in 1..Len(Specs)
        /\ proc' = [proc EXCEPT ![Specs[started']] = "up"]
        /\ UNCHANGED <<phase, signalled, killed, deaf, turn, cause>>
    BY <1>1 DEF Popen
  <2>2. Specs[started'] \in Children' /\ Children \subseteq Children'
    BY <2>1 DEF Children
  <2>3. QED
    BY <2>1, <2>2
<1>2. CASE PopenFails
  BY <1>2 DEF PopenFails, Children
<1>3. CASE AllStarted
  BY <1>3 DEF AllStarted, Children
<1>4. CASE HealthDone
  BY <1>4 DEF HealthDone, Children
<1>5. CASE Poll
  <2>1. /\ phase = "watch" /\ phase' \in {"watch", "term"}
        /\ UNCHANGED <<started, proc, signalled, killed, deaf>>
    BY <1>5 DEF Poll
  <2>2. turn' \in 1..Len(Specs)
    <3>1. (turn % Len(Specs)) \in 0..(Len(Specs) - 1)
      OBVIOUS
    <3>2. QED
      BY <1>5, <3>1 DEF Poll
  <2>3. QED
    BY <2>1, <2>2 DEF Children
<1>6. CASE Interrupt
  BY <1>6 DEF Interrupt, Children
<1>7. CASE Terminate
  <2>1. Specs[turn] \in Services
    OBVIOUS
  <2>2. signalled' \subseteq Children
    BY <1>7, <2>1 DEF Terminate
  <2>3. \/ phase' = "term" /\ turn' \in 1..Len(Specs)
        \/ phase' = "reap" /\ turn' = Len(Specs)
    BY <1>7 DEF Terminate
  <2>4. UNCHANGED <<started, proc, killed, deaf, cause>>
    BY <1>7 DEF Terminate
  <2>5. QED
    BY <2>2, <2>3, <2>4 DEF Children
<1>8. CASE Reap
  <2>1. /\ killed' = IF Up(Specs[turn]) THEN killed \cup {Specs[turn]} ELSE killed
        /\ phase = "reap" /\ UNCHANGED <<started, proc, signalled, deaf, cause>>
    BY <1>8 DEF Reap
  <2>2. killed \subseteq killed' /\ killed' \subseteq Children
    BY <2>1
  <2>3. \A i \in 1..Len(Specs) : i >= turn => Settled(i)'
    <3> SUFFICES ASSUME NEW i \in 1..Len(Specs), i >= turn
                 PROVE  Specs[i] \in Services /\ (proc'[Specs[i]] = "up" => Specs[i] \in killed')
      OBVIOUS
    <3>1. CASE i = turn
      BY <2>1, <3>1
    <3>2. CASE i > turn
      BY <2>1, <2>2, <3>2
    <3>3. QED
      BY <3>1, <3>2
  <2>4. \/ phase' = "reap" /\ turn' = turn - 1 /\ turn' \in 1..Len(Specs)
        \/ phase' = "gone" /\ turn = 1 /\ turn' = turn
    BY <1>8 DEF Reap
  <2>5. QED
    BY <2>1, <2>2, <2>3, <2>4 DEF Children
<1>9. QED
  BY <1>1, <1>2, <1>3, <1>4, <1>5, <1>6, <1>7, <1>8 DEF Supervise

LEMMA ServiceStep ==
  ASSUME StackInv, NEW s \in Services, Exits(s) \/ GoesDeaf(s) \/ Dies(s)
  PROVE  StackInv'
<1> USE SpecsFacts DEF StackInv, StackTypeOK, Settled, Up, Children
<1>1. CASE Exits(s)
  BY <1>1 DEF Exits
<1>2. CASE GoesDeaf(s)
  BY <1>2 DEF GoesDeaf
<1>3. CASE Dies(s)
  BY <1>3 DEF Dies
<1>4. QED
  BY <1>1, <1>2, <1>3

LEMMA StackStep == StackInv /\ [StackNext]_stackVars => StackInv'
<1>1. StackInv /\ UNCHANGED stackVars => StackInv'
  BY DEF stackVars, StackInv, StackTypeOK, Settled, Up, Children
<1>2. QED
  BY <1>1, SuperviseStep, ServiceStep DEF StackNext

(* Every service that is up is a child, and a service behind the second    *)
(* loop of _terminate has been killed or was down when the loop saw it.    *)
THEOREM StackInvariance == StackSpec => []StackInv
BY StackInitInv, StackStep, PTL DEF StackSpec

(* When the supervisor has ended on an exit or on Ctrl+C, every service    *)
(* that is still up has been killed, whichever services hang, ignore       *)
(* SIGTERM, or exit while the others are taken down.                       *)
THEOREM NoChildForgotten == StackSpec => []NoneForgotten
<1>1. StackInv => NoneForgotten
  BY SpecsFacts DEF StackInv, Settled, NoneForgotten
<1>2. QED
  BY StackInvariance, <1>1, PTL

-----------------------------------------------------------------------------
(* Experiment.                                                             *)

Result == [wins : Nat, losses : Nat, open : Nat, dup : Nat, other : Nat]
Memory == [runs : Nat, by : [Markets -> Result]]
Starting == {"run_base", "rerun_base"}
Halfway == {"report_base", "configure", "run_candidate", "rerun_candidate"}
Configured == {"run_candidate", "rerun_candidate", "report_candidate", "compare"}
Based == {"configure"} \cup Configured

ExperimentShape ==
  /\ at \in {"idle"} \cup Starting \cup Halfway \cup Based
  /\ begun \in 0..MaxRuns /\ kills \in 0..MaxKills /\ errors \in 0..MaxErrors
  /\ rows \in [Sides -> Memory] /\ market \in [Sides -> Nat]
  /\ reports \in [Sides -> Memory \cup {Nothing}]
  /\ at # "idle" => base \in BaseConfigs

(* How often the two sides have run, and how far their markets have gone.  *)
Runs(side) == rows[side].runs
B == Runs("base")
C == Runs("candidate")
BaseMarket == market["base"]
OtherMarket == market["candidate"]

(* What the base is ahead by is halfway or killed, what the candidate is   *)
(* ahead by has raised; and no run but those that raised was not begun.    *)
CountInv ==
  /\ B <= C + kills + errors + (IF at \in Halfway THEN 1 ELSE 0)
  /\ C + (IF at \in Halfway THEN 1 ELSE 0) <= B + errors
  /\ B + (IF at \in Starting THEN 1 ELSE 0) <= begun + errors
  /\ C + (IF at \in Starting \cup Halfway THEN 1 ELSE 0) <= begun + errors
  /\ BaseMarket = B
  /\ OtherMarket <= B + 1 + errors
  /\ at = "run_candidate" => OtherMarket = B
  /\ at = "rerun_candidate" => OtherMarket = B + 1 /\ errors >= 1
  /\ at \in {"report_candidate", "compare"} =>
       B + 1 <= OtherMarket /\ OtherMarket <= B + 1 + errors

(* What the files tell of the two memories.                                *)
FilesInv ==
  /\ at \in Based => reports["base"] = rows["base"]
  /\ at = "compare" => reports["candidate"] = rows["candidate"]
  /\ \A s \in Sides : reports[s] # Nothing => reports[s].runs <= rows[s].runs
  /\ at \in Configured => config = Candidate(base, reports["base"])
  /\ comparison # Nothing =>
       /\ comparison.base \in Memory /\ comparison.candidate \in Memory
       /\ comparison.base.runs <= comparison.candidate.runs + kills + errors
       /\ comparison.candidate.runs <= comparison.base.runs + errors

ExperimentInv == ExperimentShape /\ CountInv /\ FilesInv

LEMMA GrownIsResult ==
  ASSUME NEW old \in Result, NEW y \in Yields, NEW cooldown
  PROVE  Grown(old, y, cooldown) \in Result
<1>1. /\ y.wins \in Nat /\ y.losses \in Nat /\ y.open \in Nat /\ y.dup \in Nat /\ y.other \in Nat
  BY YieldAssumption
<1>2. /\ old.wins \in Nat /\ old.losses \in Nat /\ old.dup \in Nat /\ old.other \in Nat
  BY DEF Result
<1>3. old.dup + (IF cooldown = "until_closed" THEN 0 ELSE y.dup) \in Nat
  BY <1>1, <1>2
<1>4. QED
  BY <1>1, <1>2, <1>3 DEF Grown, Result

LEMMA MonitoredOnce ==
  ASSUME rows \in [Sides -> Memory], NEW side \in Sides, NEW traded, NEW cooldown,
         Monitored(side, traded, cooldown)
  PROVE  /\ rows' \in [Sides -> Memory]
         /\ rows'[side].runs = rows[side].runs + 1
         /\ \A s \in Sides \ {side} : rows'[s] = rows[s]
         /\ market' = [market EXCEPT ![side] = market[side] + 1]
<1>0. market' = [market EXCEPT ![side] = market[side] + 1]
  BY DEF Monitored
<1>1. PICK gain \in [traded -> Yields] :
        rows' = [rows EXCEPT ![side] =
          [runs |-> rows[side].runs + 1,
           by |-> [m \in Markets |-> IF m \in traded THEN Grown(rows[side].by[m], gain[m], cooldown)
                                                     ELSE rows[side].by[m]]]]
  BY DEF Monitored
<1> DEFINE by == [m \in Markets |-> IF m \in traded THEN Grown(rows[side].by[m], gain[m], cooldown)
                                                     ELSE rows[side].by[m]]
<1>2. rows[side].runs \in Nat /\ \A m \in Markets : rows[side].by[m] \in Result
  BY DEF Memory
<1>3. by \in [Markets -> Result]
  BY <1>2, GrownIsResult
<1> DEFINE new == [runs |-> rows[side].runs + 1, by |-> by]
<1>4. rows' = [rows EXCEPT ![side] = new]
  BY <1>1
<1> HIDE DEF by
<1>5. new \in Memory /\ new.runs = rows[side].runs + 1
  BY <1>2, <1>3 DEF Memory
<1> HIDE DEF new
<1>6. QED
  BY <1>0, <1>4, <1>5

LEMMA ExperimentNumbers ==
  ASSUME ExperimentShape
  PROVE  /\ B \in Nat /\ C \in Nat /\ begun \in Nat /\ kills \in Nat
         /\ BaseMarket \in Nat /\ OtherMarket \in Nat /\ errors \in Nat
<1>1. "base" \in Sides /\ "candidate" \in Sides
  BY DEF Sides
<1>2. \A s \in Sides : rows[s].runs \in Nat /\ market[s] \in Nat
  BY DEF ExperimentShape, Memory
<1>3. /\ MaxRuns \in Nat /\ MaxKills \in Nat /\ MaxErrors \in Nat
      /\ begun \in 0..MaxRuns /\ kills \in 0..MaxKills /\ errors \in 0..MaxErrors
  BY ExperimentBoundsAssumption DEF ExperimentShape
<1>4. begun \in Nat /\ kills \in Nat /\ errors \in Nat
  BY <1>3
<1>5. B \in Nat /\ C \in Nat /\ BaseMarket \in Nat /\ OtherMarket \in Nat
  BY <1>1, <1>2 DEF Runs, B, C, BaseMarket, OtherMarket
<1>6. QED
  BY <1>4, <1>5

LEMMA MarketMoves ==
  ASSUME market \in [Sides -> Nat], NEW side \in Sides, NEW n \in Nat,
         market' = [market EXCEPT ![side] = n]
  PROVE  /\ market' \in [Sides -> Nat] /\ market'[side] = n
         /\ \A s \in Sides : s # side => market'[s] = market[s]
OBVIOUS

(* The steps, as far as the counts are concerned.                          *)
LEMMA CountStep ==
  ASSUME ExperimentShape, ExperimentShape', CountInv,
         \/ /\ at = "idle" /\ at' = "run_base" /\ begun' = begun + 1
            /\ UNCHANGED <<B, C, BaseMarket, OtherMarket, kills, errors>>
         \/ /\ at \in Starting /\ B' = B + 1 /\ BaseMarket' = BaseMarket + 1
            /\ \/ at' = "report_base" /\ errors' = errors
               \/ at' = "rerun_base" /\ errors' = errors + 1
            /\ UNCHANGED <<C, OtherMarket, begun, kills>>
         \/ /\ at = "report_base" /\ at' = "configure"
            /\ UNCHANGED <<B, C, BaseMarket, OtherMarket, begun, kills, errors>>
         \/ /\ at = "configure" /\ at' = "run_candidate" /\ OtherMarket' = BaseMarket
            /\ UNCHANGED <<B, C, BaseMarket, begun, kills, errors>>
         \/ /\ C' = C + 1 /\ OtherMarket' = OtherMarket + 1
            /\ \/ /\ at \in {"run_candidate", "rerun_candidate"}
                  /\ at' = "report_candidate" /\ errors' = errors
               \/ at = "run_candidate" /\ at' = "rerun_candidate" /\ errors' = errors + 1
            /\ UNCHANGED <<B, BaseMarket, begun, kills>>
         \/ /\ at = "report_candidate" /\ at' = "compare"
            /\ UNCHANGED <<B, C, BaseMarket, OtherMarket, begun, kills, errors>>
         \/ /\ at = "compare" /\ at' = "idle"
            /\ UNCHANGED <<B, C, BaseMarket, OtherMarket, begun, kills, errors>>
         \/ /\ at' = "idle" /\ kills' = kills + 1
            /\ UNCHANGED <<B, C, BaseMarket, OtherMarket, begun, errors>>
  PROVE  CountInv'
<1>1. /\ B \in Nat /\ C \in Nat /\ begun \in Nat /\ kills \in Nat
      /\ BaseMarket \in Nat /\ OtherMarket \in Nat /\ errors \in Nat
  BY ExperimentNumbers
<1>2. QED
  BY <1>1 DEF CountInv, Halfway, Starting

(* What a start of a monitor leaves, when it ends and when it raises.      *)
LEMMA RunStep ==
  ASSUME ExperimentInv, NEW side \in Sides, NEW traded, NEW cooldown,
         Monitored(side, traded, cooldown),
         \/ /\ side = "base" /\ at \in Starting
            /\ \/ at' = "report_base" /\ errors' = errors
               \/ at' = "rerun_base" /\ errors' = errors + 1 /\ errors < MaxErrors
         \/ /\ side = "candidate"
            /\ \/ /\ at \in {"run_candidate", "rerun_candidate"}
                  /\ at' = "report_candidate" /\ errors' = errors
               \/ /\ at = "run_candidate" /\ at' = "rerun_candidate"
                  /\ errors' = errors + 1 /\ errors < MaxErrors,
         UNCHANGED <<base, config, reports, comparison, begun, kills>>
  PROVE  ExperimentInv'
<1>1. /\ "base" \in Sides /\ "candidate" \in Sides /\ \A s \in Sides : s = "base" \/ s = "candidate"
      /\ market \in [Sides -> Nat] /\ rows \in [Sides -> Memory]
      /\ reports \in [Sides -> Memory \cup {Nothing}]
      /\ \A s \in Sides : rows[s].runs \in Nat /\ market[s] \in Nat
      /\ ExperimentShape /\ CountInv /\ FilesInv
  BY DEF ExperimentInv, ExperimentShape, Memory, Sides
<1>2. errors \in Nat /\ kills \in Nat /\ B \in Nat /\ C \in Nat
  BY <1>1, ExperimentNumbers
<1>3. /\ rows' \in [Sides -> Memory] /\ rows'[side].runs = rows[side].runs + 1
      /\ \A s \in Sides \ {side} : rows'[s] = rows[s]
      /\ market' = [market EXCEPT ![side] = market[side] + 1]
  BY <1>1, MonitoredOnce
<1>4. /\ market' \in [Sides -> Nat] /\ market'[side] = market[side] + 1
      /\ \A s \in Sides : s # side => market'[s] = market[s]
  <2>1. market[side] + 1 \in Nat
    BY <1>1
  <2>2. QED
    BY <1>1, <1>3, <2>1, MarketMoves
<1>5. errors' \in 0..MaxErrors
  <2>1. errors \in 0..MaxErrors /\ MaxErrors \in Nat
    BY <1>1, ExperimentBoundsAssumption DEF ExperimentShape
  <2>2. errors < MaxErrors => errors + 1 \in 0..MaxErrors
    BY <2>1
  <2>3. QED
    BY <2>1, <2>2
<1>6. ExperimentShape'
  <2>1. at' \in Starting \cup Halfway \cup Based /\ at # "idle"
    BY DEF Starting, Halfway, Based, Configured
  <2>2. QED
    BY <1>1, <1>3, <1>4, <1>5, <2>1 DEF ExperimentShape
<1>7. CountInv'
  <2>1. CASE side = "base"
    <3>1. B' = B + 1 /\ BaseMarket' = BaseMarket + 1 /\ UNCHANGED <<C, OtherMarket>>
      BY <1>1, <1>3, <1>4, <2>1 DEF Runs, B, C, BaseMarket, OtherMarket
    <3>2. QED
      BY <1>1, <1>6, <2>1, <3>1, CountStep
  <2>2. CASE side = "candidate"
    <3>1. C' = C + 1 /\ OtherMarket' = OtherMarket + 1 /\ UNCHANGED <<B, BaseMarket>>
      BY <1>1, <1>3, <1>4, <2>2 DEF Runs, B, C, BaseMarket, OtherMarket
    <3>2. QED
      BY <1>1, <1>6, <2>2, <3>1, CountStep
  <2>3. QED
    BY <1>1, <2>1, <2>2
<1>8. \A s \in Sides : reports[s] # Nothing => reports[s].runs <= rows'[s].runs
  <2> SUFFICES ASSUME NEW s \in Sides, reports[s] # Nothing
               PROVE  reports[s].runs <= rows'[s].runs
    OBVIOUS
  <2>1. reports[s].runs \in Nat /\ rows[s].runs \in Nat /\ reports[s].runs <= rows[s].runs
    BY <1>1 DEF FilesInv, Memory
  <2>2. rows'[s].runs = rows[s].runs \/ rows'[s].runs = rows[s].runs + 1
    BY <1>3
  <2>3. QED
    BY <2>1, <2>2
<1>9. /\ at' \in Based => at \in Based /\ side = "candidate"
      /\ at' \in Configured => at \in Configured
      /\ at' # "compare"
  BY DEF Starting, Based, Configured
<1>10. comparison # Nothing =>
         /\ comparison.base.runs <= comparison.candidate.runs + kills + errors'
         /\ comparison.candidate.runs <= comparison.base.runs + errors'
  <2> SUFFICES ASSUME comparison # Nothing
               PROVE  /\ comparison.base.runs <= comparison.candidate.runs + kills + errors'
                      /\ comparison.candidate.runs <= comparison.base.runs + errors'
    OBVIOUS
  <2> DEFINE b == comparison.base.runs
             c == comparison.candidate.runs
  <2>1. b \in Nat /\ c \in Nat /\ b <= c + kills + errors /\ c <= b + errors
    BY <1>1 DEF FilesInv, Memory
  <2>2. errors' = errors \/ errors' = errors + 1
    OBVIOUS
  <2> HIDE DEF b, c
  <2>3. b <= c + kills + errors' /\ c <= b + errors'
    BY <1>2, <2>1, <2>2
  <2>4. QED
    BY <2>3 DEF b, c
<1>11. FilesInv'
  BY <1>1, <1>3, <1>8, <1>9, <1>10 DEF FilesInv
<1>12. QED
  BY <1>6, <1>7, <1>11 DEF ExperimentInv

LEMMA ExperimentStep ==
  ASSUME ExperimentInv, ExperimentNext
  PROVE  ExperimentInv'
<1>1. /\ "base" \in Sides /\ "candidate" \in Sides /\ \A s \in Sides : s = "base" \/ s = "candidate"
      /\ market \in [Sides -> Nat] /\ rows \in [Sides -> Memory]
      /\ reports \in [Sides -> Memory \cup {Nothing}]
      /\ \A s \in Sides : rows[s].runs \in Nat /\ market[s] \in Nat
      /\ ExperimentShape /\ CountInv /\ FilesInv
  BY DEF ExperimentInv, ExperimentShape, Memory, Sides
<1>0. B \in Nat /\ C \in Nat /\ begun \in Nat /\ kills \in Nat /\ errors \in Nat
  BY <1>1, ExperimentNumbers
<1> DEFINE Counted == <<B, C, BaseMarket, OtherMarket>>
<1>2. CASE Begin
  <2>1. /\ at = "idle" /\ begun' = begun + 1 /\ begun < MaxRuns /\ base' \in BaseConfigs
        /\ at' = "run_base" /\ UNCHANGED <<config, rows, reports, comparison, market, kills, errors>>
    BY <1>2 DEF Begin
  <2>2. begun' \in 0..MaxRuns
    <3>1. MaxRuns \in Nat /\ begun \in Nat /\ begun < MaxRuns
      BY <1>0, <2>1, ExperimentBoundsAssumption
    <3>2. begun + 1 \in 0..MaxRuns
      BY <3>1
    <3>3. QED
      BY <2>1, <3>2
  <2>3. ExperimentShape'
    BY <1>1, <2>1, <2>2 DEF ExperimentShape, Starting
  <2>4. UNCHANGED Counted
    BY <2>1 DEF Runs, B, C, BaseMarket, OtherMarket
  <2>5. CountInv'
    BY <1>1, <2>1, <2>3, <2>4, CountStep
  <2>6. FilesInv'
    BY <1>1, <2>1 DEF FilesInv, Starting, Based, Configured
  <2>7. QED
    BY <2>3, <2>5, <2>6 DEF ExperimentInv
<1>3. CASE RunBase \/ BaseRaises
  <2>1. MonitorBase /\ at \in Starting /\ UNCHANGED <<base, config, reports, comparison, begun, kills>>
        /\ \/ at' = "report_base" /\ errors' = errors
           \/ at' = "rerun_base" /\ errors' = errors + 1 /\ errors < MaxErrors
    BY <1>3 DEF RunBase, BaseRaises, Starting
  <2>2. QED
    BY <1>1, <2>1, RunStep DEF MonitorBase
<1>4. ASSUME NEW side \in Sides, Report(side),
             \/ at = "report_base" /\ at' = "configure" /\ side = "base"
             \/ at = "report_candidate" /\ at' = "compare" /\ side = "candidate",
             UNCHANGED <<base, config, rows, comparison, market, begun, kills, errors>>
      PROVE  ExperimentInv'
  <2>1. reports' = [reports EXCEPT ![side] = rows[side]]
    BY <1>4 DEF Report
  <2>2. reports' \in [Sides -> Memory \cup {Nothing}]
    BY <1>1, <2>1
  <2>3. ExperimentShape'
    BY <1>1, <1>4, <2>2 DEF ExperimentShape, Halfway, Based, Configured
  <2>4. UNCHANGED Counted
    BY <1>4 DEF Runs, B, C, BaseMarket, OtherMarket
  <2>5. CountInv'
    BY <1>1, <1>4, <2>3, <2>4, CountStep
  <2>6. reports'[side] = rows[side] /\ \A s \in Sides : s # side => reports'[s] = reports[s]
    BY <1>1, <2>1
  <2>7. \A s \in Sides : reports'[s] # Nothing => reports'[s].runs <= rows[s].runs
    BY <1>1, <2>6 DEF FilesInv
  <2>8. FilesInv'
    BY <1>1, <1>4, <2>6, <2>7 DEF FilesInv, Starting, Based, Configured
  <2>9. QED
    BY <2>3, <2>5, <2>8 DEF ExperimentInv
<1>5. CASE ReportBase
  BY <1>1, <1>4, <1>5 DEF ReportBase
<1>6. CASE Configure
  <2>1. /\ at = "configure" /\ at' = "run_candidate"
        /\ config' = Candidate(base, reports["base"])
        /\ market' = [market EXCEPT !["candidate"] = market["base"]]
        /\ UNCHANGED <<base, rows, reports, comparison, begun, kills, errors>>
    BY <1>6 DEF Configure
  <2>2. market' \in [Sides -> Nat] /\ market'["base"] = market["base"]
        /\ market'["candidate"] = market["base"]
    BY <1>1, <2>1
  <2>3. ExperimentShape'
    BY <1>1, <2>1, <2>2 DEF ExperimentShape, Halfway, Based, Configured
  <2>4. OtherMarket' = BaseMarket /\ UNCHANGED <<B, C, BaseMarket>>
    BY <2>1, <2>2 DEF Runs, B, C, BaseMarket, OtherMarket
  <2>5. CountInv'
    BY <1>1, <2>1, <2>3, <2>4, CountStep
  <2>6. FilesInv'
    BY <1>1, <2>1 DEF FilesInv, Starting, Based, Configured
  <2>7. QED
    BY <2>3, <2>5, <2>6 DEF ExperimentInv
<1>7. CASE RunCandidate \/ CandidateRaises
  <2>1. MonitorCandidate /\ UNCHANGED <<base, config, reports, comparison, begun, kills>>
        /\ \/ /\ at \in {"run_candidate", "rerun_candidate"}
              /\ at' = "report_candidate" /\ errors' = errors
           \/ /\ at = "run_candidate" /\ at' = "rerun_candidate"
              /\ errors' = errors + 1 /\ errors < MaxErrors
    BY <1>7 DEF RunCandidate, CandidateRaises
  <2>2. QED
    BY <1>1, <2>1, RunStep DEF MonitorCandidate
<1>8. CASE ReportCandidate
  BY <1>1, <1>4, <1>8 DEF ReportCandidate
<1>9. CASE Compare
  <2> DEFINE verdict == Verdict(reports["base"], reports["candidate"])
  <2>1. /\ at = "compare" /\ at' = "idle"
        /\ comparison' = [base |-> reports["base"], candidate |-> reports["candidate"],
                          verdict |-> verdict]
        /\ UNCHANGED <<base, config, rows, reports, market, begun, kills, errors>>
    BY <1>9 DEF Compare
  <2> HIDE DEF verdict
  <2>2. comparison'.base = rows["base"] /\ comparison'.candidate = rows["candidate"]
    BY <1>1, <2>1 DEF FilesInv, Based, Configured
  <2>3. ExperimentShape'
    BY <1>1, <2>1 DEF ExperimentShape
  <2>4. UNCHANGED Counted
    BY <2>1 DEF Runs, B, C, BaseMarket, OtherMarket
  <2>5. CountInv'
    BY <1>1, <2>1, <2>3, <2>4, CountStep
  <2>6. /\ rows["base"].runs <= rows["candidate"].runs + kills + errors
        /\ rows["candidate"].runs <= rows["base"].runs + errors
    BY <1>0, <1>1, <2>1 DEF CountInv, Runs, B, C, Halfway
  <2>7. FilesInv'
    BY <1>1, <2>1, <2>2, <2>6 DEF FilesInv, Starting, Based, Configured
  <2>8. QED
    BY <2>3, <2>5, <2>7 DEF ExperimentInv
<1>10. CASE Kill
  <2>1. /\ kills < MaxKills /\ kills' = kills + 1 /\ at' = "idle"
        /\ UNCHANGED <<base, config, rows, reports, comparison, market, begun, errors>>
    BY <1>10 DEF Kill
  <2>2. kills' \in 0..MaxKills /\ kills' # 0
    BY <1>0, <2>1, ExperimentBoundsAssumption
  <2>3. ExperimentShape'
    BY <1>1, <2>1, <2>2 DEF ExperimentShape, Starting
  <2>4. UNCHANGED Counted
    BY <2>1 DEF Runs, B, C, BaseMarket, OtherMarket
  <2>5. CountInv'
    BY <1>1, <2>1, <2>2, <2>3, <2>4, CountStep
  <2>6. comparison # Nothing =>
          comparison.base.runs <= comparison.candidate.runs + kills' + errors
    <3> SUFFICES ASSUME comparison # Nothing
                 PROVE  comparison.base.runs <= comparison.candidate.runs + kills' + errors
      OBVIOUS
    <3>1. /\ comparison.base.runs \in Nat /\ comparison.candidate.runs \in Nat
          /\ comparison.base.runs <= comparison.candidate.runs + kills + errors
      BY <1>1 DEF FilesInv, Memory
    <3>2. QED
      BY <1>0, <2>1, <3>1
  <2>7. FilesInv'
    BY <1>1, <2>1, <2>6 DEF FilesInv, Based, Configured
  <2>8. QED
    BY <2>3, <2>5, <2>7 DEF ExperimentInv
<1>11. QED
  BY <1>2, <1>3, <1>5, <1>6, <1>7, <1>8, <1>9, <1>10 DEF ExperimentNext

LEMMA ExperimentInitInv == ExperimentInit => ExperimentInv
<1> SUFFICES ASSUME ExperimentInit PROVE ExperimentInv
  OBVIOUS
<1>1. /\ at = "idle" /\ comparison = Nothing /\ begun = 0 /\ kills = 0 /\ errors = 0
      /\ rows = [s \in Sides |-> [runs |-> 0, by |-> [m \in Markets |-> NoYield]]]
      /\ reports = [s \in Sides |-> Nothing] /\ market = [s \in Sides |-> 0]
  BY DEF ExperimentInit
<1>2. [runs |-> 0, by |-> [m \in Markets |-> NoYield]] \in Memory
  BY DEF Memory, Result, NoYield
<1>3. "base" \in Sides /\ "candidate" \in Sides
  BY DEF Sides
<1>4. ExperimentShape
  BY <1>1, <1>2, ExperimentBoundsAssumption DEF ExperimentShape
<1>5. B = 0 /\ C = 0 /\ BaseMarket = 0 /\ OtherMarket = 0
  BY <1>1, <1>3 DEF Runs, B, C, BaseMarket, OtherMarket
<1>6. CountInv /\ FilesInv
  BY <1>1, <1>5 DEF CountInv, FilesInv, Starting, Halfway, Based, Configured
<1>7. QED
  BY <1>4, <1>6 DEF ExperimentInv

LEMMA ExperimentKeeps == ExperimentInv /\ [ExperimentNext]_experimentVars => ExperimentInv'
<1>1. ExperimentInv /\ UNCHANGED experimentVars => ExperimentInv'
  BY DEF experimentVars, ExperimentInv, ExperimentShape, CountInv, FilesInv,
     Runs, B, C, BaseMarket, OtherMarket
<1>2. QED
  BY <1>1, ExperimentStep

(* Whatever is run, killed, started twice and begun again, no report tells *)
(* of runs its memory does not hold, and the two sides have run equally    *)
(* often but for what was killed or started twice.                         *)
THEOREM ExperimentInvariance == ExperimentSpec => []ExperimentInv
BY ExperimentInitInv, ExperimentKeeps, PTL DEF ExperimentSpec

(* The sums a report is compared by are numbers.                           *)
LEMMA ReportsAreNumbers ==
  ASSUME NEW r \in Memory
  PROVE  ClosedCount(r) \in Int /\ RSum(r) \in Int /\ Rejected(r) \in Int
<1>1. /\ 0 \in Int /\ \A a, b \in Int : a + b \in Int
      /\ IsFiniteSet(Markets) /\ \A m \in Markets : r.by[m] \in Result
  BY MarketAssumption DEF Memory
<1>2. \A y \in Result : y.wins \in Int /\ y.losses \in Int /\ y.dup \in Int /\ y.other \in Int
  BY DEF Result
<1>3. \A f \in [Markets -> Int] : SumFunction(f) \in Int
  BY <1>1, SumStays
<1>4. [m \in Markets |-> Closed(r.by[m])] \in [Markets -> Int]
  BY <1>1, <1>2 DEF Closed
<1>5. [m \in Markets |-> SymbolR(r.by[m])] \in [Markets -> Int]
  BY <1>1, <1>2 DEF SymbolR
<1>6. [m \in Markets |-> r.by[m].dup] \in [Markets -> Int]
  BY <1>1, <1>2
<1>7. [m \in Markets |-> r.by[m].other] \in [Markets -> Int]
  BY <1>1, <1>2
<1>8. ClosedCount(r) \in Int
  BY <1>3, <1>4 DEF ClosedCount, Total
<1>9. RSum(r) \in Int
  BY <1>3, <1>5 DEF RSum, Total
<1>10. Rejected(r) \in Int
  BY <1>3, <1>6, <1>7 DEF Rejected, Duplicates, Total
<1>11. QED
  BY <1>8, <1>9, <1>10

(* Of two reports at most one is better than the other.                    *)
LEMMA OneIsBetter ==
  ASSUME NEW b \in Memory, NEW c \in Memory, Better(b, c)
  PROVE  ~Better(c, b)
<1>1. /\ ClosedCount(b) \in Int /\ RSum(b) \in Int /\ Rejected(b) \in Int
      /\ ClosedCount(c) \in Int /\ RSum(c) \in Int /\ Rejected(c) \in Int
  BY ReportsAreNumbers
<1>2. \A x, y : Better(x, y) =>
        \/ RSum(y) > RSum(x) /\ Rejected(y) <= Rejected(x)
        \/ Rejected(y) < Rejected(x) /\ NoWorseAverage(x, y)
  BY DEF Better, Verdict
<1>3. \A x, y : Better(x, y) => ~NeedsMoreTrades(x, y)
  BY DEF Better, Verdict
<1> SUFFICES ASSUME Better(c, b) PROVE FALSE
  OBVIOUS
<1>4. ClosedCount(c) >= ClosedCount(b) /\ ClosedCount(b) >= ClosedCount(c)
  BY <1>1, <1>3 DEF NeedsMoreTrades, Most
<1>5. QED
  BY <1>1, <1>2, <1>4

(* A trial is as fair as the code makes it: the candidate can trade, has   *)
(* run as often as its base but for the experiments that were killed and   *)
(* the monitors that were started twice, on the market its base left; and  *)
(* of two results at most one is better than the other.                    *)
THEOREM TrialsAreFair == ExperimentSpec => []FairTrial
<1>1. ExperimentInv => CandidateTrades
  <2> SUFFICES ASSUME ExperimentInv, at \in Configured
               PROVE  /\ config.mode = "paper" /\ config.confidence <= Most(95, base.confidence)
                      /\ config.symbols # {} /\ config.symbols \cap config.disabled = {}
                      /\ base.disabled \cap config.symbols # {} =>
                           Markets \ base.disabled \subseteq Losers(reports["base"])
    BY DEF CandidateTrades, Configured
  <2> DEFINE told == reports["base"]
             out == base.disabled \cup Losers(told)
             all == Markets \subseteq out
  <2>1. config = Candidate(base, told) /\ base.confidence \in Int
    BY BaseAssumption DEF ExperimentInv, FilesInv, ExperimentShape, Configured
  <2> HIDE DEF told
  <2>2. /\ config.mode = "paper"
        /\ config.symbols = IF all THEN Markets ELSE Markets \ out
        /\ config.disabled = IF all THEN {} ELSE out
        /\ config.confidence = IF LosesOverall(told)
                                 THEN IF base.confidence + 5 < 95 THEN base.confidence + 5 ELSE 95
                                 ELSE base.confidence
    BY <2>1 DEF Candidate
  <2>3. config.confidence <= Most(95, base.confidence)
    BY <2>1, <2>2 DEF Most
  <2>4. CASE all
    BY <2>2, <2>3, <2>4, MarketAssumption DEF told
  <2>5. CASE ~all
    BY <2>2, <2>3, <2>5
  <2>6. QED
    BY <2>4, <2>5
<1>2. ExperimentInv => EqualFooting
  BY DEF EqualFooting, ExperimentInv, CountInv, FilesInv, BaseMarket, OtherMarket
<1>3. ExperimentInv => VerdictOneWay
  BY OneIsBetter DEF ExperimentInv, FilesInv, VerdictOneWay
<1>4. ExperimentInv => FairTrial
  BY <1>1, <1>2, <1>3 DEF FairTrial
<1>5. QED
  BY <1>4, ExperimentInvariance, PTL

-----------------------------------------------------------------------------
(* TrainingRun.                                                            *)

Position == [id : Nat, side : {"buy", "sell"}, new : BOOLEAN, entry : Int]
Trade    == [id : Nat, r : {-1, 2}, sameCandle : BOOLEAN]
Replaying == {"cycle", "record", "hits", "gate"}

(* Every position ever opened is the one that is open or has closed once.  *)
BookOk(cl, op, n) ==
  /\ n \in Nat /\ op \subseteq Position /\ cl \subseteq Trade /\ IsFiniteSet(cl)
  /\ \A p \in op : p.id \in 1..n
  /\ \A p, q \in op : p = q
  /\ \A c \in cl : c.id \in 1..n
  /\ \A p \in op, c \in cl : p.id # c.id
  /\ n = Cardinality(cl) + Cardinality(op)

TrainingShape ==
  /\ doing \in {"idle", "think", "tool"} \cup Replaying
  /\ step \in 0..MaxSteps /\ candle \in 0..TapeLength
  /\ tool \in Tools \cup {"none"}
  /\ cuts \in Nat /\ executed \in Nat
  /\ doing # "idle" => goal \in Stages
  /\ doing \in Replaying => stage \in Stages

(* The memory tells of every opening, but the one of a record that is not  *)
(* written yet or that a cut has lost, one for every cut at most.          *)
RowInv ==
  /\ row.executed \in {0, 1}
  /\ outcomes \subseteq closed /\ row.closes \subseteq closed
  /\ doing # "record" => row = NoRow
  /\ doing = "record" => candle < TapeLength
  /\ executed + row.executed <= opened
  /\ opened <= executed + row.executed + cuts

EvidenceInv ==
  /\ doing = "gate" => report = ReportOf(closed)
  /\ report # NoFile =>
       report.executed \in Nat /\ report.closed \in Nat /\ report.open \in Nat
  /\ ReportBalances
  /\ gate # NoFile => gate.stage \in Stages /\ gate.cuts \in Nat /\ gate.cuts <= cuts
  /\ GateSeesWholeRun

TrainingInv == TrainingShape /\ BookOk(closed, open, opened) /\ RowInv /\ EvidenceInv

-----------------------------------------------------------------------------

LEMMA WholeMultiples ==
  ASSUME NEW d \in Nat \ {0}
  PROVE  (-d) \div d = -1 /\ (2 * d) \div d = 2
OBVIOUS

LEMMA ClosingIsTrade ==
  ASSUME NEW p \in Position, NEW exit
  PROVE  Closing(p, exit) \in Trade /\ Closing(p, exit).id = p.id
<1> DEFINE price == IF exit = "stop_loss" THEN Stop(p) ELSE Target(p)
           pnl == IF p.side = "buy" THEN price - p.entry ELSE p.entry - price
<1>1. p.entry \in Int /\ p.side \in {"buy", "sell"} /\ p.id \in Nat /\ p.new \in BOOLEAN
      /\ StopDistance \in Nat \ {0}
  BY PriceAssumption DEF Position
<1>2. pnl = -StopDistance \/ pnl = 2 * StopDistance
  BY <1>1 DEF Stop, Target
<1>3. Closing(p, exit) = [id |-> p.id, r |-> pnl \div StopDistance, sameCandle |-> p.new]
  BY DEF Closing
<1> HIDE DEF pnl
<1>4. pnl \div StopDistance \in {-1, 2}
  BY <1>1, <1>2, WholeMultiples
<1> DEFINE quotient == pnl \div StopDistance
<1>5. Closing(p, exit) = [id |-> p.id, r |-> quotient, sameCandle |-> p.new]
  BY <1>3
<1> HIDE DEF quotient
<1>6. QED
  BY <1>1, <1>4, <1>5 DEF Trade, quotient

LEMMA OneOrNone ==
  ASSUME NEW S, \A x, y \in S : x = y
  PROVE  /\ IsFiniteSet(S)
         /\ S = {} => Cardinality(S) = 0
         /\ S # {} => Cardinality(S) = 1
<1>1. CASE S = {}
  BY <1>1, FS_EmptySet
<1>2. CASE S # {}
  <2>1. PICK x : x \in S
    BY <1>2
  <2>2. S = {x}
    BY <2>1
  <2>3. QED
    BY <1>2, <2>2, FS_Singleton
<1>3. QED
  BY <1>1, <1>2

(* What is open closes or stays, under the same id.                        *)
LEMMA BookSettles ==
  ASSUME NEW cl, NEW op, NEW n, BookOk(cl, op, n),
         NEW kept \in SUBSET Position, NEW exits \in SUBSET kept, NEW shut \in SUBSET Trade,
         \A p \in kept : \E q \in op : p.id = q.id,
         \A p, q \in kept : p = q, kept = {} <=> op = {},
         \A c \in shut : \E p \in exits : c.id = p.id,
         \A c, d \in shut : c = d, shut = {} <=> exits = {}
  PROVE  BookOk(cl \cup shut, kept \ exits, n)
<1>1. /\ n \in Nat /\ cl \subseteq Trade /\ IsFiniteSet(cl)
      /\ \A p \in op : p.id \in 1..n
      /\ \A c \in cl : c.id \in 1..n
      /\ \A p \in op, c \in cl : p.id # c.id
      /\ n = Cardinality(cl) + Cardinality(op)
      /\ \A p, q \in op : p = q
  BY DEF BookOk
<1>2. /\ op = {} => Cardinality(op) = 0
      /\ op # {} => Cardinality(op) = 1
  BY <1>1, OneOrNone
<1>3. /\ kept \ exits = {} => Cardinality(kept \ exits) = 0
      /\ kept \ exits # {} => Cardinality(kept \ exits) = 1
  BY OneOrNone
<1>4. IsFiniteSet(shut) /\ (shut = {} => Cardinality(shut) = 0)
      /\ (shut # {} => Cardinality(shut) = 1)
  BY OneOrNone
<1>5. cl \cap shut = {}
  BY <1>1
<1>6. /\ IsFiniteSet(cl \cup shut) /\ Cardinality(cl) \in Nat
      /\ Cardinality(cl \cup shut) = Cardinality(cl) + Cardinality(shut)
  BY <1>1, <1>4, <1>5, SizeDisjoint
<1>7. n = Cardinality(cl \cup shut) + Cardinality(kept \ exits)
  <2>1. CASE exits = {}
    BY <1>1, <1>2, <1>3, <1>4, <1>6, <2>1
  <2>2. CASE exits # {}
    <3>1. kept \ exits = {} /\ op # {} /\ shut # {}
      BY <2>2
    <3>2. QED
      BY <1>1, <1>2, <1>3, <1>4, <1>6, <3>1
  <2>3. QED
    BY <2>1, <2>2
<1>8. /\ \A p \in kept \ exits : p.id \in 1..n
      /\ \A c \in cl \cup shut : c.id \in 1..n
  BY <1>1
<1>9. \A p \in kept \ exits, c \in cl \cup shut : p.id # c.id
  <2> SUFFICES ASSUME NEW p \in kept \ exits, NEW c \in cl \cup shut PROVE p.id # c.id
    OBVIOUS
  <2>1. c \in cl
    OBVIOUS
  <2>2. QED
    BY <1>1, <2>1
<1>10. QED
  BY <1>1, <1>6, <1>7, <1>8, <1>9 DEF BookOk

LEMMA BookOpens ==
  ASSUME NEW cl, NEW n, BookOk(cl, {}, n), NEW p \in Position, p.id = n + 1
  PROVE  BookOk(cl, {p}, n + 1)
<1>1. /\ n \in Nat /\ cl \subseteq Trade /\ IsFiniteSet(cl)
      /\ \A c \in cl : c.id \in 1..n
      /\ n = Cardinality(cl) + Cardinality({})
  BY DEF BookOk
<1>2. Cardinality({}) = 0 /\ Cardinality({p}) = 1 /\ Cardinality(cl) \in Nat
  BY <1>1, FS_EmptySet, FS_Singleton, FS_CardinalityType
<1>3. n + 1 = Cardinality(cl) + Cardinality({p}) /\ n + 1 \in Nat
  BY <1>1, <1>2
<1>4. \A c \in cl : c.id \in 1..n + 1 /\ c.id # p.id
  BY <1>1
<1>5. p.id \in 1..n + 1
  BY <1>1
<1>6. QED
  BY <1>1, <1>3, <1>4, <1>5 DEF BookOk

(* The replayed candle: what it closes and opens keeps the book.           *)
LEMMA CycleBook ==
  ASSUME BookOk(closed, open, opened), Cycle
  PROVE  /\ BookOk(closed', open', opened')
         /\ closed \subseteq closed' /\ row'.closes \subseteq closed'
         /\ row'.executed \in {0, 1} /\ opened' = opened + row'.executed
<1> DEFINE kept == {[p EXCEPT !.new = FALSE] : p \in open}
           exits == {p \in kept : QuoteExit(p, now') # "none"}
           closes == {Closing(p, QuoteExit(p, now')) : p \in exits}
<1>1. /\ now' \in Candles /\ closed' = closed \cup closes
      /\ \/ open' = kept \ exits /\ row' = [executed |-> 0, closes |-> closes] /\ opened' = opened
         \/ /\ kept = exits /\ opened' = opened + 1
            /\ \E side \in {"buy", "sell"} :
                 open' = {[id |-> opened', side |-> side, new |-> TRUE, entry |-> Entry(side, now')]}
            /\ row' = [executed |-> 1, closes |-> closes]
  BY DEF Cycle
<1>2. opened \in Nat /\ open \subseteq Position /\ \A p, q \in open : p = q
  BY DEF BookOk
<1>3. ASSUME NEW p \in open
      PROVE  [p EXCEPT !.new = FALSE] \in Position /\ [p EXCEPT !.new = FALSE].id = p.id
  BY <1>2 DEF Position
<1>4. /\ kept \in SUBSET Position
      /\ \A p \in kept : \E q \in open : p.id = q.id
      /\ \A p, q \in kept : p = q
      /\ kept = {} <=> open = {}
  BY <1>2, <1>3
<1> HIDE DEF kept
<1>5. /\ closes \in SUBSET Trade
      /\ \A c \in closes : \E p \in exits : c.id = p.id
      /\ \A c, d \in closes : c = d
      /\ closes = {} <=> exits = {}
      /\ exits \in SUBSET kept
  BY <1>4, ClosingIsTrade
<1> HIDE DEF exits, closes
<1>6. BookOk(closed \cup closes, kept \ exits, opened)
  BY <1>4, <1>5, BookSettles
<1>7. CASE open' = kept \ exits /\ row' = [executed |-> 0, closes |-> closes] /\ opened' = opened
  BY <1>1, <1>2, <1>6, <1>7
<1>8. CASE /\ kept = exits /\ opened' = opened + 1
           /\ \E side \in {"buy", "sell"} :
                open' = {[id |-> opened', side |-> side, new |-> TRUE, entry |-> Entry(side, now')]}
           /\ row' = [executed |-> 1, closes |-> closes]
  <2>1. PICK side \in {"buy", "sell"} :
          open' = {[id |-> opened', side |-> side, new |-> TRUE, entry |-> Entry(side, now')]}
    BY <1>8
  <2> DEFINE new == [id |-> opened', side |-> side, new |-> TRUE, entry |-> Entry(side, now')]
  <2>2. Entry(side, now') \in Int
    BY <1>1, PriceAssumption, CandleAssumption DEF Entry, Bid, Ask
  <2>3. new \in Position /\ new.id = opened + 1
    BY <1>2, <1>8, <2>2 DEF Position
  <2>4. open' = {new}
    BY <2>1
  <2> HIDE DEF new
  <2>5. BookOk(closed \cup closes, {}, opened)
    BY <1>6, <1>8
  <2>6. BookOk(closed \cup closes, {new}, opened + 1)
    BY <2>3, <2>5, BookOpens
  <2>7. BookOk(closed', open', opened')
    BY <1>1, <1>8, <2>4, <2>6
  <2>8. row'.executed = 1 /\ row'.closes = closes
    BY <1>8
  <2>9. QED
    BY <1>1, <1>8, <2>7, <2>8
<1>9. QED
  BY <1>1, <1>7, <1>8

LEMMA HitsBook ==
  ASSUME BookOk(closed, open, opened), Hits
  PROVE  /\ BookOk(closed', open', opened') /\ closed \subseteq closed' /\ opened' = opened
<1> DEFINE exits == {q \in open : RangeExit(q) # "none"}
           closes == {Closing(p, RangeExit(p)) : p \in exits}
<1>1. closed' = closed \cup closes /\ open' = open \ exits /\ opened' = opened
  BY DEF Hits
<1>2. /\ open \in SUBSET Position /\ \A p, q \in open : p = q
      /\ \A p \in open : \E q \in open : p.id = q.id
  BY DEF BookOk
<1>3. /\ closes \in SUBSET Trade
      /\ \A c \in closes : \E p \in exits : c.id = p.id
      /\ \A c, d \in closes : c = d
      /\ closes = {} <=> exits = {}
      /\ exits \in SUBSET open
  BY <1>2, ClosingIsTrade
<1> HIDE DEF exits, closes
<1>4. BookOk(closed \cup closes, open \ exits, opened)
  BY <1>2, <1>3, BookSettles
<1>5. QED
  BY <1>1, <1>4

(* What a report says of trades that won 2 R or lost 1 R.                  *)
LEMMA ReportAdds ==
  ASSUME NEW cl \in SUBSET Trade, IsFiniteSet(cl)
  PROVE  /\ Cardinality(cl) \in Nat /\ Wins(cl) \in Nat /\ Losses(cl) \in Nat
         /\ Cardinality(cl) = Wins(cl) + Losses(cl) /\ TotalR(cl) \in Int
<1> DEFINE won == {c \in cl : c.r > 0}
           lost == {c \in cl : c.r < 0}
<1>1. \A c \in cl : c.r = -1 \/ c.r = 2
  BY DEF Trade
<1>2. won \cup lost = cl /\ won \cap lost = {}
  BY <1>1
<1>3. IsFiniteSet(won) /\ IsFiniteSet(lost)
  BY FS_Subset
<1>4. Wins(cl) = Cardinality(won) /\ Losses(cl) = Cardinality(lost)
  BY DEF Wins, Losses
<1> HIDE DEF won, lost
<1>5. /\ Cardinality(won) \in Nat /\ Cardinality(lost) \in Nat
      /\ Cardinality(cl) = Cardinality(won) + Cardinality(lost)
  BY <1>2, <1>3, SizeDisjoint
<1>6. QED
  BY <1>4, <1>5 DEF TotalR

(* A gate that allows has seen no open position, enough trades, and        *)
(* enough of an average.                                                   *)
LEMMA GateSaw ==
  ASSUME BookOk(closed, open, opened), NEW s \in Stages, GateAllows(ReportOf(closed), s)
  PROVE  /\ open = {}
         /\ Cardinality(closed) >= Gates[s].min_closed
         /\ 100 * TotalR(closed) >= Gates[s].min_r * Cardinality(closed)
<1> DEFINE r == ReportOf(closed)
           earned == 100 * TotalR(closed)
           asked == Gates[s].min_r * Cardinality(closed)
<1>1. /\ closed \in SUBSET Trade /\ IsFiniteSet(closed) /\ \A p, q \in open : p = q
  BY DEF BookOk
<1>2. /\ Cardinality(closed) \in Nat /\ TotalR(closed) \in Int
  BY <1>1, ReportAdds
<1>3. Gates[s].min_closed \in Nat /\ Gates[s].min_r \in Int
  BY GateAssumption
<1>4. earned \in Int /\ asked \in Int
  BY <1>2, <1>3
<1>5. /\ r.closed = Cardinality(closed) /\ r.open = Cardinality(open) /\ r.total_r = TotalR(closed)
  BY DEF ReportOf
<1>6. /\ ~(r.closed < Gates[s].min_closed) /\ ~(r.open > 0)
      /\ ~(100 * r.total_r < Gates[s].min_r * r.closed)
  <2> HIDE DEF r
  <2>1. GateReasons(r, s) = {}
    BY DEF GateAllows, r
  <2>2. QED
    BY <2>1, Zenon DEF GateReasons
<1>7. ~(earned < asked)
  BY <1>5, <1>6
<1>8. 100 * TotalR(closed) >= Gates[s].min_r * Cardinality(closed)
  <2> HIDE DEF earned, asked
  <2>1. earned >= asked
    BY <1>4, <1>7
  <2>2. QED
    BY <2>1 DEF earned, asked
<1>9. open = {}
  BY <1>1, <1>5, <1>6, OneOrNone
<1>10. QED
  BY <1>2, <1>3, <1>5, <1>6, <1>8, <1>9

(* Trades that have been enough once stay enough.                          *)
LEMMA EnoughStays ==
  ASSUME GateSeesWholeRun, BookOk(closed, open, opened), BookOk(closed', open', opened'),
         closed \subseteq closed', gate' = gate, gate # NoFile => gate.stage \in Stages,
         doing' \notin {"idle", "think", "tool"} \/ (gate # NoFile => gate.cuts # cuts')
  PROVE  GateSeesWholeRun'
<1> SUFFICES ASSUME gate # NoFile, gate.allowed
             PROVE  Cardinality(closed') >= Gates[gate.stage].min_closed
  BY Zenon DEF GateSeesWholeRun
<1>1. Cardinality(closed) >= Gates[gate.stage].min_closed
  BY Zenon DEF GateSeesWholeRun
<1>2. IsFiniteSet(closed) /\ IsFiniteSet(closed')
  BY DEF BookOk
<1>3. /\ Cardinality(closed) \in Nat /\ Cardinality(closed') \in Nat
      /\ Cardinality(closed) <= Cardinality(closed')
  BY <1>2, FS_CardinalityType, FS_Subset
<1>4. Gates[gate.stage].min_closed \in Nat
  BY GateAssumption
<1>5. QED
  BY <1>1, <1>3, <1>4

(* Steps that leave the book and the memory alone.                         *)
LEMMA QuietStep ==
  ASSUME TrainingInv,
         UNCHANGED <<open, closed, opened, executed, outcomes, row, cuts, report, gate>>,
         \/ /\ doing \in {"idle", "think", "tool"} /\ doing' \in {"idle", "think", "tool"}
            /\ UNCHANGED <<candle, stage>> /\ (doing' # "idle" => goal' \in Stages)
         \/ /\ doing = "tool" /\ doing' = "cycle" /\ candle' = 0
            /\ stage' \in Stages /\ goal' \in Stages,
         step' \in 0..MaxSteps, tool' \in Tools \cup {"none"}
  PROVE  TrainingInv'
<1>1. TrainingShape /\ BookOk(closed, open, opened) /\ RowInv /\ EvidenceInv
  BY DEF TrainingInv
<1>2. 0 \in 0..TapeLength
  BY RunAssumption
<1>3. TrainingShape'
  BY <1>1, <1>2 DEF TrainingShape, Replaying
<1>4. BookOk(closed, open, opened)'
  BY <1>1
<1>5. RowInv'
  BY <1>1 DEF RowInv
<1>6. EvidenceInv'
  BY <1>1 DEF EvidenceInv, ReportBalances, GateSeesWholeRun
<1>7. QED
  BY <1>3, <1>4, <1>5, <1>6 DEF TrainingInv

(* A session or a backtest is cut: what is on disk stays.                  *)
LEMMA CutStep ==
  ASSUME TrainingInv,
         UNCHANGED <<open, closed, opened, executed, outcomes, report, gate>>,
         cuts' = cuts + 1, row' = NoRow, candle' = 0,
         \/ doing' = "idle"
         \/ doing # "idle" /\ doing' = "think" /\ goal' = goal,
         step' \in 0..MaxSteps, tool' \in Tools \cup {"none"}
  PROVE  TrainingInv'
<1>1. TrainingShape /\ BookOk(closed, open, opened) /\ RowInv /\ EvidenceInv
  BY DEF TrainingInv
<1>2. 0 \in 0..TapeLength /\ cuts \in Nat /\ cuts' \in Nat
  BY <1>1, RunAssumption DEF TrainingShape
<1>3. TrainingShape'
  BY <1>1, <1>2 DEF TrainingShape, Replaying
<1>4. BookOk(closed, open, opened)'
  BY <1>1
<1>5. RowInv'
  <2>1. executed \in Nat /\ opened \in Nat /\ row.executed \in {0, 1}
        /\ executed + row.executed <= opened
        /\ opened <= executed + row.executed + cuts
    BY <1>1 DEF TrainingShape, BookOk, RowInv
  <2>2. executed <= opened /\ opened <= executed + cuts'
    BY <1>2, <2>1
  <2>3. row'.executed = 0 /\ row'.closes = {}
    BY DEF NoRow
  <2>4. executed' + row'.executed <= opened' /\ opened' <= executed' + row'.executed + cuts'
    BY <1>2, <2>1, <2>2, <2>3
  <2>5. QED
    BY <1>1, <1>2, <2>3, <2>4 DEF RowInv
<1>6. EvidenceInv'
  <2>1. gate # NoFile => gate.stage \in Stages /\ gate.cuts \in Nat /\ gate.cuts <= cuts' /\ gate.cuts # cuts'
    BY <1>1, <1>2 DEF EvidenceInv
  <2>2. GateSeesWholeRun'
    BY <1>1, <1>4, <2>1, EnoughStays DEF EvidenceInv
  <2>3. ReportBalances'
    <3> SUFFICES ASSUME report # NoFile
                 PROVE  /\ report.executed <= report.closed + report.open
                        /\ report.closed + report.open <= report.executed + cuts'
                        /\ report.closed = report.wins + report.losses
      BY DEF ReportBalances
    <3>1. /\ report.executed \in Nat /\ report.closed \in Nat /\ report.open \in Nat
      BY <1>1 DEF EvidenceInv
    <3>2. QED
      BY <1>1, <1>2, <3>1 DEF EvidenceInv, ReportBalances
  <2>4. doing' # "gate"
    BY <1>1 DEF TrainingShape
  <2>5. report # NoFile =>
          report.executed \in Nat /\ report.closed \in Nat /\ report.open \in Nat
    BY <1>1 DEF EvidenceInv
  <2>6. QED
    BY <2>1, <2>2, <2>3, <2>4, <2>5 DEF EvidenceInv
<1>7. QED
  BY <1>3, <1>4, <1>5, <1>6 DEF TrainingInv

LEMMA ReplayStep ==
  ASSUME TrainingInv, Replay
  PROVE  TrainingInv'
<1>1. TrainingShape /\ BookOk(closed, open, opened) /\ RowInv /\ EvidenceInv
  BY DEF TrainingInv
<1>2. /\ executed \in Nat /\ opened \in Nat /\ row.executed \in {0, 1} /\ cuts \in Nat
      /\ executed + row.executed <= opened
      /\ opened <= executed + row.executed + cuts
      /\ outcomes \subseteq closed /\ row.closes \subseteq closed
      /\ doing # "record" => row = NoRow
      /\ NoRow.executed = 0 /\ NoRow.closes = {}
  BY <1>1 DEF TrainingShape, BookOk, RowInv, NoRow
<1>3. CASE Cycle
  <2>1. /\ doing = "cycle" /\ doing' = "record" /\ candle < TapeLength
        /\ UNCHANGED <<candle, executed, outcomes, report, gate, goal, step, tool, stage, cuts>>
    BY <1>3 DEF Cycle, fileVars, sessionVars
  <2>2. /\ BookOk(closed', open', opened')
        /\ closed \subseteq closed' /\ row'.closes \subseteq closed'
        /\ row'.executed \in {0, 1} /\ opened' = opened + row'.executed
    BY <1>1, <1>3, CycleBook
  <2>3. TrainingShape'
    BY <1>1, <2>1 DEF TrainingShape, Replaying
  <2>4. executed <= opened /\ opened <= executed + cuts
    BY <1>2, <2>1
  <2>5. executed + row'.executed <= opened' /\ opened' <= executed + row'.executed + cuts
    BY <1>2, <2>2, <2>4
  <2>6. RowInv'
    BY <1>2, <2>1, <2>2, <2>5 DEF RowInv
  <2>7. EvidenceInv'
    BY <1>1, <2>1, <2>2, EnoughStays DEF EvidenceInv, ReportBalances
  <2>8. QED
    BY <2>2, <2>3, <2>6, <2>7 DEF TrainingInv
<1>4. CASE Record
  <2>1. /\ doing = "record" /\ doing' = "hits" /\ candle' = candle + 1
        /\ executed' = executed + row.executed /\ outcomes' = outcomes \cup row.closes
        /\ row' = NoRow
        /\ UNCHANGED <<open, closed, opened, report, gate, goal, step, tool, stage, cuts>>
    BY <1>4 DEF Record, fileVars, sessionVars
  <2>2. candle' \in 0..TapeLength
    <3>1. candle \in 0..TapeLength /\ candle < TapeLength /\ TapeLength \in Nat
      BY <1>1, <2>1, RunAssumption DEF TrainingShape, RowInv
    <3>2. candle + 1 \in 0..TapeLength
      BY <3>1
    <3>3. QED
      BY <2>1, <3>2
  <2>3. executed' \in Nat /\ executed' + 0 = executed + row.executed
    BY <1>2, <2>1
  <2>4. TrainingShape'
    BY <1>1, <2>1, <2>2, <2>3 DEF TrainingShape, Replaying
  <2>5. BookOk(closed', open', opened')
    BY <1>1, <2>1
  <2>6. RowInv'
    BY <1>2, <2>1, <2>3 DEF RowInv
  <2>7. EvidenceInv'
    BY <1>1, <2>1 DEF EvidenceInv, ReportBalances, GateSeesWholeRun
  <2>8. QED
    BY <2>4, <2>5, <2>6, <2>7 DEF TrainingInv
<1>5. CASE Hits
  <2>1. /\ doing = "hits" /\ doing' = "cycle"
        /\ UNCHANGED <<candle, executed, outcomes, row, report, gate, goal, step, tool, stage, cuts>>
    BY <1>5 DEF Hits, fileVars, sessionVars
  <2>2. BookOk(closed', open', opened') /\ closed \subseteq closed' /\ opened' = opened
    BY <1>1, <1>5, HitsBook
  <2>3. TrainingShape'
    BY <1>1, <2>1 DEF TrainingShape, Replaying
  <2>4. RowInv'
    BY <1>2, <2>1, <2>2 DEF RowInv
  <2>5. EvidenceInv'
    BY <1>1, <2>1, <2>2, EnoughStays DEF EvidenceInv, ReportBalances
  <2>6. QED
    BY <2>2, <2>3, <2>4, <2>5 DEF TrainingInv
<1>6. CASE WriteReport
  <2>1. /\ doing = "cycle" /\ doing' = "gate" /\ report' = BuildReport
        /\ UNCHANGED <<candle, decisions, executed, outcomes, open, closed, opened, row, gate,
                       goal, step, tool, stage, cuts>>
    BY <1>6 DEF WriteReport, replayVars, sessionVars
  <2>2. closed \cup outcomes = closed
    BY <1>2
  <2>3. report' = ReportOf(closed)
    BY <2>1, <2>2 DEF BuildReport
  <2>4. ReportOf(closed)' = ReportOf(closed)
    BY <2>1 DEF ReportOf
  <2>5. /\ report'.executed = executed /\ report'.closed = Cardinality(closed)
        /\ report'.open = Cardinality(open)
        /\ report'.wins = Wins(closed) /\ report'.losses = Losses(closed)
    BY <2>3 DEF ReportOf
  <2>6. /\ executed <= opened /\ opened <= executed + cuts
    BY <1>2, <2>1
  <2>7. /\ opened = Cardinality(closed) + Cardinality(open)
        /\ Cardinality(closed) = Wins(closed) + Losses(closed)
        /\ Cardinality(closed) \in Nat /\ Cardinality(open) \in Nat
    BY <1>1, ReportAdds, OneOrNone DEF BookOk
  <2>8. ReportBalances'
    BY <1>2, <2>1, <2>5, <2>6, <2>7 DEF ReportBalances
  <2>9. TrainingShape'
    BY <1>1, <2>1 DEF TrainingShape, Replaying
  <2>10. BookOk(closed', open', opened')
    BY <1>1, <2>1
  <2>11. RowInv'
    BY <1>1, <2>1 DEF RowInv
  <2>12. EvidenceInv'
    <3>1. GateSeesWholeRun'
      BY <1>1, <2>1, <2>10, EnoughStays DEF EvidenceInv
    <3>2. /\ report'.executed \in Nat /\ report'.closed \in Nat /\ report'.open \in Nat
      BY <1>2, <2>5, <2>7
    <3>3. QED
      BY <1>1, <2>1, <2>3, <2>4, <2>8, <3>1, <3>2 DEF EvidenceInv
  <2>13. QED
    BY <2>9, <2>10, <2>11, <2>12 DEF TrainingInv
<1>7. CASE WriteGate
  <2>1. /\ doing = "gate" /\ doing' = "think" /\ candle' = 0 /\ row' = NoRow /\ stage' = "none"
        /\ gate' = [stage |-> stage, allowed |-> GateAllows(report, stage), cuts |-> cuts]
        /\ UNCHANGED <<executed, outcomes, open, closed, opened, report, goal, step, tool, cuts>>
    BY <1>7 DEF WriteGate, Returns, Forgotten
  <2>2. report = ReportOf(closed) /\ stage \in Stages
    BY <1>1, <2>1 DEF EvidenceInv, TrainingShape, Replaying
  <2>3. 0 \in 0..TapeLength
    BY RunAssumption
  <2>4. TrainingShape'
    BY <1>1, <2>1, <2>3 DEF TrainingShape, Replaying
  <2>5. BookOk(closed', open', opened')
    BY <1>1, <2>1
  <2>6. RowInv'
    BY <1>2, <2>1 DEF RowInv
  <2>7. gate'.stage = stage /\ (gate'.allowed => GateAllows(ReportOf(closed), stage))
    BY <2>1, <2>2
  <2>8. gate'.allowed =>
          /\ open = {}
          /\ Cardinality(closed) >= Gates[stage].min_closed
          /\ 100 * TotalR(closed) >= Gates[stage].min_r * Cardinality(closed)
    BY <1>1, <2>2, <2>7, GateSaw
  <2>9. GateSeesWholeRun'
    BY <2>1, <2>7, <2>8, Zenon DEF GateSeesWholeRun, TotalR, Wins, Losses
  <2>10. EvidenceInv'
    BY <1>1, <1>2, <2>1, <2>2, <2>7, <2>9 DEF EvidenceInv, ReportBalances
  <2>11. QED
    BY <2>4, <2>5, <2>6, <2>10 DEF TrainingInv
<1>8. QED
  BY <1>3, <1>4, <1>5, <1>6, <1>7 DEF Replay

LEMMA TrainingStep ==
  ASSUME TrainingInv, TrainingNext
  PROVE  TrainingInv'
<1>1. /\ step \in 0..MaxSteps /\ tool \in Tools \cup {"none"} /\ MaxSteps \in Nat
      /\ doing # "idle" => goal \in Stages
  BY RunAssumption DEF TrainingInv, TrainingShape
<1>2. "none" \in Tools \cup {"none"} /\ 0 \in 0..MaxSteps
  BY <1>1
<1>3. CASE StartSession
  BY <1>1, <1>3, QuietStep DEF StartSession, replayVars, fileVars
<1>4. ASSUME NEW t \in Tools \cup {"stop"}, Think(t) PROVE TrainingInv'
  <2>1. CASE t # "stop" /\ Calls(t) /\ step' = step + 1
    <3>1. step' \in 0..MaxSteps
      <4>1. step + 1 \in 0..MaxSteps
        BY <1>1, <1>4 DEF Think, Asks
      <4>2. QED
        BY <2>1, <4>1
    <3>2. /\ doing = "think" /\ doing' = "tool" /\ goal' = goal /\ tool' \in Tools
          /\ UNCHANGED <<open, closed, opened, executed, outcomes, row, cuts, report, gate,
                         candle, stage>>
      BY <1>4, <2>1 DEF Think, Asks, Calls, replayVars, fileVars
    <3>3. QED
      BY <1>1, <3>1, <3>2, QuietStep
  <2>2. CASE t = "stop" /\ Ends(IF t = RuleTool THEN "satisfied" ELSE "stopped")
    <3>1. /\ doing = "think" /\ doing' = "idle" /\ step' = 0 /\ tool' = "none"
          /\ UNCHANGED <<open, closed, opened, executed, outcomes, row, cuts, report, gate,
                         candle, stage>>
      BY <1>4, <2>2 DEF Think, Asks, Ends, replayVars, fileVars
    <3>2. QED
      BY <1>2, <3>1, QuietStep
  <2>3. QED
    BY <1>4, <2>1, <2>2 DEF Think
<1>5. CASE StepsOver
  <2>1. /\ doing = "think" /\ doing' = "idle" /\ step' = 0 /\ tool' = "none"
        /\ UNCHANGED <<open, closed, opened, executed, outcomes, row, cuts, report, gate,
                       candle, stage>>
    BY <1>5 DEF StepsOver, Ends, replayVars, fileVars
  <2>2. QED
    BY <1>2, <2>1, QuietStep
<1>6. CASE StartBacktest
  BY <1>1, <1>6, QuietStep DEF StartBacktest, fileVars, sessionVars
<1>7. CASE InspectReport
  BY <1>1, <1>7, QuietStep DEF InspectReport, Returns, replayVars, fileVars
<1>8. CASE EvaluateGate
  BY <1>1, <1>8, QuietStep DEF EvaluateGate, Returns, replayVars, fileVars
<1>9. CASE ProposeAdjustment
  BY <1>1, <1>9, QuietStep DEF ProposeAdjustment, Returns, replayVars
<1>10. CASE BacktestFails
  <2>1. /\ doing # "idle" /\ doing' = "think" /\ cuts' = cuts + 1 /\ row' = NoRow /\ candle' = 0
        /\ UNCHANGED <<open, closed, opened, executed, outcomes, report, gate, goal, step, tool>>
    BY <1>10 DEF BacktestFails, Returns, Forgotten, fileVars
  <2>2. QED
    BY <1>1, <2>1, CutStep
<1>11. CASE CutSession
  <2>1. /\ doing' = "idle" /\ cuts' = cuts + 1 /\ row' = NoRow /\ candle' = 0
        /\ step' = 0 /\ tool' = "none"
        /\ UNCHANGED <<open, closed, opened, executed, outcomes, report, gate>>
    BY <1>11 DEF CutSession, Ends, Forgotten, fileVars
  <2>2. QED
    BY <1>2, <2>1, CutStep
<1>12. QED
  BY <1>3, <1>4, <1>5, <1>6, <1>7, <1>8, <1>9, <1>10, <1>11, ReplayStep
     DEF TrainingNext, Session, RunTool

LEMMA TrainingInitInv == TrainingInit => TrainingInv
<1> SUFFICES ASSUME TrainingInit PROVE TrainingInv
  OBVIOUS
<1>1. /\ doing = "idle" /\ step = 0 /\ tool = "none" /\ candle = 0 /\ executed = 0
      /\ outcomes = {} /\ open = {} /\ closed = {} /\ opened = 0 /\ row = NoRow
      /\ report = NoFile /\ gate = NoFile /\ cuts = 0
  BY DEF TrainingInit
<1>2. TrainingShape
  BY <1>1, RunAssumption DEF TrainingShape, Replaying
<1>3. BookOk(closed, open, opened)
  <2>1. Cardinality({}) = 0 /\ IsFiniteSet({})
    BY FS_EmptySet
  <2>2. QED
    BY <1>1, <2>1 DEF BookOk
<1>4. RowInv
  BY <1>1 DEF RowInv, NoRow
<1>5. EvidenceInv
  BY <1>1 DEF EvidenceInv, ReportBalances, GateSeesWholeRun
<1>6. QED
  BY <1>2, <1>3, <1>4, <1>5 DEF TrainingInv

LEMMA TrainingStutter == TrainingInv /\ UNCHANGED trainingVars => TrainingInv'
<1> SUFFICES ASSUME TrainingInv, UNCHANGED trainingVars PROVE TrainingInv'
  OBVIOUS
<1>1. UNCHANGED <<doing, step, candle, tool, cuts, executed, goal, stage, closed, open, opened,
                  row, outcomes, report, gate, decisions>>
  BY DEF trainingVars, replayVars, fileVars, sessionVars
<1>2. TrainingShape' /\ BookOk(closed', open', opened') /\ RowInv'
  BY <1>1 DEF TrainingInv, TrainingShape, RowInv
<1>3. EvidenceInv'
  BY <1>1 DEF TrainingInv, EvidenceInv, ReportBalances, GateSeesWholeRun, ReportOf
<1>4. QED
  BY <1>2, <1>3 DEF TrainingInv

LEMMA TrainingKeeps == TrainingInv /\ [TrainingNext]_trainingVars => TrainingInv'
BY TrainingStep, TrainingStutter

(* Every position ever opened is the open one or has closed once, and the  *)
(* memory tells of each but of one for every run that was cut.             *)
THEOREM TrainingInvariance == TrainingSpec => []TrainingInv
BY TrainingInitInv, TrainingKeeps, PTL DEF TrainingSpec

(* A report accounts for its directory but for the record of one position  *)
(* for every run that was cut, and a gate that allows has seen a settled   *)
(* directory with trades that are good enough, whatever earlier runs left  *)
(* there, and enough of them to the end, whatever tools the brain asks     *)
(* for and whatever is cut.                                                *)
THEOREM EvidenceIsComplete == TrainingSpec => []EvidenceComplete
<1>1. TrainingInv => EvidenceComplete
  BY DEF TrainingInv, EvidenceInv, EvidenceComplete
<1>2. QED
  BY <1>1, TrainingInvariance, PTL

-----------------------------------------------------------------------------
(* The three side by side.                                                 *)

LEMMA ExperimentTyped == ExperimentInv => ExperimentTypeOK
<1> SUFFICES ASSUME ExperimentInv PROVE ExperimentTypeOK
  OBVIOUS
<1>1. ExperimentShape /\ CountInv /\ FilesInv
  BY DEF ExperimentInv
<1>2. /\ B \in Nat /\ C \in Nat /\ begun \in Nat /\ BaseMarket \in Nat /\ OtherMarket \in Nat
      /\ errors \in Nat
  BY <1>1, ExperimentNumbers
<1>3. /\ B <= begun + errors /\ C <= begun + errors /\ BaseMarket = B
      /\ OtherMarket <= B + 1 + errors
  BY <1>1, <1>2 DEF CountInv
<1>4. /\ OtherMarket <= begun + 2 * errors + 1 /\ BaseMarket <= begun + 2 * errors + 1
  BY <1>2, <1>3
<1>5. /\ B \in 0..(begun + errors) /\ C \in 0..(begun + errors)
      /\ BaseMarket \in 0..(begun + 2 * errors + 1) /\ OtherMarket \in 0..(begun + 2 * errors + 1)
  BY <1>2, <1>3, <1>4
<1>6. ASSUME NEW s \in Sides
      PROVE  rows[s].runs \in 0..(begun + errors) /\ market[s] \in 0..(begun + 2 * errors + 1)
  <2>1. s = "base" \/ s = "candidate"
    BY DEF Sides
  <2>2. QED
    BY <1>5, <2>1 DEF Runs, B, C, BaseMarket, OtherMarket
<1>7. QED
  BY <1>1, <1>6 DEF ExperimentTypeOK, ExperimentShape, FilesInv, Starting, Halfway, Based, Configured

LEMMA TrainingTyped == TrainingInv => TrainingTypeOK
<1> SUFFICES ASSUME TrainingInv PROVE TrainingTypeOK
  OBVIOUS
<1>1. TrainingShape /\ BookOk(closed, open, opened) /\ RowInv
  BY DEF TrainingInv
<1>2. \A c \in closed : c.r \in {-1, 2} /\ c.id \in 1..opened
  BY <1>1 DEF BookOk, Trade
<1>3. QED
  BY <1>1, <1>2 DEF TrainingTypeOK, TrainingShape, BookOk, RowInv, Replaying

(* Training sessions, experiments and the stack keep their shape: one      *)
(* position at most is open, each has closed once at most and by whole     *)
(* multiples of its risk, no run is counted that was not begun, and only   *)
(* children are signalled and killed.                                      *)
THEOREM OperationsTypeCorrect == Spec => []TypeOK
<1> DEFINE All == TrainingInv /\ ExperimentInv /\ StackInv
<1>1. Init => All
  BY TrainingInitInv, ExperimentInitInv, StackInitInv DEF Init
<1>2. All /\ [Next]_vars => All'
  <2>1. [Next]_vars => /\ [TrainingNext]_trainingVars
                       /\ [ExperimentNext]_experimentVars
                       /\ [StackNext]_stackVars
    BY DEF Next, InTraining, InExperiment, InStack, vars
  <2>2. QED
    BY <2>1, TrainingKeeps, ExperimentKeeps, StackStep
<1>3. All => TypeOK
  BY ExperimentTyped, TrainingTyped DEF TypeOK, StackInv
<1>4. QED
  BY <1>1, <1>2, <1>3, PTL DEF Spec, Fairness

=============================================================================
