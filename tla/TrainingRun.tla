----------------------------- MODULE TrainingRun -----------------------------
(***************************************************************************)
(* train-agent: sessions of the TrainingOrchestrator on one output         *)
(* directory.  A brain chooses tools, step after step; run_backtest lets   *)
(* the paper agent replay a file of candles on the directory's memory and  *)
(* paper state, whatever earlier runs left there, and writes report.json   *)
(* and promotion-gate.json, which the other tools read.  A session may be  *)
(* killed, and a backtest may fail, at any candle.                         *)
(*                                                                         *)
(* Prices are integers.  The replayed planner opens, on either side, a     *)
(* trade of risk StopDistance and target twice that, or holds; R multiples *)
(* are then -1 and 2.  R averages are compared in hundredths.              *)
(***************************************************************************)
EXTENDS Integers, FiniteSets

CONSTANTS
  Candles,       \* candles of the files: records low, high, close
  TapeLength,    \* candles of a file
  HalfSpread, StopDistance,
  Stages,        \* promotion stages
  Gates,         \* min_decisions, min_closed, min_r of each stage
  Playbooks,     \* base playbooks: trend_min and spread_max in hundredths
  MinTrained,    \* closed trades a playbook needs to leave training (30)
  Brains,        \* brains of the sessions: "rule", "llm"
  MaxSteps,      \* goal.max_steps
  MaxSessions, MaxBacktests, MaxCuts   \* bounds

ASSUME PriceAssumption == HalfSpread \in Nat /\ StopDistance \in Nat \ {0}
ASSUME CandleAssumption ==
  \A c \in Candles : c.low \in Int /\ c.high \in Int /\ c.close \in Int
ASSUME RunAssumption == TapeLength \in Nat /\ MaxSteps \in Nat
ASSUME GateAssumption ==
  \A s \in Stages : /\ Gates[s].min_decisions \in Nat /\ Gates[s].min_closed \in Nat
                    /\ Gates[s].min_r \in Int

VARIABLES
  doing,     \* "idle", "think", "tool"; in a backtest "cycle", "record", "hits", "gate"
  brain,     \* of the session, or "none"
  goal,      \* the goal's stage
  step,      \* steps of the session
  tool,      \* the tool called last
  last,      \* its result: ok, and whether a gate in it says allowed
  ending,    \* how the session ended: "none", "satisfied", "stopped", "max steps"
  stage,     \* the stage of the backtest
  candle,    \* candles replayed
  now,       \* the candle being replayed
  decisions, \* experience.jsonl: its rows, and those with an execution
  executed,
  outcomes,  \* experience.jsonl: the closes in its outcomes
  open,      \* paper-state.json
  closed,
  opened,    \* positions ever opened; the last one is the id of the newest
  row,       \* the cycle's record before it is written: execution and closes
  report, gate, candidate,   \* the other files of the directory
  playbook,  \* the base playbook
  fulfilled, \* the directory passed the goal's gate when the session ended
  sessions, backtests, cuts

replayVars == <<candle, now, decisions, executed, outcomes, open, closed, opened, row>>
fileVars == <<report, gate, candidate>>
sessionVars == <<brain, goal, step, tool, last, ending, fulfilled>>
trainingVars == <<doing, replayVars, fileVars, sessionVars, stage, playbook,
                  sessions, backtests, cuts>>

NoFile == [none |-> TRUE]
NoCandle == [none |-> TRUE]
NoRow == [executed |-> 0, closes |-> {}]
NoResult == [ok |-> FALSE, allowed |-> FALSE]
Tools == {"run_backtest", "inspect_report", "evaluate_promotion_gate",
          "propose_playbook_adjustment"}

TrainingInit ==
  /\ doing = "idle" /\ brain = "none" /\ goal = "none" /\ stage = "none"
  /\ step = 0 /\ tool = "none" /\ last = NoResult /\ ending = "none"
  /\ candle = 0 /\ now = NoCandle
  /\ decisions = 0 /\ executed = 0
  /\ outcomes = {} /\ open = {} /\ closed = {}
  /\ opened = 0 /\ row = NoRow
  /\ report = NoFile /\ gate = NoFile /\ candidate = NoFile
  /\ playbook \in Playbooks
  /\ fulfilled = FALSE /\ sessions = 0 /\ backtests = 0 /\ cuts = 0

-----------------------------------------------------------------------------
(* Prices: ReplayRunner._snapshot, PaperPortfolio._close_if_hit and        *)
(* ReplayRunner._replay_close_count.  A stop is looked at before a target. *)

Bid(c) == c.close - HalfSpread
Ask(c) == c.close + HalfSpread

Entry(side, c) == IF side = "buy" THEN Ask(c) ELSE Bid(c)
Stop(p)   == IF p.side = "buy" THEN p.entry - StopDistance ELSE p.entry + StopDistance
Target(p) == IF p.side = "buy" THEN p.entry + 2 * StopDistance
                               ELSE p.entry - 2 * StopDistance

(* The exit when prices from low to high were seen, or "none".             *)
ExitOf(p, low, high) ==
  IF p.side = "buy"
    THEN IF low <= Stop(p) THEN "stop_loss"
         ELSE IF high >= Target(p) THEN "take_profit" ELSE "none"
    ELSE IF high >= Stop(p) THEN "stop_loss"
         ELSE IF low <= Target(p) THEN "take_profit" ELSE "none"

QuoteExit(p, c) == IF p.side = "buy" THEN ExitOf(p, Bid(c), Bid(c))
                                     ELSE ExitOf(p, Ask(c), Ask(c))

(* _close: the position leaves at its stop or target.                      *)
Closing(p, exit) ==
  LET price == IF exit = "stop_loss" THEN Stop(p) ELSE Target(p)
      pnl == IF p.side = "buy" THEN price - p.entry ELSE p.entry - price
  IN  [id |-> p.id, r |-> pnl \div StopDistance, sameCandle |-> p.new]

-----------------------------------------------------------------------------
(* run_backtest.                                                           *)

(* TradingAgent.run_once with the candle's close as quote, up to its        *)
(* record: reconcile, and a decision, vetoed while a position is open.     *)
Cycle ==
  /\ doing = "cycle" /\ candle < TapeLength
  /\ now' \in Candles
  /\ LET kept   == {[p EXCEPT !.new = FALSE] : p \in open}
         exits  == {p \in kept : QuoteExit(p, now') # "none"}
         closes == {Closing(p, QuoteExit(p, now')) : p \in exits}
     IN  /\ closed' = closed \cup closes
         /\ \/ /\ open' = kept \ exits
               /\ row' = [executed |-> 0, closes |-> closes]
               /\ UNCHANGED opened
            \/ /\ kept = exits
               /\ opened' = opened + 1
               /\ \E side \in {"buy", "sell"} :
                    open' = {[id |-> opened', side |-> side, new |-> TRUE,
                              entry |-> Entry(side, now')]}
               /\ row' = [executed |-> 1, closes |-> closes]
  /\ doing' = "record"
  /\ UNCHANGED <<candle, decisions, executed, outcomes, fileVars, sessionVars, stage,
                 playbook, sessions, backtests, cuts>>

(* memory.append of the record.                                            *)
Record ==
  /\ doing = "record"
  /\ decisions' = decisions + 1
  /\ executed' = executed + row.executed
  /\ outcomes' = outcomes \cup row.closes
  /\ candle' = candle + 1
  /\ row' = NoRow
  /\ doing' = "hits"
  /\ UNCHANGED <<now, open, closed, opened, fileVars, sessionVars, stage,
                 playbook, sessions, backtests, cuts>>

RangeExit(p) == ExitOf(p, now.low, now.high)

(* Mutant: what the candle closes is also left open.                       *)
HitsKeeping ==
  /\ doing = "hits"
  /\ closed' = closed \cup {Closing(p, RangeExit(p)) : p \in {q \in open : RangeExit(q) # "none"}}
  /\ doing' = "cycle" /\ now' = NoCandle
  /\ UNCHANGED <<candle, decisions, executed, outcomes, open, opened, row, fileVars,
                 sessionVars, stage, playbook, sessions, backtests, cuts>>

(* _replay_close_count: every open position, the one just opened too, is   *)
(* held against the range of the candle.  The record is written already.   *)
Hits ==
  /\ doing = "hits"
  /\ closed' = closed \cup {Closing(p, RangeExit(p)) : p \in {q \in open : RangeExit(q) # "none"}}
  /\ open' = {p \in open : RangeExit(p) = "none"}
  /\ doing' = "cycle" /\ now' = NoCandle
  /\ UNCHANGED <<candle, decisions, executed, outcomes, opened, row, fileVars,
                 sessionVars, stage, playbook, sessions, backtests, cuts>>

(* The R multiples of a set of closes.                                     *)
Wins(closes)   == Cardinality({c \in closes : c.r > 0})
Losses(closes) == Cardinality({c \in closes : c.r < 0})
TotalR(closes) == 2 * Wins(closes) - Losses(closes)

ReportOf(closes) ==
  [sample |-> decisions, executed |-> executed, closed |-> Cardinality(closes),
   open |-> Cardinality(open), wins |-> Wins(closes), losses |-> Losses(closes),
   total_r |-> TotalR(closes)]

(* Mutant: closes in the outcomes are counted beside those in the paper    *)
(* state.                                                                  *)
BuildReportTwice == [ReportOf(closed) EXCEPT !.closed = @ + Cardinality(outcomes)]

(* ReportBuilder.build: a position counts once, by its id, whether the     *)
(* paper state, an outcome or both tell of its close.                      *)
BuildReport == ReportOf(closed \cup outcomes)

(* Mutant: positions that are still open do not matter.                    *)
GateReasonsWithoutOpen(r, s) ==
  {reason \in {"not_enough_decisions", "not_enough_closed_trades",
               "average_r_below_threshold", "open_positions_still_running",
               "losses_exceed_wins"} :
     \/ reason = "not_enough_decisions" /\ r.sample < Gates[s].min_decisions
     \/ reason = "not_enough_closed_trades" /\ r.closed < Gates[s].min_closed
     \/ reason = "average_r_below_threshold" /\ 100 * r.total_r < Gates[s].min_r * r.closed
     \/ reason = "losses_exceed_wins" /\ r.losses > r.wins /\ r.closed > 0}

(* PromotionGateEvaluator._gate; the average of no trades is 0.            *)
GateReasons(r, s) ==
  {reason \in {"not_enough_decisions", "not_enough_closed_trades",
               "average_r_below_threshold", "open_positions_still_running",
               "losses_exceed_wins"} :
     \/ reason = "not_enough_decisions" /\ r.sample < Gates[s].min_decisions
     \/ reason = "not_enough_closed_trades" /\ r.closed < Gates[s].min_closed
     \/ /\ reason = "average_r_below_threshold"
        /\ 100 * r.total_r < Gates[s].min_r * r.closed \/ (r.closed = 0 /\ Gates[s].min_r > 0)
     \/ reason = "open_positions_still_running" /\ r.open > 0
     \/ reason = "losses_exceed_wins" /\ r.losses > r.wins /\ r.closed > 0}

GateAllows(r, s) == GateReasons(r, s) = {}

WriteReport ==
  /\ doing = "cycle" /\ candle = TapeLength
  /\ report' = BuildReport
  /\ doing' = "gate"
  /\ UNCHANGED <<replayVars, gate, candidate, sessionVars, stage, playbook,
                 sessions, backtests, cuts>>

Returns(result) ==
  /\ last' = result
  /\ doing' = "think"

(* The backtest returns, and its variables are gone.                       *)
Forgotten ==
  /\ candle' = 0 /\ now' = NoCandle /\ row' = NoRow /\ stage' = "none"
  /\ UNCHANGED <<decisions, executed, outcomes, open, closed, opened>>

(* The model notes beside the file what had been cut when it was written.  *)
WriteGate ==
  /\ doing = "gate"
  /\ gate' = [stage |-> stage, allowed |-> GateAllows(report, stage), cuts |-> cuts]
  /\ Returns([ok |-> TRUE, allowed |-> GateAllows(report, stage)]) /\ Forgotten
  /\ UNCHANGED <<report, candidate, brain, goal, step, tool, ending, fulfilled,
                 playbook, sessions, backtests, cuts>>

(* An exception of the replay: registry.call makes a failed result of it.  *)
BacktestFails ==
  /\ doing \in {"cycle", "record", "hits"} /\ cuts < MaxCuts
  /\ cuts' = cuts + 1
  /\ Returns([ok |-> FALSE, allowed |-> FALSE]) /\ Forgotten
  /\ UNCHANGED <<fileVars, brain, goal, step, tool, ending, fulfilled, playbook,
                 sessions, backtests>>

-----------------------------------------------------------------------------
(* The other tools.                                                        *)

StartBacktest ==
  /\ doing = "tool" /\ tool = "run_backtest"
  /\ backtests' = backtests + 1
  /\ candle' = 0 /\ doing' = "cycle"
  /\ stage' \in IF brain = "rule" THEN {goal} ELSE Stages
  /\ UNCHANGED <<now, decisions, executed, outcomes, open, closed, opened, row, fileVars,
                 sessionVars, playbook, sessions, cuts>>

InspectReport ==
  /\ doing = "tool" /\ tool = "inspect_report"
  /\ Returns([ok |-> report # NoFile, allowed |-> FALSE])
  /\ UNCHANGED <<replayVars, fileVars, brain, goal, step, tool, ending, fulfilled, stage,
                 playbook, sessions, backtests, cuts>>

(* The gate as the last backtest to come that far has left it.             *)
EvaluateGate ==
  /\ doing = "tool" /\ tool = "evaluate_promotion_gate"
  /\ Returns([ok |-> gate # NoFile,
              allowed |-> gate # NoFile /\ gate.allowed])
  /\ UNCHANGED <<replayVars, fileVars, brain, goal, step, tool, ending, fulfilled, stage,
                 playbook, sessions, backtests, cuts>>

Smaller(a, b) == IF a < b THEN a ELSE b
Larger(a, b)  == IF a > b THEN a ELSE b

(* A losing report makes the entry stricter.                               *)
Adjusted(p, r) ==
  [trend_min |-> IF r.total_r < 0 THEN Smaller(95, p.trend_min + 5) ELSE p.trend_min,
   spread_max |-> IF r.total_r < 0 THEN Larger(1000, (p.spread_max * 85) \div 100)
                                   ELSE p.spread_max,
   status |-> IF r.closed < MinTrained THEN "training" ELSE p.status]

ProposeAdjustment ==
  /\ doing = "tool" /\ tool = "propose_playbook_adjustment"
  /\ candidate' = IF report # NoFile THEN Adjusted(playbook, report) ELSE candidate
  /\ Returns([ok |-> report # NoFile, allowed |-> FALSE])
  /\ UNCHANGED <<replayVars, report, gate, brain, goal, step, tool, ending, fulfilled, stage,
                 playbook, sessions, backtests, cuts>>

-----------------------------------------------------------------------------
(* The session.                                                            *)

(* RuleTrainingBrain.think: the tool it calls next, or "stop".             *)
RuleTool ==
  IF tool = "none" THEN "run_backtest"
  ELSE IF last.ok /\ last.allowed THEN "stop"
  ELSE IF tool = "run_backtest" THEN "propose_playbook_adjustment"
  ELSE IF tool = "propose_playbook_adjustment" THEN "inspect_report"
  ELSE "evaluate_promotion_gate"

StartSession ==
  /\ doing = "idle"
  /\ sessions < MaxSessions /\ backtests < MaxBacktests   \* bounds
  /\ sessions' = sessions + 1
  /\ doing' = "think" /\ brain' \in Brains /\ goal' \in Stages
  /\ ending' = "none" /\ fulfilled' = FALSE
  /\ UNCHANGED <<replayVars, fileVars, step, tool, last, stage, playbook, backtests, cuts>>

(* The process leaves; only its files stay.                                *)
Ends(how) ==
  /\ doing' = "idle" /\ ending' = how
  /\ brain' = "none" /\ goal' = "none" /\ step' = 0 /\ tool' = "none" /\ last' = NoResult
  /\ fulfilled' = GateAllows(BuildReport, goal)
  /\ UNCHANGED <<fileVars, playbook, sessions, backtests>>

Asks(t) ==
  /\ doing = "think" /\ step < MaxSteps
  /\ t = RuleTool \/ brain = "llm"
  /\ t = "run_backtest" => backtests < MaxBacktests   \* bound

Calls(t) ==
  /\ doing' = "tool" /\ tool' = t
  /\ UNCHANGED <<brain, goal, last, ending, fulfilled, fileVars, playbook, sessions, backtests>>

(* Mutant: a step whose tool has failed does not count.                    *)
ThinkAgain(t) ==
  /\ Asks(t)
  /\ \/ t # "stop" /\ Calls(t) /\ step' = IF tool # "none" /\ ~last.ok THEN step ELSE step + 1
     \/ t = "stop" /\ Ends(IF t = RuleTool THEN "satisfied" ELSE "stopped")
  /\ UNCHANGED <<replayVars, stage, cuts>>

(* run: the brain thinks, and one tool is called.  The LLM brain may ask   *)
(* for any tool or stop; without an answer of use it is the rule brain.    *)
Think(t) ==
  /\ Asks(t)
  /\ \/ t # "stop" /\ Calls(t) /\ step' = step + 1
     \/ t = "stop" /\ Ends(IF t = RuleTool THEN "satisfied" ELSE "stopped")
  /\ UNCHANGED <<replayVars, stage, cuts>>

StepsOver ==
  /\ doing = "think" /\ step = MaxSteps
  /\ Ends("max steps")
  /\ UNCHANGED <<replayVars, stage, cuts>>

(* The process is killed.                                                  *)
CutSession ==
  /\ doing # "idle" /\ cuts < MaxCuts
  /\ cuts' = cuts + 1
  /\ Ends("none") /\ Forgotten

RunTool == StartBacktest \/ InspectReport \/ EvaluateGate \/ ProposeAdjustment
Replay == Cycle \/ Record \/ Hits \/ WriteReport \/ WriteGate
Session == (\E t \in Tools \cup {"stop"} : Think(t)) \/ StepsOver

TrainingNext == StartSession \/ Session \/ RunTool \/ Replay \/ BacktestFails \/ CutSession

TrainingSpec == /\ TrainingInit /\ [][TrainingNext]_trainingVars
                /\ WF_trainingVars(Session \/ RunTool \/ Replay)

-----------------------------------------------------------------------------
(* Properties.                                                             *)

(* The state keeps its shape, one position at most is open, and none is    *)
(* open and closed.                                                        *)
TrainingTypeOK ==
  /\ doing \in {"idle", "think", "tool", "cycle", "record", "hits", "gate"}
  /\ step \in 0..MaxSteps /\ candle \in 0..TapeLength
  /\ tool \in Tools \cup {"none", "stop"}
  /\ \A p, q \in open : p.id = q.id /\ p.id \in 1..opened
  /\ \A c \in closed \cup outcomes : c.r \in {-1, 2} /\ c.id \in 1..opened
  /\ \A p \in open, c \in closed : p.id # c.id
  /\ outcomes \subseteq closed

(* The report is an account of its directory, whatever runs were cut off   *)
(* there: every execution of the memory is in it once, as a position that  *)
(* is open or as one that won or lost, and a run that was cut off between  *)
(* opening a position and its record adds that one position at most.       *)
ReportBalances ==
  report # NoFile =>
    /\ report.executed <= report.closed + report.open
    /\ report.closed + report.open <= report.executed + cuts
    /\ report.closed = report.wins + report.losses

(* A gate that allows tells of the whole directory, with what earlier runs *)
(* left there, those that were cut off too, until the next run is begun or *)
(* cut: nothing in the directory may yet be lost, and the trades that have *)
(* closed in it are good enough for the stage.  That they are enough stays *)
(* true whatever is run or cut afterwards.                                 *)
GateSeesWholeRun ==
  gate # NoFile /\ gate.allowed =>
    /\ Cardinality(closed) >= Gates[gate.stage].min_closed
    /\ doing \in {"idle", "think", "tool"} /\ gate.cuts = cuts =>
         /\ open = {}
         /\ 100 * TotalR(closed) >= Gates[gate.stage].min_r * Cardinality(closed)

(* What a session decides by tells of the directory and not of the last    *)
(* run alone: the report misses at most the record of a position for every *)
(* run that was cut, and a gate that allows told of a settled directory.   *)
EvidenceComplete == ReportBalances /\ GateSeesWholeRun

(* A session comes to its end, whatever its tools answer.                  *)
SessionEnds == (doing = "think") ~> (doing = "idle")

(* orchestrator.py:70: the gate is evaluated to "check whether the current *)
(* run satisfies the goal gate": when a session ends as satisfied, what is *)
(* in its directory passes the gate of its goal.                           *)
SatisfiedMeansPassed == ending = "satisfied" => fulfilled

(* docs/agent-learning-implementation-plan.md:379-382: the replay executes *)
(* at candle t, advances the market, and then closes what is hit.          *)
NoLookAhead == \A c \in closed : ~c.sameCandle

=============================================================================
