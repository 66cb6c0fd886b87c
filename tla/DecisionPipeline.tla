-------------------------- MODULE DecisionPipeline --------------------------
(***************************************************************************)
(* From a market snapshot to an order: the playbook selector, the planner  *)
(* (VariableDrivenPlanner, or AIDecisionPlanner with its policy), and the  *)
(* risk governor, as run_once calls them.                                  *)
(*                                                                         *)
(* Numbers are integers: trend and volatility in hundredths, confidence in *)
(* ten thousandths, percentages and lots in hundredths, ratios in tenths,  *)
(* spreads, ATRs and the least stop in points, prices in hundredths of a   *)
(* point.  Reasons are kept where a later step or a property looks at them.*)
(***************************************************************************)
EXTENDS Integers

CONSTANTS
  Scenes,     \* what run_once may find: market, account, memory, advice, and
              \* the settings its planner, policy and governor are built from
  NoScene,    \* between two calls of run_once
  Answers,    \* payloads the model may answer with
  PerUnit     \* units of price that move one lot by one unit of money

(* The numbers of Agents.settings.                                           *)
Numbers == {"min_confidence", "default_risk", "min_trend", "planner_max_spread",
            "min_sl", "reward_risk", "max_risk", "max_spread", "max_positions",
            "max_open_risk", "max_daily_loss", "min_free_margin", "lot_step",
            "min_lot", "max_lot", "min_live_samples"}

ASSUME UnitAssumption == PerUnit \in Nat \ {0}

NoPrice == -1

(* A planner's answer, before and after the policy, is a TradeDecision.    *)
Sides == {"buy", "sell", "none"}
Decision == [action : {"hold", "open_position"}, side : Sides, confidence : Nat,
             entry : Int, stop : Int, target : Int, risk : Nat]

ASSUME SceneAssumption ==
  /\ NoScene \notin Scenes
  /\ \A s \in Scenes :
       /\ s.account.equity \in Nat \ {0}
       /\ s.market.bid \in Nat /\ s.market.ask \in Nat
       /\ s.market.trend \in Int /\ s.market.volatility \in Int
       /\ s.market.spread \in Nat /\ s.market.atr \in Nat
       /\ s.analyst.adjustment \in Int /\ s.memory.samples \in Nat
       /\ s.playbook.risk \in Nat /\ s.playbook.sl_atr \in Nat
       /\ s.playbook.tp_r \in Nat
       /\ \A n \in Numbers : s.settings[n] \in Nat
       /\ s.settings.lot_step > 0
       /\ s.settings.mode \in {"paper", "live"}
       /\ s.settings.planner \in {"ai", "variable"}
ASSUME AnswerAssumption ==
  \A a \in Answers :
    /\ a.entry \in Int /\ a.stop \in Int /\ a.target \in Int
    /\ a.confidence \in Int /\ a.risk \in Int

VARIABLES
  pc,        \* where run_once is
  scene,     \* the context of run_once
  source,    \* who made the decision: "variable", "ai", "fail_closed", "fallback"
  decision,  \* planner.decide's result
  verdict,   \* risk_governor.evaluate's result
  order      \* the order placed; volume 0 is None

vars == <<pc, scene, source, decision, verdict, order>>

Smaller(a, b) == IF a < b THEN a ELSE b
Larger(a, b) == IF a > b THEN a ELSE b
Magnitude(a) == IF a < 0 THEN -a ELSE a
Clamp(a, low, high) == Larger(low, Smaller(high, a))
When(condition, reason) == IF condition THEN {reason} ELSE {}

NoDecision == [action |-> "hold", side |-> "none", confidence |-> 0,
               entry |-> NoPrice, stop |-> NoPrice, target |-> NoPrice, risk |-> 0]
NoVerdict == [approved |-> "no", lot |-> 0, reasons |-> {}]
NoOrder == [side |-> "none", volume |-> 0, entry |-> NoPrice, stop |-> NoPrice,
            target |-> NoPrice]

-----------------------------------------------------------------------------
(* PlaybookSelector, for one playbook: its conditions on the market fit or *)
(* not, and its status must allow the mode.                                *)
AllowedStatuses(mode) ==
  IF mode = "live" THEN {"live_tiny_allowed", "live_allowed"}
  ELSE {"training", "paper_allowed", "demo_allowed", "live_tiny_allowed",
        "live_allowed"}

Selectable(s) ==
  s.playbook.fits /\ s.playbook.status \in AllowedStatuses(s.settings.mode)

Blocked(s) == s.playbook.status # "not_configured" /\ ~Selectable(s)
Selected(s) == s.playbook.status # "not_configured" /\ Selectable(s)

-----------------------------------------------------------------------------
(* VariableDrivenPlanner.decide.                                           *)

BaseConfidence(m) ==
  Clamp(65 * Smaller(Magnitude(m.trend), 100)
          + 25 * (100 - Magnitude(m.volatility - 50))
          + 2000 - Smaller(50 * m.spread, 2500),
        0, 10000)

Direction(s) ==
  CASE s.market.trend >= s.settings.min_trend  -> "buy"
    [] s.market.trend <= -s.settings.min_trend -> "sell"
    [] OTHER -> "none"

VolatilityOk(m) == m.volatility \in 15..85

ReasonCodes(s) ==
  When(Direction(s) = "buy", "bullish_market_structure")
    \cup When(Direction(s) = "sell", "bearish_market_structure")
    \cup {IF VolatilityOk(s.market) THEN "volatility_in_range"
          ELSE "volatility_out_of_range"}
    \cup {IF s.market.spread <= s.settings.planner_max_spread THEN "spread_acceptable"
          ELSE "spread_too_wide"}
    \cup {IF Selected(s) THEN "playbook_selected"
          ELSE IF Blocked(s) THEN "playbook_blocked" ELSE "no_playbooks_configured"}
    \cup s.analyst.reasons

(* Reasons that lost money before cost confidence; then the analyst's      *)
(* adjustment, if there is one.                                            *)
Confidence(s) ==
  LET remembered == IF s.memory.weak \cap ReasonCodes(s) # {}
                      THEN Larger(0, BaseConfidence(s.market) - 400)
                      ELSE BaseConfidence(s.market)
  IN  Clamp(remembered + s.analyst.adjustment, 0, 10000)

(* A memory of at least 20 closed trades that lost on average.             *)
RequiredConfidence(s) ==
  IF s.memory.losing THEN Smaller(9500, s.settings.min_confidence + 500)
  ELSE s.settings.min_confidence

VariableHolds(s) ==
  \/ Direction(s) = "none"
  \/ Confidence(s) < RequiredConfidence(s)
  \/ ~VolatilityOk(s.market)
  \/ s.analyst.avoid /\ s.settings.analyst_can_veto
  \/ Blocked(s)

(* Distances in hundredths of a point; a playbook brings its own.          *)
StopDistance(s) ==
  Larger(s.market.atr * (IF Selected(s) THEN s.playbook.sl_atr ELSE 15) * 10,
         s.settings.min_sl * 100)
TargetDistance(s) ==
  (StopDistance(s) * (IF Selected(s) THEN s.playbook.tp_r ELSE s.settings.reward_risk))
    \div 10

(* Mutant: a sale's stop and target are placed like a purchase's.          *)
VariableDecisionOneSided(s) ==
  IF VariableHolds(s) THEN [NoDecision EXCEPT !.confidence = Confidence(s)]
  ELSE LET side  == Direction(s)
           entry == IF side = "buy" THEN s.market.ask ELSE s.market.bid
       IN  [action |-> "open_position", side |-> side,
            confidence |-> Confidence(s),
            entry |-> entry,
            stop |-> entry - StopDistance(s),
            target |-> entry + TargetDistance(s),
            risk |-> IF Selected(s) THEN s.playbook.risk ELSE s.settings.default_risk]

VariableDecision(s) ==
  IF VariableHolds(s) THEN [NoDecision EXCEPT !.confidence = Confidence(s)]
  ELSE LET side  == Direction(s)
           up    == IF side = "buy" THEN 1 ELSE -1
           entry == IF side = "buy" THEN s.market.ask ELSE s.market.bid
       IN  [action |-> "open_position", side |-> side,
            confidence |-> Confidence(s),
            entry |-> entry,
            stop |-> entry - up * StopDistance(s),
            target |-> entry + up * TargetDistance(s),
            risk |-> IF Selected(s) THEN s.playbook.risk ELSE s.settings.default_risk]

-----------------------------------------------------------------------------
(* AIDecisionPlanner.decide.                                               *)

(* _normalize_payload: anything but an order to open, with a side, is a    *)
(* hold; numbers are clamped.                                              *)
Normalized(a) ==
  LET side == IF a.side \in {"buy", "sell"} THEN a.side ELSE "none"
  IN  [action |-> IF a.action = "open_position" /\ side # "none"
                    THEN "open_position" ELSE "hold",
       side |-> side,
       confidence |-> Clamp(a.confidence, 0, 10000),
       entry |-> a.entry, stop |-> a.stop, target |-> a.target,
       risk |-> Larger(0, a.risk)]

(* Mutant: the memory is not asked for.                                    *)
PolicyReasonsWithoutMemory(s, d) ==
  When(s.market.spread > s.settings.max_spread, "policy_spread_above_limit")
    \cup When(d.confidence < s.settings.min_confidence, "policy_confidence_below_minimum")
    \cup When(d.risk = 0 \/ d.risk > s.settings.max_risk, "policy_risk_percent_out_of_bounds")

(* Mutant: the policy has a limit on risk of its own, twice the setting.   *)
PolicyReasonsLoose(s, d) ==
  When(s.market.spread > s.settings.max_spread, "policy_spread_above_limit")
    \cup When(d.confidence < s.settings.min_confidence, "policy_confidence_below_minimum")
    \cup When(d.risk = 0 \/ d.risk > 2 * s.settings.max_risk, "policy_risk_percent_out_of_bounds")

(* DecisionPolicy.apply, as services.py builds it.                         *)
PolicyReasons(s, d) ==
  When(s.market.spread > s.settings.max_spread, "policy_spread_above_limit")
    \cup When(d.confidence < s.settings.min_confidence, "policy_confidence_below_minimum")
    \cup When(d.risk = 0 \/ d.risk > s.settings.max_risk, "policy_risk_percent_out_of_bounds")
    \cup When(/\ s.settings.mode = "live" /\ s.settings.require_memory
              /\ s.memory.samples < s.settings.min_live_samples,
              "policy_live_memory_sample_too_small")

(* A decision with a reason against it is held, and a hold has no prices.  *)
Guarded(s, d) ==
  IF PolicyReasons(s, d) # {} \/ d.action = "hold"
    THEN [NoDecision EXCEPT !.confidence = d.confidence,
            !.side = IF PolicyReasons(s, d) = {} THEN d.side ELSE "none"]
    ELSE d

(* Mutant: an error always falls back to the variable planner.             *)
AnswerToErrorOpen(s) == [source |-> "fallback", payload |-> VariableDecision(s)]

(* No key, no answer, or one without text that parses.                     *)
AnswerToError(s) ==
  IF s.settings.fail_closed
    THEN [source |-> "fail_closed", payload |-> NoDecision]
    ELSE [source |-> "fallback", payload |-> VariableDecision(s)]

-----------------------------------------------------------------------------
(* RiskGovernor.evaluate.                                                  *)

Vetoes(s, d) ==
  When(d.side = "none", "missing_side")
    \cup When(d.stop = NoPrice, "missing_stop_loss")
    \cup When(d.target = NoPrice, "missing_take_profit")
    \cup When(d.entry = NoPrice, "missing_entry_price")
    \cup When(d.confidence < s.settings.min_confidence, "confidence_below_minimum")
    \cup When(d.risk = 0 \/ d.risk > s.settings.max_risk, "risk_percent_out_of_bounds")
    \cup When(s.market.spread > s.settings.max_spread, "spread_above_limit")
    \cup When(s.account.positions >= s.settings.max_positions, "too_many_open_positions")
    \cup When(s.settings.mode = "paper" /\ s.account.on_symbol > 0,
              "symbol_already_has_open_paper_position")
    \cup When(s.account.open_risk >= s.settings.max_open_risk, "open_risk_above_limit")
    \cup When(Larger(0, -s.account.daily_pnl) * 10000
                >= s.settings.max_daily_loss * s.account.equity,
              "daily_loss_limit_reached")
    \cup When(s.account.free_margin * 100
                < s.settings.min_free_margin * s.account.equity,
              "free_margin_below_limit")

(* The money at risk, what one lot step loses of it at the stop, and the   *)
(* whole steps that gives, all in the same unit.                           *)
MoneyAtRisk(s, d) == s.account.equity * d.risk * PerUnit
StepLoss(s, d) == 100 * Magnitude(d.entry - d.stop) * s.settings.lot_step
Steps(s, d) == MoneyAtRisk(s, d) \div StepLoss(s, d)

(* Mutant: the lot is rounded up to a whole step.                          *)
LotsRoundedUp(s, d) ==
  IF d.entry = d.stop THEN {0}
  ELSE {Smaller((Steps(s, d) + 1) * s.settings.lot_step, s.settings.max_lot)}

(* Mutant: the lot is not capped.                                          *)
LotsUncapped(s, d) ==
  IF d.entry = d.stop THEN {0} ELSE {Steps(s, d) * s.settings.lot_step}

(* _position_size.  The quotient of two floats may come out just under the *)
(* whole number it should be, and int() then takes one step off.           *)
Lots(s, d) ==
  IF d.entry = d.stop THEN {0}
  ELSE {Smaller(n * s.settings.lot_step, s.settings.max_lot) :
          n \in {Steps(s, d)}
               \cup (IF MoneyAtRisk(s, d) % StepLoss(s, d) = 0
                     THEN {Larger(0, Steps(s, d) - 1)} ELSE {})}

Rejected(reasons) == [approved |-> "no", lot |-> 0, reasons |-> reasons]
Approved(lot) == [approved |-> "yes", lot |-> lot, reasons |-> {}]

Sized(s, lot) ==
  IF lot >= s.settings.min_lot THEN Approved(lot)
  ELSE IF s.settings.allow_min_lot
         THEN Approved(Smaller(s.settings.min_lot, s.settings.max_lot))
         ELSE Rejected({"computed_lot_below_minimum"})

Verdicts(s, d) ==
  IF d.action = "hold" THEN {Rejected({"planner_chose_hold"})}
  ELSE IF Vetoes(s, d) # {} THEN {Rejected(Vetoes(s, d))}
  ELSE {Sized(s, lot) : lot \in Lots(s, d)}

-----------------------------------------------------------------------------
(* run_once, from the context to the order.                                *)

Init ==
  /\ pc = "observe"
  /\ scene = NoScene /\ source = "none"
  /\ decision = NoDecision /\ verdict = NoVerdict /\ order = NoOrder

(* The snapshot, the account, the memory context, the playbook and the     *)
(* analysis are all there when the planner is called.                      *)
Observe ==
  /\ pc = "observe"
  /\ scene' \in Scenes
  /\ pc' = "decide"
  /\ UNCHANGED <<source, decision, verdict, order>>

Decided(from, d) ==
  /\ source' = from
  /\ decision' = d
  /\ pc' = "govern"
  /\ UNCHANGED <<scene, verdict, order>>

DecideVariable ==
  /\ pc = "decide"
  /\ scene.settings.planner = "variable"
  /\ Decided("variable", VariableDecision(scene))

DecideAI ==
  /\ pc = "decide"
  /\ scene.settings.planner = "ai"
  /\ \E a \in Answers : Decided("ai", Guarded(scene, Normalized(a)))

(* The stand-in for an answer goes the same way as an answer.              *)
DecideOnError ==
  /\ pc = "decide"
  /\ scene.settings.planner = "ai"
  /\ LET answer == AnswerToError(scene)
     IN  Decided(answer.source, Guarded(scene, Normalized(answer.payload)))

(* Text that parses but is no object, or lists that are none: the          *)
(* exception is not caught and leaves run_once.                            *)
DecideRaises ==
  /\ pc = "decide"
  /\ scene.settings.planner = "ai"
  /\ pc' = "raised"
  /\ UNCHANGED <<scene, source, decision, verdict, order>>

Govern ==
  /\ pc = "govern"
  /\ verdict' \in Verdicts(scene, decision)
  /\ order' = IF verdict'.approved = "yes"
                THEN [side |-> decision.side, volume |-> verdict'.lot,
                      entry |-> decision.entry, stop |-> decision.stop,
                      target |-> decision.target]
                ELSE NoOrder
  /\ pc' = "done"
  /\ UNCHANGED <<scene, source, decision>>

(* run_once returned, or the exception was caught by its caller.           *)
Leave ==
  /\ pc \in {"done", "raised"}
  /\ pc' = "observe"
  /\ scene' = NoScene /\ source' = "none"
  /\ decision' = NoDecision /\ verdict' = NoVerdict /\ order' = NoOrder

Next ==
  \/ Observe \/ DecideVariable \/ DecideAI \/ DecideOnError \/ DecideRaises
  \/ Govern \/ Leave

Spec == Init /\ [][Next]_vars

-----------------------------------------------------------------------------
(* The shape of the state; a lot is never above the largest allowed.       *)
TypeOK ==
  /\ pc \in {"observe", "decide", "govern", "done", "raised"}
  /\ pc = "observe" <=> scene = NoScene
  /\ source \in {"none", "variable", "ai", "fail_closed", "fallback"}
  /\ decision \in Decision
  /\ verdict.approved \in {"no", "yes"} /\ verdict.lot \in Nat
  /\ pc # "observe" => verdict.lot <= scene.settings.max_lot
  /\ order.side \in Sides /\ order.volume = verdict.lot

Ordered == order.volume > 0

(* What an order loses at its stop is within the largest risk per trade of *)
(* the equity, through percentages, distances, steps and caps; but for the *)
(* minimum lot, when the settings allow it.                                *)
OrderWithinRisk ==
  Ordered =>
    \/ 100 * order.volume * Magnitude(order.entry - order.stop)
         <= scene.account.equity * scene.settings.max_risk * PerUnit
    \/ /\ scene.settings.allow_min_lot
       /\ order.volume = Smaller(scene.settings.min_lot, scene.settings.max_lot)

(* The policy and the governor are built from the same settings: whatever  *)
(* the policy lets pass, the governor does not reject for a reason the     *)
(* policy has looked at, so such a rejection always has its policy reason  *)
(* in the decision and in the audit.                                       *)
PolicyAnswersForGovernor ==
  source \in {"ai", "fallback"} /\ decision.action = "open_position" =>
    verdict.reasons \cap {"missing_side", "confidence_below_minimum",
                          "risk_percent_out_of_bounds", "spread_above_limit"} = {}

(* docs/ai-windows-continuation.md:49: without the model the AI planner    *)
(* fails closed, and no order comes from anything else.                    *)
FailsClosed ==
  Ordered /\ scene.settings.planner = "ai" /\ scene.settings.fail_closed =>
    source = "ai"

(* Live, the AI planner orders only with enough of a memory behind it,     *)
(* whichever source its payload is from.                                   *)
LiveNeedsMemory ==
  Ordered /\ scene.settings.mode = "live" /\ scene.settings.planner = "ai"
    /\ scene.settings.require_memory =>
      scene.memory.samples >= scene.settings.min_live_samples

(* The variable planner's stop limits a loss and its target takes a gain,  *)
(* on both sides, with its own or a playbook's distances, also when it     *)
(* stands in for the model.                                                *)
ProtectiveStops ==
  Ordered /\ source # "ai" =>
    \/ order.side = "buy" /\ order.stop < order.entry /\ order.entry < order.target
    \/ order.side = "sell" /\ order.stop > order.entry /\ order.entry > order.target

(* docs/agent-learning-implementation-plan.md:339, "Live mode only allows  *)
(* playbooks explicitly promoted to live status."                          *)
LivePlaybooksOnly ==
  Ordered /\ scene.settings.mode = "live" => ~Blocked(scene)

-----------------------------------------------------------------------------
(* The inductive strengthening.                                            *)

(* An order is the decision it comes from, and only a decision to open     *)
(* becomes one; a decision of the AI planner has passed its policy.        *)
PathInv ==
  /\ pc # "observe" => scene \in Scenes
  /\ pc \in {"observe", "decide", "raised"} =>
       decision = NoDecision /\ source = "none"
  /\ pc # "done" => verdict = NoVerdict /\ order = NoOrder
  /\ source = "variable" => scene.settings.planner = "variable"
  /\ source \in {"none", "fail_closed"} => decision.action = "hold"
  /\ source = "fallback" => ~scene.settings.fail_closed
  /\ Ordered => decision.action = "open_position"
  /\ source \in {"ai", "fallback"} /\ decision.action = "open_position" =>
       decision.side # "none" /\ PolicyReasons(scene, decision) = {}

IInv == TypeOK /\ PathInv /\ OrderWithinRisk /\ PolicyAnswersForGovernor

(* Settings and playbooks with which a stop is at least a point away and a *)
(* target at least a tenth of that: nothing checks that they are.          *)
RoomForStops ==
  \A s \in Scenes :
    s.settings.min_sl > 0 /\ s.settings.reward_risk > 0 /\ s.playbook.tp_r > 0

Protective(d) ==
  \/ d.side = "buy" /\ d.stop < d.entry /\ d.entry < d.target
  \/ d.side = "sell" /\ d.stop > d.entry /\ d.entry > d.target

(* What makes ProtectiveStops inductive: an order has the prices of its    *)
(* decision, and so has what a policy lets pass.                           *)
StopsInv ==
  /\ source \in {"variable", "fallback"} /\ decision.action = "open_position" =>
       Protective(decision)
  /\ Ordered =>
       /\ order.side = decision.side /\ order.entry = decision.entry
       /\ order.stop = decision.stop /\ order.target = decision.target

=============================================================================
