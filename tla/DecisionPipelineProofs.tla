----------------------- MODULE DecisionPipelineProofs -----------------------
(***************************************************************************)
(* What an order placed by DecisionPipeline implies, for every setting,    *)
(* scene, answer of a model and size of a contract.                        *)
(***************************************************************************)
EXTENDS DecisionPipeline, TLAPS

-----------------------------------------------------------------------------
(* Arithmetic.                                                             *)

LEMMA NatProduct == \A a, b \in Nat : a * b \in Nat
  BY SMT

LEMMA PositiveProduct == \A a, b \in Nat \ {0} : a * b \in Nat \ {0}
  BY SMT

LEMMA ProductMonotone ==
  \A a, b, c \in Nat : a <= b => a * c <= b * c
  BY SMT

LEMMA Floor ==
  \A a \in Nat, b \in Nat \ {0} : a \div b \in Nat /\ (a \div b) * b <= a
  BY SMT

LEMMA MagnitudeNat ==
  \A a \in Int : Magnitude(a) \in Nat /\ (a # 0 => Magnitude(a) \in Nat \ {0})
  BY SMT DEF Magnitude

LEMMA SettingsNat ==
  ASSUME NEW s \in Scenes
  PROVE  /\ s.settings.min_confidence \in Nat /\ s.settings.default_risk \in Nat
         /\ s.settings.min_sl \in Nat /\ s.settings.reward_risk \in Nat
         /\ s.settings.max_risk \in Nat /\ s.settings.lot_step \in Nat \ {0}
         /\ s.settings.min_lot \in Nat /\ s.settings.max_lot \in Nat
         /\ s.settings.min_live_samples \in Nat
  BY SceneAssumption DEF Numbers

-----------------------------------------------------------------------------
(* The planners' answers are decisions, and a hold has no side to order.   *)

LEMMA SceneTypes ==
  ASSUME NEW s \in Scenes
  PROVE  /\ s.account.equity \in Nat
         /\ s.market.bid \in Nat /\ s.market.ask \in Nat
         /\ s.market.trend \in Int /\ s.market.volatility \in Int
         /\ s.market.spread \in Nat /\ s.market.atr \in Nat
         /\ s.analyst.adjustment \in Int /\ s.memory.samples \in Nat
         /\ s.playbook.risk \in Nat /\ s.playbook.sl_atr \in Nat
         /\ s.playbook.tp_r \in Nat
  BY SceneAssumption

LEMMA ClampNat ==
  \A a \in Int, high \in Nat : Clamp(a, 0, high) \in Nat
  BY SMT DEF Clamp, Larger, Smaller

LEMMA ConfidenceNat ==
  ASSUME NEW s \in Scenes
  PROVE  Confidence(s) \in Nat
<1> DEFINE m == s.market
           base == 65 * Smaller(Magnitude(m.trend), 100)
                     + 25 * (100 - Magnitude(m.volatility - 50))
                     + 2000 - Smaller(50 * m.spread, 2500)
           remembered == IF s.memory.weak \cap ReasonCodes(s) # {}
                           THEN Larger(0, BaseConfidence(m) - 400)
                           ELSE BaseConfidence(m)
           adjusted == remembered + s.analyst.adjustment
<1>1. base \in Int
  <2>1. m.trend \in Int /\ m.volatility \in Int /\ m.spread \in Nat
    BY SceneTypes
  <2>2. QED
    BY <2>1, SMT DEF Magnitude, Smaller
<1>2. BaseConfidence(m) \in Nat
  <2>1. BaseConfidence(m) = Clamp(base, 0, 10000)
    BY DEF BaseConfidence
  <2> HIDE DEF base
  <2>2. Clamp(base, 0, 10000) \in Nat
    BY <1>1, ClampNat
  <2>3. QED
    BY <2>1, <2>2
<1>3. Larger(0, BaseConfidence(m) - 400) \in Nat
  BY <1>2, SMT DEF Larger
<1>4. remembered \in Int
  BY <1>2, <1>3
<1>5. adjusted \in Int
  <2> HIDE DEF remembered
  <2>1. s.analyst.adjustment \in Int
    BY SceneTypes
  <2>2. QED
    BY <1>4, <2>1
<1>6. Confidence(s) = Clamp(adjusted, 0, 10000)
  BY DEF Confidence
<1>7. QED
  <2> HIDE DEF adjusted
  <2>1. Clamp(adjusted, 0, 10000) \in Nat
    BY <1>5, ClampNat
  <2>2. QED
    BY <1>6, <2>1

LEMMA DistancesNat ==
  ASSUME NEW s \in Scenes
  PROVE  StopDistance(s) \in Nat /\ TargetDistance(s) \in Nat
<1>1. /\ (IF Selected(s) THEN s.playbook.sl_atr ELSE 15) \in Nat
      /\ (IF Selected(s) THEN s.playbook.tp_r ELSE s.settings.reward_risk) \in Nat
      /\ s.market.atr \in Nat /\ s.settings.min_sl \in Nat
  BY SceneTypes, SettingsNat
<1>2. s.market.atr * (IF Selected(s) THEN s.playbook.sl_atr ELSE 15) \in Nat
  BY <1>1, NatProduct
<1>3. StopDistance(s) \in Nat
  BY <1>1, <1>2, SMT DEF StopDistance, Larger
<1>4. StopDistance(s) * (IF Selected(s) THEN s.playbook.tp_r ELSE s.settings.reward_risk)
        \in Nat
  BY <1>1, <1>3, NatProduct
<1>5. TargetDistance(s) \in Nat
  BY <1>4, Floor DEF TargetDistance
<1>6. QED
  BY <1>3, <1>5

LEMMA NoDecisionType == NoDecision \in Decision /\ NoDecision.action = "hold"
  BY DEF NoDecision, Decision, NoPrice, Sides

LEMMA VariableDecisionType ==
  ASSUME NEW s \in Scenes
  PROVE  VariableDecision(s) \in Decision
<1>1. CASE VariableHolds(s)
  BY <1>1, ConfidenceNat DEF VariableDecision, NoDecision, Decision, NoPrice, Sides
<1>2. CASE ~VariableHolds(s)
  <2> DEFINE side == Direction(s)
             up == IF side = "buy" THEN 1 ELSE -1
             entry == IF side = "buy" THEN s.market.ask ELSE s.market.bid
             stop == entry - up * StopDistance(s)
             target == entry + up * TargetDistance(s)
             risk == IF Selected(s) THEN s.playbook.risk ELSE s.settings.default_risk
  <2>1. side \in Sides
    BY DEF Direction, Sides
  <2>2. entry \in Int /\ risk \in Nat /\ Confidence(s) \in Nat
    BY SceneTypes, SettingsNat, ConfidenceNat
  <2>3. stop \in Int /\ target \in Int
    <3>1. entry \in Int
      BY <2>2
    <3>2. StopDistance(s) \in Nat /\ TargetDistance(s) \in Nat
      BY DistancesNat
    <3>3. CASE side = "buy"
      BY <3>1, <3>2, <3>3, SMT
    <3>4. CASE side # "buy"
      BY <3>1, <3>2, <3>4, SMT
    <3>5. QED
      BY <3>3, <3>4
  <2>4. VariableDecision(s) =
          [action |-> "open_position", side |-> side, confidence |-> Confidence(s),
           entry |-> entry, stop |-> stop, target |-> target, risk |-> risk]
    BY <1>2 DEF VariableDecision
  <2> HIDE DEF side, up, entry, stop, target, risk
  <2>5. QED
    BY <2>1, <2>2, <2>3, <2>4 DEF Decision
<1>3. QED
  BY <1>1, <1>2

(* What the model says, and what stands in for it, is normalized.          *)
LEMMA NormalizedType ==
  ASSUME NEW a,
         a.entry \in Int, a.stop \in Int, a.target \in Int,
         a.confidence \in Int, a.risk \in Int
  PROVE  /\ Normalized(a) \in Decision
         /\ Normalized(a).action = "open_position" => Normalized(a).side # "none"
<1> DEFINE side == IF a.side \in {"buy", "sell"} THEN a.side ELSE "none"
<1>1. side \in Sides
  BY DEF Sides
<1>2. Clamp(a.confidence, 0, 10000) \in Nat
  BY ClampNat
<1>3. Larger(0, a.risk) \in Nat
  BY SMT DEF Larger
<1> HIDE DEF side
<1>4. Normalized(a) =
        [action |-> IF a.action = "open_position" /\ side # "none"
                      THEN "open_position" ELSE "hold",
         side |-> side, confidence |-> Clamp(a.confidence, 0, 10000),
         entry |-> a.entry, stop |-> a.stop, target |-> a.target,
         risk |-> Larger(0, a.risk)]
  BY DEF Normalized, side
<1>5. QED
  BY <1>1, <1>2, <1>3, <1>4 DEF Decision

(* A decision the policy lets pass has no reason of the policy against it. *)
LEMMA GuardedPasses ==
  ASSUME NEW s, NEW d \in Decision,
         d.action = "open_position" => d.side # "none"
  PROVE  /\ Guarded(s, d) \in Decision
         /\ Guarded(s, d).action = "open_position" =>
              Guarded(s, d).side # "none" /\ PolicyReasons(s, Guarded(s, d)) = {}
<1>1. CASE PolicyReasons(s, d) # {} \/ d.action = "hold"
  <2> DEFINE side == IF PolicyReasons(s, d) = {} THEN d.side ELSE "none"
  <2>1. Guarded(s, d) = [NoDecision EXCEPT !.confidence = d.confidence, !.side = side]
    BY <1>1 DEF Guarded
  <2>2. d.confidence \in Nat /\ side \in Sides
    BY DEF Decision, Sides
  <2> HIDE DEF side
  <2>3. Guarded(s, d) = [action |-> "hold", side |-> side, confidence |-> d.confidence,
                         entry |-> NoPrice, stop |-> NoPrice, target |-> NoPrice,
                         risk |-> 0]
    BY <2>1 DEF NoDecision
  <2>4. Guarded(s, d) \in Decision
    BY <2>2, <2>3 DEF Decision, NoPrice
  <2>5. Guarded(s, d).action = "hold"
    BY <2>3
  <2>6. QED
    BY <2>4, <2>5
<1>2. CASE PolicyReasons(s, d) = {} /\ d.action # "hold"
  <2>1. Guarded(s, d) = d
    BY <1>2 DEF Guarded
  <2>2. QED
    BY <1>2, <2>1
<1>3. QED
  BY <1>1, <1>2

-----------------------------------------------------------------------------
(* The governor.                                                           *)

(* The floor, the cap and the step that may be lost all stay within the    *)
(* money at risk.                                                          *)
LEMMA LotsBounded ==
  ASSUME NEW s \in Scenes, NEW d \in Decision, NEW lot \in Lots(s, d),
         d.risk <= s.settings.max_risk
  PROVE  /\ lot \in 0..s.settings.max_lot
         /\ 100 * lot * Magnitude(d.entry - d.stop)
              <= s.account.equity * s.settings.max_risk * PerUnit
<1> DEFINE equity == s.account.equity
           dist == Magnitude(d.entry - d.stop)
           step == s.settings.lot_step
           money == equity * d.risk * PerUnit
           unit == 100 * dist * step
<1>1. equity \in Nat /\ d.risk \in Nat /\ PerUnit \in Nat /\ step \in Nat \ {0}
      /\ s.settings.max_lot \in Nat /\ s.settings.max_risk \in Nat
  BY SceneTypes, UnitAssumption, SettingsNat DEF Decision
<1>2. d.entry \in Int /\ d.stop \in Int
  BY DEF Decision
<1>3. dist \in Nat
  BY <1>2, MagnitudeNat
<1> HIDE DEF equity, dist, step
<1>4. money \in Nat /\ money <= equity * s.settings.max_risk * PerUnit
  <2>1. equity * d.risk \in Nat /\ equity * s.settings.max_risk \in Nat
    BY <1>1, NatProduct
  <2>2. equity * d.risk <= equity * s.settings.max_risk
    BY <1>1, SMT
  <2>3. QED
    BY <2>1, <2>2, <1>1, NatProduct, ProductMonotone
<1>5. CASE d.entry = d.stop
  <2>1. lot = 0
    BY <1>5 DEF Lots
  <2>2. 100 * lot * dist = 0
    BY <2>1, <1>3, SMT
  <2>3. QED
    BY <2>1, <2>2, <1>1, <1>4, SMT DEF equity, dist
<1>6. CASE d.entry # d.stop
  <2>1. dist \in Nat \ {0}
    BY <1>2, <1>6, MagnitudeNat DEF dist
  <2>2. unit \in Nat \ {0}
    BY <2>1, <1>1, PositiveProduct
  <2>3. Steps(s, d) = money \div unit
    BY DEF Steps, MoneyAtRisk, StepLoss, equity, dist, step
  <2> HIDE DEF money
  <2>4. Steps(s, d) \in Nat /\ Steps(s, d) * unit <= money
    BY <2>2, <2>3, <1>4, Floor
  <2>5. PICK n \in {Steps(s, d), Larger(0, Steps(s, d) - 1)} :
               lot = Smaller(n * step, s.settings.max_lot)
    BY <1>6 DEF Lots, step
  <2>6. n \in Nat /\ n <= Steps(s, d)
    BY <2>4, <2>5, SMT DEF Larger
  <2>7. n * step \in Nat
    BY <2>6, <1>1, NatProduct
  <2>8. lot \in Nat /\ lot <= n * step /\ lot <= s.settings.max_lot
    BY <2>5, <2>7, <1>1, SMT DEF Smaller
  <2>9. 100 * lot * dist <= 100 * (n * step) * dist
    <3>1. 100 * lot \in Nat /\ 100 * (n * step) \in Nat /\ 100 * lot <= 100 * (n * step)
      BY <2>7, <2>8, SMT
    <3>2. QED
      BY <3>1, <1>3, ProductMonotone
  <2>10. 100 * (n * step) * dist = n * unit
    BY <2>6, <1>1, <1>3, SMT
  <2>11. n * unit <= Steps(s, d) * unit
    BY <2>2, <2>4, <2>6, ProductMonotone
  <2>12. 100 * lot * dist <= equity * s.settings.max_risk * PerUnit
    <3>1. 100 * lot * dist \in Nat /\ n * unit \in Nat /\ Steps(s, d) * unit \in Nat
          /\ equity * s.settings.max_risk * PerUnit \in Nat
      BY <1>1, <1>3, <2>2, <2>4, <2>6, <2>8, NatProduct
    <3>2. 100 * lot * dist <= n * unit
      BY <2>9, <2>10
    <3> HIDE DEF unit
    <3>3. QED
      BY <3>1, <3>2, <1>4, <2>4, <2>11, SMT
  <2>13. QED
    BY <2>8, <2>12, <1>1 DEF equity, dist
<1>7. QED
  BY <1>5, <1>6

(* Whatever the policy lets pass, the governor does not reject for one of  *)
(* the reasons the two share.                                              *)
LEMMA PolicyCoversGovernor ==
  ASSUME NEW s, NEW d, d.side # "none", PolicyReasons(s, d) = {}
  PROVE  Vetoes(s, d) \cap {"missing_side", "confidence_below_minimum",
                            "risk_percent_out_of_bounds", "spread_above_limit"} = {}
<1>1. ~(s.market.spread > s.settings.max_spread)
  BY DEF PolicyReasons, When
<1>2. ~(d.confidence < s.settings.min_confidence)
  BY DEF PolicyReasons, When
<1>3. ~(d.risk = 0 \/ d.risk > s.settings.max_risk)
  BY DEF PolicyReasons, When
<1>4. Vetoes(s, d) \subseteq
        {"missing_stop_loss", "missing_take_profit", "missing_entry_price",
         "too_many_open_positions", "symbol_already_has_open_paper_position",
         "open_risk_above_limit", "daily_loss_limit_reached",
         "free_margin_below_limit"}
  BY <1>1, <1>2, <1>3 DEF Vetoes, When
<1>5. QED
  BY <1>4

(* Everything that follows from a verdict.                                 *)
LEMMA VerdictImplies ==
  ASSUME NEW s \in Scenes, NEW d \in Decision, NEW v \in Verdicts(s, d)
  PROVE  /\ v.approved \in {"no", "yes"} /\ v.lot \in 0..s.settings.max_lot
         /\ v.approved = "no" => v.lot = 0
         /\ v.approved = "yes" =>
              /\ d.action = "open_position"
              /\ \/ 100 * v.lot * Magnitude(d.entry - d.stop)
                      <= s.account.equity * s.settings.max_risk * PerUnit
                 \/ /\ s.settings.allow_min_lot
                    /\ v.lot = Smaller(s.settings.min_lot, s.settings.max_lot)
         /\ d.action = "open_position" /\ d.side # "none" /\ PolicyReasons(s, d) = {} =>
              v.reasons \cap {"missing_side", "confidence_below_minimum",
                              "risk_percent_out_of_bounds", "spread_above_limit"} = {}
<1>1. s.settings.max_lot \in Nat /\ s.settings.min_lot \in Nat /\ s.settings.max_risk \in Nat
  BY SettingsNat
<1>2. \A reasons : /\ Rejected(reasons).approved = "no" /\ Rejected(reasons).lot = 0
                   /\ Rejected(reasons).reasons = reasons
  BY DEF Rejected
<1>3. \A lot : /\ Approved(lot).approved = "yes" /\ Approved(lot).lot = lot
               /\ Approved(lot).reasons = {}
  BY DEF Approved
<1>4. 0 \in 0..s.settings.max_lot
  BY <1>1
<1>5. CASE d.action = "hold"
  <2>1. v = Rejected({"planner_chose_hold"})
    BY <1>5 DEF Verdicts
  <2>2. QED
    BY <2>1, <1>2, <1>4, <1>5
<1>6. CASE d.action # "hold" /\ Vetoes(s, d) # {}
  <2>1. v = Rejected(Vetoes(s, d))
    BY <1>6 DEF Verdicts
  <2>2. QED
    BY <2>1, <1>2, <1>4, PolicyCoversGovernor
<1>7. CASE d.action # "hold" /\ Vetoes(s, d) = {}
  <2>1. PICK lot \in Lots(s, d) : v = Sized(s, lot)
    BY <1>7 DEF Verdicts
  <2>2. d.action = "open_position"
    BY <1>7 DEF Decision
  <2>3. d.risk <= s.settings.max_risk
    <3>1. ~(d.risk > s.settings.max_risk)
      BY <1>7 DEF Vetoes, When
    <3>2. d.risk \in Nat
      BY DEF Decision
    <3>3. QED
      BY <3>1, <3>2, <1>1
  <2>4. /\ lot \in 0..s.settings.max_lot
        /\ 100 * lot * Magnitude(d.entry - d.stop)
             <= s.account.equity * s.settings.max_risk * PerUnit
    BY <2>3, LotsBounded
  <2>5. CASE lot >= s.settings.min_lot
    <3>1. v = Approved(lot)
      BY <2>1, <2>5 DEF Sized
    <3>2. QED
      BY <3>1, <1>3, <2>2, <2>4
  <2>6. CASE ~(lot >= s.settings.min_lot) /\ s.settings.allow_min_lot
    <3>1. v = Approved(Smaller(s.settings.min_lot, s.settings.max_lot))
      BY <2>1, <2>6 DEF Sized
    <3>2. Smaller(s.settings.min_lot, s.settings.max_lot) \in 0..s.settings.max_lot
      BY <1>1, SMT DEF Smaller
    <3>3. QED
      BY <3>1, <3>2, <1>3, <2>2, <2>6
  <2>7. CASE ~(lot >= s.settings.min_lot) /\ ~s.settings.allow_min_lot
    <3>1. v = Rejected({"computed_lot_below_minimum"})
      BY <2>1, <2>7 DEF Sized
    <3>2. QED
      BY <3>1, <1>2, <1>4
  <2>8. QED
    BY <2>5, <2>6, <2>7
<1>8. QED
  BY <1>5, <1>6, <1>7

-----------------------------------------------------------------------------
(* The inductive invariant.                                                *)

LEMMA InitInv == Init => IInv
<1> SUFFICES ASSUME Init PROVE IInv
  OBVIOUS
<1>1. NoDecision \in Decision
  BY NoDecisionType
<1>3. TypeOK
  BY <1>1 DEF Init, TypeOK, NoVerdict, NoOrder, Sides
<1>4. ~Ordered
  BY DEF Init, Ordered, NoOrder
<1>5. QED
  BY <1>3, <1>4, NoDecisionType DEF Init, IInv, PathInv, OrderWithinRisk, PolicyAnswersForGovernor

LEMMA ObserveInv == IInv /\ Observe => IInv'
<1> SUFFICES ASSUME IInv, Observe PROVE IInv'
  OBVIOUS
<1> USE DEF IInv, Observe
<1>1. TypeOK'
  <2>1. scene' # NoScene /\ scene'.settings.max_lot \in Nat
    BY SceneAssumption, SettingsNat
  <2>2. verdict = NoVerdict
    BY DEF PathInv
  <2>3. QED
    BY <2>1, <2>2 DEF TypeOK, NoVerdict
<1>2. PathInv'
  BY DEF PathInv, Ordered, NoOrder
<1>3. ~Ordered'
  BY DEF PathInv, Ordered, NoOrder
<1>4. PolicyAnswersForGovernor'
  BY DEF PathInv, PolicyAnswersForGovernor
<1>5. QED
  BY <1>1, <1>2, <1>3, <1>4 DEF OrderWithinRisk

(* The three ways to a decision have this in common.                       *)
LEMMA DecidedInv ==
  ASSUME IInv, pc = "decide", NEW from, NEW d \in Decision, Decided(from, d),
         from \in {"variable", "ai", "fail_closed", "fallback"},
         from = "variable" => scene.settings.planner = "variable",
         from = "fail_closed" => d.action = "hold",
         from = "fallback" => ~scene.settings.fail_closed,
         from \in {"ai", "fallback"} /\ d.action = "open_position" =>
           d.side # "none" /\ PolicyReasons(scene, d) = {}
  PROVE  IInv'
<1>1. verdict = NoVerdict /\ order = NoOrder /\ verdict' = NoVerdict /\ order' = NoOrder
  BY DEF IInv, PathInv, Decided
<1>2. TypeOK'
  BY DEF IInv, TypeOK, Decided
<1>3. ~Ordered'
  BY <1>1 DEF Ordered, NoOrder
<1>4. PathInv'
  <2>1. (source \in {"ai", "fallback"} /\ decision.action = "open_position" =>
           decision.side # "none" /\ PolicyReasons(scene, decision) = {})'
    BY DEF Decided
  <2>2. scene \in Scenes
    BY DEF IInv, PathInv
  <2>3. QED
    BY <1>1, <1>3, <2>1, <2>2 DEF PathInv, Decided
<1>5. PolicyAnswersForGovernor'
  BY <1>1 DEF PolicyAnswersForGovernor, NoVerdict
<1>6. QED
  BY <1>2, <1>3, <1>4, <1>5 DEF IInv, OrderWithinRisk

LEMMA DecideInv ==
  IInv /\ (DecideVariable \/ DecideAI \/ DecideOnError) => IInv'
<1> SUFFICES ASSUME IInv, DecideVariable \/ DecideAI \/ DecideOnError PROVE IInv'
  OBVIOUS
<1>1. pc = "decide"
  BY DEF DecideVariable, DecideAI, DecideOnError
<1>2. scene \in Scenes
  BY <1>1 DEF IInv, PathInv
<1>3. VariableDecision(scene) \in Decision
  BY <1>2, VariableDecisionType
<1>4. CASE DecideVariable
  BY <1>1, <1>3, <1>4, DecidedInv DEF DecideVariable
<1>5. CASE DecideAI
  <2>1. PICK a \in Answers : Decided("ai", Guarded(scene, Normalized(a)))
    BY <1>5 DEF DecideAI
  <2>2. /\ Normalized(a) \in Decision
        /\ Normalized(a).action = "open_position" => Normalized(a).side # "none"
    BY AnswerAssumption, NormalizedType
  <2>3. QED
    BY <1>1, <2>1, <2>2, GuardedPasses, DecidedInv
<1>6. CASE DecideOnError
  <2> DEFINE answer == AnswerToError(scene)
             d == Guarded(scene, Normalized(answer.payload))
  <2>1. answer.payload \in {NoDecision, VariableDecision(scene)}
    BY DEF AnswerToError
  <2>2. answer.payload \in Decision
    BY <2>1, <1>3, NoDecisionType
  <2>3. /\ Normalized(answer.payload) \in Decision
        /\ Normalized(answer.payload).action = "open_position" =>
             Normalized(answer.payload).side # "none"
    <3>1. answer.payload.entry \in Int /\ answer.payload.stop \in Int
          /\ answer.payload.target \in Int /\ answer.payload.confidence \in Int
          /\ answer.payload.risk \in Int
      BY <2>2 DEF Decision
    <3>2. QED
      BY <3>1, NormalizedType
  <2>4. /\ answer.source \in {"fail_closed", "fallback"}
        /\ answer.source = "fallback" => ~scene.settings.fail_closed
        /\ answer.source = "fail_closed" => answer.payload = NoDecision
    BY DEF AnswerToError
  <2>5. Decided(answer.source, d)
    BY <1>6 DEF DecideOnError
  <2>6. /\ d \in Decision
        /\ d.action = "open_position" => d.side # "none" /\ PolicyReasons(scene, d) = {}
    BY <2>3, GuardedPasses
  <2>7. answer.source = "fail_closed" => d.action = "hold"
    <3>1. Normalized(NoDecision).action = "hold"
      BY DEF Normalized, NoDecision
    <3>2. Normalized(NoDecision).action = "hold" =>
            Guarded(scene, Normalized(NoDecision)).action = "hold"
      BY DEF Guarded, NoDecision
    <3>3. QED
      BY <2>4, <3>1, <3>2
  <2> HIDE DEF answer, d
  <2>8. QED
    BY <1>1, <2>4, <2>5, <2>6, <2>7, DecidedInv
<1>7. QED
  BY <1>4, <1>5, <1>6

LEMMA DecideRaisesInv == IInv /\ DecideRaises => IInv'
<1> SUFFICES ASSUME IInv, DecideRaises PROVE IInv'
  OBVIOUS
<1> USE DEF IInv, DecideRaises
<1>1. TypeOK'
  BY DEF TypeOK
<1>2. ~Ordered'
  BY DEF PathInv, Ordered, NoOrder
<1>3. PathInv'
  BY <1>2 DEF PathInv
<1>4. PolicyAnswersForGovernor'
  BY DEF PathInv, PolicyAnswersForGovernor
<1>5. QED
  BY <1>1, <1>2, <1>3, <1>4 DEF OrderWithinRisk

LEMMA GovernInv == IInv /\ Govern => IInv'
<1> SUFFICES ASSUME IInv, Govern PROVE IInv'
  OBVIOUS
<1>1. scene \in Scenes /\ decision \in Decision /\ verdict' \in Verdicts(scene, decision)
  BY DEF IInv, TypeOK, PathInv, Govern
<1>2. UNCHANGED <<scene, source, decision>> /\ pc' = "done"
  BY DEF Govern
<1>3. scene.settings.max_lot \in Nat
  BY <1>1, SettingsNat
<1>4. /\ order'.volume = verdict'.lot /\ order'.side \in Sides
      /\ verdict'.approved = "yes" => /\ order'.entry = decision.entry
                                      /\ order'.stop = decision.stop
                                      /\ order'.volume = verdict'.lot
      /\ verdict'.approved = "no" => order'.volume = 0
  BY <1>1, VerdictImplies DEF Govern, NoOrder, Decision, Sides
<1>5. TypeOK'
  BY <1>1, <1>2, <1>4, VerdictImplies DEF IInv, TypeOK, Govern
<1>6. Ordered' => verdict'.approved = "yes"
  BY <1>1, <1>4, VerdictImplies DEF Ordered
<1>7. PathInv'
  <2>1. (source \in {"ai", "fallback"} /\ decision.action = "open_position" =>
           decision.side # "none" /\ PolicyReasons(scene, decision) = {})'
    BY <1>2 DEF IInv, PathInv
  <2>2. Ordered' => decision'.action = "open_position"
    BY <1>1, <1>2, <1>6, VerdictImplies
  <2>3. QED
    BY <1>2, <2>1, <2>2 DEF IInv, PathInv, Govern
<1>8. OrderWithinRisk'
  BY <1>1, <1>2, <1>4, <1>6, VerdictImplies DEF OrderWithinRisk
<1>9. PolicyAnswersForGovernor'
  BY <1>1, <1>2, VerdictImplies DEF IInv, PathInv, PolicyAnswersForGovernor
<1>10. QED
  BY <1>5, <1>7, <1>8, <1>9 DEF IInv

LEMMA LeaveInv == IInv /\ Leave => IInv'
<1> SUFFICES ASSUME IInv, Leave PROVE IInv'
  OBVIOUS
<1> USE DEF Leave
<1>2. TypeOK'
  BY NoDecisionType DEF TypeOK, NoVerdict, NoOrder, Sides
<1>3. ~Ordered'
  BY DEF Ordered, NoOrder
<1>4. PathInv'
  BY <1>3, NoDecisionType DEF PathInv
<1>5. PolicyAnswersForGovernor'
  BY DEF PolicyAnswersForGovernor
<1>6. QED
  BY <1>2, <1>3, <1>4, <1>5 DEF IInv, OrderWithinRisk

LEMMA StutterInv == IInv /\ UNCHANGED vars => IInv'
  BY DEF vars, IInv, TypeOK, PathInv, Ordered, OrderWithinRisk, PolicyAnswersForGovernor

(* IInv holds in every reachable state.                                    *)
THEOREM Invariance == Spec => []IInv
<1>1. IInv /\ [Next]_vars => IInv'
  BY ObserveInv, DecideInv, DecideRaisesInv, GovernInv, LeaveInv, StutterInv DEF Next
<1>2. QED
  BY InitInv, <1>1, PTL DEF Spec

(* The state keeps its shape, and no lot is above the largest allowed.     *)
THEOREM TypeCorrect == Spec => []TypeOK
<1>1. IInv => TypeOK
  BY DEF IInv
<1>2. QED
  BY Invariance, <1>1, PTL

(* An order's loss at its stop is within max_risk_per_trade_percent of the *)
(* equity, or its volume is the minimum lot that the settings allow: the   *)
(* floor, the cap and the float error of _position_size never exceed it.   *)
THEOREM OrderRisk == Spec => []OrderWithinRisk
<1>1. IInv => OrderWithinRisk
  BY DEF IInv
<1>2. QED
  BY Invariance, <1>1, PTL

(* DecisionPolicy.apply leaves the governor none of the reasons the two    *)
(* share: each is in the decision already.                                 *)
THEOREM PolicyAnswers == Spec => []PolicyAnswersForGovernor
<1>1. IInv => PolicyAnswersForGovernor
  BY DEF IInv
<1>2. QED
  BY Invariance, <1>1, PTL

(* With fail_closed, an AI planner's order comes from the model's answer.  *)
THEOREM NoOrderWithoutModel == Spec => []FailsClosed
<1>1. IInv => FailsClosed
  BY DEF IInv, TypeOK, PathInv, FailsClosed
<1>2. QED
  BY Invariance, <1>1, PTL

(* A live order of the AI planner has min_live_memory_samples behind it.   *)
THEOREM LiveOrderHasMemory == Spec => []LiveNeedsMemory
<1>1. IInv => LiveNeedsMemory
  <2> SUFFICES ASSUME IInv, scene.settings.mode = "live", scene.settings.planner = "ai",
                      scene.settings.require_memory, Ordered
               PROVE  scene.memory.samples >= scene.settings.min_live_samples
    BY DEF LiveNeedsMemory
  <2>1. decision.action = "open_position" /\ source \in {"ai", "fallback"}
    BY DEF IInv, TypeOK, PathInv
  <2>2. PolicyReasons(scene, decision) = {}
    BY <2>1 DEF IInv, PathInv
  <2>3. ~(scene.memory.samples < scene.settings.min_live_samples)
    BY <2>2 DEF PolicyReasons, When
  <2>4. scene \in Scenes
    BY DEF IInv, TypeOK, PathInv, Ordered, NoOrder
  <2>5. QED
    BY <2>3, <2>4, SceneTypes, SettingsNat
<1>2. QED
  BY Invariance, <1>1, PTL

-----------------------------------------------------------------------------
(* The stop and the target of the variable planner.                        *)

LEMMA DistancesPositive ==
  ASSUME RoomForStops, NEW s \in Scenes
  PROVE  StopDistance(s) \in Nat \ {0} /\ TargetDistance(s) \in Nat \ {0}
<1> DEFINE atrs == IF Selected(s) THEN s.playbook.sl_atr ELSE 15
           ratio == IF Selected(s) THEN s.playbook.tp_r ELSE s.settings.reward_risk
           least == s.settings.min_sl
<1>1. atrs \in Nat /\ s.market.atr \in Nat
  BY SceneTypes
<1>2. ratio \in Nat \ {0} /\ least \in Nat \ {0}
  BY SceneTypes, SettingsNat DEF RoomForStops
<1>3. StopDistance(s) = Larger(s.market.atr * atrs * 10, least * 100)
  BY DEF StopDistance
<1>4. TargetDistance(s) = (StopDistance(s) * ratio) \div 10
  BY DEF TargetDistance
<1> HIDE DEF atrs, ratio, least
<1>5. s.market.atr * atrs \in Nat
  BY <1>1, NatProduct
<1>6. StopDistance(s) \in Nat /\ StopDistance(s) >= 10
  BY <1>2, <1>3, <1>5, SMT DEF Larger
<1>7. StopDistance(s) * ratio \in Nat /\ StopDistance(s) * ratio >= 10
  <2>1. 10 * ratio <= StopDistance(s) * ratio
    BY <1>2, <1>6, ProductMonotone
  <2>2. StopDistance(s) * ratio \in Nat
    BY <1>2, <1>6, NatProduct
  <2>3. QED
    BY <1>2, <2>1, <2>2
<1>8. TargetDistance(s) \in Nat \ {0}
  <2> DEFINE gain == StopDistance(s) * ratio
  <2>1. gain \in Nat /\ gain >= 10
    BY <1>7
  <2> HIDE DEF gain
  <2>2. gain \div 10 \in Nat \ {0}
    BY <2>1, SMT
  <2>3. QED
    BY <1>4, <2>2 DEF gain
<1>9. QED
  BY <1>6, <1>8

LEMMA VariableProtects ==
  ASSUME RoomForStops, NEW s \in Scenes, VariableDecision(s).action = "open_position"
  PROVE  Protective(VariableDecision(s)) /\ VariableDecision(s).side \in {"buy", "sell"}
<1> DEFINE side == Direction(s)
           up == IF side = "buy" THEN 1 ELSE -1
           entry == IF side = "buy" THEN s.market.ask ELSE s.market.bid
           stop == entry - up * StopDistance(s)
           target == entry + up * TargetDistance(s)
           risk == IF Selected(s) THEN s.playbook.risk ELSE s.settings.default_risk
<1>1. ~VariableHolds(s)
  BY DEF VariableDecision, NoDecision
<1>2. side \in {"buy", "sell"}
  BY <1>1 DEF VariableHolds, Direction
<1>3. entry \in Int /\ StopDistance(s) \in Nat \ {0} /\ TargetDistance(s) \in Nat \ {0}
  BY SceneTypes, DistancesPositive
<1>4. VariableDecision(s) =
        [action |-> "open_position", side |-> side, confidence |-> Confidence(s),
         entry |-> entry, stop |-> stop, target |-> target, risk |-> risk]
  BY <1>1 DEF VariableDecision
<1> HIDE DEF side, entry, risk
<1>5. CASE side = "buy"
  <2>1. stop < entry /\ entry < target
    BY <1>3, <1>5, SMT
  <2> HIDE DEF stop, target
  <2>2. QED
    BY <1>4, <1>5, <2>1 DEF Protective
<1>6. CASE side = "sell"
  <2>1. stop > entry /\ entry > target
    BY <1>3, <1>6, SMT
  <2> HIDE DEF stop, target
  <2>2. QED
    BY <1>4, <1>6, <2>1 DEF Protective
<1>7. QED
  BY <1>2, <1>5, <1>6

(* Neither the normalization nor the policy moves a price of the variable  *)
(* planner that they let pass.                                             *)
LEMMA FallbackProtects ==
  ASSUME RoomForStops, NEW s \in Scenes, NEW d,
         d = Guarded(s, Normalized(VariableDecision(s))), d.action = "open_position"
  PROVE  Protective(d)
<1> DEFINE v == VariableDecision(s)
           n == Normalized(v)
<1>1. d = n /\ n.action = "open_position"
  BY DEF Guarded, NoDecision
<1>2. v.action = "open_position" /\ v.side \in {"buy", "sell"}
  BY <1>1 DEF Normalized
<1>3. Protective(v)
  BY <1>2, VariableProtects
<1>4. n.side = v.side /\ n.entry = v.entry /\ n.stop = v.stop /\ n.target = v.target
  BY <1>2 DEF Normalized
<1>5. QED
  BY <1>1, <1>3, <1>4 DEF Protective

LEMMA StopsStep ==
  ASSUME RoomForStops, IInv, StopsInv, [Next]_vars
  PROVE  StopsInv'
<1>1. CASE Observe \/ DecideRaises
  <2>1. decision.action = "hold" /\ ~Ordered
    BY <1>1, NoDecisionType DEF Observe, DecideRaises, IInv, PathInv, Ordered, NoOrder
  <2>2. decision' = decision /\ order' = order
    BY <1>1 DEF Observe, DecideRaises
  <2>3. QED
    BY <2>1, <2>2 DEF StopsInv, Ordered
<1>2. ASSUME NEW from, NEW d, pc = "decide", Decided(from, d),
             from \in {"variable", "fallback"} /\ d.action = "open_position" => Protective(d)
      PROVE  StopsInv'
  <2>1. ~Ordered
    BY <1>2 DEF IInv, PathInv, Ordered, NoOrder
  <2>2. order' = order /\ source' = from /\ decision' = d
    BY <1>2 DEF Decided
  <2>3. QED
    BY <1>2, <2>1, <2>2 DEF StopsInv, Ordered
<1>3. ASSUME pc = "decide" PROVE scene \in Scenes
  BY <1>3 DEF IInv, PathInv
<1>4. CASE DecideVariable
  BY <1>2, <1>3, <1>4, VariableProtects DEF DecideVariable
<1>5. CASE DecideAI
  BY <1>2, <1>5 DEF DecideAI
<1>6. CASE DecideOnError
  <2> DEFINE answer == AnswerToError(scene)
             d == Guarded(scene, Normalized(answer.payload))
  <2>1. pc = "decide" /\ Decided(answer.source, d)
    BY <1>6 DEF DecideOnError
  <2>2. /\ answer.source \in {"fail_closed", "fallback"}
        /\ answer.source = "fallback" => answer.payload = VariableDecision(scene)
    BY DEF AnswerToError
  <2>3. answer.source = "fallback" /\ d.action = "open_position" => Protective(d)
    BY <1>3, <2>1, <2>2, FallbackProtects
  <2> HIDE DEF answer, d
  <2>4. QED
    BY <1>2, <2>1, <2>2, <2>3
<1>7. CASE Govern
  <2>1. UNCHANGED <<source, decision>>
    BY <1>7 DEF Govern
  <2>2. Ordered' =>
          /\ order'.side = decision.side /\ order'.entry = decision.entry
          /\ order'.stop = decision.stop /\ order'.target = decision.target
    <3>1. CASE verdict'.approved = "yes"
      BY <1>7, <3>1 DEF Govern
    <3>2. CASE verdict'.approved # "yes"
      BY <1>7, <3>2 DEF Govern, Ordered, NoOrder
    <3>3. QED
      BY <3>1, <3>2
  <2>3. QED
    BY <2>1, <2>2 DEF StopsInv
<1>8. CASE Leave
  BY <1>8 DEF Leave, StopsInv, Ordered, NoOrder
<1>9. CASE UNCHANGED vars
  BY <1>9 DEF vars, StopsInv, Ordered
<1>10. QED
  BY <1>1, <1>4, <1>5, <1>6, <1>7, <1>8, <1>9 DEF Next

(* Where the settings leave room, an order that the variable planner       *)
(* decided, also in the model's place, has its stop on the losing side and *)
(* its target on the gaining one.                                          *)
THEOREM StopsProtect ==
  ASSUME RoomForStops
  PROVE  Spec => []ProtectiveStops
<1>1. Init => StopsInv
  BY DEF Init, StopsInv, Ordered, NoOrder
<1>2. IInv /\ StopsInv /\ [Next]_vars => StopsInv'
  BY StopsStep
<1>3. IInv /\ StopsInv => ProtectiveStops
  <2> SUFFICES ASSUME IInv, StopsInv, Ordered, source # "ai" PROVE ProtectiveStops
    BY DEF ProtectiveStops
  <2>1. source \in {"variable", "fallback"} /\ decision.action = "open_position"
    BY DEF IInv, TypeOK, PathInv
  <2>2. QED
    BY <2>1 DEF StopsInv, Protective, ProtectiveStops
<1>4. QED
  BY Invariance, <1>1, <1>2, <1>3, PTL DEF Spec

=============================================================================
