------------------------- MODULE MCDecisionPipeline -------------------------
(***************************************************************************)
(* DecisionPipeline for TLC: settings like those of configs/, scenes at    *)
(* and around the settings' limits, and answers of a model.                *)
(***************************************************************************)
EXTENDS DecisionPipeline

(* The defaults of AgentSettings.                                          *)
Defaults ==
  [mode |-> "paper", planner |-> "variable", fail_closed |-> TRUE,
   min_confidence |-> 6500, default_risk |-> 25, min_trend |-> 45,
   planner_max_spread |-> 40, analyst_can_veto |-> TRUE, min_sl |-> 120,
   reward_risk |-> 17, max_risk |-> 50, max_spread |-> 50, max_positions |-> 3,
   max_open_risk |-> 150, max_daily_loss |-> 200, min_free_margin |-> 30,
   lot_step |-> 1, min_lot |-> 1, max_lot |-> 100, allow_min_lot |-> FALSE,
   require_memory |-> TRUE, min_live_samples |-> 20]

PaperVariable == [Defaults EXCEPT !.allow_min_lot = TRUE]
PaperAI == [Defaults EXCEPT !.planner = "ai", !.fail_closed = FALSE]
LiveAI == [Defaults EXCEPT !.planner = "ai", !.mode = "live",
             !.max_positions = 1, !.max_lot = 20]

(* XAUUSD, where a contract of 1000 and points of 0.01 make it 10.         *)
Bid == 23000000

Market(trend, volatility, spread) ==
  [bid |-> Bid, ask |-> Bid + 100 * spread, spread |-> spread, atr |-> 100,
   trend |-> trend, volatility |-> volatility]

Markets == {Market(t, v, s) : t \in {-90, -45, 44, 80}, v \in {14, 15, 50},
                              s \in {10, 40, 51}}

Healthy == [equity |-> 10000, free_margin |-> 9500, daily_pnl |-> 0,
            open_risk |-> 0, positions |-> 0, on_symbol |-> 0]
Accounts == {Healthy,
             [Healthy EXCEPT !.equity = 100, !.free_margin = 30],
             [Healthy EXCEPT !.daily_pnl = -200],
             [Healthy EXCEPT !.free_margin = 2999],
             [Healthy EXCEPT !.positions = 1],
             [Healthy EXCEPT !.on_symbol = 1]}

Memories == {[samples |-> n, losing |-> l, weak |-> w] :
               n \in {19, 20}, l \in BOOLEAN,
               w \in {{}, {"bullish_market_structure"}, {"analyst_caution"}}}

Playbook(status, fits) ==
  [status |-> status, fits |-> fits, sl_atr |-> 20, tp_r |-> 25, risk |-> 50]
Playbooks == {Playbook("not_configured", FALSE), Playbook("training", TRUE),
              Playbook("live_tiny_allowed", TRUE),
              Playbook("live_tiny_allowed", FALSE)}

Analysts == {[adjustment |-> 0, avoid |-> FALSE, reasons |-> {}],
             [adjustment |-> 300, avoid |-> FALSE, reasons |-> {"analyst_caution"}],
             [adjustment |-> -500, avoid |-> TRUE, reasons |-> {}]}

ScenesOf(markets, accounts, memories, analysts, settings) ==
  {[market |-> m, account |-> a, memory |-> y, playbook |-> p, analyst |-> n,
    settings |-> x] :
     m \in markets, a \in accounts, y \in memories, p \in Playbooks,
     n \in analysts, x \in settings}

(* The variable planner looks at all but the account, which the governor   *)
(* looks at, and the number of samples, which the AI planner's policy does.*)
Strong == {m \in Markets : m.trend = 80 /\ m.volatility = 50}
Even == {y \in Memories : ~y.losing /\ y.weak = {}}
NoAdvice == {n \in Analysts : n.adjustment = 0}

VariableScenes ==
  ScenesOf(Markets, {Healthy}, {y \in Memories : y.samples = 20}, Analysts,
           {PaperVariable})
GovernedScenes ==
  ScenesOf(Markets, Accounts, {y \in Even : y.samples = 20}, NoAdvice, {PaperVariable})
FallbackScenes == ScenesOf(Strong, Accounts, Even, NoAdvice, {PaperAI})
LiveScenes == ScenesOf(Strong, Accounts, Even, NoAdvice, {LiveAI})

MCScenes == VariableScenes \cup GovernedScenes \cup FallbackScenes \cup LiveScenes

MCAnswers ==
  {[action |-> a, side |-> i, confidence |-> c, entry |-> Bid,
    stop |-> t, target |-> Bid + 30000, risk |-> r] :
     a \in {"hold", "open_position", "close_position"}, i \in {"buy", "none"},
     c \in {6499, 6500, 12000}, t \in {NoPrice, Bid - 15000, Bid, Bid + 3},
     r \in {-1, 0, 25, 50, 75}}

(* These are settings StopsProtect is about.                               *)
ASSUME RoomAssumption == RoomForStops

=============================================================================
