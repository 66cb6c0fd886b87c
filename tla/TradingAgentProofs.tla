------------------------- MODULE TradingAgentProofs -------------------------
(***************************************************************************)
(* Theorems about TradingAgent for every set of symbols, either store,     *)
(* with and without the cooldown, and for every bound.                     *)
(***************************************************************************)
EXTENDS TradingAgent, SetFacts

LEMMA InitInv == Init => IInv
<1> SUFFICES ASSUME Init PROVE IInv
  OBVIOUS
<1>1. TypeOK
  BY SymbolAssumption, BoundsAssumption DEF Init, TypeOK
<1>2. Reported = {}
  BY DEF Init, Reported
<1>3. OnePositionPerSymbol /\ OutcomeReportedOnce
  BY DEF Init, OnePositionPerSymbol, OutcomeReportedOnce
<1>4. LoopInv /\ FreshInv
  BY DEF Init, LoopInv, FreshInv
<1>5. ReportInv
  BY <1>2 DEF Init, ReportInv
<1>6. QED
  BY <1>1, <1>3, <1>4, <1>5 DEF IInv

-----------------------------------------------------------------------------
(* One lemma for the type invariant, with a step per action.               *)
LEMMA TypeStep ==
  ASSUME TypeOK, LoopInv, [Next]_vars
  PROVE  TypeOK'
<1> USE SymbolAssumption, BoundsAssumption
    DEF TypeOK, paperVars, memoryVars, cycleVars, ForgetCycle
<1>1. CASE StartAgent
  BY <1>1 DEF StartAgent
<1>2. CASE StopAgent
  BY <1>2 DEF StopAgent
<1>3. ASSUME NEW s \in Symbols, Snapshot(s) PROVE TypeOK'
  <2>1. hits' \subseteq Position
    BY <1>3 DEF Snapshot, On
  <2>2. QED
    BY <1>3, <2>1 DEF Snapshot
<1>4. CASE CooldownReconcile
  <2>1. open' \subseteq Position /\ closed' \subseteq Position /\ paperFile' = paperFile
    BY <1>4 DEF CooldownReconcile, ReconcilePaper
  <2>2. CASE On(open', symbol) = {}
    BY <1>4, <2>1, <2>2 DEF CooldownReconcile
  <2>3. CASE On(open', symbol) # {}
    BY <1>4, <2>1, <2>3 DEF CooldownReconcile
  <2>4. QED
    BY <2>2, <2>3
<1>5. CASE Reconcile
  <2>1. open' \subseteq Position /\ closed' \subseteq Position /\ paperFile' = paperFile
    BY <1>5 DEF Reconcile, ReconcilePaper
  <2>2. justClosed' \subseteq Position /\ counted' \subseteq Position
    BY <1>5, <2>1 DEF Reconcile, On
  <2>3. QED
    BY <1>5, <2>1, <2>2 DEF Reconcile
<1>6. CASE Decide
  <2>1. status' \in {"approved", "rejected"} /\ pc' \in {"open", "append"}
    BY <1>6 DEF Decide, RiskAnswers
  <2>2. decision' \in 0..MaxDecisions
    BY <1>6 DEF Decide, LoopInv
  <2>3. QED
    BY <1>6, <2>1, <2>2 DEF Decide
<1>7. CASE OpenPosition
  <2>1. [id |-> decision, symbol |-> symbol] \in Position
    BY <1>7 DEF OpenPosition, LoopInv, Position
  <2>2. open' \subseteq Position
    BY <1>7, <2>1 DEF OpenPosition
  <2>3. QED
    BY <1>7, <2>2 DEF OpenPosition
<1>8. CASE AppendRecord
  <2>1. CurrentRecord \in Record
    BY <1>8 DEF AppendRecord, LoopInv, CurrentRecord, Record
  <2>2. memory' \subseteq Record
    BY <1>8, <2>1 DEF AppendRecord
  <2>3. QED
    BY <1>8, <2>2 DEF AppendRecord
<1>9. CASE Index
  <2>1. indexed' \subseteq Decisions
    BY <1>9 DEF Index, LoopInv
  <2>2. QED
    BY <1>9, <2>1 DEF Index
<1>10. CASE UnreadablePaper
  BY <1>10 DEF UnreadablePaper
<1>11. CASE Fail
  BY <1>11 DEF Fail, Die
<1>12. CASE FailInPaperWrite
  BY <1>12 DEF FailInPaperWrite, Die
<1>13. CASE FailInAppend
  BY <1>13 DEF FailInAppend, Die
<1>14. CASE UNCHANGED vars
  BY <1>14 DEF vars
<1>15. QED
  BY <1>1, <1>2, <1>3, <1>4, <1>5, <1>6, <1>7, <1>8, <1>9, <1>10, <1>11,
     <1>12, <1>13, <1>14 DEF Next

-----------------------------------------------------------------------------
(* The inductive step.  Steps 1 to 9 take the actions of the loop in the   *)
(* order it performs them, step 10 those that only leave it.               *)

Rest == OnePositionPerSymbol /\ OutcomeReportedOnce /\ LoopInv /\ FreshInv
          /\ ReportInv

LEMMA ReconcileKeepsPositions ==
  ASSUME IInv, ReconcilePaper
  PROVE  /\ open' \subseteq open /\ closed \subseteq closed'
         /\ open' \cup closed' = open \cup closed
         /\ open' \cap closed' = {}
         /\ \A p, q \in open' : p.symbol = q.symbol => p = q
  BY DEF IInv, FreshInv, OnePositionPerSymbol, ReconcilePaper

LEMMA RestStep ==
  ASSUME IInv, [Next]_vars
  PROVE  Rest'
<1> USE DEF Rest, IInv, paperVars, memoryVars, cycleVars, ForgetCycle,
            OnePositionPerSymbol, OutcomeReportedOnce, Reported
<1>1. CASE StartAgent
  BY <1>1 DEF StartAgent, LoopInv, FreshInv, ReportInv
<1>2. CASE StopAgent
  BY <1>2 DEF StopAgent, LoopInv, FreshInv, ReportInv
<1>3. ASSUME NEW s \in Symbols, Snapshot(s) PROVE Rest'
  <2>1. LoopInv'
    BY <1>3 DEF Snapshot, LoopInv, On
  <2>2. FreshInv' /\ ReportInv'
    BY <1>3 DEF Snapshot, FreshInv, ReportInv
  <2>3. QED
    BY <1>3, <2>1, <2>2 DEF Snapshot
<1>4. CASE CooldownReconcile
  <2>1. /\ open' \cup closed' = open \cup closed
        /\ open' \cap closed' = {}
        /\ closed \subseteq closed'
        /\ \A p, q \in open' : p.symbol = q.symbol => p = q
        /\ paperFile' = paperFile
    BY <1>4, ReconcileKeepsPositions DEF CooldownReconcile, ReconcilePaper
  <2>2. /\ pc' \in {"reconcile", "poll"}
        /\ decision' = decision
        /\ memory' = memory
        /\ justClosed' = {}
    BY <1>4 DEF CooldownReconcile, ReportInv
  <2>3. LoopInv'
    BY <1>4, <2>2 DEF CooldownReconcile, LoopInv
  <2>4. FreshInv'
    BY <2>1, <2>2 DEF FreshInv
  <2>5. ReportInv'
    BY <2>1, <2>2 DEF ReportInv
  <2>6. QED
    BY <2>1, <2>2, <2>3, <2>4, <2>5
<1>5. CASE Reconcile
  <2>1. /\ open' \cup closed' = open \cup closed
        /\ open' \cap closed' = {}
        /\ closed \subseteq closed'
        /\ \A p, q \in open' : p.symbol = q.symbol => p = q
        /\ paperFile' = paperFile
    BY <1>5, ReconcileKeepsPositions DEF Reconcile, ReconcilePaper
  <2>2. pc' = "decide" /\ decision' = decision /\ memory' = memory
    BY <1>5 DEF Reconcile
  <2>3. LoopInv'
    BY <1>5, <2>2 DEF Reconcile, LoopInv, ReconcilePaper, On
  <2>4. FreshInv'
    BY <2>1, <2>2 DEF FreshInv
  <2>5. justClosed' \subseteq closed' /\ justClosed' \cap closed = {}
    BY <1>5 DEF Reconcile, ReconcilePaper, FreshInv
  <2>6. \A p, q \in justClosed' : p = q
    BY <1>5 DEF Reconcile, LoopInv
  <2>7. ReportInv'
    BY <1>5, <2>1, <2>2, <2>5, <2>6 DEF Reconcile, ReconcilePaper, ReportInv
  <2>8. QED
    BY <2>1, <2>2, <2>3, <2>4, <2>7
<1>6. CASE Decide
  <2>1. LoopInv'
    <3>1. decision' \in Decisions
      BY <1>6, BoundsAssumption DEF Decide, LoopInv, TypeOK, Decisions
    <3>2. status' = "approved" => On(open', symbol') = {}
      BY <1>6 DEF Decide, LoopInv, RiskAnswers, On
    <3>3. status' \in {"approved", "rejected"} /\ paperFile' = "valid"
      BY <1>6 DEF Decide, LoopInv, RiskAnswers
    <3>4. pc' = IF status' = "approved" THEN "open" ELSE "append"
      BY <1>6 DEF Decide
    <3>5. QED
      BY <3>1, <3>2, <3>3, <3>4 DEF LoopInv
  <2>2. FreshInv'
    BY <1>6 DEF Decide, FreshInv, TypeOK, Position, Decisions
  <2>3. ReportInv'
    BY <1>6 DEF Decide, ReportInv, RiskAnswers
  <2>4. QED
    BY <1>6, <2>1, <2>2, <2>3 DEF Decide
<1>7. CASE OpenPosition
  <2> DEFINE new == [id |-> decision, symbol |-> symbol]
  <2>1. new.id = decision /\ new.symbol = symbol
    OBVIOUS
  <2>2. /\ open' = open \cup {new}
        /\ pc' = "append"
        /\ UNCHANGED <<closed, paperFile, memory, symbol, hits, justClosed,
                       counted, status, decision>>
    BY <1>7 DEF OpenPosition
  <2> HIDE DEF new
  <2>3. /\ \A p \in open : p.symbol # symbol
        /\ \A p \in open \cup closed : p.id # decision
        /\ paperFile = "valid"
    BY <1>7 DEF OpenPosition, LoopInv, FreshInv, On
  <2>4. \A p, q \in open' : p.symbol = q.symbol => p = q
    BY <2>1, <2>2, <2>3
  <2>5. LoopInv'
    BY <1>7, <2>2 DEF OpenPosition, LoopInv
  <2>6. FreshInv'
    BY <2>1, <2>2, <2>3 DEF FreshInv, TypeOK
  <2>7. ReportInv'
    BY <1>7, <2>2 DEF OpenPosition, ReportInv
  <2>8. QED
    BY <2>2, <2>4, <2>5, <2>6, <2>7
<1>8. CASE AppendRecord
  <2>1. LoopInv' /\ FreshInv'
    BY <1>8 DEF AppendRecord, LoopInv, FreshInv
  <2>2. CASE tail = "cut"
    BY <1>8, <2>1, <2>2 DEF AppendRecord, ReportInv
  <2>3. CASE tail # "cut"
    <3>1. memory' = memory \cup {CurrentRecord}
      BY <1>8, <2>3 DEF AppendRecord
    <3>2. CurrentRecord.outcome = justClosed
      BY DEF CurrentRecord
    <3>3. \A r \in memory : r.outcome \cap CurrentRecord.outcome = {}
      BY <1>8, <3>2 DEF AppendRecord, ReportInv
    <3>4. OutcomeReportedOnce'
      BY <3>1, <3>3
    <3>5. \A p \in Reported' : p \in Reported \cup justClosed
      BY <3>1, <3>2
    <3>6. ReportInv'
      BY <1>8, <3>5 DEF AppendRecord, ReportInv
    <3>7. QED
      BY <1>8, <2>1, <3>4, <3>6 DEF AppendRecord
  <2>4. QED
    BY <2>2, <2>3
<1>9. CASE Index
  BY <1>9 DEF Index, LoopInv, FreshInv, ReportInv
<1>10. CASE UnreadablePaper \/ Fail \/ FailInPaperWrite \/ FailInAppend
  BY <1>10 DEF UnreadablePaper, Fail, FailInPaperWrite, FailInAppend, Die,
               LoopInv, FreshInv, ReportInv
<1>11. CASE UNCHANGED vars
  BY <1>11 DEF vars, LoopInv, FreshInv, ReportInv, On
<1>12. QED
  BY <1>1, <1>2, <1>3, <1>4, <1>5, <1>6, <1>7, <1>8, <1>9, <1>10, <1>11
     DEF Next

-----------------------------------------------------------------------------
(* The invariant holds for every value of the constants.                   *)
THEOREM Invariance == Spec => []IInv
<1>1. IInv /\ [Next]_vars => IInv'
  BY TypeStep, RestStep DEF IInv, Rest
<1>2. QED
  BY InitInv, <1>1, PTL DEF Spec

(* Type correctness of the agent's state.                                  *)
THEOREM TypeCorrect == Spec => []TypeOK
<1>1. IInv => TypeOK
  BY DEF IInv
<1>2. QED
  BY Invariance, <1>1, PTL

(* However many symbols are polled and wherever the process dies, the      *)
(* portfolio never has two open positions on one symbol.                   *)
THEOREM OnePosition == Spec => []OnePositionPerSymbol
<1>1. IInv => OnePositionPerSymbol
  BY DEF IInv
<1>2. QED
  BY Invariance, <1>1, PTL

(* No closed position is in the outcomes of two experience records.        *)
THEOREM ReportedOnce == Spec => []OutcomeReportedOnce
<1>1. IInv => OutcomeReportedOnce
  BY DEF IInv
<1>2. QED
  BY Invariance, <1>1, PTL

(* An agent whose portfolio file does not parse makes no decision, opens   *)
(* nothing and never replaces the file.                                    *)
THEOREM UnreadableStops == Spec => UnreadableStopsTrading
<1>1. IInv /\ [Next]_vars =>
        [paperFile = "torn" => /\ paperFile' = "torn" /\ decision' = decision
                               /\ open' = open]_vars
  <2> SUFFICES ASSUME IInv, Next, paperFile = "torn"
               PROVE  /\ paperFile' = "torn" /\ decision' = decision
                      /\ open' = open
    OBVIOUS
  <2>1. pc \notin {"decide", "open", "append", "index"}
    BY DEF IInv, LoopInv
  <2>2. QED
    BY <2>1 DEF Next, StartAgent, StopAgent, Snapshot, CooldownReconcile,
       Reconcile, ReconcilePaper, Decide, OpenPosition, AppendRecord, Index,
       UnreadablePaper, Fail, FailInPaperWrite, FailInAppend, paperVars, Die
<1>2. QED
  BY Invariance, <1>1, PTL DEF Spec, UnreadableStopsTrading

-----------------------------------------------------------------------------
(* Refinement of PaperLedger.                                              *)

(* A reconcile closes at most one position, because at most one is open on *)
(* the symbol whose quote it was given.                                    *)
LEMMA ReconcileRefines ==
  ASSUME IInv, ReconcilePaper, pc \in {"cooldown", "reconcile"},
         UNCHANGED memory
  PROVE  [Ledger!Next]_(Ledger!vars)
<1> DEFINE hit == open \cap hits
<1>1. Reported' = Reported
  BY DEF Reported
<1>2. paperFile = "valid" /\ paperFile' = "valid"
  BY DEF ReconcilePaper
<1>3. CASE hit = {}
  <2>1. open' = open /\ closed' = closed
    BY <1>3 DEF ReconcilePaper
  <2>2. QED
    BY <1>1, <1>2, <2>1 DEF Ledger!vars
<1>4. CASE hit # {}
  <2>1. PICK p \in hit : TRUE
    BY <1>4
  <2>2. \A q \in hit : q = p
    BY <2>1 DEF IInv, LoopInv, OnePositionPerSymbol
  <2>3. hit = {p}
    BY <2>1, <2>2
  <2>4. p \in open /\ open' = open \ {p} /\ closed' = closed \cup {p}
    BY <2>1, <2>3 DEF ReconcilePaper
  <2>5. p \in Position
    BY <2>4 DEF IInv, TypeOK
  <2>6. Ledger!Close(p)
    BY <1>1, <1>2, <2>4 DEF Ledger!Close
  <2>7. QED
    BY <2>5, <2>6 DEF Ledger!Next
<1>5. QED
  BY <1>3, <1>4

LEMMA StepRefines ==
  ASSUME IInv, [Next]_vars
  PROVE  [Ledger!Next]_(Ledger!vars)
<1> USE DEF paperVars, memoryVars, cycleVars
<1>1. ASSUME UNCHANGED <<open, closed, paperFile, memory>>
      PROVE  UNCHANGED Ledger!vars
  BY <1>1 DEF Ledger!vars, Reported
<1>2. CASE \/ StartAgent \/ StopAgent \/ (\E s \in Symbols : Snapshot(s))
           \/ Decide \/ Index \/ UnreadablePaper \/ Fail \/ FailInAppend
           \/ UNCHANGED vars
  BY <1>1, <1>2 DEF StartAgent, StopAgent, Snapshot, Decide, Index,
     UnreadablePaper, Fail, FailInAppend, vars
<1>3. CASE CooldownReconcile
  BY <1>3, ReconcileRefines DEF CooldownReconcile
<1>4. CASE Reconcile
  BY <1>4, ReconcileRefines DEF Reconcile
<1>5. CASE OpenPosition
  <2> DEFINE new == [id |-> decision, symbol |-> symbol]
  <2>1. new \in Position
    BY <1>5 DEF OpenPosition, IInv, TypeOK, LoopInv, Position
  <2>2. new.symbol = symbol /\ new.id = decision
    OBVIOUS
  <2>3. /\ open' = open \cup {new}
        /\ UNCHANGED <<closed, paperFile, memory>>
        /\ paperFile = "valid"
        /\ pc = "open"
    BY <1>5 DEF OpenPosition
  <2> HIDE DEF new
  <2>4. \A q \in open : q.symbol # new.symbol
    BY <2>2, <2>3 DEF IInv, LoopInv, On
  <2>5. new \notin open \cup closed \cup Reported
    BY <2>2, <2>3 DEF IInv, FreshInv, ReportInv
  <2>6. Reported' = Reported
    BY <2>3 DEF Reported
  <2>7. Ledger!Open(new)
    BY <2>3, <2>4, <2>5, <2>6 DEF Ledger!Open
  <2>8. QED
    BY <2>1, <2>7 DEF Ledger!Next
<1>6. CASE AppendRecord
  <2>1. UNCHANGED <<open, closed, paperFile>>
    BY <1>6 DEF AppendRecord
  <2>2. CASE tail = "cut" \/ justClosed = {}
    <3>1. Reported' = Reported
      BY <1>6, <2>2 DEF AppendRecord, Reported, CurrentRecord
    <3>2. QED
      BY <2>1, <3>1 DEF Ledger!vars
  <2>3. CASE tail # "cut" /\ justClosed # {}
    <3>1. PICK p \in justClosed : TRUE
      BY <2>3
    <3>2. justClosed = {p}
      BY <3>1 DEF IInv, ReportInv
    <3>3. memory' = memory \cup {CurrentRecord}
      BY <1>6, <2>3 DEF AppendRecord
    <3>4. CurrentRecord.outcome = {p}
      BY <3>2 DEF CurrentRecord
    <3>5. Reported' = Reported \cup {p}
      BY <3>3, <3>4 DEF Reported
    <3>6. p \in closed \ Reported /\ p \in Position
      BY <1>6, <3>1 DEF AppendRecord, IInv, ReportInv, TypeOK
    <3>7. Ledger!Report(p)
      BY <2>1, <3>5, <3>6 DEF Ledger!Report
    <3>8. QED
      BY <3>6, <3>7 DEF Ledger!Next
  <2>4. QED
    BY <2>2, <2>3
<1>7. CASE FailInPaperWrite
  <2>1. Reported' = Reported
    BY <1>7 DEF FailInPaperWrite, Reported
  <2>2. Ledger!Lose
    BY <1>7, <2>1 DEF FailInPaperWrite, Ledger!Lose
  <2>3. QED
    BY <2>2 DEF Ledger!Next
<1>8. QED
  BY <1>2, <1>3, <1>4, <1>5, <1>6, <1>7 DEF Next

(* Every behaviour of the agent, with its crashes, is a behaviour of the   *)
(* abstract ledger.                                                        *)
THEOREM ImplementsLedger == Spec => LedgerImplemented
<1>1. Init => Ledger!Init
  BY DEF Init, Ledger!Init, Reported
<1>2. IInv /\ [Next]_vars => [Ledger!Next]_(Ledger!vars)
  BY StepRefines
<1>3. QED
  BY <1>1, <1>2, Invariance, PTL DEF Spec, LedgerImplemented, Ledger!Spec


-----------------------------------------------------------------------------
(* What the failures cost.                                                 *)

(* Each decision opens one position at most; only a JSONL file can be cut; *)
(* with the cooldown the planner is asked where nothing is open.           *)
TraceInv ==
  /\ \A p, q \in open \cup closed : p.id = q.id => p = q
  /\ tail = "cut" => settings.store = "jsonl"
  /\ pc = "cooldown" => settings.cooldown = "until_closed"
  /\ pc \in {"reconcile", "decide"} /\ settings.cooldown = "until_closed" =>
       On(open, symbol) = {}

(* The closed positions whose outcome is not in the store and will not get *)
(* there: those of the record in hand still may.                           *)
Unsettled ==
  closed \ (Reported \cup (IF pc \in {"decide", "open", "append"} THEN justClosed ELSE {}))

(* A line cut short has one more record to spoil.                          *)
Spoils == IF tail = "cut" THEN 1 ELSE 0

LossInv ==
  /\ IsFiniteSet(Untraceable)
  /\ Cardinality(Untraceable) + Spoils <= RecordsLostPerFailure * failures
  /\ settings.cooldown = "none" =>
       /\ IsFiniteSet(Unsettled)
       /\ Cardinality(Unsettled) + Spoils <= RecordsLostPerFailure * failures

(* What a step does to a set of losses S, with k lines cut short.          *)
Charged(S, T, k, l, f, g, most) ==
  \/ T \subseteq S /\ l = k /\ g \in {f, f + 1}
  \/ /\ \E x : T \subseteq S \cup {x}
     /\ \/ k = 1 /\ l = 0 /\ g = f
        \/ l = k /\ g = f + 1
        \/ l = 1 /\ most = 2 /\ g = f + 1

LEMMA ChargeIsPaid ==
  ASSUME NEW S, NEW T, IsFiniteSet(S), NEW k \in {0, 1}, NEW l \in {0, 1},
         NEW f \in Nat, NEW g, NEW most \in {1, 2},
         Cardinality(S) + k <= most * f, Charged(S, T, k, l, f, g, most)
  PROVE  IsFiniteSet(T) /\ Cardinality(T) + l <= most * g
<1> DEFINE s == Cardinality(S)
           t == Cardinality(T)
<1>1. s \in Nat
  BY FS_CardinalityType
<1>2. CASE T \subseteq S /\ l = k /\ g \in {f, f + 1}
  <2>1. IsFiniteSet(T) /\ t \in Nat /\ t <= s
    BY <1>2, SizeGrows
  <2> HIDE DEF s, t
  <2>2. t + l <= most * f
    BY <1>1, <1>2, <2>1 DEF s
  <2>3. most * f <= most * g
    <3>1. CASE most = 1
      BY <1>2, <3>1
    <3>2. CASE most = 2
      BY <1>2, <3>2
    <3>3. QED
      BY <3>1, <3>2
  <2>4. QED
    BY <1>2, <2>1, <2>2, <2>3 DEF t
<1>3. CASE /\ \E x : T \subseteq S \cup {x}
           /\ \/ k = 1 /\ l = 0 /\ g = f
              \/ l = k /\ g = f + 1
              \/ l = 1 /\ most = 2 /\ g = f + 1
  <2>1. IsFiniteSet(T) /\ t \in Nat /\ t <= s + 1
    BY <1>3, SizeByOne
  <2>2. s + k <= most * f
    OBVIOUS
  <2> HIDE DEF s, t
  <2>3. t + l <= most * g
    <3>1. CASE most = 1
      BY <1>1, <1>3, <2>1, <2>2, <3>1
    <3>2. CASE most = 2
      BY <1>1, <1>3, <2>1, <2>2, <3>2
    <3>3. QED
      BY <3>1, <3>2
  <2>4. QED
    BY <2>1, <2>3 DEF t
<1>4. QED
  BY <1>2, <1>3 DEF Charged

LEMMA TraceStep ==
  ASSUME IInv, TraceInv, [Next]_vars
  PROVE  TraceInv'
<1> USE DEF TraceInv, paperVars, memoryVars, cycleVars, ForgetCycle, On
<1>1. CASE StartAgent
  BY <1>1 DEF StartAgent
<1>2. CASE StopAgent
  BY <1>2 DEF StopAgent
<1>3. ASSUME NEW s \in Symbols, Snapshot(s) PROVE TraceInv'
  BY <1>3, SettingsAssumption DEF Snapshot, IInv, TypeOK
<1>4. CASE CooldownReconcile
  <2>1. open' \cup closed' = open \cup closed
    BY <1>4, ReconcileKeepsPositions DEF CooldownReconcile
  <2>2. pc' = "poll" \/ (pc' = "reconcile" /\ symbol' = symbol /\ On(open', symbol) = {})
    BY <1>4 DEF CooldownReconcile
  <2>3. UNCHANGED <<tail, settings>>
    BY <1>4 DEF CooldownReconcile
  <2>4. QED
    BY <2>1, <2>2, <2>3
<1>5. CASE Reconcile
  <2>1. open' \cup closed' = open \cup closed /\ open' \subseteq open
    BY <1>5, ReconcileKeepsPositions DEF Reconcile
  <2>2. pc = "reconcile" /\ pc' = "decide" /\ UNCHANGED <<symbol, tail, settings>>
    BY <1>5 DEF Reconcile
  <2>3. QED
    BY <2>1, <2>2
<1>6. CASE Decide
  BY <1>6 DEF Decide
<1>7. CASE OpenPosition
  <2> DEFINE new == [id |-> decision, symbol |-> symbol]
  <2>1. /\ open' = open \cup {new} /\ pc = "open" /\ pc' = "append"
        /\ UNCHANGED <<closed, tail, settings>> /\ new.id = decision
    BY <1>7 DEF OpenPosition
  <2> HIDE DEF new
  <2>2. \A p \in open \cup closed : p.id # decision
    BY <2>1 DEF IInv, FreshInv
  <2>3. QED
    BY <2>1, <2>2
<1>8. CASE AppendRecord
  BY <1>8 DEF AppendRecord
<1>9. CASE Index
  BY <1>9 DEF Index
<1>10. CASE UnreadablePaper
  BY <1>10 DEF UnreadablePaper
<1>11. CASE Fail
  BY <1>11 DEF Fail, Die
<1>12. CASE FailInPaperWrite
  BY <1>12 DEF FailInPaperWrite, Die
<1>13. CASE FailInAppend
  BY <1>13 DEF FailInAppend, Die
<1>14. CASE UNCHANGED vars
  BY <1>14 DEF vars
<1>15. QED
  BY <1>1, <1>2, <1>3, <1>4, <1>5, <1>6, <1>7, <1>8, <1>9, <1>10, <1>11,
     <1>12, <1>13, <1>14 DEF Next

LEMMA TraceInit == Init => TraceInv
  BY DEF Init, TraceInv, On

(* With the cooldown, no decision is made about a symbol with an open      *)
(* position.                                                               *)
THEOREM CooldownIsHonoured == Spec => CooldownHonoured
<1>1. IInv /\ TraceInv /\ [Next]_vars =>
        [decision' # decision /\ settings.cooldown = "until_closed"
           => On(open, symbol) = {}]_vars
  <2> SUFFICES ASSUME IInv, TraceInv, Next, decision' # decision,
                      settings.cooldown = "until_closed"
               PROVE  On(open, symbol) = {}
    OBVIOUS
  <2>1. pc = "decide"
    BY DEF Next, StartAgent, StopAgent, Snapshot, CooldownReconcile, Reconcile, Decide,
       OpenPosition, AppendRecord, Index, UnreadablePaper, Fail, FailInPaperWrite,
       FailInAppend, Die
  <2>2. QED
    BY <2>1 DEF TraceInv
<1>2. TraceInv /\ IInv /\ [Next]_vars => TraceInv'
  BY TraceStep
<1>3. QED
  BY TraceInit, Invariance, <1>1, <1>2, PTL DEF Spec, CooldownHonoured

-----------------------------------------------------------------------------

Costs(S, T) == Charged(S, T, Spoils, Spoils', failures, failures', RecordsLostPerFailure)

(* The steps of the loop cost nothing but the record a cut line spoils.    *)
LEMMA LoopCosts ==
  ASSUME IInv, TraceInv,
         \/ StartAgent \/ StopAgent \/ (\E s \in Symbols : Snapshot(s)) \/ CooldownReconcile
         \/ Reconcile \/ Decide \/ OpenPosition \/ Index \/ UnreadablePaper \/ UNCHANGED vars
  PROVE  /\ Costs(Untraceable, Untraceable')
         /\ settings.cooldown = "none" => Costs(Unsettled, Unsettled')
<1> USE DEF paperVars, memoryVars, cycleVars, ForgetCycle, InHand
<1>1. failures' = failures /\ tail' = tail /\ memory' = memory
  BY DEF StartAgent, StopAgent, Snapshot, CooldownReconcile, Reconcile, Decide, OpenPosition,
     Index, UnreadablePaper, vars
<1>2. Spoils' = Spoils /\ Reported' = Reported /\ Recorded' = Recorded
  BY <1>1 DEF Spoils, Reported, Recorded
<1>3. failures' \in {failures, failures + 1}
  BY <1>1
<1> SUFFICES /\ Untraceable' \subseteq Untraceable
             /\ settings.cooldown = "none" => Unsettled' \subseteq Unsettled
  BY <1>2, <1>3 DEF Costs, Charged
<1>4. CASE StartAgent \/ StopAgent \/ (\E s \in Symbols : Snapshot(s)) \/ UNCHANGED vars
  <2>1. /\ UNCHANGED <<open, closed, decision, justClosed>>
        /\ pc' = pc \/ (pc \in {"down", "poll"} /\ pc' \in {"down", "poll", "cooldown", "reconcile"})
    BY <1>4 DEF StartAgent, StopAgent, Snapshot, vars
  <2>2. QED
    BY <1>2, <2>1 DEF Untraceable, Unsettled
<1>5. CASE CooldownReconcile
  <2>1. /\ open' \cup closed' = open \cup closed
        /\ pc = "cooldown" /\ pc' \in {"reconcile", "poll"} /\ decision' = decision
    BY <1>5, ReconcileKeepsPositions DEF CooldownReconcile
  <2>2. settings.cooldown # "none"
    BY <2>1 DEF TraceInv
  <2>3. QED
    BY <1>2, <2>1, <2>2 DEF Untraceable
<1>6. CASE Reconcile
  <2>1. /\ open' \cup closed' = open \cup closed
        /\ pc = "reconcile" /\ pc' = "decide" /\ decision' = decision
        /\ closed' = closed \cup justClosed'
    BY <1>6, ReconcileKeepsPositions DEF Reconcile, ReconcilePaper
  <2>2. QED
    BY <1>2, <2>1 DEF Untraceable, Unsettled
<1>7. CASE Decide
  <2>1. /\ UNCHANGED <<open, closed, justClosed>> /\ decision' = decision + 1
        /\ pc = "decide" /\ pc' \in {"open", "append"}
    BY <1>7 DEF Decide
  <2>2. QED
    BY <1>2, <2>1 DEF Untraceable, Unsettled
<1>8. CASE OpenPosition
  <2> DEFINE new == [id |-> decision, symbol |-> symbol]
  <2>1. /\ open' = open \cup {new} /\ pc = "open" /\ pc' = "append" /\ new.id = decision
        /\ UNCHANGED <<closed, justClosed, decision>>
    BY <1>8 DEF OpenPosition
  <2> HIDE DEF new
  <2>2. QED
    BY <1>2, <2>1 DEF Untraceable, Unsettled
<1>9. CASE Index
  <2>1. UNCHANGED <<open, closed, decision>> /\ pc = "index" /\ pc' = "poll"
    BY <1>9 DEF Index
  <2>2. QED
    BY <1>2, <2>1 DEF Untraceable, Unsettled
<1>10. CASE UnreadablePaper
  <2>1. /\ UNCHANGED <<open, closed, decision>> /\ pc' = "down"
        /\ pc \in {"cooldown", "reconcile"}
    BY <1>10 DEF UnreadablePaper, IInv, LoopInv
  <2>2. QED
    BY <1>2, <2>1 DEF Untraceable, Unsettled
<1>11. QED
  BY <1>4, <1>5, <1>6, <1>7, <1>8, <1>9, <1>10

(* What was in hand is one position at most, and one close at most.        *)
LEMMA InHandIsOne ==
  ASSUME IInv, TraceInv
  PROVE  /\ \E x : \A p \in open \cup closed : p.id = decision => p = x
         /\ \E x : justClosed \subseteq {x}
<1>1. \E x : \A p \in open \cup closed : p.id = decision => p = x
  <2>1. CASE \E p \in open \cup closed : p.id = decision
    <3>1. PICK x \in open \cup closed : x.id = decision
      BY <2>1
    <3>2. QED
      BY <3>1 DEF TraceInv
  <2>2. CASE ~(\E p \in open \cup closed : p.id = decision)
    BY <2>2
  <2>3. QED
    BY <2>1, <2>2
<1>2. \E x : justClosed \subseteq {x}
  <2>1. \A p, q \in justClosed : p = q
    BY DEF IInv, ReportInv
  <2>2. CASE justClosed = {}
    BY <2>2
  <2>3. CASE justClosed # {}
    <3>1. PICK x : x \in justClosed
      BY <2>3
    <3>2. QED
      BY <2>1, <3>1
  <2>4. QED
    BY <2>2, <2>3
<1>3. QED
  BY <1>1, <1>2

(* A record costs nothing, unless a cut line spoils it, which then ends.   *)
LEMMA AppendCosts ==
  ASSUME IInv, TraceInv, AppendRecord
  PROVE  Costs(Untraceable, Untraceable') /\ Costs(Unsettled, Unsettled')
<1>1. /\ pc = "append" /\ pc' = "index" /\ tail' = "ended" /\ failures' = failures
      /\ UNCHANGED <<open, closed, justClosed, decision>>
      /\ memory' = IF tail = "cut" THEN memory ELSE memory \cup {CurrentRecord}
  BY DEF AppendRecord, paperVars, cycleVars
<1>2. Spoils' = 0 /\ failures' \in {failures, failures + 1}
  BY <1>1 DEF Spoils
<1>3. CASE tail = "cut"
  <2>1. Spoils = 1 /\ memory' = memory
    BY <1>1, <1>3 DEF Spoils
  <2>2. Reported' = Reported /\ Recorded' = Recorded
    BY <2>1 DEF Reported, Recorded
  <2>3. \E x : Untraceable' \subseteq Untraceable \cup {x}
    <3>1. PICK x : \A p \in open \cup closed : p.id = decision => p = x
      BY InHandIsOne
    <3>2. Untraceable' \subseteq Untraceable \cup {x}
      BY <1>1, <2>2, <3>1 DEF Untraceable, InHand
    <3>3. QED
      BY <3>2
  <2>4. \E x : Unsettled' \subseteq Unsettled \cup {x}
    <3>1. PICK x : justClosed \subseteq {x}
      BY InHandIsOne
    <3>2. Unsettled' \subseteq Unsettled \cup {x}
      BY <1>1, <2>2, <3>1 DEF Unsettled
    <3>3. QED
      BY <3>2
  <2>5. QED
    BY <1>1, <1>2, <2>1, <2>3, <2>4 DEF Costs, Charged
<1>4. CASE tail # "cut"
  <2>1. Spoils = 0 /\ memory' = memory \cup {CurrentRecord}
    BY <1>1, <1>4 DEF Spoils
  <2>2. CurrentRecord.decision = decision /\ CurrentRecord.outcome = justClosed
    BY DEF CurrentRecord
  <2>3. Recorded \cup {decision} \subseteq Recorded' /\ Reported \cup justClosed \subseteq Reported'
    BY <2>1, <2>2 DEF Recorded, Reported
  <2>4. Untraceable' \subseteq Untraceable
    BY <1>1, <2>3 DEF Untraceable
  <2>5. Unsettled' \subseteq Unsettled
    BY <1>1, <2>3 DEF Unsettled
  <2>6. QED
    BY <1>2, <2>1, <2>4, <2>5 DEF Costs, Charged
<1>5. QED
  BY <1>3, <1>4

(* A failure costs what was in hand.                                       *)
LEMMA FailureCosts ==
  ASSUME IInv, TraceInv, Fail \/ FailInPaperWrite \/ FailInAppend
  PROVE  Costs(Untraceable, Untraceable') /\ Costs(Unsettled, Unsettled')
<1>1. /\ pc' = "down" /\ failures' = failures + 1 /\ UNCHANGED <<memory, decision, settings>>
      /\ open' \cup closed' \subseteq open \cup closed /\ closed' \subseteq closed
  BY DEF Fail, FailInPaperWrite, FailInAppend, Die, paperVars, memoryVars
<1>2. Reported' = Reported /\ Recorded' = Recorded
  BY <1>1 DEF Reported, Recorded
<1>3. \E x : Untraceable' \subseteq Untraceable \cup {x}
  <2>1. PICK x : \A p \in open \cup closed : p.id = decision => p = x
    BY InHandIsOne
  <2>2. Untraceable' \subseteq Untraceable \cup {x}
    BY <1>1, <1>2, <2>1 DEF Untraceable, InHand
  <2>3. QED
    BY <2>2
<1>4. \E x : Unsettled' \subseteq Unsettled \cup {x}
  <2>1. PICK x : justClosed \subseteq {x}
    BY InHandIsOne
  <2>2. Unsettled' \subseteq Unsettled \cup {x}
    BY <1>1, <1>2, <2>1 DEF Unsettled
  <2>3. QED
    BY <2>2
<1>5. \/ Spoils' = Spoils
      \/ Spoils' = 1 /\ RecordsLostPerFailure = 2
  BY DEF Fail, FailInPaperWrite, FailInAppend, Die, memoryVars, Spoils, RecordsLostPerFailure
<1>6. QED
  BY <1>1, <1>3, <1>4, <1>5 DEF Costs, Charged

LEMMA LossStep ==
  ASSUME IInv, TraceInv, LossInv, [Next]_vars
  PROVE  LossInv'
<1>1. /\ Costs(Untraceable, Untraceable')
      /\ settings.cooldown = "none" => Costs(Unsettled, Unsettled')
  BY LoopCosts, AppendCosts, FailureCosts DEF Next
<1>2. settings' = settings
  BY DEF Next, StartAgent, StopAgent, Snapshot, CooldownReconcile, Reconcile, Decide,
     OpenPosition, AppendRecord, Index, UnreadablePaper, Fail, FailInPaperWrite,
     FailInAppend, vars
<1>3. /\ Spoils \in {0, 1} /\ Spoils' \in {0, 1} /\ failures \in Nat
      /\ RecordsLostPerFailure \in {1, 2} /\ RecordsLostPerFailure' = RecordsLostPerFailure
  <2>1. failures \in 0..MaxFailures /\ MaxFailures \in Nat
    BY BoundsAssumption DEF IInv, TypeOK
  <2>2. failures \in Nat
    BY <2>1
  <2>3. QED
    BY <1>2, <2>2 DEF Spoils, RecordsLostPerFailure
<1>4. /\ IsFiniteSet(Untraceable')
      /\ Cardinality(Untraceable') + Spoils' <= RecordsLostPerFailure * failures'
  BY <1>1, <1>3, ChargeIsPaid DEF LossInv, Costs
<1>5. settings.cooldown = "none" =>
        /\ IsFiniteSet(Unsettled')
        /\ Cardinality(Unsettled') + Spoils' <= RecordsLostPerFailure * failures'
  BY <1>1, <1>3, ChargeIsPaid DEF LossInv, Costs
<1>6. QED
  BY <1>2, <1>3, <1>4, <1>5 DEF LossInv

LEMMA LossInit == Init => LossInv
<1> SUFFICES ASSUME Init PROVE LossInv
  OBVIOUS
<1>1. Untraceable = {} /\ Unsettled = {} /\ Spoils = 0 /\ failures = 0
  BY DEF Init, Untraceable, Unsettled, Spoils
<1>2. IsFiniteSet({}) /\ Cardinality({}) = 0
  BY FS_EmptySet
<1>3. RecordsLostPerFailure \in {1, 2}
  BY DEF RecordsLostPerFailure
<1>4. QED
  BY <1>1, <1>2, <1>3 DEF LossInv

(* A failure costs one record, and with a JSONL store the one behind it:   *)
(* positions no record explains and, without the cooldown, closes no       *)
(* outcome reports are never more than that.                               *)
THEOREM LossIsBounded == Spec => []LossBounded
<1>1. IInv /\ TraceInv /\ LossInv /\ [Next]_vars => LossInv'
  BY LossStep
<1>2. IInv /\ TraceInv /\ [Next]_vars => TraceInv'
  BY TraceStep
<1>3. IInv /\ LossInv => LossBounded
  <2> SUFFICES ASSUME IInv, LossInv PROVE LossBounded
    OBVIOUS
  <2> DEFINE most == RecordsLostPerFailure * failures
  <2>1. Spoils \in {0, 1} /\ RecordsLostPerFailure \in {1, 2} /\ failures \in Nat
    <3>1. failures \in 0..MaxFailures /\ MaxFailures \in Nat
      BY BoundsAssumption DEF IInv, TypeOK
    <3>2. failures \in Nat
      BY <3>1
    <3>3. QED
      BY <3>2 DEF Spoils, RecordsLostPerFailure
  <2>2. most \in Nat
    BY <2>1
  <2>3. IsFiniteSet(Untraceable) /\ Cardinality(Untraceable) + Spoils <= most
    BY DEF LossInv
  <2>4. settings.cooldown = "none" =>
          IsFiniteSet(Unsettled) /\ Cardinality(Unsettled) + Spoils <= most
    BY DEF LossInv
  <2> HIDE DEF most
  <2>5. Cardinality(Untraceable) \in Nat /\ Cardinality(Untraceable) <= most
    BY <2>1, <2>2, <2>3, FS_CardinalityType
  <2>6. ASSUME settings.cooldown = "none" PROVE Cardinality(Unreported) <= most
    <3>1. Unreported \subseteq Unsettled
      BY DEF Unreported, Unsettled
    <3>2. /\ Cardinality(Unsettled) \in Nat /\ Cardinality(Unreported) \in Nat
          /\ Cardinality(Unreported) <= Cardinality(Unsettled)
      BY <2>4, <2>6, <3>1, SizeGrows
    <3>3. QED
      BY <2>1, <2>2, <2>4, <2>6, <3>2
  <2>7. QED
    BY <2>5, <2>6 DEF LossBounded, TraceLossBounded, OutcomeLossBounded, most
<1>4. QED
  BY LossInit, TraceInit, Invariance, <1>1, <1>2, <1>3, PTL DEF Spec

=============================================================================
