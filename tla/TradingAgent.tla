---------------------------- MODULE TradingAgent ----------------------------
(***************************************************************************)
(* The paper-trading agent: one process that polls symbols and, for each,  *)
(* runs TradingAgent.run_once against a PaperPortfolio (paper-state.json), *)
(* an experience store and a vector index.                                 *)
(*                                                                         *)
(* Every step that ends in a write to disk is an action of its own, so     *)
(* that the process may die, or an exception may leave run_once, between   *)
(* any two of them and in the middle of a write.  Prices are abstracted    *)
(* to the set of positions whose stop or target the polled snapshot hits   *)
(* (module PaperPricing says which); the planner and the risk governor are *)
(* abstracted to what they may answer (module DecisionPipeline).           *)
(***************************************************************************)
EXTENDS Integers, FiniteSets

CONSTANTS
  Symbols,       \* settings.symbols without settings.disabled_symbols
  NoSymbol,      \* the process is between two symbols
  Settings,      \* the settings agents are started with: experience_store,
                 \* "jsonl" or "sqlite", and the monitor's position_cooldown
  MaxDecisions,  \* bound: decisions a behaviour makes
  MaxFailures    \* bound: crashes and escaped exceptions of a behaviour

ASSUME SymbolAssumption == NoSymbol \notin Symbols
ASSUME SettingsAssumption ==
  Settings \subseteq [store : {"jsonl", "sqlite"}, cooldown : {"none", "until_closed"}]
ASSUME BoundsAssumption == MaxDecisions \in Nat /\ MaxFailures \in Nat

VARIABLES
  open,      \* paper-state.json: open_positions
  closed,    \* paper-state.json: closed_positions
  paperFile, \* paper-state.json: "valid", or "torn" when it does not parse
  memory,    \* the parsable records of the experience store
  tail,      \* the JSONL file's last line: "ended", or "cut" short
  indexed,   \* the decisions the vector store has a document for
  pc,        \* where the process is in its loop
  symbol,    \* the symbol being processed
  hits,      \* open positions whose stop or target the snapshot reached
  justClosed,\* run_once's closed_positions
  counted,   \* positions behind constraints["open_symbol_positions"]
  status,    \* the governor's answer to the decision in hand
  decision,  \* decisions made so far; the last one is the one in hand
  failures,  \* crashes and escaped exceptions so far
  settings   \* the settings file, which no run changes

paperVars  == <<open, closed, paperFile>>
memoryVars == <<memory, tail, indexed>>
cycleVars  == <<symbol, hits, justClosed, counted, status>>
vars == <<paperVars, memoryVars, cycleVars, pc, decision, failures, settings>>

Decisions == 1..MaxDecisions

(* A position is named by the decision that opened it: open_position runs  *)
(* at most once for a decision.                                            *)
Position == [id : Decisions, symbol : Symbols]

Record == [decision : Decisions, symbol : Symbols, status : {"approved", "rejected"},
           outcome : SUBSET Position]

On(positions, s) == {p \in positions : p.symbol = s}

-----------------------------------------------------------------------------
Init ==
  /\ open = {} /\ closed = {} /\ paperFile = "valid"
  /\ memory = {} /\ tail = "ended" /\ indexed = {}
  /\ pc = "down"
  /\ symbol = NoSymbol /\ hits = {} /\ justClosed = {}
  /\ counted = {} /\ status = "none"
  /\ decision = 0 /\ failures = 0
  /\ settings \in Settings

ForgetCycle ==
  /\ symbol' = NoSymbol /\ hits' = {} /\ justClosed' = {}
  /\ counted' = {} /\ status' = "none"

(* The monitor is started, or started again after it stopped or died.      *)
StartAgent ==
  /\ pc = "down"
  /\ pc' = "poll"
  /\ UNCHANGED <<paperVars, memoryVars, cycleVars, decision, failures, settings>>

(* The monitor leaves its loop: stop event, last iteration.                *)
StopAgent ==
  /\ pc = "poll"
  /\ pc' = "down"
  /\ UNCHANGED <<paperVars, memoryVars, cycleVars, decision, failures, settings>>

(* market_feed.snapshot(s): the quote settles which of the open positions  *)
(* of s have reached their stop or target.                                 *)
Snapshot(s) ==
  /\ pc = "poll"
  /\ decision < MaxDecisions
  /\ symbol' = s
  /\ hits' \in SUBSET On(open, s)
  /\ pc' = IF settings.cooldown = "until_closed" THEN "cooldown" ELSE "reconcile"
  /\ UNCHANGED <<paperVars, memoryVars, justClosed, counted, status,
                 decision, failures, settings>>

(* Mutant: the positions of other symbols are not kept.                    *)
ReconcileDroppingOthers ==
  /\ paperFile = "valid"
  /\ open' = On(open, symbol) \ hits
  /\ closed' = closed \cup (open \cap hits)
  /\ UNCHANGED paperFile

(* Mutant: what is closed is also kept open.                               *)
ReconcileKeepingClosed ==
  /\ paperFile = "valid"
  /\ open' = open
  /\ closed' = closed \cup (open \cap hits)
  /\ UNCHANGED paperFile

(* Mutant: a file that does not parse is read as an empty portfolio.       *)
ReconcileTolerant ==
  /\ open' = open \ hits
  /\ closed' = closed \cup (open \cap hits)
  /\ paperFile' = "valid"

(* PaperPortfolio.reconcile: read the file, move what was hit from open to *)
(* closed, write the file.                                                 *)
ReconcilePaper ==
  /\ paperFile = "valid"
  /\ open' = open \ hits
  /\ closed' = closed \cup (open \cap hits)
  /\ UNCHANGED paperFile

(* Mutant: the open count is not looked at after the reconcile.            *)
CooldownReconcileIgnoringCount ==
  /\ pc = "cooldown"
  /\ ReconcilePaper
  /\ pc' = "reconcile"
  /\ UNCHANGED <<cycleVars, memoryVars, decision, failures, settings>>

(* cli._monitor with the cooldown: reconcile first, drop what it returns,  *)
(* and leave the symbol alone while a position of it is open.              *)
CooldownReconcile ==
  /\ pc = "cooldown"
  /\ ReconcilePaper
  /\ IF On(open', symbol) = {}
       THEN /\ pc' = "reconcile"
            /\ UNCHANGED cycleVars
       ELSE /\ pc' = "poll"
            /\ ForgetCycle
  /\ UNCHANGED <<memoryVars, decision, failures, settings>>

(* run_once: reconcile with the same snapshot, then count what is left     *)
(* open on the symbol for the governor.                                    *)
Reconcile ==
  /\ pc = "reconcile"
  /\ ReconcilePaper
  /\ justClosed' = open \cap hits
  /\ counted' = On(open', symbol)
  /\ pc' = "decide"
  /\ UNCHANGED <<memoryVars, symbol, hits, status, decision, failures, settings>>

(* Mutant: the governor without the symbol veto.                           *)
RiskAnswersWithoutVeto == {"rejected", "approved"}

(* RiskGovernor.evaluate as far as this module tells answers apart: it may *)
(* reject anything, and never approves with a position open on the symbol. *)
RiskAnswers == {"rejected"} \cup IF counted = {} THEN {"approved"} ELSE {}

(* planner.decide and risk.evaluate: nothing is written.                   *)
Decide ==
  /\ pc = "decide"
  /\ decision' = decision + 1
  /\ status' \in RiskAnswers
  /\ pc' = IF status' = "approved" THEN "open" ELSE "append"
  /\ UNCHANGED <<paperVars, memoryVars, symbol, hits, justClosed, counted,
                 failures, settings>>

(* PaperBrokerAdapter.place_order accepts and touches nothing; then        *)
(* PaperPortfolio.open_position reads the file, appends and writes it.     *)
OpenPosition ==
  /\ pc = "open"
  /\ paperFile = "valid"
  /\ open' = open \cup {[id |-> decision, symbol |-> symbol]}
  /\ pc' = "append"
  /\ UNCHANGED <<closed, paperFile, memoryVars, cycleVars, decision, failures, settings>>

CurrentRecord == [decision |-> decision, symbol |-> symbol,
                  status |-> status, outcome |-> justClosed]

(* Mutant: records are written without the end of their line.              *)
AppendRecordUnended ==
  /\ pc = "append"
  /\ memory' = IF tail = "cut" THEN memory ELSE memory \cup {CurrentRecord}
  /\ pc' = "index"
  /\ UNCHANGED <<paperVars, tail, indexed, cycleVars, decision, failures, settings>>

(* memory.append: a JSONL record written behind a line cut short shares    *)
(* that line, and read_raw skips the line.                                 *)
AppendRecord ==
  /\ pc = "append"
  /\ memory' = IF tail = "cut" THEN memory ELSE memory \cup {CurrentRecord}
  /\ tail' = "ended"
  /\ pc' = "index"
  /\ UNCHANGED <<paperVars, indexed, cycleVars, decision, failures, settings>>

(* Mutant: the locals of the loop outlive the symbol.                      *)
IndexKeepingLocals ==
  /\ pc = "index"
  /\ indexed' = IF justClosed = {} THEN indexed \cup {decision} ELSE indexed
  /\ pc' = "poll"
  /\ UNCHANGED <<paperVars, memory, tail, cycleVars, decision, failures, settings>>

(* _index_semantic_memory: the indexer reads the closed positions of the   *)
(* outcome as dictionaries; they are PaperClose objects, so a record with  *)
(* an outcome raises, and run_once swallows the exception.                 *)
Index ==
  /\ pc = "index"
  /\ indexed' = IF justClosed = {} THEN indexed \cup {decision} ELSE indexed
  /\ pc' = "poll"
  /\ ForgetCycle
  /\ UNCHANGED <<paperVars, memory, tail, decision, failures, settings>>

(* _read_state on a file that does not parse raises out of the loop.       *)
UnreadablePaper ==
  /\ pc \in {"cooldown", "reconcile", "open"}
  /\ paperFile = "torn"
  /\ pc' = "down"
  /\ ForgetCycle
  /\ UNCHANGED <<paperVars, memoryVars, decision, failures, settings>>

(* The process dies, or an exception leaves run_once: what was in memory   *)
(* is gone.                                                                *)
Die ==
  /\ failures < MaxFailures
  /\ failures' = failures + 1
  /\ pc' = "down"
  /\ ForgetCycle

(* Between two writes: a kill, or an exception of a feed, of the analyst,  *)
(* of the planner or of a store.                                           *)
Fail ==
  /\ pc # "down"
  /\ Die
  /\ UNCHANGED <<paperVars, memoryVars, decision, settings>>

(* In a write of paper-state.json, which truncates the file first: what is *)
(* left does not parse, and the positions it held are gone.                *)
FailInPaperWrite ==
  /\ pc \in {"cooldown", "reconcile", "open"}
  /\ paperFile = "valid"
  /\ Die
  /\ open' = {} /\ closed' = {} /\ paperFile' = "torn"
  /\ UNCHANGED <<memoryVars, decision, settings>>

(* In a JSONL append, which leaves a line without its end.                 *)
FailInAppend ==
  /\ pc = "append"
  /\ settings.store = "jsonl"
  /\ Die
  /\ tail' = "cut"
  /\ UNCHANGED <<paperVars, memory, indexed, decision, settings>>

Next ==
  \/ StartAgent
  \/ StopAgent
  \/ \E s \in Symbols : Snapshot(s)
  \/ CooldownReconcile
  \/ Reconcile
  \/ Decide
  \/ OpenPosition
  \/ AppendRecord
  \/ Index
  \/ UnreadablePaper
  \/ Fail
  \/ FailInPaperWrite
  \/ FailInAppend

Spec == Init /\ [][Next]_vars

-----------------------------------------------------------------------------
(* The shape of the state, and that the loop's locals are set exactly      *)
(* while a symbol is being processed.                                      *)
TypeOK ==
  /\ open \subseteq Position /\ closed \subseteq Position
  /\ paperFile \in {"valid", "torn"} /\ tail \in {"ended", "cut"}
  /\ memory \subseteq Record
  /\ indexed \subseteq Decisions
  /\ pc \in {"down", "poll", "cooldown", "reconcile", "decide", "open",
            "append", "index"}
  /\ symbol \in Symbols \cup {NoSymbol}
  /\ symbol = NoSymbol <=> pc \in {"down", "poll"}
  /\ hits \subseteq Position /\ justClosed \subseteq Position
  /\ counted \subseteq Position
  /\ status \in {"none", "approved", "rejected"}
  /\ decision \in 0..MaxDecisions /\ failures \in 0..MaxFailures
  /\ settings \in Settings

(* The governor's veto "symbol_already_has_open_paper_position" holds over *)
(* the whole reconcile, count, decide, open path: the portfolio never has  *)
(* two open positions on one symbol, whatever crashes in between.          *)
OnePositionPerSymbol ==
  \A p, q \in open : p.symbol = q.symbol => p = q

(* A closed position enters at most one experience record, so reports and  *)
(* the promotion gate that sum outcomes over records count a trade once.   *)
OutcomeReportedOnce ==
  \A r, s \in memory : r # s => r.outcome \cap s.outcome = {}

(* A portfolio file that does not parse stops the agent: it makes no       *)
(* decision and opens nothing, and never takes the file for an empty       *)
(* portfolio.                                                              *)
UnreadableStopsTrading ==
  [][paperFile = "torn" =>
       paperFile' = "torn" /\ decision' = decision /\ open' = open]_vars

(* With position_cooldown = "until_closed" the planner is not even asked   *)
(* about a symbol with an open position.                                   *)
CooldownHonoured ==
  [][decision' # decision /\ settings.cooldown = "until_closed"
       => On(open, symbol) = {}]_vars

Reported == UNION {r.outcome : r \in memory}
Recorded == {r.decision : r \in memory}

(* The agent implements the ledger: whatever it does to its files moves at *)
(* most one position one step along opened, closed, reported.              *)
Ledger == INSTANCE PaperLedger WITH
            reported <- Reported, lost <- (paperFile = "torn")

LedgerImplemented == Ledger!Spec

(* pc values at which the decision in hand is made but not yet recorded.   *)
InHand == pc \in {"open", "append"}

Untraceable ==
  {p \in open \cup closed : p.id \notin Recorded /\ ~(InHand /\ p.id = decision)}

Unreported == closed \ (Reported \cup justClosed)

(* What one failure may cost: its own record and, behind a JSONL line cut  *)
(* short, the next one.                                                    *)
RecordsLostPerFailure == IF settings.store = "jsonl" THEN 2 ELSE 1

(* Opening comes before recording, so a crash may leave a position whose   *)
(* decision no record explains; a crash costs no more than that, and       *)
(* without a crash every position can be traced to its decision.           *)
TraceLossBounded ==
  Cardinality(Untraceable) <= RecordsLostPerFailure * failures

(* The outcomes of closed positions reach the experience store, but for    *)
(* those a crash took: one for each record it cost.  (With the cooldown    *)
(* they do not even without a crash: OutcomesRecorded.)                    *)
OutcomeLossBounded ==
  settings.cooldown = "none" =>
    Cardinality(Unreported) <= RecordsLostPerFailure * failures

(* A failure anywhere in the cycle costs a bounded number of records, on   *)
(* both sides: positions nothing explains and outcomes nothing reports.    *)
LossBounded == TraceLossBounded /\ OutcomeLossBounded

(* README.md:304, "Experience store records the full decision and          *)
(* outcome": between two symbols, every closed position is in the outcome  *)
(* of some record.                                                         *)
OutcomesRecorded ==
  pc = "poll" => closed \subseteq Reported

(* docs/autonomous-agent-architecture.md:99, "TradingAgent accepts vector  *)
(* memory and auto-indexes experience": between two symbols every record   *)
(* of the store has its document.                                          *)
ExperienceIndexed ==
  pc = "poll" => Recorded \subseteq indexed

-----------------------------------------------------------------------------
(* The inductive strengthening of the invariants above.                    *)

(* What the loop's locals say about the files while they are in use.       *)
LoopInv ==
  /\ pc \in {"cooldown", "reconcile", "decide"} => decision < MaxDecisions
  /\ pc \in {"open", "append", "index"} =>
       decision \in Decisions /\ status # "none"
  /\ pc \in {"decide", "open", "append", "index"} => paperFile = "valid"
  /\ pc \in {"cooldown", "reconcile"} => \A p \in hits : p.symbol = symbol
  /\ pc = "decide" /\ counted = {} => On(open, symbol) = {}
  /\ pc = "open" => On(open, symbol) = {}

(* Positions carry ids of decisions already made, and the one about to be  *)
(* opened carries a new one.                                               *)
FreshInv ==
  /\ open \cap closed = {}
  /\ \A p \in open \cup closed : p.id <= decision
  /\ pc = "open" => \A p \in open \cup closed : p.id # decision

(* Where a closed position is on its way into the experience store.        *)
ReportInv ==
  /\ paperFile = "valid" => Reported \subseteq closed
  /\ pc \in {"down", "poll", "cooldown", "reconcile"} => justClosed = {}
  /\ justClosed \subseteq closed
  /\ \A p, q \in justClosed : p = q
  /\ pc \in {"decide", "open", "append"} => justClosed \cap Reported = {}

IInv ==
  /\ TypeOK
  /\ OnePositionPerSymbol
  /\ OutcomeReportedOnce
  /\ LoopInv
  /\ FreshInv
  /\ ReportInv

=============================================================================
