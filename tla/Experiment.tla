----------------------------- MODULE Experiment ------------------------------
(***************************************************************************)
(* quantz experiment: ExperimentRunner lets the monitor run a base config, *)
(* reports and reviews it, builds a candidate config from the review, lets *)
(* the monitor run that, and compares the two reports.  Every stage leaves *)
(* a file in the output directory.  The runs' memories and paper states    *)
(* are not cleared first: an experiment begun again in the same directory, *)
(* after one that was killed or one that ended, adds to them; so does the  *)
(* second start of a monitor that raised a TypeError.                      *)
(*                                                                         *)
(* A run's result is, per symbol, its wins, losses, open positions and     *)
(* rejections; a win is 2 R and a loss is -1 R.  Confidence is in          *)
(* hundredths.                                                             *)
(***************************************************************************)
EXTENDS Integers, FiniteSets, Functions

CONSTANTS
  Markets,     \* the symbols of the configs
  BaseConfigs, \* [disabled, cooldown, confidence] of the experiments' bases
  Yields,      \* what a run may add to a symbol: [wins, losses, open, dup, other]
  MaxRuns, MaxKills, MaxErrors   \* bounds: experiments begun, killed, monitors that raise

ASSUME MarketAssumption == Markets # {} /\ IsFiniteSet(Markets)
ASSUME BaseAssumption == \A b \in BaseConfigs : b.confidence \in Int
ASSUME ExperimentBoundsAssumption == MaxRuns \in Nat /\ MaxKills \in Nat /\ MaxErrors \in Nat
ASSUME YieldAssumption ==
  \A y \in Yields : /\ y.wins \in Nat /\ y.losses \in Nat /\ y.open \in Nat
                    /\ y.dup \in Nat /\ y.other \in Nat

VARIABLES
  at,         \* "idle", or the stage that comes next
  base,       \* the base settings, in the runner and in base-config.json
  config,     \* candidate-config.json
  rows,       \* the two memories and paper states: monitor runs and results
  reports,    \* base-report.json and candidate-report.json
  comparison, \* comparison.json: the two reports and the verdict
  market,     \* the two sim-market-states: monitor runs they have gone through
  begun, kills,
  errors      \* monitor runs that ended with a TypeError

experimentVars == <<at, base, config, rows, reports, comparison, market, begun, kills, errors>>

Nothing == [none |-> TRUE]
Sides == {"base", "candidate"}
NoYield == [wins |-> 0, losses |-> 0, open |-> 0, dup |-> 0, other |-> 0]

ExperimentInit ==
  /\ at = "idle" /\ base = Nothing /\ config = Nothing /\ comparison = Nothing
  /\ rows = [s \in Sides |-> [runs |-> 0, by |-> [m \in Markets |-> NoYield]]]
  /\ reports = [s \in Sides |-> Nothing]
  /\ market = [s \in Sides |-> 0]
  /\ begun = 0 /\ kills = 0 /\ errors = 0

-----------------------------------------------------------------------------
(* What reports tell: SessionReport, and SymbolReport for one symbol.      *)

Closed(y)   == y.wins + y.losses
SymbolR(y)  == 2 * y.wins - y.losses
Executed(y) == Closed(y) + y.open

Total(report, Of(_)) == SumFunction([m \in Markets |-> Of(report.by[m])])

ClosedCount(report) == Total(report, Closed)
RSum(report)        == Total(report, SymbolR)
WinCount(report)    == Total(report, LAMBDA y : y.wins)
OpenCount(report)   == Total(report, LAMBDA y : y.open)
Duplicates(report)  == Total(report, LAMBDA y : y.dup)
Rejected(report)    == Duplicates(report) + Total(report, LAMBDA y : y.other)
Approved(report)    == Total(report, Executed)

Most(a, b) == IF a > b THEN a ELSE b

-----------------------------------------------------------------------------
(* ReviewEngine.review.                                                    *)

(* disable_symbol_candidate.                                               *)
Losers(report) == {m \in Markets : Closed(report.by[m]) >= 5 /\ SymbolR(report.by[m]) < 0}

(* reduce_duplicate_scans, and increase_monitor_interval_...               *)
ScansTooOften(report) ==
  \/ \E m \in Markets : report.by[m].dup > Most(3, 3 * Executed(report.by[m]))
  \/ Rejected(report) > 5 * Approved(report) /\ Duplicates(report) > 0

(* raise_confidence_threshold.                                             *)
LosesOverall(report) == ClosedCount(report) >= 10 /\ RSum(report) < 0

(* Mutant: symbols are disabled until none is left.                        *)
CandidateWithoutSymbols(b, report) ==
  LET out == b.disabled \cup Losers(report)
  IN  [mode |-> "paper", symbols |-> Markets \ out, disabled |-> out,
       cooldown |-> IF ScansTooOften(report) THEN "until_closed" ELSE b.cooldown,
       confidence |-> IF LosesOverall(report) THEN b.confidence + 5 ELSE b.confidence]

(* CandidateConfigBuilder.build.  When no symbol would be left, all are    *)
(* enabled again, those that the base had disabled too.                    *)
Candidate(b, report) ==
  LET out == b.disabled \cup Losers(report)
      all == Markets \subseteq out
  IN  [mode |-> "paper",
       symbols |-> IF all THEN Markets ELSE Markets \ out,
       disabled |-> IF all THEN {} ELSE out,
       cooldown |-> IF ScansTooOften(report) THEN "until_closed" ELSE b.cooldown,
       confidence |-> IF LosesOverall(report)
                        THEN IF b.confidence + 5 < 95 THEN b.confidence + 5 ELSE 95
                        ELSE b.confidence]

-----------------------------------------------------------------------------
(* RunComparator.                                                          *)

(* The average R of c is not below that of b; of no closes it is 0.        *)
NoWorseAverage(b, c) ==
  RSum(c) * Most(1, ClosedCount(b)) >= RSum(b) * Most(1, ClosedCount(c))

NeedsMoreTrades(b, c) == ClosedCount(c) < Most(5, ClosedCount(b))

(* Mutant: one of the two gains is enough.                                 *)
VerdictOnEither(b, c) ==
  IF RSum(c) < 0 THEN "reject_candidate"
  ELSE IF NeedsMoreTrades(b, c) THEN "continue_paper_test"
  ELSE IF RSum(c) > RSum(b) \/ Rejected(c) < Rejected(b) THEN "candidate_preferred"
  ELSE "no_clear_winner"

Verdict(b, c) ==
  IF RSum(c) < 0 THEN "reject_candidate"
  ELSE IF NeedsMoreTrades(b, c) THEN "continue_paper_test"
  ELSE IF RSum(c) > RSum(b) /\ Rejected(c) <= Rejected(b) THEN "candidate_preferred"
  ELSE IF Rejected(c) < Rejected(b) /\ NoWorseAverage(b, c)
         THEN "candidate_operationally_better"
  ELSE "no_clear_winner"

-----------------------------------------------------------------------------
(* ExperimentRunner.run.                                                   *)

Begin ==
  /\ at = "idle" /\ begun < MaxRuns
  /\ begun' = begun + 1
  /\ base' \in BaseConfigs
  /\ at' = "run_base"
  /\ UNCHANGED <<config, rows, reports, comparison, market, kills, errors>>

(* What the monitor may leave of a symbol it trades: a position is open at *)
(* its end or not, and with the cooldown none is rejected for being one.   *)
Grown(old, y, cooldown) ==
  [wins |-> old.wins + y.wins, losses |-> old.losses + y.losses, open |-> y.open,
   dup |-> old.dup + (IF cooldown = "until_closed" THEN 0 ELSE y.dup),
   other |-> old.other + y.other]

(* Mutant: the monitor is started once per symbol.                         *)
MonitoredPerSymbol(side, traded, cooldown) ==
  /\ \E gain \in [traded -> Yields] :
       rows' = [rows EXCEPT ![side] =
         [runs |-> @.runs + Cardinality(traded),
          by |-> [m \in Markets |->
                    IF m \in traded THEN Grown(@.by[m], gain[m], cooldown) ELSE @.by[m]]]]
  /\ market' = [market EXCEPT ![side] = @ + 1]

(* One start of the monitor, to its end or to the exception that ends it.  *)
Monitored(side, traded, cooldown) ==
  /\ \E gain \in [traded -> Yields] :
       rows' = [rows EXCEPT ![side] =
         [runs |-> @.runs + 1,
          by |-> [m \in Markets |->
                    IF m \in traded THEN Grown(@.by[m], gain[m], cooldown) ELSE @.by[m]]]]
  /\ market' = [market EXCEPT ![side] = @ + 1]

MonitorBase      == Monitored("base", Markets \ base.disabled, base.cooldown)
MonitorCandidate == Monitored("candidate", config.symbols \ config.disabled, config.cooldown)

(* Mutant: a base that has been run already is not run again.              *)
RunBaseOnce ==
  /\ at \in {"run_base", "rerun_base"} /\ at' = "report_base"
  /\ IF rows["base"].runs > 0 THEN UNCHANGED <<rows, market>> ELSE MonitorBase
  /\ UNCHANGED <<base, config, reports, comparison, begun, kills, errors>>

(* The monitor skips the disabled symbols.                                 *)
RunBase ==
  /\ at \in {"run_base", "rerun_base"} /\ at' = "report_base"
  /\ MonitorBase
  /\ UNCHANGED <<base, config, reports, comparison, begun, kills, errors>>

(* _run_monitor takes a TypeError, whatever raised it and when, for a      *)
(* monitor that knows no `quiet`, and starts it again.  A second one ends  *)
(* the experiment, like a kill.                                            *)
BaseRaises ==
  /\ at = "run_base" /\ errors < MaxErrors
  /\ at' = "rerun_base" /\ errors' = errors + 1
  /\ MonitorBase
  /\ UNCHANGED <<base, config, reports, comparison, begun, kills>>

Report(side) == reports' = [reports EXCEPT ![side] = rows[side]]

ReportBase ==
  /\ at = "report_base" /\ at' = "configure"
  /\ Report("base")
  /\ UNCHANGED <<base, config, rows, comparison, market, begun, kills, errors>>

(* The candidate's market goes on from where the base has left its own.    *)
Configure ==
  /\ at = "configure" /\ at' = "run_candidate"
  /\ config' = Candidate(base, reports["base"])
  /\ market' = [market EXCEPT !["candidate"] = market["base"]]
  /\ UNCHANGED <<base, rows, reports, comparison, begun, kills, errors>>

RunCandidate ==
  /\ at \in {"run_candidate", "rerun_candidate"} /\ at' = "report_candidate"
  /\ MonitorCandidate
  /\ UNCHANGED <<base, config, reports, comparison, begun, kills, errors>>

CandidateRaises ==
  /\ at = "run_candidate" /\ errors < MaxErrors
  /\ at' = "rerun_candidate" /\ errors' = errors + 1
  /\ MonitorCandidate
  /\ UNCHANGED <<base, config, reports, comparison, begun, kills>>

ReportCandidate ==
  /\ at = "report_candidate" /\ at' = "compare"
  /\ Report("candidate")
  /\ UNCHANGED <<base, config, rows, comparison, market, begun, kills, errors>>

Compare ==
  /\ at = "compare" /\ at' = "idle"
  /\ comparison' = [base |-> reports["base"], candidate |-> reports["candidate"],
                    verdict |-> Verdict(reports["base"], reports["candidate"])]
  /\ UNCHANGED <<base, config, rows, reports, market, begun, kills, errors>>

(* The process is killed, or ends with an exception; a monitor run that is *)
(* killed half way is one that gained less, killed at its end.             *)
Kill ==
  /\ at # "idle" /\ kills < MaxKills
  /\ kills' = kills + 1 /\ at' = "idle"
  /\ UNCHANGED <<base, config, rows, reports, comparison, market, begun, errors>>

ExperimentNext ==
  \/ Begin \/ RunBase \/ BaseRaises \/ ReportBase \/ Configure
  \/ RunCandidate \/ CandidateRaises \/ ReportCandidate \/ Compare \/ Kill

ExperimentSpec == ExperimentInit /\ [][ExperimentNext]_experimentVars

-----------------------------------------------------------------------------
(* Properties.                                                             *)

(* No run is counted that was not begun, and a report counts none that its *)
(* memory does not hold: reports are only taken of what has been run.      *)
ExperimentTypeOK ==
  /\ at \in {"idle", "run_base", "rerun_base", "report_base", "configure",
             "run_candidate", "rerun_candidate", "report_candidate", "compare"}
  /\ begun \in 0..MaxRuns /\ kills \in 0..MaxKills /\ errors \in 0..MaxErrors
  /\ \A s \in Sides : /\ rows[s].runs \in 0..(begun + errors)
                      /\ market[s] \in 0..(begun + 2 * errors + 1)
                      /\ reports[s] # Nothing => reports[s].runs <= rows[s].runs

(* A candidate can be tried: it is for paper, some symbol of it is traded, *)
(* its confidence is within reach unless its base's was not, and it takes  *)
(* up a symbol that the base had disabled only where the review leaves no  *)
(* other.                                                                  *)
CandidateTrades ==
  config # Nothing /\ at \in {"run_candidate", "rerun_candidate", "report_candidate", "compare"} =>
    /\ config.mode = "paper" /\ config.confidence <= Most(95, base.confidence)
    /\ config.symbols # {} /\ config.symbols \cap config.disabled = {}
    /\ base.disabled \cap config.symbols # {} =>
         Markets \ base.disabled \subseteq Losers(reports["base"])

(* Of the two memories that are compared, whatever was left in them by     *)
(* experiments that ended, were killed or raised, the base's holds one run *)
(* more for each that was killed at most, and either one more for each     *)
(* monitor that was started twice; and the candidate is tried on the       *)
(* market as its base left it.  Without kills and errors they have run     *)
(* equally often: only then are the sums that are compared those of equal  *)
(* trials.                                                                 *)
EqualFooting ==
  /\ comparison # Nothing =>
       /\ comparison.base.runs <= comparison.candidate.runs + kills + errors
       /\ comparison.candidate.runs <= comparison.base.runs + errors
  /\ at \in {"report_candidate", "compare"} =>
       /\ market["base"] + 1 <= market["candidate"]
       /\ market["candidate"] <= market["base"] + 1 + errors

Better(b, c) == Verdict(b, c) \in {"candidate_preferred", "candidate_operationally_better"}

(* Two results are never each better than the other: a candidate that has  *)
(* won does not win again as the base of the same two.  The other verdicts *)
(* do depend on which of the two is called the candidate.                  *)
VerdictOneWay ==
  comparison # Nothing /\ Better(comparison.base, comparison.candidate) =>
    ~Better(comparison.candidate, comparison.base)

(* The trial is as fair as the code makes it: the candidate can trade, has *)
(* run as often as its base but for kills and second starts, on the market *)
(* its base left, and does not win both ways round.                        *)
FairTrial == CandidateTrades /\ EqualFooting /\ VerdictOneWay

=============================================================================
