------------------------------ MODULE PaperBook ------------------------------
(***************************************************************************)
(* paper-state.json between several monitors: the console's runtime thread *)
(* and `monitor` in a shell, of one config, trade one symbol on one file.  *)
(* Every operation of PaperPortfolio reads the file, changes what it read  *)
(* and writes the whole file, which `open("w")` empties first; nothing     *)
(* locks it.                                                               *)
(***************************************************************************)
EXTENDS Integers, FiniteSets, SequencesExt

CONSTANTS
  Monitors,   \* processes that share the file
  MaxTrades   \* bound: positions opened in a behaviour

ASSUME MonitorAssumption == IsFiniteSet(Monitors) /\ Monitors # {}
ASSUME TradeAssumption == MaxTrades \in Nat

VARIABLES
  book,    \* the file: open positions, and closed ones in the order written
  file,    \* "whole", "empty" while it is written, or "mixed": two writes
           \* of different length on top of each other, which do not parse
  under,   \* monitors that emptied the file before another one wrote it
  at,      \* where each monitor is in its cycle
  copy,    \* what each monitor read of the file and changed
  counted, \* open positions each monitor counted for the governor
  trades,  \* positions opened so far; they are numbered
  clash    \* two monitors have been inside an operation at a time

bookVars == <<book, file, under, at, copy, counted, trades, clash>>

Empty == [open |-> {}, closed |-> <<>>]

BookInit ==
  /\ book = Empty /\ file = "whole" /\ under = {}
  /\ at = [m \in Monitors |-> "poll"]
  /\ copy = [m \in Monitors |-> Empty]
  /\ counted = [m \in Monitors |-> 0]
  /\ trades = 0 /\ clash = FALSE

-----------------------------------------------------------------------------
Inside(m) == at[m] \in {"reconciling", "opening", "writing reconciled", "writing opened"}

Writing(m) == at[m] \in {"writing reconciled", "writing opened"}

(* _read_state and the change to what it returned.  A file that another    *)
(* monitor has emptied does not parse, and the exception ends the run.     *)
ReadAndChange(m, next, changed) ==
  /\ clash' = (clash \/ \E n \in Monitors \ {m} : Inside(n))
  /\ IF file = "whole"
       THEN /\ copy' = [copy EXCEPT ![m] = changed]
            /\ at' = [at EXCEPT ![m] = next]
       ELSE /\ at' = [at EXCEPT ![m] = "poll"]
            /\ UNCHANGED copy
  /\ UNCHANGED <<book, file, under>>

(* Mutant: what a monitor read last time is not read again.                *)
StartReconcileStale(m) ==
  /\ at[m] = "poll"
  /\ \E hit \in SUBSET copy[m].open :
       ReadAndChange(m, "reconciling",
         [open |-> copy[m].open \ hit, closed |-> copy[m].closed \o SetToSeq(hit)])
  /\ UNCHANGED <<counted, trades>>

(* reconcile: any of the open positions may be hit by the quote.           *)
StartReconcile(m) ==
  /\ at[m] = "poll"
  /\ \E hit \in SUBSET book.open :
       ReadAndChange(m, "reconciling",
         [open |-> book.open \ hit, closed |-> book.closed \o SetToSeq(hit)])
  /\ UNCHANGED <<counted, trades>>

(* open_count after the reconcile.                                         *)
Count(m) ==
  /\ at[m] = "count"
  /\ clash' = (clash \/ \E n \in Monitors \ {m} : Inside(n))
  /\ IF file = "whole"
       THEN /\ counted' = [counted EXCEPT ![m] = Cardinality(book.open)]
            /\ at' = [at EXCEPT ![m] = "decide"]
       ELSE /\ at' = [at EXCEPT ![m] = "poll"]
            /\ UNCHANGED counted
  /\ UNCHANGED <<book, file, under, copy, trades>>

(* The planner holds, or the governor rejects.                             *)
Hold(m) ==
  /\ at[m] = "decide"
  /\ at' = [at EXCEPT ![m] = "poll"]
  /\ UNCHANGED <<book, file, under, copy, counted, trades, clash>>

(* Mutant: the governor forgets the positions that are open.               *)
StartOpenAnyway(m) ==
  /\ at[m] = "decide"
  /\ trades < MaxTrades
  /\ trades' = trades + 1
  /\ ReadAndChange(m, "opening", [book EXCEPT !.open = @ \cup {trades + 1}])
  /\ UNCHANGED counted

(* Mutant: a position is numbered when it is closed.                       *)
StartOpenUnnumbered(m) ==
  /\ at[m] = "decide" /\ counted[m] = 0
  /\ trades < MaxTrades
  /\ ReadAndChange(m, "opening", [book EXCEPT !.open = @ \cup {trades + 1}])
  /\ UNCHANGED <<counted, trades>>

(* open_position, when the count was 0.                                    *)
StartOpen(m) ==
  /\ at[m] = "decide" /\ counted[m] = 0
  /\ trades < MaxTrades
  /\ trades' = trades + 1
  /\ ReadAndChange(m, "opening", [book EXCEPT !.open = @ \cup {trades + 1}])
  /\ UNCHANGED counted

(* _write_state: the file is emptied, and then written.                    *)
Truncate(m) ==
  /\ at[m] \in {"reconciling", "opening"}
  /\ file' = "empty" /\ under' = {}
  /\ at' = [at EXCEPT ![m] = IF at[m] = "reconciling" THEN "writing reconciled"
                                                      ELSE "writing opened"]
  /\ UNCHANGED <<book, copy, counted, trades, clash>>

(* Written onto what another monitor has written since, the file keeps the *)
(* end of the longer text.                                                 *)
WriteState(m) ==
  /\ at[m] \in {"writing reconciled", "writing opened"}
  /\ \/ file' = "whole" /\ book' = copy[m]
     \/ m \in under /\ file' = "mixed" /\ book' = Empty
  /\ under' = {n \in Monitors \ {m} : Writing(n)}
  /\ at' = [at EXCEPT ![m] = IF at[m] = "writing reconciled" THEN "count" ELSE "poll"]
  /\ UNCHANGED <<copy, counted, trades, clash>>

BookNext ==
  \E m \in Monitors : \/ StartReconcile(m) \/ Count(m) \/ Hold(m) \/ StartOpen(m)
                      \/ Truncate(m) \/ WriteState(m)

BookSpec == BookInit /\ [][BookNext]_bookVars

-----------------------------------------------------------------------------
(* Properties.                                                             *)

(* The shape of the state.                                                 *)
BookTypeOK ==
  /\ book.open \subseteq 1..trades /\ book.closed \in Seq(1..trades)
  /\ file \in {"whole", "empty", "mixed"} /\ under \subseteq Monitors
  /\ \A m \in Monitors : at[m] \in {"poll", "reconciling", "writing reconciled", "count",
                                    "decide", "opening", "writing opened"}
  /\ \A m \in Monitors : counted[m] \in 0..MaxTrades
  /\ trades \in 0..MaxTrades

(* As long as no two monitors are inside an operation at a time, however   *)
(* their cycles interleave otherwise, the shared file is a true account:   *)
(* it parses, every position that was opened is in it, is closed once, and *)
(* is not both open and closed.  The veto on a second position counts      *)
(* before the decision and opens after it, so that each monitor may have   *)
(* added one open position and no more.                                    *)
TrueAccount ==
  ~clash =>
    /\ Cardinality(book.open) <= Cardinality(Monitors)
    /\ (\A m \in Monitors : ~Inside(m)) =>
         /\ file = "whole"
         /\ book.open \cup ToSet(book.closed) = 1..trades
         /\ IsInjective(book.closed)
         /\ book.open \cap ToSet(book.closed) = {}

=============================================================================
