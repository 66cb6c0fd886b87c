----------------------------- MODULE PaperLedger -----------------------------
(***************************************************************************)
(* What the paper agent promises about its positions, without its loop,    *)
(* its files or its crashes: a position is opened on a symbol that has     *)
(* none, is closed once, and its result is reported to the experience      *)
(* store at most once.  All of it may be lost at one stroke, and then the  *)
(* ledger stands still.                                                    *)
(***************************************************************************)
CONSTANT Position   \* records with a field symbol

VARIABLES open, closed, reported, lost

vars == <<open, closed, reported, lost>>

Init ==
  /\ open = {} /\ closed = {} /\ reported = {}
  /\ lost = FALSE

Open(p) ==
  /\ ~lost
  /\ p \notin open \cup closed \cup reported
  /\ \A q \in open : q.symbol # p.symbol
  /\ open' = open \cup {p}
  /\ UNCHANGED <<closed, reported, lost>>

Close(p) ==
  /\ ~lost
  /\ p \in open
  /\ open' = open \ {p}
  /\ closed' = closed \cup {p}
  /\ UNCHANGED <<reported, lost>>

Report(p) ==
  /\ p \in closed \ reported
  /\ reported' = reported \cup {p}
  /\ UNCHANGED <<open, closed, lost>>

Lose ==
  /\ ~lost
  /\ lost' = TRUE
  /\ open' = {} /\ closed' = {}
  /\ UNCHANGED reported

Next ==
  \/ \E p \in Position : Open(p) \/ Close(p) \/ Report(p)
  \/ Lose

Spec == Init /\ [][Next]_vars

=============================================================================
