----------------------------- MODULE MCExecution -----------------------------
(* TLC instance of the two ways an approved order is carried out: by the   *)
(* live broker, and in the paper portfolio.  They share no state, so a     *)
(* behaviour is of one of them while the other has not begun.              *)
EXTENDS LiveExecution, PaperBook

Init == LiveInit /\ BookInit

Next == \/ BookInit /\ LiveNext /\ UNCHANGED bookVars
        \/ LiveInit /\ BookNext /\ UNCHANGED liveVars

Spec == Init /\ [][Next]_<<liveVars, bookVars>>

(* The state keeps its shape: no order is in two hands, no position is in  *)
(* the portfolio without a number.                                         *)
TypeOK == LiveTypeOK /\ BookTypeOK

=============================================================================
