---------------------------- MODULE MCOperations -----------------------------
(* TLC instance of what runs beside the agents: training sessions,         *)
(* experiments, and the stack.  They share no state, so a behaviour is of  *)
(* one of them while the others have not begun.                            *)
EXTENDS TrainingRun, Experiment, StackSupervisor

(* Nothing is hit in the first candle; the second closes beyond the        *)
(* distances of a position; the third only reaches beyond them.            *)
SmallCandles == {[low |-> 9, high |-> 11, close |-> 10],
                 [low |-> 9, high |-> 18, close |-> 18],
                 [low |-> 2, high |-> 11, close |-> 10]}

SmallGates ==
  [s \in Stages |-> IF s = "replay_to_paper"
     THEN [min_decisions |-> 2, min_closed |-> 1, min_r |-> 0]
     ELSE [min_decisions |-> 3, min_closed |-> 2, min_r |-> 10]]

OnePlaybook == {[trend_min |-> 60, spread_max |-> 2000, status |-> "paper"]}

SomeBases == {[disabled |-> {}, cooldown |-> "none", confidence |-> 93],
              [disabled |-> {"m1"}, cooldown |-> "none", confidence |-> 60]}

(* A loser that is scanned too often, and two winners with as many trades  *)
(* of which the better has more rejections.                                *)
SomeYields == {[wins |-> 3, losses |-> 8, open |-> 0, dup |-> 40, other |-> 1],
               [wins |-> 12, losses |-> 5, open |-> 1, dup |-> 0, other |-> 9],
               [wins |-> 10, losses |-> 7, open |-> 0, dup |-> 0, other |-> 2]}

vars == <<trainingVars, experimentVars, stackVars>>

Init == TrainingInit /\ ExperimentInit /\ StackInit

InTraining(A) == ExperimentInit /\ StackInit /\ A /\ UNCHANGED <<experimentVars, stackVars>>
InStack(A)    == TrainingInit /\ ExperimentInit /\ A /\ UNCHANGED <<trainingVars, experimentVars>>

(* A behaviour with a killed experiment has no monitor that raises, and    *)
(* one raises only where the base trades a single symbol.                  *)
InExperiment(A) ==
  /\ TrainingInit /\ StackInit /\ A /\ UNCHANGED <<trainingVars, stackVars>>
  /\ kills' = 0 \/ errors' = 0
  /\ errors' # errors => base.disabled # {}

Next ==
  \/ InTraining(TrainingNext)
  \/ InStack(StackNext)
  \/ InExperiment(ExperimentNext)

(* The fairness of TrainingSpec and of StackSpec.                          *)
Fairness ==
  /\ WF_vars(InTraining(Session \/ RunTool \/ Replay))
  /\ WF_vars(InStack(Supervise))
  /\ \A s \in Services : WF_vars(InStack(Dies(s)))

Spec == Init /\ [][Next]_vars /\ Fairness

(* The state keeps its shape in each of the three: one position at most is *)
(* open, no run is counted that was not begun, only children are killed.   *)
TypeOK == TrainingTypeOK /\ ExperimentTypeOK /\ StackTypeOK

=============================================================================
