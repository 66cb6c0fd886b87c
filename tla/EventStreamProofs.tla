------------------------- MODULE EventStreamProofs -------------------------
(***************************************************************************)
(* Theorems about EventStream for any consoles, writers, size of the pool  *)
(* and number of changes.                                                  *)
(***************************************************************************)
EXTENDS EventStream, SetFacts

LEMMA InitInv == Init => IInv
  BY DEF Init, IInv, SequenceInv, HeartbeatOwesNothing, Attending

-----------------------------------------------------------------------------
(* Numbers are only ever copied from version and sequence, which grow.     *)
LEMMA SequenceStep ==
  ASSUME SequenceInv, [Next]_vars
  PROVE  SequenceInv'
<1> USE DEF SequenceInv, Attending, Goto, serverVars, poolVars
<1>1. ASSUME NEW w \in Writers, Change(w) PROVE SequenceInv'
  BY <1>1 DEF Change
<1>2. ASSUME NEW w \in Writers, Notify(w) PROVE SequenceInv'
  <2>1. pc' \in [Clients -> {"closed", "build"} \cup Attending]
    BY <1>2 DEF Notify
  <2>2. published' \in Nat /\ published' <= version
    BY <1>2 DEF Notify
  <2>3. writing' \in [Writers -> Nat] /\ \A v \in Writers : writing'[v] <= version
    BY <1>2 DEF Notify
  <2>4. QED
    BY <1>2, <2>1, <2>2, <2>3 DEF Notify
<1>3. ASSUME NEW w \in Writers, NotifyLost(w) PROVE SequenceInv'
  BY <1>3 DEF NotifyLost
<1>4. ASSUME NEW c \in Clients, Connect(c) PROVE SequenceInv'
  BY <1>4 DEF Connect
<1>5. ASSUME NEW c \in Clients, Build(c) PROVE SequenceInv'
  BY <1>5 DEF Build
<1>6. ASSUME NEW c \in Clients, BuildFails(c) PROVE SequenceInv'
  BY <1>6 DEF BuildFails
<1>7. ASSUME NEW c \in Clients, StartWait(c) PROVE SequenceInv'
  BY <1>7 DEF StartWait
<1>8. ASSUME NEW c \in Clients, WaitOver(c) PROVE SequenceInv'
  BY <1>8 DEF WaitOver
<1>9. ASSUME NEW c \in Clients, Heartbeat(c) PROVE SequenceInv'
  BY <1>9 DEF Heartbeat
<1>10. ASSUME NEW c \in Clients, Update(c) PROVE SequenceInv'
  BY <1>10 DEF Update
<1>11. ASSUME NEW c \in Clients, Disconnect(c) PROVE SequenceInv'
  BY <1>11 DEF Disconnect
<1>12. CASE AbandonedWaitOver
  BY <1>12 DEF AbandonedWaitOver
<1>13. CASE UNCHANGED vars
  BY <1>13 DEF vars
<1>14. QED
  BY <1>1, <1>2, <1>3, <1>4, <1>5, <1>6, <1>7, <1>8, <1>9, <1>10, <1>11,
     <1>12, <1>13 DEF Next, Payload, Resume

-----------------------------------------------------------------------------
(* A console owes nothing when it begins to attend, because it reads the   *)
(* sequence before it reads the state; a notification moves the sequence   *)
(* away from every last_sequence there is.                                 *)
LEMMA OwesStep ==
  ASSUME IInv, [Next]_vars
  PROVE  HeartbeatOwesNothing'
<1> USE DEF IInv, SequenceInv, HeartbeatOwesNothing, Attending, Goto,
            serverVars, poolVars
<1>1. ASSUME NEW w \in Writers, Change(w) PROVE HeartbeatOwesNothing'
  BY <1>1 DEF Change
<1>2. ASSUME NEW w \in Writers, Notify(w) PROVE HeartbeatOwesNothing'
  <2>1. \A c \in Clients : last'[c] # sequence'
    BY <1>2 DEF Notify
  <2>2. QED
    BY <2>1
<1>3. ASSUME NEW w \in Writers, NotifyLost(w) PROVE HeartbeatOwesNothing'
  BY <1>3 DEF NotifyLost
<1>4. ASSUME NEW c \in Clients, Connect(c) PROVE HeartbeatOwesNothing'
  BY <1>4 DEF Connect
<1>5. ASSUME NEW c \in Clients, Build(c) PROVE HeartbeatOwesNothing'
  BY <1>5 DEF Build
<1>6. ASSUME NEW c \in Clients, BuildFails(c) PROVE HeartbeatOwesNothing'
  BY <1>6 DEF BuildFails
<1>7. ASSUME NEW c \in Clients, StartWait(c) PROVE HeartbeatOwesNothing'
  BY <1>7 DEF StartWait
<1>8. ASSUME NEW c \in Clients, WaitOver(c) PROVE HeartbeatOwesNothing'
  BY <1>8 DEF WaitOver, Holding
<1>9. ASSUME NEW c \in Clients, Heartbeat(c) PROVE HeartbeatOwesNothing'
  BY <1>9 DEF Heartbeat
<1>10. ASSUME NEW c \in Clients, Update(c) PROVE HeartbeatOwesNothing'
  BY <1>10 DEF Update
<1>11. ASSUME NEW c \in Clients, Disconnect(c) PROVE HeartbeatOwesNothing'
  BY <1>11 DEF Disconnect
<1>12. CASE AbandonedWaitOver
  BY <1>12 DEF AbandonedWaitOver
<1>13. CASE UNCHANGED vars
  BY <1>13 DEF vars
<1>14. QED
  BY <1>1, <1>2, <1>3, <1>4, <1>5, <1>6, <1>7, <1>8, <1>9, <1>10, <1>11,
     <1>12, <1>13 DEF Next, Payload, Resume

(* A heartbeat never hides a change: a console whose next return would be  *)
(* a heartbeat has been sent every change notified so far.                 *)
THEOREM HeartbeatSafe == Spec => []HeartbeatOwesNothing
<1>1. IInv /\ [Next]_vars => IInv'
  BY SequenceStep, OwesStep DEF IInv
<1>2. IInv => HeartbeatOwesNothing
  BY DEF IInv
<1>3. QED
  BY InitInv, <1>1, <1>2, PTL DEF Spec

-----------------------------------------------------------------------------
(* Every notification is of a change of its own: a change adds a pending   *)
(* writer, and a notification removes one.                                 *)
LEMMA InitType == Init => TypeInv
<1> SUFFICES ASSUME Init PROVE TypeInv
  OBVIOUS
<1>1. SequenceInv
  BY InitInv DEF IInv
<1>2. Pending = {} /\ Holding = {}
  BY DEF Init, Pending, Holding
<1>3. IsFiniteSet({}) /\ Cardinality({}) = 0
  BY FS_EmptySet
<1>4. CountInv
  BY <1>2, <1>3, ChangesAssumption DEF Init, CountInv
<1>5. queue = <<>> /\ queue \in Seq(Clients) /\ DOMAIN queue = {}
  BY DEF Init
<1>6. IsInjective(queue) /\ ToSet(queue) = {}
  BY <1>5 DEF IsInjective, ToSet
<1>7. PoolInv
  BY <1>2, <1>3, <1>5, <1>6, WorkersAssumption DEF Init, PoolInv, Busy
<1>8. QED
  BY <1>1, <1>4, <1>7 DEF TypeInv

LEMMA CountStep ==
  ASSUME TypeInv, [Next]_vars
  PROVE  CountInv'
<1> USE DEF TypeInv, SequenceInv, CountInv, serverVars, poolVars
<1>1. Cardinality(Pending) \in Nat
  BY FS_CardinalityType
<1>2. MaxChanges \in Nat
  BY ChangesAssumption
<1>3. ASSUME NEW w \in Writers, Change(w) PROVE CountInv'
  <2>1. Pending' \subseteq Pending \cup {w}
    BY <1>3 DEF Change, Pending
  <2>2. /\ IsFiniteSet(Pending') /\ Cardinality(Pending') \in Nat
        /\ Cardinality(Pending') <= Cardinality(Pending) + 1
    BY <2>1, SizeByOne
  <2>3. version' = version + 1 /\ sequence' = sequence /\ version' <= MaxChanges /\ shown' = shown
    BY <1>2, <1>3 DEF Change
  <2>4. QED
    BY <1>1, <2>2, <2>3
<1>4. ASSUME NEW w \in Writers, Notify(w) PROVE CountInv'
  <2>1. w \in Pending /\ Pending' \subseteq Pending \ {w}
    BY <1>4 DEF Notify, Pending
  <2>2. IsFiniteSet(Pending') /\ Cardinality(Pending') \in Nat
    BY <2>1, SizeGrows
  <2>3. Cardinality(Pending') + 1 <= Cardinality(Pending)
    BY <2>1, SizeLess
  <2>4. sequence' = sequence + 1 /\ version' = version /\ shown' = shown
    BY <1>4 DEF Notify
  <2>5. QED
    BY <1>1, <2>2, <2>3, <2>4
<1>5. ASSUME NEW w \in Writers, NotifyLost(w) PROVE CountInv'
  <2>1. Pending' \subseteq Pending
    BY <1>5 DEF NotifyLost, Pending
  <2>2. /\ IsFiniteSet(Pending') /\ Cardinality(Pending') \in Nat
        /\ Cardinality(Pending') <= Cardinality(Pending)
    BY <2>1, SizeGrows
  <2>3. sequence' = sequence /\ version' = version /\ shown' = shown
    BY <1>5 DEF NotifyLost
  <2>4. QED
    BY <1>1, <2>2, <2>3
<1>6. ASSUME NEW c \in Clients, Build(c) PROVE CountInv'
  <2>1. Pending' = Pending /\ sequence' = sequence /\ version' = version
    BY <1>6 DEF Build, Pending
  <2>2. \A d \in Clients : shown'[d] <= version
    BY <1>6 DEF Build
  <2>3. QED
    BY <2>1, <2>2
<1>7. CASE UNCHANGED <<serverVars, shown>>
  BY <1>7 DEF Pending
<1>8. QED
  BY <1>3, <1>4, <1>5, <1>6, <1>7
     DEF Next, Connect, Payload, BuildFails, StartWait, WaitOver, Resume, Heartbeat,
         Update, Disconnect, AbandonedWaitOver, vars

-----------------------------------------------------------------------------
(* The pool: the queue follows the waits, and a thread is only taken when  *)
(* there is one.                                                           *)
Queued == {c \in Clients : pc[c] = "queued"}

LEMMA PoolKept ==
  ASSUME PoolInv, UNCHANGED poolVars, Queued' = Queued, Holding' = Holding
  PROVE  PoolInv'
BY DEF PoolInv, poolVars, Queued, Busy

LEMMA QueuePut ==
  ASSUME TypeInv, NEW c \in Clients, pc[c] \notin {"queued", "waiting", "notified"},
         Goto(c, "queued"), queue' = Append(queue, c), abandoned' = abandoned
  PROVE  PoolInv'
<1> USE DEF TypeInv, SequenceInv, PoolInv, Attending, Goto
<1>1. Holding' = Holding /\ c \notin Queued /\ Queued' = Queued \cup {c}
  BY DEF Holding, Queued
<1>2. ToSet(queue) = Queued
  BY DEF Queued
<1>3. /\ queue' \in Seq(Clients) /\ IsInjective(queue')
      /\ ToSet(queue') = ToSet(queue) \cup {c}
  BY <1>1, <1>2, PutLast
<1>4. Busy' = Busy
  BY <1>1 DEF Busy
<1>5. QED
  BY <1>1, <1>2, <1>3, <1>4 DEF Queued

LEMMA PoolStart ==
  ASSUME TypeInv, NEW c \in Clients, StartWait(c)
  PROVE  PoolInv'
<1> USE DEF TypeInv, SequenceInv, PoolInv, Attending, Goto, StartWait
<1>1. Holding' \subseteq Holding \cup {c} /\ Queued' = Queued \ {c}
  BY DEF Holding, Queued
<1>2. ToSet(queue) = Queued
  BY DEF Queued
<1>3. /\ queue' \in Seq(Clients) /\ IsInjective(queue')
      /\ ToSet(queue') = ToSet(queue) \ {c}
  BY TakeFirst
<1>4. /\ IsFiniteSet(Holding') /\ Cardinality(Holding') \in Nat
      /\ Cardinality(Holding') <= Cardinality(Holding) + 1
      /\ Cardinality(Holding) \in Nat
  BY <1>1, SizeByOne
<1>5. Busy' <= Workers /\ abandoned' \in Nat
  BY <1>4, WorkersAssumption DEF Busy
<1>6. QED
  BY <1>1, <1>2, <1>3, <1>4, <1>5 DEF Queued

LEMMA PoolReturn ==
  ASSUME TypeInv, NEW c \in Clients, WaitOver(c)
  PROVE  PoolInv'
<1> USE DEF TypeInv, SequenceInv, PoolInv, Attending, Goto, WaitOver, poolVars
<1>1. Holding' \subseteq Holding /\ Queued' = Queued
  BY DEF Holding, Queued
<1>2. /\ IsFiniteSet(Holding') /\ Cardinality(Holding') \in Nat
      /\ Cardinality(Holding) \in Nat /\ Cardinality(Holding') <= Cardinality(Holding)
  BY <1>1, SizeGrows
<1>3. Busy' <= Workers
  BY <1>2, WorkersAssumption DEF Busy
<1>4. QED
  BY <1>1, <1>2, <1>3 DEF Queued

LEMMA PoolLeave ==
  ASSUME TypeInv, NEW c \in Clients, Disconnect(c)
  PROVE  PoolInv'
<1> USE DEF TypeInv, SequenceInv, PoolInv, Attending, Goto, Disconnect
<1>1. Holding' = Holding \ {c} /\ Queued' = Queued \ {c}
  BY DEF Holding, Queued
<1>2. ToSet(queue) = Queued
  BY DEF Queued
<1>3. /\ queue' \in Seq(Clients) /\ IsInjective(queue')
      /\ ToSet(queue') = ToSet(queue) \ {c}
  BY TakeOut
<1>4. /\ IsFiniteSet(Holding') /\ Cardinality(Holding') \in Nat
      /\ Cardinality(Holding) \in Nat
      /\ Cardinality(Holding') <= Cardinality(Holding)
  BY <1>1, SizeGrows
<1>5. c \in Holding => Cardinality(Holding') + 1 <= Cardinality(Holding)
  BY <1>1, SizeLess
<1>6. Busy' <= Workers /\ abandoned' \in Nat
  BY <1>4, <1>5, WorkersAssumption DEF Busy
<1>7. QED
  BY <1>1, <1>2, <1>3, <1>4, <1>6 DEF Queued

LEMMA PoolStep ==
  ASSUME TypeInv, [Next]_vars
  PROVE  PoolInv'
<1> USE DEF TypeInv, Goto, serverVars
<1>1. ASSUME NEW w \in Writers, Change(w) \/ NotifyLost(w) PROVE PoolInv'
  <2>1. UNCHANGED poolVars /\ Queued' = Queued /\ Holding' = Holding
    BY <1>1 DEF Change, NotifyLost, Queued, Holding
  <2>2. QED
    BY <2>1, PoolKept
<1>2. ASSUME NEW w \in Writers, Notify(w) PROVE PoolInv'
  <2>1. UNCHANGED poolVars /\ Queued' = Queued /\ Holding' = Holding
    BY <1>2 DEF Notify, Queued, Holding
  <2>2. QED
    BY <2>1, PoolKept
<1>3. ASSUME NEW c \in Clients, Connect(c) \/ BuildFails(c) \/ Update(c) PROVE PoolInv'
  <2>1. UNCHANGED poolVars /\ Queued' = Queued /\ Holding' = Holding
    BY <1>3 DEF Connect, BuildFails, Update, Queued, Holding, SequenceInv, Attending
  <2>2. QED
    BY <2>1, PoolKept
<1>4. ASSUME NEW c \in Clients, Build(c) \/ Heartbeat(c) PROVE PoolInv'
  BY <1>4, QueuePut DEF Build, Heartbeat
<1>5. ASSUME NEW c \in Clients, StartWait(c) PROVE PoolInv'
  BY <1>5, PoolStart
<1>6. ASSUME NEW c \in Clients, WaitOver(c) PROVE PoolInv'
  BY <1>6, PoolReturn
<1>7. ASSUME NEW c \in Clients, Disconnect(c) PROVE PoolInv'
  BY <1>7, PoolLeave
<1>8. CASE AbandonedWaitOver
  <2>1. Holding' = Holding /\ Queued' = Queued /\ queue' = queue
    BY <1>8 DEF AbandonedWaitOver, Holding, Queued
  <2>2. Cardinality(Holding) \in Nat
    BY FS_CardinalityType DEF PoolInv
  <2>3. abandoned' \in Nat /\ Busy' <= Workers
    BY <1>8, <2>1, <2>2, WorkersAssumption DEF AbandonedWaitOver, PoolInv, Busy
  <2>4. QED
    BY <2>1, <2>3 DEF PoolInv, Queued
<1>9. CASE UNCHANGED vars
  <2>1. UNCHANGED poolVars /\ Queued' = Queued /\ Holding' = Holding
    BY <1>9 DEF vars, Queued, Holding
  <2>2. QED
    BY <2>1, PoolKept
<1>10. QED
  BY <1>1, <1>2, <1>3, <1>4, <1>5, <1>6, <1>7, <1>8, <1>9 DEF Next, Payload, Resume

(* The shape of the stream's state: event_sequence never counts more than  *)
(* the changes there were, asyncio's queue holds exactly the waits that    *)
(* have not begun, each once, and consoles that stay and consoles that     *)
(* went away together never hold more threads than the pool has.           *)
THEOREM StreamTypeCorrect == Spec => []TypeOK
<1>1. TypeInv /\ [Next]_vars => TypeInv'
  BY SequenceStep, CountStep, PoolStep DEF TypeInv
<1>2. TypeInv => TypeOK
  <2> SUFFICES ASSUME TypeInv PROVE TypeOK
    OBVIOUS
  <2>1. Cardinality(Pending) \in Nat /\ MaxChanges \in Nat
    BY FS_CardinalityType, ChangesAssumption DEF TypeInv, CountInv
  <2>2. sequence <= MaxChanges /\ version <= MaxChanges
    BY <2>1 DEF TypeInv, CountInv, SequenceInv
  <2>3. QED
    BY <2>1, <2>2 DEF TypeInv, SequenceInv, CountInv, PoolInv, TypeOK, Attending
<1>3. QED
  BY InitType, <1>1, <1>2, PTL DEF Spec

=============================================================================
