---------------------------- MODULE EventStream ----------------------------
(***************************************************************************)
(* The SSE stream /events.  Threads of the server (the monitor, API calls, *)
(* tick ingestion) change what the console shows and then call _notify;    *)
(* each connected console has a generator that sends a snapshot, waits on  *)
(* event_condition in a thread of asyncio's pool, and sends an update when *)
(* event_sequence has moved.                                               *)
(*                                                                         *)
(* What is shown is abstracted to the number of the last change in it.     *)
(* The change and its notification are two steps, and so are the read of   *)
(* event_sequence, the building of the payload and the start of the wait:  *)
(* a notification that comes in between wakes nobody.                      *)
(***************************************************************************)
EXTENDS Integers, Sequences, SequencesExt

CONSTANTS
  Clients,     \* consoles
  Writers,     \* threads that change what is shown
  Workers,     \* threads of the pool that asyncio.to_thread runs in
  MaxChanges   \* bound: changes of a behaviour

ASSUME WorkersAssumption == Workers \in Nat \ {0}
ASSUME ChangesAssumption == MaxChanges \in Nat

VARIABLES
  version,    \* changes made so far
  writing,    \* the change a writer has yet to notify, or 0
  published,  \* the latest change notified
  sequence,   \* event_sequence
  pc,         \* where each generator is
  last,       \* its last_sequence
  result,     \* what its last _wait_for_event returned
  shown,      \* the latest change in the payload it sent last
  queue,      \* waits asyncio has no thread for yet
  abandoned   \* threads that still wait for a console that has gone

serverVars == <<version, writing, published, sequence>>
poolVars   == <<queue, abandoned>>
vars == <<serverVars, poolVars, pc, last, result, shown>>

Init ==
  /\ version = 0 /\ published = 0 /\ sequence = 0
  /\ writing = [w \in Writers |-> 0]
  /\ pc = [c \in Clients |-> "closed"]
  /\ last = [c \in Clients |-> 0]
  /\ result = [c \in Clients |-> 0]
  /\ shown = [c \in Clients |-> 0]
  /\ queue = <<>> /\ abandoned = 0

Goto(c, place) == pc' = [pc EXCEPT ![c] = place]

-----------------------------------------------------------------------------
(* The writers.                                                            *)

Change(w) ==
  /\ writing[w] = 0
  /\ version < MaxChanges
  /\ version' = version + 1
  /\ writing' = [writing EXCEPT ![w] = version + 1]
  /\ UNCHANGED <<published, sequence, poolVars, pc, last, result, shown>>

(* _notify: under the condition's lock, count and wake whoever waits now.  *)
Notify(w) ==
  /\ writing[w] # 0
  /\ sequence' = sequence + 1
  /\ published' = IF writing[w] > published THEN writing[w] ELSE published
  /\ writing' = [writing EXCEPT ![w] = 0]
  /\ pc' = [c \in Clients |-> IF pc[c] = "waiting" THEN "notified" ELSE pc[c]]
  /\ UNCHANGED <<version, poolVars, last, result, shown>>

(* An exception between the change and the notification: the tick is in    *)
(* memory and the tape cannot be written.                                  *)
NotifyLost(w) ==
  /\ writing[w] # 0
  /\ writing' = [writing EXCEPT ![w] = 0]
  /\ UNCHANGED <<version, published, sequence, poolVars, pc, last, result, shown>>

-----------------------------------------------------------------------------
(* A console's generator.                                                  *)

(* GET /events reads the sequence first.                                   *)
Connect(c) ==
  /\ pc[c] = "closed"
  /\ last' = [last EXCEPT ![c] = sequence]
  /\ Goto(c, "build")
  /\ UNCHANGED <<serverVars, poolVars, result, shown>>

(* _control_payload reads the state without a lock; the payload is sent    *)
(* and the wait is handed to the pool.                                     *)
Build(c) ==
  /\ pc[c] = "build"
  /\ shown' = [shown EXCEPT ![c] = version]
  /\ Goto(c, "queued")
  /\ queue' = Append(queue, c)
  /\ UNCHANGED <<serverVars, abandoned, last, result>>

(* A file the payload is built from is being written and does not parse:   *)
(* the exception ends the stream.                                          *)
BuildFails(c) ==
  /\ pc[c] = "build"
  /\ Goto(c, "closed")
  /\ UNCHANGED <<serverVars, poolVars, last, result, shown>>

Holding == {c \in Clients : pc[c] \in {"waiting", "notified"}}
Busy == Cardinality(Holding) + abandoned

(* Mutant: the wait counts from the sequence it finds when it begins.      *)
StartWaitFromNow(c) ==
  /\ pc[c] = "queued"
  /\ queue # <<>> /\ Head(queue) = c
  /\ Busy < Workers
  /\ queue' = Tail(queue)
  /\ Goto(c, "waiting")
  /\ last' = [last EXCEPT ![c] = sequence]
  /\ UNCHANGED <<serverVars, abandoned, result, shown>>

(* A thread of the pool is free: event_condition.wait begins, whatever the *)
(* sequence is by now.                                                     *)
StartWait(c) ==
  /\ pc[c] = "queued"
  /\ queue # <<>> /\ Head(queue) = c
  /\ Busy < Workers
  /\ queue' = Tail(queue)
  /\ Goto(c, "waiting")
  /\ UNCHANGED <<serverVars, abandoned, last, result, shown>>

(* Mutant: the wait has no timeout.                                        *)
WaitOverNotified(c) ==
  /\ pc[c] = "notified"
  /\ result' = [result EXCEPT ![c] = sequence]
  /\ Goto(c, "returned")
  /\ UNCHANGED <<serverVars, poolVars, last, shown>>

(* _wait_for_event returns, notified or after its timeout, with the        *)
(* sequence as it is then.                                                 *)
WaitOver(c) ==
  /\ c \in Holding
  /\ result' = [result EXCEPT ![c] = sequence]
  /\ Goto(c, "returned")
  /\ UNCHANGED <<serverVars, poolVars, last, shown>>

(* The generator resumes: a heartbeat and another wait, or an update.      *)
Heartbeat(c) ==
  /\ pc[c] = "returned"
  /\ result[c] = last[c]
  /\ Goto(c, "queued")
  /\ queue' = Append(queue, c)
  /\ UNCHANGED <<serverVars, abandoned, last, result, shown>>

Update(c) ==
  /\ pc[c] = "returned"
  /\ result[c] # last[c]
  /\ last' = [last EXCEPT ![c] = result[c]]
  /\ Goto(c, "build")
  /\ UNCHANGED <<serverVars, poolVars, result, shown>>

(* Mutant: a wait the pool has not begun is not cancelled.                 *)
DisconnectStillQueued(c) ==
  /\ pc[c] \in {"queued", "waiting", "notified", "returned"}
  /\ abandoned' = IF c \in Holding THEN abandoned + 1 ELSE abandoned
  /\ Goto(c, "closed")
  /\ UNCHANGED <<serverVars, queue, last, result, shown>>

(* The console goes away.  A wait the pool has not begun is cancelled; one *)
(* it has begun keeps its thread.                                          *)
Disconnect(c) ==
  /\ pc[c] \in {"queued", "waiting", "notified", "returned"}
  /\ queue' = RemoveFirst(queue, c)
  /\ abandoned' = IF c \in Holding THEN abandoned + 1 ELSE abandoned
  /\ Goto(c, "closed")
  /\ UNCHANGED <<serverVars, last, result, shown>>

(* The wait of a console that has gone is over as well.                    *)
AbandonedWaitOver ==
  /\ abandoned > 0
  /\ abandoned' = abandoned - 1
  /\ UNCHANGED <<serverVars, queue, pc, last, result, shown>>

Resume(c) == Heartbeat(c) \/ Update(c)
Payload(c) == Build(c) \/ BuildFails(c)

Next ==
  \/ \E w \in Writers : Change(w) \/ Notify(w) \/ NotifyLost(w)
  \/ \E c \in Clients :
       \/ Connect(c) \/ Payload(c) \/ StartWait(c) \/ WaitOver(c)
       \/ Resume(c) \/ Disconnect(c)
  \/ AbandonedWaitOver

Spec == Init /\ [][Next]_vars

(* The event loop and the pool serve what they hold in order, and a wait   *)
(* has a timeout of 20 seconds.  Consoles come and go as they like, and    *)
(* nothing makes a writer write.                                           *)
FairSpec ==
  /\ Spec
  /\ \A c \in Clients :
       /\ WF_vars(Payload(c)) /\ WF_vars(StartWait(c))
       /\ WF_vars(WaitOver(c)) /\ WF_vars(Resume(c))
  /\ WF_vars(AbandonedWaitOver)

-----------------------------------------------------------------------------
(* The shape of the state; the pool's queue holds the queued waits, each   *)
(* once, and its threads are never more than there are.                    *)
TypeOK ==
  /\ version \in 0..MaxChanges /\ published \in 0..MaxChanges
  /\ writing \in [Writers -> 0..MaxChanges]
  /\ sequence \in 0..MaxChanges
  /\ pc \in [Clients -> {"closed", "build", "queued", "waiting", "notified",
                         "returned"}]
  /\ last \in [Clients -> 0..MaxChanges]
  /\ result \in [Clients -> 0..MaxChanges]
  /\ shown \in [Clients -> 0..MaxChanges]
  /\ ToSet(queue) = {c \in Clients : pc[c] = "queued"}
  /\ IsInjective(queue)
  /\ abandoned \in Nat /\ Busy <= Workers

Attending == {"queued", "waiting", "notified", "returned"}

(* The wait has no predicate, so a console may sleep through a change; but *)
(* then its last_sequence is behind, and the next return of the wait sends *)
(* the change.  A console for which the next return would be a heartbeat   *)
(* has been sent everything that was ever notified.                        *)
HeartbeatOwesNothing ==
  \A c \in Clients :
    pc[c] \in Attending /\ last[c] = sequence => shown[c] >= published

(* Every change that is notified reaches every console that stays.         *)
UpdatesReachConsole ==
  \A c \in Clients, k \in 1..MaxChanges :
    (pc[c] # "closed" /\ published >= k)
      ~> (pc[c] = "closed" \/ shown[c] >= k)

(* With more consoles than threads in the pool, each still gets its turn:  *)
(* no thread is held for ever, not even by consoles that went away.        *)
PoolServesAll ==
  \A c \in Clients : pc[c] = "queued" ~> pc[c] # "queued"

(* No console is left behind: whatever wakeups it misses and however many  *)
(* others hold the pool, it gets its turn and every change.                *)
EveryConsoleServed == UpdatesReachConsole /\ PoolServesAll

-----------------------------------------------------------------------------
(* What makes HeartbeatOwesNothing inductive.                              *)
SequenceInv ==
  /\ version \in Nat /\ published \in Nat /\ sequence \in Nat
  /\ writing \in [Writers -> Nat]
  /\ pc \in [Clients -> {"closed", "build"} \cup Attending]
  /\ last \in [Clients -> Nat] /\ result \in [Clients -> Nat]
  /\ shown \in [Clients -> Nat]
  /\ published <= version
  /\ \A w \in Writers : writing[w] <= version
  /\ \A c \in Clients : last[c] <= sequence /\ result[c] <= sequence

IInv == SequenceInv /\ HeartbeatOwesNothing

(* What makes TypeOK inductive: a change is counted in version, and then   *)
(* either still pending or, at most once, in sequence.                     *)
Pending == {w \in Writers : writing[w] # 0}

CountInv ==
  /\ version <= MaxChanges
  /\ IsFiniteSet(Pending) /\ sequence + Cardinality(Pending) <= version
  /\ \A c \in Clients : shown[c] <= version

PoolInv ==
  /\ queue \in Seq(Clients) /\ IsInjective(queue)
  /\ ToSet(queue) = {c \in Clients : pc[c] = "queued"}
  /\ IsFiniteSet(Holding) /\ abandoned \in Nat /\ Busy <= Workers

TypeInv == SequenceInv /\ CountInv /\ PoolInv

=============================================================================
