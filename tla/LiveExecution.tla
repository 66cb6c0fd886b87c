---------------------------- MODULE LiveExecution ----------------------------
(***************************************************************************)
(* Orders on a real account.  Each trader is a process that, cycle after   *)
(* cycle, reads the account, lets the risk governor compare its positions  *)
(* with max_open_positions, sends an order and records the answer.  With   *)
(* execution_source "mt5" the adapter calls the terminal in the trader's   *)
(* own process; with "bridge" a thread of the bridge server does, and goes *)
(* on when the trader that posted the order has stopped waiting.           *)
(*                                                                         *)
(* The terminal is external: it answers an order_send as it likes, and     *)
(* closes positions at their stop or target.  DONE_PARTIAL counts as done. *)
(* An order_send that answers None may have been executed; place_order     *)
(* returns the verdict of a refusal all the same.                          *)
(***************************************************************************)
EXTENDS Integers, FiniteSets, Sequences

CONSTANTS
  Traders,    \* processes that trade the account
  MaxOpen,    \* risk_max_open_positions
  MaxOrders,  \* bound: orders sent in a behaviour
  MaxLapses,  \* bound: times a trader times out, fails or dies
  MaxBlind    \* bound: account reads without the terminal's positions

ASSUME TradersAssumption == IsFiniteSet(Traders)
ASSUME OpenAssumption == MaxOpen \in Nat
ASSUME LiveBoundsAssumption == MaxOrders \in Nat /\ MaxLapses \in Nat /\ MaxBlind \in Nat

VARIABLES
  rail,    \* execution_source: "bridge" or "mt5"
  seat,    \* what each trader does: "idle", "plan", "wait" or "book"
  seen,    \* account.open_positions as each trader last read it
  order,   \* the order each trader has in hand; 0: none
  sent,    \* orders sent so far; orders are numbered
  left,    \* filling modes place_order has still to try, for each order
  answer,  \* what place_order returned, for each order
  filled,  \* how many times the terminal executed each order
  held,    \* orders whose position is open in the terminal
  booked,  \* the execution on record for each order
  silent,  \* history: the orders whose order_send answered None
  lapses, blind

traderVars == <<seat, seen, order>>
serverVars == <<left, answer, silent>>
liveVars == <<rail, traderVars, sent, serverVars, filled, held, booked, lapses, blind>>

Orders == 1..MaxOrders
Answers == {"accepted", "refused", "error"}

LiveInit ==
  /\ rail \in {"bridge", "mt5"}
  /\ seat = [t \in Traders |-> "idle"]
  /\ seen = [t \in Traders |-> 0]
  /\ order = [t \in Traders |-> 0]
  /\ sent = 0
  /\ left = [o \in Orders |-> <<>>]
  /\ answer = [o \in Orders |-> "none"]
  /\ filled = [o \in Orders |-> 0]
  /\ held = {}
  /\ booked = [o \in Orders |-> "none"]
  /\ silent = {}
  /\ lapses = 0 /\ blind = 0

-----------------------------------------------------------------------------
(* The trader: cli._monitor and TradingAgent.run_once.                     *)

(* account_feed.state().  positions_get() answers None when it fails, and  *)
(* `len(positions or [])` makes no positions of it.                        *)
ReadAccount(t) ==
  /\ seat[t] = "idle"
  /\ \/ /\ seen' = [seen EXCEPT ![t] = Cardinality(held)]
        /\ UNCHANGED blind
     \/ /\ blind < MaxBlind
        /\ seen' = [seen EXCEPT ![t] = 0]
        /\ blind' = blind + 1
  /\ seat' = [seat EXCEPT ![t] = "plan"]
  /\ UNCHANGED <<rail, order, sent, serverVars, filled, held, booked, lapses>>

(* The planner holds or the governor rejects: no order.                    *)
Decline(t) ==
  /\ seat[t] = "plan"
  /\ seat' = [seat EXCEPT ![t] = "idle"]
  /\ UNCHANGED <<rail, seen, order, sent, serverVars, filled, held, booked, lapses, blind>>

(* Mutant: the limit is the last count that still lets an order through.   *)
MayOpenAtLimit(t) == seen[t] <= MaxOpen

(* The governor's limit.  Nothing else stops a live order: the symbol veto *)
(* needs a paper portfolio, and the feeds leave open risk and loss at 0.   *)
MayOpen(t) == seen[t] < MaxOpen

(* filling_candidates: what the symbol flags, FOK before IOC, and then     *)
(* every mode that is not in the list yet.                                 *)
FillingCandidates(flags) ==
  IF flags = {"fok"} \/ flags = {"fok", "ioc"} THEN <<"fok", "ioc", "return">>
                                               ELSE <<"ioc", "fok", "return">>

(* broker.place_order: over the bridge a POST to /orders.                  *)
PlaceOrder(t) ==
  /\ seat[t] = "plan"
  /\ MayOpen(t)
  /\ sent < MaxOrders
  /\ sent' = sent + 1
  /\ order' = [order EXCEPT ![t] = sent + 1]
  /\ seat' = [seat EXCEPT ![t] = "wait"]
  /\ \E flags \in SUBSET {"fok", "ioc"} :
       left' = [left EXCEPT ![sent + 1] = FillingCandidates(flags)]
  /\ UNCHANGED <<rail, seen, answer, silent, filled, held, booked, lapses, blind>>

(* Mutant: the order of an answer that is raised stays in hand.            *)
ReceiveKeeping(t) ==
  /\ seat[t] = "wait"
  /\ answer[order[t]] # "none"
  /\ seat' = [seat EXCEPT ![t] = IF answer[order[t]] = "error" THEN "idle" ELSE "book"]
  /\ UNCHANGED <<rail, seen, order, sent, serverVars, filled, held, booked, lapses, blind>>

(* The answer arrives.  Status 500 is raised out of the loop, unrecorded.  *)
Receive(t) ==
  /\ seat[t] = "wait"
  /\ answer[order[t]] # "none"
  /\ IF answer[order[t]] = "error"
       THEN /\ seat' = [seat EXCEPT ![t] = "idle"]
            /\ order' = [order EXCEPT ![t] = 0]
       ELSE /\ seat' = [seat EXCEPT ![t] = "book"]
            /\ UNCHANGED order
  /\ UNCHANGED <<rail, seen, sent, serverVars, filled, held, booked, lapses, blind>>

(* Mutant: without a paper portfolio only refusals are put on record.      *)
BookRefusals(t) ==
  /\ seat[t] = "book"
  /\ booked' = [booked EXCEPT ![order[t]] =
                  IF answer[order[t]] = "accepted" THEN "none" ELSE answer[order[t]]]
  /\ seat' = [seat EXCEPT ![t] = "idle"]
  /\ order' = [order EXCEPT ![t] = 0]
  /\ UNCHANGED <<rail, seen, sent, serverVars, filled, held, lapses, blind>>

(* memory.append of the record with its execution.                         *)
Book(t) ==
  /\ seat[t] = "book"
  /\ booked' = [booked EXCEPT ![order[t]] = answer[order[t]]]
  /\ seat' = [seat EXCEPT ![t] = "idle"]
  /\ order' = [order EXCEPT ![t] = 0]
  /\ UNCHANGED <<rail, seen, sent, serverVars, filled, held, lapses, blind>>

(* Mutant: a timed out order is put on record as refused.                  *)
GiveUpBooking(t) ==
  /\ seat[t] # "idle" /\ lapses < MaxLapses
  /\ lapses' = lapses + 1
  /\ seat' = [seat EXCEPT ![t] = "idle"]
  /\ order' = [order EXCEPT ![t] = 0]
  /\ booked' = IF seat[t] = "wait" THEN [booked EXCEPT ![order[t]] = "refused"] ELSE booked
  /\ left' = IF seat[t] = "wait" /\ rail = "mt5"
               THEN [left EXCEPT ![order[t]] = <<>>] ELSE left
  /\ UNCHANGED <<rail, seen, sent, answer, silent, filled, held, blind>>

(* The request times out, its answer is lost, an exception leaves the loop *)
(* or the process dies; it may be started again.  A call in its own        *)
(* process ends with it, a thread of the bridge server does not.           *)
GiveUp(t) ==
  /\ seat[t] # "idle" /\ lapses < MaxLapses
  /\ lapses' = lapses + 1
  /\ seat' = [seat EXCEPT ![t] = "idle"]
  /\ order' = [order EXCEPT ![t] = 0]
  /\ left' = IF seat[t] = "wait" /\ rail = "mt5"
               THEN [left EXCEPT ![order[t]] = <<>>] ELSE left
  /\ UNCHANGED <<rail, seen, sent, answer, silent, filled, held, booked, blind>>

-----------------------------------------------------------------------------
(* place_order, of the adapter or of the bridge server.                    *)

Returns(o, a) ==
  /\ answer' = [answer EXCEPT ![o] = a]
  /\ left' = [left EXCEPT ![o] = <<>>]

(* The terminal does not start, or does not know the symbol.  The adapter  *)
(* refuses the order, the server answers 500.                              *)
NotSent(o) ==
  /\ left[o] # <<>>
  /\ Returns(o, IF rail = "mt5" THEN "refused" ELSE "error")
  /\ UNCHANGED <<rail, traderVars, sent, silent, filled, held, booked, lapses, blind>>

Execute(o) ==
  /\ filled' = [filled EXCEPT ![o] = @ + 1]
  /\ held' = held \cup {o}

(* The terminal says whether it executed the order; the next filling mode  *)
(* is tried only after INVALID_FILL.                                       *)
Told(o) ==
  /\ \/ Execute(o) /\ Returns(o, "accepted")          \* DONE, DONE_PARTIAL
     \/ /\ IF Len(left[o]) > 1                        \* INVALID_FILL
             THEN left' = [left EXCEPT ![o] = Tail(@)] /\ UNCHANGED answer
             ELSE Returns(o, "refused")
        /\ UNCHANGED <<filled, held>>
     \/ Returns(o, "refused") /\ UNCHANGED <<filled, held>>    \* other retcodes
  /\ UNCHANGED silent

(* Mutant: a call without an answer is tried again too.                    *)
OrderSendRetrying(o) ==
  /\ left[o] # <<>>
  /\ \/ Told(o)
     \/ /\ IF Len(left[o]) > 1
             THEN left' = [left EXCEPT ![o] = Tail(@)] /\ UNCHANGED answer
             ELSE Returns(o, "refused")
        /\ silent' = silent \cup {o}
        /\ Execute(o) \/ UNCHANGED <<filled, held>>
  /\ UNCHANGED <<rail, traderVars, sent, booked, lapses, blind>>

(* order_send with the next filling mode.  None ends the call, executed or *)
(* not, as a refusal.                                                      *)
OrderSend(o) ==
  /\ left[o] # <<>>
  /\ \/ Told(o)
     \/ /\ Returns(o, "refused")                      \* None
        /\ silent' = silent \cup {o}
        /\ Execute(o) \/ UNCHANGED <<filled, held>>
  /\ UNCHANGED <<rail, traderVars, sent, booked, lapses, blind>>

(* The terminal closes a position.                                         *)
ClosePosition(o) ==
  /\ o \in held
  /\ held' = held \ {o}
  /\ UNCHANGED <<rail, traderVars, sent, serverVars, filled, booked, lapses, blind>>

LiveNext ==
  \/ \E t \in Traders : \/ ReadAccount(t) \/ Decline(t) \/ PlaceOrder(t)
                        \/ Receive(t) \/ Book(t) \/ GiveUp(t)
  \/ \E o \in Orders : NotSent(o) \/ OrderSend(o) \/ ClosePosition(o)

LiveSpec == LiveInit /\ [][LiveNext]_liveVars

-----------------------------------------------------------------------------
(* Properties.                                                             *)

InHand == {order[t] : t \in Traders} \ {0}

(* The shape of the state; two traders never hold the same order.          *)
LiveTypeOK ==
  /\ rail \in {"bridge", "mt5"}
  /\ seat \in [Traders -> {"idle", "plan", "wait", "book"}]
  /\ seen \in [Traders -> Nat]
  /\ order \in [Traders -> 0..sent]
  /\ \A t \in Traders : order[t] = 0 <=> seat[t] \in {"idle", "plan"}
  /\ \A t, u \in Traders : order[t] = order[u] /\ order[t] # 0 => t = u
  /\ sent \in 0..MaxOrders
  /\ left \in [Orders -> Seq({"fok", "ioc", "return"})]
  /\ answer \in [Orders -> Answers \cup {"none"}]
  /\ filled \in [Orders -> Nat] /\ held \subseteq Orders
  /\ booked \in [Orders -> Answers \cup {"none"}]
  /\ silent \subseteq Orders
  /\ lapses \in 0..MaxLapses /\ blind \in 0..MaxBlind

(* However often place_order tries other filling modes, and whatever       *)
(* happens to the trader meanwhile, no order is executed twice, an order   *)
(* on record as accepted was executed, and one on record as refused never  *)
(* was and never will be, not even by a thread that outlived its caller -  *)
(* unless its order_send answered None.  That one is refused on record     *)
(* whatever the terminal did, and it is the only lie the store can tell.   *)
RecordsTellTruth ==
  \A o \in Orders :
    /\ filled[o] <= 1
    /\ booked[o] = "accepted" => filled[o] = 1 /\ o \notin silent
    /\ booked[o] = "refused" => left[o] = <<>> /\ (filled[o] = 0 \/ o \in silent)

(* A position no record owns to is one a trader still waits for, one lost  *)
(* with a trader that gave up, one for each time, or one on record as      *)
(* refused because its order_send answered None: no other way leads to a   *)
(* trade the store does not know of.                                       *)
UnrecordedBounded ==
  Cardinality({o \in Orders \ InHand : filled[o] > 0 /\ booked[o] # "accepted"})
    <= lapses + Cardinality({o \in silent : booked[o] = "refused"})

(* Orders that may still be executed: of a trader the governor has let or  *)
(* will let pass, and those of a bridge thread nobody waits for any more.  *)
Permits == {t \in Traders : seat[t] = "plan" /\ seen[t] < MaxOpen}
Pending == {o \in Orders : left[o] # <<>>}

(* max_open_positions is a limit up to what the gap between reading the    *)
(* account and executing an order lets through: one order for every other  *)
(* trader, for every abandoned request and for every read without the      *)
(* terminal's positions.                                                   *)
ExposureBounded ==
  MaxOpen > 0 =>
    Cardinality(held) + Cardinality(Permits) + Cardinality(Pending)
      <= MaxOpen + Cardinality(Traders) - 1 + (IF rail = "bridge" THEN lapses ELSE 0) + blind

=============================================================================
