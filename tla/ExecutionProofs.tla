--------------------------- MODULE ExecutionProofs ---------------------------
(***************************************************************************)
(* Theorems about LiveExecution for any traders, limit and number of       *)
(* orders, lapses and blind reads, about PaperBook for any monitors and    *)
(* number of trades, and about the two side by side.                       *)
(***************************************************************************)
EXTENDS MCExecution, SetFacts

Modes == Seq({"fok", "ioc", "return"})

LEMMA ModesFacts ==
  /\ <<>> \in Modes
  /\ \A m \in Modes : m # <<>> => Tail(m) \in Modes
  /\ \A m \in Modes : Len(m) > 1 => Tail(m) # <<>>
  /\ \A flags : FillingCandidates(flags) \in Modes /\ FillingCandidates(flags) # <<>>
<1>1. <<>> \in Modes
  BY DEF Modes
<1>2. ASSUME NEW m \in Modes, m # <<>> PROVE Tail(m) \in Modes
  BY <1>2 DEF Modes
<1>6. ASSUME NEW m \in Modes, Len(m) > 1 PROVE Tail(m) # <<>>
  <2>1. m # <<>> /\ Len(Tail(m)) = Len(m) - 1 /\ Len(m) \in Nat
    BY <1>6 DEF Modes
  <2>2. Len(<<>>) = 0
    BY EmptySeq
  <2>3. Len(Tail(m)) # 0
    <3>1. Len(m) - 1 # 0
      BY <1>6, <2>1
    <3>2. QED
      BY <2>1, <3>1, Zenon
  <2>4. QED
    BY <2>2, <2>3, Zenon
<1>3. /\ <<"fok", "ioc", "return">> \in Modes /\ <<"fok", "ioc", "return">> # <<>>
      /\ <<"ioc", "fok", "return">> \in Modes /\ <<"ioc", "fok", "return">> # <<>>
  BY DEF Modes
<1>4. ASSUME NEW flags
      PROVE  FillingCandidates(flags) \in Modes /\ FillingCandidates(flags) # <<>>
  <2>1. \/ FillingCandidates(flags) = <<"fok", "ioc", "return">>
        \/ FillingCandidates(flags) = <<"ioc", "fok", "return">>
    BY Zenon DEF FillingCandidates
  <2>2. QED
    BY <2>1, <1>3
<1>5. QED
  BY <1>1, <1>2, <1>4, <1>6

(* What is known of an order where its call of place_order stands: before  *)
(* it was sent, while filling modes are left, and after its answer.        *)
CallInv ==
  \A o \in Orders :
    /\ filled[o] \in Nat
    /\ left[o] # <<>> => o <= sent /\ answer[o] = "none"
    /\ answer[o] = "none" => filled[o] = 0
    /\ o > sent => answer[o] = "none" /\ booked[o] = "none"
    /\ filled[o] <= 1
    /\ answer[o] # "none" => left[o] = <<>>
    /\ answer[o] = "accepted" => filled[o] = 1 /\ o \notin silent
    /\ answer[o] = "refused" => filled[o] = 0 \/ o \in silent
    /\ o \in silent => answer[o] # "none"

(* The order a trader waits for was sent, and the one it is about to put   *)
(* on record has its answer.                                               *)
SeatInv ==
  /\ sent \in 0..MaxOrders
  /\ \A t \in Traders :
       /\ seat[t] \in {"wait", "book"} => order[t] \in 1..sent
       /\ seat[t] = "book" => answer[order[t]] # "none"

(* What is on record is the answer.                                        *)
BookedInv == \A o \in Orders : booked[o] # "none" => booked[o] = answer[o]

ShapeInv ==
  /\ seat \in [Traders -> {"idle", "plan", "wait", "book"}]
  /\ order \in [Traders -> Nat]
  /\ left \in [Orders -> Modes]
  /\ answer \in [Orders -> Answers \cup {"none"}]
  /\ filled \in [Orders -> Nat]
  /\ booked \in [Orders -> Answers \cup {"none"}]
  /\ silent \subseteq Orders

LiveInv == ShapeInv /\ CallInv /\ SeatInv /\ BookedInv

LEMMA LiveInitInv == LiveInit => LiveInv
  BY LiveBoundsAssumption, ModesFacts
     DEF LiveInit, LiveInv, ShapeInv, CallInv, SeatInv, BookedInv, Orders, Answers

-----------------------------------------------------------------------------
LEMMA TraderStep ==
  ASSUME LiveInv, NEW t \in Traders,
         ReadAccount(t) \/ Decline(t) \/ PlaceOrder(t) \/ Receive(t) \/ Book(t) \/ GiveUp(t)
  PROVE  LiveInv'
<1> USE LiveBoundsAssumption
    DEF LiveInv, ShapeInv, CallInv, SeatInv, BookedInv, Orders, Answers, serverVars
<1>1. CASE ReadAccount(t)
  BY <1>1 DEF ReadAccount
<1>2. CASE Decline(t)
  BY <1>2 DEF Decline
<1>3. CASE PlaceOrder(t)
  <2>1. PICK flags \in SUBSET {"fok", "ioc"} :
          left' = [left EXCEPT ![sent + 1] = FillingCandidates(flags)]
    BY <1>3 DEF PlaceOrder
  <2>2. FillingCandidates(flags) \in Modes
    BY ModesFacts
  <2>3. sent + 1 \in Orders /\ sent' = sent + 1 /\ sent \in Nat
    BY <1>3 DEF PlaceOrder
  <2>4. /\ order' = [order EXCEPT ![t] = sent + 1]
        /\ seat' = [seat EXCEPT ![t] = "wait"]
        /\ UNCHANGED <<answer, silent, filled, booked>>
    BY <1>3 DEF PlaceOrder
  <2>5. ShapeInv'
    BY <2>1, <2>2, <2>3, <2>4
  <2>6. answer[sent + 1] = "none" /\ booked[sent + 1] = "none" /\ filled[sent + 1] = 0
    BY <2>3
  <2>7. CallInv'
    <3>1. \A o \in Orders \ {sent + 1} : left'[o] = left[o]
      BY <2>1
    <3>2. QED
      BY <2>3, <2>4, <2>6, <3>1
  <2>8. SeatInv' /\ BookedInv'
    BY <2>3, <2>4
  <2>9. QED
    BY <2>5, <2>7, <2>8
<1>4. CASE Receive(t)
  <2>1. seat[t] = "wait" /\ answer[order[t]] # "none"
        /\ UNCHANGED <<sent, left, answer, silent, filled, booked>>
    BY <1>4 DEF Receive
  <2>2. \/ /\ seat' = [seat EXCEPT ![t] = "idle"]
           /\ order' = [order EXCEPT ![t] = 0]
        \/ /\ seat' = [seat EXCEPT ![t] = "book"]
           /\ UNCHANGED order
    BY <1>4 DEF Receive
  <2>3. CallInv' /\ BookedInv'
    BY <2>1
  <2>4. ShapeInv'
    <3>1. order' \in [Traders -> Nat]
      <4>1. CASE order' = [order EXCEPT ![t] = 0]
        BY <4>1
      <4>2. CASE UNCHANGED order
        BY <4>2
      <4>3. QED
        BY <2>2, <4>1, <4>2
    <3>2. seat' \in [Traders -> {"idle", "plan", "wait", "book"}]
      BY <2>2
    <3>3. QED
      BY <2>1, <3>1, <3>2
  <2>5. SeatInv'
    <3>1. CASE order' = [order EXCEPT ![t] = 0]
      BY <2>1, <2>2, <3>1
    <3>2. CASE UNCHANGED order /\ seat' = [seat EXCEPT ![t] = "book"]
      BY <2>1, <3>2
    <3>3. QED
      BY <2>2, <3>1, <3>2
  <2>6. QED
    BY <2>3, <2>4, <2>5
<1>5. CASE Book(t)
  <2>1. order[t] \in Orders /\ order[t] <= sent /\ answer[order[t]] # "none"
    BY <1>5 DEF Book
  <2>2. /\ booked' = [booked EXCEPT ![order[t]] = answer[order[t]]]
        /\ seat' = [seat EXCEPT ![t] = "idle"]
        /\ order' = [order EXCEPT ![t] = 0]
        /\ UNCHANGED <<sent, left, answer, silent, filled>>
    BY <1>5 DEF Book
  <2>3. ShapeInv'
    BY <2>1, <2>2
  <2>4. CallInv'
    BY <2>1, <2>2
  <2>5. SeatInv' /\ BookedInv'
    BY <2>1, <2>2
  <2>6. QED
    BY <2>3, <2>4, <2>5
<1>6. CASE GiveUp(t)
  <2>1. /\ seat' = [seat EXCEPT ![t] = "idle"]
        /\ order' = [order EXCEPT ![t] = 0]
        /\ UNCHANGED <<sent, answer, silent, filled, booked>>
    BY <1>6 DEF GiveUp
  <2>2. left' = left \/ left' = [left EXCEPT ![order[t]] = <<>>]
    BY <1>6 DEF GiveUp
  <2>3. \A o \in Orders : left'[o] = left[o] \/ left'[o] = <<>>
    BY <2>2
  <2>4. left' \in [Orders -> Modes]
    BY <2>2, ModesFacts
  <2>5. QED
    BY <2>1, <2>3, <2>4
<1>7. QED
  BY <1>1, <1>2, <1>3, <1>4, <1>5, <1>6

(* An answer ends the call: no filling mode is left.                       *)
LEMMA CallEnds ==
  ASSUME LiveInv, NEW o \in Orders, left[o] # <<>>,
         NEW a \in Answers, Returns(o, a),
         UNCHANGED <<seat, order, sent, booked>>,
         \/ UNCHANGED <<filled, silent>> /\ a # "accepted"
         \/ /\ filled' = [filled EXCEPT ![o] = @ + 1]
            /\ UNCHANGED silent /\ a = "accepted"
         \/ /\ filled' = filled \/ filled' = [filled EXCEPT ![o] = @ + 1]
            /\ silent' = silent \cup {o} /\ a = "refused"
  PROVE  LiveInv'
<1> USE LiveBoundsAssumption
    DEF LiveInv, ShapeInv, CallInv, SeatInv, BookedInv, Orders, Answers
<1>1. /\ answer' = [answer EXCEPT ![o] = a]
      /\ left' = [left EXCEPT ![o] = <<>>]
  BY DEF Returns
<1>2. filled[o] = 0 /\ o <= sent /\ answer[o] = "none" /\ booked[o] = "none"
  OBVIOUS
<1>3. filled' \in [Orders -> Nat] /\ filled'[o] \in {0, 1}
      /\ silent' \subseteq Orders
      /\ (\A p \in Orders \ {o} : (p \in silent') <=> (p \in silent))
      /\ (a = "accepted" => filled'[o] = 1 /\ o \notin silent')
      /\ (a = "refused" => filled'[o] = 0 \/ o \in silent')
      /\ \A p \in Orders \ {o} : filled'[p] = filled[p]
  <2>1. filled \in [Orders -> Nat] /\ silent \subseteq Orders /\ o \notin silent
    BY <1>2
  <2>2. CASE UNCHANGED <<filled, silent>> /\ a # "accepted"
    BY <1>2, <2>1, <2>2
  <2>3. CASE filled' = [filled EXCEPT ![o] = @ + 1] /\ UNCHANGED silent /\ a = "accepted"
    BY <1>2, <2>1, <2>3
  <2>4. CASE /\ filled' = filled \/ filled' = [filled EXCEPT ![o] = @ + 1]
             /\ silent' = silent \cup {o} /\ a = "refused"
    BY <1>2, <2>1, <2>4
  <2>5. QED
    BY <2>2, <2>3, <2>4
<1>4. ShapeInv'
  BY <1>1, <1>3, ModesFacts
<1>5. CallInv'
  BY <1>1, <1>2, <1>3
<1>6. SeatInv' /\ BookedInv'
  BY <1>1, <1>2
<1>7. QED
  BY <1>4, <1>5, <1>6

LEMMA OrderStep ==
  ASSUME LiveInv, NEW o \in Orders, NotSent(o) \/ OrderSend(o) \/ ClosePosition(o)
  PROVE  LiveInv'
<1>1. CASE NotSent(o)
  <2>1. CASE rail = "mt5"
    BY <1>1, <2>1, CallEnds DEF NotSent, Answers, traderVars
  <2>2. CASE rail # "mt5"
    BY <1>1, <2>2, CallEnds DEF NotSent, Answers, traderVars
  <2>3. QED
    BY <2>1, <2>2
<1>2. CASE OrderSend(o)
  <2> USE DEF Answers, traderVars
  <2>1. left[o] # <<>> /\ UNCHANGED <<seat, order, sent, booked>>
    BY <1>2 DEF OrderSend
  <2>2. CASE Execute(o) /\ Returns(o, "accepted") /\ UNCHANGED silent
    BY <2>1, <2>2, CallEnds DEF Execute
  <2>3. CASE Returns(o, "refused") /\ UNCHANGED <<filled, silent>>
    BY <2>1, <2>3, CallEnds
  <2>4. CASE Returns(o, "refused") /\ silent' = silent \cup {o}
             /\ (Execute(o) \/ UNCHANGED filled)
    BY <2>1, <2>4, CallEnds DEF Execute
  <2>5. CASE left' = [left EXCEPT ![o] = Tail(@)] /\ UNCHANGED <<answer, filled, silent>>
    <3>1. Tail(left[o]) \in Modes
      BY <2>1, ModesFacts DEF LiveInv, ShapeInv
    <3>2. QED
      BY <2>1, <2>5, <3>1
         DEF LiveInv, ShapeInv, CallInv, SeatInv, BookedInv, Orders
  <2>6. QED
    BY <1>2, <2>2, <2>3, <2>4, <2>5 DEF OrderSend, Told
<1>3. CASE ClosePosition(o)
  BY <1>3 DEF ClosePosition, traderVars, serverVars, LiveInv, ShapeInv, CallInv,
     SeatInv, BookedInv
<1>4. QED
  BY <1>1, <1>2, <1>3

(* The call of every order runs its course, whoever still waits for it.    *)
THEOREM LiveInvariance == LiveSpec => []LiveInv
<1>1. LiveInv /\ [LiveNext]_liveVars => LiveInv'
  <2> SUFFICES ASSUME LiveInv, [LiveNext]_liveVars PROVE LiveInv'
    OBVIOUS
  <2>1. CASE UNCHANGED liveVars
    BY <2>1 DEF liveVars, traderVars, serverVars, LiveInv, ShapeInv, CallInv,
       SeatInv, BookedInv
  <2>2. CASE LiveNext
    BY <2>2, TraderStep, OrderStep DEF LiveNext
  <2>3. QED
    BY <2>1, <2>2
<1>2. QED
  BY LiveInitInv, <1>1, PTL DEF LiveSpec

(* No order is executed twice, an accepted order on record was executed,   *)
(* and a refused one never is, whatever is answered late, lost, tried      *)
(* again or abandoned - but for an order whose order_send answered None:   *)
(* it is on record as refused, executed or not.                            *)
THEOREM RecordsAreTrue == LiveSpec => []RecordsTellTruth
<1>1. LiveInv => RecordsTellTruth
  BY DEF LiveInv, CallInv, BookedInv, RecordsTellTruth
<1>2. QED
  BY LiveInvariance, <1>1, PTL

-----------------------------------------------------------------------------
(* Whose order it is: each order in hand is in one hand, a seat holds one  *)
(* exactly while it waits or books, and a position that is open belongs to *)
(* an order whose call has ended.                                          *)
HandInv ==
  /\ \A t \in Traders : order[t] = 0 <=> seat[t] \in {"idle", "plan"}
  /\ \A t, u \in Traders : order[t] = order[u] /\ order[t] # 0 => t = u
  /\ \A t \in Traders : order[t] <= sent
  /\ held \subseteq Orders
  /\ \A o \in held : answer[o] # "none"
  /\ \A o \in Orders : answer[o] = "error" => filled[o] = 0

LEMMA HandStep ==
  ASSUME LiveInv, LiveInv', HandInv, LiveNext
  PROVE  HandInv'
<1> USE DEF LiveInv, ShapeInv, SeatInv, HandInv, Orders, serverVars
<1> sent \in Nat
  BY LiveBoundsAssumption
<1>1. ASSUME NEW t \in Traders, ReadAccount(t) PROVE HandInv'
  <2>1. /\ seat[t] = "idle" /\ seat' = [seat EXCEPT ![t] = "plan"]
        /\ UNCHANGED <<order, sent, answer, filled, held>>
    BY <1>1 DEF ReadAccount
  <2>2. QED
    BY <2>1
<1>2. ASSUME NEW t \in Traders, Decline(t) PROVE HandInv'
  BY <1>2 DEF Decline
<1>3. ASSUME NEW t \in Traders, PlaceOrder(t) PROVE HandInv'
  BY <1>3 DEF PlaceOrder
<1>4. ASSUME NEW t \in Traders, Receive(t) PROVE HandInv'
  <2>1. CASE answer[order[t]] = "error"
    <3>1. /\ seat' = [seat EXCEPT ![t] = "idle"] /\ order' = [order EXCEPT ![t] = 0]
          /\ UNCHANGED <<sent, answer, filled, held>>
      BY <1>4, <2>1 DEF Receive
    <3>2. QED
      BY <3>1
  <2>2. CASE answer[order[t]] # "error"
    BY <1>4, <2>2 DEF Receive
  <2>3. QED
    BY <2>1, <2>2
<1>5. ASSUME NEW t \in Traders, Book(t) PROVE HandInv'
  BY <1>5 DEF Book
<1>6. ASSUME NEW t \in Traders, GiveUp(t) PROVE HandInv'
  BY <1>6 DEF GiveUp
<1>7. ASSUME NEW o \in Orders, NotSent(o) PROVE HandInv'
  BY <1>7 DEF NotSent, Returns, traderVars, CallInv
<1>8. ASSUME NEW o \in Orders, OrderSend(o) PROVE HandInv'
  <2>1. UNCHANGED <<seat, order, sent>>
    BY <1>8 DEF OrderSend, traderVars
  <2>2. filled[o] = 0 /\ answer[o] = "none"
    BY <1>8 DEF OrderSend, CallInv
  <2>3. \/ UNCHANGED <<answer, held, filled>>
        \/ /\ answer'[o] \in {"accepted", "refused"}
           /\ answer' = [answer EXCEPT ![o] = answer'[o]]
           /\ held' \subseteq held \cup {o}
           /\ \A p \in Orders \ {o} : filled'[p] = filled[p]
    BY <1>8 DEF OrderSend, Told, Returns, Execute
  <2>4. CASE UNCHANGED <<answer, held, filled>>
    BY <2>1, <2>4
  <2>5. CASE /\ answer'[o] \in {"accepted", "refused"}
             /\ answer' = [answer EXCEPT ![o] = answer'[o]]
             /\ held' \subseteq held \cup {o}
             /\ \A p \in Orders \ {o} : filled'[p] = filled[p]
    <3>1. \A p \in Orders \ {o} : answer'[p] = answer[p]
      BY <2>5
    <3>2. QED
      BY <2>1, <2>5, <3>1
  <2>6. QED
    BY <2>3, <2>4, <2>5
<1>9. ASSUME NEW o \in Orders, ClosePosition(o) PROVE HandInv'
  BY <1>9 DEF ClosePosition, traderVars
<1>10. QED
  BY <1>1, <1>2, <1>3, <1>4, <1>5, <1>6, <1>7, <1>8, <1>9 DEF LiveNext

(* Orders stay in the hands they were placed by.                           *)
THEOREM HandInvariance == LiveSpec => []HandInv
<1>1. LiveInit => HandInv
  BY DEF LiveInit, HandInv, Orders
<1>2. LiveInv /\ LiveInv' /\ HandInv /\ [LiveNext]_liveVars => HandInv'
  <2>1. CASE UNCHANGED liveVars
    BY <2>1 DEF liveVars, traderVars, serverVars, HandInv
  <2>2. QED
    BY <2>1, HandStep
<1>3. QED
  BY <1>1, <1>2, LiveInvariance, PTL DEF LiveSpec

-----------------------------------------------------------------------------
(* The counts.  Untold: orders nobody holds that have no record, although  *)
(* the trader was not told that they failed.  Waiters: traders with an     *)
(* order that may still be executed.                                       *)
Untold == {o \in Orders \ InHand : o <= sent /\ booked[o] = "none" /\ answer[o] # "error"}

Waiters == {t \in Traders : order[t] \in Pending}

Lapsed == IF rail = "bridge" THEN lapses ELSE 0

GaugeInv ==
  /\ rail \in {"bridge", "mt5"}
  /\ seen \in [Traders -> Nat]
  /\ lapses \in 0..MaxLapses /\ blind \in 0..MaxBlind

UntoldInv == Cardinality(Untold) <= lapses

WaitersInv == Cardinality(Pending) <= Cardinality(Waiters) + Lapsed

BaseInv == LiveInv /\ HandInv /\ GaugeInv

LEMMA FiniteCounts ==
  /\ IsFiniteSet(Orders) /\ IsFiniteSet(Traders) /\ Cardinality(Traders) \in Nat
  /\ IsFiniteSet(Untold) /\ Cardinality(Untold) \in Nat
  /\ IsFiniteSet(Pending) /\ Cardinality(Pending) \in Nat
  /\ IsFiniteSet(Waiters) /\ Cardinality(Waiters) \in Nat
  /\ IsFiniteSet(Permits) /\ Cardinality(Permits) \in Nat
<1>1. IsFiniteSet(Orders)
  BY FS_Interval, LiveBoundsAssumption DEF Orders
<1>2. Untold \subseteq Orders /\ Pending \subseteq Orders
  BY DEF Untold, Pending
<1>3. Waiters \subseteq Traders /\ Permits \subseteq Traders
  BY DEF Waiters, Permits
<1>4. IsFiniteSet(Traders)
  BY TradersAssumption
<1>5. QED
  BY <1>1, <1>2, <1>3, <1>4, SizeGrows, FS_CardinalityType

LEMMA GaugeStep ==
  ASSUME LiveInv, HandInv, GaugeInv, LiveNext
  PROVE  GaugeInv'
<1> USE LiveBoundsAssumption DEF GaugeInv
<1>1. ASSUME NEW t \in Traders, ReadAccount(t) PROVE GaugeInv'
  <2>1. Cardinality(held) \in Nat
    BY SizeGrows, FiniteCounts DEF HandInv
  <2>2. QED
    BY <1>1, <2>1 DEF ReadAccount
<1>2. ASSUME NEW t \in Traders, GiveUp(t) PROVE GaugeInv'
  BY <1>2 DEF GiveUp
<1>3. CASE UNCHANGED <<rail, seen, lapses, blind>>
  BY <1>3
<1>4. QED
  BY <1>1, <1>2, <1>3
     DEF LiveNext, Decline, PlaceOrder, Receive, Book, NotSent, OrderSend, ClosePosition,
         traderVars

(* An order leaves the hands untold only with a lapse.                     *)
LEMMA UntoldStep ==
  ASSUME BaseInv, BaseInv', LiveNext
  PROVE  \/ Untold' \subseteq Untold /\ lapses' = lapses
         \/ \E o \in Nat : Untold' \subseteq Untold \cup {o} /\ lapses' = lapses + 1
<1> USE DEF BaseInv, GaugeInv, LiveInv, ShapeInv, SeatInv, HandInv, Untold, InHand, Orders,
            serverVars
<1> sent \in Nat
  BY LiveBoundsAssumption
<1>1. ASSUME NEW t \in Traders, ReadAccount(t) \/ Decline(t)
      PROVE  Untold' \subseteq Untold /\ lapses' = lapses
  BY <1>1 DEF ReadAccount, Decline
<1>2. ASSUME NEW t \in Traders, PlaceOrder(t)
      PROVE  Untold' \subseteq Untold /\ lapses' = lapses
  <2>1. /\ order[t] = 0 /\ order' = [order EXCEPT ![t] = sent + 1] /\ sent' = sent + 1
        /\ UNCHANGED <<answer, booked, lapses>>
    BY <1>2 DEF PlaceOrder
  <2>2. order'[t] = sent + 1 /\ \A u \in Traders \ {t} : order'[u] = order[u]
    BY <2>1
  <2>3. ASSUME NEW o \in Untold' PROVE o \in Untold
    BY <2>1, <2>2, <2>3
  <2>4. QED
    BY <2>1, <2>3
<1>3. ASSUME NEW t \in Traders, Receive(t)
      PROVE  Untold' \subseteq Untold /\ lapses' = lapses
  <2>1. CASE answer[order[t]] = "error"
    <3>1. /\ order' = [order EXCEPT ![t] = 0]
          /\ UNCHANGED <<answer, booked, sent, lapses>>
      BY <1>3, <2>1 DEF Receive
    <3>2. \A u \in Traders \ {t} : order'[u] = order[u]
      BY <3>1
    <3>3. ASSUME NEW o \in Untold' PROVE o \in Untold
      BY <2>1, <3>1, <3>2, <3>3
    <3>4. QED
      BY <3>1, <3>3
  <2>2. CASE answer[order[t]] # "error"
    BY <1>3, <2>2 DEF Receive
  <2>3. QED
    BY <2>1, <2>2
<1>4. ASSUME NEW t \in Traders, Book(t)
      PROVE  Untold' \subseteq Untold /\ lapses' = lapses
  <2>1. /\ order' = [order EXCEPT ![t] = 0]
        /\ booked' = [booked EXCEPT ![order[t]] = answer[order[t]]]
        /\ answer[order[t]] # "none" /\ order[t] \in Orders
        /\ UNCHANGED <<answer, sent, lapses>>
    BY <1>4 DEF Book
  <2>2. \A u \in Traders \ {t} : order'[u] = order[u]
    BY <2>1
  <2>3. booked'[order[t]] # "none" /\ \A o \in Orders \ {order[t]} : booked'[o] = booked[o]
    BY <2>1
  <2>4. ASSUME NEW o \in Untold' PROVE o \in Untold
    BY <2>1, <2>2, <2>3, <2>4
  <2>5. QED
    BY <2>1, <2>4
<1>5. ASSUME NEW t \in Traders, GiveUp(t)
      PROVE  Untold' \subseteq Untold \cup {order[t]} /\ lapses' = lapses + 1 /\ order[t] \in Nat
  <2>1. /\ order' = [order EXCEPT ![t] = 0] /\ lapses' = lapses + 1
        /\ UNCHANGED <<answer, sent, booked>>
    BY <1>5 DEF GiveUp
  <2>2. \A u \in Traders \ {t} : order'[u] = order[u]
    BY <2>1
  <2>3. ASSUME NEW o \in Untold', o # order[t] PROVE o \in Untold
    BY <2>1, <2>2, <2>3
  <2>4. QED
    BY <2>1, <2>3
<1>6. ASSUME NEW o \in Orders, NotSent(o) \/ OrderSend(o) \/ ClosePosition(o)
      PROVE  Untold' \subseteq Untold /\ lapses' = lapses
  <2>1. UNCHANGED <<order, sent, booked, lapses>>
    BY <1>6 DEF NotSent, OrderSend, ClosePosition, traderVars
  <2>2. \A p \in Orders : answer'[p] = answer[p] \/ answer[p] = "none"
    <3>1. left[o] # <<>> => answer[o] = "none"
      BY DEF CallInv
    <3>2. QED
      BY <1>6, <3>1 DEF NotSent, OrderSend, Told, ClosePosition, Returns
  <2>3. QED
    BY <2>1, <2>2
<1>7. QED
  BY <1>1, <1>2, <1>3, <1>4, <1>5, <1>6 DEF LiveNext

LEMMA UntoldBound ==
  ASSUME BaseInv, BaseInv', UntoldInv, LiveNext
  PROVE  UntoldInv'
<1>1. IsFiniteSet(Untold) /\ lapses \in Nat
  BY FiniteCounts, LiveBoundsAssumption DEF BaseInv, GaugeInv
<1>2. CASE Untold' \subseteq Untold /\ lapses' = lapses
  <2>1. Cardinality(Untold') \in Nat /\ Cardinality(Untold) \in Nat
        /\ Cardinality(Untold') <= Cardinality(Untold)
    BY <1>1, <1>2, SizeGrows
  <2>2. QED
    BY <1>1, <1>2, <2>1 DEF UntoldInv
<1>3. ASSUME NEW o \in Nat, Untold' \subseteq Untold \cup {o}, lapses' = lapses + 1
      PROVE  UntoldInv'
  <2>1. Cardinality(Untold') \in Nat /\ Cardinality(Untold) \in Nat
        /\ Cardinality(Untold') <= Cardinality(Untold) + 1
    BY <1>1, <1>3, SizeByOne
  <2>2. QED
    BY <1>1, <1>3, <2>1 DEF UntoldInv
<1>4. QED
  BY <1>2, <1>3, UntoldStep

-----------------------------------------------------------------------------
(* What a step does to the orders that may still be executed.              *)
LEMMA PendingStep ==
  ASSUME BaseInv, BaseInv', LiveNext
  PROVE  \/ /\ Pending' = Pending /\ Waiters \subseteq Waiters' /\ Lapsed' = Lapsed
         \/ /\ Pending' \subseteq Pending \cup {sent + 1} /\ sent + 1 \notin Pending
            /\ \E t \in Traders : t \notin Waiters /\ Waiters \cup {t} \subseteq Waiters'
            /\ Lapsed' = Lapsed
         \/ /\ Pending' \subseteq Pending /\ Lapsed' = Lapsed + 1
            /\ \E t \in Traders : Waiters \subseteq Waiters' \cup {t}
         \/ /\ Pending' \subseteq Pending /\ Waiters \subseteq Waiters'
            /\ Lapsed' >= Lapsed
         \/ /\ \E o \in Pending : Pending' \subseteq Pending \ {o}
            /\ \E t \in Traders : Waiters \subseteq Waiters' \cup {t}
            /\ Lapsed' = Lapsed
<1> USE DEF BaseInv, GaugeInv, LiveInv, ShapeInv, SeatInv, HandInv, Pending, Waiters, Orders,
            serverVars, Lapsed
<1> sent \in Nat /\ lapses \in Nat
  BY LiveBoundsAssumption
<1>1. ASSUME NEW t \in Traders, ReadAccount(t) \/ Decline(t)
      PROVE  Pending' = Pending /\ Waiters' = Waiters /\ Lapsed' = Lapsed
  BY <1>1 DEF ReadAccount, Decline
<1>2. ASSUME NEW t \in Traders, PlaceOrder(t)
      PROVE  /\ Pending' \subseteq Pending \cup {sent + 1} /\ sent + 1 \notin Pending
             /\ t \notin Waiters /\ Waiters \cup {t} \subseteq Waiters' /\ Lapsed' = Lapsed
  <2>1. PICK flags \in SUBSET {"fok", "ioc"} :
          left' = [left EXCEPT ![sent + 1] = FillingCandidates(flags)]
    BY <1>2 DEF PlaceOrder
  <2>2. /\ order[t] = 0 /\ order' = [order EXCEPT ![t] = sent + 1] /\ sent + 1 \in Orders
        /\ UNCHANGED <<lapses, rail>>
    BY <1>2 DEF PlaceOrder
  <2>3. left'[sent + 1] # <<>> /\ \A o \in Orders \ {sent + 1} : left'[o] = left[o]
    BY <2>1, <2>2, ModesFacts
  <2>4. order'[t] = sent + 1 /\ \A u \in Traders \ {t} : order'[u] = order[u]
    BY <2>2
  <2>5. sent + 1 \notin Pending
    BY DEF CallInv
  <2>6. QED
    BY <2>2, <2>3, <2>4, <2>5
<1>3. ASSUME NEW t \in Traders, Receive(t) \/ Book(t)
      PROVE  Pending' = Pending /\ Waiters \subseteq Waiters' /\ Lapsed' = Lapsed
  <2>1. answer[order[t]] # "none" /\ order[t] \in Orders
    <3>1. seat[t] \in {"wait", "book"}
      BY <1>3 DEF Receive, Book
    <3>2. order[t] \in Orders
      BY <3>1, LiveBoundsAssumption
    <3>3. answer[order[t]] # "none"
      BY <1>3 DEF Receive, Book
    <3>4. QED
      BY <3>2, <3>3
  <2>2. t \notin Waiters
    BY <2>1 DEF CallInv
  <2>3. UNCHANGED <<left, lapses, rail>> /\ \A u \in Traders \ {t} : order'[u] = order[u]
    BY <1>3 DEF Receive, Book
  <2>4. Pending' = Pending /\ Lapsed' = Lapsed
    BY <2>3
  <2>5. ASSUME NEW u \in Waiters PROVE u \in Waiters'
    <3>1. u \in Traders \ {t} /\ order[u] \in Pending
      BY <2>2
    <3>2. order'[u] \in Pending'
      BY <2>3, <2>4, <3>1, Zenon
    <3>3. QED
      BY <3>1, <3>2, Zenon
  <2>6. QED
    BY <2>4, <2>5
<1>4. ASSUME NEW t \in Traders, GiveUp(t)
      PROVE  \/ /\ Pending' \subseteq Pending /\ Waiters \subseteq Waiters' \cup {t}
                /\ Lapsed' = Lapsed + 1
             \/ /\ \E o \in Pending : Pending' \subseteq Pending \ {o}
                /\ Waiters \subseteq Waiters' \cup {t} /\ Lapsed' = Lapsed
             \/ /\ Pending' \subseteq Pending /\ Waiters \subseteq Waiters' /\ Lapsed' >= Lapsed
  <2>1. /\ order' = [order EXCEPT ![t] = 0]
        /\ left' = IF seat[t] = "wait" /\ rail = "mt5"
                     THEN [left EXCEPT ![order[t]] = <<>>] ELSE left
        /\ lapses' = lapses + 1 /\ UNCHANGED rail
    BY <1>4 DEF GiveUp
  <2>2. \A u \in Traders \ {t} : order'[u] = order[u]
    BY <2>1
  <2>3. CASE t \in Waiters /\ rail = "mt5"
    <3>1. seat[t] = "wait" /\ order[t] \in Orders
      BY <2>3 DEF CallInv
    <3>2. left' = [left EXCEPT ![order[t]] = <<>>]
      BY <2>1, <2>3, <3>1
    <3>3. left'[order[t]] = <<>> /\ \A o \in Orders \ {order[t]} : left'[o] = left[o]
      BY <3>1, <3>2
    <3>4. order[t] \in Pending /\ Pending' \subseteq Pending \ {order[t]}
      BY <2>3, <3>3
    <3>5. \A u \in Traders \ {t} : order[u] # order[t]
      BY <3>1
    <3>6. Waiters \subseteq Waiters' \cup {t}
      BY <2>2, <3>3, <3>5
    <3>7. QED
      BY <2>1, <2>3, <3>4, <3>6
  <2>4. CASE t \in Waiters /\ rail = "bridge"
    <3>1. left' = left
      BY <2>1, <2>4
    <3>2. QED
      BY <2>1, <2>2, <2>4, <3>1
  <2>5. CASE t \notin Waiters
    <3>1. Pending' = Pending
      <4>1. CASE seat[t] = "wait" /\ rail = "mt5"
        <5>1. order[t] \in Orders /\ left[order[t]] = <<>>
          BY <2>5, <4>1, LiveBoundsAssumption
        <5>2. QED
          BY <2>1, <4>1, <5>1
      <4>2. QED
        BY <2>1, <4>1
    <3>2. Waiters \subseteq Waiters'
      BY <2>2, <2>5, <3>1
    <3>3. QED
      BY <2>1, <3>1, <3>2
  <2>6. QED
    BY <2>3, <2>4, <2>5
<1>5. ASSUME NEW o \in Orders, NotSent(o) \/ OrderSend(o) \/ ClosePosition(o)
      PROVE  \/ Pending' = Pending /\ Waiters' = Waiters /\ Lapsed' = Lapsed
             \/ /\ o \in Pending /\ Pending' \subseteq Pending \ {o}
                /\ \E t \in Traders : Waiters \subseteq Waiters' \cup {t}
                /\ Lapsed' = Lapsed
             \/ /\ Pending' \subseteq Pending /\ Waiters \subseteq Waiters' /\ Lapsed' >= Lapsed
  <2>1. UNCHANGED <<order, lapses, rail>>
    BY <1>5 DEF NotSent, OrderSend, ClosePosition, traderVars
  <2>2. \/ left' = left
        \/ left[o] # <<>> /\ left' = [left EXCEPT ![o] = Tail(@)] /\ Len(left[o]) > 1
        \/ left[o] # <<>> /\ left' = [left EXCEPT ![o] = <<>>]
    BY <1>5 DEF NotSent, OrderSend, Told, ClosePosition, Returns
  <2>3. CASE left' = left
    BY <2>1, <2>3
  <2>4. CASE left[o] # <<>> /\ left' = [left EXCEPT ![o] = Tail(@)] /\ Len(left[o]) > 1
    <3>1. \A p \in Orders \ {o} : left'[p] = left[p]
      BY <2>4
    <3>2. left'[o] # <<>>
      <4>1. Tail(left[o]) # <<>>
        BY <2>4, ModesFacts
      <4>2. QED
        BY <2>4, <4>1
    <3>3. \A p \in Orders : left'[p] # <<>> <=> left[p] # <<>>
      BY <2>4, <3>1, <3>2
    <3>5. Pending' = Pending
      BY <3>3
    <3>4. QED
      BY <2>1, <3>5
  <2>5. CASE left[o] # <<>> /\ left' = [left EXCEPT ![o] = <<>>]
    <3>1. left'[o] = <<>> /\ \A p \in Orders \ {o} : left'[p] = left[p]
      BY <2>5
    <3>2. o \in Pending /\ Pending' \subseteq Pending \ {o}
      BY <2>5, <3>1
    <3>3. CASE \E t \in Traders : order[t] = o
      <4>1. PICK t \in Traders : order[t] = o
        BY <3>3
      <4>2. \A u \in Traders \ {t} : order[u] # o
        BY <4>1
      <4>3. Waiters \subseteq Waiters' \cup {t}
        BY <2>1, <3>1, <4>2
      <4>4. QED
        BY <2>1, <3>2, <4>3
    <3>4. CASE ~ \E t \in Traders : order[t] = o
      <4>1. Waiters \subseteq Waiters'
        BY <2>1, <3>1, <3>4
      <4>2. QED
        BY <2>1, <3>2, <4>1
    <3>5. QED
      BY <3>3, <3>4
  <2>6. QED
    BY <2>2, <2>3, <2>4, <2>5
<1>6. QED
  <2>1. ASSUME NEW t \in Traders, ReadAccount(t) \/ Decline(t) PROVE Waiters \subseteq Waiters'
    BY <1>1, <2>1
  <2>2. QED
    BY <1>1, <1>2, <1>3, <1>4, <1>5 DEF LiveNext

LEMMA WaitersBound ==
  ASSUME BaseInv, BaseInv', WaitersInv, LiveNext
  PROVE  WaitersInv'
<1> DEFINE cP == Cardinality(Pending)
           cW == Cardinality(Waiters)
           cQ == Cardinality(Pending')
           cX == Cardinality(Waiters')
<1>1. IsFiniteSet(Pending) /\ cP \in Nat /\ IsFiniteSet(Waiters) /\ cW \in Nat
  BY FiniteCounts
<1>2. IsFiniteSet(Waiters') /\ cX \in Nat /\ IsFiniteSet(Pending') /\ cQ \in Nat
  <2>1. Waiters' \subseteq Traders
    BY DEF Waiters
  <2>2. Pending' \subseteq Orders
    BY DEF Pending, Orders
  <2>3. QED
    BY <2>1, <2>2, FiniteCounts, SizeGrows
<1>3. Lapsed \in Nat /\ Lapsed' \in Nat
  BY LiveBoundsAssumption DEF Lapsed, BaseInv, GaugeInv
<1>4. cP <= cW + Lapsed
  BY DEF WaitersInv
<1> SUFFICES cQ <= cX + Lapsed'
  BY DEF WaitersInv
<1>5. CASE Pending' \subseteq Pending /\ Waiters \subseteq Waiters' /\ Lapsed' >= Lapsed
  <2>1. cQ <= cP /\ cW <= cX
    BY <1>1, <1>2, <1>5, SizeGrows
  <2>2. QED
    BY <1>1, <1>2, <1>3, <1>4, <1>5, <2>1
<1>6. ASSUME Pending' \subseteq Pending \cup {sent + 1}, Lapsed' = Lapsed,
             NEW t \in Traders, t \notin Waiters, Waiters \cup {t} \subseteq Waiters'
      PROVE  cQ <= cX + Lapsed'
  <2>1. cQ <= cP + 1
    BY <1>1, <1>6, SizeByOne
  <2>2. cW + 1 <= cX
    <3>1. t \in Waiters' /\ Waiters \subseteq Waiters' \ {t}
      BY <1>6
    <3>2. QED
      BY <1>2, <3>1, SizeLess
  <2>3. QED
    BY <1>1, <1>2, <1>3, <1>4, <1>6, <2>1, <2>2
<1>7. ASSUME NEW t \in Traders, Waiters \subseteq Waiters' \cup {t}
      PROVE  cW <= cX + 1
  BY <1>2, <1>7, SizeByOne
<1>8. ASSUME Pending' \subseteq Pending, Lapsed' = Lapsed + 1, cW <= cX + 1
      PROVE  cQ <= cX + Lapsed'
  <2>1. cQ <= cP
    BY <1>1, <1>8, SizeGrows
  <2>2. QED
    BY <1>1, <1>2, <1>3, <1>4, <1>8, <2>1
<1>9. ASSUME NEW o \in Pending, Pending' \subseteq Pending \ {o}, Lapsed' = Lapsed, cW <= cX + 1
      PROVE  cQ <= cX + Lapsed'
  <2>1. cQ + 1 <= cP
    BY <1>1, <1>9, SizeLess
  <2>2. QED
    BY <1>1, <1>2, <1>3, <1>4, <1>9, <2>1
<1>10. QED
  <2>1. Lapsed' = Lapsed => Lapsed' >= Lapsed
    BY <1>3
  <2>2. Pending' = Pending => Pending' \subseteq Pending
    OBVIOUS
  <2>3. QED
    BY PendingStep, <1>5, <1>6, <1>7, <1>8, <1>9, <2>1, <2>2

(* A trader that waits has no permit, so that the orders still to be       *)
(* executed and the permits are at most one for each trader and lapse.     *)
LEMMA PermitsAndPending ==
  ASSUME BaseInv, WaitersInv
  PROVE  Cardinality(Permits) + Cardinality(Pending) <= Cardinality(Traders) + Lapsed
<1>1. Permits \cap Waiters = {}
  BY DEF Permits, Waiters, Pending, Orders, BaseInv, HandInv
<1>2. Cardinality(Permits \cup Waiters) = Cardinality(Permits) + Cardinality(Waiters)
  BY <1>1, FiniteCounts, SizeDisjoint
<1>3. Cardinality(Permits \cup Waiters) <= Cardinality(Traders)
  BY FiniteCounts, SizeGrows DEF Permits, Waiters
<1>4. Lapsed \in Nat
  BY LiveBoundsAssumption DEF Lapsed, BaseInv, GaugeInv
<1>5. Cardinality(Pending) <= Cardinality(Waiters) + Lapsed
  BY DEF WaitersInv
<1>6. QED
  BY <1>2, <1>3, <1>4, <1>5, FiniteCounts

(* Orders that are open or may still be: one set, as no call goes on whose *)
(* position is open.                                                       *)
Exposed == held \cup Pending

Exposure == Cardinality(Exposed) + Cardinality(Permits)

ExposureInv == MaxOpen > 0 => Exposure <= MaxOpen + Cardinality(Traders) - 1 + Lapsed + blind

LEMMA ExposureSum ==
  ASSUME BaseInv
  PROVE  /\ IsFiniteSet(held) /\ Cardinality(held) \in Nat
         /\ IsFiniteSet(Exposed) /\ Cardinality(Exposed) \in Nat
         /\ Cardinality(Exposed) = Cardinality(held) + Cardinality(Pending)
         /\ Exposure \in Nat
         /\ Lapsed \in Nat /\ blind \in Nat
<1>1. held \subseteq Orders /\ held \cap Pending = {}
  BY DEF BaseInv, HandInv, LiveInv, CallInv, Pending
<1>2. IsFiniteSet(held) /\ Cardinality(held) \in Nat
  BY <1>1, FiniteCounts, SizeGrows
<1>3. /\ IsFiniteSet(Exposed)
      /\ Cardinality(Exposed) = Cardinality(held) + Cardinality(Pending)
  BY <1>1, <1>2, FiniteCounts, SizeDisjoint DEF Exposed
<1>4. Lapsed \in Nat /\ blind \in Nat
  BY LiveBoundsAssumption DEF Lapsed, BaseInv, GaugeInv
<1>5. QED
  BY <1>2, <1>3, <1>4, FiniteCounts DEF Exposure

LEMMA ExposureStep ==
  ASSUME BaseInv, BaseInv', WaitersInv, WaitersInv', ExposureInv, LiveNext
  PROVE  ExposureInv'
<1> SUFFICES ASSUME MaxOpen > 0
             PROVE  Exposure' <= MaxOpen + Cardinality(Traders) - 1 + Lapsed' + blind'
  BY DEF ExposureInv
<1>1. /\ MaxOpen \in Nat /\ Cardinality(Traders) \in Nat /\ lapses \in Nat /\ sent \in Nat
      /\ Exposure <= MaxOpen + Cardinality(Traders) - 1 + Lapsed + blind
  BY OpenAssumption, FiniteCounts, LiveBoundsAssumption
     DEF ExposureInv, BaseInv, GaugeInv, LiveInv, SeatInv
<1>2. /\ Lapsed \in Nat /\ Lapsed' \in Nat /\ blind \in Nat /\ blind' \in Nat
      /\ Exposure \in Nat /\ IsFiniteSet(Exposed) /\ IsFiniteSet(held)
  BY ExposureSum, LiveBoundsAssumption DEF Lapsed, BaseInv, GaugeInv
<1>3. Permits' \subseteq Traders
  BY DEF Permits
<1>4. IsFiniteSet(Permits) /\ IsFiniteSet(Permits')
  BY <1>3, FiniteCounts, SizeGrows
<1>5. ASSUME Exposed' \subseteq Exposed, Permits' \subseteq Permits,
             Lapsed' >= Lapsed, blind' = blind
      PROVE  Exposure' <= MaxOpen + Cardinality(Traders) - 1 + Lapsed' + blind'
  <2>1. /\ Cardinality(Exposed') \in Nat /\ Cardinality(Exposed) \in Nat
        /\ Cardinality(Exposed') <= Cardinality(Exposed)
    BY <1>2, <1>5, SizeGrows
  <2>2. /\ Cardinality(Permits') \in Nat /\ Cardinality(Permits) \in Nat
        /\ Cardinality(Permits') <= Cardinality(Permits)
    BY <1>4, <1>5, SizeGrows
  <2>3. Exposure' <= Exposure
    BY <2>1, <2>2 DEF Exposure
  <2>4. Exposure' \in Nat
    BY <2>1, <2>2 DEF Exposure
  <2>5. QED
    BY <1>1, <1>2, <1>5, <2>3, <2>4
<1> USE DEF serverVars
<1>6. ASSUME NEW t \in Traders, ReadAccount(t)
      PROVE  Exposure' <= MaxOpen + Cardinality(Traders) - 1 + Lapsed' + blind'
  <2>1. UNCHANGED <<held, left, lapses, rail>>
    BY <1>6 DEF ReadAccount
  <2>2. Exposed' = Exposed /\ Lapsed' = Lapsed /\ Pending' = Pending
    BY <2>1 DEF Exposed, Pending, Lapsed
  <2>3. seat' = [seat EXCEPT ![t] = "plan"] /\ seat[t] = "idle"
    BY <1>6 DEF ReadAccount
  <2>4. CASE seen' = [seen EXCEPT ![t] = Cardinality(held)] /\ blind' = blind
    <3>1. CASE Cardinality(held) < MaxOpen
      <4>1. Cardinality(Permits') + Cardinality(Pending') <= Cardinality(Traders) + Lapsed'
        <5>1. BaseInv' /\ WaitersInv'
          OBVIOUS
        <5>2. Permits' \cap Waiters' = {}
          BY <5>1 DEF Permits, Waiters, Pending, Orders, BaseInv, HandInv
        <5>3. Waiters' \subseteq Traders /\ Pending' \subseteq Orders
          BY DEF Waiters, Pending, Orders
        <5>4. /\ IsFiniteSet(Waiters') /\ Cardinality(Waiters') \in Nat
              /\ Cardinality(Pending') \in Nat /\ Cardinality(Permits') \in Nat
          BY <1>3, <5>3, FiniteCounts, SizeGrows
        <5>5. Cardinality(Permits' \cup Waiters') = Cardinality(Permits') + Cardinality(Waiters')
          BY <1>4, <5>2, <5>4, SizeDisjoint
        <5>6. Cardinality(Permits' \cup Waiters') <= Cardinality(Traders)
          BY <1>3, <5>3, FiniteCounts, SizeGrows
        <5>7. Cardinality(Pending') <= Cardinality(Waiters') + Lapsed'
          BY <5>1 DEF WaitersInv
        <5>8. QED
          BY <1>1, <1>2, <5>4, <5>5, <5>6, <5>7
      <4>2. /\ Cardinality(Exposed) = Cardinality(held) + Cardinality(Pending)
            /\ Cardinality(held) \in Nat
        BY ExposureSum
      <4>3. Cardinality(Permits') \in Nat /\ Cardinality(Pending) \in Nat
        BY <1>3, FiniteCounts, SizeGrows
      <4>4. Exposure' = Cardinality(held) + Cardinality(Pending) + Cardinality(Permits')
        BY <2>2, <4>2 DEF Exposure
      <4>5. Cardinality(Permits') + Cardinality(Pending) <= Cardinality(Traders) + Lapsed'
        BY <2>2, <4>1
      <4>6. QED
        BY <1>1, <1>2, <3>1, <4>2, <4>3, <4>4, <4>5
    <3>2. CASE ~(Cardinality(held) < MaxOpen)
      <4>1. seen'[t] = Cardinality(held) /\ \A u \in Traders \ {t} : seen'[u] = seen[u]
        BY <2>4 DEF BaseInv, GaugeInv
      <4>2. \A u \in Traders \ {t} : seat'[u] = seat[u]
        BY <2>3 DEF BaseInv, LiveInv, ShapeInv
      <4>3. Permits' \subseteq Permits
        BY <3>2, <4>1, <4>2 DEF Permits
      <4>4. QED
        BY <1>2, <1>5, <2>2, <2>4, <4>3
    <3>3. QED
      BY <3>1, <3>2
  <2>5. CASE blind' = blind + 1 /\ seen' = [seen EXCEPT ![t] = 0]
    <3>1. \A u \in Traders \ {t} : seen'[u] = seen[u] /\ seat'[u] = seat[u]
      BY <2>3, <2>5 DEF BaseInv, LiveInv, ShapeInv, GaugeInv
    <3>2. Permits' \subseteq Permits \cup {t}
      BY <3>1 DEF Permits
    <3>3. /\ Cardinality(Permits') \in Nat /\ Cardinality(Permits) \in Nat
          /\ Cardinality(Permits') <= Cardinality(Permits) + 1
      BY <1>4, <3>2, SizeByOne
    <3>4. Exposure' = Cardinality(Exposed) + Cardinality(Permits')
      BY <2>2 DEF Exposure
    <3>5. Cardinality(Exposed) \in Nat
      BY ExposureSum
    <3>6. Exposure' <= Exposure + 1 /\ Exposure' \in Nat
      BY <3>3, <3>4, <3>5 DEF Exposure
    <3>7. QED
      BY <1>1, <1>2, <2>2, <2>5, <3>6
  <2>6. QED
    BY <1>6, <2>4, <2>5 DEF ReadAccount
<1>7. ASSUME NEW t \in Traders, Decline(t) \/ Receive(t) \/ Book(t)
      PROVE  Exposed' \subseteq Exposed /\ Permits' \subseteq Permits
             /\ Lapsed' = Lapsed /\ blind' = blind
  <2>1. /\ UNCHANGED <<held, left, lapses, rail, blind, seen>>
        /\ seat'[t] # "plan" /\ \A u \in Traders \ {t} : seat'[u] = seat[u]
    BY <1>7 DEF Decline, Receive, Book, BaseInv, LiveInv, ShapeInv
  <2>2. QED
    BY <2>1 DEF Exposed, Pending, Permits, Lapsed
<1>8. ASSUME NEW t \in Traders, GiveUp(t)
      PROVE  Exposed' \subseteq Exposed /\ Permits' \subseteq Permits
             /\ Lapsed' >= Lapsed /\ blind' = blind
  <2>1. /\ UNCHANGED <<held, rail, blind, seen>> /\ lapses' = lapses + 1
        /\ seat'[t] # "plan" /\ \A u \in Traders \ {t} : seat'[u] = seat[u]
    BY <1>8 DEF GiveUp, BaseInv, LiveInv, ShapeInv
  <2>2. left' = left \/ left' = [left EXCEPT ![order[t]] = <<>>]
    BY <1>8 DEF GiveUp
  <2>3. \A o \in Orders : left'[o] # <<>> => left[o] # <<>>
    BY <2>2 DEF BaseInv, LiveInv, ShapeInv
  <2>4. QED
    BY <1>1, <2>1, <2>3 DEF Exposed, Pending, Permits, Lapsed
<1>9. ASSUME NEW t \in Traders, PlaceOrder(t)
      PROVE  Exposure' <= MaxOpen + Cardinality(Traders) - 1 + Lapsed' + blind'
  <2>1. /\ UNCHANGED <<held, rail, blind, seen, lapses>>
        /\ seat[t] = "plan" /\ seen[t] < MaxOpen
        /\ seat'[t] # "plan" /\ \A u \in Traders \ {t} : seat'[u] = seat[u]
        /\ \A o \in Orders : o # sent + 1 => left'[o] = left[o]
    BY <1>9 DEF PlaceOrder, MayOpen, BaseInv, LiveInv, ShapeInv
  <2>2. Exposed' \subseteq Exposed \cup {sent + 1}
    BY <2>1 DEF Exposed, Pending
  <2>3. t \in Permits /\ Permits' \subseteq Permits \ {t}
    BY <2>1 DEF Permits
  <2>4. /\ Cardinality(Exposed') \in Nat /\ Cardinality(Exposed) \in Nat
        /\ Cardinality(Exposed') <= Cardinality(Exposed) + 1
    BY <1>2, <2>2, SizeByOne
  <2>5. /\ Cardinality(Permits') \in Nat /\ Cardinality(Permits) \in Nat
        /\ Cardinality(Permits') + 1 <= Cardinality(Permits)
    BY <1>4, <2>3, SizeLess
  <2>6. Exposure' <= Exposure /\ Exposure' \in Nat
    BY <2>4, <2>5 DEF Exposure
  <2>7. Lapsed' = Lapsed /\ blind' = blind
    BY <2>1 DEF Lapsed
  <2>8. QED
    BY <1>1, <1>2, <2>6, <2>7
<1>10. ASSUME NEW o \in Orders, NotSent(o) \/ OrderSend(o) \/ ClosePosition(o)
       PROVE  Exposed' \subseteq Exposed /\ Permits' \subseteq Permits
              /\ Lapsed' = Lapsed /\ blind' = blind
  <2>1. UNCHANGED <<seat, seen, lapses, rail, blind>>
    BY <1>10 DEF NotSent, OrderSend, ClosePosition, traderVars
  <2>2. /\ \A p \in Orders \ {o} : left'[p] = left[p]
        /\ held' \subseteq held \cup {o}
        /\ o \in held' => o \in held \/ left[o] # <<>>
        /\ left'[o] # <<>> => left[o] # <<>>
    BY <1>10 DEF NotSent, OrderSend, Told, ClosePosition, Returns, Execute, BaseInv, LiveInv, ShapeInv
  <2>3. Exposed' \subseteq Exposed
    BY <2>2 DEF Exposed, Pending
  <2>4. QED
    BY <2>1, <2>3 DEF Permits, Lapsed
<1>11. QED
  <2>1. Lapsed' = Lapsed => Lapsed' >= Lapsed
    BY <1>2
  <2>2. QED
    BY <1>5, <1>6, <1>7, <1>8, <1>9, <1>10, <2>1 DEF LiveNext

-----------------------------------------------------------------------------
LiveCounts == UntoldInv /\ WaitersInv /\ ExposureInv

(* The three counts hold together.                                         *)
THEOREM LiveCountsInvariance == LiveSpec => [](BaseInv /\ LiveCounts)
<1>1. LiveInit => GaugeInv /\ LiveCounts
  <2> SUFFICES ASSUME LiveInit PROVE GaugeInv /\ LiveCounts
    OBVIOUS
  <2>1. GaugeInv
    BY LiveBoundsAssumption DEF LiveInit, GaugeInv
  <2>2. /\ Untold = {} /\ Pending = {} /\ Permits = {} /\ held = {} /\ Waiters \subseteq Traders
        /\ lapses = 0 /\ blind = 0 /\ Lapsed = 0
    BY DEF LiveInit, Untold, Orders, Pending, Permits, Waiters, Lapsed
  <2>3. Exposed = {}
    BY <2>2 DEF Exposed
  <2>4. Cardinality({}) = 0
    BY FS_EmptySet
  <2>5. UntoldInv /\ WaitersInv
    BY <2>2, <2>4, FiniteCounts DEF UntoldInv, WaitersInv
  <2>6. Exposure = 0
    BY <2>2, <2>3, <2>4 DEF Exposure
  <2>7. ExposureInv
    BY <2>2, <2>6, FiniteCounts, OpenAssumption DEF ExposureInv
  <2>8. QED
    BY <2>1, <2>5, <2>7 DEF LiveCounts
<1>2. LiveInv /\ LiveInv' /\ HandInv /\ HandInv' /\ GaugeInv /\ LiveCounts /\ [LiveNext]_liveVars
        => GaugeInv' /\ LiveCounts'
  <2> SUFFICES ASSUME LiveInv, LiveInv', HandInv, HandInv', GaugeInv, LiveCounts,
                      [LiveNext]_liveVars
               PROVE  GaugeInv' /\ LiveCounts'
    OBVIOUS
  <2>1. CASE LiveNext
    <3>1. GaugeInv'
      BY <2>1, GaugeStep
    <3>2. BaseInv /\ BaseInv'
      BY <3>1 DEF BaseInv
    <3>3. WaitersInv'
      BY <2>1, <3>2, WaitersBound DEF LiveCounts
    <3>4. UntoldInv'
      BY <2>1, <3>2, UntoldBound DEF LiveCounts
    <3>5. ExposureInv'
      BY <2>1, <3>2, <3>3, ExposureStep DEF LiveCounts
    <3>6. QED
      BY <3>1, <3>3, <3>4, <3>5 DEF LiveCounts
  <2>2. CASE UNCHANGED liveVars
    <3>1. UNCHANGED <<rail, seat, seen, order, sent, left, answer, held, booked, lapses, blind>>
      BY <2>2 DEF liveVars, traderVars, serverVars
    <3>2. GaugeInv'
      BY <3>1 DEF GaugeInv
    <3>3. /\ Untold' = Untold /\ Waiters' = Waiters /\ Pending' = Pending /\ Lapsed' = Lapsed
          /\ Permits' = Permits /\ Exposed' = Exposed
      BY <3>1 DEF Untold, InHand, Waiters, Pending, Permits, Exposed, Lapsed, Orders
    <3>4. QED
      BY <3>1, <3>2, <3>3 DEF LiveCounts, UntoldInv, WaitersInv, ExposureInv, Exposure
  <2>3. QED
    BY <2>1, <2>2
<1>3. QED
  BY <1>1, <1>2, LiveInvariance, HandInvariance, PTL DEF LiveSpec, BaseInv

(* Every position no record owns to is one a trader still waits for, was   *)
(* lost with a trader that gave up, one for each time, or is on record as  *)
(* refused because its order_send answered None: the records the trader    *)
(* loop leaves out or gets wrong are counted by these two causes alone.    *)
THEOREM UnrecordedAreLapses == LiveSpec => []UnrecordedBounded
<1>1. BaseInv /\ LiveCounts => UnrecordedBounded
  <2> SUFFICES ASSUME BaseInv, LiveCounts PROVE UnrecordedBounded
    OBVIOUS
  <2> DEFINE U == {o \in Orders \ InHand : filled[o] > 0 /\ booked[o] # "accepted"}
             R == {o \in silent : booked[o] = "refused"}
  <2>1. ASSUME NEW o \in U PROVE o \in Untold \cup R
    <3>1. o \in Orders \ InHand /\ filled[o] = 1
      BY DEF BaseInv, LiveInv, CallInv
    <3>2. o <= sent
      BY <3>1, LiveBoundsAssumption DEF BaseInv, LiveInv, CallInv, SeatInv, Orders
    <3>3. answer[o] \notin {"error", "none"}
      BY <3>1 DEF BaseInv, HandInv, LiveInv, CallInv
    <3>4. booked[o] = "none" \/ (booked[o] = "refused" /\ answer[o] = "refused")
      BY <3>1, <3>3 DEF BaseInv, LiveInv, BookedInv, ShapeInv, Answers
    <3>5. CASE booked[o] = "none"
      BY <3>1, <3>2, <3>3, <3>5 DEF Untold
    <3>6. CASE booked[o] = "refused" /\ answer[o] = "refused"
      BY <3>1, <3>6 DEF BaseInv, LiveInv, CallInv
    <3>7. QED
      BY <3>4, <3>5, <3>6
  <2>2. R \subseteq Orders /\ IsFiniteSet(R) /\ Cardinality(R) \in Nat
    <3>1. R \subseteq Orders
      BY DEF BaseInv, LiveInv, ShapeInv
    <3>2. QED
      BY <3>1, FiniteCounts, SizeGrows
  <2>3. Untold \cap R = {}
    BY DEF Untold
  <2>4. /\ IsFiniteSet(Untold \cup R)
        /\ Cardinality(Untold \cup R) = Cardinality(Untold) + Cardinality(R)
    BY <2>2, <2>3, FiniteCounts, SizeDisjoint
  <2>5. Cardinality(U) <= Cardinality(Untold \cup R) /\ Cardinality(U) \in Nat
    BY <2>1, <2>4, SizeGrows
  <2>6. Cardinality(Untold) <= lapses /\ lapses \in Nat
    BY LiveBoundsAssumption DEF LiveCounts, UntoldInv, BaseInv, GaugeInv
  <2>7. Cardinality(U) <= lapses + Cardinality(R)
    <3> HIDE DEF U, R
    <3>1. QED
      BY <2>2, <2>4, <2>5, <2>6, FiniteCounts
  <2>8. QED
    BY <2>7 DEF UnrecordedBounded
<1>2. QED
  BY <1>1, LiveCountsInvariance, PTL

(* max_open_positions bounds the open positions, the orders on their way   *)
(* and the permits given, up to one for every other trader, abandoned      *)
(* request and blind read: the gap between the account's count and the     *)
(* execution lets no more through, for any traders and limit.              *)
THEOREM ExposureIsBounded == LiveSpec => []ExposureBounded
<1>1. BaseInv /\ LiveCounts => ExposureBounded
  <2> SUFFICES ASSUME BaseInv, LiveCounts, MaxOpen > 0
               PROVE  Cardinality(held) + Cardinality(Permits) + Cardinality(Pending)
                        <= MaxOpen + Cardinality(Traders) - 1 + Lapsed + blind
    BY DEF ExposureBounded, Lapsed
  <2>1. Exposure <= MaxOpen + Cardinality(Traders) - 1 + Lapsed + blind
    BY DEF LiveCounts, ExposureInv
  <2>2. Exposure = Cardinality(held) + Cardinality(Permits) + Cardinality(Pending)
    BY ExposureSum, FiniteCounts DEF Exposure
  <2>3. QED
    BY <2>1, <2>2
<1>2. QED
  BY <1>1, LiveCountsInvariance, PTL

(* The shape of the state, no order in two hands among it.                 *)
THEOREM LiveTypeCorrect == LiveSpec => []LiveTypeOK
<1>1. BaseInv => LiveTypeOK
  BY DEF BaseInv, LiveInv, ShapeInv, CallInv, SeatInv, HandInv, GaugeInv, LiveTypeOK, Modes
<1>2. QED
  BY <1>1, LiveCountsInvariance, PTL

-----------------------------------------------------------------------------
(* What the shared file may hold, and a true account of n positions.       *)
Books(n) == [open : SUBSET (1..n), closed : Seq(1..n)]

Sound(b, n) ==
  /\ b.open \cup ToSet(b.closed) = 1..n
  /\ IsInjective(b.closed)
  /\ b.open \cap ToSet(b.closed) = {}

Places == {"poll", "reconciling", "writing reconciled", "count", "decide", "opening",
           "writing opened"}

BookShape ==
  /\ clash \in BOOLEAN
  /\ file \in {"whole", "empty", "mixed"}
  /\ under \subseteq Monitors
  /\ at \in [Monitors -> Places]
  /\ trades \in 0..MaxTrades
  /\ counted \in [Monitors -> 0..MaxTrades]
  /\ book \in Books(trades)
  /\ copy \in [Monitors -> Books(trades)]

LEMMA BooksFacts ==
  ASSUME NEW n \in Nat, NEW b \in Books(n)
  PROVE  /\ b \in Books(n + 1)
         /\ Empty \in Books(n)
         /\ [b EXCEPT !.open = @ \cup {n + 1}] \in Books(n + 1)
         /\ IsFiniteSet(b.open) /\ Cardinality(b.open) \in 0..n
         /\ \A hit \in SUBSET b.open :
              [open |-> b.open \ hit, closed |-> b.closed \o SetToSeq(hit)] \in Books(n)
<1>1. b.open \in SUBSET (1..n) /\ b.closed \in Seq(1..n)
  BY DEF Books
<1>2. 1..n \subseteq 1..n + 1 /\ n + 1 \in 1..n + 1
  OBVIOUS
<1>3. b.closed \in Seq(1..n + 1)
  BY <1>1, <1>2, SeqMonotonic
<1>4. b \in Books(n + 1) /\ [b EXCEPT !.open = @ \cup {n + 1}] \in Books(n + 1)
  <2>1. b = [open |-> b.open, closed |-> b.closed]
    BY DEF Books
  <2>2. b \in Books(n + 1)
    BY <1>1, <1>2, <1>3, <2>1 DEF Books
  <2>3. ASSUME NEW S, S \subseteq 1..n + 1
        PROVE  [b EXCEPT !.open = S] \in Books(n + 1)
    BY <2>2, <2>3 DEF Books
  <2>4. b.open \cup {n + 1} \subseteq 1..n + 1
    BY <1>1, <1>2
  <2>5. QED
    BY <2>2, <2>3, <2>4, Zenon
<1>5. Empty \in Books(n)
  BY EmptySeq DEF Empty, Books
<1>6. IsFiniteSet(1..n) /\ Cardinality(1..n) = n
  BY FS_Interval
<1>7. IsFiniteSet(b.open) /\ Cardinality(b.open) \in 0..n
  BY <1>1, <1>6, SizeGrows
<1>8. ASSUME NEW hit \in SUBSET b.open
      PROVE  [open |-> b.open \ hit, closed |-> b.closed \o SetToSeq(hit)] \in Books(n)
  <2>1. IsFiniteSet(hit)
    BY <1>7, SizeGrows
  <2>2. b.closed \o SetToSeq(hit) \in Seq(1..n)
    BY <1>1, <2>1, AppendSet
  <2>3. QED
    BY <1>1, <2>2 DEF Books
<1>9. QED
  BY <1>4, <1>5, <1>7, <1>8

LEMMA BookShapeStep ==
  ASSUME BookShape, BookNext
  PROVE  BookShape'
<1>0. trades \in 0..MaxTrades /\ trades \in Nat /\ MaxTrades \in Nat
  <2>1. trades \in 0..MaxTrades
    BY DEF BookShape
  <2>2. QED
    BY <2>1, TradeAssumption
<1>1. ASSUME NEW m \in Monitors, StartReconcile(m) PROVE BookShape'
  <2>1. PICK hit \in SUBSET book.open :
          ReadAndChange(m, "reconciling",
            [open |-> book.open \ hit, closed |-> book.closed \o SetToSeq(hit)])
    BY <1>1 DEF StartReconcile
  <2>2. [open |-> book.open \ hit, closed |-> book.closed \o SetToSeq(hit)] \in Books(trades)
    BY <1>0, BooksFacts DEF BookShape
  <2>3. copy' \in [Monitors -> Books(trades)] /\ at' \in [Monitors -> Places]
    BY <2>1, <2>2 DEF ReadAndChange, BookShape, Places
  <2>4. /\ clash' \in BOOLEAN
        /\ UNCHANGED <<book, file, under, counted, trades>>
    BY <1>1, <2>1 DEF ReadAndChange, StartReconcile, BookShape
  <2>5. QED
    BY <2>3, <2>4 DEF BookShape
<1>2. ASSUME NEW m \in Monitors, StartOpen(m) PROVE BookShape'
  <2> DEFINE b == [book EXCEPT !.open = @ \cup {trades + 1}]
  <2>1. ReadAndChange(m, "opening", b) /\ trades' = trades + 1 /\ trades < MaxTrades
        /\ UNCHANGED counted
    BY <1>2 DEF StartOpen
  <2>2. b \in Books(trades') /\ book \in Books(trades') /\ trades' \in 0..MaxTrades
    <3>1. trades' \in 0..MaxTrades
      BY <1>0, <2>1
    <3>2. book \in Books(trades)
      BY DEF BookShape
    <3>3. b \in Books(trades + 1) /\ book \in Books(trades + 1)
      BY <1>0, <3>2, BooksFacts
    <3>4. QED
      BY <2>1, <3>1, <3>3
  <2>3. copy \in [Monitors -> Books(trades')]
    <3>1. \A n \in Monitors : copy[n] \in Books(trades')
      BY <1>0, <2>1, BooksFacts DEF BookShape
    <3>2. QED
      BY <3>1 DEF BookShape
  <2> HIDE DEF b
  <2>4. copy' \in [Monitors -> Books(trades')] /\ at' \in [Monitors -> Places]
    BY <2>1, <2>2, <2>3 DEF ReadAndChange, BookShape, Places
  <2>5. clash' \in BOOLEAN /\ UNCHANGED <<book, file, under>>
    BY <2>1 DEF ReadAndChange, BookShape, Places
  <2>6. QED
    BY <2>1, <2>2, <2>4, <2>5 DEF BookShape
<1>3. ASSUME NEW m \in Monitors, Count(m) PROVE BookShape'
  <2>1. Cardinality(book.open) \in 0..MaxTrades
    <3>1. Cardinality(book.open) \in 0..trades
      <4>1. book \in Books(trades)
        BY DEF BookShape
      <4>2. QED
        BY <1>0, <4>1, BooksFacts
    <3>2. QED
      BY <1>0, <3>1
  <2>2. counted' \in [Monitors -> 0..MaxTrades] /\ at' \in [Monitors -> Places]
    BY <1>3, <2>1 DEF Count, BookShape, Places
  <2>3. clash' \in BOOLEAN /\ UNCHANGED <<book, file, under, copy, trades>>
    BY <1>3 DEF Count, BookShape, Places
  <2>4. QED
    BY <2>2, <2>3 DEF BookShape
<1>4. ASSUME NEW m \in Monitors, Hold(m) PROVE BookShape'
  BY <1>4 DEF Hold, BookShape, Places
<1>5. ASSUME NEW m \in Monitors, Truncate(m) PROVE BookShape'
  BY <1>5 DEF Truncate, BookShape, Places
<1>6. ASSUME NEW m \in Monitors, WriteState(m) PROVE BookShape'
  <2>1. Empty \in Books(trades)
    BY <1>0, BooksFacts DEF BookShape
  <2>2. book' \in Books(trades) /\ file' \in {"whole", "mixed"}
    BY <1>6, <2>1 DEF WriteState, BookShape, Places
  <2>3. /\ under' \subseteq Monitors /\ at' \in [Monitors -> Places]
        /\ UNCHANGED <<copy, counted, trades, clash>>
    BY <1>6 DEF WriteState, BookShape, Places
  <2>4. QED
    BY <2>2, <2>3 DEF BookShape
<1>7. QED
  BY <1>1, <1>2, <1>3, <1>4, <1>5, <1>6 DEF BookNext

(* The file and the monitors' copies only name positions that were opened. *)
THEOREM BookShapeCorrect == BookSpec => []BookShape
<1>1. BookInit => BookShape
  <2> SUFFICES ASSUME BookInit PROVE BookShape
    OBVIOUS
  <2>1. Empty \in Books(0)
    BY EmptySeq DEF Empty, Books
  <2>2. /\ clash \in BOOLEAN /\ file \in {"whole", "empty", "mixed"} /\ under \subseteq Monitors
        /\ at \in [Monitors -> Places]
    BY DEF BookInit, Places
  <2>3. trades = 0 /\ trades \in 0..MaxTrades /\ counted \in [Monitors -> 0..MaxTrades]
    BY TradeAssumption DEF BookInit
  <2>4. book \in Books(0) /\ copy \in [Monitors -> Books(0)]
    BY <2>1 DEF BookInit
  <2>5. QED
    BY <2>2, <2>3, <2>4 DEF BookShape
<1>2. BookShape /\ [BookNext]_bookVars => BookShape'
  <2>1. CASE UNCHANGED bookVars
    BY <2>1 DEF bookVars, BookShape
  <2>2. QED
    BY <2>1, BookShapeStep
<1>3. QED
  BY <1>1, <1>2, PTL DEF BookSpec

-----------------------------------------------------------------------------
(* While no two monitors are inside an operation: the file is whole unless *)
(* the one inside is writing it, what it is about to write is a true       *)
(* account, and every monitor that found no position and may still open    *)
(* one is counted with the positions that are open.                        *)
Ready == {m \in Monitors : at[m] = "decide" /\ counted[m] = 0}

Fits(b, ready) == Cardinality(b.open) + Cardinality(ready) <= Cardinality(Monitors)

Alone == \A m, n \in Monitors : Inside(m) /\ Inside(n) => m = n

FileInv == file = "whole" \/ (file = "empty" /\ \E m \in Monitors : Writing(m))

RestInv == Fits(book, Ready) /\ ((\A m \in Monitors : ~Inside(m)) => Sound(book, trades))

CopyInv == \A m \in Monitors : Inside(m) => Sound(copy[m], trades) /\ Fits(copy[m], Ready)

AccountInv == ~clash => Alone /\ under = {} /\ FileInv /\ RestInv /\ CopyInv

LEMMA ReadyFinite ==
  ASSUME NEW R, R \subseteq Monitors
  PROVE  /\ IsFiniteSet(R) /\ Cardinality(R) \in Nat
         /\ Cardinality(R) <= Cardinality(Monitors) /\ Cardinality(Monitors) \in Nat
  BY MonitorAssumption, SizeGrows

LEMMA FitsSmaller ==
  ASSUME NEW b, NEW R, NEW c, NEW Q, Fits(b, R), IsFiniteSet(b.open), R \subseteq Monitors,
         c.open \subseteq b.open, Q \subseteq R
  PROVE  Fits(c, Q)
<1>1. /\ Cardinality(c.open) <= Cardinality(b.open)
      /\ Cardinality(c.open) \in Nat /\ Cardinality(b.open) \in Nat
  BY SizeGrows
<1>2. /\ Cardinality(Q) <= Cardinality(R)
      /\ Cardinality(Q) \in Nat /\ Cardinality(R) \in Nat /\ Cardinality(Monitors) \in Nat
  BY ReadyFinite, SizeGrows
<1>3. Cardinality(b.open) + Cardinality(R) <= Cardinality(Monitors)
  BY DEF Fits
<1>4. Cardinality(c.open) + Cardinality(Q) <= Cardinality(Monitors)
  BY <1>1, <1>2, <1>3
<1>5. QED
  BY <1>4 DEF Fits

LEMMA SoundClose ==
  ASSUME NEW n \in Nat, NEW b \in Books(n), Sound(b, n), NEW hit \in SUBSET b.open
  PROVE  Sound([open |-> b.open \ hit, closed |-> b.closed \o SetToSeq(hit)], n)
<1>1. b.open \in SUBSET (1..n) /\ b.closed \in Seq(1..n)
  BY DEF Books
<1>2. IsFiniteSet(hit)
  BY BooksFacts, SizeGrows
<1>3. hit \cap ToSet(b.closed) = {} /\ IsInjective(b.closed)
  BY DEF Sound
<1>4. /\ ToSet(b.closed \o SetToSeq(hit)) = ToSet(b.closed) \cup hit
      /\ IsInjective(b.closed \o SetToSeq(hit))
  BY <1>1, <1>2, <1>3, AppendSet
<1>5. QED
  BY <1>3, <1>4 DEF Sound

LEMMA SoundOpen ==
  ASSUME NEW n \in Nat, NEW b \in Books(n), Sound(b, n)
  PROVE  /\ Sound([b EXCEPT !.open = @ \cup {n + 1}], n + 1)
         /\ [b EXCEPT !.open = @ \cup {n + 1}].open = b.open \cup {n + 1}
<1> DEFINE c == [b EXCEPT !.open = @ \cup {n + 1}]
<1>1. c.open = b.open \cup {n + 1} /\ c.closed = b.closed
  BY DEF Books
<1>2. b.closed \in Seq(1..n)
  BY DEF Books
<1>3. ToSet(b.closed) \subseteq 1..n
  BY <1>2 DEF ToSet
<1>4. 1..n + 1 = (1..n) \cup {n + 1} /\ n + 1 \notin 1..n
  OBVIOUS
<1>5. QED
  BY <1>1, <1>3, <1>4 DEF Sound

(* A monitor that starts an operation alone.                               *)
LEMMA StartStep ==
  ASSUME BookShape, BookShape', AccountInv, NEW m \in Monitors, NEW c,
         NEW next \in {"reconciling", "opening"},
         ReadAndChange(m, next, c), at[m] \in {"poll", "decide"},
         trades' \in Nat, UNCHANGED counted,
         ~clash /\ Sound(book, trades) => Sound(c, trades') /\ Fits(c, Ready \ {m})
  PROVE  AccountInv'
<1> SUFFICES ASSUME ~clash' PROVE (Alone /\ under = {} /\ FileInv /\ RestInv /\ CopyInv)'
  BY DEF AccountInv
<1>1. ~clash /\ \A n \in Monitors \ {m} : ~Inside(n)
  BY DEF ReadAndChange
<1>2. ~Inside(m)
  BY DEF Inside
<1>3. Alone /\ under = {} /\ FileInv /\ RestInv /\ CopyInv
  BY <1>1 DEF AccountInv
<1>4. file = "whole"
  BY <1>1, <1>2, <1>3 DEF FileInv, Writing, Inside
<1>5. Sound(book, trades)
  BY <1>1, <1>2, <1>3 DEF RestInv
<1>6. /\ copy' = [copy EXCEPT ![m] = c] /\ at' = [at EXCEPT ![m] = next]
      /\ UNCHANGED <<book, file, under>>
  BY <1>4 DEF ReadAndChange
<1>7. at'[m] = next /\ copy'[m] = c /\ \A n \in Monitors \ {m} : at'[n] = at[n]
  BY <1>6 DEF BookShape
<1>8. Inside(m)' /\ \A n \in Monitors \ {m} : ~Inside(n)'
  BY <1>1, <1>7 DEF Inside
<1>9. Ready' = Ready \ {m}
  BY <1>7 DEF Ready
<1>10. Alone' /\ under' = {} /\ FileInv'
  BY <1>3, <1>4, <1>6, <1>8 DEF Alone, FileInv
<1>11. CopyInv'
  BY <1>1, <1>5, <1>7, <1>8, <1>9 DEF CopyInv
<1>12. RestInv'
  <2>1. IsFiniteSet(book.open)
    <3>1. trades \in 0..MaxTrades /\ book \in Books(trades)
      BY DEF BookShape
    <3>2. trades \in Nat
      BY <3>1, TradeAssumption
    <3>3. QED
      BY <3>1, <3>2, BooksFacts
  <2>2. Fits(book, Ready \ {m})
    BY <1>3, <2>1, FitsSmaller DEF RestInv, Ready
  <2>3. QED
    BY <1>6, <1>8, <1>9, <2>2 DEF RestInv
<1>13. QED
  BY <1>10, <1>11, <1>12

LEMMA AccountStep ==
  ASSUME BookShape, BookShape', AccountInv, BookNext
  PROVE  AccountInv'
<1>0. /\ trades \in Nat /\ book \in Books(trades) /\ IsFiniteSet(book.open)
      /\ \A m \in Monitors : copy[m] \in Books(trades) /\ IsFiniteSet(copy[m].open)
      /\ Ready \subseteq Monitors
  <2>1. trades \in 0..MaxTrades /\ book \in Books(trades)
        /\ \A m \in Monitors : copy[m] \in Books(trades)
    BY DEF BookShape
  <2>2. trades \in Nat
    BY <2>1, TradeAssumption
  <2>3. QED
    BY <2>1, <2>2, BooksFacts DEF Ready
<1>1. ASSUME NEW m \in Monitors, StartReconcile(m) PROVE AccountInv'
  <2>1. PICK hit \in SUBSET book.open :
          ReadAndChange(m, "reconciling",
            [open |-> book.open \ hit, closed |-> book.closed \o SetToSeq(hit)])
    BY <1>1 DEF StartReconcile
  <2>2. at[m] = "poll" /\ UNCHANGED <<counted, trades>>
    BY <1>1 DEF StartReconcile
  <2> DEFINE c == [open |-> book.open \ hit, closed |-> book.closed \o SetToSeq(hit)]
  <2>3. ASSUME ~clash, Sound(book, trades) PROVE Sound(c, trades') /\ Fits(c, Ready \ {m})
    <3>1. Sound(c, trades)
      BY <1>0, <2>3, SoundClose
    <3>2. Fits(book, Ready)
      BY <2>3 DEF AccountInv, RestInv
    <3>3. c.open \subseteq book.open
      OBVIOUS
    <3>4. Fits(c, Ready \ {m})
      <4> HIDE DEF c
      <4> QED BY <1>0, <3>2, <3>3, FitsSmaller
    <3>5. QED
      BY <2>2, <3>1, <3>4
  <2> HIDE DEF c
  <2>4. ReadAndChange(m, "reconciling", c)
    BY <2>1 DEF c
  <2>5. QED
    BY <1>0, <2>2, <2>3, <2>4, StartStep
<1>2. ASSUME NEW m \in Monitors, StartOpen(m) PROVE AccountInv'
  <2> DEFINE c == [book EXCEPT !.open = @ \cup {trades + 1}]
  <2>1. /\ at[m] = "decide" /\ counted[m] = 0 /\ trades' = trades + 1
        /\ ReadAndChange(m, "opening", c) /\ UNCHANGED counted
    BY <1>2 DEF StartOpen
  <2>2. ASSUME ~clash, Sound(book, trades) PROVE Sound(c, trades') /\ Fits(c, Ready \ {m})
    <3>1. Sound(c, trades + 1) /\ c.open = book.open \cup {trades + 1}
      BY <1>0, <2>2, SoundOpen
    <3> HIDE DEF c
    <3>2. Cardinality(book.open) + Cardinality(Ready) <= Cardinality(Monitors)
      BY <2>2 DEF AccountInv, RestInv, Fits
    <3>3. /\ Cardinality(c.open) <= Cardinality(book.open) + 1
          /\ Cardinality(c.open) \in Nat /\ Cardinality(book.open) \in Nat
      BY <1>0, <3>1, SizeByOne
    <3>4. m \in Ready /\ IsFiniteSet(Ready)
      BY <1>0, <2>1, ReadyFinite DEF Ready
    <3>5. /\ Cardinality(Ready \ {m}) + 1 <= Cardinality(Ready)
          /\ Cardinality(Ready \ {m}) \in Nat /\ Cardinality(Ready) \in Nat
      BY <3>4, SizeLess
    <3>6. Cardinality(Monitors) \in Nat
      BY <1>0, ReadyFinite
    <3>7. Cardinality(c.open) + Cardinality(Ready \ {m}) <= Cardinality(Monitors)
      BY <3>2, <3>3, <3>5, <3>6
    <3>8. QED
      BY <2>1, <3>1, <3>7 DEF Fits
  <2> HIDE DEF c
  <2>3. trades' \in Nat
    BY <1>0, <2>1
  <2>4. QED
    BY <2>1, <2>2, <2>3, StartStep
<1>3. ASSUME NEW m \in Monitors, Count(m) PROVE AccountInv'
  <2> SUFFICES ASSUME ~clash' PROVE (Alone /\ under = {} /\ FileInv /\ RestInv /\ CopyInv)'
    BY DEF AccountInv
  <2>1. ~clash /\ \A n \in Monitors : ~Inside(n)
    BY <1>3 DEF Count, Inside
  <2>2. Alone /\ under = {} /\ FileInv /\ RestInv /\ CopyInv
    BY <2>1 DEF AccountInv
  <2>3. file = "whole"
    BY <2>1, <2>2 DEF FileInv, Writing, Inside
  <2>4. /\ counted' = [counted EXCEPT ![m] = Cardinality(book.open)]
        /\ at' = [at EXCEPT ![m] = "decide"]
        /\ UNCHANGED <<book, file, under, copy, trades>>
    BY <1>3, <2>3 DEF Count
  <2>5. at'[m] = "decide" /\ counted'[m] = Cardinality(book.open)
        /\ \A n \in Monitors \ {m} : at'[n] = at[n] /\ counted'[n] = counted[n]
    BY <2>4 DEF BookShape
  <2>6. \A n \in Monitors : ~Inside(n)'
    BY <2>1, <2>5 DEF Inside
  <2>7. Fits(book, Ready')
    <3>1. CASE book.open = {}
      <4>1. Cardinality(book.open) = 0
        BY <3>1, FS_EmptySet
      <4>2. Ready' \subseteq Monitors
        BY DEF Ready
      <4>3. QED
        BY <4>1, <4>2, ReadyFinite DEF Fits
    <3>2. CASE book.open # {}
      <4>1. Cardinality(book.open) # 0
        BY <1>0, <3>2, FS_EmptySet
      <4>2. Ready' \subseteq Ready
        BY <2>5, <4>1 DEF Ready
      <4>3. QED
        BY <1>0, <2>2, <4>2, FitsSmaller DEF RestInv
    <3>3. QED
      BY <3>1, <3>2
  <2>8. QED
    BY <2>1, <2>2, <2>3, <2>4, <2>6, <2>7 DEF Alone, FileInv, RestInv, CopyInv
<1>4. ASSUME NEW m \in Monitors, Hold(m) PROVE AccountInv'
  <2> SUFFICES ASSUME ~clash' PROVE (Alone /\ under = {} /\ FileInv /\ RestInv /\ CopyInv)'
    BY DEF AccountInv
  <2>1. /\ at[m] = "decide" /\ UNCHANGED <<book, file, under, copy, counted, trades, clash>>
        /\ at'[m] = "poll" /\ \A n \in Monitors \ {m} : at'[n] = at[n]
    BY <1>4 DEF Hold, BookShape
  <2>2. Alone /\ under = {} /\ FileInv /\ RestInv /\ CopyInv
    BY <2>1 DEF AccountInv
  <2>3. \A n \in Monitors : (Inside(n)' <=> Inside(n)) /\ (Writing(n)' <=> Writing(n))
    BY <2>1 DEF Inside, Writing
  <2>4. Ready' \subseteq Ready
    BY <2>1 DEF Ready
  <2>5. Fits(book, Ready')
    BY <1>0, <2>2, <2>4, FitsSmaller DEF RestInv
  <2>6. \A n \in Monitors : Inside(n) => Fits(copy[n], Ready')
    BY <1>0, <2>2, <2>4, FitsSmaller DEF CopyInv
  <2>7. Alone' /\ FileInv'
    BY <2>1, <2>2, <2>3 DEF Alone, FileInv
  <2>8. RestInv' /\ CopyInv'
    BY <2>1, <2>2, <2>3, <2>5, <2>6 DEF RestInv, CopyInv
  <2>9. QED
    BY <2>1, <2>2, <2>7, <2>8
<1>5. ASSUME NEW m \in Monitors, Truncate(m) PROVE AccountInv'
  <2> SUFFICES ASSUME ~clash' PROVE (Alone /\ under = {} /\ FileInv /\ RestInv /\ CopyInv)'
    BY DEF AccountInv
  <2>1. /\ at[m] \in {"reconciling", "opening"} /\ UNCHANGED <<book, copy, counted, trades, clash>>
        /\ at'[m] \in {"writing reconciled", "writing opened"}
        /\ file' = "empty" /\ under' = {}
        /\ \A n \in Monitors \ {m} : at'[n] = at[n]
    BY <1>5 DEF Truncate, BookShape
  <2>2. Alone /\ RestInv /\ CopyInv
    BY <2>1 DEF AccountInv
  <2>3. Writing(m)' /\ Inside(m) /\ \A n \in Monitors : (Inside(n)' <=> Inside(n))
    BY <2>1 DEF Inside, Writing
  <2>4. Ready' = Ready
    BY <2>1 DEF Ready
  <2>5. Alone' /\ FileInv'
    BY <2>1, <2>2, <2>3 DEF Alone, FileInv
  <2>6. RestInv' /\ CopyInv'
    BY <2>1, <2>2, <2>3, <2>4 DEF RestInv, CopyInv
  <2>7. QED
    BY <2>1, <2>5, <2>6
<1>6. ASSUME NEW m \in Monitors, WriteState(m) PROVE AccountInv'
  <2> SUFFICES ASSUME ~clash' PROVE (Alone /\ under = {} /\ FileInv /\ RestInv /\ CopyInv)'
    BY DEF AccountInv
  <2>1. ~clash /\ at[m] \in {"writing reconciled", "writing opened"}
        /\ UNCHANGED <<copy, counted, trades>>
        /\ at'[m] \in {"count", "poll"} /\ \A n \in Monitors \ {m} : at'[n] = at[n]
    BY <1>6 DEF WriteState, BookShape
  <2>2. Alone /\ under = {} /\ CopyInv
    BY <2>1 DEF AccountInv
  <2>3. Inside(m) /\ \A n \in Monitors \ {m} : ~Inside(n)
    BY <2>1, <2>2 DEF Alone, Inside
  <2>4. file' = "whole" /\ book' = copy[m]
    BY <1>6, <2>2 DEF WriteState
  <2>5. under' = {}
    BY <1>6, <2>3 DEF WriteState, Inside, Writing
  <2>6. \A n \in Monitors : ~Inside(n)'
    BY <2>1, <2>3 DEF Inside
  <2>7. Ready' = Ready
    BY <2>1 DEF Ready
  <2>8. Sound(copy[m], trades) /\ Fits(copy[m], Ready)
    BY <2>2, <2>3 DEF CopyInv
  <2>9. RestInv'
    BY <2>1, <2>4, <2>7, <2>8 DEF RestInv
  <2>10. QED
    BY <2>4, <2>5, <2>6, <2>9 DEF Alone, FileInv, CopyInv
<1>7. QED
  BY <1>1, <1>2, <1>3, <1>4, <1>5, <1>6 DEF BookNext

(* What the file says, and what the monitor inside is about to make of it. *)
THEOREM AccountInvariance == BookSpec => [](BookShape /\ AccountInv)
<1>1. BookInit => AccountInv
  <2> SUFFICES ASSUME BookInit PROVE AccountInv
    OBVIOUS
  <2>1. /\ book = Empty /\ file = "whole" /\ under = {} /\ trades = 0
        /\ \A m \in Monitors : ~Inside(m)
    BY DEF BookInit, Inside
  <2>2. ToSet(<<>>) = {} /\ IsInjective(<<>>)
    BY DEF ToSet, IsInjective
  <2>3. Sound(Empty, 0)
    BY <2>2 DEF Sound, Empty
  <2>4. Ready \subseteq Monitors /\ Cardinality(Empty.open) = 0
    BY FS_EmptySet DEF Ready, Empty
  <2>5. Fits(Empty, Ready)
    BY <2>4, ReadyFinite DEF Fits
  <2>6. QED
    BY <2>1, <2>3, <2>5 DEF AccountInv, Alone, FileInv, RestInv, CopyInv
<1>2. BookShape /\ BookShape' /\ AccountInv /\ [BookNext]_bookVars => AccountInv'
  <2> SUFFICES ASSUME BookShape, BookShape', AccountInv, [BookNext]_bookVars PROVE AccountInv'
    OBVIOUS
  <2>1. CASE UNCHANGED bookVars
    BY <2>1 DEF bookVars, AccountInv, Alone, FileInv, RestInv, CopyInv, Ready, Inside, Writing
  <2>2. QED
    BY <2>1, AccountStep
<1>3. QED
  BY <1>1, <1>2, BookShapeCorrect, PTL DEF BookSpec

(* Without two operations at a time the file is a true account: it parses, *)
(* every position is in it once, open or closed, and no more are open than *)
(* there are monitors, for any monitors and number of trades.              *)
THEOREM AccountIsTrue == BookSpec => []TrueAccount
<1>1. BookShape /\ AccountInv => TrueAccount
  <2> SUFFICES ASSUME BookShape, AccountInv, ~clash
               PROVE  /\ Cardinality(book.open) <= Cardinality(Monitors)
                      /\ (\A m \in Monitors : ~Inside(m)) => file = "whole" /\ Sound(book, trades)
    BY DEF TrueAccount, Sound
  <2>1. FileInv /\ RestInv
    BY DEF AccountInv
  <2>2. Cardinality(book.open) <= Cardinality(Monitors)
    <3>1. Cardinality(book.open) + Cardinality(Ready) <= Cardinality(Monitors)
      BY <2>1 DEF RestInv, Fits
    <3>2. trades \in 0..MaxTrades /\ book \in Books(trades)
      BY DEF BookShape
    <3>3. trades \in Nat
      BY <3>2, TradeAssumption
    <3>4. Cardinality(book.open) \in 0..trades
      BY <3>2, <3>3, BooksFacts
    <3>5. Cardinality(Ready) \in Nat /\ Cardinality(Monitors) \in Nat
      BY ReadyFinite DEF Ready
    <3>6. QED
      BY <3>1, <3>3, <3>4, <3>5
  <2>3. ASSUME \A m \in Monitors : ~Inside(m) PROVE file = "whole" /\ Sound(book, trades)
    BY <2>1, <2>3 DEF FileInv, RestInv, Inside, Writing
  <2>4. QED
    BY <2>2, <2>3
<1>2. QED
  BY <1>1, AccountInvariance, PTL

-----------------------------------------------------------------------------
(* A behaviour of the two side by side is a behaviour of each.             *)
LEMMA ExecutionParts == Spec => LiveSpec /\ BookSpec
<1>1. Init => LiveInit /\ BookInit
  BY DEF Init
<1>2. [Next]_<<liveVars, bookVars>> => [LiveNext]_liveVars /\ [BookNext]_bookVars
  BY DEF Next
<1>3. QED
  BY <1>1, <1>2, PTL DEF Spec, LiveSpec, BookSpec

(* The shape of both: no order is in two hands, and no position is in the  *)
(* portfolio file without a number.                                        *)
THEOREM ExecutionTypeCorrect == Spec => []TypeOK
<1>1. BookShape => BookTypeOK
  <2> SUFFICES ASSUME BookShape PROVE BookTypeOK
    OBVIOUS
  <2>1. book.open \subseteq 1..trades /\ book.closed \in Seq(1..trades)
    BY DEF BookShape, Books
  <2>2. QED
    BY <2>1 DEF BookShape, BookTypeOK, Places
<1>2. LiveTypeOK /\ BookTypeOK => TypeOK
  BY DEF TypeOK
<1>3. QED
  BY <1>1, <1>2, ExecutionParts, LiveTypeCorrect, BookShapeCorrect, PTL

=============================================================================
