------------------------------ MODULE Trading ------------------------------
(***************************************************************************)
(* Brokerage orders, backend/src/services/tradingService.ts: the hot path  *)
(* inserts an order and queues it; the settlement loop takes orders off    *)
(* the queue, asks the broker (tradingBroker.ts) for a fill and posts it.  *)
(*                                                                         *)
(* The queue is a variable of the process: a restart empties it, and       *)
(* nothing refills it from the table.  The timer starts a drain whether or *)
(* not the last one is over, so that drains overlap; a drain that throws   *)
(* has already taken its order off the queue.                              *)
(***************************************************************************)
EXTENDS Service, Sequences, Functions

CONSTANTS
  Trades,     \* idempotency keys of orders, each for one unit
  TradeSide,  \* TradeSide[o]: "buy" or "sell"
  TradePrice, TradeFee,
  TradeCash, TradePosition, BrokerCash, BrokerPosition, TradeFees

ASSUME TradingAssumption ==
  /\ TradeSide \in [Trades -> {"buy", "sell"}] /\ None \notin Trades
  /\ TradeFee \in Nat \ {0} /\ TradePrice \in Nat /\ TradePrice > TradeFee
  /\ {TradeCash, TradePosition, BrokerCash, BrokerPosition, TradeFees} \subseteq Accounts
  /\ TradeCash \notin {TradePosition, BrokerCash, BrokerPosition, TradeFees}
  /\ TradePosition \notin {BrokerCash, BrokerPosition, TradeFees}
  /\ Opening[TradeCash] >= 0 /\ Opening[TradePosition] >= 0

VARIABLES
  trade,     \* trade[o]: status of the row, or "none"
  settling,  \* orders waiting for settlement, in memory
  fills,     \* fills[o]: rows in fills
  lost       \* orders whose process or drain stopped: a history variable

tradingVars == <<journals, bal, call, trade, settling, fills, lost>>

TradingInit ==
  /\ ServiceInit
  /\ trade = [o \in Trades |-> "none"]
  /\ settling = <<>>
  /\ fills = [o \in Trades |-> 0]
  /\ lost = {}

Elsewhere == UNCHANGED <<journals, bal, trade, settling, fills, lost>>

-----------------------------------------------------------------------------
(* placeOrder: a row with the key answers the call; else the row is        *)
(* inserted (UNIQUE key) and the order queued.                             *)
PlaceTrade(s, o) ==
  /\ trade[o] = "none"
  /\ Begin(s, "place", "insert", o, None)
  /\ Elsewhere

InsertTrade(s) ==
  LET o == call[s].row IN
  /\ At(s, "place", "insert")
  /\ IF trade[o] = "none"
       THEN trade' = [trade EXCEPT ![o] = "accepted"] /\ Goto(s, "enqueue")
       ELSE UNCHANGED trade /\ Leave(s)
  /\ UNCHANGED <<journals, bal, settling, fills, lost>>

EnqueueTrade(s) ==
  /\ At(s, "place", "enqueue")
  /\ settling' = Append(settling, call[s].row)
  /\ Leave(s)
  /\ UNCHANGED <<journals, bal, trade, fills, lost>>

-----------------------------------------------------------------------------
(* runSettlementOnce takes one order; settleOrder asks for its row and for *)
(* a fill of it.                                                           *)
TakeTrade(s) ==
  /\ call[s] = Idle
  /\ settling # <<>>
  /\ settling' = Tail(settling)
  /\ LET o == Head(settling) IN
     IF trade[o] = "accepted"
       THEN Begin(s, "settle", IF fills[o] > 0 THEN "mark" ELSE "broker", o, None)
       ELSE UNCHANGED call
  /\ UNCHANGED <<journals, bal, trade, fills, lost>>

(* The broker is down, its circuit is open, or the market is not where the *)
(* trade wants it: the order goes back on the queue.                       *)
DeferAndDrop(s) ==  \* faulty: a deferred order is not queued again
  /\ At(s, "settle", "broker")
  /\ UNCHANGED settling
  /\ Leave(s)
  /\ UNCHANGED <<journals, bal, trade, fills, lost>>

Defer(s) ==
  /\ At(s, "settle", "broker")
  /\ settling' = Append(settling, call[s].row)
  /\ Leave(s)
  /\ UNCHANGED <<journals, bal, trade, fills, lost>>

Affords(o) ==
  IF TradeSide[o] = "buy" THEN bal[TradeCash] >= TradePrice + TradeFee ELSE bal[TradePosition] >= 1

Executed(s) ==
  /\ At(s, "settle", "broker")
  /\ Goto(s, IF Affords(call[s].row) THEN "post" ELSE "reject")
  /\ Elsewhere

TradeEffect(o) ==
  IF TradeSide[o] = "buy"
    THEN Both(Both(Move(TradeCash, BrokerCash, TradePrice), Move(TradeCash, TradeFees, TradeFee)),
              Move(BrokerPosition, TradePosition, 1))
    ELSE Both(Both(Move(BrokerCash, TradeCash, TradePrice), Move(TradeCash, TradeFees, TradeFee)),
              Move(TradePosition, BrokerPosition, 1))

PostTrade(s) ==
  /\ At(s, "settle", "post")
  /\ PostJournal(<<"tradefill", call[s].row>>, TradeEffect(call[s].row))
  /\ Goto(s, "fill")
  /\ UNCHANGED <<trade, settling, fills, lost>>

RecordFill(s) ==
  /\ At(s, "settle", "fill")
  /\ fills' = [fills EXCEPT ![call[s].row] = @ + 1]
  /\ Goto(s, "mark")
  /\ UNCHANGED <<journals, bal, trade, settling, lost>>

MarkTrade(s, at, status) ==
  /\ At(s, "settle", at)
  /\ trade' = [trade EXCEPT ![call[s].row] = status]
  /\ Leave(s)
  /\ UNCHANGED <<journals, bal, settling, fills, lost>>

-----------------------------------------------------------------------------
(* A statement throws, or the process stops and takes the queue with it.   *)
TradeThrows(s) ==
  /\ Dies(s)
  /\ lost' = lost \cup {call[s].row}
  /\ UNCHANGED <<trade, settling, fills>>

Restart ==
  /\ settling # <<>>
  /\ lost' = lost \cup Range(settling) \cup {call[s].row : s \in {t \in Slots : call[t] # Idle}}
  /\ settling' = <<>>
  /\ call' = [s \in Slots |-> Idle]
  /\ UNCHANGED <<journals, bal, trade, fills>>

TradingNext ==
  \/ \E s \in Slots :
       \/ \E o \in Trades : PlaceTrade(s, o)
       \/ InsertTrade(s) \/ EnqueueTrade(s)
       \/ TakeTrade(s) \/ Defer(s) \/ Executed(s)
       \/ PostTrade(s) \/ RecordFill(s)
       \/ MarkTrade(s, "mark", "settled") \/ MarkTrade(s, "reject", "rejected")
       \/ TradeThrows(s)
  \/ Restart

TradingSpec == TradingInit /\ [][TradingNext]_tradingVars

-----------------------------------------------------------------------------
(* Correctness                                                             *)

(* An accepted order that no crash has touched is in one place: on the     *)
(* queue, or in the hands of one request.  So it is deferred as often as   *)
(* the broker likes, and neither lost nor filled twice                     *)
(* (tradingService.ts:212, 222-237, 275-290).                              *)
NoOrderMislaid ==
  \A o \in Trades : trade[o] = "accepted" /\ o \notin lost =>
    Cardinality({i \in DOMAIN settling : settling[i] = o})
      + Cardinality({s \in Slots : call[s].row = o /\ call[s].at # "insert"}) = 1

(* The journal, the fill and the status are three writes: a settled order  *)
(* has one fill and its journal, a rejected one has neither, and only a    *)
(* crash between them leaves a posted order accepted                       *)
(* (tradingService.ts:302, 335-347).                                       *)
FillsMatchJournals ==
  \A o \in Trades :
    /\ fills[o] <= 1
    /\ trade[o] = "settled" => fills[o] = 1
    /\ fills[o] = 1 => Posted(<<"tradefill", o>>)
    /\ trade[o] = "rejected" => ~Posted(<<"tradefill", o>>)

(* The balance check stands outside of the journal: drains that overlap    *)
(* may overdraw the trader, by no more than the others in flight           *)
(* (tradingService.ts:298-311, 337).                                       *)
OverdrawnByOverlap ==
  /\ bal[TradeCash] >= -(Cardinality(Slots) - 1) * (TradePrice + TradeFee)
  /\ bal[TradePosition] >= -(Cardinality(Slots) - 1)
=============================================================================
