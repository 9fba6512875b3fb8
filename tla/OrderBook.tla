----------------------------- MODULE OrderBook -----------------------------
(***************************************************************************)
(* The secondary market, backend/src/services/secondaryMarketService.ts:   *)
(* placeOrder, match and cancelOrder on the book of one asset.             *)
(*                                                                         *)
(* An order is escrowed, inserted, and matched at once against the resting *)
(* orders, which are read once; every statement stands alone, and the rows *)
(* are overwritten with what was computed from that read.  A taker is      *)
(* matched once, so taker and maker identify a trade.                      *)
(***************************************************************************)
EXTENDS Service, Sequences, Functions

CONSTANTS
  BookOrders,  \* idempotency keys of orders
  BookSide,    \* BookSide[o]: "buy" or "sell"
  BookQty,     \* BookQty[o]: qty
  Limit,       \* Limit[o]: limitPriceMinor
  TraderCash,  \* TraderCash[o]: user_cash of the user; no two orders share one
  TraderUnits, \* TraderUnits[o]: units of the user
  CashEscrow, UnitEscrow  \* trade_escrow in cash and in units

ASSUME OrderBookAssumption ==
  /\ IsFiniteSet(BookOrders)
  /\ BookSide \in [BookOrders -> {"buy", "sell"}]
  /\ BookQty \in [BookOrders -> Nat \ {0}]
  /\ Limit \in [BookOrders -> Nat \ {0}]
  /\ {CashEscrow, UnitEscrow} \subseteq Accounts /\ CashEscrow # UnitEscrow
  /\ \A o \in BookOrders :
       {TraderCash[o], TraderUnits[o]} \subseteq Accounts \ {CashEscrow, UnitEscrow}

VARIABLES
  book,    \* book[o]: status and qty_remaining of the row in trade_orders
  placed,  \* the rows in the order of created_at
  trades,  \* the rows in trades
  contested  \* history: orders two requests had in hand at once, or one died over

bookVars == <<journals, bal, call, book, placed, trades, contested>>

OrderBookInit ==
  /\ ServiceInit
  /\ book = [o \in BookOrders |-> [status |-> "none", left |-> 0]]
  /\ placed = <<>>
  /\ trades = {}
  /\ contested = {}

Row(left) == [status |-> IF left <= 0 THEN "filled" ELSE "open", left |-> left]

(* The resting orders that a taker has yet to go through and what it has   *)
(* left to fill; of a cancellation, what the row said was left.            *)
View(makers, left) == [makers |-> makers, left |-> left]

(* The orders that a request is about to write by what it has read of      *)
(* them: its own, and the makers it has yet to go through.                 *)
InHand(c) ==
  IF c = Idle THEN {}
  ELSE {c.row} \cup (IF c.at \in {"fill", "trade", "advance"} THEN {m.id : m \in c.saw.makers} ELSE {})

(* s takes orders in hand; those that another request has are contested.   *)
Takes(s, orders) ==
  contested' = contested \cup {o \in orders : \E t \in Slots \ {s} : o \in InHand(call[t])}

(* What an order of n units puts in escrow, and takes out of it again.     *)
IntoEscrow(o, n) ==
  IF BookSide[o] = "sell" THEN Move(TraderUnits[o], UnitEscrow, n)
                          ELSE Move(TraderCash[o], CashEscrow, n * Limit[o])

OutOfEscrow(o, n) ==
  IF BookSide[o] = "sell" THEN Move(UnitEscrow, TraderUnits[o], n)
                          ELSE Move(CashEscrow, TraderCash[o], n * Limit[o])

Funded(o) ==
  IF BookSide[o] = "sell" THEN bal[TraderUnits[o]] >= BookQty[o]
                          ELSE bal[TraderCash[o]] >= BookQty[o] * Limit[o]

-----------------------------------------------------------------------------
(* placeOrder: the key, the funds, the escrow, the row.                    *)
PlaceCall(s, o) ==
  /\ book[o].status = "none" /\ Funded(o)
  /\ Begin(s, "place", "escrow", o, None)
  /\ Takes(s, {o})
  /\ UNCHANGED <<journals, bal, book, placed, trades>>

PlaceEscrow(s) ==
  LET o == call[s].row IN
  /\ At(s, "place", "escrow")
  /\ PostJournal(<<"escrow", o>>, IntoEscrow(o, BookQty[o]))
  /\ Goto(s, "insert")
  /\ UNCHANGED <<book, placed, trades, contested>>

BookInsert(s) ==
  LET o == call[s].row IN
  /\ At(s, "place", "insert")
  /\ IF book[o].status = "none"
       THEN /\ book' = [book EXCEPT ![o] = [status |-> "open", left |-> BookQty[o]]]
            /\ placed' = Append(placed, o)
            /\ Goto(s, "match")
       ELSE UNCHANGED <<book, placed>> /\ Leave(s)
  /\ UNCHANGED <<journals, bal, trades, contested>>

-----------------------------------------------------------------------------
(* match: the open orders of the other side that cross the taker's limit.  *)
Crosses(taker, o) ==
  /\ BookSide[o] # BookSide[taker]
  /\ IF BookSide[taker] = "buy" THEN Limit[o] <= Limit[taker] ELSE Limit[o] >= Limit[taker]

Resting(o, left) == [id |-> o, left |-> left]

Candidates(taker) == {o \in BookOrders : book[o].status = "open" /\ Crosses(taker, o)}

MatchRead(s) ==
  LET taker == call[s].row
      resting == {Resting(o, book[o].left) : o \in Candidates(taker)}
  IN
  /\ At(s, "place", "match")
  /\ Seeing(s, "fill", View(resting, book[taker].left))
  /\ Takes(s, Candidates(taker))
  /\ UNCHANGED <<journals, bal, book, placed, trades>>

(* Best price first, then oldest.                                          *)
Better(taker, m, o) ==
  \/ IF BookSide[taker] = "buy" THEN Limit[m] < Limit[o] ELSE Limit[m] > Limit[o]
  \/ Limit[m] = Limit[o]
     /\ \E i, j \in DOMAIN placed : i <= j /\ placed[i] = m /\ placed[j] = o

Foremost(taker, makers) == {m \in makers : \A o \in makers : Better(taker, m.id, o.id)}
Best(taker, makers) == CHOOSE m \in Foremost(taker, makers) : TRUE

Filling(s) == At(s, "place", "fill") /\ call[s].saw.left > 0 /\ call[s].saw.makers # {}

Smaller(m, n) == IF m < n THEN m ELSE n

Maker(s) == Best(call[s].row, call[s].saw.makers)
FillQtyAll(s) == Maker(s).left  \* faulty: the taker's remaining quantity is not compared
FillQty(s) == Smaller(call[s].saw.left, Maker(s).left)

(* The seller is paid the maker's price, the buyer gets the units and what *)
(* his limit left over.                                                    *)
Fill(buy, sell, price, n) ==
  Both(Both(Move(CashEscrow, TraderCash[sell], n * price), Move(UnitEscrow, TraderUnits[buy], n)),
       Move(CashEscrow, TraderCash[buy], n * (Limit[buy] - price)))

Parties(taker, maker) ==
  IF BookSide[taker] = "buy" THEN [buy |-> taker, sell |-> maker]
                             ELSE [buy |-> maker, sell |-> taker]

FillPost(s) ==
  LET taker == call[s].row
      maker == Maker(s).id
      p == Parties(taker, maker)
  IN
  /\ Filling(s)
  /\ PostJournal(<<"fill", taker, maker>>, Fill(p.buy, p.sell, Limit[maker], FillQty(s)))
  /\ Goto(s, "trade")
  /\ UNCHANGED <<book, placed, trades, contested>>

FillTrade(s) ==
  LET taker == call[s].row  maker == Maker(s).id IN
  /\ At(s, "place", "trade")
  /\ trades' = trades \cup {[taker |-> taker, maker |-> maker, qty |-> FillQty(s), price |-> Limit[maker]]}
  /\ Goto(s, "advance")
  /\ UNCHANGED <<journals, bal, book, placed, contested>>

MakerUpdate(s) ==
  LET maker == Maker(s)  n == FillQty(s) IN
  /\ At(s, "place", "advance")
  /\ book' = [book EXCEPT ![maker.id] = Row(maker.left - n)]
  /\ Seeing(s, "fill", View(call[s].saw.makers \ {maker}, call[s].saw.left - n))
  /\ UNCHANGED <<journals, bal, placed, trades, contested>>

TakerUpdate(s) ==
  /\ At(s, "place", "fill") /\ ~Filling(s)
  /\ book' = [book EXCEPT ![call[s].row] = Row(call[s].saw.left)]
  /\ Leave(s)
  /\ UNCHANGED <<journals, bal, placed, trades, contested>>

-----------------------------------------------------------------------------
(* cancelOrder: the row, the refund of what it said was left, the status.  *)
CancelBook(s, o) ==
  /\ book[o].status = "open"
  /\ Begin(s, "unplace", "refund", o, View({}, book[o].left))
  /\ Takes(s, {o})
  /\ UNCHANGED <<journals, bal, book, placed, trades>>

RefundLeft(s) == call[s].saw.left

CancelRefund(s) ==
  LET o == call[s].row IN
  /\ At(s, "unplace", "refund")
  /\ IF call[s].saw.left > 0
       THEN PostJournal(<<"unplace", o>>, OutOfEscrow(o, RefundLeft(s)))
       ELSE UNCHANGED ledgerVars
  /\ Goto(s, "mark")
  /\ UNCHANGED <<book, placed, trades, contested>>

CancelMark(s) ==
  /\ At(s, "unplace", "mark")
  /\ book' = [book EXCEPT ![call[s].row] = [status |-> "cancelled", left |-> @.left]]
  /\ Leave(s)
  /\ UNCHANGED <<journals, bal, placed, trades, contested>>

(* The orders whose rows a request that dies leaves behind their journals. *)
HalfDone(s) ==
  IF call[s].at \in {"escrow", "match", "refund"} THEN {}
  ELSE {call[s].row} \cup (IF call[s].at \in {"trade", "advance"} THEN {Maker(s).id} ELSE {})

BookDies(s) ==
  /\ Dies(s)
  /\ contested' = contested \cup HalfDone(s)
  /\ UNCHANGED <<book, placed, trades>>

-----------------------------------------------------------------------------
OrderBookNext ==
  \E s \in Slots :
    \/ \E o \in BookOrders : PlaceCall(s, o) \/ CancelBook(s, o)
    \/ PlaceEscrow(s) \/ BookInsert(s) \/ MatchRead(s)
    \/ FillPost(s) \/ FillTrade(s) \/ MakerUpdate(s) \/ TakerUpdate(s)
    \/ CancelRefund(s) \/ CancelMark(s)
    \/ BookDies(s)

OrderBookSpec == OrderBookInit /\ [][OrderBookNext]_bookVars

-----------------------------------------------------------------------------
(* Correctness *)

(* What the fill and cancel journals took of the escrow of order o.        *)
Pairs == BookOrders \X BookOrders

Drawn(p) ==
  IF Posted(<<"fill", p[1], p[2]>>) THEN -journals[<<"fill", p[1], p[2]>>][UnitEscrow] ELSE 0

FilledOf(o) == SumFunctionOnSet([p \in Pairs |-> Drawn(p)], {p \in Pairs : o \in {p[1], p[2]}})

GivenBack(o) ==
  IF ~Posted(<<"unplace", o>>) THEN 0
  ELSE IF BookSide[o] = "sell" THEN -journals[<<"unplace", o>>][UnitEscrow]
       ELSE (-journals[<<"unplace", o>>][CashEscrow]) \div Limit[o]

(* What the journals left of order o in escrow, in units of the asset.     *)
InEscrow(o) ==
  (IF Posted(<<"escrow", o>>) THEN BookQty[o] ELSE 0) - FilledOf(o) - GivenBack(o)

SellOrders == {o \in BookOrders : BookSide[o] = "sell"}
BuyOrders == {o \in BookOrders : BookSide[o] = "buy"}

UnitsExplained ==
  bal[UnitEscrow] = Opening[UnitEscrow] + SumFunctionOnSet([o \in BookOrders |-> InEscrow(o)], SellOrders)

CashInEscrowExplained ==
  bal[CashEscrow] = Opening[CashEscrow]
                    + SumFunctionOnSet([o \in BookOrders |-> InEscrow(o) * Limit[o]], BuyOrders)

OpenLeft(o) == IF book[o].status = "open" THEN book[o].left ELSE 0

(* Whatever races or dies, the escrow of units and of cash is what the     *)
(* orders put in less what their journals took out, price improvement      *)
(* included.  "Every fill ... draws only on the two orders' escrows"       *)
(* (secondaryMarketService.ts:7) holds of each order that no two requests  *)
(* had in hand at once and none died over, however others are contested;   *)
(* and between two requests about it such an order has in escrow exactly   *)
(* what its row says is left, partial fills and cancellations included     *)
(* (secondaryMarketService.ts:137-176, 187-207).                           *)
EscrowBacksBook ==
  /\ UnitsExplained /\ CashInEscrowExplained
  /\ \A o \in BookOrders \ contested :
       /\ FilledOf(o) + GivenBack(o) <= BookQty[o]
       /\ (\A s \in Slots : o \notin InHand(call[s])) => InEscrow(o) = OpenLeft(o)

Taken(taker) == SumFunctionOnSet([t \in trades |-> t.qty], {t \in trades : t.taker = taker})

(* Whatever races, no party gets a worse price than its limit, no taker    *)
(* fills more than it asked for, and every trade on the tape has its       *)
(* journal (secondaryMarketService.ts:119-135, 160-171).                   *)
TradesWithinLimits ==
  /\ \A t \in trades :
       LET p == Parties(t.taker, t.maker) IN
       /\ Posted(<<"fill", t.taker, t.maker>>)
       /\ Limit[p.sell] <= t.price /\ t.price <= Limit[p.buy]
  /\ \A o \in BookOrders : Taken(o) <= BookQty[o]
=============================================================================
