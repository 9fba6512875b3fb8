------------------------------ MODULE Exchange ------------------------------
(***************************************************************************)
(* Conversions and cross-border sends: convert() of                        *)
(* backend/src/services/fxSettlementService.ts and send() of               *)
(* crossBorderService.ts, which is the same code with another receiver.    *)
(*                                                                         *)
(* The row with the key is looked up, the rate asked for, the balance      *)
(* read; then the journal and the row are written one after the other.     *)
(* Each of the two has its own key, and only the row keeps the rate.       *)
(***************************************************************************)
EXTENDS Service

CONSTANTS
  Swaps,      \* idempotency keys
  SwapKind,   \* SwapKind[k]: "convert" or "send"
  SwapAmount, \* fromAmountMinor
  Rates,      \* rates the provider may quote: units of TO for one of FROM
  SpreadDivisor,  \* 10000 / FX_SPREAD_BPS
  FromCash, ToCash, PayeeCash, FxFrom, FxTo, FxFees

ASSUME ExchangeAssumption ==
  /\ SwapKind \in [Swaps -> {"convert", "send"}]
  /\ SwapAmount \in Nat \ {0}
  /\ Rates \subseteq Nat \ {0} /\ None \notin Rates
  /\ SpreadDivisor \in Nat \ {0, 1}
  /\ {FromCash, ToCash, PayeeCash, FxFrom, FxTo, FxFees} \subseteq Accounts
  /\ FromCash \notin {ToCash, PayeeCash, FxFrom, FxTo, FxFees}
  /\ Opening[FromCash] >= 0

VARIABLES
  swap,    \* swap[k]: rate_ppm of the row in fx_conversions or cross_border_sends, or None
  clouded  \* keys with overlapping or dead requests: a history variable

exchangeVars == <<journals, bal, call, swap, clouded>>

ExchangeInit ==
  /\ ServiceInit
  /\ swap = [k \in Swaps |-> None]
  /\ clouded = {}

-----------------------------------------------------------------------------
(* convertAmountMinor and the spread, both rounded down.                   *)
Gross(rate) == SwapAmount * rate
Spread(rate) == Gross(rate) \div SpreadDivisor

(* One journal, two currencies, each of which nets to zero.                *)
SwapEffect(k, rate) ==
  LET receiver == IF SwapKind[k] = "convert" THEN ToCash ELSE PayeeCash
      to == Both(Move(FxTo, receiver, Gross(rate) - Spread(rate)), Move(FxTo, FxFees, Spread(rate)))
  IN Both(Move(FromCash, FxFrom, SwapAmount), to)

-----------------------------------------------------------------------------
Swap(s, k, rate) ==
  /\ swap[k] = None
  /\ bal[FromCash] >= SwapAmount
  /\ Begin(s, "swap", "post", k, rate)
  /\ clouded' = IF \E t \in Slots : call[t].op = "swap" /\ call[t].row = k
                  THEN clouded \cup {k} ELSE clouded
  /\ UNCHANGED <<journals, bal, swap>>

SwapPostRequoted(s) ==  \* faulty: the rate is asked for again when it is posted
  /\ At(s, "swap", "post")
  /\ \E rate \in Rates : PostJournal(<<"fx", call[s].row>>, SwapEffect(call[s].row, rate))
  /\ Goto(s, "row")
  /\ UNCHANGED <<swap, clouded>>

SwapPost(s) ==
  /\ At(s, "swap", "post")
  /\ PostJournal(<<"fx", call[s].row>>, SwapEffect(call[s].row, call[s].saw))
  /\ Goto(s, "row")
  /\ UNCHANGED <<swap, clouded>>

(* INSERT, of which the key is unique: it may throw.                       *)
SwapRow(s) ==
  LET k == call[s].row IN
  /\ At(s, "swap", "row")
  /\ swap' = IF swap[k] = None THEN [swap EXCEPT ![k] = call[s].saw] ELSE swap
  /\ Leave(s)
  /\ UNCHANGED <<journals, bal, clouded>>

ExchangeNext ==
  \E s \in Slots :
    \/ \E k \in Swaps, rate \in Rates : Swap(s, k, rate)
    \/ SwapPost(s) \/ SwapRow(s)
    \/ Dies(s) /\ clouded' = clouded \cup {call[s].row} /\ UNCHANGED swap

ExchangeSpec == ExchangeInit /\ [][ExchangeNext]_exchangeVars

-----------------------------------------------------------------------------
(* Correctness *)

(* "fx_conversions is the append-only audit record": a row has its journal *)
(* and, unless two requests with its key overlapped or one died, tells the *)
(* rate the money moved at; a retry after a crash quotes a new rate for a  *)
(* journal that stands (fxSettlementService.ts:15, 80-88, 115-131,         *)
(* crossBorderService.ts:72-80, 101-109).                                  *)
RowsTellTheRate ==
  \A k \in Swaps :
    swap[k] # None =>
      /\ Posted(<<"fx", k>>)
      /\ k \notin clouded => journals[<<"fx", k>>] = SwapEffect(k, swap[k])

(* The balance check stands outside of the journal: it lets through no     *)
(* more than the requests that overlap (fxSettlementService.ts:97-119,     *)
(* crossBorderService.ts:83-101).                                          *)
OverspentByOverlap == bal[FromCash] >= -(Cardinality(Slots) - 1) * SwapAmount
=============================================================================
