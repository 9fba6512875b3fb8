--------------------------- MODULE EscrowPromise ---------------------------
(***************************************************************************)
(* What the escrow layer promises its users (header comment of             *)
(* backend/src/services/escrowService.ts): a held payment is one atomic    *)
(* move of the payer's cash into custody, and it leaves custody at most    *)
(* once, whole, to the payee or back to the payer.  Escrow.tla, where      *)
(* every operation is several awaited steps of concurrent requests, is     *)
(* shown to implement this specification.                                  *)
(***************************************************************************)
EXTENDS Integers

CONSTANTS
  Users,
  Keys,     \* one escrow per idempotency key
  Amount,   \* Amount[k]: what escrow k holds
  Funds     \* Funds[u]: u's cash before the first escrow

VARIABLES
  status,   \* "none", "held", "disputed", "released", "refunded"
  parties,  \* [payer, payee] of every escrow ever held
  cash      \* cash[u]: u's spendable cash

promiseVars == <<status, parties, cash>>

Open(k) == status[k] \in {"held", "disputed"}

Init ==
  /\ status = [k \in Keys |-> "none"]
  /\ parties = [k \in {} |-> Funds]
  /\ cash = Funds

Hold(k, payer, payee) ==
  /\ status[k] = "none"
  /\ payer # payee
  /\ cash[payer] >= Amount[k]
  /\ status' = [status EXCEPT ![k] = "held"]
  /\ parties' = [j \in DOMAIN parties \cup {k} |->
                   IF j = k THEN [payer |-> payer, payee |-> payee] ELSE parties[j]]
  /\ cash' = [cash EXCEPT ![payer] = @ - Amount[k]]

Release(k) ==
  /\ Open(k)
  /\ status' = [status EXCEPT ![k] = "released"]
  /\ cash' = [cash EXCEPT ![parties[k].payee] = @ + Amount[k]]
  /\ UNCHANGED parties

Refund(k) ==
  /\ Open(k)
  /\ status' = [status EXCEPT ![k] = "refunded"]
  /\ cash' = [cash EXCEPT ![parties[k].payer] = @ + Amount[k]]
  /\ UNCHANGED parties

Dispute(k) ==
  /\ status[k] = "held"
  /\ status' = [status EXCEPT ![k] = "disputed"]
  /\ UNCHANGED <<parties, cash>>

Next ==
  \E k \in Keys :
    \/ \E payer, payee \in Users : Hold(k, payer, payee)
    \/ Release(k)
    \/ Refund(k)
    \/ Dispute(k)

Spec == Init /\ [][Next]_promiseVars
=============================================================================
