------------------------------- MODULE DbPool -------------------------------
(***************************************************************************)
(* Transactions over the connection pool, backend/src/db/index.ts, with    *)
(* the audit entries that services write inside of them, auditService.ts.  *)
(*                                                                         *)
(* A transaction holds a connection from connect() to release().  logAudit *)
(* takes none from its caller: it goes to getDb(), the pool, so that an    *)
(* audited transaction waits for a second connection while it holds one.   *)
(* pg's Pool is external: it has PoolSize connections (10 when not told),  *)
(* and serves those who wait in their order.                               *)
(***************************************************************************)
EXTENDS Integers, FiniteSets, Sequences

CONSTANTS
  Txs,      \* calls of transaction()
  Audited,  \* those that call logAudit before they commit
  PoolSize

ASSUME DbPoolAssumption ==
  /\ IsFiniteSet(Txs) /\ Audited \subseteq Txs
  /\ PoolSize \in Nat \ {0}

VARIABLES
  tx,     \* tx[t]: where transaction t is
  free,   \* connections that nobody holds
  queue,  \* those who wait for one, in order
  audit   \* the transactions with a row in audit_logs

poolVars == <<tx, free, queue, audit>>

TxStates == {"new", "connect", "body", "audit", "commit", "committed", "aborted"}

DbPoolTypeOK ==
  /\ tx \in [Txs -> TxStates]
  /\ free \in 0..PoolSize
  /\ queue \in Seq(Txs)
  /\ audit \subseteq Audited

DbPoolInit ==
  /\ tx = [t \in Txs |-> "new"]
  /\ free = PoolSize
  /\ queue = <<>>
  /\ audit = {}

-----------------------------------------------------------------------------
(* Ask the pool: there is a connection, or one waits.                      *)
Wait(t, at) ==
  /\ queue' = Append(queue, t)
  /\ tx' = [tx EXCEPT ![t] = at]
  /\ UNCHANGED <<free, audit>>

Connect(t) == tx[t] = "new" /\ Wait(t, "connect")

(* The first in the queue gets a connection: BEGIN, or the audit's INSERT, *)
(* which commits by itself and gives its connection back at once.          *)
Served(t) == queue # <<>> /\ Head(queue) = t /\ free > 0

BeginTx(t) ==
  /\ tx[t] = "connect" /\ Served(t)
  /\ queue' = Tail(queue)
  /\ free' = free - 1
  /\ tx' = [tx EXCEPT ![t] = "body"]
  /\ UNCHANGED audit

LogAudit(t) ==
  /\ tx[t] = "body" /\ t \in Audited
  /\ Wait(t, "audit")

AuditInsert(t) ==
  /\ tx[t] = "audit" /\ Served(t)
  /\ queue' = Tail(queue)
  /\ audit' = audit \cup {t}
  /\ tx' = [tx EXCEPT ![t] = "commit"]
  /\ UNCHANGED free

-----------------------------------------------------------------------------
(* COMMIT, or what fn or COMMIT throws and ROLLBACK; release() in any case.*)
Ready(t) == tx[t] = IF t \in Audited THEN "commit" ELSE "body"

Commit(t) ==
  /\ Ready(t)
  /\ tx' = [tx EXCEPT ![t] = "committed"]
  /\ free' = free + 1
  /\ UNCHANGED <<queue, audit>>

RollbackKeeping(t) ==  \* faulty: no finally, an aborted transaction keeps its connection
  /\ tx[t] \in {"body", "commit"}
  /\ tx' = [tx EXCEPT ![t] = "aborted"]
  /\ UNCHANGED <<free, queue, audit>>

Rollback(t) ==
  /\ tx[t] \in {"body", "commit"}
  /\ tx' = [tx EXCEPT ![t] = "aborted"]
  /\ free' = free + 1
  /\ UNCHANGED <<queue, audit>>

-----------------------------------------------------------------------------
DbPoolNext ==
  \E t \in Txs :
    \/ Connect(t) \/ BeginTx(t) \/ LogAudit(t) \/ AuditInsert(t)
    \/ Commit(t) \/ Rollback(t)

DbPoolSpec == DbPoolInit /\ [][DbPoolNext]_poolVars

-----------------------------------------------------------------------------
(* Correctness *)

(* Every connection is held by a transaction that waits, in its audit      *)
(* entry, for a second one.                                                *)
AuditsBlock == Cardinality({t \in Audited : tx[t] = "audit"}) = PoolSize

(* Nobody waits for a connection that was mislaid: while the queue is not  *)
(* empty a connection is free, or is held by a transaction that can go on, *)
(* or the audit entries block each other.  The last is a deadlock that the *)
(* code can reach with as many audited transactions at work as there are   *)
(* connections, and it is the only way in which the pool stands still      *)
(* (db/index.ts:73, 84, 142, auditService.ts:36).                          *)
PoolMoves ==
  queue # <<>> => free > 0 \/ (\E t \in Txs : tx[t] \in {"body", "commit"}) \/ AuditsBlock

(* Every connection is free or held by one transaction.                    *)
Holders == {t \in Txs : tx[t] \in {"body", "audit", "commit"}}

PoolAccounted == free + Cardinality(Holders) = PoolSize
=============================================================================
