------------------------------ MODULE Service ------------------------------
(***************************************************************************)
(* What the smaller services have in common: requests that are cut at each *)
(* await, over one ledger.                                                 *)
(*                                                                         *)
(* A slot serves one request at a time.  call[s] says which operation it   *)
(* is, where it is, the row it is about and what it saw there: a local     *)
(* variable of the handler, which may be out of date when it is used.      *)
(* A transaction is one step, and so is each statement outside of one.     *)
(***************************************************************************)
EXTENDS Ledger, FiniteSets

CONSTANTS
  Slots,  \* requests served at once
  None

ASSUME ServiceAssumption == IsFiniteSet(Slots) /\ Slots # {}

VARIABLE call

Request(op, at, row, saw) == [op |-> op, at |-> at, row |-> row, saw |-> saw]

Idle == Request("idle", "idle", None, None)

ServiceInit ==
  /\ LedgerInit
  /\ call = [s \in Slots |-> Idle]

At(s, op, at) == call[s].op = op /\ call[s].at = at

Begin(s, op, at, row, saw) ==
  /\ call[s] = Idle
  /\ call' = [call EXCEPT ![s] = Request(op, at, row, saw)]

Goto(s, at) == call' = [call EXCEPT ![s].at = at]

(* The same, with another view of the rows.                                *)
Seeing(s, at, saw) == call' = [call EXCEPT ![s] = Request(call[s].op, at, call[s].row, saw)]

Leave(s) == call' = [call EXCEPT ![s] = Idle]

(* A request dies: its process stops, or its transaction aborts and the    *)
(* error is thrown on.  Nothing in this code resumes it.                   *)
Dies(s) ==
  /\ call[s] # Idle
  /\ Leave(s)
  /\ UNCHANGED ledgerVars
=============================================================================
