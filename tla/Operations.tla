----------------------------- MODULE Operations -----------------------------
(***************************************************************************)
(* The internal agent operations, backend/src/operations: the in-process   *)
(* runner (operationsWorkflow.ts), the mechanical governance it applies    *)
(* (integrations/mechGovService.ts) and the CEO gate (gatePolicy.ts).      *)
(*                                                                         *)
(* A run gathers, asks the agent, and decides by a chain of deterministic  *)
(* rules: execute, reject, or queue a review.  A review is read, executed  *)
(* and marked in separate statements.  An engine that repeats a task       *)
(* (Temporal, Conductor) is another call of the same operation.  A gate    *)
(* that rejects names no roles, as in the workflows that are registered.   *)
(***************************************************************************)
EXTENDS Service

CONSTANTS
  Runs,        \* workflow runs
  Skills,      \* the registered workflows
  Supervised,  \* those that are human_required or human_led
  CeoGated,    \* those whose output class resolves to one of the three
  Regime,      \* Regime[k]: "R1", "R2" or "R3"; "R1" for all when MECH_GOV_ENABLED is off
  Admins,
  RoleOf       \* RoleOf[a]: the administrator's role

ASSUME OperationsAssumption ==
  /\ Supervised \subseteq Skills /\ CeoGated \subseteq Skills
  /\ Regime \in [Skills -> {"R1", "R2", "R3"}]
  /\ DOMAIN RoleOf = Admins
  /\ None \notin Skills /\ "gate" \notin Admins

VARIABLES
  skill,     \* skill[r]: the workflow that r is a run of
  review,    \* review[r]: status and requires_role of the row in agent_reviews
  executed,  \* executed[r]: who has executed r: administrators, or the gate
  trail,     \* trail[r]: outcomes of r's rows in agent_runs
  contended  \* history: runs resolved side by side, or executed by a resolver that died

operationsVars == <<journals, bal, call, skill, review, executed, trail, contended>>

CeoRoles == {"ceo", "chief_of_staff"}
Defaults == {"compliance", "admin"}

Decision(action, roles) == [action |-> action, roles |-> roles]

OperationsInit ==
  /\ ServiceInit
  /\ skill = [r \in Runs |-> None]
  /\ review = [r \in Runs |-> [status |-> "none", roles |-> {}]]
  /\ executed = [r \in Runs |-> {}]
  /\ trail = [r \in Runs |-> {}]
  /\ contended = {}

-----------------------------------------------------------------------------
(* What becomes of the gate's decision; the empty set of roles is none.    *)
Confidences == {"failed", "low", "middling", "high"}  \* under the floor, under it + 0.2, above

OrElse(roles, default) == IF roles = {} THEN default ELSE roles

(* applyMechanicalGovernance                                               *)
Governed(k, d, confidence) ==
  IF d.action = "approve"
     /\ (Regime[k] = "R3" \/ (Regime[k] = "R2" /\ confidence # "high"))
    THEN Decision("escalate", OrElse(d.roles, Defaults))
    ELSE d

(* applyCeoGatePolicy                                                      *)
CeoGate(k, d) ==
  IF k \notin CeoGated THEN d
  ELSE IF d.action = "reject" THEN Decision("reject", OrElse(d.roles, CeoRoles))
  ELSE Decision("escalate", CeoRoles)

DecideForcedFirst(k, d, confidence) ==  \* faulty: what is escalated anyway skips the CEO gate
  IF confidence \in {"failed", "low"} THEN Decision("escalate", d.roles)
  ELSE IF k \in Supervised /\ CeoGate(k, Governed(k, d, confidence)).action = "approve"
       THEN Decision("escalate", CeoGate(k, Governed(k, d, confidence)).roles)
       ELSE CeoGate(k, Governed(k, d, confidence))

(* The gate, the governance, the policy, the circuit breaker with the      *)
(* confidence floor, and the supervision tier, in this order.              *)
Decide(k, d, confidence) ==
  LET e == CeoGate(k, Governed(k, d, confidence)) IN
  IF confidence \in {"failed", "low"} \/ (k \in Supervised /\ e.action = "approve")
    THEN Decision("escalate", e.roles)
    ELSE e

GateDecisions ==
  {Decision("reject", {})} \cup
  {Decision(action, roles) : action \in {"approve", "escalate"},
                             roles \in {{}, {"support", "compliance", "admin"}, {"admin"}, CeoRoles}}

-----------------------------------------------------------------------------
(* executeInProcess: gather, invoke and gate; then what was decided.       *)
RunOperation(s, r, k) ==
  \E d \in GateDecisions, confidence \in Confidences :
    LET e == Decide(k, d, confidence) IN
    /\ skill[r] = None
    /\ skill' = [skill EXCEPT ![r] = k]
    /\ Begin(s, "operate", e.action, r, e.roles)
    /\ UNCHANGED <<journals, bal, review, executed, trail, contended>>

RunRecord(s, at, next, outcome) ==
  /\ call[s].op \in {"operate", "resolve"} /\ call[s].at = at
  /\ trail' = [trail EXCEPT ![call[s].row] = @ \cup {outcome}]
  /\ IF next = "done" THEN Leave(s) ELSE Goto(s, next)
  /\ UNCHANGED <<journals, bal, skill, review, executed, contended>>

RunQueued(s) == RunRecord(s, "escalate", "review", "queued")

RunRejected(s) == RunRecord(s, "reject", "done", "rejected")

RunExecuted(s) == RunRecord(s, "record", "done", "executed")

QueueReview(s) ==
  /\ At(s, "operate", "review")
  /\ review' = [review EXCEPT ![call[s].row] =
       [status |-> "pending", roles |-> OrElse(call[s].saw, Defaults)]]
  /\ Leave(s)
  /\ UNCHANGED <<journals, bal, skill, executed, trail, contended>>

Execute(s, who, next) ==
  /\ executed' = [executed EXCEPT ![call[s].row] = @ \cup {who}]
  /\ Goto(s, next)
  /\ UNCHANGED <<journals, bal, skill, review, trail, contended>>

AutoExecute(s) == At(s, "operate", "approve") /\ Execute(s, "gate", "record")

-----------------------------------------------------------------------------
(* resolveInProcess: status and role are read, then an approval executes,  *)
(* then the trail is written, then the review is marked.                   *)
ActorCanResolve(role, roles) ==
  \/ role \in roles
  \/ role = "admin" /\ "ceo" \notin roles /\ roles \cap {"admin", "compliance"} # {}

Resolving(t, r) == call[t].op = "resolve" /\ call[t].row = r

Resolve(s, r, a) ==
  /\ review[r].status = "pending"
  /\ ActorCanResolve(RoleOf[a], review[r].roles)
  /\ \E at \in {"execute", "reject-run"} : Begin(s, "resolve", at, r, a)
  /\ contended' = IF \E t \in Slots : Resolving(t, r) THEN contended \cup {r} ELSE contended
  /\ UNCHANGED <<journals, bal, skill, review, executed, trail>>

ApproveExecute(s) == At(s, "resolve", "execute") /\ Execute(s, call[s].saw, "approve-run")

ApproveRecord(s) == RunRecord(s, "approve-run", "approved", "executed")

RejectRecord(s) == RunRecord(s, "reject-run", "rejected", "rejected")

ReviewMark(s) ==
  /\ call[s].op = "resolve" /\ call[s].at \in {"approved", "rejected"}
  /\ review' = [review EXCEPT ![call[s].row].status = call[s].at]
  /\ Leave(s)
  /\ UNCHANGED <<journals, bal, skill, executed, trail, contended>>

(* A resolver dies; if it had executed, the review is pending all the same. *)
OperationDies(s) ==
  /\ Dies(s)
  /\ contended' = contended \cup
       {r \in Runs : Resolving(s, r) /\ call[s].at \in {"approve-run", "approved"}}
  /\ UNCHANGED <<skill, review, executed, trail>>

-----------------------------------------------------------------------------
OperationsNext ==
  \E s \in Slots :
    \/ \E r \in Runs :
         \/ \E k \in Skills : RunOperation(s, r, k)
         \/ \E a \in Admins : Resolve(s, r, a)
    \/ RunQueued(s) \/ RunRejected(s) \/ RunExecuted(s) \/ QueueReview(s) \/ AutoExecute(s)
    \/ ApproveExecute(s) \/ ApproveRecord(s) \/ RejectRecord(s) \/ ReviewMark(s)
    \/ OperationDies(s)

OperationsSpec == OperationsInit /\ [][OperationsNext]_operationsVars

-----------------------------------------------------------------------------
(* Correctness *)

(* "agents decide; deterministic code executes; humans gate anything       *)
(* material": whatever gate, confidence and governance say, and whoever    *)
(* resolves at the same time, a supervised run is executed by people only, *)
(* and a CEO-gated one by the CEO or the chief of staff only               *)
(* (operationsWorkflow.ts:4, 194-203, 356, gatePolicy.ts:54, 77-85).       *)
HumansGate ==
  \A r \in Runs :
    /\ skill[r] \in Supervised \cup CeoGated => "gate" \notin executed[r]
    /\ skill[r] \in CeoGated => \A a \in executed[r] : RoleOf[a] \in CeoRoles

(* "On reject, nothing executes.  Either way a new append-only agent_run   *)
(* records the human's decision" (operationsWorkflow.ts:337-338): a review *)
(* that says approved was executed by a person and is on the trail, and    *)
(* one that says rejected is on the trail and was not executed.  The code  *)
(* (:349-384) keeps the last unless two people resolve the review side by  *)
(* side, or an approver died after the execution: contended.               *)
ReviewsTellTheTrail ==
  \A r \in Runs :
    /\ review[r].status = "approved" => executed[r] \cap Admins # {} /\ "executed" \in trail[r]
    /\ review[r].status = "rejected" =>
         "rejected" \in trail[r] /\ (r \notin contended => executed[r] = {})
    /\ "executed" \in trail[r] => executed[r] # {}

(* People decide what is theirs to decide, and the trail says so           *)
(* (operationsWorkflow.ts:194-203, 337-384, gatePolicy.ts:54-85).          *)
PeopleDecide == HumansGate /\ ReviewsTellTheTrail
=============================================================================
