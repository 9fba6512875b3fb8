------------------------------ MODULE Journeys ------------------------------
(***************************************************************************)
(* The journey runner, backend/src/journeys/journeyRunner.ts, on the       *)
(* journey that the repository seeds (onboardingJourney.ts), with the step *)
(* handlers of stepRegistry.ts.                                            *)
(*                                                                         *)
(* A submission loads the run with its context, walks the steps in memory  *)
(* writing the trail as it goes, and stores status, step and context in    *)
(* one UPDATE at the next pause.  Two submissions of one run each walk on  *)
(* a copy; the one that stores last wins.                                  *)
(***************************************************************************)
EXTENDS Service

CONSTANTS RiskDecisions  \* what the risk node may decide: "approve", "review", "deny"

ASSUME JourneysAssumption == RiskDecisions \subseteq {"approve", "review", "deny"}

VARIABLES
  journey,  \* the row: status, current step, and the context's risk, review, outcome
  steps,    \* step ids in journey_steps
  shared    \* TRUE once two requests were served at once: a history variable

journeyVars == <<journals, bal, call, journey, steps, shared>>

Context(risk, reviewed, outcome) == [risk |-> risk, review |-> reviewed, outcome |-> outcome]

JourneyInit ==
  /\ ServiceInit
  /\ journey = [status |-> "none", step |-> None, context |-> Context(None, None, None)]
  /\ steps = {}
  /\ shared = FALSE

-----------------------------------------------------------------------------
(* The steps' types; where pickNext goes on from them, by the context.     *)
Kind(step) ==
  CASE step \in {"collect_identity", "consent"} -> "await"
    [] step = "manual_review" -> "review"
    [] step \in {"approved", "rejected"} -> "done"
    [] step \in {"verify_document", "kyc_risk"} -> "continue"

NextStepLenient(step, ctx) ==  \* faulty: only a refusal leaves the way to approval
  CASE step = "collect_identity" -> "verify_document"
    [] step = "verify_document" -> "kyc_risk"
    [] step = "kyc_risk" -> IF ctx.risk = "deny" THEN "rejected" ELSE "consent"
    [] step = "manual_review" -> IF ctx.review = "approve" THEN "consent" ELSE "rejected"
    [] step = "consent" -> "approved"

NextStep(step, ctx) ==
  CASE step = "collect_identity" -> "verify_document"
    [] step = "verify_document" -> "kyc_risk"
    [] step = "kyc_risk" ->
         (CASE ctx.risk = "deny" -> "rejected"
            [] ctx.risk = "review" -> "manual_review"
            [] ctx.risk = "approve" -> "consent")
    [] step = "manual_review" -> IF ctx.review = "approve" THEN "consent" ELSE "rejected"
    [] step = "consent" -> "approved"

-----------------------------------------------------------------------------
Walk(s, step, ctx) ==
  /\ Begin(s, "journey", "step", step, ctx)
  /\ shared' = (shared \/ \E t \in Slots : call[t].op = "journey")

StartJourney(s) ==
  /\ journey.status = "none"
  /\ Walk(s, "collect_identity", journey.context)
  /\ journey' = [journey EXCEPT !.status = "running", !.step = "collect_identity"]
  /\ UNCHANGED <<journals, bal, steps>>

(* submitStep; what the screen adds to the data is seen by the risk node.  *)
SubmitStep(s) ==
  /\ journey.status = "awaiting_input"
  /\ Walk(s, NextStep(journey.step, journey.context), journey.context)
  /\ UNCHANGED <<journals, bal, journey, steps>>

(* resolveReview                                                           *)
ResolveReview(s, decision) ==
  LET ctx == [journey.context EXCEPT !.review = decision] IN
  /\ journey.status = "awaiting_review"
  /\ Walk(s, NextStep(journey.step, ctx), ctx)
  /\ UNCHANGED <<journals, bal, journey, steps>>

(* advance: a step runs, is written on the trail and patches the context.  *)
StepRun(s) ==
  LET step == call[s].row
      ctx == call[s].saw
  IN
  /\ At(s, "journey", "step")
  /\ steps' = steps \cup {step}
  /\ \E decision \in IF step = "kyc_risk" THEN RiskDecisions ELSE {ctx.risk} :
       LET patched == [ctx EXCEPT !.risk = decision,
                                  !.outcome = IF Kind(step) = "done" THEN step ELSE @]
       IN
       call' = [call EXCEPT ![s] =
         IF Kind(step) = "continue"
           THEN Request("journey", "step", NextStep(step, patched), patched)
           ELSE Request("journey", "persist", step, patched)]
  /\ UNCHANGED <<journals, bal, journey, shared>>

Persist(s) ==
  LET step == call[s].row IN
  /\ At(s, "journey", "persist")
  /\ journey' = [status |-> CASE Kind(step) = "await" -> "awaiting_input"
                              [] Kind(step) = "review" -> "awaiting_review"
                              [] Kind(step) = "done" -> "completed",
                 step |-> step, context |-> call[s].saw]
  /\ Leave(s)
  /\ UNCHANGED <<journals, bal, steps, shared>>

-----------------------------------------------------------------------------
JourneyNext ==
  \E s \in Slots :
    \/ StartJourney(s) \/ SubmitStep(s) \/ StepRun(s) \/ Persist(s)
    \/ \E d \in {"approve", "reject"} : ResolveReview(s, d)
    \/ Dies(s) /\ UNCHANGED <<journey, steps, shared>>

JourneySpec == JourneyInit /\ [][JourneyNext]_journeyVars

-----------------------------------------------------------------------------
(* Correctness *)

(* However submissions and reviews overlap, an outcome follows from the    *)
(* context it is stored with: approved needs the risk node's approval or a *)
(* reviewer's, after the applicant's consent, and every step that led to   *)
(* it is on the trail (journeyRunner.ts:74-112, onboardingJourney.ts:      *)
(* 50-89).                                                                 *)
OutcomeFollowsContext ==
  LET ctx == journey.context IN
  journey.status = "completed" =>
    /\ ctx.outcome = journey.step
    /\ journey.step = "approved" =>
         /\ ctx.risk = "approve" \/ (ctx.risk = "review" /\ ctx.review = "approve")
         /\ {"kyc_risk", "consent"} \subseteq steps
    /\ journey.step = "rejected" =>
         ctx.risk = "deny" \/ (ctx.risk = "review" /\ ctx.review = "reject")
    /\ journey.step \in steps

(* A completed run stays as it is, unless two requests were served at      *)
(* once: the slower of two submissions stores its pause over the outcome   *)
(* (journeyRunner.ts:51-58, 143-150).                                      *)
CompletedUnlessShared ==
  journey.status = "completed" /\ ~shared => \A s \in Slots : call[s] = Idle

(* A journey's outcome follows from what it was told, and stays            *)
(* (journeyRunner.ts:51-58, 74-112, 143-160).                              *)
JourneySound == OutcomeFollowsContext /\ CompletedUnlessShared
=============================================================================
