----------------------------- MODULE Onboarding -----------------------------
(***************************************************************************)
(* Opening an account: backend/src/services/riskOrchestratorService.ts,    *)
(* its sub-agents (onboardingAgents.ts), the grant of a tier               *)
(* (identityService.ts) and the human review (adminService.ts), for one    *)
(* applicant; with the other callers of that grant, the simulated check    *)
(* (identityService.ts) and the KYC review (kycReviewSkill.ts).            *)
(*                                                                         *)
(* A submission reads the session, records a run of its agent, writes the  *)
(* confidence it computed from what it read, reads session and runs again, *)
(* decides, grants, and at last writes the status it decided on.  Nothing  *)
(* is locked in between.  Confidence is counted in steps of 0.05, the      *)
(* greatest common measure of the boosts, penalties and thresholds.        *)
(***************************************************************************)
EXTENDS Service, Functions, Sequences

CONSTANTS
  Assessments,  \* what signals and model may say: confidence, steps, weakest signal
  Threshold,    \* ONBOARDING_CONFIDENCE_THRESHOLD
  ReviewFloor,  \* ONBOARDING_REVIEW_FLOOR
  KycCallers,   \* who grants past the orchestrator: "simulated" unless in production
  MaxRows       \* bound on the rows in onboarding_sessions and onboarding_agent_runs

Steps == {"document", "possession"}

ASSUME OnboardingAssumption ==
  /\ Assessments \subseteq [confidence : 0..20, required : SUBSET Steps, weak : BOOLEAN]
  /\ Threshold \in 0..20 /\ ReviewFloor \in 0..Threshold
  /\ MaxRows \in Nat
  /\ KycCallers \subseteq {"simulated", "kyc-review"}
  /\ None \notin [by : {"human", "policy", "simulated"}, session : Nat \cup {None}]

VARIABLES
  session,   \* the sessions, oldest first: status, confidence, required, weak, runs
  grant,     \* who raised the tier to 2, and the profile's session, or None
  disturbed  \* sessions with overlapping or dead requests: a history variable

onboardingVars == <<journals, bal, call, session, grant, disturbed>>

OnboardingInit ==
  /\ ServiceInit
  /\ session = <<>>
  /\ grant = None
  /\ disturbed = {}

Terminal == {"approved", "rejected"}

-----------------------------------------------------------------------------
(* deriveStepState: the last run of a step that has ended counts.          *)
Ended(i, step) ==
  {n \in DOMAIN session[i].runs :
     session[i].runs[n].step = step /\ session[i].runs[n].status # "running"}

Pending(i) == {p \in session[i].required : Ended(i, p) = {}}

Failed(i) ==
  {p \in session[i].required :
     \E n \in Ended(i, p) : /\ session[i].runs[n].status = "failed"
                            /\ \A m \in Ended(i, p) : m <= n}

SanctionsBlocked(i) == \E r \in Range(session[i].runs) : r.blocked

(* finalizeDecision                                                        *)
VerdictTrusting(i) ==  \* faulty: confidence goes before the steps
  CASE SanctionsBlocked(i) -> "rejected"
    [] OTHER ->
       IF session[i].confidence >= Threshold /\ ~session[i].weak THEN "approved"
       ELSE IF Failed(i) # {} THEN "review_required"
       ELSE IF Pending(i) # {} THEN "awaiting_verification"
       ELSE IF session[i].confidence >= ReviewFloor THEN "review_required"
       ELSE "rejected"

Verdict(i) ==
  CASE SanctionsBlocked(i) -> "rejected"
    [] OTHER ->
       IF Failed(i) # {} THEN "review_required"
       ELSE IF Pending(i) # {} THEN "awaiting_verification"
       ELSE IF session[i].confidence >= Threshold /\ ~session[i].weak THEN "approved"
       ELSE IF session[i].confidence >= ReviewFloor THEN "review_required"
       ELSE "rejected"

-----------------------------------------------------------------------------
RowCount ==
  Len(session) + SumFunction([i \in DOMAIN session |-> Len(session[i].runs)])

About(i) == {s \in Slots : call[s] # Idle /\ call[s].row = i}

BeginOn(s, op, at, i, saw) ==
  /\ Begin(s, op, at, i, saw)
  /\ disturbed' = IF About(i) = {} THEN disturbed ELSE disturbed \cup {i}
  /\ UNCHANGED <<journals, bal, session, grant>>

(* startOnboarding: tier and last session are read; the row is inserted    *)
(* after signals and model have been asked.                                *)
StartOnboarding(s, a) ==
  /\ grant = None
  /\ session # <<>> => session[Len(session)].status \in Terminal
  /\ Begin(s, "onboard", "insert", None, a)
  /\ UNCHANGED <<journals, bal, session, grant, disturbed>>

InsertSession(s) ==
  /\ At(s, "onboard", "insert")
  /\ RowCount < MaxRows
  /\ LET a == call[s].saw IN
     session' = Append(session,
       [status |-> "assessing", confidence |-> a.confidence, required |-> a.required,
        weak |-> a.weak, runs |-> <<>>])
  /\ call' = [call EXCEPT ![s].at = "decide", ![s].row = Len(session) + 1, ![s].saw = None]
  /\ UNCHANGED <<journals, bal, grant, disturbed>>

(* submitDocument and submitPossession: the guard, and the agent's run.    *)
Outcomes(step) ==
  IF step = "document" THEN {"passed", "failed", "sanctioned"} ELSE {"passed", "failed"}

Clamped(n) == IF n < 0 THEN 0 ELSE IF n > 20 THEN 20 ELSE n

Change(step, outcome) ==
  CASE step = "document" /\ outcome = "passed" -> 7
    [] step = "document" /\ outcome # "passed" -> -4
    [] step = "possession" /\ outcome = "passed" -> 3
    [] step = "possession" /\ outcome # "passed" -> -3

Submit(s, step, outcome) ==
  LET i == Len(session) IN
  /\ i > 0
  /\ session[i].status = "awaiting_verification"
  /\ step \in Pending(i)
  /\ BeginOn(s, step, "start-run", i,
       [outcome |-> outcome, confidence |-> Clamped(session[i].confidence + Change(step, outcome)),
        run |-> 0])

Submitting(s, at) == call[s].op \in Steps /\ call[s].at = at

StartRun(s) ==
  LET i == call[s].row IN
  /\ Submitting(s, "start-run")
  /\ RowCount < MaxRows
  /\ session' = [session EXCEPT ![i].runs =
       Append(@, [step |-> call[s].op, status |-> "running", blocked |-> FALSE])]
  /\ call' = [call EXCEPT ![s].at = "finish-run", ![s].saw.run = Len(session[i].runs) + 1]
  /\ UNCHANGED <<journals, bal, grant, disturbed>>

FinishRun(s) ==
  LET outcome == call[s].saw.outcome IN
  /\ Submitting(s, "finish-run")
  /\ session' = [session EXCEPT ![call[s].row].runs[call[s].saw.run] =
       [@ EXCEPT !.status = IF outcome = "passed" THEN "passed" ELSE "failed",
                 !.blocked = outcome = "sanctioned"]]
  /\ Goto(s, "confidence")
  /\ UNCHANGED <<journals, bal, grant, disturbed>>

WriteConfidence(s) ==
  /\ Submitting(s, "confidence")
  /\ session' = [session EXCEPT ![call[s].row].confidence = call[s].saw.confidence]
  /\ Goto(s, "decide")
  /\ UNCHANGED <<journals, bal, grant, disturbed>>

-----------------------------------------------------------------------------
(* applyDecision: what it reads decides; a grant comes before the status.  *)
DecideSession(s) ==
  LET v == Verdict(call[s].row) IN
  /\ call[s].at = "decide"
  /\ call' = [call EXCEPT ![s].at = IF v = "approved" THEN "grant" ELSE "status",
                          ![s].saw = [verdict |-> v]]
  /\ UNCHANGED <<journals, bal, session, grant, disturbed>>

(* completeKycDecision: refused when the tier is 2 already; else, in a     *)
(* transaction that does not ask again, the tier is raised.                *)
ReadTier(s) ==
  /\ call[s].at = "grant"
  /\ IF grant = None THEN Goto(s, "raise") ELSE Leave(s)
  /\ UNCHANGED <<journals, bal, session, grant, disturbed>>

Grant(s) ==
  /\ call[s].at = "raise"
  /\ grant' = [by |-> IF call[s].op = "review" THEN "human" ELSE "policy", session |-> call[s].row]
  /\ Goto(s, "status")
  /\ UNCHANGED <<journals, bal, session, disturbed>>

(* The other callers of completeKycDecision, which read the tier too and   *)
(* have no session: a user completes the simulated check, or the KYC       *)
(* review is executed for the person that approved it.                     *)
OtherKyc(s, caller) ==
  /\ grant = None
  /\ Begin(s, caller, "complete", None, None)
  /\ UNCHANGED <<journals, bal, session, grant, disturbed>>

CompleteKyc(s) ==
  /\ call[s].at = "complete"
  /\ grant' = [by |-> IF call[s].op = "simulated" THEN "simulated" ELSE "human",
               session |-> IF grant = None THEN None ELSE grant.session]
  /\ Leave(s)
  /\ UNCHANGED <<journals, bal, session, disturbed>>

WriteStatus(s) ==
  /\ call[s].at = "status"
  /\ session' = [session EXCEPT ![call[s].row].status = call[s].saw.verdict]
  /\ Leave(s)
  /\ UNCHANGED <<journals, bal, grant, disturbed>>

(* decideReview: any session that waits for a review, whatever its age.    *)
Review(s, i, verdict) ==
  /\ session[i].status = "review_required"
  /\ BeginOn(s, "review", IF verdict = "approved" THEN "grant" ELSE "status", i,
             [verdict |-> verdict])

-----------------------------------------------------------------------------
OnboardingNext ==
  \E s \in Slots :
    \/ \E a \in Assessments : StartOnboarding(s, a)
    \/ \E step \in Steps : \E o \in Outcomes(step) : Submit(s, step, o)
    \/ \E i \in DOMAIN session : \E v \in Terminal : Review(s, i, v)
    \/ InsertSession(s) \/ StartRun(s) \/ FinishRun(s) \/ WriteConfidence(s)
    \/ DecideSession(s) \/ ReadTier(s) \/ Grant(s) \/ WriteStatus(s)
    \/ \E caller \in KycCallers : OtherKyc(s, caller)
    \/ CompleteKyc(s)
    \/ Dies(s) /\ disturbed' = disturbed \cup {call[s].row} /\ UNCHANGED <<session, grant>>

OnboardingSpec == OnboardingInit /\ [][OnboardingNext]_onboardingVars

-----------------------------------------------------------------------------
(* Correctness *)

(* A tier is raised by a person, or for a session each of whose steps an   *)
(* agent passed and that has no very weak signal, whatever the model's     *)
(* confidence and whichever submissions overlap (riskOrchestratorService.ts*)
(* :136-165, 257-284); or, where the simulated check is served, by the     *)
(* applicant alone (identityService.ts:240-245), although finalizeDecision *)
(* "is the ONLY place a tier grant is authorized" (:12).                   *)
GrantsNeedEvidence ==
  /\ \A i \in DOMAIN session : session[i].status = "approved" => grant # None
  /\ grant # None =>
       \/ grant.by = "human"
       \/ grant.by = "simulated" /\ "simulated" \in KycCallers
       \/ /\ ~session[grant.session].weak
          /\ \A p \in session[grant.session].required :
               \E r \in Range(session[grant.session].runs) : r.step = p /\ r.status = "passed"

(* An applicant is not left with nothing to do: a session that waits for a *)
(* verification has a step to submit, unless two requests about it were    *)
(* served at once or one died; then the last writer may put back           *)
(* awaiting_verification, and nothing takes the session out of it.  Of two *)
(* sessions that were started at once, the one that did not raise the tier *)
(* is left behind (riskOrchestratorService.ts:279-284, 313-316, 377-390).  *)
WaitingHasStep ==
  \A i \in DOMAIN session :
    /\ session[i].status = "awaiting_verification"
    /\ i \notin disturbed /\ About(i) = {} /\ grant = None
    => Pending(i) # {}
=============================================================================
