---------------------------- MODULE Services_proofs ----------------------------
(***************************************************************************)
(* Proofs about the services that Products composes, each of them for any  *)
(* number of rows, people and requests at once: payment requests, bills,   *)
(* Journeys, Exchange, Yield, Drops, Raise, Trading, Lending and           *)
(* OrderBook.  What runs beside them is proved of in Rails_proofs.         *)
(***************************************************************************)
EXTENDS
  BillPay, Journeys, Exchange, Yield, Drops, Raise, Trading, Lending, OrderBook,
  Rails_proofs, FiniteSetTheorems, TLAPS

-----------------------------------------------------------------------------
(* PaymentRequests: a request is closed once.                              *)

(* A call has read an existing row, and one that is about to write         *)
(* fulfilled has its money behind it.                                      *)
AskCall(c) ==
  /\ c.op = "fulfill" => c.row \in Asks /\ c.saw \in Payers
  /\ c.op = "fulfill" /\ c.at = "update" => Paid(c.row)
  /\ c.op = "decline" => c.row \in Asks /\ c.saw \in {"declined", "canceled"}

AskCalls == \A s \in Slots : AskCall(call[s])

AskRequests ==
  [op : {"idle", "fulfill", "decline"}, at : {"idle", "transfer", "update"},
   row : Asks \cup {None}, saw : Payers \cup {"declined", "canceled", None}]

AskTypeOK ==
  /\ LedgerTypeOK
  /\ ask \in [Asks -> [status : AskStatuses, by : Payers \cup {None}]]
  /\ call \in [Slots -> AskRequests]

FulfilledIsPaid == \A q \in Asks : ask[q].status = "fulfilled" => Paid(q)

PayersKeepCash == \A p \in Payers : bal[p] >= 0

AskInv == AskTypeOK /\ AskCalls /\ FulfilledIsPaid /\ PayersKeepCash

LEMMA AskInitInv == PaymentRequestsInit => AskInv
<1> SUFFICES ASSUME PaymentRequestsInit PROVE AskInv
  OBVIOUS
<1> USE PaymentRequestsAssumption, OpeningAssumption
    DEF PaymentRequestsInit, ServiceInit, LedgerInit, Idle, Request
<1>1. LedgerTypeOK
  BY DEF LedgerTypeOK, Effects
<1>2. AskTypeOK
  BY <1>1 DEF AskTypeOK, AskRow, AskStatuses, AskRequests
<1>3. AskCalls /\ FulfilledIsPaid /\ PayersKeepCash
  BY DEF AskCalls, AskCall, FulfilledIsPaid, AskRow, PayersKeepCash
<1> QED
  BY <1>2, <1>3 DEF AskInv

(* A step that only goes on with a call, or ends it.                       *)
LEMMA AskCallGoesOn ==
  ASSUME AskInv, UNCHANGED <<journals, bal, ask>>, NEW s \in Slots, NEW c \in AskRequests,
         AskCall(c), call' = [call EXCEPT ![s] = c]
  PROVE  AskInv'
<1> USE DEF AskInv, AskTypeOK
<1>1. AskTypeOK'
  BY DEF LedgerTypeOK
<1>2. \A q : Paid(q) => Paid(q)'
  BY DEF Paid, Posted
<1>3. AskCalls'
  BY <1>2 DEF AskCalls, AskCall
<1>4. FulfilledIsPaid' /\ PayersKeepCash'
  BY <1>2 DEF FulfilledIsPaid, PayersKeepCash
<1> QED
  BY <1>1, <1>3, <1>4

LEMMA AskCallEnds ==
  ASSUME AskInv, UNCHANGED <<journals, bal, ask>>, NEW s \in Slots, Leave(s)
  PROVE  AskInv'
<1>1. Idle \in AskRequests /\ AskCall(Idle)
  BY DEF Idle, Request, AskRequests, AskCall
<1> QED
  BY <1>1, AskCallGoesOn DEF Leave

(* A transfer needs the cash it takes, or was posted before.               *)
LEMMA AskTransferInv ==
  ASSUME AskInv, NEW s \in Slots, AskTransfer(s)
  PROVE  AskInv'
<1> USE DEF AskInv, AskTypeOK
<1>1. PICK q \in Asks, p \in Payers : call[s].row = q /\ call[s].saw = p
  BY DEF AskTransfer, AskCalls, AskCall, At
<1>2. At(s, "fulfill", "transfer") /\ UNCHANGED <<ask, aged>>
  BY DEF AskTransfer
<1>3. CASE Paid(q) \/ bal[p] >= AskAmount[q]
  <2>1. PostJournal(<<"p2p", q>>, Move(p, Requester, AskAmount[q])) /\ Goto(s, "update")
    BY <1>1, <1>3 DEF AskTransfer
  <2>2. AskAmount[q] \in Nat \ {0} /\ Requester \notin Payers
    BY PaymentRequestsAssumption
  <2>3. Move(p, Requester, AskAmount[q]) \in Effects
    BY <2>2, MoveType
  <2>4. LedgerTypeOK' /\ DOMAIN journals' = DOMAIN journals \cup {<<"p2p", q>>}
    BY <2>1, <2>3, PostAny
  <2>5. Paid(q)' /\ \A r : Paid(r) => Paid(r)'
    BY <2>4 DEF Paid, Posted
  <2>6. PayersKeepCash'
    <3>1. CASE Posted(<<"p2p", q>>)
      BY <2>1, <3>1 DEF PostJournal, ledgerVars, PayersKeepCash
    <3>2. CASE ~Posted(<<"p2p", q>>)
      <4>1. bal[p] >= AskAmount[q]
        BY <1>3, <3>2 DEF Paid
      <4>2. \A a \in Accounts : bal'[a] = bal[a] + Move(p, Requester, AskAmount[q])[a]
        BY <2>1, <2>3, <3>2, PostFresh
      <4>3. bal \in [Accounts -> Int] /\ Payers \subseteq Accounts
        BY PaymentRequestsAssumption DEF LedgerTypeOK, Effects
      <4>4. ASSUME NEW u \in Payers PROVE bal'[u] >= 0
        BY <2>2, <4>1, <4>2, <4>3 DEF Move, PayersKeepCash
      <4> QED
        BY <4>4 DEF PayersKeepCash
    <3> QED
      BY <3>1, <3>2
  <2>7. call' = [call EXCEPT ![s].at = "update"] /\ call[s].op = "fulfill"
    BY <1>2, <2>1 DEF Goto, At
  <2>8. AskTypeOK'
    BY <1>2, <2>4, <2>7 DEF AskRequests
  <2>9. AskCalls'
    BY <1>1, <2>5, <2>7 DEF AskCalls, AskCall, AskRequests
  <2>10. FulfilledIsPaid'
    BY <1>2, <2>5 DEF FulfilledIsPaid
  <2> QED
    BY <2>6, <2>8, <2>9, <2>10
<1>4. CASE ~(Paid(q) \/ bal[p] >= AskAmount[q])
  <2>1. UNCHANGED <<journals, bal, ask>> /\ Leave(s)
    BY <1>1, <1>4 DEF AskTransfer, ledgerVars
  <2> QED
    BY <2>1, AskCallEnds
<1> QED
  BY <1>3, <1>4

(* An update closes a row that is open.                                    *)
LEMMA AskUpdateInv ==
  ASSUME AskInv, NEW s \in Slots, AskUpdate(s) \/ CloseUpdate(s)
  PROVE  AskInv'
<1> USE DEF AskInv, AskTypeOK
<1>1. PICK q \in Asks, status \in {"fulfilled", "declined", "canceled"}, by \in Payers \cup {None} :
        Close(q, status, by) /\ (status = "fulfilled" => Paid(q))
  BY DEF AskUpdate, CloseUpdate, AskCalls, AskCall, At
<1>2. Leave(s) /\ UNCHANGED <<journals, bal>>
  BY DEF AskUpdate, CloseUpdate
<1>3. ask' \in [Asks -> [status : AskStatuses, by : Payers \cup {None}]]
  BY <1>1 DEF Close, AskRow, AskStatuses
<1>4. \A r : Paid(r) => Paid(r)'
  BY <1>2 DEF Paid, Posted
<1>5. FulfilledIsPaid'
  BY <1>1, <1>4 DEF Close, AskRow, FulfilledIsPaid
<1>6. call' \in [Slots -> AskRequests] /\ AskCalls'
  BY <1>2, <1>4 DEF Leave, Idle, Request, AskRequests, AskCalls, AskCall
<1> QED
  BY <1>2, <1>3, <1>5, <1>6 DEF LedgerTypeOK, PayersKeepCash

LEMMA AskStepInv == AskInv /\ [PaymentRequestsNext]_askVars => AskInv'
<1> SUFFICES ASSUME AskInv, [PaymentRequestsNext]_askVars PROVE AskInv'
  OBVIOUS
<1>1. ASSUME UNCHANGED <<journals, bal, call, ask>> PROVE AskInv'
  BY <1>1 DEF AskInv, AskTypeOK, LedgerTypeOK, AskCalls, AskCall, Paid, Posted,
              FulfilledIsPaid, PayersKeepCash
<1>2. ASSUME NEW s \in Slots, NEW q \in Asks, NEW p \in Payers, Fulfill(s, q, p) PROVE AskInv'
  <2>1. Request("fulfill", "transfer", q, p) \in AskRequests
        /\ AskCall(Request("fulfill", "transfer", q, p))
    BY DEF Request, AskRequests, AskCall
  <2> QED
    BY <1>2, <2>1, AskCallGoesOn DEF Fulfill, Begin
<1>3. ASSUME NEW s \in Slots, NEW q \in Asks, Decline(s, q) \/ CancelAsk(s, q) PROVE AskInv'
  <2>1. PICK status \in {"declined", "canceled"} :
          /\ call' = [call EXCEPT ![s] = Request("decline", "update", q, status)]
          /\ UNCHANGED <<journals, bal, ask>>
    BY <1>3 DEF Decline, CancelAsk, Begin
  <2>2. Request("decline", "update", q, status) \in AskRequests
        /\ AskCall(Request("decline", "update", q, status))
    BY DEF Request, AskRequests, AskCall
  <2> QED
    BY <2>1, <2>2, AskCallGoesOn
<1>4. ASSUME NEW s \in Slots, AskTransfer(s) PROVE AskInv'
  BY <1>4, AskTransferInv
<1>5. ASSUME NEW s \in Slots, AskUpdate(s) \/ CloseUpdate(s) PROVE AskInv'
  BY <1>5, AskUpdateInv
<1>6. ASSUME NEW s \in Slots, Dies(s), UNCHANGED <<ask, aged>> PROVE AskInv'
  BY <1>6, AskCallEnds DEF Dies, ledgerVars
<1> QED
  BY <1>1, <1>2, <1>3, <1>4, <1>5, <1>6 DEF PaymentRequestsNext, Age, askVars

(* What closes a request finds it open, and closes it as fulfilled only    *)
(* behind its money.                                                       *)
LEMMA AskStepCloses ==
  ASSUME AskInv, [PaymentRequestsNext]_askVars, NEW q \in Asks
  PROVE  /\ ask[q].status # "requested" => ask'[q] = ask[q]
         /\ ask'[q].status = "fulfilled" => Paid(q)
<1> USE DEF AskInv, AskTypeOK
<1>1. CASE ask' = ask
  BY <1>1 DEF FulfilledIsPaid
<1>2. ASSUME NEW s \in Slots, AskUpdate(s) \/ CloseUpdate(s)
      PROVE  /\ ask[q].status # "requested" => ask'[q] = ask[q]
             /\ ask'[q].status = "fulfilled" => Paid(q)
  BY <1>2 DEF AskUpdate, CloseUpdate, Close, AskRow, AskCalls, AskCall, At, FulfilledIsPaid
<1> QED
  BY <1>1, <1>2 DEF PaymentRequestsNext, Age, Fulfill, AskTransfer, Decline, CancelAsk, askVars

(* A request is closed once, for any number of requests, payers and calls  *)
(* (paymentRequestService.ts:139-152, 160-162, 172-173).                   *)
THEOREM RequestsClosedOnce == PaymentRequestsSpec => RequestClosedOnce
<1>1. AskInv /\ [PaymentRequestsNext]_askVars =>
        [\A q \in Asks :
           /\ ask[q].status # "requested" => ask'[q] = ask[q]
           /\ ask'[q].status = "fulfilled" => Paid(q) /\ \A p \in Payers : bal[p] >= 0]_askVars
  BY AskStepCloses DEF AskInv, PayersKeepCash
<1> QED
  BY <1>1, AskInitInv, AskStepInv, PTL DEF PaymentRequestsSpec, RequestClosedOnce

-----------------------------------------------------------------------------
(* Journeys: an outcome follows from what the run was told.                *)

JourneySteps == {"collect_identity", "verify_document", "kyc_risk", "manual_review",
                 "consent", "approved", "rejected"}

Contexts == [risk : RiskDecisions \cup {None}, review : {"approve", "reject", None},
             outcome : {"approved", "rejected", None}]

(* What a step may follow from: the risk node has run before a reviewer    *)
(* and before the consent, and an outcome has its reasons.                 *)
Cleared(ctx) == ctx.risk = "approve" \/ (ctx.risk = "review" /\ ctx.review = "approve")

Reached(step, ctx, ran) ==
  /\ step = "manual_review" => ctx.risk = "review" /\ "kyc_risk" \in ran
  /\ step \in {"consent", "approved"} => Cleared(ctx) /\ "kyc_risk" \in ran
  /\ step = "approved" => "consent" \in ran
  /\ step = "rejected" =>
       ctx.risk = "deny" \/ (ctx.risk = "review" /\ ctx.review = "reject")

(* A pause: its step has run, and an outcome is the step it ended with.    *)
Paused(step, ctx, ran) ==
  /\ Reached(step, ctx, ran) /\ step \in ran
  /\ step \notin {"verify_document", "kyc_risk"}
  /\ step \in {"approved", "rejected"} => ctx.outcome = step

JourneyRequests ==
  [op : {"journey"}, at : {"step", "persist"}, row : JourneySteps, saw : Contexts]

JourneyTypeOK ==
  /\ \A s \in Slots : call[s] = Idle \/ call[s] \in JourneyRequests
  /\ DOMAIN call = Slots
  /\ journey \in [status : {"none", "running", "awaiting_input", "awaiting_review", "completed"},
                  step : JourneySteps \cup {None}, context : Contexts]
  /\ steps \subseteq JourneySteps
  /\ shared \in BOOLEAN

JourneyRow ==
  /\ journey.status \in {"awaiting_input", "awaiting_review", "completed"} =>
       /\ journey.step \in JourneySteps /\ Paused(journey.step, journey.context, steps)
  /\ journey.status = "awaiting_input" => journey.step \in {"collect_identity", "consent"}
  /\ journey.status = "awaiting_review" => journey.step = "manual_review"
  /\ journey.status = "completed" => journey.step \in {"approved", "rejected"}

JourneyCall(c) ==
  c.op = "journey" =>
    /\ c.at = "step" => Reached(c.row, c.saw, steps)
    /\ c.at = "persist" => Paused(c.row, c.saw, steps)

(* Before two requests were served at once there is at most one, and none  *)
(* once the run is completed.                                              *)
ServedAlone ==
  ~shared =>
    /\ \A s, t \in Slots : call[s] # Idle /\ call[t] # Idle => s = t
    /\ journey.status = "completed" => \A s \in Slots : call[s] = Idle

JourneyInv ==
  /\ JourneyTypeOK
  /\ JourneyRow
  /\ \A s \in Slots : JourneyCall(call[s])
  /\ ServedAlone

LEMMA JourneyInitInv == JourneyInit => JourneyInv
<1> SUFFICES ASSUME JourneyInit PROVE JourneyInv
  OBVIOUS
<1> USE DEF JourneyInit, ServiceInit, Idle, Request, Context
<1>1. JourneyTypeOK
  BY DEF JourneyTypeOK, Contexts
<1>2. JourneyRow /\ (\A s \in Slots : JourneyCall(call[s])) /\ ServedAlone
  BY DEF JourneyRow, JourneyCall, ServedAlone
<1> QED
  BY <1>1, <1>2 DEF JourneyInv

(* The next step is one that may follow (onboardingJourney.ts:50-89).      *)
LEMMA NextStepReached ==
  ASSUME NEW step \in JourneySteps, NEW ctx \in Contexts, NEW ran,
         Reached(step, ctx, ran), step \in ran, step \notin {"approved", "rejected"},
         step = "kyc_risk" => ctx.risk \in RiskDecisions,
         step = "manual_review" => ctx.review \in {"approve", "reject"}
  PROVE  NextStep(step, ctx) \in JourneySteps /\ Reached(NextStep(step, ctx), ctx, ran)
<1>1. CASE step = "collect_identity"
  BY <1>1 DEF NextStep, JourneySteps, Reached
<1>2. CASE step = "verify_document"
  BY <1>2 DEF NextStep, JourneySteps, Reached
<1>3. CASE step = "kyc_risk"
  <2>1. ctx.risk \in {"approve", "review", "deny"}
    BY <1>3, JourneysAssumption
  <2>2. /\ ctx.risk = "approve" => NextStep(step, ctx) = "consent"
        /\ ctx.risk = "review" => NextStep(step, ctx) = "manual_review"
        /\ ctx.risk = "deny" => NextStep(step, ctx) = "rejected"
    BY <1>3 DEF NextStep
  <2> QED
    BY <1>3, <2>1, <2>2 DEF JourneySteps, Reached, Cleared
<1>4. CASE step = "manual_review"
  <2>1. NextStep(step, ctx) = IF ctx.review = "approve" THEN "consent" ELSE "rejected"
    BY <1>4 DEF NextStep
  <2> QED
    BY <1>4, <2>1 DEF JourneySteps, Reached, Cleared
<1>5. CASE step = "consent"
  BY <1>5 DEF NextStep, JourneySteps, Reached
<1> QED
  BY <1>1, <1>2, <1>3, <1>4, <1>5 DEF JourneySteps

(* A submission walks on a copy of the context, beginning with a step that *)
(* may follow the pause.                                                   *)
LEMMA WalkInv ==
  ASSUME JourneyInv, NEW s \in Slots, NEW step \in JourneySteps, NEW ctx \in Contexts,
         Walk(s, step, ctx), Reached(step, ctx, steps), steps' = steps,
         journey' = journey \/ journey' = [journey EXCEPT !.status = "running", !.step = "collect_identity"],
         journey.status # "completed"
  PROVE  JourneyInv'
<1>1. PICK c : c = Request("journey", "step", step, ctx)
  OBVIOUS
<1>2. call' = [call EXCEPT ![s] = c] /\ call[s] = Idle
  BY <1>1 DEF Walk, Begin
<1>3. \A t \in Slots : call'[t] = IF t = s THEN c ELSE call[t]
  BY <1>2 DEF JourneyInv, JourneyTypeOK
<1>4. journey'.status \in {"none", "running", "awaiting_input", "awaiting_review", "completed"}
      /\ journey'.status # "completed"
  BY DEF JourneyInv, JourneyTypeOK
<1>5. JourneyTypeOK'
  <2>1. c \in JourneyRequests
    BY <1>1 DEF Request, JourneyRequests
  <2>2. shared' \in BOOLEAN
    BY DEF Walk, JourneyInv, JourneyTypeOK
  <2>3. journey' \in [status : {"none", "running", "awaiting_input", "awaiting_review", "completed"},
                      step : JourneySteps \cup {None}, context : Contexts]
    BY DEF JourneyInv, JourneyTypeOK, JourneySteps
  <2> QED
    BY <1>2, <1>3, <2>1, <2>2, <2>3 DEF JourneyInv, JourneyTypeOK
<1>6. JourneyRow'
  <2>1. CASE journey' = journey
    BY <2>1 DEF JourneyInv, JourneyRow
  <2>2. CASE journey' = [journey EXCEPT !.status = "running", !.step = "collect_identity"]
    <3>1. journey'.status = "running"
      BY <2>2 DEF JourneyInv, JourneyTypeOK
    <3> QED
      BY <3>1 DEF JourneyRow
  <2> QED
    BY <2>1, <2>2
<1>7. \A t \in Slots : JourneyCall(call[t])'
  <2>1. c.row = step /\ c.saw = ctx /\ c.at = "step"
    BY <1>1 DEF Request
  <2> QED
    BY <1>3, <2>1 DEF JourneyInv, JourneyCall
<1>8. ServedAlone'
  <2>1. ~shared' => \A t \in Slots : call[t].op # "journey"
    BY DEF Walk
  <2>2. \A t \in Slots : call[t].op # "journey" => call[t] = Idle
    BY DEF JourneyInv, JourneyTypeOK, JourneyRequests
  <2> QED
    BY <1>3, <1>4, <2>1, <2>2 DEF ServedAlone
<1> QED
  BY <1>5, <1>6, <1>7, <1>8 DEF JourneyInv

LEMMA SubmissionsInv ==
  ASSUME JourneyInv, NEW s \in Slots,
         \/ StartJourney(s) \/ SubmitStep(s)
         \/ \E d \in {"approve", "reject"} : ResolveReview(s, d)
  PROVE  JourneyInv'
<1>1. CASE StartJourney(s)
  <2>1. journey.context \in Contexts
    BY DEF JourneyInv, JourneyTypeOK
  <2>2. "collect_identity" \in JourneySteps /\ Reached("collect_identity", journey.context, steps)
    BY DEF JourneySteps, Reached
  <2>3. PICK ctx \in Contexts : ctx = journey.context
    BY <2>1
  <2> QED
    BY <1>1, <2>2, <2>3, WalkInv DEF StartJourney
<1>2. CASE SubmitStep(s)
  <2>1. PICK step \in JourneySteps, ctx \in Contexts : step = journey.step /\ ctx = journey.context
    BY <1>2 DEF SubmitStep, JourneyInv, JourneyTypeOK, JourneyRow
  <2>2. Paused(step, ctx, steps) /\ step \in {"collect_identity", "consent"}
    BY <1>2, <2>1 DEF SubmitStep, JourneyInv, JourneyRow
  <2>3. PICK next \in JourneySteps : next = NextStep(step, ctx) /\ Reached(next, ctx, steps)
    BY <2>2, NextStepReached DEF Paused
  <2>4. Walk(s, next, ctx) /\ UNCHANGED <<journey, steps>> /\ journey.status # "completed"
    BY <1>2, <2>1, <2>3 DEF SubmitStep
  <2> QED
    BY <2>3, <2>4, WalkInv
<1>3. ASSUME NEW d \in {"approve", "reject"}, ResolveReview(s, d) PROVE JourneyInv'
  <2>1. journey.status = "awaiting_review" /\ journey.step = "manual_review"
        /\ Paused(journey.step, journey.context, steps)
    BY <1>3 DEF ResolveReview, JourneyInv, JourneyRow
  <2>2. PICK ctx \in Contexts : ctx = [journey.context EXCEPT !.review = d]
    BY DEF JourneyInv, JourneyTypeOK, Contexts
  <2>3. ctx.review = d /\ ctx.risk = journey.context.risk
    BY <2>2 DEF JourneyInv, JourneyTypeOK, Contexts
  <2>4. Reached("manual_review", ctx, steps) /\ "manual_review" \in steps
    BY <2>1, <2>3 DEF Paused, Reached
  <2>5. PICK next \in JourneySteps : next = NextStep("manual_review", ctx) /\ Reached(next, ctx, steps)
    BY <2>3, <2>4, NextStepReached DEF JourneySteps
  <2>6. Walk(s, next, ctx) /\ UNCHANGED <<journey, steps>> /\ journey.status # "completed"
    BY <1>3, <2>1, <2>2, <2>5 DEF ResolveReview
  <2> QED
    BY <2>5, <2>6, WalkInv
<1> QED
  BY <1>1, <1>2, <1>3

(* What has been reached stays so while the trail grows.                   *)
LEMMA TrailGrows ==
  ASSUME NEW step, NEW ctx, NEW ran, NEW more, ran \subseteq more
  PROVE  /\ Reached(step, ctx, ran) => Reached(step, ctx, more)
         /\ Paused(step, ctx, ran) => Paused(step, ctx, more)
BY DEF Reached, Paused

LEMMA StepRunInv ==
  ASSUME JourneyInv, NEW s \in Slots, StepRun(s)
  PROVE  JourneyInv'
<1>1. PICK c \in JourneyRequests : c = call[s] /\ c.at = "step"
  BY DEF StepRun, At, JourneyInv, JourneyTypeOK, Idle, Request
<1>2. PICK step \in JourneySteps, ctx \in Contexts : step = c.row /\ ctx = c.saw
  BY DEF JourneyRequests
<1>3. PICK ran : ran = steps \cup {step}
  OBVIOUS
<1>4. steps' = ran /\ steps \subseteq ran /\ step \in ran
  BY <1>1, <1>2, <1>3 DEF StepRun
<1>5. Reached(step, ctx, ran)
  <2>1. Reached(step, ctx, steps)
    BY <1>1, <1>2 DEF JourneyInv, JourneyCall, JourneyRequests
  <2> QED
    BY <1>4, <2>1, TrailGrows
<1>6. PICK decision \in RiskDecisions \cup {None} :
        /\ step = "kyc_risk" => decision \in RiskDecisions
        /\ step # "kyc_risk" => decision = ctx.risk
        /\ call' = [call EXCEPT ![s] =
             LET patched == [ctx EXCEPT !.risk = decision,
                                        !.outcome = IF Kind(step) = "done" THEN step ELSE @]
             IN IF Kind(step) = "continue"
                  THEN Request("journey", "step", NextStep(step, patched), patched)
                  ELSE Request("journey", "persist", step, patched)]
  BY <1>1, <1>2 DEF StepRun, Contexts
<1>7. PICK patched \in Contexts :
        patched = [ctx EXCEPT !.risk = decision, !.outcome = IF Kind(step) = "done" THEN step ELSE @]
  BY DEF Kind, Contexts, JourneySteps
<1>8. /\ patched.risk = decision /\ patched.review = ctx.review
      /\ step \in {"approved", "rejected"} => patched.outcome = step
  BY <1>7 DEF Kind, Contexts
<1>9. Reached(step, patched, ran)
  BY <1>5, <1>6, <1>8 DEF Reached, Cleared
<1>10. PICK d \in JourneyRequests :
         /\ call' = [call EXCEPT ![s] = d]
         /\ d.at = "step" => Reached(d.row, d.saw, ran)
         /\ d.at = "persist" => Paused(d.row, d.saw, ran)
  <2>1. CASE step \in {"verify_document", "kyc_risk"}
    <3>1. PICK next \in JourneySteps : next = NextStep(step, patched) /\ Reached(next, patched, ran)
      BY <1>4, <1>6, <1>8, <1>9, <2>1, NextStepReached
    <3>2. call' = [call EXCEPT ![s] = Request("journey", "step", next, patched)]
      BY <1>6, <1>7, <2>1, <3>1 DEF Kind
    <3>3. PICK d : d = Request("journey", "step", next, patched)
      OBVIOUS
    <3>4. d \in JourneyRequests /\ d.at = "step" /\ d.row = next /\ d.saw = patched
      BY <3>3 DEF Request, JourneyRequests
    <3> QED
      BY <3>1, <3>2, <3>3, <3>4
  <2>2. CASE step \notin {"verify_document", "kyc_risk"}
    <3>1. Kind(step) # "continue"
      BY <2>2 DEF Kind, JourneySteps
    <3>2. call' = [call EXCEPT ![s] = Request("journey", "persist", step, patched)]
      BY <1>6, <1>7, <3>1
    <3>3. Paused(step, patched, ran)
      BY <1>4, <1>8, <1>9, <2>2 DEF Paused
    <3>4. PICK d : d = Request("journey", "persist", step, patched)
      OBVIOUS
    <3>5. d \in JourneyRequests /\ d.at = "persist" /\ d.row = step /\ d.saw = patched
      BY <3>4 DEF Request, JourneyRequests
    <3> QED
      BY <3>2, <3>3, <3>4, <3>5
  <2> QED
    BY <2>1, <2>2
<1>11. \A t \in Slots : call'[t] = IF t = s THEN d ELSE call[t]
  BY <1>10 DEF JourneyInv, JourneyTypeOK
<1>12. UNCHANGED <<journey, shared>>
  BY DEF StepRun
<1>13. JourneyTypeOK'
  BY <1>3, <1>4, <1>10, <1>11, <1>12 DEF JourneyInv, JourneyTypeOK
<1>14. JourneyRow'
  BY <1>4, <1>12, TrailGrows DEF JourneyInv, JourneyRow
<1>15. \A t \in Slots : JourneyCall(call[t])'
  BY <1>4, <1>10, <1>11, TrailGrows DEF JourneyInv, JourneyCall
<1>16. ServedAlone'
  <2>1. call[s] # Idle
    BY <1>1 DEF JourneyRequests, Idle, Request
  <2> QED
    BY <1>11, <1>12, <2>1 DEF JourneyInv, ServedAlone
<1> QED
  BY <1>13, <1>14, <1>15, <1>16 DEF JourneyInv

(* A request is over, having stored its pause or not.                      *)
LEMMA LeavesInv ==
  ASSUME JourneyInv, NEW s \in Slots, call[s] # Idle, Leave(s), UNCHANGED <<steps, shared>>,
         JourneyRow', journey' \in [status : {"none", "running", "awaiting_input", "awaiting_review", "completed"},
                  step : JourneySteps \cup {None}, context : Contexts]
  PROVE  JourneyInv'
<1>1. \A t \in Slots : call'[t] = IF t = s THEN Idle ELSE call[t]
  BY DEF Leave, JourneyInv, JourneyTypeOK
<1>2. JourneyTypeOK'
  BY <1>1 DEF Leave, JourneyInv, JourneyTypeOK
<1>3. \A t \in Slots : JourneyCall(call[t])'
  <2>1. Idle.op # "journey"
    BY DEF Idle, Request
  <2> QED
    BY <1>1, <2>1 DEF JourneyInv, JourneyCall
<1>4. ServedAlone'
  BY <1>1 DEF JourneyInv, ServedAlone
<1> QED
  BY <1>2, <1>3, <1>4 DEF JourneyInv

LEMMA PersistInv ==
  ASSUME JourneyInv, NEW s \in Slots, Persist(s)
  PROVE  JourneyInv'
<1>1. PICK c \in JourneyRequests : c = call[s] /\ c.at = "persist"
  BY DEF Persist, At, JourneyInv, JourneyTypeOK, Idle, Request
<1>2. PICK step \in JourneySteps, ctx \in Contexts : step = c.row /\ ctx = c.saw
  BY DEF JourneyRequests
<1>3. Paused(step, ctx, steps)
  BY <1>1, <1>2 DEF JourneyInv, JourneyCall, JourneyRequests
<1>4. PICK status \in {"awaiting_input", "awaiting_review", "completed"} :
        /\ journey' = [status |-> status, step |-> step, context |-> ctx]
        /\ status = "awaiting_input" => step \in {"collect_identity", "consent"}
        /\ status = "awaiting_review" => step = "manual_review"
        /\ status = "completed" => step \in {"approved", "rejected"}
  <2>1. journey' = [status |-> CASE Kind(step) = "await" -> "awaiting_input"
                                 [] Kind(step) = "review" -> "awaiting_review"
                                 [] Kind(step) = "done" -> "completed",
                    step |-> step, context |-> ctx]
    BY <1>1, <1>2 DEF Persist
  <2>2. CASE step \in {"collect_identity", "consent"}
    BY <2>1, <2>2 DEF Kind
  <2>3. CASE step = "manual_review"
    BY <2>1, <2>3 DEF Kind
  <2>4. CASE step \in {"approved", "rejected"}
    BY <2>1, <2>4 DEF Kind
  <2> QED
    BY <1>3, <2>2, <2>3, <2>4 DEF Paused, JourneySteps
<1>5. journey'.status = status /\ journey'.step = step /\ journey'.context = ctx
  BY <1>4
<1>6. JourneyRow'
  BY <1>3, <1>4, <1>5 DEF Persist, JourneyRow
<1>7. call[s] # Idle
  BY <1>1 DEF JourneyRequests, Idle, Request
<1>8. Leave(s) /\ UNCHANGED <<steps, shared>>
  BY DEF Persist
<1> QED
  BY <1>4, <1>6, <1>7, <1>8, LeavesInv

LEMMA JourneyNextInv == JourneyInv /\ [JourneyNext]_journeyVars => JourneyInv'
<1> SUFFICES ASSUME JourneyInv, [JourneyNext]_journeyVars PROVE JourneyInv'
  OBVIOUS
<1>1. CASE UNCHANGED journeyVars
  BY <1>1 DEF journeyVars, JourneyInv, JourneyTypeOK, JourneyRow, JourneyCall, ServedAlone
<1>2. ASSUME NEW s \in Slots, Dies(s), UNCHANGED <<journey, steps, shared>>
      PROVE  JourneyInv'
  <2>1. JourneyRow'
    BY <1>2 DEF JourneyInv, JourneyRow
  <2> QED
    BY <1>2, <2>1, LeavesInv DEF Dies, JourneyInv, JourneyTypeOK
<1> QED
  BY <1>1, <1>2, SubmissionsInv, StepRunInv, PersistInv DEF JourneyNext

(* However submissions and reviews overlap, a stored outcome follows from  *)
(* the context it is stored with, and only requests served at once go past *)
(* a completed run (journeyRunner.ts:51-58, 74-112, 143-160).              *)
THEOREM JourneysSound == JourneySpec => []JourneySound
<1>1. JourneyInv => JourneySound
  BY DEF JourneyInv, JourneyRow, Paused, Reached, Cleared, ServedAlone,
         JourneySound, OutcomeFollowsContext, CompletedUnlessShared
<1> QED
  BY <1>1, JourneyInitInv, JourneyNextInv, PTL DEF JourneySpec
-----------------------------------------------------------------------------
(* BillPay: a bill that was charged is not on the schedule again.          *)

BillRequests ==
  Requests({"idle", "pay", "due", "cancel"},
           {"idle", "insert", "send", "commit", "next", "fail", "update"}, Bills \cup {None}, {None})

(* A call that has a place has a bill; past its commit, the bill is        *)
(* charged.                                                                *)
BillCall(c) ==
  /\ c.op # "idle" => c.row \in Bills
  /\ c.at = "next" => Charged(c.row)

(* The payouts of b whose transaction has not ended.                       *)
InPayout(b) == {s \in Slots : Sending(s, "commit") /\ call[s].row = b}

BillTypeOK ==
  /\ LedgerTypeOK
  /\ call \in [Slots -> BillRequests]
  /\ bill \in [Bills -> BillStatuses]
  /\ payouts \in [Bills -> Nat]
  /\ paidRows \in [Bills -> Nat]

BillCalls == \A s \in Slots : BillCall(call[s])

PayoutsCoverRows == \A b \in Bills : paidRows[b] + Cardinality(InPayout(b)) <= payouts[b]

BillRowsHold ==
  /\ bal[BillCash] >= 0
  /\ \A b \in Bills :
       /\ Charged(b) => bill[b] \in {"sent", "failed", "canceled"}
       /\ bill[b] = "sent" => Charged(b)
       /\ Charged(b) <=> paidRows[b] > 0

BillInv == BillTypeOK /\ BillCalls /\ PayoutsCoverRows /\ BillRowsHold

LEMMA BillInitInv == BillPayInit => BillInv
<1> SUFFICES ASSUME BillPayInit PROVE BillInv
  OBVIOUS
<1> USE BillPayAssumption, OpeningAssumption DEF BillPayInit, ServiceInit, LedgerInit
<1>1. LedgerTypeOK
  BY DEF LedgerTypeOK, Effects
<1>2. BillTypeOK
  BY <1>1 DEF BillTypeOK, BillRequests, Requests, Idle, Request, BillStatuses
<1>3. BillCalls /\ BillRowsHold
  BY DEF BillCalls, BillCall, BillRowsHold, Charged, Posted, Idle, Request
<1>4. ASSUME NEW b \in Bills PROVE InPayout(b) = {}
  BY DEF InPayout, Sending, Idle, Request
<1>5. PayoutsCoverRows
  <2>1. ASSUME NEW b \in Bills PROVE paidRows[b] + Cardinality(InPayout(b)) <= payouts[b]
    <3>1. Cardinality(InPayout(b)) = 0
      BY <1>4, FS_EmptySet
    <3> QED
      BY <3>1
  <2> QED
    BY <2>1 DEF PayoutsCoverRows
<1> QED
  BY <1>2, <1>3, <1>5 DEF BillInv

(* The payouts under way, when one call moves.                             *)
LEMMA InPayoutMoves ==
  ASSUME BillTypeOK, NEW s \in Slots, NEW c \in BillRequests, Becomes(s, c), NEW b \in Bills
  PROVE  /\ Cardinality(InPayout(b)) \in Nat /\ Cardinality(InPayout(b)') \in Nat
         /\ Cardinality(InPayout(b)') = Cardinality(InPayout(b))
              + (IF c.op \in {"pay", "due"} /\ c.at = "commit" /\ c.row = b THEN 1 ELSE 0)
              - (IF Sending(s, "commit") /\ call[s].row = b THEN 1 ELSE 0)
<1>1. /\ call' \in [Slots -> BillRequests] /\ call'[s] = c
      /\ \A t \in Slots \ {s} : call'[t] = call[t]
  BY BecomesOne DEF BillTypeOK
<1>2. InPayout(b) \in SUBSET Slots /\ InPayout(b)' \in SUBSET Slots
  BY DEF InPayout
<1>3. InPayout(b) \ {s} = InPayout(b)' \ {s}
  BY <1>1 DEF InPayout, Sending
<1>4. s \in InPayout(b) <=> Sending(s, "commit") /\ call[s].row = b
  BY DEF InPayout
<1>5. s \in InPayout(b)' <=> c.op \in {"pay", "due"} /\ c.at = "commit" /\ c.row = b
  BY <1>1 DEF InPayout, Sending
<1> QED
  BY <1>2, <1>3, <1>4, <1>5, SlotCount

(* A step that moves one call and leaves ledger, payouts and history; a    *)
(* row may be written if it is not "sent" by that, nor scheduled charged.  *)
LEMMA BillCallMoves ==
  ASSUME BillInv, NEW s \in Slots, NEW c \in BillRequests, Becomes(s, c), BillCall(c),
         c.at = "commit" => Sending(s, "commit") /\ call[s].row = c.row,
         UNCHANGED <<journals, bal, payouts, paidRows>>,
         NEW b \in Bills, NEW status \in {"scheduled", "failed", "canceled"},
         status = "scheduled" => bill[b] = "none",
         bill' = bill \/ bill' = [bill EXCEPT ![b] = status]
  PROVE  BillInv'
<1> USE DEF BillInv
<1>1. /\ call' \in [Slots -> BillRequests] /\ call'[s] = c
      /\ \A t \in Slots \ {s} : call'[t] = call[t]
  BY BecomesOne DEF BillTypeOK
<1>2. BillTypeOK'
  BY <1>1 DEF BillTypeOK, BillStatuses, LedgerTypeOK
<1>3. \A d : Charged(d)' <=> Charged(d)
  BY DEF Charged, Posted
<1>4. BillCalls'
  BY <1>1, <1>3 DEF BillTypeOK, BillCalls, BillCall
<1>5. ASSUME NEW d \in Bills PROVE paidRows'[d] + Cardinality(InPayout(d)') <= payouts'[d]
  <2>1. /\ Cardinality(InPayout(d)) \in Nat /\ Cardinality(InPayout(d)') \in Nat
        /\ Cardinality(InPayout(d)') <= Cardinality(InPayout(d))
    BY InPayoutMoves
  <2>2. paidRows[d] + Cardinality(InPayout(d)) <= payouts[d]
    BY DEF PayoutsCoverRows
  <2> QED
    BY <2>1, <2>2 DEF BillTypeOK
<1>6. PayoutsCoverRows'
  BY <1>5 DEF PayoutsCoverRows
<1>7. BillRowsHold'
  BY <1>3 DEF BillRowsHold, BillTypeOK
<1> QED
  BY <1>2, <1>4, <1>6, <1>7

(* The calls as they begin, go on to another place, and end.               *)
LEMMA BillCallGoes ==
  ASSUME BillInv, NEW s \in Slots, call[s].op # "idle",
         NEW at \in {"insert", "send", "commit", "next", "fail", "update"}, Goto(s, at)
  PROVE  \E c \in BillRequests :
           /\ Becomes(s, c)
           /\ c.op = call[s].op /\ c.at = at /\ c.row = call[s].row /\ c.row \in Bills
<1> DEFINE c == Request(call[s].op, at, call[s].row, call[s].saw)
<1>1. call[s] \in BillRequests /\ call[s].row \in Bills
  BY DEF BillInv, BillTypeOK, BillCalls, BillCall
<1>2. c \in BillRequests
  BY <1>1 DEF BillRequests, Requests, Request
<1>3. Becomes(s, c)
  BY GotoBecomes DEF BillInv, BillTypeOK, BillRequests
<1>4. c.op = call[s].op /\ c.at = at /\ c.row = call[s].row
  BY DEF Request
<1> QED
  BY <1>1, <1>2, <1>3, <1>4

LEMMA BillIdle == Idle \in BillRequests /\ BillCall(Idle) /\ Idle.at = "idle"
BY DEF Idle, Request, BillRequests, Requests, BillCall

LEMMA BillBegins ==
  ASSUME NEW op \in {"pay", "due", "cancel"}, NEW at \in {"insert", "send", "update"}, NEW b \in Bills
  PROVE  /\ Request(op, at, b, None) \in BillRequests
         /\ BillCall(Request(op, at, b, None)) /\ Request(op, at, b, None).at = at
BY DEF Request, BillRequests, Requests, BillCall

(* What neither pays nor charges.                                          *)
LEMMA BillQuietInv ==
  ASSUME BillInv, NEW s \in Slots,
         \/ PayBill(s) \/ PayInsert(s) \/ SendRefused(s) \/ SendAbort(s) \/ SendNext(s)
         \/ MarkFailed(s) \/ CancelUpdate(s)
         \/ \E b \in Bills : Due(s, b) \/ CancelBill(s, b)
         \/ Dies(s) /\ UNCHANGED <<bill, payouts, paidRows>>
  PROVE  BillInv'
<1>1. UNCHANGED <<journals, bal, payouts, paidRows>>
  BY DEF PayBill, PayInsert, SendRefused, SendAbort, SendNext, MarkFailed, CancelUpdate, Due,
         CancelBill, Dies, ledgerVars
<1>2. \/ Leave(s)
      \/ call[s].op # "idle" /\ \E at \in {"send", "fail"} : Goto(s, at)
      \/ \E op \in {"pay", "due", "cancel"}, at \in {"insert", "send", "update"}, b \in Bills :
           Becomes(s, Request(op, at, b, None))
  BY BillPayAssumption
     DEF PayBill, PayInsert, SendRefused, SendAbort, SendNext, MarkFailed, CancelUpdate, Due,
         CancelBill, Dies, Begin, Becomes, At, Sending, Throw
<1>3. PICK c \in BillRequests : Becomes(s, c) /\ BillCall(c) /\ c.at # "commit"
  <2>1. CASE Leave(s)
    BY <2>1, BillIdle DEF Leave, Becomes
  <2>2. ASSUME call[s].op # "idle", NEW at \in {"send", "fail"}, Goto(s, at)
        PROVE  \E c \in BillRequests : Becomes(s, c) /\ BillCall(c) /\ c.at # "commit"
    <3>1. PICK c \in BillRequests : Becomes(s, c) /\ c.at = at /\ c.row \in Bills
      BY <2>2, BillCallGoes
    <3> QED
      BY <3>1 DEF BillCall
  <2>3. ASSUME NEW op \in {"pay", "due", "cancel"}, NEW at \in {"insert", "send", "update"},
               NEW b \in Bills, Becomes(s, Request(op, at, b, None))
        PROVE  \E c \in BillRequests : Becomes(s, c) /\ BillCall(c) /\ c.at # "commit"
    BY <2>3, BillBegins
  <2> QED
    BY <1>2, <2>1, <2>2, <2>3
<1>4. \E b \in Bills, status \in {"scheduled", "failed", "canceled"} :
        /\ status = "scheduled" => bill[b] = "none"
        /\ bill' = bill \/ bill' = [bill EXCEPT ![b] = status]
  <2>1. CASE bill' = bill
    BY <2>1, BillPayAssumption
  <2>2. CASE PayInsert(s) \/ SendNext(s)
    BY <2>2, BillPayAssumption DEF PayInsert, SendNext
  <2>3. CASE MarkFailed(s) \/ CancelUpdate(s)
    <3>1. call[s].row \in Bills
      BY <2>3 DEF MarkFailed, CancelUpdate, At, BillInv, BillCalls, BillCall
    <3> QED
      BY <2>3, <3>1 DEF MarkFailed, CancelUpdate
  <2> QED
    BY <2>1, <2>2, <2>3 DEF PayBill, SendRefused, SendAbort, Due, CancelBill, Dies
<1> QED
  BY <1>1, <1>3, <1>4, BillCallMoves

(* The bank pays before the transaction ends.                              *)
LEMMA SendPayoutInv ==
  ASSUME BillInv, NEW s \in Slots, SendPayout(s)
  PROVE  BillInv'
<1> USE DEF BillInv
<1>1. Sending(s, "send") /\ UNCHANGED <<journals, bal, bill, paidRows>> /\ call[s].op # "idle"
  BY DEF SendPayout, Sending
<1>2. PICK b \in Bills : b = call[s].row
  BY <1>1 DEF BillCalls, BillCall
<1>3. CASE bal[BillCash] >= BillAmount
  <2>1. payouts' = [payouts EXCEPT ![b] = @ + 1] /\ Goto(s, "commit")
    BY <1>2, <1>3 DEF SendPayout
  <2>2. PICK c \in BillRequests :
          Becomes(s, c) /\ c.op = call[s].op /\ c.at = "commit" /\ c.row = b
    BY <1>1, <1>2, <2>1, BillCallGoes
  <2>3. call' \in [Slots -> BillRequests] /\ call'[s] = c
        /\ \A t \in Slots \ {s} : call'[t] = call[t]
    BY <2>2, BecomesOne DEF BillTypeOK
  <2>4. BillTypeOK'
    BY <1>1, <2>1, <2>3 DEF BillTypeOK, LedgerTypeOK
  <2>5. \A d : Charged(d)' <=> Charged(d)
    BY <1>1 DEF Charged, Posted
  <2>6. BillCalls'
    BY <2>2, <2>3, <2>5 DEF BillCalls, BillCall, BillTypeOK
  <2>7. ASSUME NEW d \in Bills PROVE paidRows'[d] + Cardinality(InPayout(d)') <= payouts'[d]
    <3>1. /\ Cardinality(InPayout(d)) \in Nat /\ Cardinality(InPayout(d)') \in Nat
          /\ Cardinality(InPayout(d)') = Cardinality(InPayout(d)) + (IF d = b THEN 1 ELSE 0)
      BY <1>1, <2>2, InPayoutMoves DEF Sending
    <3>2. paidRows[d] + Cardinality(InPayout(d)) <= payouts[d]
      BY DEF PayoutsCoverRows
    <3> QED
      BY <1>1, <2>1, <3>1, <3>2 DEF BillTypeOK
  <2>8. BillRowsHold'
    BY <1>1, <2>5 DEF BillRowsHold
  <2> QED
    BY <2>4, <2>6, <2>7, <2>8 DEF PayoutsCoverRows
<1>4. CASE ~(bal[BillCash] >= BillAmount)
  <2>1. UNCHANGED <<journals, bal, bill, payouts, paidRows>> /\ Throw(s)
    BY <1>1, <1>4 DEF SendPayout
  <2>2. SendRefused(s)
    BY <1>1, <2>1 DEF SendRefused
  <2> QED
    BY <2>2, BillQuietInv
<1> QED
  BY <1>3, <1>4

LEMMA SendCommitInv ==
  ASSUME BillInv, NEW s \in Slots, SendCommit(s)
  PROVE  BillInv'
<1> USE DEF BillInv
<1> DEFINE effect == Move(BillCash, BillClearing, BillAmount)
<1>1. Sending(s, "commit") /\ call[s].op # "idle" /\ bal[BillCash] >= BillAmount
      /\ Goto(s, "next") /\ payouts' = payouts
  BY DEF SendCommit, Sending
<1>2. PICK b \in Bills : b = call[s].row
  BY <1>1 DEF BillCalls, BillCall
<1>3. /\ PostJournal(<<"billpay", b>>, effect)
      /\ paidRows' = [paidRows EXCEPT ![b] = @ + 1]
      /\ bill' = [bill EXCEPT ![b] = "sent"]
  BY <1>2 DEF SendCommit
<1>4. PICK c \in BillRequests :
        Becomes(s, c) /\ c.op = call[s].op /\ c.at = "next" /\ c.row = b
  BY <1>1, <1>2, BillCallGoes
<1>5. call' \in [Slots -> BillRequests] /\ call'[s] = c
      /\ \A t \in Slots \ {s} : call'[t] = call[t]
  BY <1>4, BecomesOne DEF BillTypeOK
<1>6. effect \in Effects
  BY BillPayAssumption, MoveType
<1>7. LedgerTypeOK' /\ DOMAIN journals' = DOMAIN journals \cup {<<"billpay", b>>}
  BY <1>3, <1>6, PostAny DEF BillTypeOK
<1>8. BillTypeOK'
  BY <1>1, <1>3, <1>5, <1>7 DEF BillTypeOK, BillStatuses
<1>9. /\ Charged(b)' /\ \A d : Charged(d) => Charged(d)'
      /\ \A d \in Bills \ {b} : Charged(d)' => Charged(d)
  BY <1>7 DEF Charged, Posted
<1>10. BillCalls'
  BY <1>4, <1>5, <1>9 DEF BillCalls, BillCall, BillTypeOK
<1>11. ASSUME NEW d \in Bills PROVE paidRows'[d] + Cardinality(InPayout(d)') <= payouts'[d]
  <2>1. /\ Cardinality(InPayout(d)) \in Nat /\ Cardinality(InPayout(d)') \in Nat
        /\ Cardinality(InPayout(d)') = Cardinality(InPayout(d)) - (IF d = b THEN 1 ELSE 0)
    BY <1>1, <1>2, <1>4, InPayoutMoves
  <2>2. paidRows[d] + Cardinality(InPayout(d)) <= payouts[d]
    BY DEF PayoutsCoverRows
  <2> QED
    BY <1>1, <1>3, <2>1, <2>2 DEF BillTypeOK
<1>12. bal'[BillCash] >= 0
  <2>1. CASE Posted(<<"billpay", b>>)
    BY <1>3, <2>1 DEF PostJournal, ledgerVars, BillRowsHold
  <2>2. CASE ~Posted(<<"billpay", b>>)
    <3>1. bal'[BillCash] = bal[BillCash] + effect[BillCash]
      BY <1>3, <1>6, <2>2, PostFresh, BillPayAssumption DEF BillTypeOK
    <3>2. effect[BillCash] = -BillAmount /\ bal[BillCash] \in Int
      BY BillPayAssumption DEF Move, BillTypeOK, LedgerTypeOK, Effects
    <3> QED
      BY <1>1, <3>1, <3>2, BillPayAssumption
  <2> QED
    BY <2>1, <2>2
<1>13. BillRowsHold'
  BY <1>3, <1>9, <1>12 DEF BillRowsHold, BillTypeOK
<1> QED
  BY <1>8, <1>10, <1>11, <1>13 DEF PayoutsCoverRows

LEMMA BillStepInv == BillInv /\ [BillPayNext]_billVars => BillInv'
<1> SUFFICES ASSUME BillInv, [BillPayNext]_billVars PROVE BillInv'
  OBVIOUS
<1>1. CASE UNCHANGED billVars
  BY <1>1 DEF billVars, BillInv, BillTypeOK, LedgerTypeOK, BillCalls, BillCall, PayoutsCoverRows,
              InPayout, Sending, BillRowsHold, Charged, Posted
<1>2. CASE BillPayNext
  BY <1>2, BillQuietInv, SendPayoutInv, SendCommitInv DEF BillPayNext
<1> QED
  BY <1>1, <1>2

(* For any number of bills, payouts and requests at once: a bill that was  *)
(* charged is not on the schedule again, the bank was asked at least as    *)
(* often as the history says, and the account is not overdrawn             *)
(* (billPayService.ts:80-100, 155-156, 164-174).                           *)
THEOREM BillPayLeavesSchedule == BillPaySpec => []ChargedBillsLeaveSchedule
<1>1. BillInv => ChargedBillsLeaveSchedule
  <2>1. ASSUME BillInv, NEW b \in Bills PROVE paidRows[b] <= payouts[b]
    <3>1. paidRows[b] + Cardinality(InPayout(b)) <= payouts[b]
      BY <2>1 DEF BillInv, PayoutsCoverRows
    <3>2. Cardinality(InPayout(b)) \in Nat
      BY SlotsFinite DEF InPayout
    <3> QED
      BY <2>1, <3>1, <3>2 DEF BillInv, BillTypeOK
  <2> QED
    BY <2>1 DEF BillInv, BillRowsHold, ChargedBillsLeaveSchedule
<1> QED
  BY <1>1, BillInitInv, BillStepInv, PTL DEF BillPaySpec

-----------------------------------------------------------------------------
(* Exchange: rows tell their rate, and overlaps overspend no more than     *)
(* what they checked.                                                      *)

SwapRequests ==
  Requests({"idle", "swap"}, {"idle", "post", "row"}, Swaps \cup {None}, Rates \cup {None})

Fx(k) == <<"fx", k>>

(* A request whose key is not clouded finds neither row nor journal, but   *)
(* the journal it has posted itself.                                       *)
SwapCall(c) ==
  c.op = "swap" =>
    /\ c.row \in Swaps /\ c.saw \in Rates /\ c.at \in {"post", "row"}
    /\ c.at = "row" => Posted(Fx(c.row))
    /\ c.row \notin clouded =>
         /\ swap[c.row] = None
         /\ c.at = "post" => ~Posted(Fx(c.row))
         /\ c.at = "row" => journals[Fx(c.row)] = SwapEffect(c.row, c.saw)

On(c, k) == c.op = "swap" /\ c.row = k

SwapTypeOK ==
  /\ LedgerTypeOK
  /\ call \in [Slots -> SwapRequests]
  /\ swap \in [Swaps -> Rates \cup {None}]

SwapCalls == \A s \in Slots : SwapCall(call[s])

SwapsAlone ==
  \A k \in Swaps \ clouded, s, t \in Slots : On(call[s], k) /\ On(call[t], k) => s = t

(* A journal without a row is about to get it.                             *)
SwapsEnd ==
  \A k \in Swaps \ clouded :
    Posted(Fx(k)) /\ swap[k] = None => \E s \in Slots : On(call[s], k) /\ call[s].at = "row"

(* The requests that have checked the cash and not taken it.               *)
InSwap == {s \in Slots : call[s].op = "swap" /\ call[s].at = "post"}

SwapsCovered ==
  bal[FromCash] - Cardinality(InSwap) * SwapAmount >= -(Cardinality(Slots) - 1) * SwapAmount

SwapInv == SwapTypeOK /\ SwapCalls /\ SwapsAlone /\ SwapsEnd /\ RowsTellTheRate /\ SwapsCovered

LEMMA SwapInitInv == ExchangeInit => SwapInv
<1> SUFFICES ASSUME ExchangeInit PROVE SwapInv
  OBVIOUS
<1> USE ExchangeAssumption, OpeningAssumption DEF ExchangeInit, ServiceInit, LedgerInit
<1>1. LedgerTypeOK
  BY DEF LedgerTypeOK, Effects
<1>2. SwapTypeOK
  BY <1>1 DEF SwapTypeOK, SwapRequests, Requests, Idle, Request
<1>3. SwapCalls /\ SwapsAlone
  BY DEF SwapCalls, SwapCall, SwapsAlone, On, Idle, Request
<1>4. SwapsEnd /\ RowsTellTheRate
  BY DEF SwapsEnd, RowsTellTheRate, Posted
<1>5. InSwap = {}
  BY DEF InSwap, Idle, Request
<1>6. Cardinality(InSwap) = 0
  BY <1>5, FS_EmptySet
<1>7. Cardinality(Slots) \in Nat \ {0}
  BY ServiceAssumption, FS_EmptySet, FS_CardinalityType
<1>8. SwapsCovered
  <2>1. PICK n \in Nat : Cardinality(Slots) = n + 1
    BY <1>7
  <2>2. -(n + 1 - 1) * SwapAmount <= 0 /\ 0 * SwapAmount = 0
    OBVIOUS
  <2> QED
    BY <1>6, <2>1, <2>2 DEF SwapsCovered
<1> QED
  BY <1>2, <1>3, <1>4, <1>8 DEF SwapInv

(* The effect of a swap on the cash it takes.                              *)
LEMMA SwapEffectIs ==
  ASSUME NEW k, NEW rate \in Rates
  PROVE  SwapEffect(k, rate) \in Effects /\ SwapEffect(k, rate)[FromCash] = -SwapAmount
<1> DEFINE receiver == IF SwapKind[k] = "convert" THEN ToCash ELSE PayeeCash
           m1 == Move(FromCash, FxFrom, SwapAmount)
           m2 == Move(FxTo, receiver, Gross(rate) - Spread(rate))
           m3 == Move(FxTo, FxFees, Spread(rate))
<1> USE ExchangeAssumption
<1>1. Gross(rate) \in Int /\ Spread(rate) \in Int
  BY DEF Gross, Spread
<1>2. m1 \in Effects /\ m2 \in Effects /\ m3 \in Effects
  BY <1>1, MoveType
<1>3. m1[FromCash] = -SwapAmount /\ m2[FromCash] = 0 /\ m3[FromCash] = 0
  BY <1>1 DEF Move
<1>4. SwapEffect(k, rate) = Both(m1, Both(m2, m3))
  BY DEF SwapEffect
<1> HIDE DEF m1, m2, m3
<1>5. Both(m2, m3) \in Effects /\ Both(m2, m3)[FromCash] = 0
  BY <1>2, <1>3 DEF Both, Effects
<1> QED
  BY <1>2, <1>3, <1>4, <1>5 DEF Both, Effects

(* The requests under way, when one of them moves.                         *)
LEMMA InSwapMoves ==
  ASSUME SwapTypeOK, NEW s \in Slots, NEW c \in SwapRequests, Becomes(s, c)
  PROVE  /\ Cardinality(InSwap) \in Nat /\ Cardinality(InSwap') \in Nat
         /\ Cardinality(InSwap') = Cardinality(InSwap)
              + (IF c.op = "swap" /\ c.at = "post" THEN 1 ELSE 0)
              - (IF call[s].op = "swap" /\ call[s].at = "post" THEN 1 ELSE 0)
<1>1. /\ call' \in [Slots -> SwapRequests] /\ call'[s] = c
      /\ \A t \in Slots \ {s} : call'[t] = call[t]
  BY BecomesOne DEF SwapTypeOK
<1>2. InSwap \in SUBSET Slots /\ InSwap' \in SUBSET Slots
  BY DEF InSwap
<1>3. InSwap \ {s} = InSwap' \ {s}
  BY <1>1 DEF InSwap
<1>4. /\ s \in InSwap <=> call[s].op = "swap" /\ call[s].at = "post"
      /\ s \in InSwap' <=> c.op = "swap" /\ c.at = "post"
  BY <1>1 DEF InSwap
<1> QED
  BY <1>2, <1>3, <1>4, SlotCount

LEMMA SwapBeginInv ==
  ASSUME SwapInv, NEW s \in Slots, NEW k \in Swaps, NEW rate \in Rates, Swap(s, k, rate)
  PROVE  SwapInv'
<1> USE DEF SwapInv
<1> DEFINE c == Request("swap", "post", k, rate)
<1>1. /\ swap[k] = None /\ bal[FromCash] >= SwapAmount
      /\ call[s] = Idle /\ Becomes(s, c) /\ UNCHANGED <<journals, bal, swap>>
  BY DEF Swap, Begin, Becomes
<1>2. c \in SwapRequests /\ c.op = "swap" /\ c.at = "post" /\ c.row = k /\ c.saw = rate
  BY DEF SwapRequests, Requests, Request
<1> HIDE DEF c
<1>3. /\ call' \in [Slots -> SwapRequests] /\ call'[s] = c
      /\ \A t \in Slots \ {s} : call'[t] = call[t]
  BY <1>1, <1>2, BecomesOne DEF SwapTypeOK
<1>4. clouded \subseteq clouded' /\ (k \notin clouded' => \A t \in Slots : ~On(call[t], k))
  BY DEF Swap, On
<1>5. SwapTypeOK'
  BY <1>1, <1>3 DEF SwapTypeOK, LedgerTypeOK
<1>6. k \notin clouded' => ~Posted(Fx(k))
  BY <1>1, <1>4 DEF SwapsEnd
<1>7. SwapCalls'
  <2>1. SwapCall(c)'
    BY <1>1, <1>2, <1>6 DEF SwapCall, Posted
  <2>2. ASSUME NEW t \in Slots \ {s} PROVE SwapCall(call[t])'
    BY <1>1, <1>3, <1>4 DEF SwapCall, SwapCalls, Posted, Fx
  <2> QED
    BY <1>3, <2>1, <2>2 DEF SwapCalls
<1>8. SwapsAlone'
  <2>1. ASSUME NEW j \in Swaps, j \notin clouded', NEW t \in Slots, NEW u \in Slots,
               On(call'[t], j), On(call'[u], j)
        PROVE  t = u
    BY <1>2, <1>3, <1>4, <2>1 DEF SwapsAlone, On
  <2> QED
    BY <2>1 DEF SwapsAlone
<1>9. SwapsEnd'
  <2>1. ASSUME NEW j \in Swaps, j \notin clouded', Posted(Fx(j))', swap'[j] = None
        PROVE  \E t \in Slots : On(call'[t], j) /\ call'[t].at = "row"
    <3>1. Posted(Fx(j)) /\ j \notin clouded /\ swap[j] = None
      BY <1>1, <1>4, <2>1 DEF Posted
    <3>2. PICK t \in Slots : On(call[t], j) /\ call[t].at = "row"
      BY <3>1 DEF SwapsEnd
    <3>3. t # s
      BY <1>1, <3>2 DEF On, Idle, Request
    <3> QED
      BY <1>3, <3>2, <3>3
  <2> QED
    BY <2>1 DEF SwapsEnd
<1>10. RowsTellTheRate'
  BY <1>1, <1>4 DEF RowsTellTheRate, Posted
<1>11. SwapsCovered'
  <2>1. call[s].op # "swap"
    BY <1>1 DEF Idle, Request
  <2>2. /\ Cardinality(InSwap) \in Nat /\ Cardinality(InSwap') = Cardinality(InSwap) + 1
    BY <1>1, <1>2, <2>1, InSwapMoves
  <2>3. Cardinality(InSwap') <= Cardinality(Slots) /\ Cardinality(Slots) \in Nat
    BY SlotsFinite DEF InSwap
  <2>4. SwapAmount \in Nat /\ bal[FromCash] \in Int
    BY ExchangeAssumption DEF SwapTypeOK, LedgerTypeOK, Effects
  <2>5. bal[FromCash] - (Cardinality(InSwap) + 1) * SwapAmount >= -(Cardinality(Slots) - 1) * SwapAmount
    BY <1>1, <2>2, <2>3, <2>4, OverlapBegins
  <2> QED
    BY <1>1, <2>2, <2>5 DEF SwapsCovered
<1> QED
  BY <1>5, <1>7, <1>8, <1>9, <1>10, <1>11

LEMMA SwapPostInv ==
  ASSUME SwapInv, NEW s \in Slots, SwapPost(s)
  PROVE  SwapInv'
<1> USE DEF SwapInv
<1>1. At(s, "swap", "post") /\ Goto(s, "row") /\ UNCHANGED <<swap, clouded>>
  BY DEF SwapPost
<1>2. PICK k \in Swaps, rate \in Rates : call[s].row = k /\ call[s].saw = rate
  BY <1>1 DEF At, SwapCalls, SwapCall
<1>3. PostJournal(Fx(k), SwapEffect(k, rate))
  BY <1>2 DEF SwapPost, Fx
<1>4. SwapEffect(k, rate) \in Effects /\ SwapEffect(k, rate)[FromCash] = -SwapAmount
  BY SwapEffectIs
<1> DEFINE c == Request("swap", "row", k, rate)
<1>5. Becomes(s, c)
  BY <1>1, <1>2, GotoBecomes DEF At, SwapTypeOK, SwapRequests
<1>6. c \in SwapRequests /\ c.op = "swap" /\ c.at = "row" /\ c.row = k /\ c.saw = rate
  BY DEF SwapRequests, Requests, Request
<1> HIDE DEF c
<1>7. /\ call' \in [Slots -> SwapRequests] /\ call'[s] = c
      /\ \A t \in Slots \ {s} : call'[t] = call[t]
  BY <1>5, <1>6, BecomesOne DEF SwapTypeOK
<1>8. /\ LedgerTypeOK' /\ Posted(Fx(k))'
      /\ ~Posted(Fx(k)) => journals'[Fx(k)] = SwapEffect(k, rate)
      /\ \A j : Posted(j) => Posted(j)' /\ journals'[j] = journals[j]
      /\ \A j : Posted(j)' => Posted(j) \/ j = Fx(k)
  BY <1>3, <1>4, PostKeeps DEF SwapTypeOK
<1>9. \A j : Fx(j) = Fx(k) => j = k
  BY DEF Fx
<1>10. /\ k \notin clouded => ~Posted(Fx(k)) /\ swap[k] = None
       /\ \A t \in Slots \ {s} : On(call[t], k) => k \in clouded
  BY <1>1, <1>2 DEF SwapCalls, SwapCall, SwapsAlone, On, At
<1>11. SwapTypeOK'
  BY <1>1, <1>7, <1>8 DEF SwapTypeOK
<1>12. SwapCalls'
  <2>1. SwapCall(c)'
    BY <1>1, <1>2, <1>6, <1>8, <1>10 DEF SwapCall
  <2>2. ASSUME NEW t \in Slots \ {s}, call[t].op = "swap" PROVE SwapCall(call[t])'
    <3>1. SwapCall(call[t]) /\ call'[t] = call[t]
      BY <1>7 DEF SwapCalls
    <3>2. PICK j : j = call[t].row
      OBVIOUS
    <3>3. j \notin clouded => j # k
      BY <1>10, <2>2, <3>2 DEF On
    <3>4. j \notin clouded /\ ~Posted(Fx(j)) => ~Posted(Fx(j))'
      BY <1>8, <1>9, <3>3
    <3> QED
      BY <1>1, <1>8, <2>2, <3>1, <3>2, <3>4 DEF SwapCall
  <2>3. ASSUME NEW t \in Slots \ {s}, call[t].op # "swap" PROVE SwapCall(call[t])'
    BY <1>7, <2>3 DEF SwapCall
  <2> QED
    BY <1>7, <2>1, <2>2, <2>3 DEF SwapCalls
<1>13. SwapsAlone'
  <2>1. \A j : \A t \in Slots : On(call'[t], j) <=> On(call[t], j)
    BY <1>1, <1>2, <1>6, <1>7 DEF On, At
  <2> QED
    BY <1>1, <2>1 DEF SwapsAlone
<1>14. SwapsEnd'
  <2>1. ASSUME NEW j \in Swaps, j \notin clouded, Posted(Fx(j))', swap[j] = None
        PROVE  \E t \in Slots : On(call'[t], j) /\ call'[t].at = "row"
    <3>1. CASE j = k
      BY <1>6, <1>7, <3>1 DEF On
    <3>2. CASE j # k
      <4>1. Posted(Fx(j))
        BY <1>8, <1>9, <2>1, <3>2
      <4>2. PICK t \in Slots : On(call[t], j) /\ call[t].at = "row"
        BY <2>1, <4>1 DEF SwapsEnd
      <4>3. t # s
        BY <1>1, <4>2 DEF At
      <4> QED
        BY <1>7, <4>2, <4>3
    <3> QED
      BY <3>1, <3>2
  <2> QED
    BY <1>1, <2>1 DEF SwapsEnd
<1>15. RowsTellTheRate'
  BY <1>1, <1>8 DEF RowsTellTheRate, Fx
<1>16. SwapsCovered'
  <2>1. /\ Cardinality(InSwap) \in Nat /\ Cardinality(InSwap') \in Nat
        /\ Cardinality(InSwap') = Cardinality(InSwap) - 1
    BY <1>1, <1>5, <1>6, InSwapMoves DEF At
  <2>2. SwapAmount \in Nat /\ FromCash \in Accounts
    BY ExchangeAssumption
  <2>3. bal[FromCash] \in Int /\ bal'[FromCash] \in Int /\ bal'[FromCash] >= bal[FromCash] - SwapAmount
    BY <1>3, <1>4, <2>2, PostMoves DEF SwapTypeOK
  <2>4. PICK low \in Int : low = -(Cardinality(Slots) - 1) * SwapAmount
    BY <2>2, SlotsFinite
  <2>5. bal[FromCash] - Cardinality(InSwap) * SwapAmount >= low
    BY <2>4 DEF SwapsCovered
  <2>6. bal'[FromCash] - Cardinality(InSwap') * SwapAmount >= low
    BY <2>1, <2>2, <2>3, <2>5, OverlapPosts
  <2> QED
    BY <2>4, <2>6 DEF SwapsCovered
<1> QED
  BY <1>11, <1>12, <1>13, <1>14, <1>15, <1>16

(* A request that ends has written its row, or leaves its key clouded.     *)
LEMMA SwapLeaveInv ==
  ASSUME SwapInv, NEW s \in Slots, Leave(s), UNCHANGED <<journals, bal>>,
         \/ SwapRow(s)
         \/ clouded' = clouded \cup {call[s].row} /\ UNCHANGED swap
  PROVE  SwapInv'
<1> USE DEF SwapInv
<1>1. Idle \in SwapRequests /\ Idle.op = "idle" /\ Becomes(s, Idle)
  BY DEF SwapRequests, Requests, Request, Idle, Leave, Becomes
<1>2. /\ call' \in [Slots -> SwapRequests] /\ call'[s] = Idle
      /\ \A t \in Slots \ {s} : call'[t] = call[t]
  BY <1>1, BecomesOne DEF SwapTypeOK
<1>3. /\ clouded \subseteq clouded'
      /\ \A k \in Swaps : k \notin clouded' /\ On(call[s], k) =>
           SwapRow(s) /\ call[s].at = "row" /\ swap'[k] # None
  BY ExchangeAssumption DEF SwapRow, On, At, SwapCalls, SwapCall, SwapTypeOK
<1>4. SwapTypeOK'
  BY <1>2 DEF SwapRow, SwapTypeOK, LedgerTypeOK, SwapCalls, SwapCall, At
<1>5. \A k \in Swaps : swap'[k] # swap[k] =>
        /\ SwapRow(s) /\ call[s].op = "swap" /\ call[s].at = "row" /\ call[s].row = k
        /\ swap'[k] = call[s].saw /\ clouded' = clouded
  BY DEF SwapRow, SwapTypeOK, At
<1>6. SwapCalls'
  <2>1. ASSUME NEW t \in Slots \ {s}, call[t].op = "swap" PROVE SwapCall(call[t])'
    <3>1. SwapCall(call[t]) /\ call'[t] = call[t]
      BY <1>2 DEF SwapCalls
    <3>2. call[t].row \notin clouded' => swap'[call[t].row] = swap[call[t].row]
      BY <1>3, <1>5, <2>1, <3>1 DEF SwapCall, SwapsAlone, On
    <3> QED
      BY <1>3, <2>1, <3>1, <3>2 DEF SwapCall, Posted, Fx
  <2>2. ASSUME NEW t \in Slots \ {s}, call[t].op # "swap" PROVE SwapCall(call[t])'
    BY <1>2, <2>2 DEF SwapCall
  <2>3. SwapCall(Idle)'
    BY <1>1 DEF SwapCall
  <2> QED
    BY <1>2, <2>1, <2>2, <2>3 DEF SwapCalls
<1>7. SwapsAlone'
  <2>1. ASSUME NEW j \in Swaps, j \notin clouded', NEW t \in Slots, NEW u \in Slots,
               On(call'[t], j), On(call'[u], j)
        PROVE  t = u
    BY <1>1, <1>2, <1>3, <2>1 DEF SwapsAlone, On
  <2> QED
    BY <2>1 DEF SwapsAlone
<1>8. SwapsEnd'
  <2>1. ASSUME NEW j \in Swaps, j \notin clouded', Posted(Fx(j)), swap'[j] = None
        PROVE  \E t \in Slots : On(call'[t], j) /\ call'[t].at = "row"
    <3>1. j \notin clouded /\ swap[j] = None
      BY <1>3, <1>5, <2>1 DEF SwapTypeOK, SwapRow, At
    <3>2. PICK t \in Slots : On(call[t], j) /\ call[t].at = "row"
      BY <2>1, <3>1 DEF SwapsEnd
    <3>3. t # s
      BY <1>3, <2>1, <3>2
    <3> QED
      BY <1>2, <3>2, <3>3
  <2> QED
    BY <2>1 DEF SwapsEnd, Posted
<1>9. RowsTellTheRate'
  <2>1. ASSUME NEW k \in Swaps, swap'[k] # None
        PROVE  /\ Posted(Fx(k))'
               /\ k \notin clouded' => journals'[Fx(k)] = SwapEffect(k, swap'[k])
    <3>1. CASE swap'[k] = swap[k]
      BY <1>3, <2>1, <3>1 DEF RowsTellTheRate, Posted, Fx
    <3>2. CASE swap'[k] # swap[k]
      BY <1>5, <3>2 DEF SwapCalls, SwapCall, Posted
    <3> QED
      BY <3>1, <3>2
  <2> QED
    BY <2>1 DEF RowsTellTheRate, Fx
<1>10. SwapsCovered'
  <2>1. /\ Cardinality(InSwap) \in Nat /\ Cardinality(InSwap') \in Nat
        /\ Cardinality(InSwap') <= Cardinality(InSwap)
    BY <1>1, InSwapMoves
  <2>2. SwapAmount \in Nat /\ bal[FromCash] \in Int
    BY ExchangeAssumption DEF SwapTypeOK, LedgerTypeOK, Effects
  <2>3. PICK low \in Int : low = -(Cardinality(Slots) - 1) * SwapAmount
    BY <2>2, SlotsFinite
  <2>4. bal[FromCash] - Cardinality(InSwap) * SwapAmount >= low
    BY <2>3 DEF SwapsCovered
  <2>5. bal[FromCash] - Cardinality(InSwap') * SwapAmount >= low
    BY <2>1, <2>2, <2>4, OverlapEnds
  <2> QED
    BY <2>3, <2>5 DEF SwapsCovered
<1> QED
  BY <1>4, <1>6, <1>7, <1>8, <1>9, <1>10

LEMMA SwapStepInv == SwapInv /\ [ExchangeNext]_exchangeVars => SwapInv'
<1> SUFFICES ASSUME SwapInv, [ExchangeNext]_exchangeVars PROVE SwapInv'
  OBVIOUS
<1>1. CASE UNCHANGED exchangeVars
  <2> USE <1>1 DEF exchangeVars, SwapInv
  <2>1. SwapTypeOK' /\ SwapsAlone'
    BY DEF SwapTypeOK, LedgerTypeOK, SwapsAlone, On
  <2>2. SwapCalls' /\ SwapsEnd'
    BY DEF SwapCalls, SwapCall, SwapsEnd, On, Posted
  <2>3. RowsTellTheRate' /\ SwapsCovered'
    BY DEF RowsTellTheRate, SwapsCovered, InSwap, Posted
  <2> QED
    BY <2>1, <2>2, <2>3
<1>2. CASE ExchangeNext
  <2>1. ASSUME NEW s \in Slots, SwapRow(s) PROVE SwapInv'
    <3>1. Leave(s) /\ UNCHANGED <<journals, bal>>
      BY <2>1 DEF SwapRow
    <3> QED
      BY <2>1, <3>1, SwapLeaveInv
  <2>2. ASSUME NEW s \in Slots, Dies(s), clouded' = clouded \cup {call[s].row}, UNCHANGED swap
        PROVE  SwapInv'
    <3>1. Leave(s) /\ UNCHANGED <<journals, bal>>
      BY <2>2 DEF Dies, ledgerVars
    <3> QED
      BY <2>2, <3>1, SwapLeaveInv
  <2> QED
    BY <1>2, <2>1, <2>2, SwapBeginInv, SwapPostInv DEF ExchangeNext
<1> QED
  BY <1>1, <1>2

(* For any number of conversions, rates and requests at once: a row tells  *)
(* the rate its money moved at unless its key was clouded, and what        *)
(* overlaps overspends by no more than the others in flight                *)
(* (fxSettlementService.ts:80-131, crossBorderService.ts:72-109).          *)
THEOREM ExchangeInvariant == ExchangeSpec => []SwapInv
BY SwapInitInv, SwapStepInv, PTL DEF ExchangeSpec

LEMMA SwapInvBounds == SwapInv => RowsTellTheRate /\ OverspentByOverlap
<1> SUFFICES ASSUME SwapInv PROVE OverspentByOverlap
  BY DEF SwapInv
<1>1. Cardinality(InSwap) \in Nat /\ Cardinality(Slots) \in Nat
  BY SlotsFinite DEF InSwap
<1>2. SwapAmount \in Nat /\ bal[FromCash] \in Int
  BY ExchangeAssumption DEF SwapInv, SwapTypeOK, LedgerTypeOK, Effects
<1>3. PICK low \in Int : low = -(Cardinality(Slots) - 1) * SwapAmount
  BY <1>1, <1>2
<1>4. bal[FromCash] - Cardinality(InSwap) * SwapAmount >= low
  BY <1>3 DEF SwapInv, SwapsCovered
<1>5. bal[FromCash] - 0 * SwapAmount >= low
  BY <1>1, <1>2, <1>4, OverlapEnds
<1> QED
  BY <1>2, <1>3, <1>5 DEF OverspentByOverlap

-----------------------------------------------------------------------------
(* Yield: holders are paid once, for what they held, and overlaps redeem   *)
(* no more than what they checked.                                         *)

(* What a distribution has in hand: who is left, and what has been read.   *)
Views == (SUBSET UnitHolders) \X [UnitHolders -> Int]

YieldRequests ==
  Requests({"idle", "accrue", "distribute", "subscribe", "redeem", "deposit"},
           {"idle", "read", "pay", "post", "commit"},
           Actions \cup Subscriptions \cup Redemptions \cup {None}, Views \cup {None})

Div(a, h) == <<"dividend", a, h>>

YieldTypeOK ==
  /\ LedgerTypeOK
  /\ call \in [Slots -> YieldRequests]
  /\ declared \in SUBSET Actions /\ accrued \in SUBSET declared
  /\ held \in [Actions -> [UnitHolders -> SUBSET Int]]

(* What has been read was held; who is not left to be paid held nothing    *)
(* when read, or has been paid.                                            *)
YieldCall(c) ==
  /\ c.op \in {"accrue", "distribute"} =>
       /\ c.row \in declared /\ c.at \in {"read", "pay"} /\ c.saw \in Views
       /\ \A h \in UnitHolders :
            /\ c.at = "pay" \/ h \notin c.saw[1] => c.saw[2][h] \in held[c.row][h]
            /\ c.at = "pay" /\ h \notin c.saw[1] /\ c.saw[2][h] > 0 => Posted(Div(c.row, h))
  /\ c.op \in {"subscribe", "redeem"} => c.row \in Subscriptions /\ c.op = SubscriptionOf[c.row][1]

YieldCalls == \A s \in Slots : YieldCall(call[s])

(* What is held now has been held since every action that is declared.     *)
HeldCurrent == \A a \in declared, h \in UnitHolders : HeldNow(h) \in held[a][h]

DividendsTell ==
  /\ \A j \in DOMAIN journals : j[1] = "dividend" => j = Div(j[2], j[3])
  /\ \A a \in Actions, h \in UnitHolders :
       Posted(Div(a, h)) =>
         a \in declared /\ \E q \in held[a][h] : journals[Div(a, h)][HolderCash[h]] = q * PerUnit

AccrualsPay ==
  \A a \in accrued, h \in UnitHolders : Posted(Div(a, h)) \/ \E q \in held[a][h] : ~ (q > 0)

(* The redemptions from u that have checked its units and not taken them.  *)
Redeeming(u) ==
  {s \in Slots : call[s].op = "redeem" /\ HolderUnits[SubscriptionOf[call[s].row][2]] = u}

Amounts == [s \in Slots |-> SubscriptionOf[call[s].row][3]]

UnitsCovered == \A u \in UnitAccounts : RoomCovers(bal[u], Redeeming(u), Amounts, LargestQty)

YieldInv ==
  /\ YieldTypeOK /\ YieldCalls /\ HeldCurrent /\ DividendsTell /\ AccrualsPay
  /\ UnitsCovered /\ bal[DepositCash] >= 0

LEMMA YieldInitInv == YieldInit => YieldInv
<1> SUFFICES ASSUME YieldInit PROVE YieldInv
  OBVIOUS
<1> USE YieldAssumption, OpeningAssumption DEF YieldInit, ServiceInit, LedgerInit
<1>1. LedgerTypeOK
  BY DEF LedgerTypeOK, Effects
<1>2. YieldTypeOK
  BY <1>1 DEF YieldTypeOK, YieldRequests, Requests, Idle, Request, NotYet
<1>3. YieldCalls
  BY DEF YieldCalls, YieldCall, Idle, Request
<1>4. HeldCurrent /\ DividendsTell /\ AccrualsPay
  BY DEF HeldCurrent, DividendsTell, AccrualsPay, Posted
<1>5. UnitsCovered
  <2>1. ASSUME NEW u \in UnitAccounts PROVE RoomCovers(bal[u], Redeeming(u), Amounts, LargestQty)
    <3>1. Redeeming(u) = {}
      BY DEF Redeeming, Idle, Request
    <3>2. bal[u] \in Nat /\ LargestQty \in Nat
      BY DEF UnitAccounts
    <3> QED
      BY <3>1, <3>2, CoverStart
  <2> QED
    BY <2>1 DEF UnitsCovered
<1>6. bal[DepositCash] >= 0
  OBVIOUS
<1> QED
  BY <1>2, <1>3, <1>4, <1>5, <1>6 DEF YieldInv

(* Nothing that the requests have seen is taken back in a step, and those  *)
(* that stand still keep what they know.                                   *)
HistoryGrows ==
  /\ declared \subseteq declared'
  /\ \A a \in declared, h \in UnitHolders : held[a][h] \subseteq held'[a][h]
  /\ \A j : Posted(j) => Posted(j)'

LEMMA YieldCallStays ==
  ASSUME YieldInv, HistoryGrows, NEW s \in Slots, NEW c, call'[s] = c, YieldCall(c)
  PROVE  YieldCall(call[s])'
BY DEF HistoryGrows, YieldCall

LEMMA YieldCallsMove ==
  ASSUME YieldInv, HistoryGrows, NEW s \in Slots, NEW c \in YieldRequests, Becomes(s, c), YieldCall(c)'
  PROVE  call' \in [Slots -> YieldRequests] /\ YieldCalls'
<1>1. /\ call' \in [Slots -> YieldRequests] /\ call'[s] = c
      /\ \A t \in Slots \ {s} : call'[t] = call[t]
  BY BecomesOne DEF YieldInv, YieldTypeOK
<1>2. ASSUME NEW t \in Slots PROVE YieldCall(call[t])'
  <2>1. CASE t = s
    BY <1>1, <2>1 DEF YieldCall
  <2>2. CASE t # s
    <3>1. call'[t] = call[t] /\ YieldCall(call[t])
      BY <1>1, <2>2 DEF YieldInv, YieldCalls
    <3> QED
      BY <3>1, YieldCallStays
  <2> QED
    BY <2>1, <2>2
<1> QED
  BY <1>1, <1>2 DEF YieldCalls

(* Redemptions under way, when a request that is none of them moves.       *)
LEMMA UnitsStayCovered ==
  ASSUME YieldInv, NEW s \in Slots, NEW c \in YieldRequests, Becomes(s, c), c.op # "redeem",
         \A u \in UnitAccounts :
           bal'[u] \in Int
             /\ bal'[u] >= bal[u] - (IF s \in Redeeming(u) THEN Amounts[s] ELSE 0)
  PROVE  UnitsCovered'
<1>1. /\ call' \in [Slots -> YieldRequests] /\ call'[s] = c
      /\ \A t \in Slots \ {s} : call'[t] = call[t]
  BY BecomesOne DEF YieldInv, YieldTypeOK
<1>2. ASSUME NEW u \in UnitAccounts PROVE RoomCovers(bal'[u], Redeeming(u)', Amounts', LargestQty)
  <2>1. Redeeming(u)' = Redeeming(u) \ {s} /\ Redeeming(u) \in SUBSET Slots
    BY <1>1 DEF Redeeming
  <2>2. \A t \in Redeeming(u) : Amounts[t] \in 0..LargestQty
    BY YieldAssumption DEF Redeeming, Amounts, YieldInv, YieldCalls, YieldCall
  <2>3. \A t \in Slots \ {s} : Amounts'[t] = Amounts[t]
    BY <1>1 DEF Amounts
  <2>4. LargestQty \in Nat /\ bal[u] \in Int /\ bal'[u] \in Int
    BY YieldAssumption DEF YieldInv, YieldTypeOK, LedgerTypeOK, Effects, UnitAccounts
  <2>5. RoomCovers(bal[u], Redeeming(u), Amounts, LargestQty)
    BY DEF YieldInv, UnitsCovered
  <2>6. CASE s \in Redeeming(u)
    <3>1. bal'[u] >= bal[u] - Amounts[s]
      BY <2>6
    <3>2. \A t \in Redeeming(u) \ {s} : Amounts'[t] = Amounts[t]
      BY <2>1, <2>3
    <3>3. RoomCovers(bal'[u], Redeeming(u) \ {s}, Amounts', LargestQty)
      BY <2>1, <2>2, <2>4, <2>5, <2>6, <3>1, <3>2, CoverEnds
    <3> QED
      BY <2>1, <3>3
  <2>7. CASE s \notin Redeeming(u)
    <3>1. bal'[u] >= bal[u] /\ Redeeming(u)' = Redeeming(u)
      BY <2>1, <2>4, <2>7
    <3>2. \A t \in Redeeming(u) : Amounts'[t] = Amounts[t]
      BY <2>1, <2>3, <2>7
    <3> QED
      BY <2>1, <2>2, <2>4, <2>5, <3>1, <3>2, CoverStays
  <2> QED
    BY <2>6, <2>7
<1> QED
  BY <1>2 DEF UnitsCovered

(* A step that leaves the ledger alone, and counts no redemption.          *)
LEMMA YieldQuietInv ==
  ASSUME YieldInv, NEW s \in Slots, NEW c \in YieldRequests, Becomes(s, c), c.op # "redeem",
         UNCHANGED <<journals, bal, held, declared>>, YieldCall(c)',
         accrued' \in SUBSET declared,
         \A a \in accrued' \ accrued, h \in UnitHolders :
           Posted(Div(a, h)) \/ \E q \in held[a][h] : ~ (q > 0)
  PROVE  YieldInv'
<1> USE DEF YieldInv
<1>1. HistoryGrows
  BY DEF HistoryGrows, Posted
<1>2. YieldCalls' /\ YieldTypeOK'
  BY <1>1, YieldCallsMove DEF YieldTypeOK, LedgerTypeOK
<1>3. HeldCurrent' /\ DividendsTell'
  BY DEF HeldCurrent, HeldNow, DividendsTell, Posted
<1>4. AccrualsPay'
  BY DEF AccrualsPay, Posted
<1>5. UnitsCovered'
  <2>1. ASSUME NEW u \in UnitAccounts
        PROVE  /\ bal'[u] \in Int
               /\ bal'[u] >= bal[u] - (IF s \in Redeeming(u) THEN Amounts[s] ELSE 0)
    <3>1. bal[u] \in Int
      BY YieldAssumption DEF YieldTypeOK, LedgerTypeOK, Effects, UnitAccounts
    <3>2. s \in Redeeming(u) => Amounts[s] \in Nat
      BY YieldAssumption DEF Redeeming, Amounts, YieldCalls, YieldCall
    <3> QED
      BY <3>1, <3>2
  <2> QED
    BY <2>1, UnitsStayCovered
<1> QED
  BY <1>2, <1>3, <1>4, <1>5

LEMMA IdleYield == Idle \in YieldRequests /\ Idle.op = "idle" /\ YieldCall(Idle)'
BY DEF YieldRequests, Requests, Idle, Request, YieldCall

LEMMA DistributeInv ==
  ASSUME YieldInv, NEW s \in Slots, NEW a \in Actions, Distribute(s, a)
  PROVE  YieldInv'
<1> DEFINE c == Request("distribute", "read", a, <<UnitHolders, Unread>>)
<1>1. a \in declared /\ Becomes(s, c) /\ UNCHANGED <<journals, bal, declared, accrued, held>>
  BY DEF Distribute, Begin, Becomes
<1>2. Unread \in [UnitHolders -> Int]
  BY DEF Unread
<1>3. c \in YieldRequests /\ c.op = "distribute"
  BY <1>2 DEF YieldRequests, Requests, Request, Views
<1>4. YieldCall(c)'
  BY <1>1, <1>2 DEF YieldCall, Request, Views
<1> QED
  BY <1>1, <1>3, <1>4, YieldQuietInv DEF YieldInv, YieldTypeOK

LEMMA SubscriptionCallInv ==
  ASSUME YieldInv, NEW s \in Slots, NEW k \in Subscriptions, SubscriptionCall(s, k)
  PROVE  YieldInv'
<1> USE DEF YieldInv
<1> DEFINE op == SubscriptionOf[k][1]
           u0 == HolderUnits[SubscriptionOf[k][2]]
           c == Request(op, "post", k, None)
<1>1. call[s] = Idle /\ Becomes(s, c) /\ UNCHANGED <<journals, bal, declared, accrued, held>>
  BY DEF SubscriptionCall, Begin, Becomes
<1>2. /\ op \in {"subscribe", "redeem"} /\ SubscriptionOf[k][2] \in UnitHolders
      /\ SubscriptionOf[k][3] \in 1..LargestQty /\ LargestQty \in Nat
      /\ op = "redeem" => bal[u0] >= SubscriptionOf[k][3]
  BY YieldAssumption DEF SubscriptionCall, HeldNow
<1>3. c \in YieldRequests
  BY <1>2 DEF YieldRequests, Requests, Request
<1>4. c.op = op /\ c.row = k /\ c.at = "post"
  BY DEF Request
<1>5. YieldCall(c)'
  BY <1>2, <1>4 DEF YieldCall
<1>6. CASE op # "redeem"
  <2> HIDE DEF c
  <2> QED
    BY <1>1, <1>3, <1>4, <1>5, <1>6, YieldQuietInv DEF YieldTypeOK
<1>7. CASE op = "redeem"
  <2> HIDE DEF c
  <2>1. HistoryGrows
    BY <1>1 DEF HistoryGrows, Posted
  <2>2. YieldCalls' /\ YieldTypeOK'
    BY <1>1, <1>3, <1>5, <2>1, YieldCallsMove DEF YieldTypeOK, LedgerTypeOK
  <2>3. HeldCurrent' /\ DividendsTell' /\ AccrualsPay'
    BY <1>1 DEF HeldCurrent, HeldNow, DividendsTell, AccrualsPay, Posted
  <2>4. /\ call'[s] = c /\ \A t \in Slots \ {s} : call'[t] = call[t]
    BY <1>1, <1>3, BecomesOne DEF YieldTypeOK
  <2>5. /\ Amounts'[s] = SubscriptionOf[k][3]
        /\ \A t \in Slots \ {s} : Amounts'[t] = Amounts[t]
    BY <1>4, <2>4 DEF Amounts
  <2>6. ASSUME NEW u \in UnitAccounts PROVE RoomCovers(bal[u], Redeeming(u)', Amounts', LargestQty)
    <3>1. /\ Redeeming(u) \in SUBSET Slots /\ s \notin Redeeming(u)
          /\ Redeeming(u)' = IF u = u0 THEN Redeeming(u) \cup {s} ELSE Redeeming(u)
      BY <1>1, <1>4, <1>7, <2>4 DEF Redeeming, Idle, Request
    <3>2. bal[u] \in Int
      BY YieldAssumption DEF YieldTypeOK, LedgerTypeOK, Effects, UnitAccounts
    <3>3. CASE u = u0
      <4>1. Amounts'[s] \in Nat /\ bal[u] >= Amounts'[s] /\ s \in Slots \ Redeeming(u)
        BY <1>2, <1>7, <2>5, <3>1, <3>3
      <4>2. RoomCovers(bal[u], Redeeming(u) \cup {s}, Amounts', LargestQty)
        BY <1>2, <3>1, <3>2, <4>1, CoverBegins
      <4> QED
        BY <3>1, <3>3, <4>2
    <3>4. CASE u # u0
      <4>1. \A t \in Redeeming(u) : Amounts[t] \in 0..LargestQty
        BY YieldAssumption DEF Redeeming, Amounts, YieldCalls, YieldCall
      <4>2. \A t \in Redeeming(u) : Amounts'[t] = Amounts[t]
        BY <2>5, <3>1
      <4>3. RoomCovers(bal[u], Redeeming(u), Amounts, LargestQty) /\ bal[u] >= bal[u]
        BY <3>2 DEF UnitsCovered
      <4>4. RoomCovers(bal[u], Redeeming(u), Amounts', LargestQty)
        BY <1>2, <3>1, <3>2, <4>1, <4>2, <4>3, CoverStays
      <4> QED
        BY <3>1, <3>4, <4>4
    <3> QED
      BY <3>3, <3>4
  <2>7. UnitsCovered'
    BY <1>1, <2>6 DEF UnitsCovered
  <2> QED
    BY <1>1, <2>2, <2>3, <2>7
<1> QED
  BY <1>6, <1>7

LEMMA DepositRedeemInv ==
  ASSUME YieldInv, NEW s \in Slots, NEW k \in Redemptions, DepositRedeem(s, k)
  PROVE  YieldInv'
<1> DEFINE c == Request("deposit", "commit", k, None)
<1>1. Becomes(s, c) /\ UNCHANGED <<journals, bal, declared, accrued, held>>
  BY DEF DepositRedeem, Begin, Becomes
<1>2. c \in YieldRequests /\ c.op = "deposit" /\ YieldCall(c)'
  BY DEF YieldRequests, Requests, Request, YieldCall
<1> QED
  BY <1>1, <1>2, YieldQuietInv DEF YieldInv, YieldTypeOK

(* The request of a distribution, with another view.                       *)
LEMMA YieldSees ==
  ASSUME YieldInv, NEW s \in Slots, NEW at \in {"read", "pay"}, NEW saw \in Views,
         Seeing(s, at, saw), call[s].op \in {"accrue", "distribute"}
  PROVE  \E c \in YieldRequests :
           /\ Becomes(s, c)
           /\ c.op = call[s].op /\ c.row = call[s].row /\ c.at = at /\ c.saw = saw
<1>1. call[s].row \in Actions
  BY DEF YieldInv, YieldTypeOK, YieldCalls, YieldCall
<1>2. Request(call[s].op, at, call[s].row, saw) \in YieldRequests
  BY <1>1 DEF YieldRequests, Requests, Request
<1> QED
  BY <1>2 DEF Seeing, Becomes, Request

LEMMA ReadHolderInv ==
  ASSUME YieldInv, NEW s \in Slots, ReadHolder(s)
  PROVE  YieldInv'
<1> USE DEF YieldInv
<1>1. /\ call[s].op \in {"accrue", "distribute"} /\ call[s].at = "read"
      /\ UNCHANGED <<journals, bal, declared, accrued, held>>
  BY DEF ReadHolder, Distributing
<1>2. PICK a, left, read : a = call[s].row /\ left = call[s].saw[1] /\ read = call[s].saw[2]
  OBVIOUS
<1>3. /\ a \in declared /\ left \in SUBSET UnitHolders /\ read \in [UnitHolders -> Int]
      /\ \A h \in UnitHolders \ left : read[h] \in held[a][h]
  BY <1>1, <1>2 DEF YieldCalls, YieldCall, Views
<1>4. CASE left = {}
  <2> DEFINE saw == <<{h \in UnitHolders : read[h] > 0}, read>>
  <2>1. Seeing(s, "pay", saw) /\ saw \in Views
    BY <1>2, <1>3, <1>4 DEF ReadHolder, Views
  <2>2. PICK c \in YieldRequests :
          /\ Becomes(s, c)
          /\ c.op = call[s].op /\ c.row = call[s].row /\ c.at = "pay" /\ c.saw = saw
    BY <1>1, <2>1, YieldSees
  <2>3. YieldCall(c)'
    BY <1>1, <1>2, <1>3, <1>4, <2>1, <2>2 DEF YieldCall
  <2> QED
    BY <1>1, <2>2, <2>3, YieldQuietInv DEF YieldTypeOK
<1>5. ASSUME NEW h \in left, Seeing(s, "read", <<left \ {h}, [read EXCEPT ![h] = HeldNow(h)]>>)
      PROVE  YieldInv'
  <2> DEFINE seen == [read EXCEPT ![h] = HeldNow(h)]
             saw == <<left \ {h}, seen>>
  <2>1. HeldNow(h) \in Int /\ HeldNow(h) \in held[a][h]
    BY <1>3, YieldAssumption DEF HeldNow, HeldCurrent, YieldTypeOK, LedgerTypeOK, Effects
  <2>2. seen \in [UnitHolders -> Int] /\ \A g \in UnitHolders : seen[g] = IF g = h THEN HeldNow(h) ELSE read[g]
    BY <1>3, <2>1
  <2> HIDE DEF seen
  <2>3. saw \in Views
    BY <1>3, <2>2 DEF Views
  <2>4. PICK c \in YieldRequests :
          /\ Becomes(s, c)
          /\ c.op = call[s].op /\ c.row = call[s].row /\ c.at = "read" /\ c.saw = saw
    BY <1>1, <1>5, <2>3, YieldSees DEF seen
  <2>5. c.saw[1] = left \ {h} /\ c.saw[2] = seen
    BY <2>4
  <2> HIDE DEF saw
  <2>6. \A g \in UnitHolders : g \notin left \ {h} => seen[g] \in held[a][g]
    BY <1>3, <2>1, <2>2
  <2>7. YieldCall(c)'
    BY <1>1, <1>2, <1>3, <2>3, <2>4, <2>5, <2>6 DEF YieldCall
  <2> QED
    BY <1>1, <2>4, <2>7, YieldQuietInv DEF YieldTypeOK
<1> QED
  BY <1>2, <1>4, <1>5 DEF ReadHolder

LEMMA DistributedInv ==
  ASSUME YieldInv, NEW s \in Slots, Distributed(s)
  PROVE  YieldInv'
<1> USE DEF YieldInv
<1>1. /\ call[s].op \in {"accrue", "distribute"} /\ call[s].at = "pay" /\ call[s].saw[1] = {}
      /\ Becomes(s, Idle) /\ UNCHANGED <<journals, bal, declared, held>>
      /\ accrued' \subseteq accrued \cup {call[s].row}
  BY DEF Distributed, Distributing, Leave, Becomes
<1>2. PICK a, read : a = call[s].row /\ read = call[s].saw[2]
  OBVIOUS
<1>3. /\ a \in declared /\ read \in [UnitHolders -> Int]
      /\ \A h \in UnitHolders : read[h] \in held[a][h] /\ (read[h] > 0 => Posted(Div(a, h)))
  BY <1>1, <1>2 DEF YieldCalls, YieldCall, Views
<1>4. \A h \in UnitHolders : Posted(Div(a, h)) \/ \E q \in held[a][h] : ~ (q > 0)
  BY <1>3
<1> QED
  BY <1>1, <1>2, <1>3, <1>4, IdleYield, YieldQuietInv DEF YieldTypeOK

LEMMA YieldDiesInv ==
  ASSUME YieldInv, NEW s \in Slots, Dies(s), UNCHANGED <<declared, accrued, held>>
  PROVE  YieldInv'
<1>1. Becomes(s, Idle) /\ UNCHANGED <<journals, bal>>
  BY DEF Dies, Leave, Becomes, ledgerVars
<1> QED
  BY <1>1, IdleYield, YieldQuietInv DEF YieldInv, YieldTypeOK

LEMMA DeclareInv ==
  ASSUME YieldInv, NEW s \in Slots, NEW a \in Actions, NEW op \in {"accrue", "declare"},
         Declare(s, a, op)
  PROVE  YieldInv'
<1> USE DEF YieldInv
<1>1. /\ a \notin declared /\ declared' = declared \cup {a}
      /\ held' = [held EXCEPT ![a] = [h \in UnitHolders |-> {HeldNow(h)}]]
      /\ UNCHANGED <<journals, bal, accrued>>
  BY DEF Declare
<1>2. \A h \in UnitHolders : HeldNow(h) \in Int
  BY YieldAssumption DEF HeldNow, YieldTypeOK, LedgerTypeOK, Effects
<1>3. /\ held' \in [Actions -> [UnitHolders -> SUBSET Int]]
      /\ \A b \in Actions, h \in UnitHolders :
           held'[b][h] = IF b = a THEN {HeldNow(h)} ELSE held[b][h]
  BY <1>1, <1>2 DEF YieldTypeOK
<1>4. HistoryGrows
  BY <1>1, <1>3 DEF HistoryGrows, YieldTypeOK, Posted
<1>5. call' \in [Slots -> YieldRequests] /\ YieldCalls' /\ UnitsCovered'
  <2>1. CASE op = "accrue"
    <3> DEFINE c == Request("accrue", "read", a, <<UnitHolders, Unread>>)
    <3>1. Becomes(s, c)
      BY <2>1 DEF Declare, Begin, Becomes
    <3>2. Unread \in [UnitHolders -> Int]
      BY DEF Unread
    <3>3. c \in YieldRequests /\ c.op = "accrue"
      BY <3>2 DEF YieldRequests, Requests, Request, Views
    <3>4. YieldCall(c)'
      BY <1>1, <3>2 DEF YieldCall, Request, Views
    <3>5. ASSUME NEW u \in UnitAccounts
          PROVE  /\ bal'[u] \in Int
                 /\ bal'[u] >= bal[u] - (IF s \in Redeeming(u) THEN Amounts[s] ELSE 0)
      <4>1. bal[u] \in Int /\ bal' = bal
        BY <1>1, YieldAssumption DEF YieldTypeOK, LedgerTypeOK, Effects, UnitAccounts
      <4>2. s \in Redeeming(u) => Amounts[s] \in Nat
        BY YieldAssumption DEF Redeeming, Amounts, YieldCalls, YieldCall
      <4> QED
        BY <4>1, <4>2
    <3> HIDE DEF c
    <3> QED
      BY <1>4, <3>1, <3>3, <3>4, <3>5, YieldCallsMove, UnitsStayCovered
  <2>2. CASE op = "declare"
    <3>1. call' = call
      BY <2>2 DEF Declare
    <3>2. ASSUME NEW t \in Slots PROVE YieldCall(call[t])'
      <4>1. call'[t] = call[t] /\ YieldCall(call[t])
        BY <3>1 DEF YieldCalls
      <4> QED
        BY <1>4, <4>1, YieldCallStays
    <3>3. UnitsCovered'
      BY <1>1, <3>1 DEF UnitsCovered, Redeeming, Amounts
    <3> QED
      BY <3>1, <3>2, <3>3 DEF YieldTypeOK, YieldCalls
  <2> QED
    BY <2>1, <2>2
<1>6. YieldTypeOK'
  BY <1>1, <1>3, <1>5 DEF YieldTypeOK, LedgerTypeOK
<1>7. HeldCurrent'
  BY <1>1, <1>3 DEF HeldCurrent, HeldNow, YieldTypeOK
<1>8. DividendsTell'
  BY <1>1, <1>3 DEF DividendsTell, Posted
<1>9. AccrualsPay'
  BY <1>1, <1>3 DEF AccrualsPay, Posted, YieldTypeOK
<1> QED
  BY <1>1, <1>5, <1>6, <1>7, <1>8, <1>9

(* A step that posts a journal: a dividend of its own kind, and off the    *)
(* units no more than the amount checked.                                  *)
LEMMA YieldPostInv ==
  ASSUME YieldInv, NEW s \in Slots, NEW c \in YieldRequests, Becomes(s, c), c.op # "redeem",
         NEW key, NEW d \in Effects, PostJournal(key, d), UNCHANGED <<declared, accrued>>,
         held' \in [Actions -> [UnitHolders -> SUBSET Int]],
         \A a \in Actions, h \in UnitHolders : held[a][h] \subseteq held'[a][h],
         HeldCurrent', Posted(key)' => YieldCall(c)', bal'[DepositCash] >= 0,
         key[1] = "dividend" =>
           \E a \in declared, h \in UnitHolders :
             key = Div(a, h) /\ \E q \in held[a][h] : d[HolderCash[h]] = q * PerUnit,
         \A u \in UnitAccounts : d[u] >= -(IF s \in Redeeming(u) THEN Amounts[s] ELSE 0)
  PROVE  YieldInv'
<1> USE DEF YieldInv
<1>1. /\ LedgerTypeOK' /\ Posted(key)'
      /\ ~Posted(key) => journals'[key] = d
      /\ \A j : Posted(j) => Posted(j)' /\ journals'[j] = journals[j]
      /\ \A j : Posted(j)' => Posted(j) \/ j = key
  BY PostKeeps DEF YieldTypeOK
<1>2. HistoryGrows
  BY <1>1 DEF HistoryGrows, YieldTypeOK
<1>3. call' \in [Slots -> YieldRequests] /\ YieldCalls'
  BY <1>1, <1>2, YieldCallsMove
<1>4. YieldTypeOK'
  BY <1>1, <1>3 DEF YieldTypeOK
<1>5. DividendsTell'
  <2>1. ASSUME NEW j \in DOMAIN journals', j[1] = "dividend" PROVE j = Div(j[2], j[3])
    <3>1. CASE Posted(j)
      BY <2>1, <3>1 DEF DividendsTell, Posted
    <3>2. CASE j = key
      BY <2>1, <3>2 DEF Div
    <3> QED
      BY <1>1, <2>1, <3>1, <3>2 DEF Posted
  <2>2. ASSUME NEW a \in Actions, NEW h \in UnitHolders, Posted(Div(a, h))'
        PROVE  /\ a \in declared'
               /\ \E q \in held'[a][h] : journals'[Div(a, h)][HolderCash[h]] = q * PerUnit
    <3>1. CASE Posted(Div(a, h))
      BY <1>1, <3>1 DEF DividendsTell
    <3>2. CASE ~Posted(Div(a, h))
      <4>1. key = Div(a, h) /\ journals'[key] = d
        BY <1>1, <2>2, <3>2
      <4>2. key[1] = "dividend"
        BY <4>1 DEF Div
      <4>3. PICK b \in declared, g \in UnitHolders :
              key = Div(b, g) /\ \E q \in held[b][g] : d[HolderCash[g]] = q * PerUnit
        BY <4>2
      <4>4. b = a /\ g = h
        BY <4>1, <4>3 DEF Div
      <4> QED
        BY <4>1, <4>3, <4>4
    <3> QED
      BY <3>1, <3>2
  <2> QED
    BY <2>1, <2>2 DEF DividendsTell
<1>6. AccrualsPay'
  <2>1. ASSUME NEW a \in accrued, NEW h \in UnitHolders
        PROVE  Posted(Div(a, h))' \/ \E q \in held'[a][h] : ~ (q > 0)
    BY <1>1 DEF AccrualsPay, YieldTypeOK
  <2> QED
    BY <2>1 DEF AccrualsPay
<1>7. UnitsCovered'
  <2>1. ASSUME NEW u \in UnitAccounts
        PROVE  /\ bal'[u] \in Int
               /\ bal'[u] >= bal[u] - (IF s \in Redeeming(u) THEN Amounts[s] ELSE 0)
    <3>1. u \in Accounts
      BY YieldAssumption DEF UnitAccounts
    <3>2. /\ bal[u] \in Int /\ bal'[u] \in Int /\ d[u] \in Int
          /\ bal'[u] = IF Posted(key) THEN bal[u] ELSE bal[u] + d[u]
      BY <3>1, PostMoves DEF YieldTypeOK
    <3>3. s \in Redeeming(u) => Amounts[s] \in Nat
      BY YieldAssumption DEF Redeeming, Amounts, YieldCalls, YieldCall
    <3> QED
      BY <3>2, <3>3
  <2> QED
    BY <2>1, UnitsStayCovered
<1> QED
  BY <1>3, <1>4, <1>5, <1>6, <1>7

LEMMA PayHolderInv ==
  ASSUME YieldInv, NEW s \in Slots, PayHolder(s)
  PROVE  YieldInv'
<1> USE DEF YieldInv
<1>1. /\ call[s].op \in {"accrue", "distribute"} /\ call[s].at = "pay"
      /\ UNCHANGED <<declared, accrued, held>>
  BY DEF PayHolder, Distributing
<1>2. PICK a, left, read : a = call[s].row /\ left = call[s].saw[1] /\ read = call[s].saw[2]
  OBVIOUS
<1>3. /\ a \in declared /\ left \in SUBSET UnitHolders /\ read \in [UnitHolders -> Int]
      /\ \A h \in UnitHolders : read[h] \in held[a][h]
      /\ \A h \in UnitHolders \ left : read[h] > 0 => Posted(Div(a, h))
  BY <1>1, <1>2 DEF YieldCalls, YieldCall, Views
<1>4. PICK h \in left :
        /\ PostJournal(Div(a, h), Move(YieldSource, HolderCash[h], read[h] * PerUnit))
        /\ Seeing(s, "pay", <<left \ {h}, read>>)
  BY <1>2 DEF PayHolder, Payout, Div
<1>5. <<left \ {h}, read>> \in Views
  BY <1>3 DEF Views
<1>6. PICK c \in YieldRequests :
        /\ Becomes(s, c)
        /\ c.op = call[s].op /\ c.row = call[s].row /\ c.at = "pay" /\ c.saw = <<left \ {h}, read>>
  BY <1>1, <1>4, <1>5, YieldSees
<1> DEFINE d == Move(YieldSource, HolderCash[h], read[h] * PerUnit)
<1>7. read[h] * PerUnit \in Int /\ HolderCash[h] \in CashAccounts /\ h \in UnitHolders
  BY <1>3, YieldAssumption DEF CashAccounts
<1>8. d \in Effects
  BY <1>7, MoveType
<1>9. d[HolderCash[h]] = read[h] * PerUnit
  BY <1>7, YieldAssumption DEF Move
<1>10. \A u \in UnitAccounts \cup {DepositCash} : u \in Accounts /\ d[u] = 0
  BY <1>7, YieldAssumption, MoveSpares DEF UnitAccounts
<1> HIDE DEF d
<1>11. \A u \in UnitAccounts \cup {DepositCash} : bal'[u] = bal[u] /\ bal[u] \in Int
  <2>1. ASSUME NEW u \in UnitAccounts \cup {DepositCash} PROVE bal'[u] = bal[u] /\ bal[u] \in Int
    <3>1. /\ bal[u] \in Int /\ bal'[u] \in Int /\ d[u] \in Int
          /\ bal'[u] = IF Posted(Div(a, h)) THEN bal[u] ELSE bal[u] + d[u]
      BY <1>4, <1>8, <1>10, PostMoves DEF YieldTypeOK, d
    <3> QED
      BY <1>10, <3>1
  <2> QED
    BY <2>1
<1>12. HeldCurrent'
  BY <1>1, <1>11 DEF HeldCurrent, HeldNow, UnitAccounts
<1>13. Posted(Div(a, h))' => YieldCall(c)'
  <2>1. \A j : Posted(j) => Posted(j)'
    BY <1>4, <1>8, PostKeeps DEF YieldTypeOK, d
  <2>2. \A g \in UnitHolders : g \notin left \ {h} /\ read[g] > 0 /\ g # h => Posted(Div(a, g))'
    BY <1>3, <2>1
  <2>3. c.saw[1] = left \ {h} /\ c.saw[2] = read
    BY <1>6
  <2> QED
    BY <1>1, <1>2, <1>3, <1>5, <1>6, <2>2, <2>3 DEF YieldCall
<1>14. \A u \in UnitAccounts : d[u] >= -(IF s \in Redeeming(u) THEN Amounts[s] ELSE 0)
  <2>1. \A u \in UnitAccounts : s \notin Redeeming(u)
    BY <1>1 DEF Redeeming
  <2> QED
    BY <1>10, <2>1
<1>15. PostJournal(Div(a, h), d)
  BY <1>4 DEF d
<1>16. \E b \in declared, g \in UnitHolders :
         Div(a, h) = Div(b, g) /\ \E q \in held[b][g] : d[HolderCash[g]] = q * PerUnit
  BY <1>3, <1>7, <1>9
<1>17. c.op # "redeem" /\ bal'[DepositCash] >= 0
  BY <1>1, <1>6, <1>11
<1> QED
  BY <1>1, <1>6, <1>8, <1>12, <1>13, <1>14, <1>15, <1>16, <1>17, YieldPostInv DEF YieldTypeOK

(* What a subscription or a redemption moves.                              *)
LEMMA SubscriptionMoves ==
  ASSUME NEW k \in Subscriptions
  PROVE  /\ SubscriptionEffect(k) \in Effects
         /\ SubscriptionEffect(k)[DepositCash] = 0
         /\ \A u \in UnitAccounts :
              SubscriptionEffect(k)[u] >=
                -(IF SubscriptionOf[k][1] = "redeem" /\ u = HolderUnits[SubscriptionOf[k][2]]
                    THEN SubscriptionOf[k][3] ELSE 0)
<1> USE YieldAssumption
<1>1. PICK op, h, qty : op = SubscriptionOf[k][1] /\ h = SubscriptionOf[k][2] /\ qty = SubscriptionOf[k][3]
  OBVIOUS
<1>2. op \in {"subscribe", "redeem"} /\ h \in UnitHolders /\ qty \in Nat /\ qty * ParMinor \in Int
  BY <1>1
<1>3. HolderCash[h] \in CashAccounts /\ HolderUnits[h] \in UnitAccounts
  BY <1>2 DEF CashAccounts, UnitAccounts
<1> DEFINE m1 == Move(HolderCash[h], SubSink, qty * ParMinor)
           m2 == Move(TokenSupply, HolderUnits[h], qty)
           m3 == Move(SubSink, HolderCash[h], qty * ParMinor)
           m4 == Move(HolderUnits[h], TokenSupply, qty)
<1>4. m1 \in Effects /\ m2 \in Effects /\ m3 \in Effects /\ m4 \in Effects
  BY <1>2, MoveType
<1>5. m1[DepositCash] = 0 /\ m2[DepositCash] = 0 /\ m3[DepositCash] = 0 /\ m4[DepositCash] = 0
  BY <1>2, <1>3, MoveSpares
<1>6. ASSUME NEW u \in UnitAccounts
      PROVE  /\ u \in Accounts /\ m1[u] = 0 /\ m3[u] = 0 /\ m2[u] >= 0
             /\ m4[u] = IF u = HolderUnits[h] THEN -qty ELSE 0
  <2>1. u \in Accounts /\ u \notin {HolderCash[h], SubSink, TokenSupply}
    BY <1>3 DEF UnitAccounts
  <2>2. m1[u] = 0 /\ m3[u] = 0
    BY <1>2, <2>1, MoveSpares
  <2> QED
    BY <1>2, <2>1, <2>2 DEF Move
<1>7. SubscriptionEffect(k) = IF op = "subscribe" THEN Both(m1, m2) ELSE Both(m3, m4)
  BY <1>1 DEF SubscriptionEffect
<1> HIDE DEF m1, m2, m3, m4
<1>8. /\ Both(m1, m2) \in Effects /\ Both(m3, m4) \in Effects
      /\ \A u \in Accounts : Both(m1, m2)[u] = m1[u] + m2[u] /\ Both(m3, m4)[u] = m3[u] + m4[u]
  BY <1>4 DEF Both, Effects
<1>9. Both(m1, m2)[DepositCash] = 0 /\ Both(m3, m4)[DepositCash] = 0
  BY <1>5, <1>8
<1>10. ASSUME NEW u \in UnitAccounts
       PROVE  Both(m1, m2)[u] >= 0 /\ Both(m3, m4)[u] = IF u = HolderUnits[h] THEN -qty ELSE 0
  BY <1>4, <1>6, <1>8 DEF Effects
<1>11. CASE op = "subscribe"
  BY <1>1, <1>2, <1>7, <1>8, <1>9, <1>10, <1>11
<1>12. CASE op = "redeem"
  BY <1>1, <1>2, <1>7, <1>8, <1>9, <1>10, <1>12
<1> QED
  BY <1>2, <1>11, <1>12

LEMMA SubscriptionPostInv ==
  ASSUME YieldInv, NEW s \in Slots, SubscriptionPost(s)
  PROVE  YieldInv'
<1> USE DEF YieldInv
<1>1. PICK k, op : k = call[s].row /\ op = call[s].op
  OBVIOUS
<1>2. /\ op \in {"subscribe", "redeem"} /\ k \in Subscriptions /\ op = SubscriptionOf[k][1]
      /\ Becomes(s, Idle) /\ UNCHANGED <<declared, accrued>>
      /\ PostJournal(<<op, k>>, SubscriptionEffect(k))
  BY <1>1 DEF SubscriptionPost, YieldCalls, YieldCall, Leave, Becomes
<1>3. Moved
  BY DEF SubscriptionPost
<1> DEFINE d == SubscriptionEffect(k)
           key == <<op, k>>
<1>4. d \in Effects /\ d[DepositCash] = 0
  BY <1>2, SubscriptionMoves
<1>5. \A u \in UnitAccounts : d[u] >= -(IF s \in Redeeming(u) THEN Amounts[s] ELSE 0)
  <2>1. ASSUME NEW u \in UnitAccounts
        PROVE  /\ s \in Redeeming(u) <=> op = "redeem" /\ u = HolderUnits[SubscriptionOf[k][2]]
               /\ Amounts[s] = SubscriptionOf[k][3]
    BY <1>1 DEF Redeeming, Amounts
  <2> QED
    BY <1>2, <2>1, SubscriptionMoves
<1>6. key[1] # "dividend"
  BY <1>2
<1> HIDE DEF d
<1>7. PostJournal(key, d)
  BY <1>2 DEF d
<1> HIDE DEF key
<1>8. \A u \in Accounts : bal'[u] \in Int
  <2>1. LedgerTypeOK'
    BY <1>4, <1>7, PostKeeps DEF YieldTypeOK
  <2> QED
    BY <2>1 DEF LedgerTypeOK, Effects
<1>9. bal'[DepositCash] >= 0
  <2>1. DepositCash \in Accounts
    BY YieldAssumption
  <2>2. /\ bal[DepositCash] \in Int
        /\ bal'[DepositCash] = IF Posted(key) THEN bal[DepositCash] ELSE bal[DepositCash] + d[DepositCash]
    BY <1>4, <1>7, <2>1, PostMoves DEF YieldTypeOK
  <2> QED
    BY <1>4, <2>2
<1>10. ASSUME NEW a \in Actions, NEW h \in UnitHolders
       PROVE  /\ bal'[HolderUnits[h]] \in Int
              /\ held'[a][h] = IF a \in declared THEN held[a][h] \cup {bal'[HolderUnits[h]]} ELSE held[a][h]
  BY <1>3, <1>8, YieldAssumption DEF Moved
<1>11. held' \in [Actions -> [UnitHolders -> SUBSET Int]]
  <2>1. \A a \in Actions : held'[a] \in [UnitHolders -> SUBSET Int]
    BY <1>3, <1>8, YieldAssumption DEF Moved, YieldTypeOK
  <2> QED
    BY <1>3, <2>1 DEF Moved
<1>12. HeldCurrent'
  <2>1. declared' = declared /\ declared \subseteq Actions
    BY <1>2 DEF YieldTypeOK
  <2>2. \A a \in declared, h \in UnitHolders : bal'[HolderUnits[h]] \in held'[a][h]
    BY <1>10, <2>1
  <2> QED
    BY <2>1, <2>2 DEF HeldCurrent, HeldNow
<1>13. \A a \in Actions, h \in UnitHolders : held[a][h] \subseteq held'[a][h]
  BY <1>10
<1>14. Idle \in YieldRequests /\ Idle.op # "redeem" /\ YieldCall(Idle)'
  BY IdleYield
<1> QED
  BY <1>2, <1>4, <1>5, <1>6, <1>7, <1>9, <1>11, <1>12, <1>13, <1>14, YieldPostInv

LEMMA DepositCommitInv ==
  ASSUME YieldInv, NEW s \in Slots, DepositCommit(s)
  PROVE  YieldInv'
<1> USE DEF YieldInv
<1>1. /\ call[s].op = "deposit" /\ Becomes(s, Idle) /\ UNCHANGED <<declared, accrued, held>>
  BY DEF DepositCommit, At, Leave, Becomes
<1>2. Idle \in YieldRequests /\ Idle.op # "redeem" /\ YieldCall(Idle)'
  BY IdleYield
<1>3. CASE bal[DepositCash] < RedeemMinor
  <2>1. UNCHANGED <<journals, bal>>
    BY <1>3, YieldAssumption DEF DepositCommit, ledgerVars, YieldTypeOK, LedgerTypeOK, Effects
  <2> QED
    BY <1>1, <1>2, <2>1, YieldQuietInv DEF YieldTypeOK
<1>4. CASE bal[DepositCash] >= RedeemMinor
  <2> DEFINE key == <<"deposit", call[s].row>>
             d == Move(DepositCash, DepositClearing, RedeemMinor)
  <2> USE YieldAssumption
  <2>1. PostJournal(key, d) /\ key[1] # "dividend"
    BY <1>4 DEF DepositCommit
  <2>0. RedeemMinor \in Int /\ DepositCash \in Accounts /\ DepositCash # DepositClearing
    OBVIOUS
  <2>2. d \in Effects /\ d[DepositCash] = -RedeemMinor
    <3>1. d \in Effects
      BY <2>0, MoveType
    <3>2. d[DepositCash] = 0 - RedeemMinor
      BY <2>0 DEF Move
    <3> QED
      BY <2>0, <3>1, <3>2
  <2>3. \A u \in UnitAccounts : d[u] = 0 /\ u \in Accounts
    BY MoveSpares DEF UnitAccounts
  <2> HIDE DEF key, d
  <2>4. \A u \in Accounts : bal[u] \in Int /\ bal'[u] = IF Posted(key) THEN bal[u] ELSE bal[u] + d[u]
    BY <2>1, <2>2, PostMoves DEF YieldTypeOK
  <2>5. bal'[DepositCash] >= 0
    BY <1>4, <2>0, <2>2, <2>4
  <2>6. \A u \in UnitAccounts : bal'[u] = bal[u]
    BY <2>3, <2>4
  <2>7. HeldCurrent'
    BY <1>1, <2>6 DEF HeldCurrent, HeldNow, UnitAccounts
  <2>8. \A u \in UnitAccounts : d[u] >= -(IF s \in Redeeming(u) THEN Amounts[s] ELSE 0)
    BY <1>1, <2>3 DEF Redeeming
  <2> QED
    BY <1>1, <1>2, <2>1, <2>2, <2>5, <2>7, <2>8, YieldPostInv DEF YieldTypeOK
<1>5. bal[DepositCash] \in Int /\ RedeemMinor \in Int
  BY YieldAssumption DEF YieldTypeOK, LedgerTypeOK, Effects
<1> QED
  BY <1>3, <1>4, <1>5

LEMMA YieldStepInv == YieldInv /\ [YieldNext]_yieldVars => YieldInv'
<1> SUFFICES ASSUME YieldInv, [YieldNext]_yieldVars PROVE YieldInv'
  OBVIOUS
<1>1. CASE UNCHANGED yieldVars
  <2> USE <1>1 DEF yieldVars, YieldInv
  <2>1. YieldTypeOK' /\ HeldCurrent' /\ DividendsTell' /\ AccrualsPay'
    BY DEF YieldTypeOK, LedgerTypeOK, HeldCurrent, HeldNow, DividendsTell, AccrualsPay, Posted
  <2>2. YieldCalls' /\ UnitsCovered'
    BY DEF YieldCalls, YieldCall, UnitsCovered, Redeeming, Amounts, Posted
  <2> QED
    BY <2>1, <2>2
<1>2. CASE YieldNext
  BY <1>2, DistributeInv, DeclareInv, SubscriptionCallInv, DepositRedeemInv, ReadHolderInv,
     PayHolderInv, DistributedInv, SubscriptionPostInv, DepositCommitInv, YieldDiesInv DEF YieldNext
<1> QED
  BY <1>1, <1>2

(* For any number of holders, actions and requests at once: who is paid    *)
(* was read while holding those units, an accrual has paid everybody it    *)
(* read units of, and redemptions are covered but for what overlaps        *)
(* (corporateActionService.ts:72-142, treasuryService.ts:67-158).          *)
THEOREM YieldInvariant == YieldSpec => []YieldInv
BY YieldInitInv, YieldStepInv, PTL DEF YieldSpec

LEMMA YieldInvBounds == YieldInv => PaidOnceForHoldings /\ DepositNeverOverdrawn
<1> SUFFICES ASSUME YieldInv PROVE PaidOnceForHoldings /\ DepositNeverOverdrawn
  OBVIOUS
<1> USE DEF YieldInv
<1>1. PaidOnceForHoldings
  <2> SUFFICES ASSUME NEW a \in Actions, NEW h \in UnitHolders
               PROVE  LET dividends == {j \in DOMAIN journals : j[1] = "dividend" /\ j[2] = a /\ j[3] = h}
                          paid == {journals[j][HolderCash[h]] : j \in dividends}
                      IN  /\ Cardinality(dividends) <= 1
                          /\ paid \subseteq {q * PerUnit : q \in held[a][h]}
                          /\ a \in accrued /\ (\A q \in held[a][h] : q > 0) => dividends # {}
    BY DEF PaidOnceForHoldings
  <2> DEFINE dividends == {j \in DOMAIN journals : j[1] = "dividend" /\ j[2] = a /\ j[3] = h}
  <2>1. dividends \subseteq {Div(a, h)}
    BY DEF DividendsTell
  <2>2. dividends = {} \/ dividends = {Div(a, h)}
    BY <2>1
  <2>3. Cardinality({}) = 0 /\ Cardinality({Div(a, h)}) = 1
    BY FS_EmptySet, FS_Singleton
  <2>4. Cardinality(dividends) <= 1
    BY <2>2, <2>3
  <2>5. Posted(Div(a, h)) => Div(a, h) \in dividends
    BY DEF Posted, Div
  <2>6. Div(a, h) \in dividends => Posted(Div(a, h))
    BY DEF Posted
  <2> HIDE DEF dividends
  <2>7. {journals[j][HolderCash[h]] : j \in dividends} \subseteq {q * PerUnit : q \in held[a][h]}
    BY <2>1, <2>6 DEF DividendsTell
  <2>8. a \in accrued /\ (\A q \in held[a][h] : q > 0) => dividends # {}
    BY <2>5 DEF AccrualsPay
  <2> QED
    BY <2>4, <2>7, <2>8 DEF dividends
<1>2. ASSUME NEW h \in UnitHolders PROVE HeldNow(h) >= -(Cardinality(Slots) - 1) * LargestQty
  <2>1. PICK u \in UnitAccounts : u = HolderUnits[h]
    BY DEF UnitAccounts
  <2>2. bal[u] \in Int /\ LargestQty \in Nat /\ Redeeming(u) \in SUBSET Slots
    BY YieldAssumption DEF YieldTypeOK, LedgerTypeOK, Effects, UnitAccounts, Redeeming
  <2>3. \A t \in Redeeming(u) : Amounts[t] \in 0..LargestQty
    BY YieldAssumption DEF Redeeming, Amounts, YieldCalls, YieldCall
  <2>4. RoomCovers(bal[u], Redeeming(u), Amounts, LargestQty)
    BY DEF UnitsCovered
  <2>5. bal[u] >= -(Cardinality(Slots) - 1) * LargestQty
    BY <2>2, <2>3, <2>4, CoverBound
  <2> QED
    BY <2>1, <2>5 DEF HeldNow
<1> QED
  BY <1>1, <1>2 DEF DepositNeverOverdrawn
-----------------------------------------------------------------------------
(* Drops: what overlaps may over-mint, and edition numbers.                *)

DropRequests ==
  Requests({"idle", "claim"}, {"idle", "check", "post", "insert", "count"},
           Claims \cup {None}, Nat \cup {None})

(* The claims that have a number, and those that were paid and delivered.  *)
Numbered == {c \in Claims : claim[c] # 0}
Minted == {c \in Claims : Posted(<<"claim", c>>)}

DropTypeOK ==
  /\ LedgerTypeOK
  /\ call \in [Slots -> DropRequests]
  /\ drop \in [status : {"active", "sold_out"}, claimed : Nat]
  /\ claim \in [Claims -> Nat]
  /\ IsFiniteSet(Numbered) /\ IsFiniteSet(Minted)

(* No request has seen more claims than are numbered; the one that is      *)
(* going to count has numbered its own.                                    *)
DropCall(c) ==
  c.op = "claim" =>
    /\ c.row \in Claims /\ c.saw \in Nat /\ c.saw <= Cardinality(Numbered)
    /\ c.at \in {"insert", "count"} => Posted(<<"claim", c.row>>)
    /\ c.at = "count" => c.saw + 1 <= Cardinality(Numbered)

DropCalls == \A s \in Slots : DropCall(call[s])

NumbersCounted ==
  /\ \A c \in Claims : claim[c] <= Cardinality(Numbered)
  /\ drop.claimed <= Cardinality(Numbered)
  /\ Numbered \subseteq Minted
  /\ bal[Claimed] - Opening[Claimed] = Cardinality(Minted)

(* The requests that have checked the stock and not taken it.              *)
InClaim == {s \in Slots : call[s].op = "claim" /\ call[s].at = "post"}

StockCovered == bal[DropSupply] - Cardinality(InClaim) >= 1 - Cardinality(Slots)

DropInv == DropTypeOK /\ DropCalls /\ NumbersCounted /\ StockCovered

LEMMA DropInitInv == DropsInit => DropInv
<1> SUFFICES ASSUME DropsInit PROVE DropInv
  OBVIOUS
<1> USE DropsAssumption, OpeningAssumption DEF DropsInit, ServiceInit, LedgerInit
<1>1. LedgerTypeOK
  BY DEF LedgerTypeOK, Effects
<1>2. Numbered = {} /\ Minted = {} /\ InClaim = {}
  BY DEF Numbered, Minted, InClaim, Idle, Request, Posted
<1>3. IsFiniteSet({}) /\ Cardinality({}) = 0
  BY FS_EmptySet
<1>4. DropTypeOK
  BY <1>1, <1>2, <1>3 DEF DropTypeOK, DropRequests, Requests, Idle, Request
<1>5. DropCalls
  BY DEF DropCalls, DropCall, Idle, Request
<1>6. NumbersCounted
  BY <1>2, <1>3 DEF NumbersCounted
<1>7. Cardinality(Slots) \in Nat /\ Cardinality(Slots) # 0
  BY ServiceAssumption, FS_EmptySet, FS_CardinalityType
<1>8. StockCovered
  BY <1>2, <1>3, <1>7 DEF StockCovered
<1> QED
  BY <1>4, <1>5, <1>6, <1>8 DEF DropInv

LEMMA DropCounts ==
  ASSUME DropInv
  PROVE  /\ Cardinality(Numbered) \in Nat /\ Cardinality(Minted) \in Nat
         /\ Cardinality(Numbered) <= Cardinality(Minted)
BY FS_Subset, FS_CardinalityType DEF DropInv, DropTypeOK, NumbersCounted

(* What holds of the requests when one of them becomes c, and nothing of   *)
(* what the others have seen is taken back.                                *)
LEMMA DropCallsMove ==
  ASSUME DropInv, NEW s \in Slots, NEW c \in DropRequests, Becomes(s, c), DropCall(c)',
         \A j : Posted(j) => Posted(j)',
         Cardinality(Numbered') \in Nat, Cardinality(Numbered') >= Cardinality(Numbered)
  PROVE  /\ call' \in [Slots -> DropRequests] /\ DropCalls'
         /\ Cardinality(InClaim) \in Nat /\ Cardinality(InClaim') \in Nat
         /\ Cardinality(InClaim') <= Cardinality(Slots) /\ Cardinality(Slots) \in Nat
         /\ Cardinality(InClaim') = Cardinality(InClaim)
              + (IF c.op = "claim" /\ c.at = "post" THEN 1 ELSE 0)
              - (IF call[s].op = "claim" /\ call[s].at = "post" THEN 1 ELSE 0)
<1>1. /\ call' \in [Slots -> DropRequests] /\ call'[s] = c
      /\ \A t \in Slots \ {s} : call'[t] = call[t]
  BY BecomesOne DEF DropInv, DropTypeOK
<1>2. ASSUME NEW t \in Slots PROVE DropCall(call[t])'
  <2>1. CASE t = s
    BY <1>1, <2>1 DEF DropCall
  <2>2. CASE t # s
    <3>1. PICK d : d = call[t] /\ DropCall(d)
      BY DEF DropInv, DropCalls
    <3>2. call'[t] = d
      BY <1>1, <2>2, <3>1
    <3> QED
      BY <3>1, <3>2, DropCounts DEF DropCall
  <2> QED
    BY <2>1, <2>2
<1>3. InClaim \in SUBSET Slots /\ InClaim' \in SUBSET Slots /\ InClaim \ {s} = InClaim' \ {s}
  BY <1>1 DEF InClaim
<1>4. /\ s \in InClaim <=> call[s].op = "claim" /\ call[s].at = "post"
      /\ s \in InClaim' <=> c.op = "claim" /\ c.at = "post"
  BY <1>1 DEF InClaim
<1>5. /\ Cardinality(InClaim) \in Nat /\ Cardinality(InClaim') \in Nat
      /\ Cardinality(InClaim') = Cardinality(InClaim) + (IF s \in InClaim' THEN 1 ELSE 0)
                                            - (IF s \in InClaim THEN 1 ELSE 0)
  BY <1>3, SlotCount
<1>6. Cardinality(InClaim') <= Cardinality(Slots) /\ Cardinality(Slots) \in Nat
  BY <1>3, SlotsFinite
<1> QED
  BY <1>1, <1>2, <1>4, <1>5, <1>6 DEF DropCalls

(* A step that leaves the ledger and the claims alone.                     *)
LEMMA DropQuietInv ==
  ASSUME DropInv, NEW s \in Slots, NEW c \in DropRequests, Becomes(s, c), DropCall(c)',
         UNCHANGED <<journals, bal, claim>>,
         c.op = "claim" /\ c.at = "post" => bal[DropSupply] >= 1,
         drop' \in [status : {"active", "sold_out"}, claimed : Nat],
         drop'.claimed <= Cardinality(Numbered)
  PROVE  DropInv'
<1> USE DEF DropInv
<1>1. Numbered' = Numbered /\ Minted' = Minted /\ Cardinality(Numbered) \in Nat
  BY DropCounts DEF Numbered, Minted, Posted
<1>2. /\ call' \in [Slots -> DropRequests] /\ DropCalls'
      /\ Cardinality(InClaim) \in Nat /\ Cardinality(InClaim') \in Nat
      /\ Cardinality(InClaim') <= Cardinality(Slots) /\ Cardinality(Slots) \in Nat
      /\ Cardinality(InClaim') = Cardinality(InClaim)
           + (IF c.op = "claim" /\ c.at = "post" THEN 1 ELSE 0)
           - (IF call[s].op = "claim" /\ call[s].at = "post" THEN 1 ELSE 0)
  BY <1>1, DropCallsMove DEF Posted
<1>3. DropTypeOK'
  BY <1>1, <1>2 DEF DropTypeOK, LedgerTypeOK
<1>4. NumbersCounted'
  BY <1>1 DEF NumbersCounted
<1>5. StockCovered'
  <2>1. bal[DropSupply] \in Int
    BY DropsAssumption DEF DropTypeOK, LedgerTypeOK, Effects
  <2> QED
    BY <1>2, <2>1 DEF StockCovered
<1> QED
  BY <1>2, <1>3, <1>4, <1>5

LEMMA ClaimPostInv ==
  ASSUME DropInv, NEW s \in Slots, ClaimPost(s)
  PROVE  DropInv'
<1> USE DEF DropInv
<1>1. At(s, "claim", "post") /\ Goto(s, "insert") /\ UNCHANGED <<drop, claim>>
  BY DEF ClaimPost
<1>2. PICK k \in Claims, saw \in Nat : call[s].row = k /\ call[s].saw = saw /\ saw <= Cardinality(Numbered)
  BY <1>1 DEF At, DropCalls, DropCall
<1> DEFINE c == Request("claim", "insert", k, saw)
           d == Both(Move(Fan, Creator, ClaimPrice), Move(DropSupply, Claimed, 1))
<1>3. Becomes(s, c)
  BY <1>1, <1>2, GotoBecomes DEF At, DropTypeOK, DropRequests
<1>4. c \in DropRequests /\ c.op = "claim" /\ c.at = "insert" /\ c.row = k /\ c.saw = saw
  BY DEF DropRequests, Requests, Request
<1>5. d \in Effects /\ d[DropSupply] = -1 /\ d[Claimed] = 1
  <2> USE DropsAssumption
  <2>1. Move(Fan, Creator, ClaimPrice) \in Effects /\ Move(DropSupply, Claimed, 1) \in Effects
    BY MoveType
  <2>2. Move(Fan, Creator, ClaimPrice)[DropSupply] = 0 /\ Move(Fan, Creator, ClaimPrice)[Claimed] = 0
    BY MoveSpares
  <2>3. Move(DropSupply, Claimed, 1)[DropSupply] = -1 /\ Move(DropSupply, Claimed, 1)[Claimed] = 1
    BY DEF Move
  <2> QED
    BY <2>1, <2>2, <2>3 DEF Both, Effects
<1>6. PostJournal(<<"claim", k>>, d)
  BY <1>2 DEF ClaimPost
<1> HIDE DEF c, d
<1>7. /\ LedgerTypeOK' /\ Posted(<<"claim", k>>)'
      /\ \A j : Posted(j) => Posted(j)'
      /\ \A j : Posted(j)' => Posted(j) \/ j = <<"claim", k>>
  BY <1>5, <1>6, PostKeeps DEF DropTypeOK
<1>8. Numbered' = Numbered /\ Cardinality(Numbered) \in Nat /\ Cardinality(Minted) \in Nat
  BY <1>1, DropCounts DEF Numbered
<1>9. DropCall(c)'
  BY <1>2, <1>4, <1>7, <1>8 DEF DropCall
<1>10. /\ call' \in [Slots -> DropRequests] /\ DropCalls'
       /\ Cardinality(InClaim) \in Nat /\ Cardinality(InClaim') \in Nat
       /\ Cardinality(InClaim') = Cardinality(InClaim) - 1
  BY <1>1, <1>3, <1>4, <1>7, <1>8, <1>9, DropCallsMove DEF At
<1>11. Minted' = Minted \cup {k}
  BY <1>7 DEF Minted
<1>12. /\ IsFiniteSet(Minted')
       /\ Cardinality(Minted') = IF k \in Minted THEN Cardinality(Minted) ELSE Cardinality(Minted) + 1
  BY <1>11, FS_AddElement DEF DropTypeOK
<1>13. DropTypeOK'
  BY <1>1, <1>7, <1>8, <1>10, <1>12 DEF DropTypeOK
<1>14. \A a \in {DropSupply, Claimed} :
         /\ bal[a] \in Int
         /\ bal'[a] = IF k \in Minted THEN bal[a] ELSE bal[a] + d[a]
  BY <1>5, <1>6, PostMoves, DropsAssumption DEF DropTypeOK, Minted
<1>15. NumbersCounted'
  <2>0. Opening[Claimed] \in Int
    BY OpeningAssumption, DropsAssumption
  <2>1. bal'[Claimed] - Opening[Claimed] = Cardinality(Minted')
    BY <1>5, <1>8, <1>12, <1>14, <2>0 DEF NumbersCounted
  <2> QED
    BY <1>1, <1>8, <1>11, <2>1 DEF NumbersCounted
<1>16. StockCovered'
  <2>1. bal[DropSupply] \in Int /\ bal'[DropSupply] >= bal[DropSupply] - 1 /\ bal'[DropSupply] \in Int
    BY <1>5, <1>14
  <2>2. Cardinality(Slots) \in Nat
    BY SlotsFinite
  <2>3. bal'[DropSupply] - Cardinality(InClaim') >= 1 - Cardinality(Slots)
    BY <1>10, <2>1, <2>2 DEF StockCovered
  <2> QED
    BY <2>3 DEF StockCovered
<1> QED
  BY <1>10, <1>13, <1>15, <1>16

LEMMA ClaimInsertInv ==
  ASSUME DropInv, NEW s \in Slots, ClaimInsert(s)
  PROVE  DropInv'
<1> USE DEF DropInv
<1>1. At(s, "claim", "insert") /\ UNCHANGED <<journals, bal, drop>>
  BY DEF ClaimInsert
<1>2. PICK k \in Claims, saw \in Nat :
        /\ call[s].row = k /\ call[s].saw = saw /\ saw <= Cardinality(Numbered)
        /\ Posted(<<"claim", k>>)
  BY <1>1 DEF At, DropCalls, DropCall
<1>3. CASE claim[k] = 0
  <2>1. claim' = [claim EXCEPT ![k] = saw + 1] /\ Goto(s, "count")
    BY <1>2, <1>3 DEF ClaimInsert
  <2> DEFINE c == Request("claim", "count", k, saw)
  <2>2. Becomes(s, c)
    BY <1>1, <1>2, <2>1, GotoBecomes DEF At, DropTypeOK, DropRequests
  <2>3. c \in DropRequests /\ c.op = "claim" /\ c.at = "count" /\ c.row = k /\ c.saw = saw
    BY DEF DropRequests, Requests, Request
  <2> HIDE DEF c
  <2>4. /\ claim' \in [Claims -> Nat] /\ claim'[k] = saw + 1
        /\ \A j \in Claims \ {k} : claim'[j] = claim[j]
    BY <2>1 DEF DropTypeOK
  <2>5. Numbered' = Numbered \cup {k} /\ k \notin Numbered
    BY <1>3, <2>4 DEF Numbered
  <2>6. /\ Cardinality(Numbered) \in Nat /\ IsFiniteSet(Numbered')
        /\ Cardinality(Numbered') = Cardinality(Numbered) + 1
    BY <2>5, FS_AddElement, FS_CardinalityType DEF DropTypeOK
  <2>7. DropCall(c)'
    BY <1>1, <1>2, <2>3, <2>6 DEF DropCall, Posted
  <2>8. /\ call' \in [Slots -> DropRequests] /\ DropCalls'
        /\ Cardinality(InClaim) \in Nat /\ Cardinality(InClaim') \in Nat
        /\ Cardinality(InClaim') = Cardinality(InClaim)
    BY <1>1, <2>2, <2>3, <2>6, <2>7, DropCallsMove DEF At, Posted
  <2>9. Minted' = Minted /\ k \in Minted
    BY <1>1, <1>2 DEF Minted, Posted
  <2>10. DropTypeOK'
    BY <1>1, <2>4, <2>6, <2>8, <2>9 DEF DropTypeOK, LedgerTypeOK
  <2>11. NumbersCounted'
    <3>1. \A j \in Claims : claim'[j] <= Cardinality(Numbered')
      BY <1>2, <2>4, <2>6 DEF NumbersCounted, DropTypeOK
    <3>2. drop'.claimed <= Cardinality(Numbered')
      BY <1>1, <2>6 DEF NumbersCounted, DropTypeOK
    <3> QED
      BY <1>1, <2>5, <2>9, <3>1, <3>2 DEF NumbersCounted
  <2>12. StockCovered'
    BY <1>1, <2>8 DEF StockCovered
  <2> QED
    BY <2>8, <2>10, <2>11, <2>12
<1>4. CASE claim[k] # 0
  <2>1. Becomes(s, Idle) /\ UNCHANGED claim
    BY <1>2, <1>4 DEF ClaimInsert, Leave, Becomes
  <2>2. Idle \in DropRequests /\ Idle.op # "claim" /\ DropCall(Idle)'
    BY DEF DropRequests, Requests, Request, Idle, DropCall
  <2> QED
    BY <1>1, <2>1, <2>2, DropQuietInv DEF DropTypeOK, NumbersCounted
<1> QED
  BY <1>3, <1>4

LEMMA DropStepInv == DropInv /\ [DropsNext]_dropVars => DropInv'
<1> SUFFICES ASSUME DropInv, [DropsNext]_dropVars PROVE DropInv'
  OBVIOUS
<1> USE DEF DropInv
<1>1. CASE UNCHANGED dropVars
  <2> USE <1>1 DEF dropVars
  <2>1. Numbered' = Numbered /\ Minted' = Minted /\ InClaim' = InClaim
    BY DEF Numbered, Minted, InClaim, Posted
  <2>2. DropTypeOK' /\ NumbersCounted' /\ StockCovered'
    BY <2>1 DEF DropTypeOK, LedgerTypeOK, NumbersCounted, StockCovered
  <2>3. DropCalls'
    BY <2>1 DEF DropCalls, DropCall, Posted
  <2> QED
    BY <2>2, <2>3
<1>2. Idle \in DropRequests /\ Idle.op # "claim" /\ DropCall(Idle)'
  BY DEF DropRequests, Requests, Request, Idle, DropCall
<1>3. /\ drop.claimed <= Cardinality(Numbered) /\ drop.claimed \in Nat
      /\ drop \in [status : {"active", "sold_out"}, claimed : Nat]
  BY DEF DropTypeOK, NumbersCounted
<1>4. ASSUME NEW s \in Slots, NEW k \in Claims, ClaimCall(s, k) PROVE DropInv'
  <2>0. PICK c : c = Request("claim", "check", k, drop.claimed)
    OBVIOUS
  <2>1. Becomes(s, c) /\ UNCHANGED <<journals, bal, drop, claim>>
    BY <1>4, <2>0 DEF ClaimCall, Begin, Becomes
  <2>2. c \in DropRequests /\ c.op = "claim" /\ c.at = "check" /\ c.row = k /\ c.saw = drop.claimed
    BY <1>3, <2>0 DEF DropRequests, Requests, Request
  <2>3. Numbered' = Numbered
    BY <2>1 DEF Numbered
  <2>4. DropCall(c)'
    BY <1>3, <2>2, <2>3 DEF DropCall
  <2> QED
    BY <1>3, <2>1, <2>2, <2>4, DropQuietInv
<1>5. ASSUME NEW s \in Slots, ClaimCheck(s) PROVE DropInv'
  <2>1. /\ At(s, "claim", "check") /\ UNCHANGED <<journals, bal, claim>>
        /\ drop' \in [status : {"active", "sold_out"}, claimed : Nat] /\ drop'.claimed = drop.claimed
    BY <1>3, <1>5 DEF ClaimCheck
  <2>2. CASE Becomes(s, Idle)
    BY <1>2, <1>3, <2>1, <2>2, DropQuietInv
  <2>3. CASE Goto(s, "post") /\ bal[DropSupply] >= 1
    <3>1. PICK k \in Claims, saw \in Nat : call[s].row = k /\ call[s].saw = saw /\ saw <= Cardinality(Numbered)
      BY <2>1 DEF At, DropCalls, DropCall
    <3> DEFINE c == Request("claim", "post", k, saw)
    <3>2. Becomes(s, c)
      BY <2>1, <2>3, <3>1, GotoBecomes DEF At, DropTypeOK, DropRequests
    <3>3. c \in DropRequests /\ c.op = "claim" /\ c.at = "post" /\ c.row = k /\ c.saw = saw
      BY DEF DropRequests, Requests, Request
    <3> HIDE DEF c
    <3>4. Numbered' = Numbered
      BY <2>1 DEF Numbered
    <3>5. DropCall(c)'
      BY <3>1, <3>3, <3>4 DEF DropCall
    <3> QED
      BY <1>3, <2>1, <2>3, <3>2, <3>3, <3>5, DropQuietInv
  <2> QED
    BY <1>5, <2>2, <2>3 DEF ClaimCheck, Leave, Becomes
<1>6. ASSUME NEW s \in Slots, ClaimCount(s) PROVE DropInv'
  <2>1. PICK saw \in Nat : call[s].saw = saw /\ saw + 1 <= Cardinality(Numbered)
    BY <1>6 DEF ClaimCount, At, DropCalls, DropCall
  <2>2. /\ Becomes(s, Idle) /\ UNCHANGED <<journals, bal, claim>>
        /\ drop' \in [status : {"active", "sold_out"}, claimed : Nat] /\ drop'.claimed = saw + 1
    BY <1>6, <2>1 DEF ClaimCount, Leave, Becomes
  <2> QED
    BY <1>2, <2>1, <2>2, DropQuietInv
<1>7. ASSUME NEW s \in Slots, Dies(s), UNCHANGED <<drop, claim>> PROVE DropInv'
  <2>1. Becomes(s, Idle) /\ UNCHANGED <<journals, bal>>
    BY <1>7 DEF Dies, Leave, Becomes, ledgerVars
  <2> QED
    BY <1>2, <1>3, <1>7, <2>1, DropQuietInv
<1>8. CASE DropsNext
  BY <1>4, <1>5, <1>6, <1>7, <1>8, ClaimPostInv, ClaimInsertInv DEF DropsNext
<1> QED
  BY <1>1, <1>8

(* For any number of claims, retries and deaths: numbers are not above the *)
(* claims that were delivered, and the stock is short only by what         *)
(* overlaps (creatorDropService.ts:130-180).                               *)
THEOREM DropsInvariant == DropsSpec => []DropInv
BY DropInitInv, DropStepInv, PTL DEF DropsSpec

(* A drop over-mints by no more than the claims in flight together, and    *)
(* the number of a claim tells of one that was paid and delivered          *)
(* (creatorDropService.ts:155, 161-180).                                   *)
THEOREM DropsOverMintIsBounded == DropsSpec => []OverMintIsBounded
<1>1. DropInv => OverMintIsBounded
  <2> SUFFICES ASSUME DropInv PROVE OverMintIsBounded
    OBVIOUS
  <2>1. Cardinality(Numbered) \in Nat /\ Cardinality(Minted) \in Nat
        /\ Cardinality(Numbered) <= Cardinality(Minted)
    BY DropCounts
  <2>2. Cardinality(InClaim) \in Nat /\ Cardinality(Slots) \in Nat /\ bal[DropSupply] \in Int
    BY SlotsFinite, DropsAssumption DEF InClaim, DropInv, DropTypeOK, LedgerTypeOK, Effects
  <2>3. bal[DropSupply] >= 1 - Cardinality(Slots)
    BY <2>2 DEF DropInv, StockCovered
  <2>4. \A c \in Claims : claim[c] # 0 => Posted(<<"claim", c>>)
    BY DEF DropInv, NumbersCounted, Numbered, Minted
  <2>5. ASSUME NEW c \in Claims PROVE claim[c] <= bal[Claimed] - Opening[Claimed]
    BY <2>1 DEF DropInv, DropTypeOK, NumbersCounted
  <2>6. drop.claimed <= bal[Claimed] - Opening[Claimed]
    BY <2>1 DEF DropInv, DropTypeOK, NumbersCounted
  <2> QED
    BY <2>3, <2>4, <2>5, <2>6 DEF OverMintIsBounded
<1> QED
  BY <1>1, DropsInvariant, PTL
-----------------------------------------------------------------------------
(* Raise: the issuer is paid out of a raise that reached its target.       *)

RaiseRequests ==
  Requests({"idle", "invest"} \cup Closings, {"idle", "post", "insert", "next", "mark"},
           Investments \cup {None}, (SUBSET Investments) \cup {None})

CommittedRows == {i \in Investments : Committed(i)}
SettledRows == {i \in Investments : Settled(i)}

(* What a closing counted is either settled or still on its list.          *)
RaiseCall(c) ==
  /\ c.op = "invest" => c.row \in Investments /\ (c.at = "insert" => Committed(c.row))
  /\ c.op \in Closings =>
       /\ c.saw \in SUBSET CommittedRows
       /\ c.at = "mark" => /\ c.row \in CommittedRows
                           /\ IF c.op = "settled" THEN Settled(c.row) ELSE Refunded(c.row)
  /\ c.op = "settled" => Total(SettledRows \cup c.saw) >= RaiseTarget

RaiseTypeOK ==
  /\ LedgerTypeOK
  /\ call \in [Slots -> RaiseRequests]
  /\ investment \in [Investments -> {"none", "committed", "settled", "refunded"}]

RaiseCalls == \A s \in Slots : RaiseCall(call[s])

RaiseInv == RaiseTypeOK /\ RaiseCalls /\ OutcomesHaveJournals

(* A total of more investments is no less.                                 *)
LEMMA TotalGrows ==
  ASSUME NEW I \in SUBSET Investments, NEW J \in SUBSET I
  PROVE  Total(J) <= Total(I) /\ Total(I) \in Int /\ Total(J) \in Int
<1> DEFINE f == [i \in Investments |-> Invested(i)]
<1>1. IsFiniteSet(I) /\ IsFiniteSet(J)
  BY RaiseAssumption, FS_Subset
<1>2. \A i \in Investments : f[i] \in Nat
  BY RaiseAssumption DEF Invested
<1> HIDE DEF f
<1>3. \A i \in I : f[i] \in Nat /\ f[i] \in Int
  BY <1>2
<1>4. SumFunctionOnSet(f, J) <= SumFunctionOnSet(f, I)
  BY <1>1, <1>3, SumGrows
<1>5. SumFunctionOnSet(f, I) \in Int /\ SumFunctionOnSet(f, J) \in Int
  BY <1>1, <1>3, SumType
<1> QED
  BY <1>4, <1>5 DEF Total, f

LEMMA RaiseInitInv == RaiseInit => RaiseInv
<1> SUFFICES ASSUME RaiseInit PROVE RaiseInv
  OBVIOUS
<1> USE RaiseAssumption, OpeningAssumption DEF RaiseInit, ServiceInit, LedgerInit
<1>1. LedgerTypeOK
  BY DEF LedgerTypeOK, Effects
<1>2. RaiseTypeOK
  BY <1>1 DEF RaiseTypeOK, RaiseRequests, Requests, Idle, Request
<1>3. RaiseCalls
  BY DEF RaiseCalls, RaiseCall, Idle, Request, Closings
<1>4. OutcomesHaveJournals
  BY DEF OutcomesHaveJournals, Committed, Settled, Refunded, Posted
<1> QED
  BY <1>2, <1>3, <1>4 DEF RaiseInv

(* Journals stay, so what a request knows and what is on the books does.   *)
LEMMA RaiseGrows ==
  ASSUME RaiseTypeOK, \A j : Posted(j) => Posted(j)'
  PROVE  /\ CommittedRows \subseteq CommittedRows' /\ SettledRows \subseteq SettledRows'
         /\ CommittedRows' \subseteq Investments /\ SettledRows' \subseteq Investments
         /\ \A i \in Investments : /\ Committed(i) => Committed(i)'
                                   /\ Settled(i) => Settled(i)'
                                   /\ Refunded(i) => Refunded(i)'
BY DEF CommittedRows, SettledRows, Committed, Settled, Refunded

LEMMA RaiseCallsMove ==
  ASSUME RaiseInv, NEW s \in Slots, NEW c \in RaiseRequests, Becomes(s, c), RaiseCall(c)',
         \A j : Posted(j) => Posted(j)'
  PROVE  call' \in [Slots -> RaiseRequests] /\ RaiseCalls'
<1>1. /\ call' \in [Slots -> RaiseRequests] /\ call'[s] = c
      /\ \A t \in Slots \ {s} : call'[t] = call[t]
  BY BecomesOne DEF RaiseInv, RaiseTypeOK
<1>2. /\ CommittedRows \subseteq CommittedRows' /\ SettledRows \subseteq SettledRows'
      /\ CommittedRows' \subseteq Investments /\ SettledRows' \subseteq Investments
      /\ \A i \in Investments : /\ Committed(i) => Committed(i)'
                                /\ Settled(i) => Settled(i)'
                                /\ Refunded(i) => Refunded(i)'
  BY RaiseGrows DEF RaiseInv
<1>3. ASSUME NEW t \in Slots PROVE RaiseCall(call[t])'
  <2>1. CASE t = s
    BY <1>1, <2>1 DEF RaiseCall
  <2>2. CASE t # s
    <3>1. PICK d : d = call[t] /\ RaiseCall(d)
      BY DEF RaiseInv, RaiseCalls
    <3>2. call'[t] = d
      BY <1>1, <2>2, <3>1
    <3>3. d.op = "settled" => Total(SettledRows' \cup d.saw) >= RaiseTarget
      <4>1. SUFFICES ASSUME d.op = "settled" PROVE Total(SettledRows' \cup d.saw) >= RaiseTarget
        OBVIOUS
      <4>2. d.saw \subseteq CommittedRows /\ Total(SettledRows \cup d.saw) >= RaiseTarget
        BY <3>1, <4>1 DEF RaiseCall, Closings
      <4>3. /\ SettledRows' \cup d.saw \in SUBSET Investments
            /\ SettledRows \cup d.saw \in SUBSET (SettledRows' \cup d.saw)
        BY <1>2, <4>2
      <4> QED
        BY <4>2, <4>3, TotalGrows, RaiseAssumption
    <3>4. CommittedRows \subseteq Investments
      BY DEF CommittedRows
    <3> QED
      BY <1>2, <3>1, <3>2, <3>3, <3>4 DEF RaiseCall
  <2> QED
    BY <2>1, <2>2
<1> QED
  BY <1>1, <1>3 DEF RaiseCalls

(* A step that leaves the ledger alone.                                    *)
LEMMA RaiseQuietInv ==
  ASSUME RaiseInv, NEW s \in Slots, NEW c \in RaiseRequests, Becomes(s, c), RaiseCall(c)',
         UNCHANGED <<journals, bal>>,
         investment' \in [Investments -> {"none", "committed", "settled", "refunded"}],
         \A i \in Investments : investment'[i] # investment[i] =>
           /\ Committed(i)
           /\ investment'[i] = "settled" => Settled(i)
           /\ investment'[i] = "refunded" => Refunded(i),
         offering' = "settled" => offering = "settled" \/ Total(SettledRows) >= RaiseTarget
  PROVE  RaiseInv'
<1> USE DEF RaiseInv
<1>1. RaiseTypeOK' /\ RaiseCalls'
  BY RaiseCallsMove DEF RaiseTypeOK, LedgerTypeOK, Posted
<1>2. OutcomesHaveJournals'
  BY DEF OutcomesHaveJournals, Committed, Settled, Refunded, Posted, SettledRows
<1> QED
  BY <1>1, <1>2

(* A step that posts a journal, and leaves the rows alone.                 *)
LEMMA RaisePostInv ==
  ASSUME RaiseInv, NEW s \in Slots, NEW c \in RaiseRequests, Becomes(s, c),
         NEW key, NEW d \in Effects, PostJournal(key, d), UNCHANGED <<offering, investment>>,
         Posted(key)' => RaiseCall(c)',
         \A i \in Investments :
           /\ key = <<"raise-settle", i>> =>
                Committed(i) /\ Total(CommittedRows) >= RaiseTarget
           /\ key = <<"raise-refund", i>> => Committed(i)
  PROVE  RaiseInv'
<1> USE DEF RaiseInv
<1>1. /\ LedgerTypeOK' /\ Posted(key)'
      /\ \A j : Posted(j) => Posted(j)'
      /\ \A j : Posted(j)' => Posted(j) \/ j = key
  BY PostKeeps DEF RaiseTypeOK
<1>2. RaiseTypeOK' /\ RaiseCalls'
  BY <1>1, RaiseCallsMove DEF RaiseTypeOK
<1>3. /\ CommittedRows \in SUBSET CommittedRows' /\ SettledRows \in SUBSET SettledRows'
      /\ CommittedRows' \in SUBSET Investments /\ SettledRows' \in SUBSET Investments
      /\ \A i \in Investments : /\ Committed(i) => Committed(i)'
                                /\ Settled(i) => Settled(i)'
                                /\ Refunded(i) => Refunded(i)'
  BY <1>1, RaiseGrows DEF RaiseTypeOK
<1>4. /\ Total(CommittedRows) <= Total(CommittedRows')
      /\ Total(CommittedRows) \in Int /\ Total(CommittedRows') \in Int
      /\ Total(SettledRows) <= Total(SettledRows')
      /\ Total(SettledRows) \in Int /\ Total(SettledRows') \in Int
  BY <1>3, TotalGrows
<1>5. ASSUME NEW i \in Investments
      PROVE  /\ Settled(i)' => Total(CommittedRows') >= RaiseTarget
             /\ Settled(i)' \/ Refunded(i)' \/ investment'[i] # "none" => Committed(i)'
             /\ investment'[i] = "settled" => Settled(i)'
             /\ investment'[i] = "refunded" => Refunded(i)'
  <2>1. (Settled(i)' => Settled(i) \/ key = <<"raise-settle", i>>)
        /\ (Refunded(i)' => Refunded(i) \/ key = <<"raise-refund", i>>)
    BY <1>1 DEF Settled, Refunded
  <2>2. /\ Settled(i) => Total(CommittedRows) >= RaiseTarget
        /\ Settled(i) \/ Refunded(i) \/ investment[i] # "none" => Committed(i)
        /\ investment[i] = "settled" => Settled(i)
        /\ investment[i] = "refunded" => Refunded(i)
    BY DEF OutcomesHaveJournals, CommittedRows
  <2>3. Settled(i)' => Total(CommittedRows') >= RaiseTarget
    BY <1>4, <2>1, <2>2, RaiseAssumption
  <2> QED
    BY <1>3, <2>1, <2>2, <2>3
<1>6. offering' = "settled" => Total(SettledRows') >= RaiseTarget
  <2>1. offering = "settled" => Total(SettledRows) >= RaiseTarget
    BY DEF OutcomesHaveJournals, SettledRows
  <2> QED
    BY <1>4, <2>1, RaiseAssumption
<1>7. OutcomesHaveJournals'
  BY <1>5, <1>6 DEF OutcomesHaveJournals, CommittedRows, SettledRows
<1> QED
  BY <1>2, <1>7

LEMMA OutcomePostInv ==
  ASSUME RaiseInv, NEW s \in Slots, OutcomePost(s)
  PROVE  RaiseInv'
<1> USE DEF RaiseInv
<1>1. call[s].op \in Closings /\ UNCHANGED <<offering, investment>>
  BY DEF OutcomePost, Closing, Closings
<1>2. PICK op, saw : op = call[s].op /\ saw = call[s].saw
  OBVIOUS
<1>3. /\ saw \in SUBSET CommittedRows /\ op \in Closings
      /\ op = "settled" => Total(SettledRows \cup saw) >= RaiseTarget
  BY <1>1, <1>2 DEF RaiseCalls, RaiseCall
<1>4. CommittedRows \in SUBSET Investments /\ SettledRows \in SUBSET CommittedRows
  BY DEF CommittedRows, SettledRows, OutcomesHaveJournals
<1>5. PICK i \in saw :
        /\ IF op = "settled"
             THEN PostJournal(<<"raise-settle", i>>, Delivery(i))
             ELSE PostJournal(<<"raise-refund", i>>, Move(RaiseEscrow, Investor, Invested(i)))
        /\ Becomes(s, Request(op, "mark", i, saw \ {i}))
  BY <1>2 DEF OutcomePost, Becomes
<1>6. i \in Investments /\ Committed(i) /\ i \in CommittedRows
  BY <1>3, <1>4, <1>5 DEF CommittedRows
<1> DEFINE c == Request(op, "mark", i, saw \ {i})
<1>7. /\ c \in RaiseRequests
      /\ c.op = op /\ c.at = "mark" /\ c.row = i /\ c.saw = saw \ {i}
  BY <1>3, <1>4, <1>6 DEF RaiseRequests, Requests, Request
<1> HIDE DEF c
<1>8. Invested(i) \in Int /\ InvestUnits[i] \in Int
  BY <1>6, RaiseAssumption DEF Invested
<1>9. CASE op = "settled"
  <2>1. Delivery(i) \in Effects
    <3>1. /\ Move(RaiseEscrow, Issuer, Invested(i)) \in Effects
          /\ Move(RaiseTreasury, Investors, InvestUnits[i]) \in Effects
      BY <1>8, MoveType
    <3> QED
      BY <3>1 DEF Delivery, Both, Effects
  <2>2. Total(CommittedRows) >= RaiseTarget
    <3>1. SettledRows \cup saw \in SUBSET CommittedRows
      BY <1>3, <1>4
    <3> QED
      BY <1>3, <1>4, <1>9, <3>1, TotalGrows, RaiseAssumption
  <2>3. PostJournal(<<"raise-settle", i>>, Delivery(i))
    BY <1>5, <1>9
  <2>4. Posted(<<"raise-settle", i>>)' => RaiseCall(c)'
    <3>1. \A j : Posted(j) => Posted(j)'
      BY <2>1, <2>3, PostKeeps DEF RaiseTypeOK
    <3>2. CommittedRows \subseteq CommittedRows' /\ SettledRows \subseteq SettledRows'
          /\ SettledRows' \subseteq Investments
      BY <3>1, RaiseGrows DEF RaiseTypeOK
    <3>3. SUFFICES ASSUME Posted(<<"raise-settle", i>>)' PROVE RaiseCall(c)'
      OBVIOUS
    <3>4. Settled(i)' /\ i \in SettledRows'
      BY <1>6, <3>3 DEF Settled, SettledRows
    <3>5. /\ SettledRows' \cup (saw \ {i}) \in SUBSET Investments
          /\ SettledRows \cup saw \in SUBSET (SettledRows' \cup (saw \ {i}))
      BY <1>3, <1>4, <3>2, <3>4
    <3>6. Total(SettledRows' \cup (saw \ {i})) >= RaiseTarget
      BY <1>3, <1>9, <3>5, TotalGrows, RaiseAssumption
    <3> QED
      BY <1>3, <1>6, <1>7, <1>9, <3>2, <3>4, <3>6 DEF RaiseCall, Closings
  <2>5. \A j \in Investments :
          /\ <<"raise-settle", i>> = <<"raise-settle", j>> =>
               Committed(j) /\ Total(CommittedRows) >= RaiseTarget
          /\ <<"raise-settle", i>> = <<"raise-refund", j>> => Committed(j)
    BY <1>6, <2>2
  <2> QED
    BY <1>1, <1>5, <1>7, <2>1, <2>3, <2>4, <2>5, RaisePostInv DEF c
<1>10. CASE op # "settled"
  <2> DEFINE d == Move(RaiseEscrow, Investor, Invested(i))
  <2>1. d \in Effects
    BY <1>8, MoveType
  <2>2. PostJournal(<<"raise-refund", i>>, d)
    BY <1>5, <1>10
  <2> HIDE DEF d
  <2>3. Posted(<<"raise-refund", i>>)' => RaiseCall(c)'
    <3>1. \A j : Posted(j) => Posted(j)'
      BY <2>1, <2>2, PostKeeps DEF RaiseTypeOK
    <3>2. CommittedRows \subseteq CommittedRows'
      BY <3>1, RaiseGrows DEF RaiseTypeOK
    <3> QED
      BY <1>3, <1>6, <1>7, <1>10, <3>2 DEF RaiseCall, Closings, Refunded
  <2>4. \A j \in Investments :
          /\ <<"raise-refund", i>> = <<"raise-settle", j>> =>
               Committed(j) /\ Total(CommittedRows) >= RaiseTarget
          /\ <<"raise-refund", i>> = <<"raise-refund", j>> => Committed(j)
    BY <1>6
  <2> QED
    BY <1>1, <1>5, <1>7, <2>1, <2>2, <2>3, <2>4, RaisePostInv DEF c
<1> QED
  BY <1>9, <1>10

LEMMA InvestPostInv ==
  ASSUME RaiseInv, NEW s \in Slots, InvestPost(s)
  PROVE  RaiseInv'
<1> USE DEF RaiseInv
<1>1. At(s, "invest", "post") /\ Goto(s, "insert") /\ UNCHANGED <<offering, investment>>
  BY DEF InvestPost
<1>2. PICK i \in Investments, saw \in {call[s].saw} : call[s].row = i /\ call[s].saw = saw
  BY <1>1 DEF At, RaiseCalls, RaiseCall
<1> DEFINE c == Request("invest", "insert", i, saw)
           d == Move(Investor, RaiseEscrow, Invested(i))
<1>3. Becomes(s, c)
  BY <1>1, <1>2, GotoBecomes DEF At, RaiseTypeOK, RaiseRequests
<1>4. c \in RaiseRequests /\ c.op = "invest" /\ c.at = "insert" /\ c.row = i
  <2>1. saw \in (SUBSET Investments) \cup {None}
    BY <1>2 DEF RaiseTypeOK, RaiseRequests, Requests
  <2> QED
    BY <2>1 DEF RaiseRequests, Requests, Request
<1>5. d \in Effects
  BY MoveType, RaiseAssumption DEF Invested
<1>6. PostJournal(<<"commit", i>>, d)
  BY <1>2 DEF InvestPost
<1> HIDE DEF c, d
<1>7. Posted(<<"commit", i>>)' => RaiseCall(c)'
  BY <1>4 DEF RaiseCall, Committed, Closings
<1>8. \A j \in Investments :
        <<"commit", i>> # <<"raise-settle", j>> /\ <<"commit", i>> # <<"raise-refund", j>>
  OBVIOUS
<1> QED
  BY <1>1, <1>3, <1>4, <1>5, <1>6, <1>7, <1>8, RaisePostInv

LEMMA RaiseStepInv == RaiseInv /\ [RaiseNext]_raiseVars => RaiseInv'
<1> SUFFICES ASSUME RaiseInv, [RaiseNext]_raiseVars PROVE RaiseInv'
  OBVIOUS
<1> USE DEF RaiseInv
<1>1. CASE UNCHANGED raiseVars
  <2> USE <1>1 DEF raiseVars
  <2>1. RaiseTypeOK' /\ OutcomesHaveJournals'
    BY DEF RaiseTypeOK, LedgerTypeOK, OutcomesHaveJournals, Committed, Settled, Refunded, Posted
  <2>2. RaiseCalls'
    BY DEF RaiseCalls, RaiseCall, CommittedRows, SettledRows, Committed, Settled, Refunded, Posted
  <2> QED
    BY <2>1, <2>2
<1>2. Idle \in RaiseRequests /\ RaiseCall(Idle)'
  BY DEF RaiseRequests, Requests, Request, Idle, RaiseCall, Closings
<1>3. /\ investment \in [Investments -> {"none", "committed", "settled", "refunded"}]
      /\ CommittedRows \in SUBSET Investments
      /\ SettledRows \in SUBSET Investments
  BY DEF RaiseTypeOK, CommittedRows, SettledRows
<1>4. ASSUME NEW s \in Slots, NEW i \in Investments, InvestCall(s, i) PROVE RaiseInv'
  <2> DEFINE c == Request("invest", "post", i, None)
  <2>1. Becomes(s, c) /\ UNCHANGED <<journals, bal, offering, investment>>
    BY <1>4 DEF InvestCall, Begin, Becomes
  <2>2. c \in RaiseRequests /\ RaiseCall(c)'
    BY DEF RaiseRequests, Requests, Request, RaiseCall, Closings
  <2> QED
    BY <1>3, <2>1, <2>2, RaiseQuietInv
<1>5. ASSUME NEW s \in Slots, CloseOffering(s) \/ CancelOffering(s) PROVE RaiseInv'
  <2>1. PICK I, op, c :
          /\ I = InStatus({"committed"}) /\ c = Request(op, "next", None, I) /\ Becomes(s, c)
          /\ op \in Closings
          /\ op = "settled" => Total(I) >= RaiseTarget
    BY <1>5 DEF CloseOffering, CancelOffering, Begin, Becomes, Outcome, Closings
  <2>2. UNCHANGED <<journals, bal, offering, investment>>
    BY <1>5 DEF CloseOffering, CancelOffering
  <2>3. I \in SUBSET CommittedRows
    BY <2>1 DEF InStatus, CommittedRows, OutcomesHaveJournals
  <2>4. c \in RaiseRequests /\ c.op = op /\ c.at = "next" /\ c.saw = I
    BY <1>3, <2>1, <2>3 DEF RaiseRequests, Requests, Request
  <2>5. CommittedRows' = CommittedRows /\ SettledRows' = SettledRows
    BY <2>2 DEF CommittedRows, SettledRows, Committed, Settled, Posted
  <2>6. op = "settled" => Total(SettledRows \cup I) >= RaiseTarget
    <3>1. SettledRows \cup I \in SUBSET Investments /\ I \in SUBSET (SettledRows \cup I)
      BY <1>3, <2>3
    <3> QED
      BY <2>1, <3>1, TotalGrows, RaiseAssumption
  <2>7. RaiseCall(c)'
    BY <2>1, <2>3, <2>4, <2>5, <2>6 DEF RaiseCall, Closings
  <2> QED
    BY <1>3, <2>1, <2>2, <2>4, <2>7, RaiseQuietInv
<1>6. ASSUME NEW s \in Slots, InvestInsert(s) PROVE RaiseInv'
  <2>1. /\ Becomes(s, Idle) /\ UNCHANGED <<journals, bal, offering>>
        /\ call[s].row \in Investments /\ Committed(call[s].row)
    BY <1>6 DEF InvestInsert, At, Leave, Becomes, RaiseCalls, RaiseCall
  <2>2. /\ investment' \in [Investments -> {"none", "committed", "settled", "refunded"}]
        /\ \A i \in Investments : investment'[i] # investment[i] =>
             i = call[s].row /\ investment'[i] = "committed"
    BY <1>3, <1>6 DEF InvestInsert
  <2> QED
    BY <1>2, <2>1, <2>2, RaiseQuietInv
<1>7. ASSUME NEW s \in Slots, OutcomeMark(s) PROVE RaiseInv'
  <2>1. /\ call[s].op \in Closings /\ call[s].at = "mark" /\ Goto(s, "next")
        /\ UNCHANGED <<journals, bal, offering>>
    BY <1>7 DEF OutcomeMark, Closing, Closings
  <2>2. PICK op, row, saw : op = call[s].op /\ row = call[s].row /\ saw = call[s].saw
    OBVIOUS
  <2> DEFINE c == Request(op, "next", row, saw)
  <2>3. /\ saw \in SUBSET CommittedRows /\ row \in CommittedRows /\ op \in Closings
        /\ IF op = "settled" THEN Settled(row) ELSE Refunded(row)
        /\ op = "settled" => Total(SettledRows \cup saw) >= RaiseTarget
    BY <2>1, <2>2 DEF RaiseCalls, RaiseCall
  <2>4. Becomes(s, c)
    BY <2>1, <2>2, GotoBecomes DEF RaiseTypeOK, RaiseRequests
  <2>5. c \in RaiseRequests /\ c.op = op /\ c.at = "next" /\ c.saw = saw
    BY <1>3, <2>3 DEF RaiseRequests, Requests, Request
  <2> HIDE DEF c
  <2>6. CommittedRows' = CommittedRows /\ SettledRows' = SettledRows
    BY <2>1 DEF CommittedRows, SettledRows, Committed, Settled, Posted
  <2>7. RaiseCall(c)'
    BY <2>3, <2>5, <2>6 DEF RaiseCall, Closings
  <2>8. investment' = [investment EXCEPT ![row] = IF op = "settled" THEN "settled" ELSE "refunded"]
    BY <1>7, <2>2 DEF OutcomeMark
  <2>9. /\ investment' \in [Investments -> {"none", "committed", "settled", "refunded"}]
        /\ \A i \in Investments : investment'[i] # investment[i] =>
             i = row /\ investment'[i] = IF op = "settled" THEN "settled" ELSE "refunded"
    BY <1>3, <2>8
  <2>10. Committed(row)
    BY <2>3 DEF CommittedRows
  <2>11. \A i \in Investments : investment'[i] # investment[i] =>
           /\ Committed(i)
           /\ investment'[i] = "settled" => Settled(i)
           /\ investment'[i] = "refunded" => Refunded(i)
    BY <2>3, <2>9, <2>10
  <2> QED
    BY <2>1, <2>4, <2>5, <2>7, <2>9, <2>11, RaiseQuietInv
<1>8. ASSUME NEW s \in Slots, OutcomeDone(s) PROVE RaiseInv'
  <2>1. /\ call[s].op \in Closings /\ call[s].saw = {} /\ Becomes(s, Idle)
        /\ UNCHANGED <<journals, bal, investment>> /\ offering' = call[s].op
    BY <1>8 DEF OutcomeDone, Closing, Leave, Becomes, Closings
  <2>2. call[s].op = "settled" => Total(SettledRows) >= RaiseTarget
    <3>1. call[s].op = "settled" => Total(SettledRows \cup call[s].saw) >= RaiseTarget
      BY DEF RaiseCalls, RaiseCall
    <3>2. SettledRows \cup call[s].saw = SettledRows
      BY <2>1
    <3> QED
      BY <3>1, <3>2
  <2> QED
    BY <1>2, <1>3, <2>1, <2>2, RaiseQuietInv
<1>9. ASSUME NEW s \in Slots, RaiseDies(s) PROVE RaiseInv'
  <2>1. Becomes(s, Idle) /\ UNCHANGED <<journals, bal>>
    BY <1>9 DEF RaiseDies, Dies, Leave, Becomes, ledgerVars
  <2>2. UNCHANGED <<offering, investment>>
    BY <1>9 DEF RaiseDies
  <2> QED
    BY <1>2, <1>3, <2>1, <2>2, RaiseQuietInv
<1>10. CASE RaiseNext
  BY <1>4, <1>5, <1>6, <1>7, <1>8, <1>9, <1>10, InvestPostInv, OutcomePostInv DEF RaiseNext
<1> QED
  BY <1>1, <1>10

(* For any number of investments and however closes, cancels, late         *)
(* investments and deaths interleave: requests know no more than the       *)
(* journals say, and what a closing counted is settled or on its list      *)
(* (capitalRaiseService.ts:206-243).                                       *)
THEOREM RaiseInvariant == RaiseSpec => []RaiseInv
BY RaiseInitInv, RaiseStepInv, PTL DEF RaiseSpec

(* A closing has on its list, or is marking, every row that is committed   *)
(* but for the late ones.  Unless the raise is torn one closing is at work *)
(* on an open offering, and money went the way of its outcome or of the    *)
(* offering's.                                                             *)
Marking(c) == IF c.at = "mark" THEN {c.row} ELSE {}

ListsWhole ==
  \A s \in AtWork :
    /\ call[s].at \in {"next", "mark"}
    /\ InStatus({"committed"}) \subseteq call[s].saw \cup Marking(call[s]) \cup late

GivesBack == {"refunded", "cancelled"}

Untorn ==
  /\ \A s, t \in AtWork : s = t
  /\ AtWork # {} => offering = "open"
  /\ (\E i \in Investments : Settled(i)) =>
       offering = "settled" \/ \E s \in Slots : call[s].op = "settled"
  /\ (\E i \in Investments : Refunded(i)) =>
       offering \in GivesBack \/ \E s \in Slots : call[s].op \in GivesBack

WholeInv ==
  /\ RaiseInv
  /\ offering \in {"open"} \cup Closings
  /\ torn \in BOOLEAN
  /\ ListsWhole
  /\ NothingLeftBehind
  /\ ~torn => Untorn

LEMMA UntornOutcome == Untorn /\ offering \in {"open"} \cup Closings => OneOutcome
<1> SUFFICES ASSUME Untorn, offering \in {"open"} \cup Closings PROVE OneOutcome
  OBVIOUS
<1>1. \A s \in Slots : call[s].op \in Closings => s \in AtWork
  BY DEF AtWork
<1>2. /\ "settled" \in Closings /\ GivesBack \subseteq Closings /\ "settled" \notin GivesBack
      /\ "open" \notin GivesBack
  BY DEF Closings, GivesBack
<1>3. ASSUME NEW i \in Investments, Settled(i), NEW j \in Investments, Refunded(j) PROVE FALSE
  BY <1>1, <1>2, <1>3 DEF Untorn
<1>4. ASSUME offering = "settled", NEW i \in Investments, Refunded(i) PROVE FALSE
  BY <1>1, <1>2, <1>4 DEF Untorn
<1>5. ASSUME offering \in GivesBack, NEW i \in Investments, Settled(i) PROVE FALSE
  BY <1>1, <1>2, <1>5 DEF Untorn
<1> QED
  BY <1>3, <1>4, <1>5 DEF OneOutcome, GivesBack

LEMMA WholeInit == RaiseInit => WholeInv
<1> SUFFICES ASSUME RaiseInit PROVE WholeInv
  OBVIOUS
<1>1. RaiseInv
  BY RaiseInitInv
<1>2. AtWork = {} /\ offering = "open" /\ torn = FALSE
  BY DEF RaiseInit, ServiceInit, AtWork, Idle, Request, Closings
<1>3. \A i \in Investments : ~Settled(i) /\ ~Refunded(i)
  BY DEF RaiseInit, ServiceInit, LedgerInit, Settled, Refunded, Posted
<1> QED
  BY <1>1, <1>2, <1>3 DEF WholeInv, ListsWhole, NothingLeftBehind, Untorn

(* A step of s, whose request becomes c.                                   *)
LEMMA RaiseMoves ==
  ASSUME RaiseInv, NEW s \in Slots, NEW c, Becomes(s, c)
  PROVE  /\ \A t \in Slots : call'[t] = IF t = s THEN c ELSE call[t]
         /\ AtWork' = {t \in Slots : IF t = s THEN c.op \in Closings ELSE t \in AtWork}
<1>1. \A t \in Slots : call'[t] = IF t = s THEN c ELSE call[t]
  BY DEF RaiseInv, RaiseTypeOK, Becomes
<1> QED
  BY <1>1 DEF AtWork

(* A step that posts no outcome, ends no closing and begins none.          *)
LEMMA UntornKept ==
  ASSUME RaiseInv, NEW s \in Slots, NEW c, Becomes(s, c), Untorn,
         c.op = call[s].op \/ (c.op \notin Closings /\ call[s].op \notin Closings),
         offering' = offering,
         \A i \in Investments : (Settled(i)' => Settled(i) \/ c.op = "settled")
                                /\ (Refunded(i)' => Refunded(i) \/ c.op \in GivesBack)
  PROVE  Untorn'
<1>1. /\ \A t \in Slots : call'[t] = IF t = s THEN c ELSE call[t]
      /\ AtWork' = {t \in Slots : IF t = s THEN c.op \in Closings ELSE t \in AtWork}
  BY RaiseMoves
<1>2. AtWork' = AtWork
  BY <1>1 DEF AtWork
<1>3. "settled" \in Closings /\ GivesBack \subseteq Closings
  BY DEF Closings, GivesBack
<1>4. \A t \in Slots : /\ call'[t].op = "settled" <=> call[t].op = "settled"
                       /\ call'[t].op \in GivesBack <=> call[t].op \in GivesBack
  BY <1>1, <1>3
<1>5. /\ c.op = "settled" => call'[s].op = "settled"
      /\ c.op \in GivesBack => call'[s].op \in GivesBack
  BY <1>1
<1>6. (\E i \in Investments : Settled(i)') =>
         offering' = "settled" \/ \E t \in Slots : call'[t].op = "settled"
  BY <1>4, <1>5 DEF Untorn
<1>7. (\E i \in Investments : Refunded(i)') =>
         offering' \in GivesBack \/ \E t \in Slots : call'[t].op \in GivesBack
  BY <1>4, <1>5 DEF Untorn
<1> QED
  BY <1>2, <1>6, <1>7 DEF Untorn

(* The journals are as they were.                                          *)
LEMMA OutcomesStay ==
  ASSUME journals' = journals
  PROVE  \A i \in Investments : (Settled(i)' <=> Settled(i)) /\ (Refunded(i)' <=> Refunded(i))
BY DEF Settled, Refunded, Posted

LEMMA InvestWhole ==
  ASSUME WholeInv, RaiseInv', NEW s \in Slots,
         (\E i \in Investments : InvestCall(s, i)) \/ InvestPost(s) \/ InvestInsert(s)
  PROVE  WholeInv'
<1> USE DEF WholeInv
<1>1. PICK c : Becomes(s, c) /\ c.op \notin Closings
  <2>1. CASE \E i \in Investments : InvestCall(s, i)
    <3>1. PICK i : Begin(s, "invest", "post", i, None)
      BY <2>1 DEF InvestCall
    <3>2. PICK c : c = Request("invest", "post", i, None)
      OBVIOUS
    <3>3. Becomes(s, c)
      BY <3>1, <3>2 DEF Begin, Becomes
    <3>4. c.op \notin Closings
      BY <3>2 DEF Request, Closings
    <3> QED
      BY <3>3, <3>4
  <2>2. CASE InvestPost(s)
    <3>1. PICK c : c = Request("invest", "insert", call[s].row, call[s].saw)
      OBVIOUS
    <3>2. Becomes(s, c)
      BY <2>2, <3>1, GotoBecomes DEF InvestPost, At, RaiseInv, RaiseTypeOK, RaiseRequests
    <3>3. c.op \notin Closings
      BY <3>1 DEF Request, Closings
    <3> QED
      BY <3>2, <3>3
  <2>3. CASE InvestInsert(s)
    <3>1. Becomes(s, Idle)
      BY <2>3 DEF InvestInsert, Leave, Becomes
    <3>2. Idle.op \notin Closings
      BY DEF Idle, Request, Closings
    <3> QED
      BY <3>1, <3>2
  <2>4. (\E i \in Investments : InvestCall(s, i)) \/ InvestPost(s) \/ InvestInsert(s)
    OBVIOUS
  <2> HIDE DEF WholeInv
  <2> QED
    BY <2>1, <2>2, <2>3, <2>4
<1>2. call[s].op \notin Closings
  BY DEF InvestCall, InvestPost, InvestInsert, Begin, At, Idle, Request, Closings
<1>3. /\ \A t \in Slots : call'[t] = IF t = s THEN c ELSE call[t]
      /\ AtWork' = AtWork
  BY <1>1, <1>2, RaiseMoves DEF AtWork
<1>4. UNCHANGED <<offering, torn>>
  BY DEF InvestCall, InvestPost, InvestInsert
<1>5. \A i \in Investments : (Settled(i)' => Settled(i)) /\ (Refunded(i)' => Refunded(i))
  <2>1. CASE InvestPost(s)
    <3>1. PICK i, d : PostJournal(<<"commit", i>>, d)
      BY <2>1 DEF InvestPost
    <3>2. \A j : Posted(j)' => Posted(j) \/ j = <<"commit", i>>
      BY <3>1 DEF PostJournal, Posted, ledgerVars
    <3> QED
      BY <3>2 DEF Settled, Refunded
  <2>2. CASE ~InvestPost(s)
    BY <2>2, OutcomesStay DEF InvestCall, InvestInsert
  <2> QED
    BY <2>1, <2>2
<1>6. ~torn' => Untorn'
  BY <1>1, <1>2, <1>4, <1>5, UntornKept
<1>7. \/ AtWork = {} /\ offering = "open"
      \/ /\ InStatus({"committed"})' \subseteq InStatus({"committed"}) \cup late'
         /\ late \subseteq late'
  <2>1. CASE InvestInsert(s)
    <3>1. /\ investment' = [investment EXCEPT ![call[s].row] = IF @ = "none" THEN "committed" ELSE @]
          /\ late' = IF investment[call[s].row] = "none" /\ (offering # "open" \/ AtWork # {})
                       THEN late \cup {call[s].row} ELSE late
      BY <2>1 DEF InvestInsert
    <3>2. investment \in [Investments -> {"none", "committed", "settled", "refunded"}]
      BY DEF RaiseInv, RaiseTypeOK
    <3> QED
      BY <3>1, <3>2 DEF InStatus
  <2>2. CASE ~InvestInsert(s)
    BY <2>2 DEF InvestCall, InvestPost, InStatus
  <2> QED
    BY <2>1, <2>2
<1>8. ListsWhole' /\ NothingLeftBehind'
  <2>1. \A t \in AtWork : call'[t] = call[t]
    BY <1>2, <1>3 DEF AtWork
  <2>2. ASSUME NEW t \in AtWork'
        PROVE  /\ call'[t].at \in {"next", "mark"}
               /\ InStatus({"committed"})' \subseteq call'[t].saw \cup Marking(call'[t]) \cup late'
    <3>1. t \in AtWork /\ call'[t] = call[t]
      BY <1>3, <2>1
    <3> QED
      BY <1>7, <3>1 DEF ListsWhole
  <2>3. ListsWhole'
    BY <2>2 DEF ListsWhole, Marking
  <2>4. NothingLeftBehind'
    BY <1>4, <1>7 DEF NothingLeftBehind
  <2> QED
    BY <2>3, <2>4
<1> QED
  BY <1>4, <1>6, <1>8

LEMMA BeginsWhole ==
  ASSUME WholeInv, RaiseInv', NEW s \in Slots, CloseOffering(s) \/ CancelOffering(s)
  PROVE  WholeInv'
<1> USE DEF WholeInv
<1>1. PICK op \in Closings : Begin(s, op, "next", None, InStatus({"committed"}))
  BY DEF CloseOffering, CancelOffering, Outcome, Closings
<1>2. PICK c : c = Request(op, "next", None, InStatus({"committed"}))
  OBVIOUS
<1>3. /\ Becomes(s, c) /\ c.op \in Closings /\ c.at = "next" /\ c.saw = InStatus({"committed"})
      /\ call[s] = Idle
  BY <1>1, <1>2 DEF Begin, Becomes, Request
<1>4. /\ \A t \in Slots : call'[t] = IF t = s THEN c ELSE call[t]
      /\ AtWork' = {t \in Slots : IF t = s THEN c.op \in Closings ELSE t \in AtWork}
  BY <1>3, RaiseMoves
<1>5. /\ offering = "open" /\ torn' = (torn \/ AtWork # {})
      /\ UNCHANGED <<journals, offering, investment, late>>
  BY DEF CloseOffering, CancelOffering
<1>6. InStatus({"committed"})' = InStatus({"committed"})
  BY <1>5 DEF InStatus
<1>7. ListsWhole'
  <2>1. ASSUME NEW t \in AtWork'
        PROVE  /\ call'[t].at \in {"next", "mark"}
               /\ InStatus({"committed"})' \subseteq call'[t].saw \cup Marking(call'[t]) \cup late'
    <3>1. CASE t = s
      BY <1>3, <1>4, <1>6, <3>1
    <3>2. CASE t # s
      BY <1>4, <1>5, <1>6, <2>1, <3>2 DEF ListsWhole
    <3> QED
      BY <3>1, <3>2
  <2> QED
    BY <2>1 DEF ListsWhole, Marking
<1>8. ASSUME ~torn' PROVE Untorn'
  <2>1. Untorn /\ AtWork = {} /\ AtWork' \subseteq {s}
    BY <1>4, <1>5, <1>8
  <2>2. \A t \in Slots : call[t].op # "settled" /\ call[t].op \notin GivesBack
    BY <2>1 DEF AtWork, Closings, GivesBack
  <2>3. \A i \in Investments : ~Settled(i) /\ ~Refunded(i)
    BY <1>5, <2>1, <2>2 DEF Untorn, GivesBack
  <2> QED
    BY <1>5, <2>1, <2>3, OutcomesStay DEF Untorn
<1>9. NothingLeftBehind' /\ torn' \in BOOLEAN
  BY <1>5 DEF NothingLeftBehind
<1> QED
  BY <1>5, <1>7, <1>8, <1>9

LEMMA OutcomeWhole ==
  ASSUME WholeInv, RaiseInv', NEW s \in Slots, OutcomePost(s) \/ OutcomeMark(s)
  PROVE  WholeInv'
<1> USE DEF WholeInv
<1>1. /\ call[s].op \in Closings /\ s \in AtWork
      /\ UNCHANGED <<offering, late, torn>>
  BY DEF OutcomePost, OutcomeMark, Closing, AtWork
<1>2. PICK d \in RaiseRequests : d = call[s]
  BY DEF RaiseInv, RaiseTypeOK
<1>3. PICK c : /\ Becomes(s, c) /\ c.op = d.op /\ c.at \in {"next", "mark"}
               /\ InStatus({"committed"})' \subseteq InStatus({"committed"})
               /\ InStatus({"committed"})' \cap (d.saw \cup Marking(d)) \subseteq c.saw \cup Marking(c)
               /\ \A i \in Investments : (Settled(i)' => Settled(i) \/ c.op = "settled")
                                         /\ (Refunded(i)' => Refunded(i) \/ c.op \in GivesBack)
  <2>1. CASE OutcomePost(s)
    <3>1. PICK i \in d.saw :
            /\ IF d.op = "settled"
                 THEN PostJournal(<<"raise-settle", i>>, Delivery(i))
                 ELSE PostJournal(<<"raise-refund", i>>, Move(RaiseEscrow, Investor, Invested(i)))
            /\ call' = [call EXCEPT ![s] = Request(d.op, "mark", i, d.saw \ {i})]
      BY <1>2, <2>1 DEF OutcomePost
    <3>2. PICK c : c = Request(d.op, "mark", i, d.saw \ {i})
      OBVIOUS
    <3>3. c.op = d.op /\ c.at = "mark" /\ c.row = i /\ c.saw = d.saw \ {i} /\ d.at = "next"
      BY <1>2, <2>1, <3>2 DEF Request, OutcomePost, Closing
    <3>4. InStatus({"committed"})' = InStatus({"committed"})
      BY <2>1 DEF OutcomePost, InStatus
    <3>5. \A j \in Investments : (Settled(j)' => Settled(j) \/ d.op = "settled")
                                 /\ (Refunded(j)' => Refunded(j) \/ d.op # "settled")
      <4>1. CASE d.op = "settled"
        <5>1. PICK l : PostJournal(<<"raise-settle", i>>, l)
          BY <3>1, <4>1
        <5>2. \A k : Posted(k)' => Posted(k) \/ k = <<"raise-settle", i>>
          BY <5>1 DEF PostJournal, Posted, ledgerVars
        <5> QED
          BY <4>1, <5>2 DEF Settled, Refunded
      <4>2. CASE d.op # "settled"
        <5>1. PICK l : PostJournal(<<"raise-refund", i>>, l)
          BY <3>1, <4>2
        <5>2. \A k : Posted(k)' => Posted(k) \/ k = <<"raise-refund", i>>
          BY <5>1 DEF PostJournal, Posted, ledgerVars
        <5> QED
          BY <4>2, <5>2 DEF Settled, Refunded
      <4> QED
        BY <4>1, <4>2
    <3>6. call'[s] = c /\ call' = [call EXCEPT ![s] = c]
      BY <3>1, <3>2 DEF RaiseInv, RaiseTypeOK
    <3>7. d.op # "settled" => d.op \in GivesBack
      BY <1>1, <1>2 DEF Closings, GivesBack
    <3> QED
      BY <3>3, <3>4, <3>5, <3>6, <3>7 DEF Becomes, Marking
  <2>2. CASE OutcomeMark(s)
    <3>1. PICK c : c = Request(d.op, "next", d.row, d.saw)
      OBVIOUS
    <3>2. Becomes(s, c)
      BY <1>2, <2>2, <3>1, GotoBecomes DEF OutcomeMark, RaiseInv, RaiseTypeOK, RaiseRequests
    <3>3. c.op = d.op /\ c.at = "next" /\ c.saw = d.saw /\ d.at = "mark"
      BY <1>2, <2>2, <3>1 DEF Request, OutcomeMark, Closing
    <3>4. PICK status \in {"settled", "refunded"} : investment' = [investment EXCEPT ![d.row] = status]
      BY <1>2, <2>2 DEF OutcomeMark
    <3>5. investment \in [Investments -> {"none", "committed", "settled", "refunded"}]
      BY DEF RaiseInv, RaiseTypeOK
    <3>6. InStatus({"committed"})' = InStatus({"committed"}) \ {d.row}
      BY <3>4, <3>5 DEF InStatus
    <3>7. \A i \in Investments : (Settled(i)' <=> Settled(i)) /\ (Refunded(i)' <=> Refunded(i))
      BY <2>2, OutcomesStay DEF OutcomeMark
    <3> QED
      BY <3>2, <3>3, <3>6, <3>7 DEF Marking
  <2> QED
    BY <2>1, <2>2
<1>4. /\ \A t \in Slots : call'[t] = IF t = s THEN c ELSE call[t]
      /\ AtWork' = AtWork
  BY <1>1, <1>2, <1>3, RaiseMoves DEF AtWork
<1>5. ~torn' => Untorn'
  BY <1>1, <1>2, <1>3, UntornKept
<1>6. ListsWhole'
  <2>1. ASSUME NEW t \in AtWork'
        PROVE  /\ call'[t].at \in {"next", "mark"}
               /\ InStatus({"committed"})' \subseteq call'[t].saw \cup Marking(call'[t]) \cup late'
    <3>1. CASE t = s
      <4>1. InStatus({"committed"}) \subseteq d.saw \cup Marking(d) \cup late /\ late' = late
        BY <1>1, <1>2 DEF ListsWhole
      <4>2. call'[t] = c
        BY <1>4, <3>1 DEF AtWork
      <4> QED
        BY <1>3, <4>1, <4>2
    <3>2. CASE t # s
      <4>1. call'[t] = call[t] /\ t \in AtWork
        BY <1>4, <3>2 DEF AtWork
      <4> QED
        BY <1>1, <1>3, <4>1 DEF ListsWhole
    <3> QED
      BY <3>1, <3>2
  <2> QED
    BY <2>1 DEF ListsWhole, Marking
<1>7. NothingLeftBehind'
  BY <1>1, <1>3 DEF NothingLeftBehind
<1> QED
  BY <1>1, <1>5, <1>6, <1>7

LEMMA EndsWhole ==
  ASSUME WholeInv, RaiseInv', NEW s \in Slots, OutcomeDone(s) \/ RaiseDies(s)
  PROVE  WholeInv'
<1> USE DEF WholeInv
<1>1. Becomes(s, Idle) /\ UNCHANGED <<journals, investment, late>> /\ Idle.op \notin Closings
  BY DEF OutcomeDone, RaiseDies, Dies, Leave, Becomes, ledgerVars, Idle, Request, Closings
<1>2. /\ \A t \in Slots : call'[t] = IF t = s THEN Idle ELSE call[t]
      /\ AtWork' = AtWork \ {s}
  BY <1>1, RaiseMoves DEF AtWork
<1>3. InStatus({"committed"})' = InStatus({"committed"})
  BY <1>1 DEF InStatus
<1>4. ListsWhole'
  <2>1. ASSUME NEW t \in AtWork'
        PROVE  /\ call'[t].at \in {"next", "mark"}
               /\ InStatus({"committed"})' \subseteq call'[t].saw \cup Marking(call'[t]) \cup late'
    BY <1>1, <1>2, <1>3, <2>1 DEF ListsWhole, AtWork
  <2> QED
    BY <2>1 DEF ListsWhole, Marking
<1>5. \A i \in Investments : (Settled(i)' <=> Settled(i)) /\ (Refunded(i)' <=> Refunded(i))
  BY <1>1, OutcomesStay
<1>6. "settled" \in Closings /\ GivesBack \subseteq Closings
      /\ \A t \in Slots : call[t].op \in Closings => t \in AtWork
  BY DEF Closings, GivesBack, AtWork
<1>7. CASE OutcomeDone(s)
  <2>1. /\ s \in AtWork /\ call[s].at = "next" /\ call[s].saw = {} /\ torn' = torn
        /\ offering' = call[s].op /\ call[s].op \in Closings
    BY <1>7 DEF OutcomeDone, Closing, AtWork
  <2>2. NothingLeftBehind'
    BY <1>1, <1>3, <2>1 DEF ListsWhole, Marking, NothingLeftBehind
  <2>3. ASSUME ~torn' PROVE Untorn'
    <3>1. Untorn /\ AtWork' = {} /\ offering = "open"
      BY <1>2, <2>1, <2>3 DEF Untorn
    <3>2. \A t \in Slots : call[t].op \in Closings => t = s
      BY <1>6, <2>1, <3>1 DEF Untorn
    <3>3. (\E i \in Investments : Settled(i)) => offering' = "settled"
      BY <1>6, <2>1, <3>1, <3>2 DEF Untorn
    <3>4. (\E i \in Investments : Refunded(i)) => offering' \in GivesBack
      BY <1>6, <2>1, <3>1, <3>2 DEF Untorn, GivesBack
    <3> QED
      BY <1>5, <3>1, <3>3, <3>4 DEF Untorn
  <2> QED
    BY <1>4, <2>1, <2>2, <2>3
<1>8. CASE RaiseDies(s)
  <2>1. /\ offering' = offering
        /\ torn' = (torn \/ (s \in AtWork /\ \E i \in Investments : Settled(i) \/ Refunded(i)))
    BY <1>8 DEF RaiseDies
  <2>2. NothingLeftBehind' /\ torn' \in BOOLEAN
    BY <1>1, <1>3, <2>1 DEF NothingLeftBehind
  <2>3. ASSUME ~torn' PROVE Untorn'
    <3>1. Untorn /\ ~(s \in AtWork /\ \E i \in Investments : Settled(i) \/ Refunded(i))
      BY <2>1, <2>3
    <3>2. CASE s \in AtWork
      BY <1>2, <1>5, <2>1, <3>1, <3>2 DEF Untorn
    <3>3. CASE s \notin AtWork
      <4>1. call[s].op \notin Closings
        BY <3>3 DEF AtWork
      <4> QED
        BY <1>1, <1>5, <2>1, <3>1, <4>1, UntornKept
    <3> QED
      BY <3>2, <3>3
  <2> QED
    BY <1>4, <2>1, <2>2, <2>3
<1> QED
  BY <1>7, <1>8

LEMMA WholeStep == WholeInv /\ [RaiseNext]_raiseVars => WholeInv'
<1> SUFFICES ASSUME WholeInv, [RaiseNext]_raiseVars PROVE WholeInv'
  OBVIOUS
<1>1. RaiseInv'
  BY RaiseStepInv DEF WholeInv
<1>2. CASE UNCHANGED raiseVars
  BY <1>1, <1>2 DEF raiseVars, WholeInv, ListsWhole, NothingLeftBehind, Untorn, AtWork, InStatus,
                    Marking, Settled, Refunded, Posted
<1>3. CASE RaiseNext
  BY <1>1, <1>3, InvestWhole, BeginsWhole, OutcomeWhole, EndsWhole DEF RaiseNext
<1> QED
  BY <1>2, <1>3

(* The issuer is paid only out of a raise that reached its target, every   *)
(* status has its journal, a raise that is over left nothing but late      *)
(* investments in escrow, and it has one outcome unless closings were at   *)
(* work together or one died with money moved                              *)
(* (capitalRaiseService.ts:179-270).                                       *)
THEOREM RaiseIssuerPaidOnTarget == RaiseSpec => []IssuerPaidOnTarget
<1>1. WholeInv => IssuerPaidOnTarget
  BY UntornOutcome DEF WholeInv, RaiseInv, IssuerPaidOnTarget
<1> QED
  BY <1>1, WholeInit, WholeStep, PTL DEF RaiseSpec
-----------------------------------------------------------------------------
(* Trading: an order is in one place, its fill, journal and status agree,  *)
(* and overlaps overdraw no more than what they checked.                   *)

TradeRequests ==
  Requests({"idle", "place", "settle"},
           {"idle", "insert", "enqueue", "broker", "post", "fill", "mark", "reject"},
           Trades \cup {None}, {None})

Tf(o) == <<"tradefill", o>>

(* Nothing has been done for o.                                            *)
Fresh(o) == ~Posted(Tf(o)) /\ fills[o] = 0

(* A request that has its order to itself.                                 *)
Working(c) == c.op # "idle" /\ c.at # "insert"

TradeTypeOK ==
  /\ LedgerTypeOK
  /\ call \in [Slots -> TradeRequests]
  /\ trade \in [Trades -> {"none", "accepted", "settled", "rejected"}]
  /\ settling \in Seq(Trades)
  /\ fills \in [Trades -> Nat]

TradeCall(c) ==
  /\ c.op = "idle" => c = Idle
  /\ c.op # "idle" => c.row \in Trades
  /\ c.op = "place" => c.at \in {"insert", "enqueue"}
  /\ c.op = "settle" => c.at \in {"broker", "post", "fill", "mark", "reject"}
  /\ Working(c) =>
       /\ trade[c.row] = "accepted"
       /\ c.at \in {"enqueue", "broker", "post", "reject"} => Fresh(c.row)
       /\ c.at = "fill" => Posted(Tf(c.row)) /\ fills[c.row] = 0
       /\ c.at = "mark" => Posted(Tf(c.row)) /\ fills[c.row] = 1

TradeCalls == \A s \in Slots : TradeCall(call[s])

OrderSound(o) ==
  /\ fills[o] <= 1
  /\ trade[o] = "settled" => fills[o] = 1
  /\ fills[o] = 1 => Posted(Tf(o))
  /\ trade[o] = "rejected" => ~Posted(Tf(o))
  /\ trade[o] = "none" => Fresh(o)

OrdersSound == \A o \in Trades : OrderSound(o)

QueueFresh ==
  \A i \in DOMAIN settling : trade[settling[i]] = "accepted" /\ Fresh(settling[i])

(* No order is in two places ...                                           *)
TradesOnce ==
  /\ \A i, j \in DOMAIN settling : settling[i] = settling[j] => i = j
  /\ \A s, t \in Slots : Working(call[s]) /\ Working(call[t]) /\ call[s].row = call[t].row => s = t
  /\ \A s \in Slots, i \in DOMAIN settling : Working(call[s]) => settling[i] # call[s].row

(* ... and one that is accepted, and met no crash, is in one.              *)
TradesPlaced ==
  \A o \in Trades : trade[o] = "accepted" /\ o \notin lost =>
    \/ \E i \in DOMAIN settling : settling[i] = o
    \/ \E s \in Slots : Working(call[s]) /\ call[s].row = o

OrdersInv ==
  TradeTypeOK /\ TradeCalls /\ OrdersSound /\ QueueFresh /\ TradesOnce /\ TradesPlaced

(* The requests on this side that have checked the balance and not taken   *)
(* from it.                                                                *)
Posts(c, side) == c.op = "settle" /\ c.at = "post" /\ TradeSide[c.row] = side
Flying(side) == {s \in Slots : Posts(call[s], side)}

SideCovered(a, side, n) ==
  bal[a] - Cardinality(Flying(side)) * n >= -(Cardinality(Slots) - 1) * n

TradesCovered ==
  /\ SideCovered(TradeCash, "buy", TradePrice + TradeFee)
  /\ SideCovered(TradePosition, "sell", 1)

TradeInv == OrdersInv /\ TradesCovered

LEMMA TradeInitInv == TradingInit => TradeInv
<1> SUFFICES ASSUME TradingInit PROVE TradeInv
  OBVIOUS
<1> USE TradingAssumption, OpeningAssumption DEF TradingInit, ServiceInit, LedgerInit
<1>1. LedgerTypeOK
  BY DEF LedgerTypeOK, Effects
<1>2. TradeTypeOK
  BY <1>1 DEF TradeTypeOK, TradeRequests, Requests, Idle, Request
<1>3. Idle.op = "idle"
  BY DEF Idle, Request
<1>4. TradeCalls /\ TradesOnce
  BY <1>3 DEF TradeCalls, TradeCall, TradesOnce, Working
<1>5. OrdersSound /\ QueueFresh /\ TradesPlaced
  BY DEF OrdersSound, OrderSound, Fresh, Posted, QueueFresh, TradesPlaced
<1>6. Flying("buy") = {} /\ Flying("sell") = {}
  BY <1>3 DEF Flying, Posts
<1>7. PICK n \in Nat : Cardinality(Slots) = n + 1
  <2>1. Cardinality(Slots) \in Nat /\ Cardinality(Slots) # 0
    BY ServiceAssumption, FS_EmptySet, FS_CardinalityType
  <2> QED
    BY <2>1
<1>8. ASSUME NEW b \in Nat, NEW a \in Nat PROVE b - 0 * a >= -(n + 1 - 1) * a
  OBVIOUS
<1>9. TradesCovered
  <2>1. Cardinality({}) = 0 /\ bal[TradeCash] \in Nat /\ bal[TradePosition] \in Nat
    BY FS_EmptySet
  <2>2. TradePrice + TradeFee \in Nat /\ 1 \in Nat
    OBVIOUS
  <2>3. ASSUME NEW m \in Nat, NEW a, NEW side \in {"buy", "sell"}, bal[a] \in Nat
        PROVE  SideCovered(a, side, m)
    <3>1. bal[a] - 0 * m >= -(n + 1 - 1) * m
      BY <1>8, <2>3
    <3>2. Flying(side) = {}
      BY <1>6, <2>3
    <3> QED
      BY <1>7, <2>1, <3>1, <3>2 DEF SideCovered
  <2>4. SideCovered(TradeCash, "buy", TradePrice + TradeFee) /\ SideCovered(TradePosition, "sell", 1)
    BY <2>1, <2>2, <2>3
  <2> QED
    BY <2>4 DEF TradesCovered
<1> QED
  BY <1>2, <1>4, <1>5, <1>9 DEF TradeInv, OrdersInv

(* How one side is covered when the request of s becomes c.                *)
LEMMA SideMoves ==
  ASSUME TradeTypeOK, NEW s \in Slots, NEW c \in TradeRequests, Becomes(s, c),
         NEW a, NEW side, NEW n \in Nat, SideCovered(a, side, n),
         bal[a] \in Int, bal'[a] \in Int,
         Posts(c, side) => ~Posts(call[s], side) /\ bal[a] >= n /\ bal'[a] = bal[a],
         ~Posts(c, side) => bal'[a] >= bal[a] - (IF Posts(call[s], side) THEN n ELSE 0)
  PROVE  SideCovered(a, side, n)'
<1>1. /\ call' \in [Slots -> TradeRequests] /\ call'[s] = c
      /\ \A t \in Slots \ {s} : call'[t] = call[t]
  BY BecomesOne DEF TradeTypeOK
<1>2. Flying(side) \in SUBSET Slots /\ Flying(side)' \in SUBSET Slots
      /\ Flying(side) \ {s} = Flying(side)' \ {s}
  BY <1>1 DEF Flying, Posts
<1>3. (s \in Flying(side) <=> Posts(call[s], side)) /\ (s \in Flying(side)' <=> Posts(c, side))
  BY <1>1 DEF Flying, Posts
<1>4. PICK p \in Nat, q \in Nat, m \in Nat :
        p = Cardinality(Flying(side)) /\ q = Cardinality(Flying(side)') /\ m = Cardinality(Slots)
  BY <1>2, SlotsFinite
<1>5. q = p + (IF Posts(c, side) THEN 1 ELSE 0) - (IF Posts(call[s], side) THEN 1 ELSE 0) /\ q <= m
  BY <1>2, <1>3, <1>4, SlotCount, SlotsFinite
<1>6. PICK low \in Int : low = -(m - 1) * n
  OBVIOUS
<1>7. bal[a] - p * n >= low
  BY <1>4, <1>6 DEF SideCovered
<1>8. bal'[a] - q * n >= low
  <2>1. CASE Posts(c, side)
    <3>1. bal'[a] - (p + 1) * n >= -(m - 1) * n
      BY <1>5, <2>1, OverlapBegins
    <3> QED
      BY <1>5, <1>6, <2>1, <3>1
  <2>2. CASE ~Posts(c, side) /\ Posts(call[s], side)
    BY <1>5, <1>7, <2>2, OverlapPosts
  <2>3. CASE ~Posts(c, side) /\ ~Posts(call[s], side)
    BY <1>5, <1>7, <2>3, OverlapEnds
  <2> QED
    BY <2>1, <2>2, <2>3
<1> QED
  BY <1>4, <1>6, <1>8 DEF SideCovered

LEMMA TradeBalances ==
  ASSUME TradeTypeOK
  PROVE  /\ bal[TradeCash] \in Int /\ bal[TradePosition] \in Int
         /\ TradePrice + TradeFee \in Nat /\ 1 \in Nat
BY TradingAssumption DEF TradeTypeOK, LedgerTypeOK, Effects

(* Both sides, when nothing is posted.                                     *)
LEMMA SidesQuiet ==
  ASSUME TradeInv, NEW s \in Slots, NEW c \in TradeRequests, Becomes(s, c), UNCHANGED bal,
         c.at = "post" => call[s].at # "post" /\ Affords(c.row)
  PROVE  TradesCovered'
<1>1. TradeTypeOK /\ TradesCovered
  BY DEF TradeInv, OrdersInv
<1>2. SideCovered(TradeCash, "buy", TradePrice + TradeFee)'
  <2>1. Posts(c, "buy") => ~Posts(call[s], "buy") /\ bal[TradeCash] >= TradePrice + TradeFee
    BY DEF Posts, Affords
  <2> QED
    BY <1>1, <2>1, SideMoves, TradeBalances DEF TradesCovered
<1>3. SideCovered(TradePosition, "sell", 1)'
  <2>1. Posts(c, "sell") => ~Posts(call[s], "sell") /\ bal[TradePosition] >= 1
    BY DEF Posts, Affords
  <2> QED
    BY <1>1, <2>1, SideMoves, TradeBalances DEF TradesCovered
<1> QED
  BY <1>2, <1>3 DEF TradesCovered

(* What a fill moves.                                                      *)
LEMMA TradeEffectIs ==
  ASSUME NEW o \in Trades
  PROVE  /\ TradeEffect(o) \in Effects
         /\ TradeSide[o] = "buy" => /\ TradeEffect(o)[TradeCash] = -(TradePrice + TradeFee)
                                    /\ TradeEffect(o)[TradePosition] = 1
         /\ TradeSide[o] = "sell" => /\ TradeEffect(o)[TradeCash] >= 0
                                     /\ TradeEffect(o)[TradePosition] = -1
<1> DEFINE m1 == Move(TradeCash, BrokerCash, TradePrice)
           m2 == Move(TradeCash, TradeFees, TradeFee)
           m3 == Move(BrokerPosition, TradePosition, 1)
           m4 == Move(BrokerCash, TradeCash, TradePrice)
           m5 == Move(TradePosition, BrokerPosition, 1)
<1> USE TradingAssumption
<1>1. m1 \in Effects /\ m2 \in Effects /\ m3 \in Effects /\ m4 \in Effects /\ m5 \in Effects
  BY MoveType
<1>2. /\ m1[TradeCash] = -TradePrice /\ m2[TradeCash] = -TradeFee /\ m4[TradeCash] = TradePrice
      /\ m3[TradePosition] = 1 /\ m5[TradePosition] = -1
  BY DEF Move
<1>3. /\ m3[TradeCash] = 0 /\ m5[TradeCash] = 0
      /\ m1[TradePosition] = 0 /\ m2[TradePosition] = 0 /\ m4[TradePosition] = 0
  BY MoveSpares
<1>4. TradeEffect(o) = IF TradeSide[o] = "buy" THEN Both(Both(m1, m2), m3) ELSE Both(Both(m4, m2), m5)
  BY DEF TradeEffect
<1> HIDE DEF m1, m2, m3, m4, m5
<1>5. /\ Both(m1, m2) \in Effects /\ Both(m4, m2) \in Effects
      /\ \A a \in Accounts : Both(m1, m2)[a] = m1[a] + m2[a] /\ Both(m4, m2)[a] = m4[a] + m2[a]
  BY <1>1 DEF Both, Effects
<1>6. /\ Both(Both(m1, m2), m3) \in Effects /\ Both(Both(m4, m2), m5) \in Effects
      /\ \A a \in Accounts : /\ Both(Both(m1, m2), m3)[a] = Both(m1, m2)[a] + m3[a]
                             /\ Both(Both(m4, m2), m5)[a] = Both(m4, m2)[a] + m5[a]
  BY <1>1, <1>5 DEF Both, Effects
<1> QED
  BY <1>2, <1>3, <1>4, <1>5, <1>6

(* A step that only concerns o, which no other request and no place on the *)
(* queue has.                                                              *)
LEMMA TradeTouches ==
  ASSUME OrdersInv, NEW s \in Slots, NEW c \in TradeRequests, Becomes(s, c), TradeCall(c)',
         NEW o \in Trades,
         LedgerTypeOK', trade' \in [Trades -> {"none", "accepted", "settled", "rejected"}],
         fills' \in [Trades -> Nat], UNCHANGED <<settling, lost>>,
         \A p \in Trades \ {o} :
           trade'[p] = trade[p] /\ fills'[p] = fills[p] /\ (Posted(Tf(p))' <=> Posted(Tf(p))),
         OrderSound(o)',
         Working(c) => c.row = o,
         Working(call[s]) => call[s].row = o,
         trade'[o] = "accepted" /\ o \notin lost => Working(c),
         \A t \in Slots \ {s} : Working(call[t]) => call[t].row # o,
         \A i \in DOMAIN settling : settling[i] # o
  PROVE  OrdersInv'
<1> USE DEF OrdersInv
<1>0. call \in [Slots -> TradeRequests]
  BY DEF TradeTypeOK
<1>1. /\ call' \in [Slots -> TradeRequests] /\ call'[s] = c
      /\ \A t \in Slots \ {s} : call'[t] = call[t]
  BY <1>0, BecomesOne
<1>2. TradeTypeOK'
  BY <1>1 DEF TradeTypeOK
<1>3. TradeCalls'
  <2>1. ASSUME NEW t \in Slots \ {s} PROVE TradeCall(call[t])'
    <3>1. PICK d : d = call[t] /\ TradeCall(d)
      BY DEF TradeCalls
    <3>2. call'[t] = d
      BY <1>1, <3>1
    <3>3. Working(d) => d.row \in Trades \ {o}
      BY <3>1 DEF TradeCall, Working
    <3> QED
      BY <3>1, <3>2, <3>3 DEF TradeCall, Fresh, Working
  <2>2. TradeCall(call[s])'
    BY <1>1 DEF TradeCall
  <2> QED
    BY <2>1, <2>2 DEF TradeCalls
<1>4. OrdersSound'
  <2>1. ASSUME NEW p \in Trades \ {o} PROVE OrderSound(p)'
    BY DEF OrdersSound, OrderSound, Fresh
  <2> QED
    BY <2>1 DEF OrdersSound
<1>5. QueueFresh'
  <2>1. \A i \in DOMAIN settling : settling[i] \in Trades \ {o}
    BY DEF TradeTypeOK
  <2> QED
    BY <2>1 DEF QueueFresh, Fresh
<1>6. TradesOnce'
  BY <1>1 DEF TradesOnce, Working
<1>7. TradesPlaced'
  <2>1. ASSUME NEW p \in Trades, trade'[p] = "accepted", p \notin lost
        PROVE  \/ \E i \in DOMAIN settling : settling[i] = p
               \/ \E t \in Slots : Working(call'[t]) /\ call'[t].row = p
    <3>1. CASE p = o
      BY <1>1, <2>1, <3>1
    <3>2. CASE p # o
      <4>1. \/ \E i \in DOMAIN settling : settling[i] = p
            \/ \E t \in Slots : Working(call[t]) /\ call[t].row = p
        BY <2>1, <3>2 DEF TradesPlaced
      <4> QED
        BY <1>1, <3>2, <4>1
    <3> QED
      BY <3>1, <3>2
  <2> QED
    BY <2>1 DEF TradesPlaced, Working
<1> QED
  BY <1>2, <1>3, <1>4, <1>5, <1>6, <1>7

(* A step that touches no order: a request that has none to itself moves,  *)
(* or one that has leaves its order among the lost.                        *)
LEMMA TradeIdles ==
  ASSUME OrdersInv, NEW s \in Slots, NEW c \in TradeRequests, Becomes(s, c), TradeCall(c)',
         UNCHANGED <<journals, bal, trade, fills, settling>>, ~Working(c),
         lost \subseteq lost', Working(call[s]) => call[s].row \in lost'
  PROVE  OrdersInv'
<1> USE DEF OrdersInv
<1>1. /\ call' \in [Slots -> TradeRequests] /\ call'[s] = c
      /\ \A t \in Slots \ {s} : call'[t] = call[t]
  BY BecomesOne DEF TradeTypeOK
<1>2. TradeTypeOK'
  BY <1>1 DEF TradeTypeOK, LedgerTypeOK
<1>3. TradeCalls'
  <2>1. ASSUME NEW t \in Slots \ {s} PROVE TradeCall(call[t])'
    <3>1. PICK d : d = call[t] /\ TradeCall(d)
      BY DEF TradeCalls
    <3>2. call'[t] = d
      BY <1>1, <3>1
    <3> QED
      BY <3>1, <3>2 DEF TradeCall, Fresh, Posted, Working
  <2>2. TradeCall(call[s])'
    BY <1>1 DEF TradeCall
  <2> QED
    BY <2>1, <2>2 DEF TradeCalls
<1>4. OrdersSound' /\ QueueFresh'
  BY DEF OrdersSound, OrderSound, QueueFresh, Fresh, Posted
<1>5. TradesOnce'
  BY <1>1 DEF TradesOnce, Working
<1>6. TradesPlaced'
  <2>1. ASSUME NEW p \in Trades, trade[p] = "accepted", p \notin lost'
        PROVE  \/ \E i \in DOMAIN settling : settling[i] = p
               \/ \E t \in Slots : Working(call'[t]) /\ call'[t].row = p
    <3>1. \/ \E i \in DOMAIN settling : settling[i] = p
          \/ \E t \in Slots : Working(call[t]) /\ call[t].row = p
      BY <2>1 DEF TradesPlaced
    <3> QED
      BY <1>1, <2>1, <3>1
  <2> QED
    BY <2>1 DEF TradesPlaced, Working
<1> QED
  BY <1>2, <1>3, <1>4, <1>5, <1>6

(* A request that has its order to itself puts it (back) on the queue.     *)
LEMMA TradeQueues ==
  ASSUME OrdersInv, NEW s \in Slots, Working(call[s]), Fresh(call[s].row), Leave(s),
         settling' = Append(settling, call[s].row),
         UNCHANGED <<journals, bal, trade, fills, lost>>
  PROVE  OrdersInv'
<1> USE DEF OrdersInv
<1>1. PICK o \in Trades : o = call[s].row /\ trade[o] = "accepted" /\ Fresh(o)
  BY DEF TradeCalls, TradeCall, Working
<1>2. PICK n \in Nat : DOMAIN settling = 1..n /\ n = Len(settling)
  BY DEF TradeTypeOK
<1>3. /\ settling' \in Seq(Trades) /\ DOMAIN settling' = 1..(n + 1)
      /\ settling'[n + 1] = o /\ \A i \in 1..n : settling'[i] = settling[i]
  BY <1>1, <1>2 DEF TradeTypeOK
<1>4. Idle \in TradeRequests /\ Becomes(s, Idle) /\ ~Working(Idle) /\ Idle.op = "idle"
  BY DEF TradeRequests, Requests, Idle, Request, Leave, Becomes, Working
<1>5. /\ call' \in [Slots -> TradeRequests] /\ call'[s] = Idle
      /\ \A t \in Slots \ {s} : call'[t] = call[t]
  BY <1>4, BecomesOne DEF TradeTypeOK
<1>6. TradeTypeOK'
  BY <1>3, <1>5 DEF TradeTypeOK, LedgerTypeOK
<1>7. TradeCalls'
  <2>1. ASSUME NEW t \in Slots \ {s} PROVE TradeCall(call[t])'
    <3>1. PICK d : d = call[t] /\ TradeCall(d)
      BY DEF TradeCalls
    <3>2. call'[t] = d
      BY <1>5, <3>1
    <3> QED
      BY <3>1, <3>2 DEF TradeCall, Fresh, Posted, Working
  <2>2. TradeCall(call[s])'
    BY <1>4, <1>5 DEF TradeCall, Working
  <2> QED
    BY <2>1, <2>2 DEF TradeCalls
<1>8. OrdersSound'
  BY DEF OrdersSound, OrderSound, Fresh, Posted
<1>9. QueueFresh'
  <2>1. \A i \in 1..n : trade[settling[i]] = "accepted" /\ Fresh(settling[i])
    BY <1>2 DEF QueueFresh
  <2>2. \A i \in 1..(n + 1) : trade[settling'[i]] = "accepted" /\ Fresh(settling'[i])
    BY <1>1, <1>3, <2>1
  <2> QED
    BY <1>3, <2>2 DEF QueueFresh, Fresh, Posted
<1>10. TradesOnce'
  <2>1. \A i, j \in 1..n : settling[i] = settling[j] => i = j
    BY <1>2 DEF TradesOnce
  <2>2. \A i \in 1..n : settling[i] # o
    BY <1>1, <1>2 DEF TradesOnce
  <2>3. \A i, j \in 1..(n + 1) : settling'[i] = settling'[j] => i = j
    BY <1>3, <2>1, <2>2
  <2>4. \A t, u \in Slots : Working(call'[t]) /\ Working(call'[u]) /\ call'[t].row = call'[u].row => t = u
    BY <1>4, <1>5 DEF TradesOnce
  <2>5. \A t \in Slots : Working(call'[t]) => t # s /\ call[t].row # o
    BY <1>1, <1>4, <1>5 DEF TradesOnce
  <2>6. \A t \in Slots, i \in 1..(n + 1) : Working(call'[t]) => settling'[i] # call'[t].row
    BY <1>2, <1>3, <1>5, <2>5 DEF TradesOnce
  <2> QED
    BY <1>3, <2>3, <2>4, <2>6 DEF TradesOnce, Working
<1>11. TradesPlaced'
  <2>1. ASSUME NEW p \in Trades, trade[p] = "accepted", p \notin lost
        PROVE  \/ \E i \in DOMAIN settling' : settling'[i] = p
               \/ \E t \in Slots : Working(call'[t]) /\ call'[t].row = p
    <3>1. CASE p = o
      <4>1. n + 1 \in DOMAIN settling'
        BY <1>3
      <4> QED
        BY <1>3, <3>1, <4>1
    <3>2. CASE p # o
      <4>1. \/ \E i \in 1..n : settling[i] = p
            \/ \E t \in Slots : Working(call[t]) /\ call[t].row = p
        BY <1>2, <2>1 DEF TradesPlaced
      <4>2. \A i \in 1..n : i \in DOMAIN settling'
        BY <1>3
      <4> QED
        BY <1>1, <1>3, <1>5, <3>2, <4>1, <4>2
    <3> QED
      BY <3>1, <3>2
  <2> QED
    BY <2>1 DEF TradesPlaced, Working
<1> QED
  BY <1>6, <1>7, <1>8, <1>9, <1>10, <1>11

LEMMA TakeTradeInv ==
  ASSUME TradeInv, NEW s \in Slots, TakeTrade(s)
  PROVE  TradeInv'
<1> USE DEF TradeInv, OrdersInv
<1>1. /\ call[s] = Idle /\ settling # <<>> /\ settling' = Tail(settling)
      /\ UNCHANGED <<journals, bal, trade, fills, lost>>
  BY DEF TakeTrade
<1>2. PICK n \in Nat : DOMAIN settling = 1..(n + 1)
  <2>1. Len(settling) \in Nat \ {0} /\ DOMAIN settling = 1..Len(settling)
    BY <1>1 DEF TradeTypeOK
  <2>2. Len(settling) - 1 \in Nat /\ Len(settling) = (Len(settling) - 1) + 1
    BY <2>1
  <2> QED
    BY <2>1, <2>2
<1>3. PICK o \in Trades : o = Head(settling) /\ o = settling[1]
  BY <1>1 DEF TradeTypeOK
<1>4. /\ settling' \in Seq(Trades) /\ DOMAIN settling' = 1..n
      /\ \A i \in 1..n : settling'[i] = settling[i + 1]
  <2>1. Len(settling) = n + 1
    BY <1>2 DEF TradeTypeOK
  <2> QED
    BY <1>1, <2>1 DEF TradeTypeOK
<1>5. 1 \in 1..(n + 1) /\ trade[o] = "accepted" /\ Fresh(o)
  BY <1>2, <1>3 DEF QueueFresh
<1> DEFINE c == Request("settle", "broker", o, None)
<1>6. Becomes(s, c)
  BY <1>3, <1>5 DEF TakeTrade, Begin, Becomes, Fresh
<1>7. c \in TradeRequests /\ c.op = "settle" /\ c.at = "broker" /\ c.row = o
  BY DEF TradeRequests, Requests, Request
<1> HIDE DEF c
<1>8. /\ call' \in [Slots -> TradeRequests] /\ call'[s] = c
      /\ \A t \in Slots \ {s} : call'[t] = call[t]
  BY <1>6, <1>7, BecomesOne DEF TradeTypeOK
<1>9. TradeTypeOK'
  BY <1>1, <1>4, <1>8 DEF TradeTypeOK, LedgerTypeOK
<1>10. TradeCalls'
  <2>1. ASSUME NEW t \in Slots \ {s} PROVE TradeCall(call[t])'
    <3>1. PICK d : d = call[t] /\ TradeCall(d)
      BY DEF TradeCalls
    <3>2. call'[t] = d
      BY <1>8, <3>1
    <3> QED
      BY <1>1, <3>1, <3>2 DEF TradeCall, Fresh, Posted, Working
  <2>2. TradeCall(call[s])'
    BY <1>1, <1>5, <1>7, <1>8 DEF TradeCall, Fresh, Posted
  <2> QED
    BY <2>1, <2>2 DEF TradeCalls
<1>11. OrdersSound'
  BY <1>1 DEF OrdersSound, OrderSound, Fresh, Posted
<1>12. \A i \in 1..n : i + 1 \in 1..(n + 1) /\ i + 1 # 1
  OBVIOUS
<1>13. QueueFresh'
  <2>1. \A i \in 1..n : trade[settling'[i]] = "accepted" /\ Fresh(settling'[i])
    BY <1>2, <1>4, <1>12 DEF QueueFresh
  <2> QED
    BY <1>1, <1>4, <2>1 DEF QueueFresh, Fresh, Posted
<1>14. TradesOnce'
  <2>1. \A i, j \in 1..n : settling'[i] = settling'[j] => i = j
    <3>1. ASSUME NEW i \in 1..n, NEW j \in 1..n, settling'[i] = settling'[j] PROVE i = j
      <4>1. i + 1 = j + 1
        BY <1>2, <1>4, <1>12, <3>1 DEF TradesOnce
      <4> QED
        BY <4>1
    <3> QED
      BY <3>1
  <2>2. \A i \in 1..n : settling'[i] # o
    BY <1>2, <1>3, <1>4, <1>5, <1>12 DEF TradesOnce
  <2>3. \A t \in Slots \ {s} : Working(call[t]) => call[t].row # o
    BY <1>2, <1>3, <1>5 DEF TradesOnce
  <2>4. \A t, u \in Slots : Working(call'[t]) /\ Working(call'[u]) /\ call'[t].row = call'[u].row => t = u
    BY <1>7, <1>8, <2>3 DEF TradesOnce
  <2>5. \A t \in Slots, i \in 1..n : Working(call'[t]) => settling'[i] # call'[t].row
    <3>1. ASSUME NEW t \in Slots \ {s}, NEW i \in 1..n, Working(call[t]) PROVE settling'[i] # call[t].row
      <4>1. settling'[i] = settling[i + 1] /\ i + 1 \in DOMAIN settling
        BY <1>2, <1>4, <1>12, <3>1
      <4> QED
        BY <1>2, <3>1, <4>1 DEF TradesOnce
    <3> QED
      BY <1>7, <1>8, <2>2, <3>1
  <2> QED
    BY <1>4, <2>1, <2>4, <2>5 DEF TradesOnce, Working
<1>15. TradesPlaced'
  <2>1. ASSUME NEW p \in Trades, trade[p] = "accepted", p \notin lost
        PROVE  \/ \E i \in DOMAIN settling' : settling'[i] = p
               \/ \E t \in Slots : Working(call'[t]) /\ call'[t].row = p
    <3>1. CASE p = o
      BY <1>7, <1>8, <3>1 DEF Working
    <3>2. CASE p # o
      <4>1. \/ \E i \in 1..(n + 1) : settling[i] = p
            \/ \E t \in Slots : Working(call[t]) /\ call[t].row = p
        BY <1>2, <2>1 DEF TradesPlaced
      <4>2. CASE \E t \in Slots : Working(call[t]) /\ call[t].row = p
        <5>1. ~Working(call[s])
          BY <1>1 DEF Working, Idle, Request
        <5> QED
          BY <1>8, <4>2, <5>1
      <4>3. ASSUME NEW i \in 1..(n + 1), settling[i] = p PROVE \E j \in DOMAIN settling' : settling'[j] = p
        <5>1. i # 1
          BY <1>3, <3>2, <4>3
        <5>2. PICK j \in 1..n : i = j + 1
          BY <5>1
        <5> QED
          BY <1>4, <4>3, <5>2
      <4> QED
        BY <4>1, <4>2, <4>3
    <3> QED
      BY <3>1, <3>2
  <2> QED
    BY <1>1, <2>1 DEF TradesPlaced, Working
<1>16. TradesCovered'
  <2>1. c.at # "post"
    BY <1>7
  <2> QED
    BY <1>1, <1>6, <1>7, <2>1, SidesQuiet
<1> QED
  BY <1>9, <1>10, <1>11, <1>13, <1>14, <1>15, <1>16

(* A request that has its order to itself goes on with it.                 *)
LEMMA TradeWorks ==
  ASSUME OrdersInv, NEW s \in Slots, Working(call[s])
  PROVE  \E o \in Trades :
           /\ o = call[s].row /\ trade[o] = "accepted" /\ OrderSound(o)
           /\ \A t \in Slots \ {s} : Working(call[t]) => call[t].row # o
           /\ \A i \in DOMAIN settling : settling[i] # o
           /\ call[s].saw = None
<1>1. PICK o \in Trades : o = call[s].row /\ trade[o] = "accepted" /\ OrderSound(o)
  BY DEF OrdersInv, TradeCalls, TradeCall, Working, OrdersSound
<1>2. call[s].saw = None
  BY DEF OrdersInv, TradeTypeOK, TradeRequests, Requests
<1> QED
  BY <1>1, <1>2 DEF OrdersInv, TradesOnce

LEMMA IdleTrade ==
  /\ Idle \in TradeRequests /\ Idle.op = "idle" /\ Idle.at = "idle"
  /\ ~Working(Idle) /\ TradeCall(Idle)'
BY DEF TradeRequests, Requests, Idle, Request, TradeCall, Working

LEMMA PlaceTradeInv ==
  ASSUME TradeInv, NEW s \in Slots, NEW o \in Trades, PlaceTrade(s, o)
  PROVE  TradeInv'
<1> DEFINE c == Request("place", "insert", o, None)
<1>1. /\ call[s] = Idle /\ Becomes(s, c) /\ UNCHANGED <<journals, bal, trade, settling, fills, lost>>
  BY DEF PlaceTrade, Begin, Elsewhere, Becomes
<1>2. c \in TradeRequests /\ c.op = "place" /\ c.at = "insert" /\ c.row = o
  BY DEF TradeRequests, Requests, Request
<1> HIDE DEF c
<1>3. ~Working(c) /\ TradeCall(c)' /\ ~Working(call[s])
  BY <1>1, <1>2, IdleTrade DEF Working, TradeCall
<1>4. OrdersInv'
  BY <1>1, <1>2, <1>3, TradeIdles DEF TradeInv
<1>5. TradesCovered'
  BY <1>1, <1>2, SidesQuiet
<1> QED
  BY <1>4, <1>5 DEF TradeInv

LEMMA InsertTradeInv ==
  ASSUME TradeInv, NEW s \in Slots, InsertTrade(s)
  PROVE  TradeInv'
<1> USE DEF TradeInv
<1>1. /\ At(s, "place", "insert") /\ UNCHANGED <<journals, bal, settling, fills, lost>>
      /\ ~Working(call[s])
  BY DEF InsertTrade, At, Working
<1>2. PICK o \in Trades : o = call[s].row /\ call[s].saw = None
  BY <1>1 DEF At, OrdersInv, TradeCalls, TradeCall, TradeTypeOK, TradeRequests, Requests
<1>3. CASE trade[o] = "none"
  <2> DEFINE c == Request("place", "enqueue", o, None)
  <2>1. trade' = [trade EXCEPT ![o] = "accepted"] /\ Goto(s, "enqueue")
    BY <1>2, <1>3 DEF InsertTrade
  <2>2. Becomes(s, c)
    BY <1>1, <1>2, <2>1, GotoBecomes DEF At, OrdersInv, TradeTypeOK, TradeRequests
  <2>3. c \in TradeRequests /\ c.op = "place" /\ c.at = "enqueue" /\ c.row = o /\ Working(c)
    BY DEF TradeRequests, Requests, Request, Working
  <2> HIDE DEF c
  <2>4. Fresh(o) /\ OrderSound(o)
    BY <1>3 DEF OrdersInv, OrdersSound, OrderSound
  <2>5. /\ trade' \in [Trades -> {"none", "accepted", "settled", "rejected"}]
        /\ trade'[o] = "accepted" /\ \A p \in Trades \ {o} : trade'[p] = trade[p]
    BY <2>1 DEF OrdersInv, TradeTypeOK
  <2>6. TradeCall(c)' /\ OrderSound(o)'
    BY <1>1, <2>3, <2>4, <2>5 DEF TradeCall, Fresh, Posted, OrderSound, Working
  <2>7. /\ \A t \in Slots \ {s} : Working(call[t]) => call[t].row # o
        /\ \A i \in DOMAIN settling : settling[i] # o
    BY <1>3 DEF OrdersInv, TradeCalls, TradeCall, QueueFresh
  <2>8. LedgerTypeOK' /\ fills' \in [Trades -> Nat]
    BY <1>1 DEF OrdersInv, TradeTypeOK, LedgerTypeOK
  <2>9. \A p \in Trades \ {o} :
          trade'[p] = trade[p] /\ fills'[p] = fills[p] /\ (Posted(Tf(p))' <=> Posted(Tf(p)))
    BY <1>1, <2>5 DEF Posted
  <2>10. OrdersInv'
    BY <1>1, <2>2, <2>3, <2>5, <2>6, <2>7, <2>8, <2>9, TradeTouches
  <2>11. TradesCovered'
    BY <1>1, <2>2, <2>3, SidesQuiet
  <2> QED
    BY <2>10, <2>11
<1>4. CASE trade[o] # "none"
  <2>1. UNCHANGED trade /\ Becomes(s, Idle)
    BY <1>2, <1>4 DEF InsertTrade, Leave, Becomes
  <2>2. OrdersInv'
    BY <1>1, <2>1, IdleTrade, TradeIdles
  <2>3. TradesCovered'
    BY <1>1, <2>1, IdleTrade, SidesQuiet
  <2> QED
    BY <2>2, <2>3
<1> QED
  BY <1>3, <1>4

LEMMA QueueTradeInv ==
  ASSUME TradeInv, NEW s \in Slots, EnqueueTrade(s) \/ Defer(s)
  PROVE  TradeInv'
<1>1. /\ At(s, "place", "enqueue") \/ At(s, "settle", "broker")
      /\ Leave(s) /\ settling' = Append(settling, call[s].row)
      /\ UNCHANGED <<journals, bal, trade, fills, lost>>
  BY DEF EnqueueTrade, Defer
<1>2. Working(call[s]) /\ Fresh(call[s].row)
  BY <1>1 DEF At, Working, TradeInv, OrdersInv, TradeCalls, TradeCall
<1>3. OrdersInv'
  BY <1>1, <1>2, TradeQueues DEF TradeInv
<1>4. TradesCovered'
  <2>1. Becomes(s, Idle)
    BY <1>1 DEF Leave, Becomes
  <2> QED
    BY <1>1, <2>1, IdleTrade, SidesQuiet
<1> QED
  BY <1>3, <1>4 DEF TradeInv

LEMMA ExecuteTradeInv ==
  ASSUME TradeInv, NEW s \in Slots, Executed(s)
  PROVE  TradeInv'
<1>1. At(s, "settle", "broker") /\ UNCHANGED <<journals, bal, trade, settling, fills, lost>>
  BY DEF Executed, Elsewhere
<1>2. Working(call[s]) /\ OrdersInv
  BY <1>1 DEF At, Working, TradeInv
<1>3. PICK o \in Trades :
        /\ o = call[s].row /\ trade[o] = "accepted" /\ OrderSound(o)
        /\ \A t \in Slots \ {s} : Working(call[t]) => call[t].row # o
        /\ \A i \in DOMAIN settling : settling[i] # o
        /\ call[s].saw = None
  BY <1>2, TradeWorks
<1>4. Fresh(o)
  BY <1>1, <1>2, <1>3 DEF At, OrdersInv, TradeCalls, TradeCall
<1>5. PICK at \in {"post", "reject"} : Goto(s, at) /\ (at = "post" => Affords(o))
  BY <1>3 DEF Executed
<1> DEFINE c == Request("settle", at, o, None)
<1>6. Becomes(s, c)
  BY <1>1, <1>2, <1>3, <1>5, GotoBecomes DEF At, OrdersInv, TradeTypeOK, TradeRequests
<1>7. c \in TradeRequests /\ c.op = "settle" /\ c.at = at /\ c.row = o /\ Working(c)
  BY DEF TradeRequests, Requests, Request, Working
<1> HIDE DEF c
<1>8. TradeCall(c)' /\ OrderSound(o)'
  BY <1>1, <1>3, <1>4, <1>7 DEF TradeCall, OrderSound, Fresh, Posted
<1>9. /\ LedgerTypeOK' /\ fills' \in [Trades -> Nat]
      /\ trade' \in [Trades -> {"none", "accepted", "settled", "rejected"}]
  BY <1>1, <1>2 DEF OrdersInv, TradeTypeOK, LedgerTypeOK
<1>10. \A p \in Trades \ {o} :
         trade'[p] = trade[p] /\ fills'[p] = fills[p] /\ (Posted(Tf(p))' <=> Posted(Tf(p)))
  BY <1>1 DEF Posted
<1>11. OrdersInv'
  BY <1>1, <1>2, <1>3, <1>6, <1>7, <1>8, <1>9, <1>10, TradeTouches
<1>12. TradesCovered'
  <2>1. c.at = "post" => call[s].at # "post" /\ Affords(c.row)
    BY <1>1, <1>5, <1>7 DEF At
  <2> QED
    BY <1>1, <1>6, <1>7, <2>1, SidesQuiet
<1> QED
  BY <1>11, <1>12 DEF TradeInv

LEMMA PostTradeInv ==
  ASSUME TradeInv, NEW s \in Slots, PostTrade(s)
  PROVE  TradeInv'
<1>1. At(s, "settle", "post") /\ Goto(s, "fill") /\ UNCHANGED <<trade, settling, fills, lost>>
  BY DEF PostTrade
<1>2. Working(call[s]) /\ OrdersInv
  BY <1>1 DEF At, Working, TradeInv
<1>3. PICK o \in Trades :
        /\ o = call[s].row /\ trade[o] = "accepted" /\ OrderSound(o)
        /\ \A t \in Slots \ {s} : Working(call[t]) => call[t].row # o
        /\ \A i \in DOMAIN settling : settling[i] # o
        /\ call[s].saw = None
  BY <1>2, TradeWorks
<1>4. Fresh(o)
  BY <1>1, <1>2, <1>3 DEF At, OrdersInv, TradeCalls, TradeCall
<1> DEFINE c == Request("settle", "fill", o, None)
           d == TradeEffect(o)
<1>5. PostJournal(Tf(o), d) /\ d \in Effects
  BY <1>3, TradeEffectIs DEF PostTrade, Tf
<1>6. Becomes(s, c)
  BY <1>1, <1>2, <1>3, GotoBecomes DEF At, OrdersInv, TradeTypeOK, TradeRequests
<1>7. c \in TradeRequests /\ c.op = "settle" /\ c.at = "fill" /\ c.row = o /\ Working(c)
  BY DEF TradeRequests, Requests, Request, Working
<1> HIDE DEF c, d
<1>8. /\ LedgerTypeOK' /\ Posted(Tf(o))'
      /\ \A j : Posted(j) => Posted(j)'
      /\ \A j : Posted(j)' => Posted(j) \/ j = Tf(o)
  BY <1>2, <1>5, PostKeeps DEF OrdersInv, TradeTypeOK
<1>9. TradeCall(c)' /\ OrderSound(o)'
  BY <1>1, <1>3, <1>4, <1>7, <1>8 DEF TradeCall, OrderSound, Fresh
<1>10. /\ fills' \in [Trades -> Nat]
       /\ trade' \in [Trades -> {"none", "accepted", "settled", "rejected"}]
  BY <1>1, <1>2 DEF OrdersInv, TradeTypeOK
<1>11. \A p \in Trades \ {o} :
         trade'[p] = trade[p] /\ fills'[p] = fills[p] /\ (Posted(Tf(p))' <=> Posted(Tf(p)))
  BY <1>1, <1>8 DEF Tf
<1>12. OrdersInv'
  BY <1>1, <1>2, <1>3, <1>6, <1>7, <1>8, <1>9, <1>10, <1>11, TradeTouches
<1>13. TradesCovered'
  <2>1. TradeTypeOK /\ TradesCovered
    BY DEF TradeInv, OrdersInv
  <2>2. ASSUME NEW a \in Accounts
        PROVE  bal[a] \in Int /\ bal'[a] \in Int /\ d[a] \in Int /\ bal'[a] = bal[a] + d[a]
    BY <1>4, <1>5, <2>1, PostMoves DEF Fresh, TradeTypeOK
  <2>3. TradeCash \in Accounts /\ TradePosition \in Accounts /\ TradeSide[o] \in {"buy", "sell"}
    BY TradingAssumption
  <2>4. /\ Posts(call[s], "buy") <=> TradeSide[o] = "buy"
        /\ Posts(call[s], "sell") <=> TradeSide[o] = "sell"
        /\ ~Posts(c, "buy") /\ ~Posts(c, "sell")
    BY <1>1, <1>3, <1>7 DEF Posts, At
  <2>5. SideCovered(TradeCash, "buy", TradePrice + TradeFee)'
    <3>1. PICK n \in Nat : n = TradePrice + TradeFee
      BY <2>1, TradeBalances
    <3>2. bal'[TradeCash] >= bal[TradeCash] - (IF Posts(call[s], "buy") THEN n ELSE 0)
      <4>1. /\ TradeSide[o] = "buy" => d[TradeCash] = -n
            /\ TradeSide[o] = "sell" => d[TradeCash] >= 0
        BY <3>1, TradeEffectIs DEF d
      <4> QED
        BY <2>2, <2>3, <2>4, <4>1
    <3>3. SideCovered(TradeCash, "buy", n)
      BY <2>1, <3>1 DEF TradesCovered
    <3>4. SideCovered(TradeCash, "buy", n)'
      BY <1>6, <1>7, <2>1, <2>2, <2>3, <2>4, <3>2, <3>3, SideMoves
    <3> QED
      BY <3>1, <3>4
  <2>6. SideCovered(TradePosition, "sell", 1)'
    <3>1. bal'[TradePosition] >= bal[TradePosition] - (IF Posts(call[s], "sell") THEN 1 ELSE 0)
      <4>1. /\ TradeSide[o] = "buy" => d[TradePosition] = 1
            /\ TradeSide[o] = "sell" => d[TradePosition] = -1
        BY TradeEffectIs DEF d
      <4> QED
        BY <2>2, <2>3, <2>4, <4>1
    <3> QED
      BY <1>6, <1>7, <2>1, <2>2, <2>3, <2>4, <3>1, SideMoves DEF TradesCovered
  <2> QED
    BY <2>5, <2>6 DEF TradesCovered
<1> QED
  BY <1>12, <1>13 DEF TradeInv

LEMMA RecordFillInv ==
  ASSUME TradeInv, NEW s \in Slots, RecordFill(s)
  PROVE  TradeInv'
<1>1. At(s, "settle", "fill") /\ Goto(s, "mark") /\ UNCHANGED <<journals, bal, trade, settling, lost>>
  BY DEF RecordFill
<1>2. Working(call[s]) /\ OrdersInv
  BY <1>1 DEF At, Working, TradeInv
<1>3. PICK o \in Trades :
        /\ o = call[s].row /\ trade[o] = "accepted" /\ OrderSound(o)
        /\ \A t \in Slots \ {s} : Working(call[t]) => call[t].row # o
        /\ \A i \in DOMAIN settling : settling[i] # o
        /\ call[s].saw = None
  BY <1>2, TradeWorks
<1>4. Posted(Tf(o)) /\ fills[o] = 0
  BY <1>1, <1>2, <1>3 DEF At, OrdersInv, TradeCalls, TradeCall
<1> DEFINE c == Request("settle", "mark", o, None)
<1>5. Becomes(s, c)
  BY <1>1, <1>2, <1>3, GotoBecomes DEF At, OrdersInv, TradeTypeOK, TradeRequests
<1>6. c \in TradeRequests /\ c.op = "settle" /\ c.at = "mark" /\ c.row = o /\ Working(c)
  BY DEF TradeRequests, Requests, Request, Working
<1> HIDE DEF c
<1>7. /\ fills' \in [Trades -> Nat] /\ fills'[o] = 1
      /\ \A p \in Trades \ {o} : fills'[p] = fills[p]
  BY <1>2, <1>3, <1>4 DEF RecordFill, OrdersInv, TradeTypeOK
<1>8. TradeCall(c)' /\ OrderSound(o)'
  BY <1>1, <1>3, <1>4, <1>6, <1>7 DEF TradeCall, OrderSound, Fresh, Posted
<1>9. LedgerTypeOK' /\ trade' \in [Trades -> {"none", "accepted", "settled", "rejected"}]
  BY <1>1, <1>2 DEF OrdersInv, TradeTypeOK, LedgerTypeOK
<1>10. \A p \in Trades \ {o} :
         trade'[p] = trade[p] /\ fills'[p] = fills[p] /\ (Posted(Tf(p))' <=> Posted(Tf(p)))
  BY <1>1, <1>7 DEF Posted
<1>11. OrdersInv'
  BY <1>1, <1>2, <1>3, <1>5, <1>6, <1>7, <1>8, <1>9, <1>10, TradeTouches
<1>12. TradesCovered'
  BY <1>1, <1>5, <1>6, SidesQuiet
<1> QED
  BY <1>11, <1>12 DEF TradeInv

LEMMA MarkTradeInv ==
  ASSUME TradeInv, NEW s \in Slots,
         MarkTrade(s, "mark", "settled") \/ MarkTrade(s, "reject", "rejected")
  PROVE  TradeInv'
<1>1. PICK at, status :
        /\ \/ at = "mark" /\ status = "settled"
           \/ at = "reject" /\ status = "rejected"
        /\ At(s, "settle", at) /\ Becomes(s, Idle) /\ UNCHANGED <<journals, bal, settling, fills, lost>>
        /\ trade' = [trade EXCEPT ![call[s].row] = status]
  BY DEF MarkTrade, Leave, Becomes
<1>2. Working(call[s]) /\ OrdersInv
  BY <1>1 DEF At, Working, TradeInv
<1>3. PICK o \in Trades :
        /\ o = call[s].row /\ trade[o] = "accepted" /\ OrderSound(o)
        /\ \A t \in Slots \ {s} : Working(call[t]) => call[t].row # o
        /\ \A i \in DOMAIN settling : settling[i] # o
        /\ call[s].saw = None
  BY <1>2, TradeWorks
<1>4. /\ at = "reject" => Fresh(o)
      /\ at = "mark" => Posted(Tf(o)) /\ fills[o] = 1
  BY <1>1, <1>2, <1>3 DEF At, OrdersInv, TradeCalls, TradeCall
<1>5. /\ trade' \in [Trades -> {"none", "accepted", "settled", "rejected"}] /\ trade'[o] = status
      /\ \A p \in Trades \ {o} : trade'[p] = trade[p]
  BY <1>1, <1>2, <1>3 DEF OrdersInv, TradeTypeOK
<1>6. OrderSound(o)'
  BY <1>1, <1>3, <1>4, <1>5 DEF OrderSound, Fresh, Posted
<1>7. LedgerTypeOK' /\ fills' \in [Trades -> Nat]
  BY <1>1, <1>2 DEF OrdersInv, TradeTypeOK, LedgerTypeOK
<1>8. \A p \in Trades \ {o} :
        trade'[p] = trade[p] /\ fills'[p] = fills[p] /\ (Posted(Tf(p))' <=> Posted(Tf(p)))
  BY <1>1, <1>5 DEF Posted
<1>9. status # "accepted"
  BY <1>1
<1>10. OrdersInv'
  BY <1>1, <1>2, <1>3, <1>5, <1>6, <1>7, <1>8, <1>9, IdleTrade, TradeTouches
<1>11. TradesCovered'
  BY <1>1, IdleTrade, SidesQuiet
<1> QED
  BY <1>10, <1>11 DEF TradeInv

LEMMA TradeThrowsInv ==
  ASSUME TradeInv, NEW s \in Slots, TradeThrows(s)
  PROVE  TradeInv'
<1>1. /\ Becomes(s, Idle) /\ UNCHANGED <<journals, bal, trade, settling, fills>>
      /\ lost \subseteq lost' /\ call[s].row \in lost'
  BY DEF TradeThrows, Dies, Leave, Becomes, ledgerVars
<1>2. OrdersInv'
  BY <1>1, IdleTrade, TradeIdles DEF TradeInv
<1>3. TradesCovered'
  BY <1>1, IdleTrade, SidesQuiet
<1> QED
  BY <1>2, <1>3 DEF TradeInv

LEMMA RestartInv ==
  ASSUME TradeInv, Restart
  PROVE  TradeInv'
<1> USE DEF TradeInv, OrdersInv
<1>1. /\ UNCHANGED <<journals, bal, trade, fills>> /\ settling' = <<>>
      /\ call' = [s \in Slots |-> Idle]
      /\ lost \subseteq lost'
      /\ \A i \in DOMAIN settling : settling[i] \in lost'
      /\ \A s \in Slots : call[s] # Idle => call[s].row \in lost'
  BY DEF Restart, Range
<1>2. TradeTypeOK'
  BY <1>1, IdleTrade DEF TradeTypeOK, LedgerTypeOK
<1>3. TradeCalls' /\ TradesOnce' /\ QueueFresh'
  BY <1>1, IdleTrade DEF TradeCalls, TradeCall, TradesOnce, QueueFresh
<1>4. OrdersSound'
  BY <1>1 DEF OrdersSound, OrderSound, Fresh, Posted
<1>5. TradesPlaced'
  <2>1. \A s \in Slots : Working(call[s]) => call[s].row \in lost'
    BY <1>1, IdleTrade
  <2> QED
    BY <1>1, <2>1 DEF TradesPlaced
<1>6. TradesCovered'
  <2>1. Flying("buy")' = {} /\ Flying("sell")' = {}
    BY <1>1, IdleTrade DEF Flying, Posts
  <2>2. \A side : Flying(side) \in SUBSET Slots
    BY DEF Flying
  <2>3. ASSUME NEW a, bal[a] \in Int, NEW side \in {"buy", "sell"}, NEW n \in Nat, SideCovered(a, side, n)
        PROVE  SideCovered(a, side, n)'
    <3>1. PICK p \in Nat, m \in Nat : p = Cardinality(Flying(side)) /\ m = Cardinality(Slots)
      BY <2>2, SlotsFinite
    <3>2. PICK low \in Int : low = -(m - 1) * n
      OBVIOUS
    <3>3. bal[a] - p * n >= low
      BY <2>3, <3>1, <3>2 DEF SideCovered
    <3>4. bal[a] - 0 * n >= low
      BY <2>3, <3>3, OverlapEnds
    <3>5. Cardinality(Flying(side)') = 0
      BY <2>1, <2>3, FS_EmptySet
    <3> QED
      BY <1>1, <3>1, <3>2, <3>4, <3>5 DEF SideCovered
  <2> QED
    BY <2>3, TradeBalances DEF TradesCovered
<1> QED
  BY <1>2, <1>3, <1>4, <1>5, <1>6

LEMMA TradeStepInv == TradeInv /\ [TradingNext]_tradingVars => TradeInv'
<1> SUFFICES ASSUME TradeInv, [TradingNext]_tradingVars PROVE TradeInv'
  OBVIOUS
<1>1. CASE UNCHANGED tradingVars
  <2> USE <1>1 DEF tradingVars, TradeInv, OrdersInv
  <2>1. TradeTypeOK' /\ TradeCalls' /\ OrdersSound'
    BY DEF TradeTypeOK, LedgerTypeOK, TradeCalls, TradeCall, OrdersSound, OrderSound, Fresh, Posted, Working
  <2>2. QueueFresh' /\ TradesOnce' /\ TradesPlaced'
    BY DEF QueueFresh, TradesOnce, TradesPlaced, Fresh, Posted, Working
  <2>3. TradesCovered'
    BY DEF TradesCovered, SideCovered, Flying, Posts
  <2> QED
    BY <2>1, <2>2, <2>3
<1>2. CASE TradingNext
  BY <1>2, PlaceTradeInv, InsertTradeInv, QueueTradeInv, TakeTradeInv, ExecuteTradeInv, PostTradeInv,
     RecordFillInv, MarkTradeInv, TradeThrowsInv, RestartInv DEF TradingNext
<1> QED
  BY <1>1, <1>2

(* For any number of orders and requests at once: an order is in one       *)
(* place, its journal, fill and status agree, and what overlaps overdraws  *)
(* no more than it checked (tradingService.ts:212-347).                    *)
THEOREM TradingInvariant == TradingSpec => []TradeInv
BY TradeInitInv, TradeStepInv, PTL DEF TradingSpec

LEMMA TradeInvBounds == TradeInv => NoOrderMislaid /\ FillsMatchJournals /\ OverdrawnByOverlap
<1> SUFFICES ASSUME TradeInv PROVE NoOrderMislaid /\ FillsMatchJournals /\ OverdrawnByOverlap
  OBVIOUS
<1> USE DEF TradeInv, OrdersInv
<1>1. ASSUME NEW o \in Trades, trade[o] = "accepted", o \notin lost
      PROVE  Cardinality({i \in DOMAIN settling : settling[i] = o})
               + Cardinality({s \in Slots : call[s].row = o /\ call[s].at # "insert"}) = 1
  <2> DEFINE Q == {i \in DOMAIN settling : settling[i] = o}
             H == {s \in Slots : call[s].row = o /\ call[s].at # "insert"}
  <2>1. \A s \in Slots : s \in H <=> Working(call[s]) /\ call[s].row = o
    <3>1. ASSUME NEW s \in Slots, call[s].op = "idle" PROVE call[s].row # o
      BY <3>1, TradingAssumption DEF TradeCalls, TradeCall, Idle, Request
    <3> QED
      BY <3>1 DEF Working
  <2>2. CASE \E i \in DOMAIN settling : settling[i] = o
    <3>1. PICK i \in DOMAIN settling : settling[i] = o
      BY <2>2
    <3>2. Q = {i} /\ H = {}
      BY <2>1, <3>1 DEF TradesOnce
    <3>3. Cardinality(Q) = 1 /\ Cardinality(H) = 0
      BY <3>2, FS_EmptySet, FS_Singleton
    <3> QED
      BY <3>3
  <2>3. CASE \E s \in Slots : Working(call[s]) /\ call[s].row = o
    <3>1. PICK s \in Slots : Working(call[s]) /\ call[s].row = o
      BY <2>3
    <3>2. Q = {} /\ H = {s}
      BY <2>1, <3>1 DEF TradesOnce
    <3>3. Cardinality(Q) = 0 /\ Cardinality(H) = 1
      BY <3>2, FS_EmptySet, FS_Singleton
    <3> QED
      BY <3>3
  <2> QED
    BY <1>1, <2>2, <2>3 DEF TradesPlaced
<1>2. FillsMatchJournals
  BY DEF FillsMatchJournals, OrdersSound, OrderSound, Tf
<1>3. ASSUME NEW a, bal[a] \in Int, NEW side \in {"buy", "sell"}, NEW n \in Nat, SideCovered(a, side, n)
      PROVE  bal[a] >= -(Cardinality(Slots) - 1) * n
  <2>1. Flying(side) \in SUBSET Slots
    BY DEF Flying
  <2>2. PICK p \in Nat, m \in Nat : p = Cardinality(Flying(side)) /\ m = Cardinality(Slots)
    BY <2>1, SlotsFinite
  <2>3. PICK low \in Int : low = -(m - 1) * n
    OBVIOUS
  <2>4. bal[a] - p * n >= low
    BY <1>3, <2>2, <2>3 DEF SideCovered
  <2>5. bal[a] - 0 * n >= low
    BY <1>3, <2>4, OverlapEnds
  <2>6. bal[a] >= low
    BY <1>3, <2>5
  <2> QED
    BY <2>2, <2>3, <2>6
<1>4. OverdrawnByOverlap
  <2>1. Cardinality(Slots) \in Nat
    BY SlotsFinite
  <2>2. bal[TradePosition] >= -(Cardinality(Slots) - 1) * 1
    BY <1>3, TradeBalances DEF TradesCovered
  <2>3. bal[TradeCash] >= -(Cardinality(Slots) - 1) * (TradePrice + TradeFee)
    BY <1>3, TradeBalances DEF TradesCovered
  <2>4. bal[TradePosition] >= -(Cardinality(Slots) - 1)
    BY <2>1, <2>2
  <2> QED
    BY <2>3, <2>4 DEF OverdrawnByOverlap
<1> QED
  BY <1>1, <1>2, <1>4 DEF NoOrderMislaid
-----------------------------------------------------------------------------
(* Lending: a debt is not forgiven, a loan is closed behind its journals.  *)

LoanRows == [status : LoanStatuses, principal : Nat, accrued : Nat]

LoanRequests ==
  Requests({"idle", "open", "accrue", "repay", "liquidate"},
           {"idle", "post", "insert", "update", "release", "close", "seize", "settle"},
           Loans \cup RepayKeys \cup {None}, LoanRows \cup {None})

(* What of the loan has not come back.                                     *)
Owed(k) == Borrowed[k] - PaidOn(k)

(* The principal that a repayment is going to write: once its journal is   *)
(* posted, perhaps by another request with the key, the one after it.      *)
Leaves(r, row) == (IF Posted(<<"repay", r>>) THEN AfterRepay(r, row) ELSE row).principal

LoanCall(c) ==
  /\ c.op = "open" => c.row \in Loans /\ (c.at = "insert" => Posted(<<"open", c.row>>))
  /\ c.op = "accrue" => c.row \in Loans /\ c.saw \in LoanRows /\ Posted(<<"open", c.row>>)
  /\ c.op = "repay" =>
       /\ c.row \in RepayKeys /\ c.saw \in LoanRows /\ Posted(<<"open", RepayLoan[c.row]>>)
       /\ Leaves(c.row, c.saw) >= Owed(RepayLoan[c.row])
       /\ c.at # "post" => Posted(<<"repay", c.row>>)
       /\ c.at \in {"release", "close"} => Owed(RepayLoan[c.row]) <= 0
       /\ c.at = "close" => Posted(<<"release", RepayLoan[c.row]>>)
  /\ c.op = "liquidate" =>
       /\ c.row \in Loans /\ c.saw \in LoanRows /\ Posted(<<"open", c.row>>)
       /\ c.at \in {"settle", "close"} => Posted(<<"seize", c.row>>)
       /\ c.at = "close" => Posted(<<"settle", c.row>>)

(* The principal alone covers the money that is missing: interest that an  *)
(* accrual brings back or drops does not matter.                           *)
LoanRowSound(k, row) ==
  /\ row.status = "active" => row.principal >= Owed(k)
  /\ row.status = "repaid" => Posted(<<"release", k>>)
  /\ row.status = "liquidated" => Posted(<<"seize", k>>) /\ Posted(<<"settle", k>>)
  /\ row.status # "none" => Posted(<<"open", k>>)

LoanTypeOK ==
  /\ LedgerTypeOK
  /\ call \in [Slots -> LoanRequests]
  /\ loan \in [Loans -> LoanRows]
  /\ \A r \in RepayKeys : Repaid(r) \in Nat

LoanCalls == \A s \in Slots : LoanCall(call[s])

LoansSound == \A k \in Loans : LoanRowSound(k, loan[k])

ReleasedPaid == \A k \in Loans : Posted(<<"release", k>>) => Owed(k) <= 0

LoanInv == LoanTypeOK /\ LoanCalls /\ LoansSound /\ ReleasedPaid

(* The repayments of a loan are finitely many.                             *)
LEMMA RepaysFinite ==
  ASSUME NEW k \in Loans
  PROVE  IsFiniteSet({r \in RepayKeys : RepayLoan[r] = k})
<1>1. {r \in RepayKeys : RepayLoan[r] = k} \subseteq RepayKeys
  OBVIOUS
<1> QED
  BY <1>1, LendingAssumption, FS_Subset

LEMMA PaidType ==
  ASSUME LoanTypeOK, NEW k \in Loans
  PROVE  PaidOn(k) \in Nat /\ Borrowed[k] \in Nat /\ Owed(k) \in Int /\ Owed(k) <= Borrowed[k]
<1> DEFINE f == [r \in RepayKeys |-> Repaid(r)]
           S == {r \in RepayKeys : RepayLoan[r] = k}
<1>1. \A r \in S : f[r] \in Nat
  BY DEF LoanTypeOK
<1>2. IsFiniteSet(S)
  BY RepaysFinite
<1> HIDE DEF f, S
<1>3. SumFunctionOnSet(f, S) \in Nat
  BY <1>1, <1>2, SumNat
<1>4. PaidOn(k) \in Nat
  BY <1>3 DEF PaidOn, f, S
<1>5. Borrowed[k] \in Nat
  BY LendingAssumption
<1> QED
  BY <1>4, <1>5 DEF Owed

(* Only a new journal of a repayment changes what was paid ...             *)
LEMMA PaidStays ==
  ASSUME \A j : Posted(j) => Posted(j)' /\ journals'[j] = journals[j],
         \A r \in RepayKeys : Posted(<<"repay", r>>)' => Posted(<<"repay", r>>)
  PROVE  /\ \A r \in RepayKeys : Repaid(r)' = Repaid(r)
         /\ \A k \in Loans : PaidOn(k)' = PaidOn(k) /\ Owed(k)' = Owed(k)
<1>1. \A r \in RepayKeys : Repaid(r)' = Repaid(r)
  BY DEF Repaid
<1>2. [r \in RepayKeys |-> Repaid(r)'] = [r \in RepayKeys |-> Repaid(r)]
  BY <1>1
<1>3. \A k \in Loans : PaidOn(k)' = PaidOn(k)
  BY <1>2 DEF PaidOn
<1> QED
  BY <1>1, <1>3 DEF Owed

(* ... by its cash, for its loan.                                          *)
LEMMA PaidGrows ==
  ASSUME LoanTypeOK, NEW r \in RepayKeys, NEW n \in Nat,
         ~Posted(<<"repay", r>>), Posted(<<"repay", r>>)', journals'[<<"repay", r>>][LoanCash] = -n,
         \A j : Posted(j) => Posted(j)' /\ journals'[j] = journals[j],
         \A j : Posted(j)' => Posted(j) \/ j = <<"repay", r>>
  PROVE  /\ \A q \in RepayKeys : Repaid(q)' \in Nat
         /\ \A k \in Loans : Owed(k)' = Owed(k) - (IF RepayLoan[r] = k THEN n ELSE 0)
<1> DEFINE f == [q \in RepayKeys |-> Repaid(q)]
           g == [q \in RepayKeys |-> Repaid(q)']
<1>1. ASSUME NEW q \in RepayKeys
      PROVE  f[q] \in Nat /\ g[q] = IF q = r THEN n ELSE f[q]
  <2>1. CASE q = r
    BY <2>1 DEF Repaid, LoanTypeOK
  <2>2. CASE q # r
    <3>1. Posted(<<"repay", q>>)' <=> Posted(<<"repay", q>>)
      BY <2>2
    <3> QED
      BY <2>2, <3>1 DEF Repaid, LoanTypeOK
  <2> QED
    BY <2>1, <2>2
<1>2. f[r] = 0
  BY DEF Repaid
<1>3. \A q \in RepayKeys : Repaid(q)' \in Nat
  BY <1>1
<1>4. ASSUME NEW k \in Loans
      PROVE  Owed(k)' = Owed(k) - (IF RepayLoan[r] = k THEN n ELSE 0)
  <2> DEFINE S == {q \in RepayKeys : RepayLoan[q] = k}
  <2>1. IsFiniteSet(S)
    BY RepaysFinite
  <2>2. S \subseteq RepayKeys /\ (r \in S <=> RepayLoan[r] = k)
    OBVIOUS
  <2>3. PaidOn(k) = SumFunctionOnSet(f, S) /\ PaidOn(k)' = SumFunctionOnSet(g, S)
    BY DEF PaidOn
  <2> HIDE DEF f, g, S
  <2>4. \A x \in S : f[x] \in Int /\ g[x] \in Int
    BY <1>1, <2>2
  <2>5. CASE r \in S
    <3>1. \A x \in S \ {r} : f[x] = g[x]
      BY <1>1, <2>2
    <3>2. SumFunctionOnSet(g, S) = SumFunctionOnSet(f, S) + g[r] - f[r]
      BY <2>1, <2>4, <2>5, <3>1, SumChange
    <3> QED
      BY <1>1, <1>2, <2>2, <2>3, <2>5, <3>2, PaidType DEF Owed
  <2>6. CASE r \notin S
    <3>1. \A x \in S : f[x] = g[x]
      BY <1>1, <2>2, <2>6
    <3>2. SumFunctionOnSet(f, S) = SumFunctionOnSet(g, S)
      BY <2>1, <3>1, SumSame
    <3> QED
      BY <2>2, <2>3, <2>6, <3>2, PaidType DEF Owed
  <2> QED
    BY <2>5, <2>6
<1> QED
  BY <1>3, <1>4

LEMMA LoanInitInv == LendingInit => LoanInv
<1> SUFFICES ASSUME LendingInit PROVE LoanInv
  OBVIOUS
<1> USE OpeningAssumption DEF LendingInit, ServiceInit, LedgerInit
<1>1. LedgerTypeOK /\ \A j : ~Posted(j)
  BY DEF LedgerTypeOK, Effects, Posted
<1>2. LoanTypeOK
  BY <1>1 DEF LoanTypeOK, LoanRequests, LoanRows, Requests, Idle, Request, NoLoan, LoanRow,
              LoanStatuses, Repaid
<1>3. LoanCalls
  BY DEF LoanCalls, LoanCall, Idle, Request
<1>4. LoansSound /\ ReleasedPaid
  BY <1>1 DEF LoansSound, LoanRowSound, ReleasedPaid, NoLoan, LoanRow
<1> QED
  BY <1>2, <1>3, <1>4 DEF LoanInv

(* How a payment is divided.                                               *)
LEMMA RepayDivides ==
  ASSUME NEW r \in RepayKeys, NEW row \in LoanRows
  PROVE  /\ Pay(r, row) \in Nat /\ InterestPaid(r, row) \in Nat
         /\ Pay(r, row) <= RepayAmount[r]
         /\ Pay(r, row) = RepayAmount[r] \/ Pay(r, row) >= row.principal
         /\ AfterRepay(r, row) \in LoanRows
         /\ AfterRepay(r, row).principal >= row.principal - Pay(r, row)
         /\ RepaidInFull(r, row) => AfterRepay(r, row).principal = 0
<1>1. RepayAmount[r] \in Nat
  BY LendingAssumption
<1>2. PICK st \in LoanStatuses, p \in Nat, a \in Nat :
        row = [status |-> st, principal |-> p, accrued |-> a]
  BY DEF LoanRows
<1>3. Outstanding(row) = p + a /\ row.principal = p /\ row.accrued = a
  BY <1>2 DEF Outstanding
<1> DEFINE m == Pay(r, row)
           i == InterestPaid(r, row)
<1>4. /\ m \in Nat /\ m <= RepayAmount[r] /\ m <= p + a
      /\ m = RepayAmount[r] \/ m = p + a
  BY <1>1, <1>3 DEF Pay, Least
<1>5. i \in Nat /\ i <= m /\ i <= a /\ (i = m \/ i = a)
  BY <1>3, <1>4 DEF InterestPaid, Least
<1>6. AfterRepay(r, row) = [status |-> st, principal |-> p - (m - i), accrued |-> a - i]
  BY <1>2, <1>3 DEF AfterRepay, LoanRow
<1> HIDE DEF m, i
<1>7. p - (m - i) \in Nat /\ a - i \in Nat /\ p - (m - i) >= p - m
  BY <1>4, <1>5
<1>8. AfterRepay(r, row) \in LoanRows
  BY <1>6, <1>7 DEF LoanRows
<1>9. RepaidInFull(r, row) => AfterRepay(r, row).principal = 0
  <2>1. PICK x \in Nat, y \in Nat : x = p - (m - i) /\ y = a - i
    BY <1>7
  <2>2. Outstanding(AfterRepay(r, row)) = x + y
    BY <1>6, <2>1 DEF Outstanding
  <2>3. x + y = 0 => x = 0
    OBVIOUS
  <2> QED
    BY <1>6, <2>1, <2>2, <2>3 DEF RepaidInFull
<1> QED
  BY <1>3, <1>4, <1>5, <1>6, <1>7, <1>8, <1>9 DEF m, i

(* A step that posts no repayment: what a request or a row rests on stays. *)
LEMMA LoanKeeps ==
  ASSUME \A j : Posted(j) => Posted(j)' /\ journals'[j] = journals[j],
         \A r \in RepayKeys : Posted(<<"repay", r>>)' => Posted(<<"repay", r>>)
  PROVE  /\ \A c : LoanCall(c) => LoanCall(c)'
         /\ \A k \in Loans : \A row : LoanRowSound(k, row) => LoanRowSound(k, row)'
<1>1. \A r \in RepayKeys : \A row : Leaves(r, row)' = Leaves(r, row)
  BY DEF Leaves
<1>2. \A k \in Loans : Owed(k)' = Owed(k)
  BY PaidStays
<1>3. ASSUME NEW c, LoanCall(c) PROVE LoanCall(c)'
  <2>1. c.op = "repay" => RepayLoan[c.row] \in Loans
    BY <1>3, LendingAssumption DEF LoanCall
  <2> QED
    BY <1>1, <1>2, <1>3, <2>1 DEF LoanCall
<1>4. ASSUME NEW k \in Loans, NEW row, LoanRowSound(k, row) PROVE LoanRowSound(k, row)'
  BY <1>2, <1>4 DEF LoanRowSound
<1> QED
  BY <1>3, <1>4

LEMMA LoanQuietInv ==
  ASSUME LoanInv, NEW s \in Slots, NEW c \in LoanRequests, Becomes(s, c), LoanCall(c)',
         NEW k \in Loans, NEW w \in LoanRows, loan' = [loan EXCEPT ![k] = w], LoanRowSound(k, w)',
         LedgerTypeOK',
         \A j : Posted(j) => Posted(j)' /\ journals'[j] = journals[j],
         \A r \in RepayKeys : Posted(<<"repay", r>>)' => Posted(<<"repay", r>>),
         \A l \in Loans : Posted(<<"release", l>>)' => Posted(<<"release", l>>) \/ Owed(l) <= 0
  PROVE  LoanInv'
<1> USE DEF LoanInv
<1>1. /\ call' \in [Slots -> LoanRequests] /\ call'[s] = c
      /\ \A t \in Slots \ {s} : call'[t] = call[t]
  BY BecomesOne DEF LoanTypeOK
<1>2. /\ \A l \in Loans : Owed(l)' = Owed(l)
      /\ \A r \in RepayKeys : Repaid(r)' = Repaid(r)
  BY PaidStays
<1>3. LoanTypeOK'
  <2>1. loan' \in [Loans -> LoanRows]
    BY DEF LoanTypeOK
  <2> QED
    BY <1>1, <1>2, <2>1 DEF LoanTypeOK
<1>4. LoanCalls'
  <2>1. ASSUME NEW t \in Slots PROVE LoanCall(call[t])'
    <3>1. CASE t = s
      BY <1>1, <3>1 DEF LoanCall, Leaves
    <3>2. CASE t # s
      <4>1. PICK d : d = call[t] /\ LoanCall(d)
        BY DEF LoanCalls
      <4>2. LoanCall(d)' /\ call'[t] = d
        BY <1>1, <3>2, <4>1, LoanKeeps
      <4> QED
        BY <4>2 DEF LoanCall, Leaves
    <3> QED
      BY <3>1, <3>2
  <2> QED
    BY <2>1 DEF LoanCalls
<1>5. LoansSound'
  <2>1. ASSUME NEW l \in Loans PROVE LoanRowSound(l, loan[l])'
    <3>1. CASE l = k
      <4>1. loan'[l] = w
        BY <3>1 DEF LoanTypeOK
      <4> QED
        BY <3>1, <4>1 DEF LoanRowSound
    <3>2. CASE l # k
      <4>1. PICK d : d = loan[l] /\ LoanRowSound(l, d)
        BY DEF LoansSound
      <4>2. loan'[l] = d /\ LoanRowSound(l, d)'
        BY <3>2, <4>1, LoanKeeps DEF LoanTypeOK
      <4> QED
        BY <4>2 DEF LoanRowSound
    <3> QED
      BY <3>1, <3>2
  <2> QED
    BY <2>1 DEF LoansSound
<1>6. ReleasedPaid'
  BY <1>2 DEF ReleasedPaid
<1> QED
  BY <1>3, <1>4, <1>5, <1>6

(* What a step that begins, that goes on or that ends needs to know.       *)
LEMMA LoanBegins ==
  ASSUME LoanInv, NEW s \in Slots, NEW op \in {"open", "accrue", "repay", "liquidate"},
         NEW at \in {"post", "update", "seize"}, NEW row \in Loans \cup RepayKeys,
         NEW saw \in LoanRows \cup {None}, Begin(s, op, at, row, saw), UNCHANGED <<journals, bal, loan>>,
         NEW k \in Loans, \A c : c = Request(op, at, row, saw) => LoanCall(c)
  PROVE  LoanInv'
<1>1. PICK c : c = Request(op, at, row, saw) /\ LoanCall(c)
  OBVIOUS
<1>2. c \in LoanRequests /\ Becomes(s, c)
  BY <1>1 DEF LoanRequests, Requests, Request, Begin, Becomes
<1>3. PICK w : w = loan[k] /\ w \in LoanRows /\ LoanRowSound(k, w)
  BY DEF LoanInv, LoansSound, LoanTypeOK
<1>4. loan' = [loan EXCEPT ![k] = w]
  BY <1>3 DEF LoanInv, LoanTypeOK
<1>5. /\ LedgerTypeOK' /\ \A j : Posted(j)' <=> Posted(j)
      /\ \A j : journals'[j] = journals[j]
  BY DEF LoanInv, LoanTypeOK, LedgerTypeOK, Posted
<1>6. LoanCall(c)' /\ LoanRowSound(k, w)'
  BY <1>1, <1>3, <1>5, LoanKeeps
<1>7. /\ \A r \in RepayKeys : Posted(<<"repay", r>>)' => Posted(<<"repay", r>>)
      /\ \A l \in Loans : Posted(<<"release", l>>)' => Posted(<<"release", l>>) \/ Owed(l) <= 0
      /\ \A j : Posted(j) => Posted(j)' /\ journals'[j] = journals[j]
  BY <1>5
<1> QED
  BY <1>2, <1>3, <1>4, <1>5, <1>6, <1>7, LoanQuietInv

LEMMA LoanPosts ==
  ASSUME LoanInv, NEW s \in Slots, NEW at \in {"insert", "close", "settle"}, Goto(s, at),
         NEW key, NEW d \in Effects, PostJournal(key, d), UNCHANGED loan, NEW k \in Loans,
         \A r \in RepayKeys : key # <<"repay", r>>,
         \A l \in Loans : key = <<"release", l>> => Owed(l) <= 0,
         \A c, b : b = call[s] /\ c = Request(b.op, at, b.row, b.saw) /\ LoanCall(b)' /\ Posted(key)'
                   => LoanCall(c)'
  PROVE  LoanInv'
<1>1. PICK b : b = call[s] /\ b \in LoanRequests /\ LoanCall(b)
  BY DEF LoanInv, LoanTypeOK, LoanCalls
<1>2. PICK c : c = Request(b.op, at, b.row, b.saw)
  OBVIOUS
<1>3. Becomes(s, c)
  BY <1>1, <1>2, GotoBecomes DEF LoanInv, LoanTypeOK, LoanRequests
<1>4. c \in LoanRequests
  BY <1>1, <1>2 DEF LoanRequests, Requests, Request
<1>5. /\ LedgerTypeOK' /\ Posted(key)'
      /\ \A j : Posted(j) => Posted(j)' /\ journals'[j] = journals[j]
      /\ \A j : Posted(j)' => Posted(j) \/ j = key
  BY PostKeeps DEF LoanInv, LoanTypeOK
<1>6. \A r \in RepayKeys : Posted(<<"repay", r>>)' => Posted(<<"repay", r>>)
  BY <1>5
<1>7. PICK w : w = loan[k] /\ w \in LoanRows /\ LoanRowSound(k, w)
  BY DEF LoanInv, LoansSound, LoanTypeOK
<1>8. loan' = [loan EXCEPT ![k] = w]
  BY <1>7 DEF LoanInv, LoanTypeOK
<1>9. LoanCall(b)' /\ LoanRowSound(k, w)'
  BY <1>1, <1>5, <1>6, <1>7, LoanKeeps
<1>10. LoanCall(c)'
  BY <1>1, <1>2, <1>5, <1>9
<1>11. \A l \in Loans : Posted(<<"release", l>>)' => Posted(<<"release", l>>) \/ Owed(l) <= 0
  BY <1>5
<1> QED
  BY <1>3, <1>4, <1>5, <1>6, <1>7, <1>8, <1>9, <1>10, <1>11, LoanQuietInv

LEMMA LoanWrites ==
  ASSUME LoanInv, NEW s \in Slots, Leave(s), UNCHANGED ledgerVars,
         NEW k \in Loans, NEW w \in LoanRows, loan' = [loan EXCEPT ![k] = w], LoanRowSound(k, w)
  PROVE  LoanInv'
<1>1. PICK c : c = Idle
  OBVIOUS
<1>2. c \in LoanRequests /\ LoanCall(c)
  BY <1>1 DEF LoanRequests, Requests, Request, Idle, LoanCall
<1>3. Becomes(s, c)
  BY <1>1 DEF Leave, Becomes
<1>4. /\ LedgerTypeOK' /\ \A j : Posted(j)' <=> Posted(j)
      /\ \A j : journals'[j] = journals[j]
  BY DEF LoanInv, LoanTypeOK, LedgerTypeOK, Posted, ledgerVars
<1>5. LoanCall(c)' /\ LoanRowSound(k, w)'
  BY <1>2, <1>4, LoanKeeps
<1> QED
  BY <1>2, <1>3, <1>4, <1>5, LoanQuietInv

(* openLoan.                                                               *)
LEMMA OpenInv ==
  ASSUME LoanInv, NEW s \in Slots,
         (\E k \in Loans : OpenCall(s, k)) \/ OpenPost(s) \/ OpenInsert(s)
  PROVE  LoanInv'
<1>1. ASSUME NEW k \in Loans, OpenCall(s, k) PROVE LoanInv'
  <2>1. \A c : c = Request("open", "post", k, None) => LoanCall(c)
    BY DEF Request, LoanCall
  <2>2. Begin(s, "open", "post", k, None) /\ UNCHANGED <<journals, bal, loan>>
    BY <1>1 DEF OpenCall
  <2> QED
    BY <2>1, <2>2, LoanBegins
<1>2. ASSUME OpenPost(s) PROVE LoanInv'
  <2>1. call[s].op = "open" /\ call[s].row \in Loans
    BY <1>2 DEF OpenPost, At, LoanInv, LoanCalls, LoanCall
  <2>2. PICK k \in Loans : k = call[s].row
    BY <2>1
  <2> DEFINE d == Both(Move(Holding, Collateral, Pledged[k]), Move(LoanPool, LoanCash, Borrowed[k]))
  <2>3. PostJournal(<<"open", k>>, d) /\ Goto(s, "insert") /\ UNCHANGED loan
    BY <1>2, <2>2 DEF OpenPost
  <2>4. Pledged[k] \in Int /\ Borrowed[k] \in Int
    BY LendingAssumption
  <2>5. d \in Effects
    BY <2>4, MoveType, BothType
  <2> HIDE DEF d
  <2>6. \A c, b : b = call[s] /\ c = Request(b.op, "insert", b.row, b.saw) /\ LoanCall(b)'
                  /\ Posted(<<"open", k>>)' => LoanCall(c)'
    BY <2>1, <2>2 DEF LoanCall, Request
  <2>7. /\ \A r \in RepayKeys : <<"open", k>> # <<"repay", r>>
        /\ \A l \in Loans : <<"open", k>> # <<"release", l>>
    OBVIOUS
  <2> QED
    BY <2>3, <2>5, <2>6, <2>7, LoanPosts
<1>3. ASSUME OpenInsert(s) PROVE LoanInv'
  <2>1. call[s].row \in Loans /\ Posted(<<"open", call[s].row>>)
    BY <1>3 DEF OpenInsert, At, LoanInv, LoanCalls, LoanCall
  <2>2. PICK k \in Loans : k = call[s].row
    BY <2>1
  <2>3. PICK w : w = IF loan[k].status = "none" THEN LoanRow("active", Borrowed[k], 0) ELSE loan[k]
    OBVIOUS
  <2>4. loan' = [loan EXCEPT ![k] = w] /\ Leave(s) /\ UNCHANGED ledgerVars
    BY <1>3, <2>2, <2>3 DEF OpenInsert
  <2>5. w \in LoanRows /\ LoanRowSound(k, w)
    <3>1. CASE loan[k].status = "none"
      <4>1. Borrowed[k] \in Nat /\ Borrowed[k] >= Owed(k)
        BY PaidType DEF LoanInv
      <4>2. w = [status |-> "active", principal |-> Borrowed[k], accrued |-> 0]
        BY <2>3, <3>1 DEF LoanRow
      <4> QED
        BY <2>1, <2>2, <4>1, <4>2 DEF LoanRows, LoanStatuses, LoanRowSound
    <3>2. CASE loan[k].status # "none"
      BY <2>3, <3>2 DEF LoanInv, LoanTypeOK, LoansSound, LoanRowSound
    <3> QED
      BY <3>1, <3>2
  <2> QED
    BY <2>4, <2>5, LoanWrites
<1> QED
  BY <1>1, <1>2, <1>3

(* accrueInterest.                                                         *)
LEMMA AccrueInv ==
  ASSUME LoanInv, NEW s \in Slots, (\E k \in Loans : AccrueCall(s, k)) \/ AccrueUpdate(s)
  PROVE  LoanInv'
<1>1. ASSUME NEW k \in Loans, AccrueCall(s, k) PROVE LoanInv'
  <2>1. loan[k] \in LoanRows /\ Posted(<<"open", k>>)
    BY <1>1 DEF AccrueCall, LoanInv, LoanTypeOK, LoansSound, LoanRowSound
  <2>2. \A c : c = Request("accrue", "update", k, loan[k]) => LoanCall(c)
    BY <2>1 DEF Request, LoanCall
  <2>3. Begin(s, "accrue", "update", k, loan[k]) /\ UNCHANGED <<journals, bal, loan>>
    BY <1>1 DEF AccrueCall
  <2> QED
    BY <2>1, <2>2, <2>3, LoanBegins
<1>2. ASSUME AccrueUpdate(s) PROVE LoanInv'
  <2>1. call[s].row \in Loans /\ call[s].saw \in LoanRows
    BY <1>2 DEF AccrueUpdate, At, LoanInv, LoanCalls, LoanCall
  <2>2. PICK k \in Loans : k = call[s].row
    BY <2>1
  <2>3. PICK interest \in {0, 1} : loan' = [loan EXCEPT ![k].accrued = call[s].saw.accrued + interest]
    BY <1>2, <2>2 DEF AccrueUpdate
  <2>4. PICK v \in Nat : v = call[s].saw.accrued + interest
    BY <2>1 DEF LoanRows
  <2>5. PICK w : w = [loan[k] EXCEPT !.accrued = v]
    OBVIOUS
  <2>6. loan' = [loan EXCEPT ![k] = w] /\ Leave(s) /\ UNCHANGED ledgerVars
    BY <1>2, <2>3, <2>4, <2>5 DEF AccrueUpdate
  <2>7. loan[k] \in LoanRows /\ LoanRowSound(k, loan[k])
    BY DEF LoanInv, LoanTypeOK, LoansSound
  <2>8. w \in LoanRows /\ w.status = loan[k].status /\ w.principal = loan[k].principal
    BY <2>5, <2>7 DEF LoanRows
  <2>9. LoanRowSound(k, w)
    BY <2>7, <2>8 DEF LoanRowSound
  <2> QED
    BY <2>6, <2>8, <2>9, LoanWrites
<1> QED
  BY <1>1, <1>2

(* repay: the first request that posts the journal of a key.  Another one  *)
(* with the key has seen another row, and its principal after the payment  *)
(* still covers what is owed: the payment was of the same amount, or it    *)
(* left nothing.                                                           *)
LEMMA RepayPostsInv ==
  ASSUME LoanInv, NEW s \in Slots, RepayPost(s), ~Posted(<<"repay", call[s].row>>)
  PROVE  LoanInv'
<1> USE DEF LoanInv
<1>1. PICK b : b = call[s] /\ b \in LoanRequests /\ LoanCall(b)
  BY DEF LoanTypeOK, LoanCalls
<1>2. b.op = "repay"
  BY <1>1 DEF RepayPost, At
<1>3. PICK r \in RepayKeys, row \in LoanRows : r = b.row /\ row = b.saw
  BY <1>1, <1>2 DEF LoanCall
<1>4. PICK k \in Loans : k = RepayLoan[r]
  BY LendingAssumption
<1>5. ~Posted(<<"repay", r>>)
  BY <1>1, <1>3
<1>6. row.principal >= Owed(k) /\ Posted(<<"open", k>>)
  BY <1>1, <1>2, <1>3, <1>4, <1>5 DEF LoanCall, Leaves
<1>7. PICK n \in Nat, i \in Nat : n = Pay(r, row) /\ i = InterestPaid(r, row)
  BY RepayDivides
<1> DEFINE d == Both(Move(LoanCash, LoanPool, n - i), Move(LoanCash, LoanFee, i))
           at == IF RepaidInFull(r, row) THEN "release" ELSE "update"
<1>8. PostJournal(<<"repay", r>>, d) /\ Goto(s, at) /\ UNCHANGED loan
  BY <1>1, <1>3, <1>7 DEF RepayPost
<1>9. d \in Effects /\ d[LoanCash] = -n
  <2>1. d \in Effects
    BY MoveType, BothType
  <2>2. d[LoanCash] = (0 - (n - i)) + (0 - i)
    BY LendingAssumption DEF Both, Move
  <2> QED
    BY <2>1, <2>2
<1> HIDE DEF d
<1>10. /\ LedgerTypeOK' /\ Posted(<<"repay", r>>)' /\ journals'[<<"repay", r>>] = d
       /\ \A j : Posted(j) => Posted(j)' /\ journals'[j] = journals[j]
       /\ \A j : Posted(j)' => Posted(j) \/ j = <<"repay", r>>
  BY <1>5, <1>8, <1>9, PostKeeps DEF LoanTypeOK
<1>11. /\ \A q \in RepayKeys : Repaid(q)' \in Nat
       /\ \A l \in Loans : Owed(l)' = Owed(l) - (IF k = l THEN n ELSE 0)
  BY <1>4, <1>5, <1>9, <1>10, PaidGrows
<1>12. \A l \in Loans : Owed(l) \in Int /\ Owed(l)' \in Int /\ Owed(l)' <= Owed(l)
  BY <1>11, PaidType
<1>13. n = RepayAmount[r] \/ Owed(k)' <= 0
  <2>1. CASE n = RepayAmount[r]
    BY <2>1
  <2>2. CASE n >= row.principal
    BY <1>6, <1>11, <1>12, <2>2 DEF LoanRows
  <2> QED
    BY <1>7, <2>1, <2>2, RepayDivides
(* The requests.                                                           *)
<1>14. ASSUME NEW q \in RepayKeys, NEW saw \in LoanRows, Leaves(q, saw) >= Owed(RepayLoan[q])
       PROVE  Leaves(q, saw)' >= Owed(RepayLoan[q])'
  <2>1. PICK l \in Loans : l = RepayLoan[q]
    BY LendingAssumption
  <2>2. PICK e \in LoanRows : e = AfterRepay(q, saw)
    BY RepayDivides
  <2>3. e.principal \in Nat /\ saw.principal \in Nat
    BY DEF LoanRows
  <2>4. CASE q = r
    <3>1. Leaves(q, saw) = saw.principal /\ Leaves(q, saw)' = e.principal
      BY <1>5, <1>10, <2>2, <2>4 DEF Leaves
    <3>2. PICK m \in Nat : m = Pay(q, saw) /\ m <= RepayAmount[q] /\ e.principal >= saw.principal - m
      BY <2>2, RepayDivides
    <3>3. l = k /\ Owed(l)' = Owed(l) - n /\ saw.principal >= Owed(l)
      BY <1>4, <1>11, <1>14, <2>1, <2>4, <3>1
    <3>4. CASE n = RepayAmount[r]
      <4>1. m <= n
        BY <2>4, <3>2, <3>4
      <4>2. e.principal >= Owed(l)'
        BY <1>12, <2>3, <3>2, <3>3, <4>1
      <4> QED
        BY <2>1, <3>1, <4>2
    <3>5. CASE Owed(k)' <= 0
      <4>1. e.principal >= Owed(l)'
        BY <1>12, <2>3, <3>3, <3>5
      <4> QED
        BY <2>1, <3>1, <4>1
    <3> QED
      BY <1>13, <3>4, <3>5
  <2>5. CASE q # r
    <3>1. Posted(<<"repay", q>>)' <=> Posted(<<"repay", q>>)
      BY <1>10, <2>5
    <3>2. Leaves(q, saw)' = Leaves(q, saw) /\ Leaves(q, saw) \in Nat
      BY <2>2, <2>3, <3>1 DEF Leaves
    <3> QED
      BY <1>12, <1>14, <2>1, <3>2
  <2> QED
    BY <2>4, <2>5
<1>15. ASSUME NEW c, LoanCall(c) PROVE LoanCall(c)'
  <2>1. CASE c.op = "repay"
    <3>1. /\ c.row \in RepayKeys /\ c.saw \in LoanRows /\ RepayLoan[c.row] \in Loans
          /\ Leaves(c.row, c.saw)' >= Owed(RepayLoan[c.row])'
      BY <1>14, <1>15, <2>1, LendingAssumption DEF LoanCall
    <3>2. Owed(RepayLoan[c.row]) <= 0 => Owed(RepayLoan[c.row])' <= 0
      BY <1>12, <3>1
    <3> QED
      BY <1>10, <1>15, <2>1, <3>1, <3>2 DEF LoanCall
  <2>2. CASE c.op # "repay"
    BY <1>10, <1>15, <2>2 DEF LoanCall
  <2> QED
    BY <2>1, <2>2
<1>16. PICK c : c = Request("repay", at, r, row)
  OBVIOUS
<1>17. Becomes(s, c)
  BY <1>1, <1>2, <1>3, <1>8, <1>16, GotoBecomes DEF LoanTypeOK, LoanRequests
<1>18. c \in LoanRequests /\ c.op = "repay" /\ c.at = at /\ c.row = r /\ c.saw = row
  BY <1>16 DEF LoanRequests, Requests, Request
<1>19. LoanCall(c)'
  <2>1. Leaves(r, row)' >= Owed(k)' /\ Leaves(r, row)' = AfterRepay(r, row).principal
    BY <1>1, <1>2, <1>3, <1>4, <1>10, <1>14 DEF LoanCall, Leaves
  <2>2. at = "release" => Owed(k)' <= 0
    <3>1. at = "release" => AfterRepay(r, row).principal = 0
      BY RepayDivides
    <3> QED
      BY <1>12, <2>1, <3>1
  <2>3. at # "post" /\ at # "close" /\ Posted(<<"open", k>>)'
    BY <1>6, <1>10
  <2> HIDE DEF at
  <2> QED
    BY <1>4, <1>10, <1>18, <2>1, <2>2, <2>3 DEF LoanCall
<1>20. /\ call' \in [Slots -> LoanRequests] /\ call'[s] = c
       /\ \A t \in Slots \ {s} : call'[t] = call[t]
  BY <1>17, <1>18, BecomesOne DEF LoanTypeOK
<1>21. LoanTypeOK'
  BY <1>8, <1>10, <1>11, <1>20 DEF LoanTypeOK
<1>22. LoanCalls'
  <2>1. ASSUME NEW t \in Slots PROVE LoanCall(call[t])'
    <3>1. PICK x : x = call'[t] /\ LoanCall(x)'
      <4>1. PICK y : y = call[t] /\ LoanCall(y)
        BY DEF LoanCalls
      <4> QED
        BY <1>15, <1>19, <1>20, <4>1
    <3> QED
      BY <3>1 DEF LoanCall, Leaves
  <2> QED
    BY <2>1 DEF LoanCalls
<1>23. LoansSound'
  <2>1. ASSUME NEW l \in Loans PROVE LoanRowSound(l, loan[l])'
    <3>1. LoanRowSound(l, loan[l]) /\ loan[l].principal \in Nat /\ loan'[l] = loan[l]
      BY <1>8 DEF LoansSound, LoanTypeOK, LoanRows
    <3> QED
      BY <1>10, <1>12, <3>1 DEF LoanRowSound
  <2> QED
    BY <2>1 DEF LoansSound
<1>24. ReleasedPaid'
  <2>1. \A l \in Loans : Posted(<<"release", l>>)' => Posted(<<"release", l>>)
    BY <1>10
  <2> QED
    BY <1>12, <2>1 DEF ReleasedPaid
<1> QED
  BY <1>21, <1>22, <1>23, <1>24

(* The other steps of repay.                                               *)
LEMMA RepayInv ==
  ASSUME LoanInv, NEW s \in Slots,
         \/ \E r \in RepayKeys : RepayCall(s, r)
         \/ RepayPost(s) \/ RepayRelease(s) \/ RepayClose(s) \/ RepayUpdate(s)
  PROVE  LoanInv'
<1>1. ASSUME NEW r \in RepayKeys, RepayCall(s, r) PROVE LoanInv'
  <2>1. PICK k \in Loans : k = RepayLoan[r]
    BY LendingAssumption
  <2>2. PICK row \in LoanRows : row = loan[k]
    BY DEF LoanInv, LoanTypeOK
  <2>3. /\ ~Posted(<<"repay", r>>) /\ row.status = "active" /\ UNCHANGED <<journals, bal, loan>>
        /\ Begin(s, "repay", "post", r, row)
    BY <1>1, <2>1, <2>2 DEF RepayCall
  <2>4. row.principal >= Owed(k) /\ Posted(<<"open", k>>)
    BY <2>2, <2>3 DEF LoanInv, LoansSound, LoanRowSound
  <2>5. \A c : c = Request("repay", "post", r, row) => LoanCall(c)
    BY <2>1, <2>3, <2>4 DEF Request, LoanCall, Leaves
  <2> QED
    BY <2>3, <2>5, LoanBegins
<1>2. SUFFICES ASSUME RepayPost(s) \/ RepayRelease(s) \/ RepayClose(s) \/ RepayUpdate(s)
               PROVE  LoanInv'
  BY <1>1
<1>3. PICK b : b = call[s] /\ b \in LoanRequests /\ LoanCall(b)
  BY DEF LoanInv, LoanTypeOK, LoanCalls
<1>4. b.op = "repay"
  BY <1>2, <1>3 DEF RepayPost, RepayRelease, RepayClose, RepayUpdate, At
<1>5. PICK r \in RepayKeys, row \in LoanRows : r = b.row /\ row = b.saw
  BY <1>3, <1>4 DEF LoanCall
<1>6. PICK k \in Loans : k = RepayLoan[r]
  BY LendingAssumption
<1>7. Leaves(r, row) >= Owed(k) /\ Posted(<<"open", k>>) /\ Owed(k) \in Int
  BY <1>3, <1>4, <1>5, <1>6, PaidType DEF LoanCall, LoanInv
<1>8. PICK e \in LoanRows : e = AfterRepay(r, row)
  BY RepayDivides
<1>9. PICK w \in LoanRows : w = loan[k] /\ LoanRowSound(k, w)
  BY DEF LoanInv, LoanTypeOK, LoansSound
<1>10. ASSUME RepayPost(s), Posted(<<"repay", r>>) PROVE LoanInv'
  <2> DEFINE at == IF RepaidInFull(r, row) THEN "release" ELSE "update"
  <2>1. Goto(s, at) /\ UNCHANGED loan
    BY <1>3, <1>5, <1>10 DEF RepayPost
  <2>2. UNCHANGED ledgerVars
    BY <1>3, <1>5, <1>10 DEF RepayPost, PostJournal
  <2>3. PICK c : c = Request("repay", at, r, row)
    OBVIOUS
  <2>4. Becomes(s, c)
    BY <1>3, <1>4, <1>5, <2>1, <2>3, GotoBecomes DEF LoanInv, LoanTypeOK, LoanRequests
  <2>5. c \in LoanRequests /\ c.op = "repay" /\ c.at = at /\ c.row = r /\ c.saw = row
    BY <2>3 DEF LoanRequests, Requests, Request
  <2>6. at = "release" => Owed(k) <= 0
    <3>1. at = "release" => e.principal = 0
      BY <1>8, RepayDivides
    <3> QED
      BY <1>7, <1>8, <1>10, <3>1 DEF Leaves
  <2>7. at # "post" /\ at # "close"
    OBVIOUS
  <2> HIDE DEF at
  <2>8. LoanCall(c)
    BY <1>6, <1>7, <1>10, <2>5, <2>6, <2>7 DEF LoanCall
  <2>9. /\ LedgerTypeOK' /\ \A j : Posted(j)' <=> Posted(j)
        /\ \A j : journals'[j] = journals[j]
    BY <2>2 DEF LoanInv, LoanTypeOK, LedgerTypeOK, Posted, ledgerVars
  <2>10. LoanCall(c)' /\ LoanRowSound(k, w)'
    BY <1>9, <2>8, <2>9, LoanKeeps
  <2>11. loan' = [loan EXCEPT ![k] = w]
    BY <1>9, <2>1 DEF LoanInv, LoanTypeOK
  <2> QED
    BY <2>4, <2>5, <2>9, <2>10, <2>11, LoanQuietInv
<1>11. ASSUME RepayRelease(s) PROVE LoanInv'
  <2> DEFINE d == Move(Collateral, Holding, Pledged[k])
  <2>1. PostJournal(<<"release", k>>, d) /\ Goto(s, "close") /\ UNCHANGED loan /\ b.at = "release"
    BY <1>3, <1>5, <1>6, <1>11 DEF RepayRelease, At
  <2>2. d \in Effects
    BY LendingAssumption, MoveType
  <2> HIDE DEF d
  <2>3. Owed(k) <= 0
    BY <1>3, <1>4, <1>5, <1>6, <2>1 DEF LoanCall
  <2>4. \A c, x : x = call[s] /\ c = Request(x.op, "close", x.row, x.saw) /\ LoanCall(x)'
                  /\ Posted(<<"release", k>>)' => LoanCall(c)'
    BY <1>3, <1>4, <1>5, <1>6, <2>1 DEF LoanCall, Request
  <2>5. /\ \A q \in RepayKeys : <<"release", k>> # <<"repay", q>>
        /\ \A l \in Loans : <<"release", k>> = <<"release", l>> => Owed(l) <= 0
    BY <2>3
  <2> QED
    BY <2>1, <2>2, <2>4, <2>5, LoanPosts
<1>12. ASSUME RepayClose(s) PROVE LoanInv'
  <2>1. PICK x : x = LoanRow("repaid", 0, 0)
    OBVIOUS
  <2>2. loan' = [loan EXCEPT ![k] = x] /\ Leave(s) /\ UNCHANGED ledgerVars /\ b.at = "close"
    BY <1>3, <1>5, <1>6, <1>12, <2>1 DEF RepayClose, At
  <2>3. Posted(<<"release", k>>)
    BY <1>3, <1>4, <1>5, <1>6, <2>2 DEF LoanCall
  <2>4. x \in LoanRows /\ LoanRowSound(k, x)
    BY <1>7, <2>1, <2>3 DEF LoanRow, LoanRows, LoanStatuses, LoanRowSound
  <2> QED
    BY <2>2, <2>4, LoanWrites
<1>13. ASSUME RepayUpdate(s) PROVE LoanInv'
  <2>1. PICK x : x = [e EXCEPT !.status = w.status]
    OBVIOUS
  <2>2. loan' = [loan EXCEPT ![k] = x] /\ Leave(s) /\ UNCHANGED ledgerVars /\ b.at = "update"
    BY <1>3, <1>5, <1>6, <1>8, <1>9, <1>13, <2>1 DEF RepayUpdate, At
  <2>3. Posted(<<"repay", r>>)
    BY <1>3, <1>4, <1>5, <2>2 DEF LoanCall
  <2>4. x \in LoanRows /\ x.status = w.status /\ x.principal = e.principal
    BY <1>8, <1>9, <2>1 DEF LoanRows
  <2>5. LoanRowSound(k, x)
    BY <1>7, <1>8, <1>9, <2>3, <2>4 DEF LoanRowSound, Leaves
  <2> QED
    BY <2>2, <2>4, <2>5, LoanWrites
<1> QED
  BY <1>2, <1>3, <1>5, <1>10, <1>11, <1>12, <1>13, RepayPostsInv

(* liquidate.                                                              *)
LEMMA LiquidateInv ==
  ASSUME LoanInv, NEW s \in Slots,
         \/ \E k \in Loans : LiquidateCall(s, k)
         \/ LiquidateSeize(s) \/ LiquidateSettle(s) \/ LiquidateClose(s)
  PROVE  LoanInv'
<1>1. ASSUME NEW k \in Loans, LiquidateCall(s, k) PROVE LoanInv'
  <2>1. loan[k] \in LoanRows /\ Posted(<<"open", k>>)
    BY <1>1 DEF LiquidateCall, LoanInv, LoanTypeOK, LoansSound, LoanRowSound
  <2>2. \A c : c = Request("liquidate", "seize", k, loan[k]) => LoanCall(c)
    BY <2>1 DEF Request, LoanCall
  <2>3. Begin(s, "liquidate", "seize", k, loan[k]) /\ UNCHANGED <<journals, bal, loan>>
    BY <1>1 DEF LiquidateCall
  <2> QED
    BY <2>1, <2>2, <2>3, LoanBegins
<1>2. SUFFICES ASSUME LiquidateSeize(s) \/ LiquidateSettle(s) \/ LiquidateClose(s) PROVE LoanInv'
  BY <1>1
<1>3. PICK b : b = call[s] /\ b \in LoanRequests /\ LoanCall(b)
  BY DEF LoanInv, LoanTypeOK, LoanCalls
<1>4. b.op = "liquidate"
  BY <1>2, <1>3 DEF LiquidateSeize, LiquidateSettle, LiquidateClose, At
<1>5. PICK k \in Loans, row \in LoanRows : k = b.row /\ row = b.saw
  BY <1>3, <1>4 DEF LoanCall
<1>6. ASSUME LiquidateSeize(s) PROVE LoanInv'
  <2> DEFINE d == Move(Collateral, Sink, Pledged[k])
  <2>1. PostJournal(<<"seize", k>>, d) /\ Goto(s, "settle") /\ UNCHANGED loan
    BY <1>3, <1>5, <1>6 DEF LiquidateSeize
  <2>2. d \in Effects
    BY LendingAssumption, MoveType
  <2> HIDE DEF d
  <2>3. \A c, x : x = call[s] /\ c = Request(x.op, "settle", x.row, x.saw) /\ LoanCall(x)'
                  /\ Posted(<<"seize", k>>)' => LoanCall(c)'
    BY <1>3, <1>4, <1>5 DEF LoanCall, Request
  <2>4. /\ \A q \in RepayKeys : <<"seize", k>> # <<"repay", q>>
        /\ \A l \in Loans : <<"seize", k>> # <<"release", l>>
    OBVIOUS
  <2> QED
    BY <2>1, <2>2, <2>3, <2>4, LoanPosts
<1>7. ASSUME LiquidateSettle(s) PROVE LoanInv'
  <2> DEFINE covered == Least(Outstanding(row), Worth[k])
             interest == Least(covered, row.accrued)
             d == Both(Move(Proceeds, LoanCash, Worth[k] - covered),
                       Both(Move(Proceeds, LoanPool, covered - interest), Move(Proceeds, LoanFee, interest)))
  <2>1. PostJournal(<<"settle", k>>, d) /\ Goto(s, "close") /\ UNCHANGED loan /\ b.at = "settle"
    BY <1>3, <1>5, <1>7 DEF LiquidateSettle, At
  <2>2. Worth[k] \in Int /\ covered \in Int /\ interest \in Int
    BY LendingAssumption DEF Least, Outstanding, LoanRows
  <2> HIDE DEF covered, interest
  <2>3. Worth[k] - covered \in Int /\ covered - interest \in Int
    BY <2>2
  <2>4. d \in Effects
    BY <2>2, <2>3, MoveType, BothType
  <2> HIDE DEF d
  <2>5. \A c, x : x = call[s] /\ c = Request(x.op, "close", x.row, x.saw) /\ LoanCall(x)'
                  /\ Posted(<<"settle", k>>)' => LoanCall(c)'
    BY <1>3, <1>4, <1>5, <2>1 DEF LoanCall, Request
  <2>6. /\ \A q \in RepayKeys : <<"settle", k>> # <<"repay", q>>
        /\ \A l \in Loans : <<"settle", k>> # <<"release", l>>
    OBVIOUS
  <2> QED
    BY <2>1, <2>4, <2>5, <2>6, LoanPosts
<1>8. ASSUME LiquidateClose(s) PROVE LoanInv'
  <2>1. PICK x : x = LoanRow("liquidated", 0, 0)
    OBVIOUS
  <2>2. loan' = [loan EXCEPT ![k] = x] /\ Leave(s) /\ UNCHANGED ledgerVars /\ b.at = "close"
    BY <1>3, <1>5, <1>8, <2>1 DEF LiquidateClose, At
  <2>3. Posted(<<"open", k>>) /\ Posted(<<"seize", k>>) /\ Posted(<<"settle", k>>)
    BY <1>3, <1>4, <1>5, <2>2 DEF LoanCall
  <2>4. x \in LoanRows /\ LoanRowSound(k, x)
    BY <2>1, <2>3 DEF LoanRow, LoanRows, LoanStatuses, LoanRowSound
  <2> QED
    BY <2>2, <2>4, LoanWrites
<1> QED
  BY <1>2, <1>6, <1>7, <1>8

LEMMA LoanDiesInv ==
  ASSUME LoanInv, NEW s \in Slots, Dies(s), UNCHANGED loan
  PROVE  LoanInv'
<1>1. PICK c : c = Idle
  OBVIOUS
<1>2. c \in LoanRequests /\ LoanCall(c)
  BY <1>1 DEF LoanRequests, Requests, Request, Idle, LoanCall
<1>3. Becomes(s, c) /\ UNCHANGED ledgerVars
  BY <1>1 DEF Dies, Leave, Becomes
<1>4. CASE Loans = {}
  <2>1. call' \in [Slots -> LoanRequests]
    BY <1>2, <1>3, BecomesOne DEF LoanInv, LoanTypeOK
  <2>2. RepayKeys = {}
    BY <1>4, LendingAssumption
  <2> QED
    BY <1>2, <1>3, <1>4, <2>1, <2>2, BecomesOne
       DEF LoanInv, LoanTypeOK, LoanCalls, LoanCall, LoansSound, ReleasedPaid, LedgerTypeOK, ledgerVars
<1>5. ASSUME NEW k \in Loans PROVE LoanInv'
  <2>1. PICK w \in LoanRows : w = loan[k] /\ LoanRowSound(k, w)
    BY DEF LoanInv, LoanTypeOK, LoansSound
  <2>2. loan' = [loan EXCEPT ![k] = w] /\ Leave(s)
    BY <2>1 DEF LoanInv, LoanTypeOK, Dies
  <2> QED
    BY <1>3, <2>1, <2>2, LoanWrites
<1> QED
  BY <1>4, <1>5

LEMMA LoanStepInv == LoanInv /\ [LendingNext]_lendingVars => LoanInv'
<1> SUFFICES ASSUME LoanInv, [LendingNext]_lendingVars PROVE LoanInv'
  OBVIOUS
<1>1. CASE UNCHANGED lendingVars
  <2>1. /\ \A j : Posted(j)' <=> Posted(j)
        /\ \A j : journals'[j] = journals[j]
        /\ UNCHANGED <<journals, bal, call, loan>>
    BY <1>1 DEF lendingVars, Posted
  <2>2. /\ \A r \in RepayKeys : Repaid(r)' = Repaid(r)
        /\ \A k \in Loans : Owed(k)' = Owed(k)
    BY <2>1, PaidStays
  <2>3. LoanTypeOK' /\ ReleasedPaid'
    BY <2>1, <2>2 DEF LoanInv, LoanTypeOK, LedgerTypeOK, ReleasedPaid
  <2>4. LoanCalls'
    <3>1. ASSUME NEW t \in Slots PROVE LoanCall(call[t])'
      <4>1. PICK d : d = call[t] /\ LoanCall(d)
        BY DEF LoanInv, LoanCalls
      <4>2. LoanCall(d)' /\ call'[t] = d
        BY <2>1, <4>1, LoanKeeps
      <4> QED
        BY <4>2 DEF LoanCall, Leaves
    <3> QED
      BY <3>1 DEF LoanCalls
  <2>5. LoansSound'
    BY <2>1, <2>2 DEF LoanInv, LoansSound, LoanRowSound
  <2> QED
    BY <2>3, <2>4, <2>5 DEF LoanInv
<1>2. CASE LendingNext
  BY <1>2, OpenInv, AccrueInv, RepayInv, LiquidateInv, LoanDiesInv DEF LendingNext
<1> QED
  BY <1>1, <1>2

LEMMA LoanInvBounds == LoanInv => DebtNeverForgiven /\ LoanClosesPaid
<1> SUFFICES ASSUME LoanInv PROVE DebtNeverForgiven /\ LoanClosesPaid
  OBVIOUS
<1> USE DEF LoanInv
<1>1. ASSUME NEW k \in Loans
      PROVE  /\ loan[k].status = "active" => Outstanding(loan[k]) >= Borrowed[k] - PaidOn(k)
             /\ Posted(<<"release", k>>) => PaidOn(k) >= Borrowed[k]
  <2>1. PICK w \in LoanRows : w = loan[k] /\ LoanRowSound(k, w)
    BY DEF LoanTypeOK, LoansSound
  <2>2. /\ PaidOn(k) \in Nat /\ Borrowed[k] \in Nat /\ Owed(k) = Borrowed[k] - PaidOn(k)
        /\ w.principal \in Nat /\ w.accrued \in Nat
    BY <2>1, PaidType DEF Owed, LoanRows
  <2>3. Posted(<<"release", k>>) => Owed(k) <= 0
    BY DEF ReleasedPaid
  <2> QED
    BY <2>1, <2>2, <2>3 DEF LoanRowSound, Outstanding
<1> QED
  BY <1>1 DEF DebtNeverForgiven, LoanClosesPaid, LoansSound, LoanRowSound

(* Lending: the invariant of a loan's rows, its requests and its journals. *)
THEOREM LendingInvariant == LendingSpec => []LoanInv
BY LoanInitInv, LoanStepInv, PTL DEF LendingSpec

-----------------------------------------------------------------------------
(* OrderBook: trades within limits, and an escrow that backs the book.     *)

Quotes == [id : BookOrders, left : Nat]
BookViews == [makers : SUBSET Quotes, left : Nat]

BookRequests ==
  {Idle} \cup Requests({"place"}, {"escrow", "insert", "match"}, BookOrders, {None})
         \cup Requests({"place"}, {"fill", "trade", "advance"}, BookOrders, BookViews)
         \cup Requests({"unplace"}, {"refund", "mark"}, BookOrders, BookViews)

BookRows == [status : {"none", "open", "filled", "cancelled"}, left : Nat]
Tape == [taker : BookOrders, maker : BookOrders, qty : Nat, price : Nat]

Fk(o, m) == <<"fill", o, m>>

BookTypeOK ==
  /\ LedgerTypeOK
  /\ call \in [Slots -> BookRequests]
  /\ book \in [BookOrders -> BookRows]
  /\ placed \in Seq(BookOrders)
  /\ trades \in SUBSET Tape /\ IsFiniteSet(trades)

(* A row is in the list of rows, once.                                     *)
PlacedOnce ==
  /\ \A i, j \in DOMAIN placed : placed[i] = placed[j] => i = j
  /\ \A i \in DOMAIN placed : book[placed[i]].status # "none"
  /\ \A o \in BookOrders : book[o].status # "none" => \E i \in DOMAIN placed : placed[i] = o

BookRow(o) ==
  /\ book[o].left <= BookQty[o]
  /\ book[o].status = "open" => book[o].left > 0

TradesOf(o) == {t \in trades : t.taker = o}
Untouched(o) == TradesOf(o) = {} /\ \A m \in BookOrders : ~Posted(Fk(o, m))

RowsSound ==
  \A o \in BookOrders : BookRow(o) /\ (book[o].status = "none" => Untouched(o))

(* What is known of the orders that a taker read.                          *)
MakersKnown(taker, M) ==
  /\ \A m \in M : /\ book[m.id].status # "none" /\ Crosses(taker, m.id)
                  /\ m.left > 0 /\ m.left <= BookQty[m.id]
  /\ \A m, n \in M : m.id = n.id => m = n

Pick(c) == Best(c.row, c.saw.makers)
Qty(c) == Smaller(c.saw.left, Pick(c).left)

Matching(c) == c.op = "place" /\ c.at \in {"match", "fill", "trade", "advance"}

(* What a taker knows: it alone fills its order, one maker after another.  *)
TakerKnows(c) ==
  /\ MakersKnown(c.row, c.saw.makers)
  /\ c.at = "fill" =>
       /\ Taken(c.row) + c.saw.left <= BookQty[c.row]
       /\ \A m \in c.saw.makers : ~Posted(Fk(c.row, m.id))
  /\ c.at \in {"trade", "advance"} =>
       /\ c.saw.left > 0 /\ c.saw.makers # {}
       /\ Posted(Fk(c.row, Pick(c).id))
       /\ \A m \in c.saw.makers \ {Pick(c)} : ~Posted(Fk(c.row, m.id))
  /\ c.at = "trade" =>
       /\ Taken(c.row) + c.saw.left <= BookQty[c.row]
       /\ \A t \in trades : t.taker = c.row => t.maker # Pick(c).id
  /\ c.at = "advance" => Taken(c.row) + c.saw.left - Qty(c) <= BookQty[c.row]

BookCall(c) ==
  /\ c.op = "unplace" => c.saw.left <= BookQty[c.row] /\ book[c.row].status # "none"
  /\ Matching(c) => book[c.row].status # "none"
  /\ Matching(c) /\ c.at = "match" => Untouched(c.row)
  /\ Matching(c) /\ c.at # "match" => TakerKnows(c)

BookCalls == \A s \in Slots : BookCall(call[s])

TakersAlone ==
  \A s, t \in Slots :
    Matching(call[s]) /\ Matching(call[t]) /\ call[s].row = call[t].row => s = t

BookInv == BookTypeOK /\ PlacedOnce /\ RowsSound /\ BookCalls /\ TakersAlone /\ TradesWithinLimits

-----------------------------------------------------------------------------
(* The best of the makers exists, and is no other when rows are added.     *)

LEMMA QuotesFinite ==
  ASSUME NEW taker, NEW M \in SUBSET Quotes, \A m, n \in M : m.id = n.id => m = n
  PROVE  IsFiniteSet(M)
<1> DEFINE f == [m \in M |-> m.id]
<1>1. f \in Injection(M, BookOrders)
  BY DEF Injection, IsInjective, Quotes
<1> QED
  BY <1>1, OrderBookAssumption, FS_Injection

LEMMA BestIs ==
  ASSUME BookTypeOK, PlacedOnce, NEW taker \in BookOrders, NEW M \in SUBSET Quotes, M # {},
         MakersKnown(taker, M)
  PROVE  Best(taker, M) \in M
<1> DEFINE R == {p \in M \X M : Better(taker, p[1].id, p[2].id)}
<1> USE OrderBookAssumption
<1>1. IsFiniteSet(M)
  BY QuotesFinite DEF MakersKnown
<1>2. /\ \A m \in M : m.id \in BookOrders /\ Limit[m.id] \in Nat
      /\ \A m \in M : \E i \in DOMAIN placed : placed[i] = m.id
      /\ \A i \in DOMAIN placed : i \in Nat
  BY DEF MakersKnown, PlacedOnce, Quotes, BookTypeOK
<1>3. ASSUME NEW x \in M, NEW y \in M PROVE <<x, y>> \in R \/ <<y, x>> \in R
  <2>1. PICK i \in DOMAIN placed, j \in DOMAIN placed : placed[i] = x.id /\ placed[j] = y.id
    BY <1>2
  <2>2. Better(taker, x.id, y.id) \/ Better(taker, y.id, x.id)
    BY <1>2, <2>1 DEF Better
  <2> QED
    BY <2>2
<1>4. ASSUME NEW x \in M, NEW y \in M, NEW z \in M, <<x, y>> \in R, <<y, z>> \in R
      PROVE  <<x, z>> \in R
  <2>1. Better(taker, x.id, y.id) /\ Better(taker, y.id, z.id)
    BY <1>4
  <2>2. CASE Limit[x.id] = Limit[y.id] /\ Limit[y.id] = Limit[z.id]
    <3>1. PICK i \in DOMAIN placed, j \in DOMAIN placed :
            i <= j /\ placed[i] = x.id /\ placed[j] = y.id
      BY <1>2, <2>1, <2>2 DEF Better
    <3>2. PICK k \in DOMAIN placed, l \in DOMAIN placed :
            k <= l /\ placed[k] = y.id /\ placed[l] = z.id
      BY <1>2, <2>1, <2>2 DEF Better
    <3>3. j = k
      BY <3>1, <3>2 DEF PlacedOnce
    <3>4. i <= l
      BY <1>2, <3>1, <3>2, <3>3
    <3> QED
      BY <2>2, <3>1, <3>2, <3>4 DEF Better
  <2>3. CASE ~(Limit[x.id] = Limit[y.id] /\ Limit[y.id] = Limit[z.id])
    <3>1. Better(taker, x.id, z.id)
      BY <1>2, <2>1, <2>3 DEF Better
    <3> QED
      BY <3>1
  <2> QED
    BY <2>2, <2>3
<1>5. R \subseteq M \X M
  OBVIOUS
<1>6. \E x \in M : \A y \in M : <<x, y>> \in R
  <2> HIDE DEF R
  <2> QED
    BY <1>1, <1>3, <1>4, <1>5, FirstExists
<1>7. Foremost(taker, M) # {}
  BY <1>6 DEF Foremost
<1> QED
  BY <1>7 DEF Best, Foremost

(* Rows that are added come after.                                         *)
PlacedGrows ==
  \/ placed' = placed
  \/ \E q \in BookOrders : book[q].status = "none" /\ placed' = Append(placed, q)

LEMMA BestStays ==
  ASSUME BookTypeOK, PlacedOnce, PlacedGrows, NEW taker, NEW M \in SUBSET Quotes,
         MakersKnown(taker, M)
  PROVE  Best(taker, M)' = Best(taker, M)
<1>1. ASSUME placed' = placed PROVE Foremost(taker, M)' = Foremost(taker, M)
  BY <1>1 DEF Foremost, Better
<1>2. ASSUME NEW q \in BookOrders, book[q].status = "none", placed' = Append(placed, q)
      PROVE  Foremost(taker, M)' = Foremost(taker, M)
  <2>1. \A m \in M : m.id # q
    BY <1>2 DEF MakersKnown
  <2>2. /\ DOMAIN placed = 1..Len(placed) /\ Len(placed) \in Nat
        /\ DOMAIN placed' = 1..(Len(placed) + 1)
        /\ placed'[Len(placed) + 1] = q
        /\ \A i \in DOMAIN placed : placed'[i] = placed[i]
    BY <1>2 DEF BookTypeOK
  <2>3. ASSUME NEW m \in M, NEW o \in M
        PROVE  Better(taker, m.id, o.id)' <=> Better(taker, m.id, o.id)
    <3>1. (\E i, j \in DOMAIN placed' : i <= j /\ placed'[i] = m.id /\ placed'[j] = o.id)
          <=> \E i, j \in DOMAIN placed : i <= j /\ placed[i] = m.id /\ placed[j] = o.id
      BY <2>1, <2>2
    <3> QED
      BY <3>1 DEF Better
  <2> QED
    BY <2>3 DEF Foremost
<1>3. Foremost(taker, M)' = Foremost(taker, M)
  BY <1>1, <1>2 DEF PlacedGrows
<1> QED
  BY <1>3 DEF Best
-----------------------------------------------------------------------------
(* What a request of the book is made of.                                  *)
LEMMA BookCallHas ==
  ASSUME NEW c \in BookRequests
  PROVE  /\ c.op \in {"place", "unplace"} => c.row \in BookOrders
         /\ c.op = "place" /\ c.at \in {"fill", "trade", "advance"} => c.saw \in BookViews
         /\ c.op = "unplace" => c.saw \in BookViews
         /\ Matching(c) => c.row \in BookOrders
         /\ c.op = "place" => c.at \in {"escrow", "insert", "match", "fill", "trade", "advance"}
         /\ c.op = "unplace" => c.at \in {"refund", "mark"}
         /\ c.op = "idle" => c = Idle
BY DEF BookRequests, Requests, Idle, Request, Matching

LEMMA PlaceRequest ==
  ASSUME NEW o \in BookOrders, NEW at \in {"escrow", "insert", "match"}
  PROVE  Request("place", at, o, None) \in BookRequests
BY RequestIn DEF BookRequests

LEMMA MatchRequest ==
  ASSUME NEW o \in BookOrders, NEW at \in {"fill", "trade", "advance"}, NEW v \in BookViews
  PROVE  Request("place", at, o, v) \in BookRequests
BY RequestIn DEF BookRequests

LEMMA CancelRequest ==
  ASSUME NEW o \in BookOrders, NEW at \in {"refund", "mark"}, NEW v \in BookViews
  PROVE  Request("unplace", at, o, v) \in BookRequests
BY RequestIn DEF BookRequests

(* The trades of a taker, summed.                                          *)
LEMMA TakenIs ==
  ASSUME BookTypeOK, NEW o
  PROVE  IsFiniteSet(TradesOf(o)) /\ Taken(o) \in Nat
<1>1. IsFiniteSet(TradesOf(o))
  BY FS_Subset DEF TradesOf, BookTypeOK
<1>2. \A t \in TradesOf(o) : [u \in trades |-> u.qty][t] \in Nat
  BY DEF TradesOf, BookTypeOK, Tape
<1>3. SumFunctionOnSet([u \in trades |-> u.qty], TradesOf(o)) \in Nat
  BY <1>1, <1>2, SumNat
<1> QED
  BY <1>1, <1>3 DEF Taken, TradesOf

LEMMA TakenSame ==
  ASSUME BookTypeOK, NEW o, TradesOf(o)' = TradesOf(o)
  PROVE  Taken(o)' = Taken(o)
<1>1. IsFiniteSet(TradesOf(o))
  BY TakenIs
<1>2. \A t \in TradesOf(o) : [u \in trades |-> u.qty][t] = [u \in trades' |-> u.qty][t]
  BY DEF TradesOf
<1>3. SumFunctionOnSet([u \in trades |-> u.qty], TradesOf(o))
      = SumFunctionOnSet([u \in trades' |-> u.qty], TradesOf(o))
  BY <1>1, <1>2, SumSame
<1>4. /\ Taken(o) = SumFunctionOnSet([u \in trades |-> u.qty], TradesOf(o))
      /\ Taken(o)' = SumFunctionOnSet([u \in trades' |-> u.qty], TradesOf(o)')
  BY DEF Taken, TradesOf
<1> QED
  BY <1>3, <1>4

LEMMA TakenNothing ==
  ASSUME NEW o, TradesOf(o) = {}
  PROVE  Taken(o) = 0
BY SumEmpty DEF Taken, TradesOf

LEMMA TakenAdds ==
  ASSUME BookTypeOK, NEW t \in Tape, t \notin trades, trades' = trades \cup {t}
  PROVE  Taken(t.taker)' = Taken(t.taker) + t.qty
<1> DEFINE f == [u \in trades |-> u.qty]
           g == [u \in trades' |-> u.qty]
           S == TradesOf(t.taker)
<1>1. IsFiniteSet(S)
  BY TakenIs
<1>2. TradesOf(t.taker)' = S \cup {t} /\ t \notin S
  BY DEF TradesOf
<1>3. \A u \in S : f[u] = g[u] /\ f[u] \in Int /\ g[u] \in Int
  BY DEF TradesOf, BookTypeOK, Tape
<1>4. g[t] = t.qty /\ t.qty \in Int
  BY DEF Tape
<1>5. SumFunctionOnSet(g, S \cup {t}) = SumFunctionOnSet(g, S) + g[t]
  <2> HIDE DEF f, g, S
  <2> QED
    BY <1>1, <1>2, <1>3, <1>4, SumAdd
<1>6. SumFunctionOnSet(f, S) = SumFunctionOnSet(g, S)
  <2> HIDE DEF f, g, S
  <2> QED
    BY <1>1, <1>3, SumSame
<1>7. /\ Taken(t.taker) = SumFunctionOnSet(f, S)
      /\ Taken(t.taker)' = SumFunctionOnSet(g, TradesOf(t.taker)')
  BY DEF Taken, TradesOf
<1> QED
  BY <1>2, <1>4, <1>5, <1>6, <1>7

(* What a request knows stays true when others move: rows do not go away,  *)
(* and only the taker itself adds to its trades and fills.                 *)
RowsStay == \A o \in BookOrders : book[o].status # "none" => book'[o].status # "none"

Untaken(o) ==
  /\ TradesOf(o)' = TradesOf(o)
  /\ \A m \in BookOrders : Posted(Fk(o, m))' <=> Posted(Fk(o, m))

LEMMA KnownStays ==
  ASSUME RowsStay, NEW taker, NEW M \in SUBSET Quotes, MakersKnown(taker, M)
  PROVE  MakersKnown(taker, M)'
BY DEF RowsStay, MakersKnown, Quotes, Crosses

LEMMA UntouchedStays ==
  ASSUME NEW o, Untaken(o), Untouched(o)
  PROVE  Untouched(o)'
BY DEF Untaken, Untouched

LEMMA TakerKnowsOn ==
  ASSUME BookTypeOK, PlacedOnce, PlacedGrows, RowsStay, NEW c \in BookRequests,
         c.op = "place", c.at \in {"fill", "trade", "advance"}, TakerKnows(c), Untaken(c.row)
  PROVE  TakerKnows(c)'
<1>1. c.row \in BookOrders /\ c.saw \in BookViews
  BY BookCallHas
<1>2. c.saw.makers \in SUBSET Quotes
  BY <1>1 DEF BookViews
<1>3. MakersKnown(c.row, c.saw.makers)' /\ Pick(c)' = Pick(c)
  BY <1>2, KnownStays, BestStays DEF TakerKnows, Pick
<1>4. Qty(c)' = Qty(c)
  BY <1>3 DEF Qty
<1>5. Taken(c.row)' = Taken(c.row)
  BY TakenSame DEF Untaken
<1>6. \A m \in c.saw.makers : Posted(Fk(c.row, m.id))' <=> Posted(Fk(c.row, m.id))
  BY <1>2 DEF Untaken, Quotes
<1>7. c.saw.makers # {} => Pick(c) \in c.saw.makers
  BY <1>1, <1>2, BestIs DEF Pick, TakerKnows
<1>8. \A t \in trades' : t.taker = c.row => t \in trades
  BY DEF Untaken, TradesOf
<1> QED
  BY <1>3, <1>4, <1>5, <1>6, <1>7, <1>8 DEF TakerKnows

LEMMA BookCallOn ==
  ASSUME BookTypeOK, PlacedOnce, PlacedGrows, RowsStay, NEW c \in BookRequests, BookCall(c),
         Matching(c) => Untaken(c.row)
  PROVE  BookCall(c)'
<1>1. c.op = "unplace" => c.saw.left <= BookQty[c.row] /\ book'[c.row].status # "none"
  BY BookCallHas DEF BookCall, RowsStay
<1>2. Matching(c) => book'[c.row].status # "none"
  BY BookCallHas DEF BookCall, RowsStay
<1>3. Matching(c) /\ c.at = "match" => Untouched(c.row)'
  BY UntouchedStays DEF BookCall
<1>4. Matching(c) /\ c.at # "match" => TakerKnows(c)'
  BY TakerKnowsOn DEF BookCall, Matching
<1> QED
  BY <1>1, <1>2, <1>3, <1>4 DEF BookCall

(* A request moves, and the others know what they knew.                    *)
LEMMA BookCallsMoved ==
  ASSUME BookInv, NEW s \in Slots, NEW c \in BookRequests, Becomes(s, c),
         PlacedGrows, RowsStay, BookCall(c)',
         \A o \in BookOrders : Untaken(o) \/ (Matching(call[s]) /\ call[s].row = o),
         Matching(c) => \/ Matching(call[s]) /\ call[s].row = c.row
                        \/ book[c.row].status = "none"
  PROVE  call' \in [Slots -> BookRequests] /\ BookCalls' /\ TakersAlone'
<1>1. BookTypeOK /\ PlacedOnce /\ BookCalls /\ TakersAlone /\ call \in [Slots -> BookRequests]
  BY DEF BookInv, BookTypeOK
<1>2. /\ call' \in [Slots -> BookRequests] /\ call'[s] = c
      /\ \A t \in Slots \ {s} : call'[t] = call[t]
  BY <1>1, BecomesOne
<1>3. ASSUME NEW t \in Slots \ {s} PROVE BookCall(call[t])'
  <2>1. PICK d \in BookRequests : d = call[t] /\ BookCall(d)
    BY <1>1 DEF BookCalls
  <2>2. Matching(d) => Untaken(d.row)
    <3>1. SUFFICES ASSUME Matching(d), ~Untaken(d.row) PROVE FALSE
      OBVIOUS
    <3>2. d.row \in BookOrders
      BY <3>1, BookCallHas
    <3>3. Matching(call[s]) /\ call[s].row = d.row
      BY <3>1, <3>2
    <3> QED
      BY <1>1, <2>1, <3>1, <3>3 DEF TakersAlone
  <2>3. BookCall(d)'
    BY <1>1, <2>1, <2>2, BookCallOn
  <2> QED
    BY <1>2, <2>1, <2>3
<1>4. BookCalls'
  <2>1. BookCall(call[s])'
    BY <1>2
  <2>2. \A t \in Slots : BookCall(call[t])'
    BY <1>3, <2>1
  <2> QED
    BY <2>2 DEF BookCalls
<1>5. TakersAlone'
  <2>1. ASSUME NEW t \in Slots \ {s}, Matching(call[t]), Matching(c), call[t].row = c.row
        PROVE  FALSE
    <3>1. CASE Matching(call[s]) /\ call[s].row = c.row
      BY <1>1, <2>1, <3>1 DEF TakersAlone
    <3>2. CASE book[c.row].status = "none"
      BY <1>1, <2>1, <3>2 DEF BookCalls, BookCall
    <3> QED
      BY <2>1, <3>1, <3>2
  <2>2. ASSUME NEW t \in Slots, NEW u \in Slots, Matching(call'[t]), Matching(call'[u]),
               call'[t].row = call'[u].row
        PROVE  t = u
    <3>1. CASE t = s \/ u = s
      BY <1>2, <2>1, <2>2, <3>1
    <3>2. CASE t # s /\ u # s
      BY <1>1, <1>2, <2>2, <3>2 DEF TakersAlone
    <3> QED
      BY <3>1, <3>2
  <2>3. \A t, u \in Slots :
          Matching(call'[t]) /\ Matching(call'[u]) /\ call'[t].row = call'[u].row => t = u
    BY <2>2
  <2> QED
    BY <2>3 DEF TakersAlone, Matching
<1> QED
  BY <1>2, <1>4, <1>5
-----------------------------------------------------------------------------
(* The journals of an order have keys of their own.                        *)
LEMMA BookKeys ==
  ASSUME NEW o, NEW m, NEW x, NEW y
  PROVE  /\ Fk(o, m) # <<"escrow", x>> /\ Fk(o, m) # <<"unplace", x>>
         /\ <<"escrow", x>> # <<"unplace", y>>
         /\ Fk(o, m) = Fk(x, y) => o = x /\ m = y
         /\ <<"escrow", x>> = <<"escrow", y>> => x = y
         /\ <<"unplace", x>> = <<"unplace", y>> => x = y
<1>1. Fk(o, m) # <<"escrow", x>> /\ Fk(o, m) # <<"unplace", x>>
  BY DEF Fk
<1>2. <<"escrow", x>> # <<"unplace", y>>
  OBVIOUS
<1>3. Fk(o, m) = Fk(x, y) => o = x /\ m = y
  BY DEF Fk
<1>4. <<"escrow", x>> = <<"escrow", y>> => x = y
  OBVIOUS
<1>5. <<"unplace", x>> = <<"unplace", y>> => x = y
  OBVIOUS
<1> QED
  BY <1>1, <1>2, <1>3, <1>4, <1>5 DEF Fk

LEMMA BookEffects ==
  ASSUME NEW o \in BookOrders, NEW m \in BookOrders, NEW n \in Int
  PROVE  /\ IntoEscrow(o, n) \in Effects /\ OutOfEscrow(o, n) \in Effects
         /\ \A price \in Int : Fill(o, m, price, n) \in Effects
<1>1. Limit[o] \in Int /\ n * Limit[o] \in Int
  BY OrderBookAssumption
<1>2. IntoEscrow(o, n) \in Effects /\ OutOfEscrow(o, n) \in Effects
  BY <1>1, MoveType DEF IntoEscrow, OutOfEscrow
<1>3. ASSUME NEW price \in Int PROVE Fill(o, m, price, n) \in Effects
  <2>1. n * price \in Int /\ n * (Limit[o] - price) \in Int
    BY <1>1
  <2> QED
    BY <2>1, MoveType, BothType DEF Fill
<1> QED
  BY <1>2, <1>3

LEMMA BookCallIs ==
  ASSUME BookInv, NEW s \in Slots
  PROVE  call[s] \in BookRequests /\ BookCall(call[s])
BY DEF BookInv, BookTypeOK, BookCalls

LEMMA BookGoto ==
  ASSUME BookInv, NEW s \in Slots, NEW at, Goto(s, at)
  PROVE  Becomes(s, Request(call[s].op, at, call[s].row, call[s].saw))
<1>1. PICK c \in BookRequests : c = call[s]
  BY BookCallIs
<1>2. PICK op, place, row, saw : c = [op |-> op, at |-> place, row |-> row, saw |-> saw]
  BY DEF BookRequests, Requests, Idle, Request
<1>3. [call[s] EXCEPT !.at = at] = Request(call[s].op, at, call[s].row, call[s].saw)
  BY <1>1, <1>2 DEF Request
<1> QED
  BY <1>3 DEF Goto, Becomes

(* A step that leaves the rows and the tape, and posts no fill.            *)
LEMMA RowsStill ==
  ASSUME BookInv, NEW s \in Slots, NEW c \in BookRequests, Becomes(s, c),
         UNCHANGED <<book, placed, trades>>, LedgerTypeOK',
         \A key : Posted(key) => Posted(key)',
         \A o, m \in BookOrders : Posted(Fk(o, m))' => Posted(Fk(o, m)),
         BookCall(c)',
         Matching(c) => Matching(call[s]) /\ call[s].row = c.row
  PROVE  BookInv'
<1>1. PlacedGrows /\ RowsStay
  BY DEF PlacedGrows, RowsStay
<1>2. \A o \in BookOrders : Untaken(o)
  BY DEF Untaken, TradesOf
<1>3. call' \in [Slots -> BookRequests] /\ BookCalls' /\ TakersAlone'
  BY <1>1, <1>2, BookCallsMoved
<1>4. BookTypeOK'
  BY <1>3 DEF BookInv, BookTypeOK
<1>5. PlacedOnce'
  BY DEF BookInv, PlacedOnce
<1>6. RowsSound'
  BY <1>2, UntouchedStays DEF BookInv, RowsSound, BookRow
<1>7. TradesWithinLimits'
  <2>1. \A o \in BookOrders : Taken(o)' = Taken(o)
    BY <1>2, TakenSame DEF BookInv, Untaken
  <2> QED
    BY <2>1 DEF BookInv, TradesWithinLimits
<1> QED
  BY <1>3, <1>4, <1>5, <1>6, <1>7 DEF BookInv

LEMMA BookPlaceCall ==
  ASSUME BookInv, NEW s \in Slots, NEW o \in BookOrders, PlaceCall(s, o)
  PROVE  BookInv'
<1> DEFINE c == Request("place", "escrow", o, None)
<1>1. /\ UNCHANGED <<journals, bal, book, placed, trades>> /\ Becomes(s, c)
  BY DEF PlaceCall, Begin, Becomes
<1>2. c \in BookRequests /\ ~Matching(c) /\ c.op = "place"
  BY PlaceRequest, RequestHas DEF Matching
<1>3. LedgerTypeOK' /\ \A key : Posted(key)' <=> Posted(key)
  BY <1>1 DEF BookInv, BookTypeOK, LedgerTypeOK, Posted
<1>4. BookCall(c)'
  BY <1>2 DEF BookCall, Matching
<1> QED
  BY <1>1, <1>2, <1>3, <1>4, RowsStill

LEMMA BookCancelBook ==
  ASSUME BookInv, NEW s \in Slots, NEW o \in BookOrders, CancelBook(s, o)
  PROVE  BookInv'
<1>1. /\ UNCHANGED <<journals, bal, book, placed, trades>>
      /\ Becomes(s, Request("unplace", "refund", o, View({}, book[o].left)))
      /\ book[o].status = "open"
  BY DEF CancelBook, Begin, Becomes
<1>2. PICK v \in BookViews : v = View({}, book[o].left) /\ v.left <= BookQty[o]
  <2>1. book[o].left \in Nat /\ book[o].left <= BookQty[o]
    BY DEF BookInv, BookTypeOK, BookRows, RowsSound, BookRow
  <2>2. \A n \in Nat : View({}, n) \in BookViews /\ View({}, n).left = n
    BY DEF View, BookViews
  <2> QED
    BY <2>1, <2>2
<1>3. PICK c \in BookRequests : c = Request("unplace", "refund", o, v)
  BY <1>2, CancelRequest
<1>6. ~Matching(c) /\ c.op = "unplace" /\ c.row = o /\ c.saw = v /\ Becomes(s, c)
  BY <1>1, <1>2, <1>3, RequestHas DEF Matching
<1>4. LedgerTypeOK' /\ \A key : Posted(key)' <=> Posted(key)
  BY <1>1 DEF BookInv, BookTypeOK, LedgerTypeOK, Posted
<1>5. BookCall(c)'
  BY <1>1, <1>2, <1>6 DEF BookCall, Matching
<1> QED
  BY <1>1, <1>4, <1>5, <1>6, RowsStill

LEMMA BookPlaceEscrow ==
  ASSUME BookInv, NEW s \in Slots, PlaceEscrow(s)
  PROVE  BookInv'
<1> DEFINE o == call[s].row
<1>1. /\ UNCHANGED <<book, placed, trades>> /\ call[s].op = "place" /\ call[s].at = "escrow"
      /\ PostJournal(<<"escrow", o>>, IntoEscrow(o, BookQty[o])) /\ Goto(s, "insert")
  BY DEF PlaceEscrow, At
<1>2. o \in BookOrders /\ call[s].saw = None
  BY <1>1, BookCallIs DEF BookRequests, Requests, Idle, Request
<1>3. PICK c \in BookRequests : c = Request(call[s].op, "insert", o, call[s].saw)
  BY <1>1, <1>2, PlaceRequest
<1>4. ~Matching(c) /\ c.op = "place" /\ Becomes(s, c)
  BY <1>1, <1>3, BookGoto, RequestHas DEF Matching
<1>5. IntoEscrow(o, BookQty[o]) \in Effects
  BY <1>2, BookEffects, OrderBookAssumption
<1>6. /\ LedgerTypeOK' /\ \A key : Posted(key) => Posted(key)'
      /\ \A key : Posted(key)' => Posted(key) \/ key = <<"escrow", o>>
  <2> HIDE DEF o
  <2> QED
    BY <1>1, <1>5, PostKeeps DEF BookInv, BookTypeOK
<1>7. \A p, m \in BookOrders : Posted(Fk(p, m))' => Posted(Fk(p, m))
  BY <1>6, BookKeys
<1>8. BookCall(c)'
  BY <1>4 DEF BookCall, Matching
<1> QED
  BY <1>1, <1>3, <1>4, <1>6, <1>7, <1>8, RowsStill

LEMMA BookCancelRefund ==
  ASSUME BookInv, NEW s \in Slots, CancelRefund(s)
  PROVE  BookInv'
<1> DEFINE o == call[s].row
<1>1. /\ UNCHANGED <<book, placed, trades>> /\ call[s].op = "unplace" /\ Goto(s, "mark")
      /\ \/ PostJournal(<<"unplace", o>>, OutOfEscrow(o, call[s].saw.left))
         \/ UNCHANGED ledgerVars
  BY DEF CancelRefund, At, RefundLeft
<1>2. o \in BookOrders /\ call[s].saw \in BookViews
  BY <1>1, BookCallIs, BookCallHas
<1>3. PICK c \in BookRequests : c = Request(call[s].op, "mark", o, call[s].saw)
  BY <1>1, <1>2, CancelRequest
<1>4. ~Matching(c) /\ c.op = "unplace" /\ c.row = o /\ c.saw = call[s].saw /\ Becomes(s, c)
  BY <1>1, <1>3, BookGoto, RequestHas DEF Matching
<1>5. OutOfEscrow(o, call[s].saw.left) \in Effects
  BY <1>2, BookEffects DEF BookViews
<1>6. /\ LedgerTypeOK' /\ \A key : Posted(key) => Posted(key)'
      /\ \A key : Posted(key)' => Posted(key) \/ key = <<"unplace", o>>
  <2> HIDE DEF o
  <2>1. LedgerTypeOK
    BY DEF BookInv, BookTypeOK
  <2>2. CASE PostJournal(<<"unplace", o>>, OutOfEscrow(o, call[s].saw.left))
    BY <1>5, <2>1, <2>2, PostKeeps
  <2>3. CASE UNCHANGED ledgerVars
    BY <2>1, <2>3 DEF ledgerVars, LedgerTypeOK, Posted
  <2> QED
    BY <1>1, <2>2, <2>3
<1>7. \A p, m \in BookOrders : Posted(Fk(p, m))' => Posted(Fk(p, m))
  BY <1>6, BookKeys
<1>8. BookCall(c)'
  <2>1. c.saw.left <= BookQty[c.row] /\ book[c.row].status # "none"
    BY <1>1, <1>4, BookCallIs DEF BookCall
  <2> QED
    BY <1>1, <1>4, <2>1 DEF BookCall, Matching
<1> QED
  BY <1>1, <1>3, <1>4, <1>6, <1>7, <1>8, RowsStill

LEMMA BookBookDies ==
  ASSUME BookInv, NEW s \in Slots, BookDies(s)
  PROVE  BookInv'
<1>1. UNCHANGED <<journals, bal, book, placed, trades>> /\ Becomes(s, Idle)
  BY DEF BookDies, Dies, Leave, Becomes, ledgerVars
<1>2. Idle \in BookRequests /\ ~Matching(Idle) /\ Idle.op = "idle"
  BY RequestHas DEF Matching, BookRequests, Idle
<1>3. LedgerTypeOK' /\ \A key : Posted(key)' <=> Posted(key)
  BY <1>1 DEF BookInv, BookTypeOK, LedgerTypeOK, Posted
<1>4. BookCall(Idle)'
  BY <1>2 DEF BookCall, Matching
<1> QED
  BY <1>1, <1>2, <1>3, <1>4, RowsStill
-----------------------------------------------------------------------------
(* What a new row is.                                                      *)
LEMMA RowIs ==
  ASSUME NEW n \in Nat
  PROVE  /\ Row(n) \in BookRows /\ Row(n).left = n /\ Row(n).status # "none"
         /\ Row(n).status # "cancelled"
         /\ Row(n).status = "open" <=> n > 0
BY DEF Row, BookRows

(* An order is for something: the row that is inserted is an open one.     *)
LEMMA InsertedRow ==
  ASSUME NEW o \in BookOrders
  PROVE  [status |-> "open", left |-> BookQty[o]] = Row(BookQty[o])
<1>1. BookQty[o] \in Nat /\ ~(BookQty[o] <= 0)
  BY OrderBookAssumption
<1> QED
  BY <1>1 DEF Row

(* The row of an order gets another value, and nothing is posted.          *)
LEMMA RowMoves ==
  ASSUME BookInv, NEW s \in Slots, NEW c \in BookRequests, Becomes(s, c),
         NEW o \in BookOrders, NEW row \in BookRows, book' = [book EXCEPT ![o] = row],
         row.status # "none", row.left <= BookQty[o], row.status = "open" => row.left > 0,
         \/ placed' = placed /\ book[o].status # "none"
         \/ placed' = Append(placed, o) /\ book[o].status = "none",
         UNCHANGED <<journals, bal, trades>>,
         BookCall(c)',
         Matching(c) => \/ Matching(call[s]) /\ call[s].row = c.row
                        \/ book[c.row].status = "none"
  PROVE  BookInv'
<1>1. /\ BookTypeOK /\ PlacedOnce /\ RowsSound /\ TradesWithinLimits
      /\ book \in [BookOrders -> BookRows] /\ placed \in Seq(BookOrders)
  BY DEF BookInv, BookTypeOK
<1>2. book' \in [BookOrders -> BookRows] /\ book'[o] = row
      /\ \A p \in BookOrders \ {o} : book'[p] = book[p]
  BY <1>1
<1>3. PlacedGrows /\ RowsStay
  BY <1>2 DEF PlacedGrows, RowsStay
<1>4. \A p \in BookOrders : Untaken(p)
  BY DEF Untaken, TradesOf, Posted
<1>5. call' \in [Slots -> BookRequests] /\ BookCalls' /\ TakersAlone'
  BY <1>3, <1>4, BookCallsMoved
<1>6. BookTypeOK'
  <2>1. placed' \in Seq(BookOrders)
    BY <1>1
  <2> QED
    BY <1>1, <1>2, <1>5, <2>1 DEF BookTypeOK, LedgerTypeOK
<1>7. PlacedOnce'
  <2>1. CASE placed' = placed /\ book[o].status # "none"
    BY <1>1, <1>2, <2>1 DEF PlacedOnce
  <2>2. CASE placed' = Append(placed, o) /\ book[o].status = "none"
    <3>1. /\ DOMAIN placed = 1..Len(placed) /\ Len(placed) \in Nat
          /\ DOMAIN placed' = 1..(Len(placed) + 1)
          /\ placed'[Len(placed) + 1] = o
          /\ \A i \in DOMAIN placed : placed'[i] = placed[i] /\ placed[i] \in BookOrders
      BY <1>1, <2>2
    <3>2. \A i \in DOMAIN placed : placed[i] # o
      BY <1>1, <2>2 DEF PlacedOnce
    <3>3. DOMAIN placed' = DOMAIN placed \cup {Len(placed) + 1} /\ Len(placed) + 1 \notin DOMAIN placed
      BY <3>1
    <3>4. \A i, j \in DOMAIN placed' : placed'[i] = placed'[j] => i = j
      BY <1>1, <3>1, <3>2, <3>3 DEF PlacedOnce
    <3>5. \A i \in DOMAIN placed' : book'[placed'[i]].status # "none"
      BY <1>1, <1>2, <3>1, <3>2, <3>3 DEF PlacedOnce
    <3>6. \A p \in BookOrders : book'[p].status # "none" => \E i \in DOMAIN placed' : placed'[i] = p
      BY <1>1, <1>2, <3>1, <3>3 DEF PlacedOnce
    <3> QED
      BY <3>4, <3>5, <3>6 DEF PlacedOnce
  <2> QED
    BY <2>1, <2>2
<1>8. RowsSound'
  <2>1. ASSUME NEW p \in BookOrders PROVE BookRow(p)' /\ (book'[p].status = "none" => Untouched(p)')
    BY <1>1, <1>2, <1>4, UntouchedStays DEF RowsSound, BookRow
  <2> QED
    BY <2>1 DEF RowsSound
<1>9. TradesWithinLimits'
  <2>1. \A p \in BookOrders : Taken(p)' = Taken(p)
    BY <1>1, <1>4, TakenSame DEF Untaken
  <2> QED
    BY <1>1, <2>1 DEF TradesWithinLimits, Posted
<1> QED
  BY <1>5, <1>6, <1>7, <1>8, <1>9 DEF BookInv

LEMMA BookBookInsert ==
  ASSUME BookInv, NEW s \in Slots, BookInsert(s)
  PROVE  BookInv'
<1>1. /\ UNCHANGED <<journals, bal, trades>> /\ call[s].op = "place" /\ call[s].at = "insert"
      /\ ~Matching(call[s])
  BY DEF BookInsert, At, Matching
<1>2. PICK o \in BookOrders : call[s].row = o /\ call[s].saw = None
  BY <1>1, BookCallIs DEF BookRequests, Requests, Idle, Request
<1>3. BookQty[o] \in Nat \ {0}
  BY OrderBookAssumption
<1>4. CASE book[o].status = "none"
  <2>1. book' = [book EXCEPT ![o] = Row(BookQty[o])] /\ placed' = Append(placed, o) /\ Goto(s, "match")
    BY <1>2, <1>4, InsertedRow DEF BookInsert
  <2>2. PICK c \in BookRequests : c = Request("place", "match", o, None)
    BY PlaceRequest
  <2>3. c.op = "place" /\ c.at = "match" /\ c.row = o /\ Becomes(s, c)
    BY <1>1, <1>2, <2>1, <2>2, BookGoto, RequestHas
  <2>4. PICK row \in BookRows : row = Row(BookQty[o])
    BY <1>3, RowIs
  <2>5. row.status # "none" /\ row.left = BookQty[o] /\ row.left > 0
    BY <1>3, <2>4, RowIs
  <2>6. book'[o].status # "none"
    BY <2>1, <2>4, <2>5 DEF BookInv, BookTypeOK
  <2>7. Untouched(o)'
    BY <1>1, <1>4 DEF BookInv, RowsSound, Untouched, TradesOf, Posted
  <2>8. BookCall(c)'
    BY <2>3, <2>6, <2>7 DEF BookCall, Matching
  <2>9. book' = [book EXCEPT ![o] = row]
    BY <2>1, <2>4
  <2>10. row.left <= BookQty[o] /\ (row.status = "open" => row.left > 0)
    BY <1>3, <2>5
  <2>11. book[c.row].status = "none" /\ placed' = Append(placed, o) /\ book[o].status = "none"
    BY <1>4, <2>1, <2>3
  <2>12. Becomes(s, c) /\ row.status # "none" /\ UNCHANGED <<journals, bal, trades>>
    BY <1>1, <2>3, <2>5
  <2> QED
    BY <2>8, <2>9, <2>10, <2>11, <2>12, RowMoves
<1>5. CASE book[o].status # "none"
  <2>1. UNCHANGED <<book, placed, trades>> /\ Becomes(s, Idle)
    BY <1>1, <1>2, <1>5 DEF BookInsert, Leave, Becomes
  <2>2. Idle \in BookRequests /\ ~Matching(Idle) /\ Idle.op = "idle"
    BY RequestHas DEF Matching, BookRequests, Idle
  <2>3. LedgerTypeOK' /\ (\A key : Posted(key)' <=> Posted(key))
    BY <1>1 DEF BookInv, BookTypeOK, LedgerTypeOK, Posted
  <2>4. BookCall(Idle)'
    BY <2>2 DEF BookCall, Matching
  <2> QED
    BY <2>1, <2>2, <2>3, <2>4, RowsStill
<1> QED
  BY <1>4, <1>5

LEMMA BookCancelMark ==
  ASSUME BookInv, NEW s \in Slots, CancelMark(s)
  PROVE  BookInv'
<1>1. /\ UNCHANGED <<journals, bal, placed, trades>> /\ call[s].op = "unplace"
      /\ Becomes(s, Idle)
  BY DEF CancelMark, At, Leave, Becomes
<1>2. PICK o \in BookOrders : call[s].row = o /\ book[o].status # "none"
  BY <1>1, BookCallIs, BookCallHas DEF BookCall
<1>3. book[o].left \in Nat /\ book[o].left <= BookQty[o]
  BY DEF BookInv, BookTypeOK, BookRows, RowsSound, BookRow
<1>4. PICK row \in BookRows : row = [status |-> "cancelled", left |-> book[o].left]
  BY <1>3 DEF BookRows
<1>5. book' = [book EXCEPT ![o] = row] /\ row.status = "cancelled" /\ row.left <= BookQty[o]
  BY <1>2, <1>3, <1>4 DEF CancelMark
<1>6. Idle \in BookRequests /\ ~Matching(Idle) /\ Idle.op = "idle"
  BY RequestHas DEF Matching, BookRequests, Idle
<1>7. BookCall(Idle)'
  BY <1>6 DEF BookCall, Matching
<1> QED
  BY <1>1, <1>2, <1>5, <1>6, <1>7, RowMoves
-----------------------------------------------------------------------------
(* The steps of match.                                                     *)

(* What a request that is filling knows of the maker it is at.             *)
LEMMA PickIs ==
  ASSUME BookInv, NEW s \in Slots, call[s].op = "place",
         \/ call[s].at \in {"trade", "advance"}
         \/ call[s].at = "fill" /\ call[s].saw.left > 0 /\ call[s].saw.makers # {}
  PROVE  /\ call[s].row \in BookOrders /\ call[s].saw \in BookViews
         /\ Matching(call[s]) /\ TakerKnows(call[s]) /\ book[call[s].row].status # "none"
         /\ call[s].saw.left > 0
         /\ Maker(s) = Pick(call[s]) /\ FillQty(s) = Qty(call[s])
         /\ Pick(call[s]) \in call[s].saw.makers /\ Pick(call[s]) \in Quotes
         /\ Qty(call[s]) \in Nat \ {0}
         /\ Qty(call[s]) <= call[s].saw.left /\ Qty(call[s]) <= Pick(call[s]).left
<1>1. PICK c \in BookRequests : c = call[s] /\ BookCall(c)
  BY BookCallIs
<1>2. c.op = "place" /\ c.at \in {"fill", "trade", "advance"}
  BY <1>1
<1>3. c.row \in BookOrders /\ c.saw \in BookViews
  BY <1>2, BookCallHas
<1>4. Matching(c) /\ TakerKnows(c) /\ book[c.row].status # "none"
  BY <1>1, <1>2 DEF Matching, BookCall
<1>5. c.saw.left > 0 /\ c.saw.makers # {} /\ c.saw.makers \in SUBSET Quotes /\ c.saw.left \in Nat
  BY <1>1, <1>3, <1>4 DEF TakerKnows, BookViews
<1>6. MakersKnown(c.row, c.saw.makers) /\ BookTypeOK /\ PlacedOnce
  BY <1>4 DEF TakerKnows, BookInv
<1>7. Pick(c) \in c.saw.makers
  BY <1>3, <1>5, <1>6, BestIs DEF Pick
<1>8. Pick(c).left \in Nat /\ Pick(c).left > 0 /\ Pick(c) \in Quotes
  BY <1>5, <1>6, <1>7 DEF MakersKnown, Quotes
<1>9. Qty(c) \in Nat \ {0} /\ Qty(c) <= c.saw.left /\ Qty(c) <= Pick(c).left
  BY <1>5, <1>8 DEF Qty, Smaller
<1>10. Maker(s) = Pick(c) /\ FillQty(s) = Qty(c)
  BY <1>1 DEF Maker, FillQty, Pick, Qty
<1> QED
  BY <1>1, <1>3, <1>4, <1>5, <1>7, <1>8, <1>9, <1>10

LEMMA BookMatchRead ==
  ASSUME BookInv, NEW s \in Slots, MatchRead(s)
  PROVE  BookInv'
<1>1. /\ UNCHANGED <<journals, bal, book, placed, trades>>
      /\ call[s].op = "place" /\ call[s].at = "match" /\ Matching(call[s])
  BY DEF MatchRead, At, Matching
<1>2. PICK o \in BookOrders : call[s].row = o /\ Untouched(o) /\ book[o].status # "none"
  BY <1>1, BookCallIs, BookCallHas DEF BookCall
<1>3. /\ BookTypeOK /\ PlacedOnce /\ RowsSound /\ OrderBookAssumption
      /\ \A m \in BookOrders : /\ book[m].left \in Nat /\ book[m].left <= BookQty[m]
                               /\ book[m].status = "open" => book[m].left > 0
  BY OrderBookAssumption DEF BookInv, BookTypeOK, BookRows, RowsSound, BookRow
<1>4. PICK M \in SUBSET Quotes :
        M = {Resting(m, book[m].left) : m \in Candidates(o)}
  <2>1. \A m \in BookOrders : Resting(m, book[m].left) \in Quotes
    BY <1>3 DEF Candidates, Resting, Quotes
  <2> QED
    BY <2>1 DEF Candidates
<1>5. PICK v \in BookViews : v = View(M, book[o].left)
  BY <1>3 DEF View, BookViews
<1>6. PICK c \in BookRequests : c = Request("place", "fill", o, v)
  BY MatchRequest
<1>7. c.op = "place" /\ c.at = "fill" /\ c.row = o /\ c.saw = v /\ Matching(c)
  BY <1>6, RequestHas DEF Matching
<1>8. v.makers = M /\ v.left = book[o].left
  BY <1>5 DEF View
<1>9. Becomes(s, c)
  BY <1>1, <1>2, <1>4, <1>5, <1>6 DEF MatchRead, Seeing, Becomes
<1>10. MakersKnown(o, M)
  <2>1. \A m \in M : /\ book[m.id].status = "open" /\ Crosses(o, m.id) /\ m.id \in BookOrders
                     /\ m.left = book[m.id].left /\ m = Resting(m.id, book[m.id].left)
    BY <1>4 DEF Candidates, Resting
  <2> QED
    BY <1>3, <2>1 DEF MakersKnown
<1>11. TakerKnows(c)
  <2>1. Taken(o) = 0
    BY <1>2, TakenNothing DEF Untouched
  <2>2. Taken(o) + v.left <= BookQty[o]
    BY <1>3, <1>8, <2>1
  <2>3. \A m \in M : ~Posted(Fk(o, m.id))
    BY <1>2, <1>4 DEF Untouched, Quotes
  <2> QED
    BY <1>7, <1>8, <1>10, <2>2, <2>3 DEF TakerKnows
<1>12. BookCall(c)
  BY <1>2, <1>7, <1>11 DEF BookCall
<1>13. BookCall(c)'
  <2>1. PlacedGrows /\ RowsStay /\ Untaken(o)
    BY <1>1 DEF PlacedGrows, RowsStay, Untaken, TradesOf, Posted
  <2> QED
    BY <1>3, <1>7, <1>12, <2>1, BookCallOn
<1>14. LedgerTypeOK' /\ (\A key : Posted(key)' <=> Posted(key))
  BY <1>1 DEF BookInv, BookTypeOK, LedgerTypeOK, Posted
<1> QED
  BY <1>1, <1>2, <1>7, <1>9, <1>13, <1>14, RowsStill

(* A taker posts a fill or writes a trade.                                 *)
LEMMA TakerMoves ==
  ASSUME BookInv, NEW s \in Slots, NEW o \in BookOrders, Matching(call[s]), call[s].row = o,
         book[o].status # "none",
         NEW c \in BookRequests, c.row = o, Becomes(s, c),
         UNCHANGED <<book, placed>>,
         LedgerTypeOK', trades' \in SUBSET Tape, IsFiniteSet(trades'),
         \A p \in BookOrders \ {o} : Untaken(p),
         BookCall(c)', TradesWithinLimits'
  PROVE  BookInv'
<1>1. PlacedGrows /\ RowsStay
  BY DEF PlacedGrows, RowsStay
<1>2. call' \in [Slots -> BookRequests] /\ BookCalls' /\ TakersAlone'
  <2>1. \A p \in BookOrders : Untaken(p) \/ (Matching(call[s]) /\ call[s].row = p)
    OBVIOUS
  <2> QED
    BY <1>1, <2>1, BookCallsMoved
<1>3. BookTypeOK'
  BY <1>2 DEF BookInv, BookTypeOK
<1>4. PlacedOnce'
  BY DEF BookInv, PlacedOnce
<1>5. RowsSound'
  <2>1. ASSUME NEW p \in BookOrders, book[p].status = "none" PROVE Untouched(p)'
    <3>1. Untaken(p) /\ Untouched(p)
      BY <2>1 DEF BookInv, RowsSound
    <3> QED
      BY <3>1, UntouchedStays
  <2> QED
    BY <2>1 DEF BookInv, RowsSound, BookRow
<1> QED
  BY <1>2, <1>3, <1>4, <1>5 DEF BookInv

LEMMA PickStays ==
  ASSUME BookTypeOK, PlacedOnce, placed' = placed, NEW c \in BookRequests,
         c.op = "place", c.at \in {"fill", "trade", "advance"}, TakerKnows(c)
  PROVE  Pick(c)' = Pick(c) /\ Qty(c)' = Qty(c)
<1>1. c.saw \in BookViews /\ PlacedGrows
  BY BookCallHas DEF PlacedGrows
<1>2. c.saw.makers \in SUBSET Quotes
  BY <1>1 DEF BookViews
<1>3. Pick(c)' = Pick(c)
  BY <1>1, <1>2, BestStays DEF Pick, TakerKnows
<1> QED
  BY <1>3 DEF Qty

LEMMA BookFillPost ==
  ASSUME BookInv, NEW s \in Slots, FillPost(s)
  PROVE  BookInv'
<1>1. /\ UNCHANGED <<book, placed, trades>> /\ Goto(s, "trade")
      /\ call[s].op = "place" /\ call[s].at = "fill" /\ call[s].saw.left > 0
      /\ call[s].saw.makers # {}
  BY DEF FillPost, Filling, At
<1>2. PICK d \in BookRequests : d = call[s]
  BY BookCallIs
<1>3. /\ d.row \in BookOrders /\ d.saw \in BookViews /\ Matching(d) /\ TakerKnows(d)
      /\ book[d.row].status # "none" /\ d.op = "place" /\ d.at = "fill"
  BY <1>1, <1>2, PickIs
<1>4. PICK o \in BookOrders, m \in Quotes, n \in Nat : o = d.row /\ m = Pick(d) /\ n = Qty(d)
  BY <1>1, <1>2, <1>3, PickIs
<1>5. /\ m \in d.saw.makers /\ Maker(s) = m /\ FillQty(s) = n /\ m.id \in BookOrders
      /\ d.saw.left > 0
  BY <1>1, <1>2, <1>4, PickIs DEF Quotes
<1>6. PICK c \in BookRequests : c = Request("place", "trade", o, d.saw)
  BY <1>3, MatchRequest
<1>7. c.op = "place" /\ c.at = "trade" /\ c.row = o /\ c.saw = d.saw /\ Becomes(s, c)
  BY <1>1, <1>2, <1>3, <1>4, <1>6, BookGoto, RequestHas
<1>8. Pick(c) = m /\ Qty(c) = n
  BY <1>4, <1>7 DEF Pick, Qty
<1>9. /\ BookTypeOK /\ PlacedOnce /\ LedgerTypeOK /\ TradesWithinLimits
      /\ MakersKnown(o, d.saw.makers)
      /\ Taken(o) + d.saw.left <= BookQty[o]
      /\ \A k \in d.saw.makers : ~Posted(Fk(o, k.id))
  BY <1>3, <1>4 DEF BookInv, BookTypeOK, TakerKnows
<1>10. /\ LedgerTypeOK' /\ Posted(Fk(o, m.id))' /\ \A key : Posted(key) => Posted(key)'
       /\ \A key : Posted(key)' => Posted(key) \/ key = Fk(o, m.id)
  <2>1. PICK e \in Effects : PostJournal(Fk(o, m.id), e)
    <3>1. Parties(o, m.id).buy \in BookOrders /\ Parties(o, m.id).sell \in BookOrders
      BY <1>5 DEF Parties
    <3>2. Limit[m.id] \in Int
      BY <1>5, OrderBookAssumption
    <3>3. Fill(Parties(o, m.id).buy, Parties(o, m.id).sell, Limit[m.id], n) \in Effects
      BY <3>1, <3>2, BookEffects
    <3> QED
      BY <1>2, <1>4, <1>5, <3>3 DEF FillPost, Fk
  <2> QED
    BY <1>9, <2>1, PostKeeps
<1>11. ASSUME NEW p \in BookOrders \ {o} PROVE Untaken(p)
  <2>1. \A k \in BookOrders : Posted(Fk(p, k))' <=> Posted(Fk(p, k))
    BY <1>10, BookKeys
  <2> QED
    BY <1>1, <2>1 DEF Untaken, TradesOf
<1>12. TakerKnows(c)'
  <2>1. Pick(c)' = m /\ Qty(c)' = n
    <3>1. Pick(d)' = Pick(d) /\ Qty(d)' = Qty(d)
      BY <1>1, <1>3, <1>9, PickStays
    <3> QED
      BY <1>4, <1>7, <3>1 DEF Pick, Qty
  <2>2. MakersKnown(o, d.saw.makers)'
    BY <1>1, <1>9 DEF MakersKnown, Crosses
  <2>3. \A k \in d.saw.makers \ {m} : ~Posted(Fk(o, k.id))'
    <3>1. \A k \in d.saw.makers \ {m} : k.id # m.id
      BY <1>5, <1>9 DEF MakersKnown
    <3> QED
      BY <1>9, <1>10, <3>1, BookKeys
  <2>4. Taken(o)' = Taken(o)
    BY <1>1, <1>9, TakenSame DEF TradesOf
  <2>5. \A t \in trades : t.taker = o => t.maker # m.id
    BY <1>5, <1>9 DEF TradesWithinLimits, Fk
  <2>6. Taken(o)' + d.saw.left <= BookQty[o]
    BY <1>9, <2>4
  <2> QED
    BY <1>1, <1>5, <1>7, <1>10, <2>1, <2>2, <2>3, <2>5, <2>6 DEF TakerKnows
<1>13. BookCall(c)'
  BY <1>1, <1>3, <1>4, <1>7, <1>12 DEF BookCall, Matching
<1>14. TradesWithinLimits'
  <2>1. \A p \in BookOrders : Taken(p)' = Taken(p)
    BY <1>1, <1>9, TakenSame DEF TradesOf
  <2> QED
    BY <1>1, <1>9, <1>10, <2>1 DEF TradesWithinLimits
<1>15. trades' \in SUBSET Tape /\ IsFiniteSet(trades')
  BY <1>1, <1>9 DEF BookTypeOK
<1> QED
  BY <1>1, <1>2, <1>3, <1>4, <1>7, <1>10, <1>11, <1>13, <1>14, <1>15, TakerMoves

LEMMA BookFillTrade ==
  ASSUME BookInv, NEW s \in Slots, FillTrade(s)
  PROVE  BookInv'
<1>1. /\ UNCHANGED <<journals, bal, book, placed>> /\ Goto(s, "advance")
      /\ call[s].op = "place" /\ call[s].at = "trade"
  BY DEF FillTrade, At
<1>2. PICK d \in BookRequests : d = call[s]
  BY BookCallIs
<1>3. /\ d.row \in BookOrders /\ d.saw \in BookViews /\ Matching(d) /\ TakerKnows(d)
      /\ book[d.row].status # "none" /\ d.op = "place" /\ d.at = "trade"
  BY <1>1, <1>2, PickIs
<1>4. PICK o \in BookOrders, m \in Quotes, n \in Nat : o = d.row /\ m = Pick(d) /\ n = Qty(d)
  BY <1>1, <1>2, <1>3, PickIs
<1>5. /\ m \in d.saw.makers /\ Maker(s) = m /\ FillQty(s) = n /\ m.id \in BookOrders
      /\ d.saw.left \in Nat /\ n <= d.saw.left
  BY <1>1, <1>2, <1>3, <1>4, PickIs DEF Quotes, BookViews
<1>6. PICK c \in BookRequests : c = Request("place", "advance", o, d.saw)
  BY <1>3, MatchRequest
<1>7. c.op = "place" /\ c.at = "advance" /\ c.row = o /\ c.saw = d.saw /\ Becomes(s, c)
  BY <1>1, <1>2, <1>3, <1>4, <1>6, BookGoto, RequestHas
<1>8. Pick(c) = m /\ Qty(c) = n
  BY <1>4, <1>7 DEF Pick, Qty
<1>9. /\ BookTypeOK /\ PlacedOnce /\ LedgerTypeOK /\ TradesWithinLimits
      /\ MakersKnown(o, d.saw.makers)
      /\ Taken(o) + d.saw.left <= BookQty[o]
      /\ d.saw.left > 0 /\ d.saw.makers # {}
      /\ Posted(Fk(o, m.id))
      /\ \A k \in d.saw.makers \ {m} : ~Posted(Fk(o, k.id))
      /\ \A t \in trades : t.taker = o => t.maker # m.id
  BY <1>3, <1>4 DEF BookInv, BookTypeOK, TakerKnows
<1>10. PICK t \in Tape : /\ t.taker = o /\ t.maker = m.id /\ t.qty = n /\ t.price = Limit[m.id]
                         /\ trades' = trades \cup {t}
  <2>1. [taker |-> o, maker |-> m.id, qty |-> n, price |-> Limit[m.id]] \in Tape
    BY <1>5, OrderBookAssumption DEF Tape
  <2> QED
    BY <1>2, <1>4, <1>5, <2>1 DEF FillTrade
<1>11. Taken(o)' = Taken(o) + n /\ Taken(o) \in Nat
  <2>1. t \notin trades
    BY <1>9, <1>10
  <2> QED
    BY <1>9, <1>10, <2>1, TakenAdds, TakenIs
<1>12. ASSUME NEW p \in BookOrders \ {o} PROVE Untaken(p)
  BY <1>1, <1>10 DEF Untaken, TradesOf, Posted
<1>13. TakerKnows(c)'
  <2>1. Pick(c)' = m /\ Qty(c)' = n
    <3>1. Pick(d)' = Pick(d) /\ Qty(d)' = Qty(d)
      BY <1>1, <1>3, <1>9, PickStays
    <3> QED
      BY <1>4, <1>7, <3>1 DEF Pick, Qty
  <2>2. MakersKnown(o, d.saw.makers)'
    BY <1>1, <1>9 DEF MakersKnown, Crosses
  <2>3. Posted(Fk(o, m.id))' /\ \A k \in d.saw.makers \ {m} : ~Posted(Fk(o, k.id))'
    BY <1>1, <1>9 DEF Posted
  <2>4. Taken(o)' + d.saw.left - n <= BookQty[o]
    <3>1. BookQty[o] \in Nat
      BY OrderBookAssumption
    <3> QED
      BY <1>5, <1>9, <1>11, <3>1
  <2> QED
    BY <1>5, <1>7, <1>9, <2>1, <2>2, <2>3, <2>4 DEF TakerKnows
<1>14. BookCall(c)'
  BY <1>1, <1>3, <1>4, <1>7, <1>13 DEF BookCall, Matching
<1>15. TradesWithinLimits'
  <2>1. ASSUME NEW u \in trades'
        PROVE  LET p == Parties(u.taker, u.maker) IN
               /\ Posted(<<"fill", u.taker, u.maker>>)'
               /\ Limit[p.sell] <= u.price /\ u.price <= Limit[p.buy]
    <3>1. CASE u \in trades
      BY <1>1, <1>9, <3>1 DEF TradesWithinLimits, Posted
    <3>2. CASE u = t
      <4>1. Posted(Fk(o, m.id))'
        BY <1>1, <1>9 DEF Posted
      <4>2. Crosses(o, m.id)
        BY <1>5, <1>9 DEF MakersKnown
      <4>3. Limit[o] \in Nat /\ Limit[m.id] \in Nat /\ BookSide[o] \in {"buy", "sell"}
        BY <1>5, OrderBookAssumption
      <4> QED
        BY <1>10, <3>2, <4>1, <4>2, <4>3 DEF Crosses, Parties, Fk
    <3> QED
      BY <1>10, <3>1, <3>2
  <2>2. ASSUME NEW p \in BookOrders PROVE Taken(p)' <= BookQty[p]
    <3>1. CASE p = o
      <4>1. BookQty[o] \in Nat
        BY OrderBookAssumption
      <4> QED
        BY <1>5, <1>9, <1>11, <3>1, <4>1
    <3>2. CASE p # o
      BY <1>9, <1>12, <3>2, TakenSame DEF Untaken, TradesWithinLimits
    <3> QED
      BY <3>1, <3>2
  <2> QED
    BY <2>1, <2>2 DEF TradesWithinLimits
<1>16. trades' \in SUBSET Tape /\ IsFiniteSet(trades') /\ LedgerTypeOK'
  BY <1>1, <1>9, <1>10, FS_AddElement DEF BookTypeOK, LedgerTypeOK
<1> QED
  BY <1>1, <1>2, <1>3, <1>4, <1>7, <1>12, <1>14, <1>15, <1>16, TakerMoves

LEMMA BookMakerUpdate ==
  ASSUME BookInv, NEW s \in Slots, MakerUpdate(s)
  PROVE  BookInv'
<1>1. /\ UNCHANGED <<journals, bal, placed, trades>>
      /\ call[s].op = "place" /\ call[s].at = "advance"
  BY DEF MakerUpdate, At
<1>2. PICK d \in BookRequests : d = call[s]
  BY BookCallIs
<1>3. /\ d.row \in BookOrders /\ d.saw \in BookViews /\ Matching(d) /\ TakerKnows(d)
      /\ book[d.row].status # "none" /\ d.op = "place" /\ d.at = "advance"
  BY <1>1, <1>2, PickIs
<1>4. PICK o \in BookOrders, m \in Quotes, n \in Nat : o = d.row /\ m = Pick(d) /\ n = Qty(d)
  BY <1>1, <1>2, <1>3, PickIs
<1>5. /\ m \in d.saw.makers /\ Maker(s) = m /\ FillQty(s) = n /\ m.id \in BookOrders
      /\ d.saw.left \in Nat /\ n <= d.saw.left /\ m.left \in Nat /\ n <= m.left
      /\ d.saw.makers \in SUBSET Quotes
  BY <1>1, <1>2, <1>3, <1>4, PickIs DEF Quotes, BookViews
<1>6. /\ BookTypeOK /\ PlacedOnce /\ MakersKnown(o, d.saw.makers)
      /\ Taken(o) + d.saw.left - n <= BookQty[o]
      /\ \A k \in d.saw.makers \ {m} : ~Posted(Fk(o, k.id))
  BY <1>3, <1>4 DEF BookInv, TakerKnows
<1>7. PICK v \in BookViews : v = View(d.saw.makers \ {m}, d.saw.left - n)
  <2>1. d.saw.left - n \in Nat /\ d.saw.makers \ {m} \in SUBSET Quotes
    BY <1>5
  <2>2. \A M \in SUBSET Quotes, i \in Nat : View(M, i) \in BookViews
    BY DEF View, BookViews
  <2> QED
    BY <2>1, <2>2
<1>8. PICK c \in BookRequests : c = Request("place", "fill", o, v)
  BY MatchRequest
<1>9. c.op = "place" /\ c.at = "fill" /\ c.row = o /\ c.saw = v /\ Matching(c)
  BY <1>8, RequestHas DEF Matching
<1>10. v.makers = d.saw.makers \ {m} /\ v.left = d.saw.left - n
  BY <1>7 DEF View
<1>11. Becomes(s, c) /\ book' = [book EXCEPT ![m.id] = Row(m.left - n)]
  BY <1>2, <1>3, <1>4, <1>5, <1>7, <1>8 DEF MakerUpdate, Seeing, Becomes
<1>12. PICK row \in BookRows : row = Row(m.left - n)
  BY <1>5, RowIs
<1>13. row.status # "none" /\ row.left = m.left - n /\ (row.status = "open" => row.left > 0)
  <2>1. m.left - n \in Nat
    BY <1>5
  <2> QED
    BY <1>12, <2>1, RowIs
<1>14. m.left <= BookQty[m.id] /\ book[m.id].status # "none" /\ BookQty[m.id] \in Nat
  BY <1>5, <1>6, OrderBookAssumption DEF MakersKnown
<1>15. row.left <= BookQty[m.id] /\ book' = [book EXCEPT ![m.id] = row]
  BY <1>5, <1>11, <1>12, <1>13, <1>14
<1>16. RowsStay
  BY <1>6, <1>13, <1>15 DEF RowsStay, BookTypeOK
<1>17. TakerKnows(c)'
  <2>1. MakersKnown(o, v.makers)
    BY <1>6, <1>10 DEF MakersKnown
  <2>2. MakersKnown(o, v.makers)'
    BY <1>5, <1>10, <1>16, <2>1, KnownStays
  <2>3. Taken(o)' + v.left <= BookQty[o]
    <3>1. Taken(o)' = Taken(o) /\ Taken(o) \in Nat /\ BookQty[o] \in Nat
      BY <1>1, <1>6, TakenSame, TakenIs, OrderBookAssumption DEF TradesOf
    <3> QED
      BY <1>5, <1>6, <1>10, <3>1
  <2>4. \A k \in v.makers : ~Posted(Fk(o, k.id))'
    BY <1>1, <1>6, <1>10 DEF Posted
  <2> QED
    BY <1>9, <2>2, <2>3, <2>4 DEF TakerKnows
<1>18. BookCall(c)'
  BY <1>3, <1>4, <1>9, <1>16, <1>17 DEF BookCall, Matching, RowsStay
<1>19. Matching(call[s]) /\ call[s].row = c.row /\ UNCHANGED <<journals, bal, trades>>
  BY <1>1, <1>2, <1>3, <1>4, <1>9
<1>20. PICK k \in BookOrders : k = m.id
  BY <1>5
<1>21. /\ book' = [book EXCEPT ![k] = row] /\ row.left <= BookQty[k]
       /\ placed' = placed /\ book[k].status # "none"
  BY <1>1, <1>14, <1>15, <1>20
<1> QED
  BY <1>11, <1>13, <1>18, <1>19, <1>21, RowMoves

LEMMA BookTakerUpdate ==
  ASSUME BookInv, NEW s \in Slots, TakerUpdate(s)
  PROVE  BookInv'
<1>1. /\ UNCHANGED <<journals, bal, placed, trades>> /\ Becomes(s, Idle)
      /\ call[s].op = "place" /\ call[s].at = "fill"
  BY DEF TakerUpdate, At, Leave, Becomes
<1>2. PICK d \in BookRequests : d = call[s] /\ BookCall(d)
  BY BookCallIs
<1>3. d.row \in BookOrders /\ d.saw \in BookViews /\ book[d.row].status # "none" /\ TakerKnows(d)
  BY <1>1, <1>2, BookCallHas DEF BookCall, Matching
<1>4. d.saw.left \in Nat /\ Taken(d.row) + d.saw.left <= BookQty[d.row] /\ Taken(d.row) \in Nat
  BY <1>1, <1>2, <1>3, TakenIs DEF TakerKnows, BookViews, BookInv
<1>5. d.saw.left <= BookQty[d.row]
  <2>1. BookQty[d.row] \in Nat
    BY <1>3, OrderBookAssumption
  <2> QED
    BY <1>4, <2>1
<1>6. PICK row \in BookRows : row = Row(d.saw.left)
  BY <1>4, RowIs
<1>7. row.status # "none" /\ row.left = d.saw.left /\ (row.status = "open" => row.left > 0)
  BY <1>4, <1>6, RowIs
<1>8. book' = [book EXCEPT ![d.row] = row]
  BY <1>2, <1>6 DEF TakerUpdate
<1>9. Idle \in BookRequests /\ ~Matching(Idle) /\ Idle.op = "idle"
  BY RequestHas DEF Matching, BookRequests, Idle
<1>10. BookCall(Idle)'
  BY <1>9 DEF BookCall, Matching
<1> QED
  BY <1>1, <1>3, <1>5, <1>7, <1>8, <1>9, <1>10, RowMoves

-----------------------------------------------------------------------------
LEMMA BookStarts ==
  ASSUME OrderBookInit
  PROVE  BookInv
<1>1. /\ LedgerTypeOK /\ DOMAIN journals = {} /\ call = [s \in Slots |-> Idle]
      /\ book = [o \in BookOrders |-> [status |-> "none", left |-> 0]]
      /\ placed = <<>> /\ trades = {}
  BY OpeningAssumption DEF OrderBookInit, ServiceInit, LedgerInit, LedgerTypeOK, Effects
<1>2. Idle \in BookRequests /\ ~Matching(Idle) /\ Idle.op = "idle"
  BY RequestHas DEF Matching, BookRequests, Idle
<1>3. BookTypeOK
  <2>1. book \in [BookOrders -> BookRows]
    BY <1>1 DEF BookRows
  <2>2. IsFiniteSet(trades)
    BY <1>1, FS_EmptySet
  <2> QED
    BY <1>1, <1>2, <2>1, <2>2 DEF BookTypeOK
<1>4. PlacedOnce
  BY <1>1 DEF PlacedOnce
<1>5. RowsSound
  BY <1>1, OrderBookAssumption DEF RowsSound, BookRow, Untouched, TradesOf, Posted
<1>6. BookCalls /\ TakersAlone
  BY <1>1, <1>2 DEF BookCalls, BookCall, TakersAlone, Matching
<1>7. TradesWithinLimits
  <2>1. \A o \in BookOrders : Taken(o) = 0
    BY <1>1, TakenNothing DEF TradesOf
  <2> QED
    BY <1>1, <2>1, OrderBookAssumption DEF TradesWithinLimits
<1> QED
  BY <1>3, <1>4, <1>5, <1>6, <1>7 DEF BookInv

LEMMA BookInvKept ==
  ASSUME BookInv, OrderBookNext
  PROVE  BookInv'
<1>1. PICK s \in Slots :
        \/ \E o \in BookOrders : PlaceCall(s, o) \/ CancelBook(s, o)
        \/ PlaceEscrow(s) \/ BookInsert(s) \/ MatchRead(s)
        \/ FillPost(s) \/ FillTrade(s) \/ MakerUpdate(s) \/ TakerUpdate(s)
        \/ CancelRefund(s) \/ CancelMark(s)
        \/ BookDies(s)
  BY DEF OrderBookNext
<1> QED
  BY <1>1, BookPlaceCall, BookCancelBook, BookPlaceEscrow, BookBookInsert, BookMatchRead,
     BookFillPost, BookFillTrade, BookMakerUpdate, BookTakerUpdate, BookCancelRefund,
     BookCancelMark, BookBookDies

LEMMA BookInvStutters ==
  ASSUME BookInv, UNCHANGED bookVars
  PROVE  BookInv'
<1>1. \A o : Taken(o)' = Taken(o)
  BY DEF Taken, bookVars
<1>2. \A c \in BookRequests : BookCall(c) => BookCall(c)'
  <2> SUFFICES ASSUME NEW c \in BookRequests, BookCall(c) PROVE BookCall(c)'
    OBVIOUS
  <2>1. PlacedGrows /\ RowsStay /\ \A o : Untaken(o)
    BY DEF PlacedGrows, RowsStay, Untaken, TradesOf, Posted, bookVars
  <2> QED
    BY <2>1, BookCallOn DEF BookInv
<1>3. BookCalls'
  <2>1. ASSUME NEW s \in Slots PROVE BookCall(call[s])'
    <3>1. PICK d \in BookRequests : d = call[s] /\ call'[s] = d /\ BookCall(d)
      BY BookCallIs DEF bookVars
    <3> QED
      BY <1>2, <3>1
  <2> QED
    BY <2>1 DEF BookCalls
<1>4. BookTypeOK' /\ PlacedOnce' /\ TakersAlone'
  BY DEF BookInv, BookTypeOK, LedgerTypeOK, PlacedOnce, TakersAlone, Matching, bookVars
<1>5. RowsSound'
  BY DEF BookInv, RowsSound, BookRow, Untouched, TradesOf, Posted, bookVars
<1>6. TradesWithinLimits'
  BY <1>1 DEF BookInv, TradesWithinLimits, Posted, bookVars
<1> QED
  BY <1>3, <1>4, <1>5, <1>6 DEF BookInv
-----------------------------------------------------------------------------
(* What each order has in escrow, by the journals.                         *)
Ek(o) == <<"escrow", o>>
Uk(o) == <<"unplace", o>>

(* n units at a price, divided by the price.                               *)
LEMMA TimesDiv ==
  ASSUME NEW n \in Int, NEW p \in Nat \ {0}
  PROVE  (n * p) \div p = n
OBVIOUS

(* The maker's price and what the limit leaves over make the limit.        *)
LEMMA PriceAndRest ==
  ASSUME NEW n \in Int, NEW p \in Int, NEW l \in Int
  PROVE  n * p + n * (l - p) = n * l
OBVIOUS

LEMMA OrdersFinite ==
  /\ IsFiniteSet(SellOrders) /\ IsFiniteSet(BuyOrders)
  /\ \A o : IsFiniteSet({p \in Pairs : o \in {p[1], p[2]}})
<1>1. IsFiniteSet(Pairs)
  BY OrderBookAssumption, FS_Product DEF Pairs
<1> QED
  BY <1>1, OrderBookAssumption, FS_Subset DEF SellOrders, BuyOrders

LEMMA DrawnIs ==
  ASSUME LedgerTypeOK, NEW p \in Pairs
  PROVE  Drawn(p) \in Int
<1>1. UnitEscrow \in Accounts
  BY OrderBookAssumption
<1>2. CASE Posted(Fk(p[1], p[2]))
  <2>1. journals[Fk(p[1], p[2])] \in Effects
    BY <1>2 DEF LedgerTypeOK, Posted
  <2>2. journals[Fk(p[1], p[2])][UnitEscrow] \in Int
    BY <1>1, <2>1 DEF Effects
  <2> QED
    BY <1>2, <2>2 DEF Drawn, Fk
<1>3. CASE ~Posted(Fk(p[1], p[2]))
  BY <1>3 DEF Drawn, Fk
<1> QED
  BY <1>2, <1>3

LEMMA DrawnTyped == LedgerTypeOK => \A p \in Pairs : Drawn(p) \in Int
BY DrawnIs

LEMMA GivenBackIs ==
  ASSUME LedgerTypeOK, NEW o \in BookOrders
  PROVE  GivenBack(o) \in Int
<1>1. UnitEscrow \in Accounts /\ CashEscrow \in Accounts /\ Limit[o] \in Nat \ {0}
  BY OrderBookAssumption
<1>2. CASE Posted(Uk(o))
  <2>1. journals[Uk(o)] \in Effects
    BY <1>2 DEF LedgerTypeOK, Posted
  <2>2. journals[Uk(o)][UnitEscrow] \in Int /\ journals[Uk(o)][CashEscrow] \in Int
    BY <1>1, <2>1 DEF Effects
  <2>3. \A i \in Int, l \in Nat \ {0} : (-i) \div l \in Int
    OBVIOUS
  <2>4. (-journals[Uk(o)][CashEscrow]) \div Limit[o] \in Int
    BY <1>1, <2>2, <2>3
  <2> QED
    BY <1>2, <2>2, <2>4 DEF GivenBack, Uk
<1>3. CASE ~Posted(Uk(o))
  BY <1>3 DEF GivenBack, Uk
<1> QED
  BY <1>2, <1>3

LEMMA FilledIs ==
  ASSUME LedgerTypeOK, NEW o
  PROVE  FilledOf(o) \in Int
<1> DEFINE f == [p \in Pairs |-> Drawn(p)]
           S == {p \in Pairs : o \in {p[1], p[2]}}
<1>1. IsFiniteSet(S)
  BY OrdersFinite
<1>2. \A p \in S : f[p] \in Int
  BY DrawnIs
<1>3. SumFunctionOnSet(f, S) \in Int
  <2> HIDE DEF f, S
  <2> QED
    BY <1>1, <1>2, SumType
<1> QED
  BY <1>3 DEF FilledOf

LEMMA InEscrowIs ==
  ASSUME LedgerTypeOK, NEW o \in BookOrders
  PROVE  InEscrow(o) \in Int
BY FilledIs, GivenBackIs, OrderBookAssumption DEF InEscrow, Ek

(* A fill draws on its two orders.                                         *)
LEMMA FilledChanges ==
  ASSUME LedgerTypeOK, LedgerTypeOK', NEW q \in Pairs, NEW o,
         \A p \in Pairs \ {q} : Drawn(p)' = Drawn(p)
  PROVE  FilledOf(o)' = FilledOf(o) + (IF o \in {q[1], q[2]} THEN Drawn(q)' - Drawn(q) ELSE 0)
<1> DEFINE f == [p \in Pairs |-> Drawn(p)]
           g == [p \in Pairs |-> Drawn(p)']
           S == {p \in Pairs : o \in {p[1], p[2]}}
<1>1. IsFiniteSet(S) /\ S \subseteq Pairs
  BY OrdersFinite
<1>2. \A p \in Pairs : f[p] = Drawn(p) /\ g[p] = Drawn(p)' /\ f[p] \in Int /\ g[p] \in Int
  <2>1. (LedgerTypeOK => \A p \in Pairs : Drawn(p) \in Int)'
    BY DrawnTyped, PTL
  <2>2. \A p \in Pairs : Drawn(p)' \in Int
    BY <2>1
  <2> QED
    BY <2>2, DrawnIs
<1>3. FilledOf(o) = SumFunctionOnSet(f, S) /\ FilledOf(o)' = SumFunctionOnSet(g, S)
  BY DEF FilledOf, Pairs
<1>4. SumFunctionOnSet(f, S) \in Int
  <2> HIDE DEF f, S
  <2> QED
    BY <1>1, <1>2, SumType
<1> HIDE DEF f, g, S
<1>5. CASE q \in S
  <2>1. \A p \in S \ {q} : f[p] = g[p]
    BY <1>1, <1>2
  <2>2. SumFunctionOnSet(g, S) = SumFunctionOnSet(f, S) + g[q] - f[q]
    <3>1. \A p \in S : f[p] \in Int /\ g[p] \in Int
      BY <1>1, <1>2
    <3> QED
      BY <1>1, <1>5, <2>1, <3>1, SumChange
  <2>3. o \in {q[1], q[2]}
    BY <1>5 DEF S
  <2> QED
    BY <1>2, <1>3, <1>4, <2>2, <2>3
<1>6. CASE q \notin S
  <2>1. \A p \in S : f[p] = g[p]
    BY <1>1, <1>2, <1>6
  <2>2. SumFunctionOnSet(g, S) = SumFunctionOnSet(f, S)
    BY <1>1, <2>1, SumSame
  <2>3. o \notin {q[1], q[2]}
    BY <1>6 DEF S
  <2> QED
    BY <1>3, <1>4, <2>2, <2>3
<1> QED
  BY <1>5, <1>6

LEMMA InEscrowTyped == LedgerTypeOK => \A o \in BookOrders : InEscrow(o) \in Int
BY InEscrowIs

(* Of the sells, only r has another amount in escrow than before.          *)
LEMMA UnitsMove ==
  ASSUME LedgerTypeOK, LedgerTypeOK', UnitsExplained, NEW r \in BookOrders,
         \A p \in SellOrders \ {r} : InEscrow(p)' = InEscrow(p),
         bal'[UnitEscrow] = bal[UnitEscrow] + (IF r \in SellOrders THEN InEscrow(r)' - InEscrow(r) ELSE 0)
  PROVE  UnitsExplained'
<1> DEFINE f == [o \in BookOrders |-> InEscrow(o)]
           g == [o \in BookOrders |-> InEscrow(o)']
<1>1. \A o \in BookOrders : InEscrow(o) \in Int /\ InEscrow(o)' \in Int
  <2>1. (LedgerTypeOK => \A o \in BookOrders : InEscrow(o) \in Int)'
    BY InEscrowTyped, PTL
  <2> QED
    BY <2>1, InEscrowIs
<1>2. \A o \in SellOrders : f[o] = InEscrow(o) /\ g[o] = InEscrow(o)'
  BY DEF SellOrders
<1>3. \A o \in SellOrders : f[o] \in Int /\ g[o] \in Int
  BY <1>1, <1>2 DEF SellOrders
<1>4. bal[UnitEscrow] = Opening[UnitEscrow] + SumFunctionOnSet(f, SellOrders)
  BY DEF UnitsExplained
<1>5. Opening[UnitEscrow] \in Int
  BY OpeningAssumption, OrderBookAssumption
<1> HIDE DEF f, g
<1>6. SumFunctionOnSet(f, SellOrders) \in Int /\ IsFiniteSet(SellOrders)
  BY <1>3, OrdersFinite, SumType
<1>7. SumFunctionOnSet(g, SellOrders) = SumFunctionOnSet(f, SellOrders)
                                   + (IF r \in SellOrders THEN InEscrow(r)' - InEscrow(r) ELSE 0)
  <2>1. CASE r \in SellOrders
    <3>1. \A o \in SellOrders \ {r} : f[o] = g[o]
      BY <1>2
    <3>2. /\ IsFiniteSet(SellOrders) /\ r \in SellOrders
          /\ \A o \in SellOrders : f[o] \in Int /\ g[o] \in Int
      BY <1>3, <1>6, <2>1
    <3>3. SumFunctionOnSet(g, SellOrders) = SumFunctionOnSet(f, SellOrders) + g[r] - f[r]
      BY <3>1, <3>2, SumChange
    <3> QED
      BY <1>1, <1>2, <1>6, <2>1, <3>3
  <2>2. CASE r \notin SellOrders
    <3>1. \A o \in SellOrders : f[o] = g[o]
      BY <1>2, <2>2
    <3>2. SumFunctionOnSet(f, SellOrders) = SumFunctionOnSet(g, SellOrders)
      BY <1>6, <3>1, SumSame
    <3> QED
      BY <1>6, <2>2, <3>2
  <2> QED
    BY <2>1, <2>2
<1>8. bal'[UnitEscrow] = Opening[UnitEscrow] + SumFunctionOnSet(g, SellOrders)
  BY <1>1, <1>4, <1>5, <1>6, <1>7
<1> QED
  BY <1>8 DEF UnitsExplained, g, SellOrders

(* Of the buys, only r.                                                    *)
LEMMA CashMoves ==
  ASSUME LedgerTypeOK, LedgerTypeOK', CashInEscrowExplained, NEW r \in BookOrders,
         \A p \in BuyOrders \ {r} : InEscrow(p)' = InEscrow(p),
         bal'[CashEscrow] = bal[CashEscrow]
           + (IF r \in BuyOrders THEN InEscrow(r)' * Limit[r] - InEscrow(r) * Limit[r] ELSE 0)
  PROVE  CashInEscrowExplained'
<1> DEFINE f == [o \in BookOrders |-> InEscrow(o) * Limit[o]]
           g == [o \in BookOrders |-> InEscrow(o)' * Limit[o]]
<1>1. \A o \in BookOrders : InEscrow(o) * Limit[o] \in Int /\ InEscrow(o)' * Limit[o] \in Int
  <2>1. (LedgerTypeOK => \A o \in BookOrders : InEscrow(o) \in Int)'
    BY InEscrowTyped, PTL
  <2>2. \A o \in BookOrders : InEscrow(o) \in Int /\ InEscrow(o)' \in Int /\ Limit[o] \in Int
    BY <2>1, InEscrowIs, OrderBookAssumption
  <2> QED
    BY <2>2
<1>2. \A o \in BuyOrders : f[o] = InEscrow(o) * Limit[o] /\ g[o] = InEscrow(o)' * Limit[o]
  BY DEF BuyOrders
<1>3. \A o \in BuyOrders : f[o] \in Int /\ g[o] \in Int
  BY <1>1, <1>2 DEF BuyOrders
<1>4. bal[CashEscrow] = Opening[CashEscrow] + SumFunctionOnSet(f, BuyOrders)
  BY DEF CashInEscrowExplained
<1>5. Opening[CashEscrow] \in Int
  BY OpeningAssumption, OrderBookAssumption
<1> HIDE DEF f, g
<1>6. SumFunctionOnSet(f, BuyOrders) \in Int /\ IsFiniteSet(BuyOrders)
  BY <1>3, OrdersFinite, SumType
<1>7. SumFunctionOnSet(g, BuyOrders) = SumFunctionOnSet(f, BuyOrders) + (IF r \in BuyOrders THEN g[r] - f[r] ELSE 0)
  <2>1. CASE r \in BuyOrders
    <3>1. \A o \in BuyOrders \ {r} : f[o] = g[o]
      BY <1>2
    <3>2. SumFunctionOnSet(g, BuyOrders) = SumFunctionOnSet(f, BuyOrders) + g[r] - f[r]
      BY <1>3, <1>6, <2>1, <3>1, SumChange
    <3>3. f[r] \in Int /\ g[r] \in Int
      BY <1>3, <2>1
    <3> QED
      BY <1>6, <2>1, <3>2, <3>3
  <2>2. CASE r \notin BuyOrders
    <3>1. \A o \in BuyOrders : f[o] = g[o]
      BY <1>2, <2>2
    <3>2. SumFunctionOnSet(f, BuyOrders) = SumFunctionOnSet(g, BuyOrders)
      BY <1>6, <3>1, SumSame
    <3> QED
      BY <1>6, <2>2, <3>2
  <2> QED
    BY <2>1, <2>2
<1>8. bal'[CashEscrow] = bal[CashEscrow] + (IF r \in BuyOrders THEN g[r] - f[r] ELSE 0)
  BY <1>2
<1>9. bal'[CashEscrow] = Opening[CashEscrow] + SumFunctionOnSet(g, BuyOrders)
  BY <1>3, <1>4, <1>5, <1>6, <1>7, <1>8
<1> QED
  BY <1>9 DEF CashInEscrowExplained, g, BuyOrders

-----------------------------------------------------------------------------
(* What the three journals of the book do to what is in escrow.            *)
Keeps(k) == (Posted(k)' <=> Posted(k)) /\ (Posted(k) => journals'[k] = journals[k])

LEMMA DrawnKeeps ==
  ASSUME NEW p, Keeps(Fk(p[1], p[2]))
  PROVE  Drawn(p)' = Drawn(p)
BY DEF Keeps, Drawn, Fk

LEMMA FilledKeeps ==
  ASSUME NEW o, \A p \in Pairs : Keeps(Fk(p[1], p[2]))
  PROVE  FilledOf(o)' = FilledOf(o)
<1>1. \A p \in Pairs : Drawn(p)' = Drawn(p)
  BY DrawnKeeps
<1>2. [p \in Pairs |-> Drawn(p)'] = [p \in Pairs |-> Drawn(p)]
  BY <1>1
<1> QED
  BY <1>2 DEF FilledOf, Pairs

LEMMA GivenBackKeeps ==
  ASSUME NEW o, Keeps(Uk(o))
  PROVE  GivenBack(o)' = GivenBack(o)
BY DEF Keeps, GivenBack, Uk

LEMMA InEscrowKeeps ==
  ASSUME NEW o, \A p \in Pairs : Keeps(Fk(p[1], p[2])), Keeps(Uk(o)), Keeps(Ek(o))
  PROVE  InEscrow(o)' = InEscrow(o)
BY FilledKeeps, GivenBackKeeps DEF InEscrow, Keeps, Ek

LEMMA PostsOnly ==
  ASSUME LedgerTypeOK, NEW key, NEW d \in Effects, PostJournal(key, d)
  PROVE  /\ \A k : k # key \/ Posted(key) => Keeps(k)
         /\ LedgerTypeOK' /\ Posted(key)'
         /\ ~Posted(key) => journals'[key] = d
<1>1. /\ LedgerTypeOK' /\ Posted(key)'
      /\ ~Posted(key) => journals'[key] = d
      /\ \A j : Posted(j) => Posted(j)' /\ journals'[j] = journals[j]
      /\ \A j : Posted(j)' => Posted(j) \/ j = key
  BY PostKeeps
<1> QED
  BY <1>1 DEF Keeps

LEMMA EscrowPosts ==
  ASSUME LedgerTypeOK, NEW o \in BookOrders, PostJournal(Ek(o), IntoEscrow(o, BookQty[o])),
         UnitsExplained, CashInEscrowExplained
  PROVE  /\ \A p \in BookOrders :
              InEscrow(p)' = InEscrow(p) + (IF p = o /\ ~Posted(Ek(o)) THEN BookQty[o] ELSE 0)
         /\ UnitsExplained' /\ CashInEscrowExplained'
<1> DEFINE n == BookQty[o]
           d == IntoEscrow(o, n)
<1>1. /\ n \in Nat /\ Limit[o] \in Nat /\ n * Limit[o] \in Int /\ BookSide[o] \in {"buy", "sell"}
      /\ UnitEscrow \in Accounts /\ CashEscrow \in Accounts /\ UnitEscrow # CashEscrow
      /\ {TraderCash[o], TraderUnits[o]} \subseteq Accounts \ {CashEscrow, UnitEscrow}
  BY OrderBookAssumption
<1>2. d \in Effects
  BY <1>1, BookEffects
<1>3. /\ d[UnitEscrow] = IF BookSide[o] = "sell" THEN n ELSE 0
      /\ d[CashEscrow] = IF BookSide[o] = "buy" THEN n * Limit[o] ELSE 0
  BY <1>1 DEF IntoEscrow, Move
<1>4. /\ \A k : k # Ek(o) \/ Posted(Ek(o)) => Keeps(k)
      /\ LedgerTypeOK' /\ Posted(Ek(o))'
  BY <1>2, PostsOnly
<1>5. \A p \in Pairs : Keeps(Fk(p[1], p[2]))
  BY <1>4, BookKeys DEF Ek
<1>6. \A p \in BookOrders : Keeps(Uk(p)) /\ (p # o => Keeps(Ek(p)))
  BY <1>4, BookKeys DEF Ek, Uk
<1>7. ASSUME NEW p \in BookOrders
      PROVE  InEscrow(p)' = InEscrow(p) + (IF p = o /\ ~Posted(Ek(o)) THEN n ELSE 0)
  <2>1. InEscrow(p) \in Int
    BY InEscrowIs
  <2>2. CASE p # o \/ Posted(Ek(o))
    <3>1. Keeps(Ek(p))
      BY <1>4, <1>6, <2>2
    <3>2. InEscrow(p)' = InEscrow(p)
      BY <1>5, <1>6, <3>1, InEscrowKeeps
    <3> QED
      BY <2>1, <2>2, <3>2
  <2>3. CASE p = o /\ ~Posted(Ek(o))
    <3>1. FilledOf(o)' = FilledOf(o) /\ GivenBack(o)' = GivenBack(o)
      BY <1>5, <1>6, FilledKeeps, GivenBackKeeps
    <3>2. FilledOf(o) \in Int /\ GivenBack(o) \in Int
      BY FilledIs, GivenBackIs
    <3> QED
      BY <1>1, <1>4, <2>3, <3>1, <3>2 DEF InEscrow, Ek
  <2> QED
    BY <2>2, <2>3
<1>8. \A a \in {UnitEscrow, CashEscrow} :
        /\ bal[a] \in Int /\ bal'[a] = IF Posted(Ek(o)) THEN bal[a] ELSE bal[a] + d[a]
  BY <1>1, <1>2, PostMoves
<1>9. InEscrow(o) \in Int
  BY InEscrowIs
<1>10. UnitsExplained'
  <2>1. \A p \in SellOrders \ {o} : InEscrow(p)' = InEscrow(p)
    BY <1>7, InEscrowIs DEF SellOrders
  <2>2. bal'[UnitEscrow] = bal[UnitEscrow]
          + (IF o \in SellOrders THEN InEscrow(o)' - InEscrow(o) ELSE 0)
    BY <1>1, <1>3, <1>7, <1>8, <1>9 DEF SellOrders
  <2> QED
    BY <1>4, <2>1, <2>2, UnitsMove
<1>11. CashInEscrowExplained'
  <2>1. \A p \in BuyOrders \ {o} : InEscrow(p)' = InEscrow(p)
    BY <1>7, InEscrowIs DEF BuyOrders
  <2>2. (InEscrow(o) + n) * Limit[o] = InEscrow(o) * Limit[o] + n * Limit[o] /\ InEscrow(o) * Limit[o] \in Int
    BY <1>1, <1>9
  <2>3. bal'[CashEscrow] = bal[CashEscrow]
          + (IF o \in BuyOrders THEN InEscrow(o)' * Limit[o] - InEscrow(o) * Limit[o] ELSE 0)
    <3>1. CASE o \in BuyOrders /\ ~Posted(Ek(o))
      <4>1. InEscrow(o)' * Limit[o] = InEscrow(o) * Limit[o] + n * Limit[o]
        BY <1>7, <2>2, <3>1
      <4>2. bal'[CashEscrow] = bal[CashEscrow] + n * Limit[o]
        BY <1>1, <1>3, <1>8, <3>1 DEF BuyOrders
      <4> QED
        BY <1>1, <1>8, <2>2, <3>1, <4>1, <4>2
    <3>2. CASE o \notin BuyOrders \/ Posted(Ek(o))
      <4>1. bal'[CashEscrow] = bal[CashEscrow]
        BY <1>1, <1>3, <1>8, <3>2 DEF BuyOrders
      <4>2. Posted(Ek(o)) => InEscrow(o)' = InEscrow(o)
        BY <1>7, <1>9
      <4> QED
        BY <1>8, <2>2, <3>2, <4>1, <4>2
    <3> QED
      BY <3>1, <3>2
  <2> QED
    BY <1>4, <2>1, <2>3, CashMoves
<1> QED
  BY <1>7, <1>10, <1>11

LEMMA RefundPosts ==
  ASSUME LedgerTypeOK, NEW o \in BookOrders, NEW n \in Nat, PostJournal(Uk(o), OutOfEscrow(o, n)),
         UnitsExplained, CashInEscrowExplained
  PROVE  /\ \A p \in BookOrders :
              InEscrow(p)' = InEscrow(p) - (IF p = o /\ ~Posted(Uk(o)) THEN n ELSE 0)
         /\ UnitsExplained' /\ CashInEscrowExplained'
<1> DEFINE d == OutOfEscrow(o, n)
<1>1. /\ Limit[o] \in Nat \ {0} /\ n * Limit[o] \in Int /\ BookSide[o] \in {"buy", "sell"}
      /\ UnitEscrow \in Accounts /\ CashEscrow \in Accounts /\ UnitEscrow # CashEscrow
      /\ {TraderCash[o], TraderUnits[o]} \subseteq Accounts \ {CashEscrow, UnitEscrow}
      /\ BookQty[o] \in Nat
  BY OrderBookAssumption
<1>2. d \in Effects
  BY BookEffects
<1>3. /\ d[UnitEscrow] = IF BookSide[o] = "sell" THEN -n ELSE 0
      /\ d[CashEscrow] = IF BookSide[o] = "buy" THEN -(n * Limit[o]) ELSE 0
  <2>1. CASE BookSide[o] = "sell"
    BY <1>1, <2>1 DEF OutOfEscrow, Move
  <2>2. CASE BookSide[o] = "buy"
    <3>1. d = Move(CashEscrow, TraderCash[o], n * Limit[o])
      BY <2>2 DEF OutOfEscrow
    <3>2. d[UnitEscrow] = 0 /\ d[CashEscrow] = -(n * Limit[o])
      BY <1>1, <3>1 DEF Move
    <3> QED
      BY <2>2, <3>2
  <2> QED
    BY <1>1, <2>1, <2>2
<1>4. /\ \A k : k # Uk(o) \/ Posted(Uk(o)) => Keeps(k)
      /\ LedgerTypeOK' /\ Posted(Uk(o))'
      /\ ~Posted(Uk(o)) => journals'[Uk(o)] = d
  <2> HIDE DEF d
  <2> QED
    BY <1>2, PostsOnly DEF d
<1>5. \A p \in Pairs : Keeps(Fk(p[1], p[2]))
  BY <1>4, BookKeys DEF Uk
<1>6. \A p \in BookOrders : Keeps(Ek(p)) /\ (p # o => Keeps(Uk(p)))
  BY <1>4, BookKeys DEF Ek, Uk
<1>7. ~Posted(Uk(o)) => GivenBack(o) = 0 /\ GivenBack(o)' = n
  <2>1. SUFFICES ASSUME ~Posted(Uk(o)) PROVE GivenBack(o) = 0 /\ GivenBack(o)' = n
    OBVIOUS
  <2>2. (n * Limit[o]) \div Limit[o] = n
    BY <1>1, TimesDiv
  <2>3. GivenBack(o) = 0
    BY <2>1 DEF GivenBack, Uk
  <2>4. CASE BookSide[o] = "sell"
    <3>1. GivenBack(o)' = -d[UnitEscrow]
      BY <1>4, <2>1, <2>4 DEF GivenBack, Uk
    <3> QED
      BY <1>3, <2>3, <2>4, <3>1
  <2>5. CASE BookSide[o] = "buy"
    <3>1. GivenBack(o)' = (-d[CashEscrow]) \div Limit[o]
      BY <1>4, <2>1, <2>5 DEF GivenBack, Uk
    <3>2. -d[CashEscrow] = n * Limit[o]
      BY <1>1, <1>3, <2>5
    <3>3. GivenBack(o)' = (n * Limit[o]) \div Limit[o]
      <4> HIDE DEF d
      <4> QED
        BY <3>1, <3>2
    <3> QED
      BY <2>2, <2>3, <3>3
  <2> QED
    BY <1>1, <2>4, <2>5
<1>8. ASSUME NEW p \in BookOrders
      PROVE  InEscrow(p)' = InEscrow(p) - (IF p = o /\ ~Posted(Uk(o)) THEN n ELSE 0)
  <2>1. InEscrow(p) \in Int
    BY InEscrowIs
  <2>2. CASE p # o \/ Posted(Uk(o))
    <3>1. Keeps(Uk(p))
      BY <1>4, <1>6, <2>2
    <3>2. InEscrow(p)' = InEscrow(p)
      BY <1>5, <1>6, <3>1, InEscrowKeeps
    <3> QED
      BY <2>1, <2>2, <3>2
  <2>3. CASE p = o /\ ~Posted(Uk(o))
    <3>1. FilledOf(o)' = FilledOf(o) /\ GivenBack(o)' = n /\ GivenBack(o) = 0
      BY <1>5, <1>7, <2>3, FilledKeeps
    <3>2. FilledOf(o) \in Int
      BY FilledIs
    <3>3. Posted(Ek(o))' <=> Posted(Ek(o))
      BY <1>6 DEF Keeps
    <3> QED
      BY <1>1, <2>3, <3>1, <3>2, <3>3 DEF InEscrow, Ek
  <2> QED
    BY <2>2, <2>3
<1>9. \A a \in {UnitEscrow, CashEscrow} :
        /\ bal[a] \in Int /\ bal'[a] = IF Posted(Uk(o)) THEN bal[a] ELSE bal[a] + d[a]
  BY <1>1, <1>2, PostMoves
<1>10. InEscrow(o) \in Int
  BY InEscrowIs
<1> HIDE DEF d
<1>11. UnitsExplained'
  <2>1. \A p \in SellOrders \ {o} : InEscrow(p)' = InEscrow(p)
    BY <1>8, InEscrowIs DEF SellOrders
  <2>2. bal'[UnitEscrow] = bal[UnitEscrow]
          + (IF o \in SellOrders THEN InEscrow(o)' - InEscrow(o) ELSE 0)
    BY <1>1, <1>3, <1>8, <1>9, <1>10 DEF SellOrders
  <2> QED
    BY <1>4, <2>1, <2>2, UnitsMove
<1>12. CashInEscrowExplained'
  <2>1. \A p \in BuyOrders \ {o} : InEscrow(p)' = InEscrow(p)
    BY <1>8, InEscrowIs DEF BuyOrders
  <2>2. (InEscrow(o) - n) * Limit[o] = InEscrow(o) * Limit[o] - n * Limit[o] /\ InEscrow(o) * Limit[o] \in Int
    BY <1>1, <1>10
  <2>3. bal'[CashEscrow] = bal[CashEscrow]
          + (IF o \in BuyOrders THEN InEscrow(o)' * Limit[o] - InEscrow(o) * Limit[o] ELSE 0)
    <3>1. CASE o \in BuyOrders /\ ~Posted(Uk(o))
      <4>1. InEscrow(o)' * Limit[o] = InEscrow(o) * Limit[o] - n * Limit[o]
        BY <1>8, <2>2, <3>1
      <4>2. bal'[CashEscrow] = bal[CashEscrow] - n * Limit[o]
        BY <1>1, <1>3, <1>9, <3>1 DEF BuyOrders
      <4> QED
        BY <1>1, <1>9, <2>2, <3>1, <4>1, <4>2
    <3>2. CASE o \notin BuyOrders \/ Posted(Uk(o))
      <4>1. bal'[CashEscrow] = bal[CashEscrow]
        BY <1>1, <1>3, <1>9, <3>2 DEF BuyOrders
      <4>2. Posted(Uk(o)) => InEscrow(o)' = InEscrow(o)
        BY <1>8, <1>10
      <4> QED
        BY <1>9, <2>2, <3>2, <4>1, <4>2
    <3> QED
      BY <3>1, <3>2
  <2> QED
    BY <1>4, <2>1, <2>3, CashMoves
<1> QED
  BY <1>8, <1>11, <1>12

LEMMA FillPosts ==
  ASSUME LedgerTypeOK, NEW o \in BookOrders, NEW m \in BookOrders, NEW n \in Nat, NEW price \in Int,
         BookSide[m] # BookSide[o], ~Posted(Fk(o, m)),
         PostJournal(Fk(o, m), Fill(Parties(o, m).buy, Parties(o, m).sell, price, n)),
         UnitsExplained, CashInEscrowExplained
  PROVE  /\ \A p \in BookOrders : InEscrow(p)' = InEscrow(p) - (IF p \in {o, m} THEN n ELSE 0)
         /\ UnitsExplained' /\ CashInEscrowExplained'
<1>1. PICK b \in BuyOrders, r \in SellOrders : b = Parties(o, m).buy /\ r = Parties(o, m).sell /\ {b, r} = {o, m}
  BY OrderBookAssumption DEF Parties, BuyOrders, SellOrders
<1>2. PICK d \in Effects : d = Fill(b, r, price, n)
  BY BookEffects DEF BuyOrders, SellOrders
<1>3. /\ Limit[b] \in Nat /\ n * Limit[b] \in Int
      /\ n * price \in Int /\ n * (Limit[b] - price) \in Int
      /\ UnitEscrow \in Accounts /\ CashEscrow \in Accounts /\ UnitEscrow # CashEscrow
      /\ {TraderCash[b], TraderUnits[b]} \subseteq Accounts \ {CashEscrow, UnitEscrow}
      /\ {TraderCash[r], TraderUnits[r]} \subseteq Accounts \ {CashEscrow, UnitEscrow}
  BY OrderBookAssumption DEF BuyOrders, SellOrders
<1>4. d[UnitEscrow] = -n /\ d[CashEscrow] = -(n * Limit[b])
  <2>1. d[UnitEscrow] = -n
    BY <1>2, <1>3 DEF Fill, Both, Move
  <2>2. d[CashEscrow] = -(n * price) - n * (Limit[b] - price)
    BY <1>2, <1>3 DEF Fill, Both, Move
  <2>3. n * price + n * (Limit[b] - price) = n * Limit[b]
    BY <1>3, PriceAndRest
  <2> QED
    BY <1>3, <2>1, <2>2, <2>3
<1>5. /\ \A k : k # Fk(o, m) => Keeps(k)
      /\ LedgerTypeOK' /\ Posted(Fk(o, m))' /\ journals'[Fk(o, m)] = d
  <2>1. PostJournal(Fk(o, m), d)
    BY <1>1, <1>2
  <2> QED
    BY <2>1, PostsOnly
<1>6. PICK q \in Pairs : q = <<o, m>> /\ q[1] = o /\ q[2] = m
  <2>1. <<o, m>> \in Pairs /\ <<o, m>>[1] = o /\ <<o, m>>[2] = m
    BY DEF Pairs
  <2> QED
    BY <2>1
<1>7. Drawn(q) = 0 /\ Drawn(q)' = n
  BY <1>4, <1>5, <1>6 DEF Drawn, Fk
<1>8. \A p \in Pairs \ {q} : Drawn(p)' = Drawn(p)
  <2>1. ASSUME NEW p \in Pairs \ {q} PROVE Drawn(p)' = Drawn(p)
    <3>1. p = <<p[1], p[2]>>
      BY DEF Pairs
    <3>2. Fk(p[1], p[2]) # Fk(o, m)
      BY <1>6, <3>1, BookKeys
    <3>3. Keeps(Fk(p[1], p[2]))
      BY <1>5, <3>2
    <3> QED
      BY <3>3, DrawnKeeps
  <2> QED
    BY <2>1
<1>9. ASSUME NEW p \in BookOrders
      PROVE  InEscrow(p)' = InEscrow(p) - (IF p \in {o, m} THEN n ELSE 0)
  <2>1. FilledOf(p)' = FilledOf(p) + (IF p \in {q[1], q[2]} THEN Drawn(q)' - Drawn(q) ELSE 0)
    BY <1>5, <1>8, FilledChanges
  <2>2. FilledOf(p)' = FilledOf(p) + (IF p \in {o, m} THEN n ELSE 0)
    BY <1>6, <1>7, <2>1
  <2>3. GivenBack(p)' = GivenBack(p) /\ (Posted(Ek(p))' <=> Posted(Ek(p)))
    <3>1. Keeps(Uk(p)) /\ Keeps(Ek(p))
      BY <1>5, BookKeys DEF Uk, Ek
    <3> QED
      BY <3>1, GivenBackKeeps DEF Keeps
  <2>4. FilledOf(p) \in Int /\ GivenBack(p) \in Int /\ BookQty[p] \in Int
    BY FilledIs, GivenBackIs, OrderBookAssumption
  <2> QED
    BY <2>2, <2>3, <2>4 DEF InEscrow, Ek
<1>10. /\ bal[UnitEscrow] \in Int /\ bal'[UnitEscrow] = bal[UnitEscrow] + d[UnitEscrow]
       /\ bal[CashEscrow] \in Int /\ bal'[CashEscrow] = bal[CashEscrow] + d[CashEscrow]
  BY <1>1, <1>2, <1>3, PostMoves
<1>11. b \in BookOrders /\ r \in BookOrders /\ b \notin SellOrders /\ r \notin BuyOrders
  BY DEF BuyOrders, SellOrders
<1>12. InEscrow(b) \in Int /\ InEscrow(r) \in Int
  BY <1>11, InEscrowIs
<1>13. InEscrow(b)' = InEscrow(b) - n /\ InEscrow(r)' = InEscrow(r) - n
  BY <1>1, <1>9, <1>11
<1>14. UnitsExplained'
  <2>1. ASSUME NEW p \in SellOrders \ {r} PROVE InEscrow(p)' = InEscrow(p)
    <3>1. p \in BookOrders /\ p \notin {o, m}
      BY <1>1, <1>11 DEF SellOrders
    <3>2. InEscrow(p) \in Int
      BY <3>1, InEscrowIs
    <3> QED
      BY <1>9, <3>1, <3>2
  <2>2. bal'[UnitEscrow] = bal[UnitEscrow]
          + (IF r \in SellOrders THEN InEscrow(r)' - InEscrow(r) ELSE 0)
    BY <1>4, <1>10, <1>12, <1>13
  <2> QED
    BY <1>5, <1>11, <2>1, <2>2, UnitsMove
<1>15. CashInEscrowExplained'
  <2>1. ASSUME NEW p \in BuyOrders \ {b} PROVE InEscrow(p)' = InEscrow(p)
    <3>1. p \in BookOrders /\ p \notin {o, m}
      BY <1>1, <1>11 DEF BuyOrders
    <3>2. InEscrow(p) \in Int
      BY <3>1, InEscrowIs
    <3> QED
      BY <1>9, <3>1, <3>2
  <2>2. (InEscrow(b) - n) * Limit[b] = InEscrow(b) * Limit[b] - n * Limit[b] /\ InEscrow(b) * Limit[b] \in Int
    BY <1>3, <1>12
  <2>3. InEscrow(b)' * Limit[b] = InEscrow(b) * Limit[b] - n * Limit[b]
    BY <1>13, <2>2
  <2>4. bal'[CashEscrow] = bal[CashEscrow]
          + (IF b \in BuyOrders THEN InEscrow(b)' * Limit[b] - InEscrow(b) * Limit[b] ELSE 0)
    BY <1>3, <1>4, <1>10, <2>2, <2>3
  <2> QED
    BY <1>5, <1>11, <2>1, <2>4, CashMoves
<1> QED
  BY <1>9, <1>14, <1>15
-----------------------------------------------------------------------------
(* What an order has in escrow while one request at most has it in hand.   *)
Here(c, op, A) == c.op = op /\ c.at \in A

Sole(s, o) == \A t \in Slots \ {s} : o \notin InHand(call[t])

(* By c, if it is c that has the order in hand.                            *)
Remains(c, o) ==
  IF o \notin InHand(c) THEN OpenLeft(o)
  ELSE IF Here(c, "place", {"insert"}) /\ o = c.row THEN BookQty[o]
  ELSE IF Here(c, "place", {"fill"}) /\ o = c.row THEN c.saw.left
  ELSE IF Here(c, "place", {"trade", "advance"}) /\ o = c.row THEN c.saw.left - Qty(c)
  ELSE IF Here(c, "place", {"trade", "advance"}) /\ o = Pick(c).id THEN Pick(c).left - Qty(c)
  ELSE IF Here(c, "unplace", {"mark"}) /\ o = c.row THEN 0
  ELSE OpenLeft(o)

KeysAreRows(c, o) ==
  /\ Posted(Ek(o)) => book[o].status # "none" \/ (Here(c, "place", {"insert"}) /\ o = c.row)
  /\ Posted(Uk(o)) => book[o].status = "cancelled" \/ (Here(c, "unplace", {"mark"}) /\ o = c.row)

(* What c read of the order is still so.                                   *)
ReadIsFresh(c, o) ==
  /\ o = c.row =>
       /\ Here(c, "place", {"escrow", "insert"}) => book[o].status = "none"
       /\ Matching(c) => book[o].status = "open"
       /\ c.op = "unplace" => book[o].status = "open" /\ book[o].left = c.saw.left
  /\ Here(c, "place", {"fill", "trade", "advance"}) =>
       \A m \in c.saw.makers : m.id = o => book[o].status = "open" /\ book[o].left = m.left

Accounted(c, o) == InEscrow(o) = Remains(c, o) /\ KeysAreRows(c, o) /\ ReadIsFresh(c, o)

AtRest(o) ==
  /\ InEscrow(o) = OpenLeft(o)
  /\ Posted(Ek(o)) => book[o].status # "none"
  /\ Posted(Uk(o)) => book[o].status = "cancelled"

HandsInv == \A o \in BookOrders \ contested : \E s \in Slots : Sole(s, o) /\ Accounted(call[s], o)

EscrowInv == BookInv /\ UnitsExplained /\ CashInEscrowExplained /\ HandsInv

LEMMA HandHas ==
  ASSUME NEW c \in BookRequests
  PROVE  /\ c.op \in {"place", "unplace"} => c.row \in InHand(c)
         /\ Here(c, "place", {"fill", "trade", "advance"}) =>
              InHand(c) = {c.row} \cup {m.id : m \in c.saw.makers}
         /\ c.op \in {"place", "unplace"} /\ ~Here(c, "place", {"fill", "trade", "advance"}) =>
              InHand(c) = {c.row}
         /\ c.op = "idle" => InHand(c) = {}
<1>1. Idle.op = "idle"
  BY RequestHas DEF Idle
<1>2. c.op = "idle" => c = Idle
  BY BookCallHas
<1>3. c.op = "unplace" => c.at \notin {"fill", "trade", "advance"}
  BY BookCallHas
<1> QED
  BY <1>1, <1>2, <1>3 DEF InHand, Here

LEMMA IdleHas == Idle \in BookRequests /\ Idle.op = "idle" /\ InHand(Idle) = {} /\ ~Matching(Idle)
BY RequestHas DEF BookRequests, InHand, Idle, Matching

(* An order that a request has not in hand is nothing to it.               *)
LEMMA RestIs ==
  ASSUME NEW c \in BookRequests, NEW o, o \notin InHand(c)
  PROVE  /\ Accounted(c, o) <=> AtRest(o)
         /\ Accounted(c, o)' <=> AtRest(o)'
<1>1. c.op \in {"place", "unplace"} => o # c.row
  BY HandHas
<1>2. Here(c, "place", {"fill", "trade", "advance"}) => \A m \in c.saw.makers : m.id # o
  BY HandHas
<1>3. Matching(c) => c.op = "place"
  BY DEF Matching
<1>4. ReadIsFresh(c, o) /\ ReadIsFresh(c, o)'
  BY <1>1, <1>2, <1>3 DEF ReadIsFresh, Here
<1>5. KeysAreRows(c, o) <=> /\ Posted(Ek(o)) => book[o].status # "none"
                            /\ Posted(Uk(o)) => book[o].status = "cancelled"
  BY <1>1 DEF KeysAreRows, Here
<1>6. KeysAreRows(c, o)' <=> /\ Posted(Ek(o))' => book'[o].status # "none"
                             /\ Posted(Uk(o))' => book'[o].status = "cancelled"
  BY <1>1 DEF KeysAreRows, Here
<1>7. Remains(c, o) = OpenLeft(o) /\ Remains(c, o)' = OpenLeft(o)'
  BY DEF Remains
<1> QED
  BY <1>4, <1>5, <1>6, <1>7 DEF Accounted, AtRest

(* An uncontested order is accounted for by whoever has it in hand alone.  *)
LEMMA Held ==
  ASSUME BookInv, HandsInv, NEW o \in BookOrders \ contested, NEW s \in Slots
  PROVE  /\ o \in InHand(call[s]) => Sole(s, o)
         /\ Sole(s, o) => Accounted(call[s], o)
<1>1. PICK u \in Slots : Sole(u, o) /\ Accounted(call[u], o)
  BY DEF HandsInv
<1>2. CASE u = s
  BY <1>1, <1>2
<1>3. CASE u # s
  <2>1. o \notin InHand(call[s])
    BY <1>1, <1>3 DEF Sole
  <2>2. ASSUME Sole(s, o) PROVE Accounted(call[s], o)
    <3>1. PICK c \in BookRequests, d \in BookRequests : c = call[s] /\ d = call[u]
      BY BookCallIs
    <3>2. o \notin InHand(d) /\ o \notin InHand(c)
      BY <1>3, <2>1, <2>2, <3>1 DEF Sole
    <3>3. AtRest(o)
      BY <1>1, <3>1, <3>2, RestIs
    <3> QED
      BY <3>1, <3>2, <3>3, RestIs
  <2> QED
    BY <2>1, <2>2
<1> QED
  BY <1>2, <1>3

(* What a step leaves of an order that it has nothing to do with.          *)
Same(o) ==
  /\ book'[o] = book[o]
  /\ Keeps(Ek(o)) /\ Keeps(Uk(o))
  /\ InEscrow(o)' = InEscrow(o)

LEMMA RestStays ==
  ASSUME NEW o, Same(o), AtRest(o)
  PROVE  AtRest(o)'
BY DEF Same, AtRest, Keeps, OpenLeft

LEMMA AccountedOn ==
  ASSUME BookInv, PlacedGrows, NEW c \in BookRequests, BookCall(c), NEW o \in BookOrders,
         Same(o), Accounted(c, o)
  PROVE  Accounted(c, o)'
<1>1. Here(c, "place", {"trade", "advance"}) => Pick(c)' = Pick(c) /\ Qty(c)' = Qty(c)
  <2>1. SUFFICES ASSUME Here(c, "place", {"trade", "advance"})
                 PROVE  Pick(c)' = Pick(c) /\ Qty(c)' = Qty(c)
    OBVIOUS
  <2>2. c.saw \in BookViews /\ TakerKnows(c)
    BY <2>1, BookCallHas DEF BookCall, Matching, Here
  <2>3. c.saw.makers \in SUBSET Quotes
    BY <2>2 DEF BookViews
  <2>4. Pick(c)' = Pick(c)
    BY <2>2, <2>3, BestStays DEF Pick, TakerKnows, BookInv
  <2> QED
    BY <2>4 DEF Qty
<1>2. Remains(c, o)' = Remains(c, o)
  BY <1>1 DEF Remains, OpenLeft, Same, Here
<1>3. KeysAreRows(c, o)' /\ ReadIsFresh(c, o)'
  BY DEF Accounted, KeysAreRows, ReadIsFresh, Same, Keeps, Here, Matching
<1> QED
  BY <1>2, <1>3 DEF Accounted, Same

(* What a step of s, whose request becomes c, has to see to.               *)
Minds(s, c, o) ==
  /\ o \in InHand(c) => o \in InHand(call[s]) \/ Sole(s, o)
  /\ IF o \in InHand(call[s]) \cup InHand(c)
       THEN Accounted(call[s], o) => Accounted(c, o)'
       ELSE Same(o)

LEMMA HandsMoved ==
  ASSUME BookInv, HandsInv, NEW s \in Slots, NEW c \in BookRequests, Becomes(s, c), PlacedGrows,
         contested \subseteq contested', \A o \in BookOrders \ contested' : Minds(s, c, o)
  PROVE  HandsInv'
<1>1. call'[s] = c /\ \A t \in Slots \ {s} : call'[t] = call[t]
  BY BecomesOne DEF BookInv, BookTypeOK
<1>2. ASSUME NEW o \in BookOrders \ contested'
      PROVE  \E u \in Slots : Sole(u, o)' /\ Accounted(call[u], o)'
  <2>1. o \in BookOrders \ contested /\ Minds(s, c, o)
    BY <1>2
  <2>2. CASE o \in InHand(call[s]) \cup InHand(c)
    <3>1. Sole(s, o)
      BY <2>1, <2>2, Held DEF Minds
    <3>2. Accounted(c, o)'
      BY <2>1, <2>2, <3>1, Held DEF Minds
    <3>3. Sole(s, o)'
      BY <1>1, <3>1 DEF Sole
    <3> QED
      BY <1>1, <3>2, <3>3
  <2>3. CASE o \notin InHand(call[s]) \cup InHand(c)
    <3>1. Same(o) /\ o \notin InHand(c) /\ o \notin InHand(call[s])
      BY <2>1, <2>3 DEF Minds
    <3>2. ASSUME NEW u \in Slots \ {s}, o \in InHand(call[u])
          PROVE  Sole(u, o)' /\ Accounted(call[u], o)'
      <4>1. PICK d \in BookRequests : d = call[u] /\ BookCall(d) /\ call'[u] = d
        BY <1>1, BookCallIs
      <4>2. Sole(u, o) /\ Accounted(d, o)
        BY <2>1, <3>2, <4>1, Held
      <4>3. Accounted(d, o)'
        BY <3>1, <4>1, <4>2, AccountedOn
      <4>4. Sole(u, o)'
        BY <1>1, <3>1, <4>2 DEF Sole
      <4> QED
        BY <4>1, <4>3, <4>4
    <3>3. ASSUME Sole(s, o) PROVE Sole(s, o)' /\ Accounted(call[s], o)'
      <4>1. PICK d \in BookRequests : d = call[s]
        BY BookCallIs
      <4>2. AtRest(o)
        BY <2>1, <3>1, <3>3, <4>1, Held, RestIs
      <4>3. Accounted(c, o)'
        BY <3>1, <4>2, RestStays, RestIs
      <4> QED
        BY <1>1, <3>3, <4>3 DEF Sole
    <3> QED
      BY <3>2, <3>3 DEF Sole
  <2> QED
    BY <2>2, <2>3
<1> QED
  BY <1>2 DEF HandsInv

LEMMA TakesAre ==
  ASSUME NEW s \in Slots, NEW O, Takes(s, O)
  PROVE  contested \subseteq contested' /\ \A o \in O \ contested' : Sole(s, o)
BY DEF Takes, Sole

LEMMA Stays ==
  ASSUME LedgerTypeOK, UNCHANGED ledgerVars, UnitsExplained, CashInEscrowExplained
  PROVE  /\ LedgerTypeOK' /\ \A k : Keeps(k)
         /\ \A o : InEscrow(o)' = InEscrow(o)
         /\ UnitsExplained' /\ CashInEscrowExplained'
<1>1. LedgerTypeOK' /\ \A k : Keeps(k)
  BY DEF LedgerTypeOK, Keeps, Posted, ledgerVars
<1>2. \A o : InEscrow(o)' = InEscrow(o)
  BY <1>1, InEscrowKeeps
<1>3. UnitsExplained' /\ CashInEscrowExplained'
  BY <1>2 DEF UnitsExplained, CashInEscrowExplained, ledgerVars, SellOrders, BuyOrders
<1> QED
  BY <1>1, <1>2, <1>3

(* A step that posts nothing.                                              *)
LEMMA EscrowQuietStep ==
  ASSUME EscrowInv, BookInv', UNCHANGED ledgerVars, PlacedGrows, contested \subseteq contested',
         NEW s \in Slots, NEW c \in BookRequests, Becomes(s, c),
         (\A k : Keeps(k)) /\ (\A o : InEscrow(o)' = InEscrow(o))
           => \A o \in BookOrders \ contested' : Minds(s, c, o)
  PROVE  EscrowInv'
<1>1. BookInv /\ LedgerTypeOK
  BY DEF EscrowInv, BookInv, BookTypeOK
<1>2. /\ UnitsExplained' /\ CashInEscrowExplained'
      /\ (\A k : Keeps(k)) /\ \A o : InEscrow(o)' = InEscrow(o)
  BY <1>1, Stays DEF EscrowInv
<1>3. \A o \in BookOrders \ contested' : Minds(s, c, o)
  BY <1>2
<1>4. HandsInv'
  BY <1>1, <1>3, HandsMoved DEF EscrowInv
<1> QED
  BY <1>2, <1>4 DEF EscrowInv

(* A request takes its order in hand.                                      *)
LEMMA EscrowPlaceCall ==
  ASSUME EscrowInv, NEW s \in Slots, NEW o \in BookOrders, PlaceCall(s, o)
  PROVE  EscrowInv'
<1>1. /\ UNCHANGED ledgerVars /\ book' = book /\ placed' = placed /\ book[o].status = "none"
      /\ call[s] = Idle /\ Becomes(s, Request("place", "escrow", o, None)) /\ Takes(s, {o})
  BY DEF PlaceCall, Begin, Becomes, ledgerVars
<1>2. BookInv' /\ PlacedGrows
  BY <1>1, BookPlaceCall DEF EscrowInv, PlacedGrows
<1>3. PICK c \in BookRequests : c = Request("place", "escrow", o, None)
  BY PlaceRequest
<1>4. /\ c.op = "place" /\ c.at = "escrow" /\ c.row = o /\ ~Matching(c) /\ Becomes(s, c)
      /\ InHand(c) = {o}
  BY <1>1, <1>3, RequestHas, HandHas DEF Matching, Here
<1>5. contested \subseteq contested' /\ (o \notin contested' => Sole(s, o))
  BY <1>1, TakesAre
<1>6. ASSUME \A k : Keeps(k), \A p : InEscrow(p)' = InEscrow(p), NEW p \in BookOrders \ contested'
      PROVE  Minds(s, c, p)
  <2>1. CASE p = o
    <3>1. ASSUME Accounted(Idle, o) PROVE Accounted(c, o)'
      <4>1. AtRest(o)
        BY <3>1, IdleHas, RestIs
      <4>2. Remains(c, o)' = OpenLeft(o)
        BY <1>1, <1>4 DEF Remains, Here, OpenLeft
      <4>3. KeysAreRows(c, o)'
        BY <1>1, <1>6, <4>1 DEF AtRest, KeysAreRows, Keeps
      <4>4. ReadIsFresh(c, o)'
        BY <1>1, <1>4 DEF ReadIsFresh, Here
      <4> QED
        BY <1>6, <4>1, <4>2, <4>3, <4>4 DEF Accounted, AtRest
    <3> QED
      BY <1>1, <1>4, <1>5, <2>1, <3>1 DEF Minds
  <2>2. CASE p # o
    BY <1>1, <1>4, <1>6, <2>2, IdleHas DEF Minds, Same
  <2> QED
    BY <2>1, <2>2
<1> QED
  BY <1>1, <1>2, <1>4, <1>5, <1>6, EscrowQuietStep

LEMMA EscrowCancelBook ==
  ASSUME EscrowInv, NEW s \in Slots, NEW o \in BookOrders, CancelBook(s, o)
  PROVE  EscrowInv'
<1>1. /\ UNCHANGED ledgerVars /\ book' = book /\ placed' = placed /\ book[o].status = "open"
      /\ call[s] = Idle /\ Becomes(s, Request("unplace", "refund", o, View({}, book[o].left)))
      /\ Takes(s, {o})
  BY DEF CancelBook, Begin, Becomes, ledgerVars
<1>2. BookInv' /\ PlacedGrows
  BY <1>1, BookCancelBook DEF EscrowInv, PlacedGrows
<1>3. PICK v \in BookViews : v = View({}, book[o].left) /\ v.left = book[o].left
  <2>1. book[o].left \in Nat
    BY DEF EscrowInv, BookInv, BookTypeOK, BookRows
  <2>2. \A n \in Nat : View({}, n) \in BookViews /\ View({}, n).left = n
    BY DEF View, BookViews
  <2> QED
    BY <2>1, <2>2
<1>4. PICK c \in BookRequests : c = Request("unplace", "refund", o, v)
  BY CancelRequest
<1>5. /\ c.op = "unplace" /\ c.at = "refund" /\ c.row = o /\ c.saw = v /\ ~Matching(c)
      /\ Becomes(s, c) /\ InHand(c) = {o}
  BY <1>1, <1>3, <1>4, RequestHas, HandHas DEF Matching, Here
<1>6. contested \subseteq contested' /\ (o \notin contested' => Sole(s, o))
  BY <1>1, TakesAre
<1>7. ASSUME \A k : Keeps(k), \A p : InEscrow(p)' = InEscrow(p), NEW p \in BookOrders \ contested'
      PROVE  Minds(s, c, p)
  <2>1. CASE p = o
    <3>1. ASSUME Accounted(Idle, o) PROVE Accounted(c, o)'
      <4>1. AtRest(o)
        BY <3>1, IdleHas, RestIs
      <4>2. Remains(c, o)' = OpenLeft(o)
        BY <1>1, <1>5 DEF Remains, Here, OpenLeft
      <4>3. KeysAreRows(c, o)'
        BY <1>1, <1>7, <4>1 DEF AtRest, KeysAreRows, Keeps
      <4>4. ReadIsFresh(c, o)'
        BY <1>1, <1>3, <1>5 DEF ReadIsFresh, Here
      <4> QED
        BY <1>7, <4>1, <4>2, <4>3, <4>4 DEF Accounted, AtRest
    <3> QED
      BY <1>1, <1>5, <1>6, <2>1, <3>1 DEF Minds
  <2>2. CASE p # o
    BY <1>1, <1>5, <1>7, <2>2, IdleHas DEF Minds, Same
  <2> QED
    BY <2>1, <2>2
<1> QED
  BY <1>1, <1>2, <1>5, <1>6, <1>7, EscrowQuietStep

LEMMA EscrowPlaceEscrow ==
  ASSUME EscrowInv, NEW s \in Slots, PlaceEscrow(s)
  PROVE  EscrowInv'
<1>1. /\ book' = book /\ placed' = placed /\ contested' = contested
      /\ call[s].op = "place" /\ call[s].at = "escrow"
      /\ PostJournal(Ek(call[s].row), IntoEscrow(call[s].row, BookQty[call[s].row]))
      /\ Goto(s, "insert")
  BY DEF PlaceEscrow, At, Ek
<1>2. BookInv /\ LedgerTypeOK /\ BookInv' /\ PlacedGrows
  BY <1>1, BookPlaceEscrow DEF EscrowInv, BookInv, BookTypeOK, PlacedGrows
<1>3. PICK o \in BookOrders : call[s].row = o /\ call[s].saw = None
  BY <1>1, <1>2, BookCallIs DEF BookRequests, Requests, Idle, Request
<1>4. /\ UnitsExplained' /\ CashInEscrowExplained'
      /\ \A p \in BookOrders :
           InEscrow(p)' = InEscrow(p) + (IF p = o /\ ~Posted(Ek(o)) THEN BookQty[o] ELSE 0)
  BY <1>1, <1>2, <1>3, EscrowPosts DEF EscrowInv
<1>5. \A k : k # Ek(o) => Keeps(k)
  BY <1>1, <1>2, <1>3, PostsOnly, BookEffects, OrderBookAssumption
<1>6. \A p \in BookOrders : Keeps(Uk(p)) /\ (p # o => Keeps(Ek(p)))
  BY <1>5, BookKeys DEF Ek, Uk
<1>7. PICK c \in BookRequests : c = Request("place", "insert", o, None)
  BY PlaceRequest
<1>8. /\ c.op = "place" /\ c.at = "insert" /\ c.row = o /\ ~Matching(c) /\ Becomes(s, c)
      /\ InHand(c) = {o}
  BY <1>1, <1>2, <1>3, <1>7, BookGoto, RequestHas, HandHas DEF Matching, Here
<1>9. PICK d \in BookRequests : d = call[s] /\ InHand(d) = {o}
  BY <1>1, <1>2, <1>3, BookCallIs, HandHas DEF Here
<1>10. ASSUME NEW p \in BookOrders PROVE Minds(s, c, p)
  <2>1. CASE p = o
    <3>1. ASSUME Accounted(d, o) PROVE Accounted(c, o)'
      <4>1. book[o].status = "none" /\ ~Posted(Ek(o)) /\ InEscrow(o) = 0
        BY <1>1, <1>3, <1>9, <3>1 DEF Accounted, ReadIsFresh, KeysAreRows, Remains, Here, OpenLeft
      <4>2. InEscrow(o)' = BookQty[o]
        BY <1>4, <4>1, OrderBookAssumption
      <4>3. KeysAreRows(c, o)'
        BY <1>1, <1>3, <1>6, <1>8, <1>9, <3>1 DEF Accounted, KeysAreRows, Keeps, Here
      <4>4. ReadIsFresh(c, o)'
        BY <1>1, <1>8, <4>1 DEF ReadIsFresh, Here
      <4> QED
        BY <1>8, <4>2, <4>3, <4>4 DEF Accounted, Remains, Here
    <3> QED
      BY <1>8, <1>9, <2>1, <3>1 DEF Minds
  <2>2. CASE p # o
    BY <1>1, <1>2, <1>4, <1>6, <1>8, <1>9, <2>2, InEscrowIs DEF Minds, Same
  <2> QED
    BY <2>1, <2>2
<1> QED
  BY <1>1, <1>2, <1>4, <1>8, <1>10, HandsMoved DEF EscrowInv

LEMMA EscrowCancelRefund ==
  ASSUME EscrowInv, NEW s \in Slots, CancelRefund(s)
  PROVE  EscrowInv'
<1>1. /\ book' = book /\ placed' = placed /\ contested' = contested
      /\ call[s].op = "unplace" /\ call[s].at = "refund" /\ Goto(s, "mark")
      /\ IF call[s].saw.left > 0
           THEN PostJournal(Uk(call[s].row), OutOfEscrow(call[s].row, call[s].saw.left))
           ELSE UNCHANGED ledgerVars
  BY DEF CancelRefund, At, RefundLeft, Uk
<1>2. BookInv /\ LedgerTypeOK /\ BookInv' /\ PlacedGrows
  BY <1>1, BookCancelRefund DEF EscrowInv, BookInv, BookTypeOK, PlacedGrows
<1>3. PICK d \in BookRequests : d = call[s]
  BY <1>2, BookCallIs
<1>4. PICK o \in BookOrders, n \in Nat : o = d.row /\ n = d.saw.left /\ d.saw \in BookViews
  BY <1>1, <1>3, BookCallHas DEF BookViews
<1>5. PICK c \in BookRequests : c = Request("unplace", "mark", o, d.saw)
  BY <1>4, CancelRequest
<1>6. /\ c.op = "unplace" /\ c.at = "mark" /\ c.row = o /\ c.saw = d.saw /\ ~Matching(c)
      /\ Becomes(s, c) /\ InHand(c) = {o}
  BY <1>1, <1>2, <1>3, <1>4, <1>5, BookGoto, RequestHas, HandHas DEF Matching, Here
<1>7. d.op = "unplace" /\ d.at = "refund" /\ ~Matching(d) /\ InHand(d) = {o}
  BY <1>1, <1>3, <1>4, HandHas DEF Matching, Here
<1>8. /\ UnitsExplained' /\ CashInEscrowExplained'
      /\ \A p \in BookOrders : p # o => InEscrow(p)' = InEscrow(p)
      /\ \A p \in BookOrders : Keeps(Ek(p)) /\ (p # o => Keeps(Uk(p)))
      /\ n > 0 /\ ~Posted(Uk(o)) => InEscrow(o)' = InEscrow(o) - n
  <2>1. CASE n > 0
    <3>1. PostJournal(Uk(o), OutOfEscrow(o, n))
      BY <1>1, <1>3, <1>4, <2>1
    <3>2. /\ UnitsExplained' /\ CashInEscrowExplained'
          /\ \A p \in BookOrders :
               InEscrow(p)' = InEscrow(p) - (IF p = o /\ ~Posted(Uk(o)) THEN n ELSE 0)
      BY <1>2, <3>1, RefundPosts DEF EscrowInv
    <3>3. \A k : k # Uk(o) => Keeps(k)
      BY <1>2, <3>1, PostsOnly, BookEffects
    <3>4. \A p \in BookOrders : Keeps(Ek(p)) /\ (p # o => Keeps(Uk(p)))
      BY <3>3, BookKeys DEF Ek, Uk
    <3> QED
      BY <1>2, <3>2, <3>4, InEscrowIs
  <2>2. CASE ~(n > 0)
    BY <1>1, <1>2, <1>3, <1>4, <2>2, Stays DEF EscrowInv
  <2> QED
    BY <2>1, <2>2
<1>9. ASSUME NEW p \in BookOrders PROVE Minds(s, c, p)
  <2>1. CASE p = o
    <3>1. ASSUME Accounted(d, o) PROVE Accounted(c, o)'
      <4>1. book[o].status = "open" /\ book[o].left = n
        BY <1>4, <1>7, <3>1 DEF Accounted, ReadIsFresh
      <4>2. n > 0
        BY <1>2, <4>1 DEF BookInv, RowsSound, BookRow
      <4>3. ~Posted(Uk(o)) /\ InEscrow(o) = n
        BY <1>4, <1>7, <3>1, <4>1 DEF Accounted, KeysAreRows, Remains, Here, OpenLeft
      <4>4. InEscrow(o)' = 0
        BY <1>8, <4>2, <4>3
      <4>5. KeysAreRows(c, o)'
        BY <1>1, <1>6, <1>8, <4>1 DEF KeysAreRows, Keeps, Here
      <4>6. ReadIsFresh(c, o)'
        BY <1>1, <1>4, <1>6, <4>1 DEF ReadIsFresh, Here
      <4> QED
        BY <1>6, <4>4, <4>5, <4>6 DEF Accounted, Remains, Here
    <3> QED
      BY <1>3, <1>6, <1>7, <2>1, <3>1 DEF Minds
  <2>2. CASE p # o
    BY <1>1, <1>3, <1>6, <1>7, <1>8, <2>2 DEF Minds, Same
  <2> QED
    BY <2>1, <2>2
<1> QED
  BY <1>1, <1>2, <1>6, <1>8, <1>9, HandsMoved DEF EscrowInv

LEMMA EscrowBookDies ==
  ASSUME EscrowInv, NEW s \in Slots, BookDies(s)
  PROVE  EscrowInv'
<1>1. /\ UNCHANGED ledgerVars /\ book' = book /\ placed' = placed
      /\ contested' = contested \cup HalfDone(s) /\ Becomes(s, Idle)
  BY DEF BookDies, Dies, Leave, Becomes
<1>2. BookInv' /\ BookInv /\ PlacedGrows
  BY <1>1, BookBookDies DEF EscrowInv, PlacedGrows
<1>3. PICK d \in BookRequests : d = call[s]
  BY <1>2, BookCallIs
<1>4. PICK c \in BookRequests : c = Idle /\ InHand(c) = {}
  BY IdleHas
<1>5. ASSUME \A k : Keeps(k), \A p : InEscrow(p)' = InEscrow(p), NEW p \in BookOrders \ contested'
      PROVE  Minds(s, c, p)
  <2>1. p \notin HalfDone(s)
    BY <1>1
  <2>2. ASSUME Accounted(d, p) PROVE AtRest(p)
    <3>1. CASE p \notin InHand(d)
      BY <2>2, <3>1, RestIs
    <3>2. CASE p \in InHand(d)
      <4>1. d.op \in {"place", "unplace"}
        BY <3>2, HandHas DEF BookRequests, Requests, Idle, Request
      <4>2. ~(d.at \in {"insert", "fill", "mark"} /\ p = d.row)
        BY <1>3, <2>1 DEF HalfDone
      <4>3. ~(d.at \in {"trade", "advance"} /\ p \in {d.row, Pick(d).id})
        BY <1>3, <2>1 DEF HalfDone, Maker, Pick
      <4> QED
        BY <2>2, <4>2, <4>3 DEF Accounted, Remains, KeysAreRows, Here, AtRest
    <3> QED
      BY <3>1, <3>2
  <2>3. Same(p)
    BY <1>1, <1>5 DEF Same
  <2>4. Accounted(d, p) => Accounted(c, p)'
    BY <1>4, <2>2, <2>3, RestStays, RestIs
  <2> QED
    BY <1>3, <1>4, <2>3, <2>4 DEF Minds
<1> QED
  BY <1>1, <1>2, <1>4, <1>5, EscrowQuietStep

LEMMA EscrowBookInsert ==
  ASSUME EscrowInv, NEW s \in Slots, BookInsert(s)
  PROVE  EscrowInv'
<1>1. /\ UNCHANGED ledgerVars /\ contested' = contested
      /\ call[s].op = "place" /\ call[s].at = "insert"
  BY DEF BookInsert, At, ledgerVars
<1>2. BookInv' /\ BookInv /\ BookTypeOK
  BY BookBookInsert DEF EscrowInv, BookInv
<1>3. PICK o \in BookOrders : call[s].row = o /\ call[s].saw = None
  BY <1>1, <1>2, BookCallIs DEF BookRequests, Requests, Idle, Request
<1>4. PICK d \in BookRequests : d = call[s] /\ InHand(d) = {o}
  BY <1>1, <1>2, <1>3, BookCallIs, HandHas DEF Here
<1>5. Accounted(d, o) => book[o].status = "none"
  BY <1>1, <1>3, <1>4 DEF Accounted, ReadIsFresh, Here
<1>6. CASE book[o].status = "none"
  <2>1. book' = [book EXCEPT ![o] = Row(BookQty[o])] /\ placed' = Append(placed, o) /\ Goto(s, "match")
    BY <1>3, <1>6, InsertedRow DEF BookInsert
  <2>2. BookQty[o] \in Nat \ {0}
    BY OrderBookAssumption
  <2>3. /\ book'[o].status = "open" /\ book'[o].left = BookQty[o]
        /\ \A p \in BookOrders \ {o} : book'[p] = book[p]
    BY <1>2, <2>1, <2>2, RowIs DEF BookTypeOK
  <2>4. PICK c \in BookRequests : c = Request("place", "match", o, None)
    BY PlaceRequest
  <2>5. c.op = "place" /\ c.at = "match" /\ c.row = o /\ Becomes(s, c) /\ InHand(c) = {o}
    BY <1>1, <1>2, <1>3, <2>1, <2>4, BookGoto, RequestHas, HandHas DEF Here
  <2>6. PlacedGrows
    BY <1>6, <2>1 DEF PlacedGrows
  <2>7. ASSUME \A k : Keeps(k), \A p : InEscrow(p)' = InEscrow(p), NEW p \in BookOrders \ contested'
        PROVE  Minds(s, c, p)
    <3>1. CASE p = o
      <4>1. ASSUME Accounted(d, o) PROVE Accounted(c, o)'
        <5>1. InEscrow(o)' = BookQty[o]
          BY <1>1, <1>3, <1>4, <2>7, <4>1 DEF Accounted, Remains, Here
        <5>2. ~Posted(Uk(o))
          BY <1>1, <1>3, <1>4, <1>6, <4>1 DEF Accounted, KeysAreRows, Here
        <5>3. KeysAreRows(c, o)'
          BY <2>3, <2>7, <5>2 DEF KeysAreRows, Keeps
        <5>4. ReadIsFresh(c, o)'
          BY <2>3, <2>5 DEF ReadIsFresh, Here
        <5> QED
          BY <2>3, <2>5, <5>1, <5>3, <5>4 DEF Accounted, Remains, Here, OpenLeft
      <4> QED
        BY <1>4, <2>5, <3>1, <4>1 DEF Minds
    <3>2. CASE p # o
      BY <1>4, <2>3, <2>5, <2>7, <3>2 DEF Minds, Same
    <3> QED
      BY <3>1, <3>2
  <2> QED
    BY <1>1, <1>2, <2>5, <2>6, <2>7, EscrowQuietStep
<1>7. CASE book[o].status # "none"
  <2>1. UNCHANGED <<book, placed>> /\ Becomes(s, Idle)
    BY <1>3, <1>7 DEF BookInsert, Leave, Becomes
  <2>2. PlacedGrows
    BY <2>1 DEF PlacedGrows
  <2>3. PICK c \in BookRequests : c = Idle /\ InHand(c) = {}
    BY IdleHas
  <2>4. ASSUME \A k : Keeps(k), \A p : InEscrow(p)' = InEscrow(p), NEW p \in BookOrders \ contested'
        PROVE  Minds(s, c, p)
    BY <1>4, <1>5, <1>7, <2>1, <2>3, <2>4 DEF Minds, Same
  <2> QED
    BY <1>1, <1>2, <2>1, <2>2, <2>3, <2>4, EscrowQuietStep
<1> QED
  BY <1>6, <1>7

LEMMA EscrowMatchRead ==
  ASSUME EscrowInv, NEW s \in Slots, MatchRead(s)
  PROVE  EscrowInv'
<1>1. /\ UNCHANGED ledgerVars /\ book' = book /\ placed' = placed
      /\ call[s].op = "place" /\ call[s].at = "match" /\ Takes(s, Candidates(call[s].row))
  BY DEF MatchRead, At, ledgerVars
<1>2. BookInv' /\ BookInv /\ BookTypeOK /\ PlacedGrows
  BY <1>1, BookMatchRead DEF EscrowInv, BookInv, PlacedGrows
<1>3. PICK d \in BookRequests : d = call[s]
  BY <1>2, BookCallIs
<1>4. PICK o \in BookOrders : d.row = o
  BY <1>1, <1>3, BookCallHas
<1>5. d.op = "place" /\ d.at = "match" /\ Matching(d) /\ InHand(d) = {o}
  BY <1>1, <1>3, <1>4, HandHas DEF Matching, Here
<1>6. \A m \in BookOrders : book[m].left \in Nat
  BY <1>2 DEF BookTypeOK, BookRows
<1>7. PICK M \in SUBSET Quotes : M = {Resting(m, book[m].left) : m \in Candidates(o)}
  <2>1. \A m \in BookOrders : Resting(m, book[m].left) \in Quotes
    BY <1>6 DEF Resting, Quotes
  <2> QED
    BY <2>1 DEF Candidates
<1>8. PICK v \in BookViews : v = View(M, book[o].left) /\ v.makers = M /\ v.left = book[o].left
  <2>1. \A n \in Nat : View(M, n) \in BookViews /\ View(M, n).makers = M /\ View(M, n).left = n
    BY DEF View, BookViews
  <2> QED
    BY <1>6, <2>1
<1>9. PICK c \in BookRequests : c = Request("place", "fill", o, v)
  BY MatchRequest
<1>10. c.op = "place" /\ c.at = "fill" /\ c.row = o /\ c.saw = v /\ Becomes(s, c)
  BY <1>1, <1>3, <1>4, <1>7, <1>8, <1>9, RequestHas DEF MatchRead, Seeing, Becomes
<1>11. /\ \A m \in M : /\ book[m.id].status = "open" /\ book[m.id].left = m.left
                       /\ m.id \in Candidates(o)
       /\ \A p \in Candidates(o) : p # o /\ p \in BookOrders /\ \E m \in M : m.id = p
  <2>1. \A p : Resting(p, book[p].left).id = p /\ Resting(p, book[p].left).left = book[p].left
    BY DEF Resting
  <2>2. \A p \in Candidates(o) : book[p].status = "open" /\ p # o /\ p \in BookOrders
    BY DEF Candidates, Crosses
  <2>3. \A p \in Candidates(o) : \E m \in M : m.id = p
    BY <1>7, <2>1
  <2>4. \A m \in M : \E p \in Candidates(o) : m.id = p /\ m.left = book[p].left
    BY <1>7, <2>1
  <2> QED
    BY <2>2, <2>3, <2>4
<1>12. InHand(c) = {o} \cup Candidates(o)
  <2>1. InHand(c) = {o} \cup {m.id : m \in M}
    BY <1>8, <1>10, HandHas DEF Here
  <2> QED
    BY <1>11, <2>1
<1>13. contested \subseteq contested' /\ \A p \in Candidates(o) \ contested' : Sole(s, p)
  BY <1>1, <1>3, <1>4, TakesAre
<1>14. ASSUME \A k : Keeps(k), \A p : InEscrow(p)' = InEscrow(p), NEW p \in BookOrders \ contested'
       PROVE  Minds(s, c, p)
  <2>1. CASE p = o
    <3>1. ASSUME Accounted(d, o) PROVE Accounted(c, o)'
      <4>1. book[o].status = "open"
        BY <1>4, <1>5, <3>1 DEF Accounted, ReadIsFresh
      <4>2. InEscrow(o)' = v.left
        BY <1>5, <1>8, <1>14, <3>1, <4>1 DEF Accounted, Remains, Here, OpenLeft
      <4>3. KeysAreRows(c, o)'
        BY <1>1, <1>5, <1>14, <3>1, <4>1 DEF Accounted, KeysAreRows, Keeps, Here
      <4>4. ReadIsFresh(c, o)'
        BY <1>1, <1>8, <1>10, <1>11, <4>1 DEF ReadIsFresh, Here
      <4> QED
        BY <1>10, <1>12, <4>2, <4>3, <4>4 DEF Accounted, Remains, Here
    <3> QED
      BY <1>3, <1>5, <1>12, <2>1, <3>1 DEF Minds
  <2>2. CASE p \in Candidates(o)
    <3>1. p # o /\ p \in InHand(c) /\ p \notin InHand(d) /\ Sole(s, p)
      BY <1>5, <1>11, <1>12, <1>13, <2>2
    <3>2. ASSUME Accounted(d, p) PROVE Accounted(c, p)'
      <4>1. AtRest(p)
        BY <3>1, <3>2, RestIs
      <4>2. Remains(c, p)' = OpenLeft(p)
        BY <1>1, <1>10, <3>1 DEF Remains, Here, OpenLeft
      <4>3. KeysAreRows(c, p)'
        BY <1>1, <1>14, <4>1 DEF AtRest, KeysAreRows, Keeps
      <4>4. ReadIsFresh(c, p)'
        BY <1>1, <1>8, <1>10, <1>11, <3>1 DEF ReadIsFresh, Here
      <4> QED
        BY <1>14, <4>1, <4>2, <4>3, <4>4 DEF Accounted, AtRest
    <3> QED
      BY <1>3, <3>1, <3>2 DEF Minds
  <2>3. CASE p # o /\ p \notin Candidates(o)
    BY <1>1, <1>3, <1>5, <1>12, <1>14, <2>3 DEF Minds, Same
  <2> QED
    BY <2>1, <2>2, <2>3
<1> QED
  BY <1>1, <1>2, <1>10, <1>13, <1>14, EscrowQuietStep

LEMMA EscrowCancelMark ==
  ASSUME EscrowInv, NEW s \in Slots, CancelMark(s)
  PROVE  EscrowInv'
<1>1. /\ UNCHANGED ledgerVars /\ contested' = contested /\ placed' = placed
      /\ call[s].op = "unplace" /\ call[s].at = "mark" /\ Becomes(s, Idle)
  BY DEF CancelMark, At, Leave, Becomes, ledgerVars
<1>2. BookInv' /\ BookInv /\ BookTypeOK /\ PlacedGrows
  BY <1>1, BookCancelMark DEF EscrowInv, BookInv, PlacedGrows
<1>3. PICK d \in BookRequests : d = call[s]
  BY <1>2, BookCallIs
<1>4. PICK o \in BookOrders : d.row = o
  BY <1>1, <1>3, BookCallHas
<1>5. d.op = "unplace" /\ d.at = "mark" /\ InHand(d) = {o}
  BY <1>1, <1>3, <1>4, HandHas DEF Here
<1>6. book'[o].status = "cancelled" /\ \A p \in BookOrders \ {o} : book'[p] = book[p]
  BY <1>2, <1>3, <1>4 DEF BookTypeOK, CancelMark
<1>7. PICK c \in BookRequests : c = Idle /\ InHand(c) = {}
  BY IdleHas
<1>8. ASSUME \A k : Keeps(k), \A p : InEscrow(p)' = InEscrow(p), NEW p \in BookOrders \ contested'
      PROVE  Minds(s, c, p)
  <2>1. CASE p = o
    <3>1. ASSUME Accounted(d, o) PROVE AtRest(o)'
      <4>1. InEscrow(o)' = 0
        BY <1>4, <1>5, <1>8, <3>1 DEF Accounted, Remains, Here
      <4> QED
        BY <1>6, <4>1 DEF AtRest, OpenLeft
    <3> QED
      BY <1>3, <1>5, <1>7, <2>1, <3>1, RestIs DEF Minds
  <2>2. CASE p # o
    BY <1>3, <1>5, <1>6, <1>7, <1>8, <2>2 DEF Minds, Same
  <2> QED
    BY <2>1, <2>2
<1> QED
  BY <1>1, <1>2, <1>7, <1>8, EscrowQuietStep

LEMMA EscrowTakerUpdate ==
  ASSUME EscrowInv, NEW s \in Slots, TakerUpdate(s)
  PROVE  EscrowInv'
<1>1. /\ UNCHANGED ledgerVars /\ contested' = contested /\ placed' = placed
      /\ call[s].op = "place" /\ call[s].at = "fill" /\ Becomes(s, Idle)
  BY DEF TakerUpdate, At, Leave, Becomes, ledgerVars
<1>2. BookInv' /\ BookInv /\ BookTypeOK /\ PlacedGrows
  BY <1>1, BookTakerUpdate DEF EscrowInv, BookInv, PlacedGrows
<1>3. PICK d \in BookRequests : d = call[s]
  BY <1>2, BookCallIs
<1>4. PICK o \in BookOrders, n \in Nat : d.row = o /\ d.saw.left = n
  BY <1>1, <1>3, BookCallHas DEF BookViews
<1>5. d.op = "place" /\ d.at = "fill" /\ Matching(d) /\ o \in InHand(d)
  BY <1>1, <1>3, <1>4, HandHas DEF Matching
<1>6. PICK row \in BookRows : row = Row(n)
  BY RowIs
<1>7. book'[o] = row /\ \A p \in BookOrders \ {o} : book'[p] = book[p]
  BY <1>2, <1>3, <1>4, <1>6 DEF BookTypeOK, TakerUpdate
<1>8. row.status # "none" /\ row.left = n /\ (row.status = "open" <=> n > 0)
  BY <1>6, RowIs
<1>9. PICK c \in BookRequests : c = Idle /\ InHand(c) = {}
  BY IdleHas
<1>10. ASSUME \A k : Keeps(k), \A p : InEscrow(p)' = InEscrow(p), NEW p \in BookOrders \ contested'
       PROVE  Minds(s, c, p)
  <2>1. CASE p = o
    <3>1. ASSUME Accounted(d, o) PROVE AtRest(o)'
      <4>1. InEscrow(o)' = n
        BY <1>4, <1>5, <1>10, <3>1 DEF Accounted, Remains, Here
      <4>2. OpenLeft(o)' = n
        BY <1>7, <1>8 DEF OpenLeft
      <4>3. ~Posted(Uk(o))
        BY <1>4, <1>5, <3>1 DEF Accounted, KeysAreRows, ReadIsFresh, Here
      <4> QED
        BY <1>7, <1>8, <1>10, <4>1, <4>2, <4>3 DEF AtRest, Keeps
    <3> QED
      BY <1>3, <1>5, <1>9, <2>1, <3>1, RestIs DEF Minds
  <2>2. CASE p # o
    <3>1. Same(p)
      BY <1>7, <1>10, <2>2 DEF Same
    <3>2. Accounted(d, p) => AtRest(p)
      BY <1>4, <1>5, <2>2 DEF Accounted, Remains, KeysAreRows, Here, AtRest
    <3>3. Accounted(d, p) => Accounted(c, p)'
      BY <1>9, <3>1, <3>2, RestStays, RestIs
    <3> QED
      BY <1>3, <1>9, <3>1, <3>3 DEF Minds
  <2> QED
    BY <2>1, <2>2
<1> QED
  BY <1>1, <1>2, <1>9, <1>10, EscrowQuietStep

(* What a taker at a maker has in hand.                                    *)
LEMMA MakerInHand ==
  ASSUME BookInv, NEW d \in BookRequests, d.op = "place", d.at \in {"fill", "trade", "advance"},
         TakerKnows(d), NEW m \in d.saw.makers
  PROVE  /\ d.row \in BookOrders /\ d.saw \in BookViews /\ m \in Quotes /\ m.id \in BookOrders
         /\ d.row \in InHand(d) /\ m.id \in InHand(d) /\ m.id # d.row
         /\ \A k \in d.saw.makers : k.id = m.id => k = m
<1>1. d.row \in BookOrders /\ d.saw \in BookViews
  BY BookCallHas
<1>2. MakersKnown(d.row, d.saw.makers) /\ d.saw.makers \in SUBSET Quotes
  BY <1>1 DEF TakerKnows, BookViews
<1>3. m \in Quotes /\ m.id \in BookOrders
  BY <1>2 DEF Quotes
<1>4. m.id # d.row /\ \A k \in d.saw.makers : k.id = m.id => k = m
  BY <1>2 DEF MakersKnown, Crosses
<1>5. InHand(d) = {d.row} \cup {k.id : k \in d.saw.makers}
  BY HandHas DEF Here
<1> QED
  BY <1>1, <1>3, <1>4, <1>5

LEMMA EscrowFillPost ==
  ASSUME EscrowInv, NEW s \in Slots, FillPost(s)
  PROVE  EscrowInv'
<1>1. /\ book' = book /\ placed' = placed /\ contested' = contested
      /\ call[s].op = "place" /\ call[s].at = "fill" /\ call[s].saw.left > 0
      /\ call[s].saw.makers # {} /\ Goto(s, "trade")
  BY DEF FillPost, Filling, At
<1>2. /\ BookInv /\ BookTypeOK /\ PlacedOnce /\ LedgerTypeOK /\ BookInv'
      /\ PlacedGrows
  BY <1>1, BookFillPost DEF EscrowInv, BookInv, BookTypeOK, PlacedGrows
<1>3. PICK d \in BookRequests : d = call[s]
  BY <1>2, BookCallIs
<1>4. /\ d.row \in BookOrders /\ d.saw \in BookViews /\ Matching(d) /\ TakerKnows(d)
      /\ d.op = "place" /\ d.at = "fill"
  BY <1>1, <1>2, <1>3, PickIs
<1>5. PICK o \in BookOrders, m \in Quotes, n \in Nat, i \in BookOrders :
        o = d.row /\ m = Pick(d) /\ n = Qty(d) /\ i = m.id
  BY <1>1, <1>2, <1>3, <1>4, PickIs DEF Quotes
<1>6. /\ m \in d.saw.makers /\ Maker(s) = m /\ FillQty(s) = n
      /\ d.saw.left \in Nat /\ m.left \in Nat
  BY <1>1, <1>2, <1>3, <1>4, <1>5, PickIs DEF Quotes, BookViews
<1>7. Crosses(o, i) /\ ~Posted(Fk(o, i)) /\ BookSide[i] # BookSide[o] /\ i # o
  BY <1>4, <1>5, <1>6 DEF TakerKnows, MakersKnown, Crosses
<1>8. PICK price \in Int : price = Limit[i]
  BY OrderBookAssumption
<1>9. PostJournal(Fk(o, i), Fill(Parties(o, i).buy, Parties(o, i).sell, price, n))
  BY <1>3, <1>5, <1>6, <1>8 DEF FillPost, Fk
<1>10. /\ UnitsExplained' /\ CashInEscrowExplained'
       /\ \A p \in BookOrders : InEscrow(p)' = InEscrow(p) - (IF p \in {o, i} THEN n ELSE 0)
  BY <1>2, <1>7, <1>9, FillPosts DEF EscrowInv
<1>11. \A p \in BookOrders : Keeps(Ek(p)) /\ Keeps(Uk(p))
  <2>1. PICK e \in Effects : PostJournal(Fk(o, i), e)
    <3>1. Parties(o, i).buy \in BookOrders /\ Parties(o, i).sell \in BookOrders
      BY DEF Parties
    <3>2. Fill(Parties(o, i).buy, Parties(o, i).sell, price, n) \in Effects
      BY <3>1, BookEffects
    <3> QED
      BY <1>9, <3>2
  <2>2. \A k : k # Fk(o, i) => Keeps(k)
    BY <1>2, <2>1, PostsOnly
  <2> QED
    BY <2>2, BookKeys DEF Ek, Uk
<1>12. PICK c \in BookRequests : c = Request("place", "trade", o, d.saw)
  BY <1>4, MatchRequest
<1>13. /\ c.op = "place" /\ c.at = "trade" /\ c.row = o /\ c.saw = d.saw /\ Matching(c)
       /\ Becomes(s, c)
  BY <1>1, <1>2, <1>3, <1>4, <1>5, <1>12, BookGoto, RequestHas DEF Matching
<1>14. Pick(c)' = m /\ Qty(c)' = n
  <2>1. Pick(d)' = Pick(d) /\ Qty(d)' = Qty(d)
    BY <1>1, <1>2, <1>4, PickStays
  <2> QED
    BY <1>4, <1>5, <1>13, <2>1 DEF Pick, Qty
<1>15. InHand(c) = InHand(d) /\ o \in InHand(d) /\ i \in InHand(d)
  BY <1>2, <1>4, <1>5, <1>6, <1>13, HandHas, MakerInHand DEF Here
<1>16. ASSUME NEW p \in BookOrders PROVE Minds(s, c, p)
  <2>1. ASSUME p \in InHand(d), Accounted(d, p) PROVE Accounted(c, p)'
    <3>1. Remains(c, p)' = IF p = o THEN d.saw.left - n
                           ELSE IF p = i THEN m.left - n ELSE OpenLeft(p)
      BY <1>1, <1>5, <1>13, <1>14, <1>15, <2>1 DEF Remains, Here, OpenLeft
    <3>2. InEscrow(p) = IF p = o THEN d.saw.left ELSE OpenLeft(p)
      BY <1>4, <1>5, <2>1 DEF Accounted, Remains, Here
    <3>3. p = i => OpenLeft(p) = m.left
      BY <1>4, <1>5, <1>6, <2>1 DEF Accounted, ReadIsFresh, Here, OpenLeft
    <3>4. InEscrow(p) \in Int
      BY <1>2, InEscrowIs
    <3>5. InEscrow(p)' = Remains(c, p)'
      BY <1>6, <1>7, <1>10, <3>1, <3>2, <3>3, <3>4
    <3>6. KeysAreRows(c, p)'
      BY <1>1, <1>4, <1>11, <2>1 DEF Accounted, KeysAreRows, Keeps, Here
    <3>7. ReadIsFresh(c, p)'
      BY <1>1, <1>4, <1>5, <1>13, <2>1 DEF Accounted, ReadIsFresh, Here
    <3> QED
      BY <3>5, <3>6, <3>7 DEF Accounted
  <2>2. ASSUME p \notin InHand(d) PROVE Same(p)
    BY <1>1, <1>2, <1>10, <1>11, <1>15, <2>2, InEscrowIs DEF Same
  <2> QED
    BY <1>3, <1>15, <2>1, <2>2 DEF Minds
<1> QED
  BY <1>1, <1>2, <1>10, <1>13, <1>16, HandsMoved DEF EscrowInv

LEMMA EscrowFillTrade ==
  ASSUME EscrowInv, NEW s \in Slots, FillTrade(s)
  PROVE  EscrowInv'
<1>1. /\ UNCHANGED ledgerVars /\ contested' = contested /\ book' = book /\ placed' = placed
      /\ call[s].op = "place" /\ call[s].at = "trade" /\ Goto(s, "advance")
  BY DEF FillTrade, At, ledgerVars
<1>2. BookInv' /\ BookInv /\ BookTypeOK /\ PlacedOnce /\ PlacedGrows
  BY <1>1, BookFillTrade DEF EscrowInv, BookInv, PlacedGrows
<1>3. PICK d \in BookRequests : d = call[s]
  BY <1>2, BookCallIs
<1>4. /\ d.row \in BookOrders /\ d.saw \in BookViews /\ Matching(d) /\ TakerKnows(d)
      /\ d.op = "place" /\ d.at = "trade"
  BY <1>1, <1>2, <1>3, PickIs
<1>5. PICK c \in BookRequests : c = Request("place", "advance", d.row, d.saw)
  BY <1>4, MatchRequest
<1>6. /\ c.op = "place" /\ c.at = "advance" /\ c.row = d.row /\ c.saw = d.saw /\ Matching(c)
      /\ Becomes(s, c)
  BY <1>1, <1>2, <1>3, <1>4, <1>5, BookGoto, RequestHas DEF Matching
<1>7. Pick(c)' = Pick(d) /\ Qty(c)' = Qty(d)
  <2>1. Pick(d)' = Pick(d) /\ Qty(d)' = Qty(d)
    BY <1>1, <1>2, <1>4, PickStays
  <2> QED
    BY <1>6, <2>1 DEF Pick, Qty
<1>8. InHand(c) = InHand(d)
  BY <1>4, <1>6, HandHas DEF Here
<1>9. ASSUME \A k : Keeps(k), \A p : InEscrow(p)' = InEscrow(p), NEW p \in BookOrders \ contested'
      PROVE  Minds(s, c, p)
  <2>1. ASSUME p \in InHand(d), Accounted(d, p) PROVE Accounted(c, p)'
    <3>1. Remains(c, p)' = Remains(d, p)
      <4>1. Remains(c, p)' = IF p = d.row THEN d.saw.left - Qty(d)
                             ELSE IF p = Pick(d).id THEN Pick(d).left - Qty(d) ELSE OpenLeft(p)
        BY <1>1, <1>6, <1>7, <1>8, <2>1 DEF Remains, Here, OpenLeft
      <4>2. Remains(d, p) = IF p = d.row THEN d.saw.left - Qty(d)
                            ELSE IF p = Pick(d).id THEN Pick(d).left - Qty(d) ELSE OpenLeft(p)
        BY <1>4, <2>1 DEF Remains, Here
      <4> QED
        BY <4>1, <4>2
    <3>2. KeysAreRows(c, p)'
      BY <1>1, <1>4, <1>9, <2>1 DEF Accounted, KeysAreRows, Keeps, Here
    <3>3. ReadIsFresh(c, p)'
      BY <1>1, <1>4, <1>6, <2>1 DEF Accounted, ReadIsFresh, Here
    <3> QED
      BY <1>9, <2>1, <3>1, <3>2, <3>3 DEF Accounted
  <2>2. Same(p)
    BY <1>1, <1>9 DEF Same
  <2> QED
    BY <1>3, <1>8, <2>1, <2>2 DEF Minds
<1> QED
  BY <1>1, <1>2, <1>6, <1>9, EscrowQuietStep

LEMMA EscrowMakerUpdate ==
  ASSUME EscrowInv, NEW s \in Slots, MakerUpdate(s)
  PROVE  EscrowInv'
<1>1. /\ UNCHANGED ledgerVars /\ contested' = contested /\ placed' = placed
      /\ call[s].op = "place" /\ call[s].at = "advance"
  BY DEF MakerUpdate, At, ledgerVars
<1>2. BookInv' /\ BookInv /\ BookTypeOK /\ PlacedOnce /\ PlacedGrows
  BY <1>1, BookMakerUpdate DEF EscrowInv, BookInv, PlacedGrows
<1>3. PICK d \in BookRequests : d = call[s]
  BY <1>2, BookCallIs
<1>4. /\ d.row \in BookOrders /\ d.saw \in BookViews /\ Matching(d) /\ TakerKnows(d)
      /\ d.op = "place" /\ d.at = "advance"
  BY <1>1, <1>2, <1>3, PickIs
<1>5. PICK o \in BookOrders, m \in Quotes, n \in Nat, i \in BookOrders :
        o = d.row /\ m = Pick(d) /\ n = Qty(d) /\ i = m.id
  BY <1>1, <1>2, <1>3, <1>4, PickIs DEF Quotes
<1>6. /\ m \in d.saw.makers /\ Maker(s) = m /\ FillQty(s) = n
      /\ d.saw.left \in Nat /\ n <= d.saw.left /\ m.left \in Nat /\ n <= m.left
      /\ d.saw.makers \in SUBSET Quotes
  BY <1>1, <1>2, <1>3, <1>4, <1>5, PickIs DEF Quotes, BookViews
<1>7. i # o /\ \A k \in d.saw.makers \ {m} : k.id # i
  BY <1>2, <1>4, <1>5, <1>6, MakerInHand
<1>8. PICK v \in BookViews : v.makers = d.saw.makers \ {m} /\ v.left = d.saw.left - n
                         /\ v = View(d.saw.makers \ {m}, d.saw.left - n)
  <2>1. d.saw.left - n \in Nat /\ d.saw.makers \ {m} \in SUBSET Quotes
    BY <1>6
  <2>2. \A M \in SUBSET Quotes, k \in Nat :
          View(M, k) \in BookViews /\ View(M, k).makers = M /\ View(M, k).left = k
    BY DEF View, BookViews
  <2> QED
    BY <2>1, <2>2
<1>9. PICK c \in BookRequests : c = Request("place", "fill", o, v)
  BY MatchRequest
<1>10. /\ c.op = "place" /\ c.at = "fill" /\ c.row = o /\ c.saw = v /\ Matching(c)
       /\ Becomes(s, c)
  BY <1>3, <1>4, <1>5, <1>6, <1>8, <1>9, RequestHas DEF MakerUpdate, Seeing, Becomes, Matching
<1>11. PICK row \in BookRows : /\ row = Row(m.left - n) /\ row.left = m.left - n
                               /\ row.status # "none"
                               /\ row.status = "open" <=> m.left - n > 0
  <2>1. m.left - n \in Nat
    BY <1>6
  <2> QED
    BY <2>1, RowIs
<1>12. book'[i] = row /\ \A p \in BookOrders \ {i} : book'[p] = book[p]
  BY <1>2, <1>5, <1>6, <1>11 DEF MakerUpdate, BookTypeOK
<1>13. /\ o \in InHand(c) /\ o \in InHand(d) /\ i \in InHand(d)
       /\ InHand(c) = InHand(d) \ {i}
  <2>1. InHand(d) = {o} \cup {k.id : k \in d.saw.makers}
    BY <1>4, <1>5, HandHas DEF Here
  <2>2. InHand(c) = {o} \cup {k.id : k \in d.saw.makers \ {m}}
    BY <1>8, <1>10, HandHas DEF Here
  <2>3. {k.id : k \in d.saw.makers} = {i} \cup {k.id : k \in d.saw.makers \ {m}}
    BY <1>5, <1>6
  <2>4. i \notin {k.id : k \in d.saw.makers \ {m}}
    BY <1>7
  <2> QED
    BY <1>7, <2>1, <2>2, <2>3, <2>4
<1>14. ASSUME \A k : Keeps(k), \A p : InEscrow(p)' = InEscrow(p), NEW p \in BookOrders \ contested'
       PROVE  Minds(s, c, p)
  <2>1. ASSUME p \in InHand(c), Accounted(d, p) PROVE Accounted(c, p)'
    <3>1. p # i /\ book'[p] = book[p]
      BY <1>12, <1>13, <2>1
    <3>2. InEscrow(p)' = Remains(c, p)'
      BY <1>4, <1>5, <1>8, <1>10, <1>13, <1>14, <2>1, <3>1 DEF Accounted, Remains, Here, OpenLeft
    <3>3. KeysAreRows(c, p)'
      BY <1>4, <1>14, <2>1, <3>1 DEF Accounted, KeysAreRows, Keeps, Here
    <3>4. ReadIsFresh(c, p)'
      BY <1>4, <1>5, <1>8, <1>10, <2>1, <3>1 DEF Accounted, ReadIsFresh, Here
    <3> QED
      BY <3>2, <3>3, <3>4 DEF Accounted
  <2>2. ASSUME p = i, Accounted(d, i) PROVE Accounted(c, i)'
    <3>1. book[i].status = "open"
      BY <1>4, <1>5, <1>6, <2>2 DEF Accounted, ReadIsFresh, Here
    <3>2. InEscrow(i)' = m.left - n
      BY <1>4, <1>5, <1>7, <1>13, <1>14, <2>2 DEF Accounted, Remains, Here
    <3>3. OpenLeft(i)' = m.left - n
      <4>1. m.left - n \in Nat
        BY <1>6
      <4> QED
        BY <1>11, <1>12, <4>1 DEF OpenLeft
    <3>4. ~Posted(Uk(i))
      BY <1>4, <2>2, <3>1 DEF Accounted, KeysAreRows, Here
    <3>5. AtRest(i)'
      BY <1>11, <1>12, <1>14, <3>2, <3>3, <3>4 DEF AtRest, Keeps
    <3> QED
      BY <1>13, <3>5, RestIs
  <2>3. ASSUME p \notin InHand(d) PROVE Same(p)
    BY <1>12, <1>13, <1>14, <2>3 DEF Same
  <2> QED
    BY <1>3, <1>13, <2>1, <2>2, <2>3 DEF Minds
<1> QED
  BY <1>1, <1>2, <1>10, <1>14, EscrowQuietStep

-----------------------------------------------------------------------------
(* Zeros add up to zero.                                                   *)
LEMMA SumZero ==
  ASSUME NEW S, IsFiniteSet(S), NEW f, \A x \in S : f[x] = 0
  PROVE  SumFunctionOnSet(f, S) = 0
<1> DEFINE B == {s \in SUBSET S : SumFunctionOnSet(f, s) # 0}
<1>1. SUFFICES ASSUME B # {} PROVE FALSE
  OBVIOUS
<1>a. B \subseteq SUBSET S
  OBVIOUS
<1>2. PICK T \in B : \A U \in B : U \subseteq T => U = T
  <2> HIDE DEF B
  <2> QED
    BY <1>1, <1>a, LeastSet
<1>3. T # {}
  BY SumEmpty
<1>4. OneOf(T) \in T /\ IsFiniteSet(T)
  BY <1>3, OneOfIn, FS_Subset
<1>5. SumFunctionOnSet(f, T \ {OneOf(T)}) = 0
  BY <1>2, <1>4
<1> QED
  BY <1>3, <1>4, <1>5, SumPicked

LEMMA EscrowStarts ==
  ASSUME OrderBookInit
  PROVE  EscrowInv
<1>1. /\ BookInv /\ LedgerTypeOK /\ bal = Opening
      /\ \A k : ~Posted(k)
      /\ call = [s \in Slots |-> Idle]
      /\ book = [o \in BookOrders |-> [status |-> "none", left |-> 0]]
  BY BookStarts DEF OrderBookInit, ServiceInit, LedgerInit, Posted, BookInv, BookTypeOK
<1>2. ASSUME NEW o PROVE InEscrow(o) = 0
  <2>1. \A p \in Pairs : Drawn(p) = 0
    BY <1>1 DEF Drawn
  <2>2. FilledOf(o) = 0
    <3> DEFINE f == [p \in Pairs |-> Drawn(p)]
               S == {p \in Pairs : o \in {p[1], p[2]}}
    <3>1. \A p \in S : f[p] = 0
      BY <2>1
    <3>2. IsFiniteSet(S)
      BY OrdersFinite
    <3>3. SumFunctionOnSet(f, S) = 0
      <4> HIDE DEF f, S
      <4> QED
        BY <3>1, <3>2, SumZero
    <3> QED
      BY <3>3 DEF FilledOf
  <2>3. GivenBack(o) = 0
    BY <1>1 DEF GivenBack
  <2> QED
    BY <1>1, <2>2, <2>3 DEF InEscrow
<1>3. Opening[UnitEscrow] \in Int /\ Opening[CashEscrow] \in Int
  BY OpeningAssumption, OrderBookAssumption
<1>4. UnitsExplained
  <2> DEFINE f == [o \in BookOrders |-> InEscrow(o)]
  <2>1. \A o \in SellOrders : f[o] = 0
    BY <1>2 DEF SellOrders
  <2>2. SumFunctionOnSet(f, SellOrders) = 0
    <3> HIDE DEF f
    <3> QED
      BY <2>1, OrdersFinite, SumZero
  <2> QED
    BY <1>1, <1>3, <2>2 DEF UnitsExplained
<1>5. CashInEscrowExplained
  <2> DEFINE f == [o \in BookOrders |-> InEscrow(o) * Limit[o]]
  <2>1. \A o \in BuyOrders : f[o] = 0
    <3>1. \A o \in BuyOrders : f[o] = 0 * Limit[o] /\ Limit[o] \in Nat
      BY <1>2, OrderBookAssumption DEF BuyOrders
    <3> QED
      BY <3>1
  <2>2. SumFunctionOnSet(f, BuyOrders) = 0
    <3> HIDE DEF f
    <3> QED
      BY <2>1, OrdersFinite, SumZero
  <2> QED
    BY <1>1, <1>3, <2>2 DEF CashInEscrowExplained
<1>6. HandsInv
  <2>1. PICK s \in Slots : call[s] = Idle
    BY <1>1, ServiceAssumption
  <2>2. ASSUME NEW o \in BookOrders PROVE Sole(s, o) /\ Accounted(Idle, o)
    <3>1. Sole(s, o)
      BY <1>1, IdleHas DEF Sole
    <3>2. AtRest(o)
      BY <1>1, <1>2 DEF AtRest, OpenLeft
    <3> QED
      BY <3>1, <3>2, IdleHas, RestIs
  <2> QED
    BY <2>1, <2>2 DEF HandsInv
<1> QED
  BY <1>1, <1>4, <1>5, <1>6 DEF EscrowInv

LEMMA EscrowInvKept ==
  ASSUME EscrowInv, OrderBookNext
  PROVE  EscrowInv'
<1>1. PICK s \in Slots :
        \/ \E o \in BookOrders : PlaceCall(s, o) \/ CancelBook(s, o)
        \/ PlaceEscrow(s) \/ BookInsert(s) \/ MatchRead(s)
        \/ FillPost(s) \/ FillTrade(s) \/ MakerUpdate(s) \/ TakerUpdate(s)
        \/ CancelRefund(s) \/ CancelMark(s)
        \/ BookDies(s)
  BY DEF OrderBookNext
<1> QED
  BY <1>1, EscrowPlaceCall, EscrowCancelBook, EscrowPlaceEscrow, EscrowBookInsert, EscrowMatchRead,
     EscrowFillPost, EscrowFillTrade, EscrowMakerUpdate, EscrowTakerUpdate, EscrowCancelRefund,
     EscrowCancelMark, EscrowBookDies

(* What a request leaves of an order is never below nothing.               *)
LEMMA RemainsIs ==
  ASSUME BookInv, NEW s \in Slots, NEW o \in BookOrders
  PROVE  Remains(call[s], o) \in Nat
<1>1. OpenLeft(o) \in Nat /\ BookQty[o] \in Nat
  BY OrderBookAssumption DEF OpenLeft, BookInv, BookTypeOK, BookRows
<1>2. PICK c \in BookRequests : c = call[s]
  BY BookCallIs
<1>3. CASE Here(c, "place", {"fill"})
  <2>1. c.saw.left \in Nat
    BY <1>3, BookCallHas DEF Here, BookViews
  <2> QED
    BY <1>1, <1>2, <1>3, <2>1 DEF Remains, Here
<1>4. CASE Here(c, "place", {"trade", "advance"})
  <2>1. /\ c.saw.left \in Nat /\ Qty(c) \in Nat /\ Qty(c) <= c.saw.left
        /\ Pick(c).left \in Nat /\ Qty(c) <= Pick(c).left
    BY <1>2, <1>4, PickIs DEF Here, BookViews, Quotes
  <2>2. c.saw.left - Qty(c) \in Nat /\ Pick(c).left - Qty(c) \in Nat
    BY <2>1
  <2> QED
    BY <1>1, <1>2, <1>4, <2>2 DEF Remains, Here
<1>5. CASE ~Here(c, "place", {"fill", "trade", "advance"})
  BY <1>1, <1>2, <1>5 DEF Remains, Here
<1> QED
  BY <1>3, <1>4, <1>5 DEF Here

(* What the run checks follows.                                            *)
LEMMA BookBacked ==
  ASSUME EscrowInv
  PROVE  EscrowBacksBook /\ TradesWithinLimits
<1>1. BookInv /\ LedgerTypeOK /\ TradesWithinLimits
  BY DEF EscrowInv, BookInv, BookTypeOK
<1>2. ASSUME NEW o \in BookOrders \ contested
      PROVE  /\ FilledOf(o) + GivenBack(o) <= BookQty[o]
             /\ (\A s \in Slots : o \notin InHand(call[s])) => InEscrow(o) = OpenLeft(o)
  <2>1. PICK s \in Slots : InEscrow(o) = Remains(call[s], o)
    BY DEF EscrowInv, HandsInv, Accounted
  <2>2. FilledOf(o) \in Int /\ GivenBack(o) \in Int /\ BookQty[o] \in Nat
    BY <1>1, FilledIs, GivenBackIs, OrderBookAssumption
  <2>3. InEscrow(o) \in Nat
    BY <1>1, <2>1, RemainsIs
  <2> QED
    BY <2>1, <2>2, <2>3 DEF InEscrow, Remains
<1> QED
  BY <1>1, <1>2 DEF EscrowInv, EscrowBacksBook

LEMMA EscrowInvStutters ==
  ASSUME EscrowInv, UNCHANGED bookVars
  PROVE  EscrowInv'
<1>1. BookInv' /\ BookInv /\ LedgerTypeOK /\ UNCHANGED ledgerVars /\ PlacedGrows
  BY BookInvStutters DEF EscrowInv, BookInv, BookTypeOK, bookVars, ledgerVars, PlacedGrows
<1>2. /\ UnitsExplained' /\ CashInEscrowExplained'
      /\ (\A k : Keeps(k)) /\ \A o : InEscrow(o)' = InEscrow(o)
  BY <1>1, Stays DEF EscrowInv
<1>3. ASSUME NEW o \in BookOrders \ contested'
      PROVE  \E s \in Slots : Sole(s, o)' /\ Accounted(call[s], o)'
  <2>1. PICK s \in Slots : Sole(s, o) /\ Accounted(call[s], o)
    BY <1>3 DEF EscrowInv, HandsInv, bookVars
  <2>2. PICK d \in BookRequests : d = call[s] /\ BookCall(d) /\ call'[s] = d
    BY <1>1, BookCallIs DEF bookVars
  <2>3. Accounted(d, o)'
    BY <1>1, <1>2, <2>1, <2>2, AccountedOn DEF Same, bookVars
  <2>4. Sole(s, o)'
    BY <2>1 DEF Sole, bookVars
  <2> QED
    BY <2>2, <2>3, <2>4
<1> QED
  BY <1>1, <1>2, <1>3 DEF EscrowInv, HandsInv

(* Whatever races and dies, what the escrow of the book holds is what the  *)
(* journals of the orders put in and did not take out: units for sells,    *)
(* cash at the limit for buys.  No order that was never in two requests'   *)
(* hands nor under one that died is filled and refunded beyond its own     *)
(* escrow, and between requests its row tells what is left of it, to the   *)
(* unit and the cent, however the others are contested.  Every trade keeps *)
(* to both limits and no taker fills more than it asked for.               *)
THEOREM OrderBookInvariant ==
  OrderBookSpec => [](TradesWithinLimits /\ EscrowBacksBook)
<1>1. OrderBookInit => EscrowInv
  BY EscrowStarts
<1>2. EscrowInv /\ [OrderBookNext]_bookVars => EscrowInv'
  BY EscrowInvKept, EscrowInvStutters
<1>3. EscrowInv => TradesWithinLimits /\ EscrowBacksBook
  BY BookBacked
<1> QED
  BY <1>1, <1>2, <1>3, PTL DEF OrderBookSpec
=============================================================================
