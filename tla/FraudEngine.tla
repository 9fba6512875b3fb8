---------------------------- MODULE FraudEngine ----------------------------
(***************************************************************************)
(* The fraud engine, fraud-engine/src: an event is scored by the models    *)
(* that the registry routes to (router/router.ts, models/registry.ts), the *)
(* decision is written and folded into the user's features                 *)
(* (router/decisionEngine.ts, features/featureStore.ts), and what it calls *)
(* for is done by a consumer of the in-process bus                         *)
(* (remediation/remediationService.ts), which opens a case and calls       *)
(* Goemon back to freeze the account.                                      *)
(*                                                                         *)
(* A decision has the name of its event.  The other side of the callbacks  *)
(* is AccountHolds; a call that fails is logged and forgotten.             *)
(***************************************************************************)
EXTENDS Service, AccountHolds

CONSTANTS
  Mode,        \* "score" (the caller waits) or "async", by decision
  UserOf,      \* the user of the event, by decision
  Models,
  BuiltIn,     \* the models that buildContext registers
  Floor,       \* rules-v1
  Scores,      \* what a model may score: 0 allow, 1 flag, 2 challenge, 3 block, 4 freeze
  Bucket,      \* the bucket for canaries, by user and model
  MaxCallbacks, \* bound on the callbacks that Goemon serves at once
  Promotions   \* what the fraud team may set: <<version, status, canaryPct>>

ASSUME FraudAssumption ==
  /\ Mode \in [Decisions -> {"score", "async"}]
  /\ UserOf \in [Decisions -> Users]
  /\ Floor \in BuiltIn /\ BuiltIn \subseteq Models
  /\ Scores \subseteq 0..4
  /\ MaxCallbacks \in Nat
  /\ Bucket \in [Users -> [Models -> Nat]]
  /\ Promotions \subseteq Models \X {"prod", "canary", "shadow", "retired"} \X Nat
  /\ None \notin Decisions

VARIABLES
  registry,   \* the table models: status and canary_pct, by version
  served,     \* the versions with a backend in this process
  decided,    \* the table decisions: the action and the models it comes from
  features,   \* event_count of user_features, by user
  handling,   \* what the consumer does about a decision
  cases,      \* the case of a decision: "none", "open" or, resolved or dismissed, "closed"
  requested,  \* decisions whose case_events have a freeze_requested
  promoted,   \* models that were ever prod or canary: a history variable
  mishaps     \* what went wrong, of "restart", "call" and "overlap": a history variable

engineVars == <<registry, served, decided, features, handling, cases, requested, promoted, mishaps>>
fraudVars == <<journals, bal, call, holdsVars, engineVars>>

Registered(status, pct) == [status |-> status, pct |-> pct]

(* buildContext: rules-v1 is prod, the other built-in models shadow.       *)
FraudInit ==
  /\ ServiceInit
  /\ HoldsInit
  /\ registry = [m \in Models |-> Registered(IF m = Floor THEN "prod"
                                             ELSE IF m \in BuiltIn THEN "shadow" ELSE "none", 0)]
  /\ served = BuiltIn
  /\ decided = [d \in Decisions |-> [action |-> "none", by |-> {}]]
  /\ features = [u \in Users |-> 0]
  /\ handling = [d \in Decisions |-> "none"]
  /\ cases = [d \in Decisions |-> "none"]
  /\ requested = {}
  /\ promoted = {Floor}
  /\ mishaps = {}

-----------------------------------------------------------------------------
(* POST /v1/events: process *)

NothingRead == [prod |-> None, canary |-> None]

Ingest(s, d) ==
  /\ decided[d].action = "none"
  /\ \A t \in Slots : call[t].row # d
  /\ Begin(s, "event", "route", d, NothingRead)
  /\ UNCHANGED <<journals, bal, holdsVars, engineVars>>

(* What a status gives for a user: a canary is active for its buckets.     *)
WithStatus(status, u) ==
  {m \in served : /\ registry[m].status = status
                  /\ status = "canary" => Bucket[u][m] < registry[m].pct}

(* route: the queries of the registry run side by side.                    *)
ReadModels(s, status) ==
  /\ At(s, "event", "route")
  /\ call[s].saw[status] = None
  /\ call' = [call EXCEPT ![s].saw[status] = WithStatus(status, UserOf[call[s].row])]
  /\ UNCHANGED <<journals, bal, holdsVars, engineVars>>

(* actionFor: only the async path can freeze.                              *)
Action(score, mode) ==
  CASE score = 4 /\ mode = "async" -> "freeze"
    [] score \in {3, 4} /\ ~(score = 4 /\ mode = "async") -> "block"
    [] score = 2 -> "challenge"
    [] score = 1 -> "flag"
    [] score = 0 -> "allow"

(* The ensemble of prod models, or the floor; an active canary decides in  *)
(* their place.                                                            *)
Deciding(prod, canary) ==
  IF canary # {} THEN {{m} : m \in canary}
  ELSE IF prod # {} THEN {prod}
  ELSE {{Floor}}

DecideEvent(s) ==
  LET d == call[s].row  saw == call[s].saw IN
  /\ At(s, "event", "route")
  /\ saw.prod # None /\ saw.canary # None
  /\ \E by \in Deciding(saw.prod, saw.canary), score \in Scores :
       decided' = [decided EXCEPT ![d] = [action |-> Action(score, Mode[d]), by |-> by]]
  /\ call' = [call EXCEPT ![s].at = "fold", ![s].saw = None]
  /\ UNCHANGED <<journals, bal, holdsVars, registry, served, features, handling, cases, requested,
                 promoted, mishaps>>

(* featureStore.update reads the row and writes it back.                   *)
ReadFeatures(s) ==
  LET u == UserOf[call[s].row] IN
  /\ At(s, "event", "fold")
  /\ call' = [call EXCEPT ![s].at = "write", ![s].saw = features[u]]
  /\ mishaps' = mishaps \cup (IF \E t \in Slots : At(t, "event", "write") /\ UserOf[call[t].row] = u
                            THEN {"overlap"} ELSE {})
  /\ UNCHANGED <<journals, bal, holdsVars, registry, served, decided, features, handling, cases,
                 requested, promoted>>

(* The row is written; publish starts the consumer and does not wait.      *)
WriteFeatures(s) ==
  LET d == call[s].row IN
  /\ At(s, "event", "write")
  /\ features' = [features EXCEPT ![UserOf[d]] = call[s].saw + 1]
  /\ handling' = [handling EXCEPT ![d] =
                    IF Mode[d] = "async" /\ decided[d].action \notin {"allow", "flag"}
                      THEN "open" ELSE "done"]
  /\ Leave(s)
  /\ UNCHANGED <<journals, bal, holdsVars, registry, served, decided, cases, requested, promoted,
                 mishaps>>

-----------------------------------------------------------------------------
(* RemediationService.handle, with FRAUD_AUTO_REMEDIATE *)

Handled(d, from, to) ==
  /\ handling[d] = from
  /\ handling' = [handling EXCEPT ![d] = to]

(* The case, then its first event.                                         *)
OpenCase(d) ==
  /\ Handled(d, "open", IF decided[d].action = "freeze" THEN "request" ELSE "done")
  /\ cases' = [cases EXCEPT ![d] = "open"]
  /\ UNCHANGED <<journals, bal, call, holdsVars, registry, served, decided, features, requested,
                 promoted, mishaps>>

LogFreeze(d) ==
  /\ Handled(d, "request", "callback")
  /\ requested' = requested \cup {d}
  /\ UNCHANGED <<journals, bal, call, holdsVars, registry, served, decided, features, cases,
                 promoted, mishaps>>

(* The bound on callbacks served at once.                                  *)
MayCall == Cardinality({h \in HoldSlots : req[h].op # "idle"}) < MaxCallbacks

(* goemonClient.post: the call gets through, finds the hold of this        *)
(* decision in place, or fails and is logged.                              *)
PostFreeze(d) ==
  \/ MayCall /\ \E h \in HoldSlots : Place(h, UserOf[d], d)
  \/ byDecision[d] > 0 /\ UNCHANGED holdsVars
PostUnfreeze(d) ==
  \/ MayCall /\ \E h \in HoldSlots : Release(h, UserOf[d])
  \/ ~Frozen(UserOf[d]) /\ UNCHANGED holdsVars
PostFails == mishaps' = mishaps \cup {"call"} /\ UNCHANGED holdsVars

CallFreeze(d) ==
  /\ Handled(d, "callback", "done")
  /\ \/ PostFreeze(d) /\ UNCHANGED mishaps
     \/ PostFails
  /\ UNCHANGED <<journals, bal, call, registry, served, decided, features, cases, requested, promoted>>

(* POST /v1/cases/:id/action by an analyst: the action is logged, then     *)
(* done; a decision that has placed its hold before places none again.     *)
CaseAction(d, action) ==
  /\ cases[d] # "none"
  /\ requested' = IF action = "freeze" THEN requested \cup {d} ELSE requested
  /\ \/ action = "freeze" /\ PostFreeze(d) /\ UNCHANGED mishaps
     \/ action = "unfreeze" /\ PostUnfreeze(d) /\ UNCHANGED mishaps
     \/ PostFails
  /\ UNCHANGED <<journals, bal, call, registry, served, decided, features, handling, cases, promoted>>

(* resolve and dismiss end a case whatever the callback did.               *)
ResolveCase(d) ==
  /\ cases[d] = "open"
  /\ cases' = [cases EXCEPT ![d] = "closed"]
  /\ UNCHANGED <<journals, bal, call, holdsVars, registry, served, decided, features, handling,
                 requested, promoted, mishaps>>

-----------------------------------------------------------------------------
(* The fraud team *)

(* retrain: the backend is served, then the version is registered.         *)
MintCandidate(m) ==
  /\ registry[m].status = "none"
  /\ m \notin served
  /\ served' = served \cup {m}
  /\ UNCHANGED <<journals, bal, call, holdsVars, registry, decided, features, handling, cases,
                 requested, promoted, mishaps>>

RegisterCandidate(m) ==
  /\ registry[m].status = "none"
  /\ m \in served
  /\ registry' = [registry EXCEPT ![m] = Registered("shadow", 0)]
  /\ UNCHANGED <<journals, bal, call, holdsVars, served, decided, features, handling, cases,
                 requested, promoted, mishaps>>

Promote(m, status, pct) ==
  /\ registry[m].status # "none"
  /\ registry' = [registry EXCEPT ![m] = Registered(status, IF status = "canary" THEN pct ELSE 0)]
  /\ promoted' = IF status \in {"prod", "canary"} THEN promoted \cup {m} ELSE promoted
  /\ UNCHANGED <<journals, bal, call, holdsVars, served, decided, features, handling, cases,
                 requested, mishaps>>

-----------------------------------------------------------------------------
(* The engine restarts: requests, the bus and minted backends are gone;    *)
(* the registry still routes to them.                                      *)
RestartEngine ==
  /\ call' = [s \in Slots |-> Idle]
  /\ handling' = [d \in Decisions |-> IF handling[d] = "none" THEN "none" ELSE "done"]
  /\ served' = BuiltIn
  /\ mishaps' = mishaps \cup {"restart"}
  /\ UNCHANGED <<journals, bal, holdsVars, registry, decided, features, cases, requested, promoted>>

HoldsStep ==
  /\ \E h \in HoldSlots : PlaceInsert(h) \/ ReleaseInsert(h)
  /\ UNCHANGED <<journals, bal, call, engineVars>>

HoldsDie ==
  /\ \E h \in HoldSlots : HoldsFail(h)
  /\ mishaps' = mishaps \cup {"call"}
  /\ UNCHANGED <<journals, bal, call, registry, served, decided, features, handling, cases, requested,
                 promoted>>

FraudNext ==
  \/ \E s \in Slots :
       \/ \E d \in Decisions : Ingest(s, d)
       \/ \E status \in {"prod", "canary"} : ReadModels(s, status)
       \/ DecideEvent(s) \/ ReadFeatures(s) \/ WriteFeatures(s)
  \/ \E d \in Decisions :
       \/ OpenCase(d) \/ LogFreeze(d) \/ CallFreeze(d) \/ ResolveCase(d)
       \/ \E action \in {"freeze", "unfreeze"} : CaseAction(d, action)
  \/ \E m \in Models : MintCandidate(m) \/ RegisterCandidate(m)
  \/ \E p \in Promotions : Promote(p[1], p[2], p[3])
  \/ RestartEngine \/ HoldsStep \/ HoldsDie

FraudSpec == FraudInit /\ [][FraudNext]_fraudVars

-----------------------------------------------------------------------------
(* Correctness *)

(* A shadow model never decides: whatever is promoted, retired or lost in  *)
(* a restart while events are routed, a decision comes from models that    *)
(* were promoted (router.ts:106-162, retrain.ts:48-62).                    *)
ShadowsOnlyWatch == \A d \in Decisions : decided[d].by \subseteq promoted

(* A hold has its reason: an asynchronous decision with a case, in whose   *)
(* history the freeze was requested before it was asked for                *)
(* (remediationService.ts:33-60, routes.ts:90-112).                        *)
HoldsHaveCases ==
  \A d \in Decisions :
    byDecision[d] > 0 => /\ cases[d] # "none" /\ d \in requested
                         /\ Mode[d] = "async"

(* Unless the engine stopped or a callback failed, a decision to freeze    *)
(* that was dealt with has its hold, or a request on the way               *)
(* (remediationService.ts:47-55, goemonClient.ts:21-41).                   *)
FreezesArrive ==
  \A d \in Decisions :
    mishaps \cap {"restart", "call"} = {} /\ decided[d].action = "freeze" /\ handling[d] = "done" =>
      byDecision[d] > 0 \/ \E h \in HoldSlots : req[h].decision = d

(* Unless two folds of one user overlapped or the engine stopped, the      *)
(* features count every decision (featureStore.ts:85-139): the next event  *)
(* is scored on all that came before.                                      *)
FeaturesCountDecisions ==
  mishaps \cap {"restart", "overlap"} = {} =>
    \A u \in Users :
      features[u] = Cardinality({d \in Decisions :
                      /\ UserOf[d] = u /\ decided[d].action # "none"
                      /\ \A s \in Slots : call[s].row # d})
=============================================================================
