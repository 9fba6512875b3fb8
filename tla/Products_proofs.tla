---------------------------- MODULE Products_proofs ----------------------------
(***************************************************************************)
(* The fraud engine, and all the services together.  The engine is proved  *)
(* for any number of events, cases and models.  Products serves one        *)
(* service at a time: what is proved of a service by itself (here and in   *)
(* Rails_proofs, Services_proofs and Offers_proofs) holds of it among the  *)
(* others, on the one ledger and the one table of requests they share.     *)
(***************************************************************************)
EXTENDS Products, Services_proofs, Offers_proofs

-----------------------------------------------------------------------------
(* The fraud engine: promoted models decide, and a freeze has a case.      *)

Verdicts == {"freeze", "block", "challenge", "flag", "allow"}
ModelStatuses == {"none", "prod", "canary", "shadow", "retired"}
Stages == {"none", "open", "request", "callback", "done"}

FraudTypeOK ==
  /\ registry \in [Models -> [status : ModelStatuses, pct : Nat]]
  /\ served \subseteq Models /\ promoted \subseteq Models
  /\ decided \in [Decisions -> [action : Verdicts \cup {"none"}, by : SUBSET Models]]
  /\ features \in [Users -> Nat]
  /\ handling \in [Decisions -> Stages]
  /\ cases \in [Decisions -> {"none", "open", "closed"}]
  /\ byDecision \in [Decisions -> Nat]
  /\ req \in [HoldSlots -> Inserts]

EventCall(c) ==
  \/ c = Idle
  \/ /\ c.row \in Decisions
     /\ \/ /\ c.at = "route"
           /\ c = Request("event", "route", c.row, [prod |-> c.saw.prod, canary |-> c.saw.canary])
        \/ c = Request("event", "fold", c.row, None)
        \/ c.at = "write" /\ c = Request("event", "write", c.row, c.saw) /\ c.saw \in Nat

EventCalls == call = [s \in Slots |-> call[s]] /\ \A s \in Slots : EventCall(call[s])

(* An event is decided by one request, and dealt with after that.          *)
EventsOnce ==
  /\ \A s, t \in Slots : call[s].row \in Decisions /\ call[s].row = call[t].row => s = t
  /\ \A s \in Slots :
       /\ call[s].at = "route" => decided[call[s].row].action = "none"
       /\ call[s].at \in {"fold", "write"} =>
            decided[call[s].row].action # "none" /\ handling[call[s].row] = "none"
  /\ \A d \in Decisions : handling[d] # "none" => decided[d].action # "none"

(* A status that makes a model decide was given by a promotion.            *)
RoutesPromoted ==
  /\ Floor \in promoted
  /\ \A m \in Models : registry[m].status \in {"prod", "canary"} => m \in promoted
  /\ \A s \in Slots : call[s].at = "route" =>
       /\ call[s].saw.prod = None \/ call[s].saw.prod \subseteq promoted
       /\ call[s].saw.canary = None \/ call[s].saw.canary \subseteq promoted
  /\ ShadowsOnlyWatch

(* A freeze is decided, has a case, is requested and is asked for, in this *)
(* order.                                                                  *)
Arrives(d) ==
  mishaps \cap {"restart", "call"} = {} /\ decided[d].action = "freeze" /\ handling[d] = "done" =>
    byDecision[d] > 0 \/ \E h \in HoldSlots : req[h].decision = d

Ordered(d) ==
  /\ decided[d].action = "freeze" => Mode[d] = "async"
  /\ handling[d] \in {"open", "request", "callback"} => Mode[d] = "async"
  /\ cases[d] # "none" => Mode[d] = "async"
  /\ handling[d] \in {"request", "callback"} => cases[d] # "none"
  /\ handling[d] = "callback" => d \in requested
  /\ d \in requested => cases[d] # "none"
  /\ byDecision[d] > 0 => d \in requested
  /\ Arrives(d)

HoldsAsked ==
  /\ requested \subseteq Decisions
  /\ \A h \in HoldSlots :
       /\ req[h].op = "place" => req[h].decision \in requested
       /\ req[h].op # "place" => req[h].decision = NoDecision

FreezesInOrder == HoldsAsked /\ \A d \in Decisions : Ordered(d)

Counted(u) ==
  {d \in Decisions : /\ UserOf[d] = u /\ decided[d].action # "none"
                     /\ \A s \in Slots : call[s].row # d}

(* Folds that do not overlap: the one that runs has read what is there.    *)
FoldsAlone ==
  mishaps \cap {"restart", "overlap"} = {} =>
    /\ \A u \in Users : IsFiniteSet(Counted(u)) /\ features[u] = Cardinality(Counted(u))
    /\ \A s \in Slots : call[s].at = "write" => call[s].saw = features[UserOf[call[s].row]]
    /\ \A s, t \in Slots :
         /\ call[s].at = "write" /\ call[t].at = "write"
         /\ UserOf[call[s].row] = UserOf[call[t].row]
         => s = t

FraudInv ==
  /\ FraudTypeOK
  /\ EventCalls
  /\ EventsOnce
  /\ RoutesPromoted
  /\ FreezesInOrder
  /\ FoldsAlone

LEMMA FraudInitInv == FraudInit => FraudInv
<1> SUFFICES ASSUME FraudInit PROVE FraudInv
  OBVIOUS
<1>1. /\ call = [s \in Slots |-> call[s]]
      /\ \A s \in Slots : call[s] = Idle /\ call[s].at = "idle" /\ call[s].row = None
  BY DEF FraudInit, ServiceInit, Idle, Request
<1>2. /\ decided = [d \in Decisions |-> [action |-> "none", by |-> {}]]
      /\ handling = [d \in Decisions |-> "none"] /\ cases = [d \in Decisions |-> "none"]
      /\ requested = {} /\ promoted = {Floor} /\ features = [u \in Users |-> 0] /\ served = BuiltIn
      /\ byDecision = [d \in Decisions |-> 0] /\ req = [h \in HoldSlots |-> NoInsert]
  BY DEF FraudInit, HoldsInit
<1>3. \A m \in Models : /\ registry[m] \in [status : ModelStatuses, pct : Nat]
                        /\ registry[m].status \in {"prod", "canary"} => m = Floor
  BY DEF FraudInit, Registered, ModelStatuses
<1>4. /\ NoInsert \in Inserts /\ NoInsert.op = "idle" /\ NoInsert.decision = NoDecision
  BY DEF NoInsert, Insert, Inserts
<1>5. FraudTypeOK
  <2>1. registry \in [Models -> [status : ModelStatuses, pct : Nat]]
    BY <1>3 DEF FraudInit
  <2>2. decided \in [Decisions -> [action : Verdicts \cup {"none"}, by : SUBSET Models]]
    BY <1>2
  <2> QED
    BY <1>2, <1>4, <2>1, <2>2, FraudAssumption DEF FraudTypeOK, Stages
<1>6. EventCalls /\ EventsOnce
  BY <1>1, <1>2, FraudAssumption DEF EventCalls, EventCall, EventsOnce
<1>7. RoutesPromoted
  BY <1>1, <1>2, <1>3 DEF RoutesPromoted, ShadowsOnlyWatch
<1>8. FreezesInOrder
  BY <1>2, <1>4 DEF FreezesInOrder, HoldsAsked, Ordered, Arrives
<1>9. FoldsAlone
  <2>1. \A u \in Users : Counted(u) = {}
    BY <1>2 DEF Counted
  <2> QED
    BY <1>1, <1>2, <2>1, FS_EmptySet DEF FoldsAlone
<1> QED
  BY <1>5, <1>6, <1>7, <1>8, <1>9 DEF FraudInv

(* What is not touched stays.                                              *)
LEMMA CallsStay ==
  ASSUME FraudInv, call' = call, decided' = decided,
         \A d \in Decisions : handling[d] = "none" <=> handling'[d] = "none"
  PROVE  EventCalls' /\ EventsOnce'
<1>1. EventCalls'
  BY DEF FraudInv, EventCalls, EventCall
<1>2. \A s \in Slots : call[s].at \in {"fold", "write"} => call[s].row \in Decisions
  <2>1. ASSUME NEW s \in Slots, call[s].at \in {"fold", "write"} PROVE call[s].row \in Decisions
    <3>1. PICK c : c = call[s] /\ EventCall(c)
      BY DEF FraudInv, EventCalls
    <3> QED
      BY <2>1, <3>1 DEF EventCall, Idle, Request
  <2> QED
    BY <2>1
<1> QED
  BY <1>1, <1>2 DEF FraudInv, EventsOnce

LEMMA RoutesStay ==
  ASSUME FraudInv, call' = call, decided' = decided, registry' = registry, promoted' = promoted
  PROVE  RoutesPromoted'
BY DEF FraudInv, RoutesPromoted, ShadowsOnlyWatch

LEMMA FoldsStay ==
  ASSUME FraudInv, call' = call, decided' = decided, features' = features, mishaps \subseteq mishaps'
  PROVE  FoldsAlone'
<1>1. \A u \in Users : Counted(u)' = Counted(u)
  BY DEF Counted
<1>2. mishaps' \cap {"restart", "overlap"} = {} => mishaps \cap {"restart", "overlap"} = {}
  OBVIOUS
<1> QED
  BY <1>1, <1>2 DEF FraudInv, FoldsAlone

LEMMA OrderedStays ==
  ASSUME FraudInv, NEW d \in Decisions,
         decided'[d].action = "freeze" <=> decided[d].action = "freeze",
         handling'[d] = handling[d], cases[d] = "none" <=> cases'[d] = "none",
         d \in requested' <=> d \in requested, byDecision'[d] = byDecision[d],
         mishaps \subseteq mishaps',
         \A h \in HoldSlots : req[h].decision = d => req'[h].decision = d
  PROVE  Ordered(d)'
<1>1. Ordered(d)
  BY DEF FraudInv, FreezesInOrder
<1>2. mishaps' \cap {"restart", "call"} = {} => mishaps \cap {"restart", "call"} = {}
  OBVIOUS
<1>3. Arrives(d)'
  BY <1>1, <1>2 DEF Ordered, Arrives
<1> QED
  BY <1>1, <1>3 DEF Ordered

LEMMA OrderStays ==
  ASSUME FraudInv, requested' = requested, byDecision' = byDecision, req' = req,
         handling' = handling, cases' = cases, mishaps \subseteq mishaps',
         \A d \in Decisions : decided'[d].action = "freeze" <=> decided[d].action = "freeze"
  PROVE  FreezesInOrder'
<1>1. HoldsAsked'
  BY DEF FraudInv, FreezesInOrder, HoldsAsked
<1>2. ASSUME NEW d \in Decisions PROVE Ordered(d)'
  BY OrderedStays
<1> QED
  BY <1>1, <1>2 DEF FreezesInOrder

-----------------------------------------------------------------------------
(* Events.                                                                 *)
LEMMA EventPlaces ==
  ASSUME FraudInv, NEW s \in Slots
  PROVE  /\ call[s] = Request(call[s].op, call[s].at, call[s].row, call[s].saw)
         /\ EventCall(call[s])
         /\ call[s].at \in {"route", "fold", "write"} => call[s].row \in Decisions /\ call[s].op = "event"
         /\ call[s].at \notin {"route", "fold", "write"} => call[s] = Idle /\ call[s].row = None
         /\ call[s].at = "route" => call[s].saw = [prod |-> call[s].saw.prod, canary |-> call[s].saw.canary]
         /\ call[s].at = "write" => call[s].saw \in Nat
<1>1. PICK c : c = call[s] /\ EventCall(c)
  BY DEF FraudInv, EventCalls
<1>2. CASE c = Idle
  BY <1>1, <1>2 DEF Idle, Request
<1>3. CASE c.at = "route" /\ c.row \in Decisions
           /\ c = Request("event", "route", c.row, [prod |-> c.saw.prod, canary |-> c.saw.canary])
  BY <1>1, <1>3 DEF Request
<1>4. CASE c = Request("event", "fold", c.row, None) /\ c.row \in Decisions
  BY <1>1, <1>4 DEF Request
<1>5. CASE c = Request("event", "write", c.row, c.saw) /\ c.saw \in Nat /\ c.row \in Decisions
  BY <1>1, <1>5 DEF Request
<1> QED
  BY <1>1, <1>2, <1>3, <1>4, <1>5 DEF EventCall

LEMMA EventMoves ==
  ASSUME FraudInv, NEW s \in Slots, NEW c, EventCall(c), Becomes(s, c)
  PROVE  /\ call'[s] = c /\ \A t \in Slots \ {s} : call'[t] = call[t]
         /\ EventCalls'
<1>1. /\ call'[s] = c /\ \A t \in Slots \ {s} : call'[t] = call[t]
      /\ call' = [t \in Slots |-> call'[t]]
  BY DEF FraudInv, EventCalls, Becomes
<1>2. \A t \in Slots : EventCall(call'[t])
  BY <1>1 DEF FraudInv, EventCalls
<1> QED
  BY <1>1, <1>2 DEF EventCalls, EventCall

(* A request goes on with the same event.                                  *)
LEMMA EventGoes ==
  ASSUME FraudInv, NEW s \in Slots, NEW at, NEW saw,
         call' = [call EXCEPT ![s].at = at, ![s].saw = saw]
  PROVE  Becomes(s, Request(call[s].op, at, call[s].row, saw))
<1>1. PICK c : c = call[s] /\ c = [op |-> c.op, at |-> c.at, row |-> c.row, saw |-> c.saw]
  BY EventPlaces DEF Request
<1>2. PICK d : d = [c EXCEPT !.at = at]
  OBVIOUS
<1>3. d = [op |-> c.op, at |-> at, row |-> c.row, saw |-> c.saw]
  BY <1>1, <1>2
<1>4. [d EXCEPT !.saw = saw] = [op |-> c.op, at |-> at, row |-> c.row, saw |-> saw]
  BY <1>3
<1>5. call' = [call EXCEPT ![s] = [d EXCEPT !.saw = saw]]
  BY <1>1, <1>2
<1> QED
  BY <1>1, <1>4, <1>5 DEF Becomes, Request

(* The rows that requests are on stay, and what was decided of the others. *)
LEMMA CountsStay ==
  ASSUME \A t \in Slots : call'[t].row = call[t].row,
         \A d \in Decisions : (\A t \in Slots : call[t].row # d) => decided'[d] = decided[d]
  PROVE  \A u \in Users : Counted(u)' = Counted(u)
BY DEF Counted

LEMMA IngestInv ==
  ASSUME FraudInv, NEW s \in Slots, NEW d \in Decisions, Ingest(s, d)
  PROVE  FraudInv'
<1>1. PICK c : c = Request("event", "route", d, NothingRead)
  OBVIOUS
<1>2. /\ decided[d].action = "none" /\ \A t \in Slots : call[t].row # d
      /\ Becomes(s, c) /\ call[s] = Idle /\ call[s].row = None /\ call[s].at = "idle"
      /\ UNCHANGED <<holdsVars, engineVars>>
  BY <1>1 DEF Ingest, Begin, Becomes, Idle, Request
<1>3. /\ c.row = d /\ c.at = "route" /\ c.saw.prod = None /\ c.saw.canary = None /\ EventCall(c)
  BY <1>1 DEF EventCall, Request, NothingRead
<1>4. call'[s] = c /\ (\A t \in Slots \ {s} : call'[t] = call[t]) /\ EventCalls'
  BY <1>2, <1>3, EventMoves
<1>5. FraudTypeOK'
  BY <1>2 DEF FraudInv, FraudTypeOK, holdsVars, engineVars
<1>6. EventsOnce'
  BY <1>2, <1>3, <1>4 DEF FraudInv, EventsOnce, engineVars
<1>7. RoutesPromoted'
  BY <1>2, <1>3, <1>4 DEF FraudInv, RoutesPromoted, ShadowsOnlyWatch, engineVars
<1>8. FreezesInOrder'
  BY <1>2, OrderStays DEF holdsVars, engineVars
<1>9. FoldsAlone'
  <2>1. \A u \in Users : Counted(u)' = Counted(u)
    <3>1. ASSUME NEW e \in Decisions
          PROVE  decided[e].action # "none" /\ (\A t \in Slots : call[t].row # e) <=>
                 decided'[e].action # "none" /\ (\A t \in Slots : call'[t].row # e)
      <4>1. CASE e = d
        BY <1>2, <4>1 DEF engineVars
      <4>2. CASE e # d
        BY <1>2, <1>3, <1>4, <4>2, FraudAssumption DEF engineVars
      <4> QED
        BY <4>1, <4>2
    <3> QED
      BY <3>1 DEF Counted
  <2>2. \A t \in Slots : call'[t].at = "write" => t # s /\ call'[t] = call[t]
    BY <1>3, <1>4
  <2> QED
    BY <1>2, <2>1, <2>2 DEF FraudInv, FoldsAlone, engineVars
<1> QED
  BY <1>4, <1>5, <1>6, <1>7, <1>8, <1>9 DEF FraudInv

LEMMA StatusPromoted ==
  ASSUME FraudInv, NEW status \in {"prod", "canary"}, NEW u
  PROVE  WithStatus(status, u) \subseteq promoted
BY DEF FraudInv, FraudTypeOK, RoutesPromoted, WithStatus

LEMMA ReadModelsInv ==
  ASSUME FraudInv, NEW s \in Slots, NEW status \in {"prod", "canary"}, ReadModels(s, status)
  PROVE  FraudInv'
<1>1. PICK found : found = WithStatus(status, UserOf[call[s].row])
  OBVIOUS
<1>2. /\ call[s].op = "event" /\ call[s].at = "route"
      /\ call' = [call EXCEPT ![s].saw[status] = found]
      /\ UNCHANGED <<holdsVars, engineVars>>
  BY <1>1 DEF ReadModels, At
<1>3. found \subseteq promoted
  BY <1>1, StatusPromoted
<1>4. PICK saw : saw = [call[s].saw EXCEPT ![status] = found]
  OBVIOUS
<1>5. PICK c : c = Request("event", "route", call[s].row, saw)
  OBVIOUS
<1>6. /\ saw = [prod |-> saw.prod, canary |-> saw.canary]
      /\ saw.prod = IF status = "prod" THEN found ELSE call[s].saw.prod
      /\ saw.canary = IF status = "canary" THEN found ELSE call[s].saw.canary
  <2>1. PICK p, q : call[s].saw = [prod |-> p, canary |-> q]
    BY <1>2, EventPlaces
  <2>2. CASE status = "prod"
    BY <1>4, <2>1, <2>2
  <2>3. CASE status = "canary"
    BY <1>4, <2>1, <2>3
  <2> QED
    BY <2>2, <2>3
<1>7. Becomes(s, c)
  <2>1. PICK d : d = call[s] /\ d = [op |-> "event", at |-> "route", row |-> d.row, saw |-> d.saw]
    BY <1>2, EventPlaces DEF Request
  <2>2. [d EXCEPT !.saw = saw] = c
    BY <1>5, <2>1 DEF Request
  <2>3. call' = [call EXCEPT ![s].saw = saw]
    BY <1>2, <1>4
  <2> QED
    BY <2>1, <2>2, <2>3 DEF Becomes
<1>8. c.row = call[s].row /\ c.at = "route" /\ c.saw = saw /\ c.row \in Decisions
  BY <1>2, <1>5, EventPlaces DEF Request
<1>9. EventCall(c)
  BY <1>5, <1>6, <1>8 DEF EventCall
<1>10. call'[s] = c /\ (\A t \in Slots \ {s} : call'[t] = call[t]) /\ EventCalls'
  BY <1>7, <1>9, EventMoves
<1>11. FraudTypeOK'
  BY <1>2 DEF FraudInv, FraudTypeOK, holdsVars, engineVars
<1>12. EventsOnce'
  BY <1>2, <1>8, <1>10 DEF FraudInv, EventsOnce, engineVars
<1>13. RoutesPromoted'
  <2>1. /\ c.saw.prod = None \/ c.saw.prod \subseteq promoted
        /\ c.saw.canary = None \/ c.saw.canary \subseteq promoted
    BY <1>2, <1>3, <1>6, <1>8 DEF FraudInv, RoutesPromoted
  <2> QED
    BY <1>2, <1>10, <2>1 DEF FraudInv, RoutesPromoted, ShadowsOnlyWatch, engineVars
<1>14. FreezesInOrder'
  BY <1>2, OrderStays DEF holdsVars, engineVars
<1>15. FoldsAlone'
  <2>1. \A u \in Users : Counted(u)' = Counted(u)
    BY <1>2, <1>8, <1>10, CountsStay DEF engineVars
  <2>2. \A t \in Slots : call'[t].at = "write" => t # s /\ call'[t] = call[t]
    BY <1>8, <1>10
  <2> QED
    BY <1>2, <2>1, <2>2 DEF FraudInv, FoldsAlone, engineVars
<1> QED
  BY <1>10, <1>11, <1>12, <1>13, <1>14, <1>15 DEF FraudInv

(* Only the asynchronous path freezes.                                     *)
LEMMA ActionIs ==
  ASSUME NEW score \in 0..4, NEW mode \in {"score", "async"}
  PROVE  /\ Action(score, mode) \in Verdicts
         /\ Action(score, mode) = "freeze" => mode = "async"
<1>1. score \in {0, 1, 2, 3, 4}
  OBVIOUS
<1> QED
  BY <1>1 DEF Action, Verdicts

LEMMA DecideEventInv ==
  ASSUME FraudInv, NEW s \in Slots, DecideEvent(s)
  PROVE  FraudInv'
<1>1. PICK d, saw : d = call[s].row /\ saw = call[s].saw
  OBVIOUS
<1>2. /\ call[s].op = "event" /\ call[s].at = "route" /\ saw.prod # None /\ saw.canary # None
      /\ call' = [call EXCEPT ![s].at = "fold", ![s].saw = None]
      /\ UNCHANGED <<holdsVars, registry, served, features, handling, cases, requested,
                     promoted, mishaps>>
  BY <1>1 DEF DecideEvent, At
<1>3. PICK by \in Deciding(saw.prod, saw.canary), score \in Scores :
        decided' = [decided EXCEPT ![d] = [action |-> Action(score, Mode[d]), by |-> by]]
  BY <1>1 DEF DecideEvent
<1>4. d \in Decisions
  BY <1>1, <1>2, EventPlaces
<1>5. PICK action : action = Action(score, Mode[d])
  OBVIOUS
<1>6. action \in Verdicts /\ (action = "freeze" => Mode[d] = "async")
  BY <1>4, <1>5, ActionIs, FraudAssumption
<1>7. by \subseteq promoted
  <2>1. saw.prod \subseteq promoted /\ saw.canary \subseteq promoted /\ Floor \in promoted
    BY <1>1, <1>2 DEF FraudInv, RoutesPromoted
  <2> QED
    BY <1>3, <2>1 DEF Deciding
<1>8. by \subseteq Models
  BY <1>7 DEF FraudInv, FraudTypeOK
<1>9. PICK c : c = Request("event", "fold", d, None)
  OBVIOUS
<1>10. Becomes(s, c) /\ c.row = d /\ c.at = "fold" /\ EventCall(c)
  BY <1>1, <1>2, <1>4, <1>9, EventGoes DEF EventCall, Request
<1>11. call'[s] = c /\ (\A t \in Slots \ {s} : call'[t] = call[t]) /\ EventCalls'
  BY <1>10, EventMoves
<1>12. /\ decided'[d].action = action /\ decided'[d].by = by
       /\ \A e \in Decisions \ {d} : decided'[e] = decided[e]
       /\ decided' \in [Decisions -> [action : Verdicts \cup {"none"}, by : SUBSET Models]]
  <2>1. [action |-> action, by |-> by] \in [action : Verdicts \cup {"none"}, by : SUBSET Models]
    BY <1>6, <1>8
  <2> QED
    BY <1>3, <1>4, <1>5, <2>1 DEF FraudInv, FraudTypeOK
<1>13. decided[d].action = "none" /\ handling[d] = "none" /\ \A t \in Slots \ {s} : call[t].row # d
  BY <1>1, <1>2, <1>4 DEF FraudInv, EventsOnce
<1>14. FraudTypeOK'
  BY <1>2, <1>12 DEF FraudInv, FraudTypeOK, holdsVars
<1>15. EventsOnce'
  <2>1. \A t \in Slots \ {s} : call[t].at \in {"route", "fold", "write"} => call[t].row \in Decisions \ {d}
    BY <1>13, EventPlaces
  <2>2. \A t \in Slots : call'[t].row = call[t].row
    BY <1>1, <1>10, <1>11
  <2>3. action # "none" /\ handling' = handling
    BY <1>2, <1>6 DEF Verdicts
  <2>4. \A t, v \in Slots : call'[t].row \in Decisions /\ call'[t].row = call'[v].row => t = v
    BY <2>2 DEF FraudInv, EventsOnce
  <2>5. \A t \in Slots :
          /\ call'[t].at = "route" => decided'[call'[t].row].action = "none"
          /\ call'[t].at \in {"fold", "write"} =>
               decided'[call'[t].row].action # "none" /\ handling'[call'[t].row] = "none"
    <3>1. ASSUME NEW t \in Slots \ {s}
          PROVE  /\ call[t].at = "route" => decided'[call[t].row].action = "none"
                 /\ call[t].at \in {"fold", "write"} =>
                      decided'[call[t].row].action # "none" /\ handling'[call[t].row] = "none"
      BY <1>12, <2>1, <2>3 DEF FraudInv, EventsOnce
    <3> QED
      BY <1>10, <1>11, <1>12, <1>13, <2>3, <3>1
  <2>6. \A e \in Decisions : handling'[e] # "none" => decided'[e].action # "none"
    BY <1>12, <1>13, <2>3 DEF FraudInv, EventsOnce
  <2> QED
    BY <2>4, <2>5, <2>6 DEF EventsOnce
<1>16. RoutesPromoted'
  <2>1. ShadowsOnlyWatch'
    BY <1>2, <1>7, <1>12 DEF FraudInv, RoutesPromoted, ShadowsOnlyWatch
  <2> QED
    BY <1>2, <1>10, <1>11, <2>1 DEF FraudInv, RoutesPromoted
<1>17. FreezesInOrder'
  <2>1. HoldsAsked'
    BY <1>2 DEF FraudInv, FreezesInOrder, HoldsAsked, holdsVars
  <2>2. ASSUME NEW e \in Decisions \ {d} PROVE Ordered(e)'
    BY <1>2, <1>12, OrderedStays DEF holdsVars
  <2>3. Ordered(d)'
    <3>1. Ordered(d)
      BY <1>4 DEF FraudInv, FreezesInOrder
    <3> QED
      BY <1>2, <1>6, <1>12, <1>13, <3>1 DEF Ordered, Arrives, holdsVars
  <2> QED
    BY <2>1, <2>2, <2>3 DEF FreezesInOrder
<1>18. FoldsAlone'
  <2>1. \A t \in Slots : call'[t].row = call[t].row
    BY <1>1, <1>10, <1>11
  <2>2. \A u \in Users : Counted(u)' = Counted(u)
    BY <1>1, <1>12, <2>1, CountsStay
  <2>3. \A t \in Slots : call'[t].at = "write" => t # s /\ call'[t] = call[t]
    BY <1>10, <1>11
  <2>4. features' = features /\ mishaps' = mishaps
    BY <1>2
  <2> QED
    BY <2>2, <2>3, <2>4 DEF FraudInv, FoldsAlone
<1> QED
  BY <1>11, <1>14, <1>15, <1>16, <1>17, <1>18 DEF FraudInv

LEMMA ReadFeaturesInv ==
  ASSUME FraudInv, NEW s \in Slots, ReadFeatures(s)
  PROVE  FraudInv'
<1>1. PICK d, u : d = call[s].row /\ u = UserOf[d]
  OBVIOUS
<1>2. /\ call[s].op = "event" /\ call[s].at = "fold"
      /\ call' = [call EXCEPT ![s].at = "write", ![s].saw = features[u]]
      /\ mishaps' = mishaps \cup (IF \E t \in Slots : At(t, "event", "write") /\ UserOf[call[t].row] = u
                                  THEN {"overlap"} ELSE {})
      /\ UNCHANGED <<holdsVars, registry, served, decided, features, handling, cases,
                     requested, promoted>>
  BY <1>1 DEF ReadFeatures, At
<1>3. d \in Decisions /\ u \in Users /\ features[u] \in Nat
  <2>1. d \in Decisions
    BY <1>1, <1>2, EventPlaces
  <2> QED
    BY <1>1, <2>1, FraudAssumption DEF FraudInv, FraudTypeOK
<1>4. PICK c : c = Request("event", "write", d, features[u])
  OBVIOUS
<1>5. /\ Becomes(s, c) /\ c.row = d /\ c.at = "write" /\ c.saw = features[u] /\ EventCall(c)
  BY <1>1, <1>2, <1>3, <1>4, EventGoes DEF EventCall, Request
<1>6. call'[s] = c /\ (\A t \in Slots \ {s} : call'[t] = call[t]) /\ EventCalls'
  BY <1>5, EventMoves
<1>7. FraudTypeOK'
  BY <1>2 DEF FraudInv, FraudTypeOK, holdsVars
<1>8. decided' = decided /\ handling' = handling /\ mishaps \subseteq mishaps' /\ features' = features
  BY <1>2
<1>9. EventsOnce'
  <2>1. \A t \in Slots : call'[t].row = call[t].row
    BY <1>1, <1>5, <1>6
  <2>2. decided[d].action # "none" /\ handling[d] = "none"
    BY <1>1, <1>2 DEF FraudInv, EventsOnce
  <2> QED
    BY <1>5, <1>6, <1>8, <2>1, <2>2 DEF FraudInv, EventsOnce
<1>10. RoutesPromoted'
  BY <1>2, <1>5, <1>6 DEF FraudInv, RoutesPromoted, ShadowsOnlyWatch
<1>11. FreezesInOrder'
  BY <1>2, <1>8, OrderStays DEF holdsVars
<1>12. FoldsAlone'
  <2>1. \A v \in Users : Counted(v)' = Counted(v)
    BY <1>1, <1>5, <1>6, <1>8, CountsStay
  <2>2. SUFFICES ASSUME mishaps' \cap {"restart", "overlap"} = {}
                 PROVE  /\ \A t \in Slots : call'[t].at = "write" => call'[t].saw = features[UserOf[call'[t].row]]
                        /\ \A t, v \in Slots :
                             /\ call'[t].at = "write" /\ call'[v].at = "write"
                             /\ UserOf[call'[t].row] = UserOf[call'[v].row]
                             => t = v
    <3>1. mishaps' \cap {"restart", "overlap"} = {} => mishaps \cap {"restart", "overlap"} = {}
      BY <1>8
    <3> QED
      BY <1>8, <2>1, <2>2, <3>1 DEF FraudInv, FoldsAlone
  <2>3. mishaps \cap {"restart", "overlap"} = {}
    BY <1>8, <2>2
  <2>4. \A t \in Slots : call[t].at = "write" => UserOf[call[t].row] # u
    <3>1. ~ \E t \in Slots : At(t, "event", "write") /\ UserOf[call[t].row] = u
      <4>1. SUFFICES ASSUME \E t \in Slots : At(t, "event", "write") /\ UserOf[call[t].row] = u
                     PROVE  "overlap" \in mishaps'
        BY <2>2
      <4> QED
        BY <1>2, <4>1
    <3>2. \A t \in Slots : call[t].at = "write" => At(t, "event", "write")
      BY EventPlaces DEF At
    <3> QED
      BY <3>1, <3>2
  <2>5. /\ \A t \in Slots : call[t].at = "write" => call[t].saw = features[UserOf[call[t].row]]
        /\ \A t, v \in Slots :
             /\ call[t].at = "write" /\ call[v].at = "write"
             /\ UserOf[call[t].row] = UserOf[call[v].row]
             => t = v
    BY <2>3 DEF FraudInv, FoldsAlone
  <2> QED
    BY <1>1, <1>5, <1>6, <2>4, <2>5
<1> QED
  BY <1>6, <1>7, <1>9, <1>10, <1>11, <1>12 DEF FraudInv

LEMMA WriteFeaturesInv ==
  ASSUME FraudInv, NEW s \in Slots, WriteFeatures(s)
  PROVE  FraudInv'
<1>1. PICK d, u, stage :
        /\ d = call[s].row /\ u = UserOf[d]
        /\ stage = IF Mode[d] = "async" /\ decided[d].action \notin {"allow", "flag"} THEN "open" ELSE "done"
  OBVIOUS
<1>2. /\ call[s].op = "event" /\ call[s].at = "write" /\ Leave(s)
      /\ features' = [features EXCEPT ![u] = call[s].saw + 1]
      /\ handling' = [handling EXCEPT ![d] = stage]
      /\ UNCHANGED <<holdsVars, registry, served, decided, cases, requested, promoted, mishaps>>
  BY <1>1 DEF WriteFeatures, At
<1>3. d \in Decisions /\ u \in Users /\ call[s].saw \in Nat
  <2>1. d \in Decisions /\ call[s].saw \in Nat
    BY <1>1, <1>2, EventPlaces
  <2> QED
    BY <1>1, <2>1, FraudAssumption
<1>4. Becomes(s, Idle) /\ EventCall(Idle) /\ Idle.at = "idle" /\ Idle.row = None
  BY <1>2 DEF Leave, Becomes, EventCall, Idle, Request
<1>5. call'[s] = Idle /\ (\A t \in Slots \ {s} : call'[t] = call[t]) /\ EventCalls'
  BY <1>4, EventMoves
<1>6. /\ features' \in [Users -> Nat] /\ features'[u] = call[s].saw + 1
      /\ \A v \in Users \ {u} : features'[v] = features[v]
      /\ handling' \in [Decisions -> Stages] /\ handling'[d] = stage
      /\ \A e \in Decisions \ {d} : handling'[e] = handling[e]
  <2>1. stage \in Stages
    BY <1>1 DEF Stages
  <2> QED
    BY <1>2, <1>3, <2>1 DEF FraudInv, FraudTypeOK
<1>7. FraudTypeOK'
  BY <1>2, <1>6 DEF FraudInv, FraudTypeOK, holdsVars
<1>8. /\ decided[d].action # "none" /\ handling[d] = "none"
      /\ \A t \in Slots \ {s} : call[t].row # d
  BY <1>1, <1>2, <1>3 DEF FraudInv, EventsOnce
<1>9. decided' = decided /\ mishaps' = mishaps
  BY <1>2
<1>10. EventsOnce'
  <2>1. \A t \in Slots \ {s} : call[t].at \in {"route", "fold", "write"} => call[t].row \in Decisions \ {d}
    BY <1>8, EventPlaces
  <2>2. \A t, v \in Slots : call'[t].row \in Decisions /\ call'[t].row = call'[v].row => t = v
    BY <1>4, <1>5, FraudAssumption DEF FraudInv, EventsOnce
  <2>3. \A t \in Slots :
          /\ call'[t].at = "route" => decided'[call'[t].row].action = "none"
          /\ call'[t].at \in {"fold", "write"} =>
               decided'[call'[t].row].action # "none" /\ handling'[call'[t].row] = "none"
    <3>1. ASSUME NEW t \in Slots \ {s}
          PROVE  /\ call[t].at = "route" => decided'[call[t].row].action = "none"
                 /\ call[t].at \in {"fold", "write"} =>
                      decided'[call[t].row].action # "none" /\ handling'[call[t].row] = "none"
      BY <1>6, <1>9, <2>1 DEF FraudInv, EventsOnce
    <3> QED
      BY <1>4, <1>5, <3>1
  <2>4. \A e \in Decisions : handling'[e] # "none" => decided'[e].action # "none"
    BY <1>6, <1>8, <1>9 DEF FraudInv, EventsOnce
  <2> QED
    BY <2>2, <2>3, <2>4 DEF EventsOnce
<1>11. RoutesPromoted'
  BY <1>2, <1>4, <1>5 DEF FraudInv, RoutesPromoted, ShadowsOnlyWatch
<1>12. FreezesInOrder'
  <2>1. HoldsAsked'
    BY <1>2 DEF FraudInv, FreezesInOrder, HoldsAsked, holdsVars
  <2>2. ASSUME NEW e \in Decisions \ {d} PROVE Ordered(e)'
    BY <1>2, <1>6, OrderedStays DEF holdsVars
  <2>3. Ordered(d)'
    <3>1. Ordered(d)
      BY <1>3 DEF FraudInv, FreezesInOrder
    <3>2. stage \in {"open", "done"} /\ (stage = "open" => Mode[d] = "async")
          /\ (decided[d].action = "freeze" => stage = "open")
      BY <1>1, <3>1 DEF Ordered
    <3>3. /\ byDecision' = byDecision /\ cases' = cases /\ requested' = requested
      BY <1>2 DEF holdsVars
    <3> QED
      BY <1>6, <1>9, <3>1, <3>2, <3>3 DEF Ordered, Arrives
  <2> QED
    BY <2>1, <2>2, <2>3 DEF FreezesInOrder
<1>13. FoldsAlone'
  <2>1. SUFFICES ASSUME mishaps \cap {"restart", "overlap"} = {}
                 PROVE  /\ \A v \in Users : IsFiniteSet(Counted(v)') /\ features'[v] = Cardinality(Counted(v)')
                        /\ \A t \in Slots : call'[t].at = "write" => call'[t].saw = features'[UserOf[call'[t].row]]
                        /\ \A t, v \in Slots :
                             /\ call'[t].at = "write" /\ call'[v].at = "write"
                             /\ UserOf[call'[t].row] = UserOf[call'[v].row]
                             => t = v
    BY <1>9 DEF FoldsAlone
  <2>2. /\ \A v \in Users : IsFiniteSet(Counted(v)) /\ features[v] = Cardinality(Counted(v))
        /\ \A t \in Slots : call[t].at = "write" => call[t].saw = features[UserOf[call[t].row]]
        /\ \A t, v \in Slots :
             /\ call[t].at = "write" /\ call[v].at = "write"
             /\ UserOf[call[t].row] = UserOf[call[v].row]
             => t = v
    BY <2>1 DEF FraudInv, FoldsAlone
  <2>3. \A e \in Decisions : (\A t \in Slots : call'[t].row # e) <=>
                             e = d \/ \A t \in Slots : call[t].row # e
    <3>1. \A e \in Decisions : None # e
      BY FraudAssumption
    <3>2. \A e \in Decisions : (\A t \in Slots : call'[t].row # e) <=> \A t \in Slots \ {s} : call[t].row # e
      BY <1>4, <1>5, <3>1
    <3> QED
      BY <1>1, <1>8, <3>2
  <2>4. \A v \in Users : Counted(v)' = IF v = u THEN Counted(v) \cup {d} ELSE Counted(v)
    BY <1>1, <1>3, <1>8, <1>9, <2>3 DEF Counted
  <2>5. d \notin Counted(u)
    BY <1>1 DEF Counted
  <2>6. call[s].saw = features[u]
    BY <1>1, <1>2, <2>2
  <2>7. ASSUME NEW v \in Users PROVE IsFiniteSet(Counted(v)') /\ features'[v] = Cardinality(Counted(v)')
    <3>1. CASE v = u
      <4>1. PICK S : S = Counted(u) /\ IsFiniteSet(S) /\ features[u] = Cardinality(S) /\ d \notin S
        BY <1>3, <2>2, <2>5
      <4>2. IsFiniteSet(S \cup {d}) /\ Cardinality(S \cup {d}) = Cardinality(S) + 1
        BY <4>1, FS_AddElement
      <4> QED
        BY <1>6, <2>4, <2>6, <3>1, <4>1, <4>2
    <3>2. CASE v # u
      BY <1>6, <2>2, <2>4, <3>2
    <3> QED
      BY <3>1, <3>2
  <2>8. \A t \in Slots : call'[t].at = "write" => t # s /\ call'[t] = call[t]
    BY <1>4, <1>5
  <2>9. ASSUME NEW t \in Slots \ {s}, call[t].at = "write"
        PROVE  call[t].saw = features'[UserOf[call[t].row]]
    <3>1. UserOf[call[t].row] # u
      BY <1>1, <1>2, <2>2, <2>9
    <3>2. UserOf[call[t].row] \in Users
      BY <2>9, EventPlaces, FraudAssumption
    <3> QED
      BY <1>6, <2>2, <2>9, <3>1, <3>2
  <2> QED
    BY <2>2, <2>7, <2>8, <2>9
<1> QED
  BY <1>5, <1>7, <1>10, <1>11, <1>12, <1>13 DEF FraudInv

-----------------------------------------------------------------------------
(* Remediation: cases, callbacks, and the holds they place.                *)
LEMMA CaseStep ==
  ASSUME FraudInv, NEW d \in Decisions,
         UNCHANGED <<call, registry, served, decided, features, promoted>>,
         mishaps \subseteq mishaps', requested \subseteq requested', requested' \subseteq requested \cup {d},
         handling' \in [Decisions -> Stages], cases' \in [Decisions -> {"none", "open", "closed"}],
         byDecision' = byDecision, req' \in [HoldSlots -> Inserts],
         \A e \in Decisions \ {d} : handling'[e] = handling[e] /\ cases'[e] = cases[e],
         handling[d] = "none" <=> handling'[d] = "none",
         HoldsAsked', \A h \in HoldSlots, e \in Decisions : req[h].decision = e => req'[h].decision = e,
         Ordered(d)'
  PROVE  FraudInv'
<1>1. FraudTypeOK'
  BY DEF FraudInv, FraudTypeOK
<1>2. EventCalls' /\ EventsOnce'
  BY CallsStay
<1>3. RoutesPromoted' /\ FoldsAlone'
  BY RoutesStay, FoldsStay
<1>4. ASSUME NEW e \in Decisions \ {d} PROVE Ordered(e)'
  BY OrderedStays
<1>5. FreezesInOrder'
  BY <1>4 DEF FreezesInOrder
<1> QED
  BY <1>1, <1>2, <1>3, <1>5 DEF FraudInv

LEMMA HoldsAskedStays ==
  ASSUME FraudInv, req' = req, requested \subseteq requested', requested' \subseteq Decisions
  PROVE  HoldsAsked'
BY DEF FraudInv, FreezesInOrder, HoldsAsked

LEMMA OpenCaseInv ==
  ASSUME FraudInv, NEW d \in Decisions, OpenCase(d)
  PROVE  FraudInv'
<1>1. PICK stage : stage = IF decided[d].action = "freeze" THEN "request" ELSE "done"
  OBVIOUS
<1>2. /\ handling[d] = "open" /\ handling' = [handling EXCEPT ![d] = stage]
      /\ cases' = [cases EXCEPT ![d] = "open"]
      /\ UNCHANGED <<call, holdsVars, registry, served, decided, features, requested, promoted, mishaps>>
  BY <1>1 DEF OpenCase, Handled
<1>3. /\ handling' \in [Decisions -> Stages] /\ handling'[d] = stage
      /\ cases' \in [Decisions -> {"none", "open", "closed"}] /\ cases'[d] = "open"
      /\ \A e \in Decisions \ {d} : handling'[e] = handling[e] /\ cases'[e] = cases[e]
  BY <1>1, <1>2 DEF FraudInv, FraudTypeOK, Stages
<1>4. /\ byDecision' = byDecision /\ req' = req /\ requested' = requested /\ decided' = decided
      /\ mishaps' = mishaps /\ req' \in [HoldSlots -> Inserts]
  BY <1>2 DEF FraudInv, FraudTypeOK, holdsVars
<1>5. HoldsAsked'
  BY <1>4, HoldsAskedStays DEF FraudInv, FreezesInOrder, HoldsAsked
<1>6. Ordered(d)'
  <2>1. Ordered(d)
    BY DEF FraudInv, FreezesInOrder
  <2>2. stage \in {"request", "done"} /\ (stage = "done" => decided[d].action # "freeze")
    BY <1>1
  <2> QED
    BY <1>2, <1>3, <1>4, <2>1, <2>2 DEF Ordered, Arrives
<1>7. handling[d] # "none" /\ handling'[d] # "none"
  BY <1>1, <1>2, <1>3
<1> QED
  BY <1>2, <1>3, <1>4, <1>5, <1>6, <1>7, CaseStep

LEMMA LogFreezeInv ==
  ASSUME FraudInv, NEW d \in Decisions, LogFreeze(d)
  PROVE  FraudInv'
<1>1. /\ handling[d] = "request" /\ handling' = [handling EXCEPT ![d] = "callback"]
      /\ requested' = requested \cup {d}
      /\ UNCHANGED <<call, holdsVars, registry, served, decided, features, cases, promoted, mishaps>>
  BY DEF LogFreeze, Handled
<1>2. /\ handling' \in [Decisions -> Stages] /\ handling'[d] = "callback"
      /\ \A e \in Decisions \ {d} : handling'[e] = handling[e]
  BY <1>1 DEF FraudInv, FraudTypeOK, Stages
<1>3. /\ byDecision' = byDecision /\ req' = req /\ cases' = cases /\ decided' = decided
      /\ mishaps' = mishaps /\ req' \in [HoldSlots -> Inserts]
      /\ cases' \in [Decisions -> {"none", "open", "closed"}]
  BY <1>1 DEF FraudInv, FraudTypeOK, holdsVars
<1>4. HoldsAsked'
  BY <1>1, <1>3, HoldsAskedStays DEF FraudInv, FreezesInOrder, HoldsAsked
<1>5. Ordered(d)'
  <2>1. Ordered(d)
    BY DEF FraudInv, FreezesInOrder
  <2> QED
    BY <1>1, <1>2, <1>3, <2>1 DEF Ordered, Arrives
<1>6. handling[d] # "none" /\ handling'[d] # "none"
  BY <1>1, <1>2
<1> QED
  BY <1>1, <1>2, <1>3, <1>4, <1>5, <1>6, CaseStep

(* What a call of Goemon does to the holds: none goes astray.              *)
LEMMA PostMovesHolds ==
  ASSUME FraudInv, NEW d \in Decisions,
         PostFreeze(d) \/ PostUnfreeze(d) \/ UNCHANGED holdsVars,
         requested \subseteq requested', requested' \subseteq Decisions,
         PostFreeze(d) /\ ~UNCHANGED holdsVars => d \in requested'
  PROVE  /\ byDecision' = byDecision /\ req' \in [HoldSlots -> Inserts] /\ HoldsAsked'
         /\ \A h \in HoldSlots, e \in Decisions : req[h].decision = e => req'[h].decision = e
         /\ PostFreeze(d) => byDecision'[d] > 0 \/ \E h \in HoldSlots : req'[h].decision = d
<1>1. /\ req \in [HoldSlots -> Inserts]
      /\ \A h \in HoldSlots : /\ req[h].op = "place" => req[h].decision \in requested
                              /\ req[h].op # "place" => req[h].decision = NoDecision
  BY DEF FraudInv, FraudTypeOK, FreezesInOrder, HoldsAsked
<1>2. NoDecision \notin Decisions /\ UserOf[d] \in Users
  BY HoldsAssumption, FraudAssumption
<1>3. CASE UNCHANGED holdsVars
  <2>1. req' = req /\ byDecision' = byDecision
    BY <1>3 DEF holdsVars
  <2>2. PostFreeze(d) => byDecision'[d] > 0 \/ \E h \in HoldSlots : req'[h].decision = d
    <3>1. ASSUME NEW h \in HoldSlots, Place(h, UserOf[d], d) PROVE req'[h].decision = d
      <4>1. req'[h] = Insert("place", UserOf[d], d)
        BY <1>1, <3>1 DEF Place
      <4> QED
        BY <4>1 DEF Insert
    <3> QED
      BY <2>1, <3>1 DEF PostFreeze
  <2> QED
    BY <1>1, <2>1, <2>2, HoldsAskedStays
<1>4. ASSUME NEW h \in HoldSlots, NEW i \in Inserts, req[h].op = "idle",
             req' = [req EXCEPT ![h] = i], byDecision' = byDecision,
             i.op = "place" => i.decision \in requested',
             i.op # "place" => i.decision = NoDecision
      PROVE  /\ byDecision' = byDecision /\ req' \in [HoldSlots -> Inserts] /\ HoldsAsked'
             /\ \A k \in HoldSlots, e \in Decisions : req[k].decision = e => req'[k].decision = e
             /\ req'[h] = i
  <2>1. req'[h] = i /\ \A k \in HoldSlots \ {h} : req'[k] = req[k]
    BY <1>1, <1>4
  <2>2. req[h].decision = NoDecision
    BY <1>1, <1>4
  <2> QED
    BY <1>1, <1>2, <1>4, <2>1, <2>2 DEF HoldsAsked
<1>5. ASSUME NEW h \in HoldSlots, Place(h, UserOf[d], d), ~UNCHANGED holdsVars,
             PostFreeze(d)
      PROVE  /\ byDecision' = byDecision /\ req' \in [HoldSlots -> Inserts] /\ HoldsAsked'
             /\ \A k \in HoldSlots, e \in Decisions : req[k].decision = e => req'[k].decision = e
             /\ \E k \in HoldSlots : req'[k].decision = d
  <2>1. PICK i : i = Insert("place", UserOf[d], d)
    OBVIOUS
  <2>2. i \in Inserts /\ i.op = "place" /\ i.decision = d
    BY <1>2, <2>1 DEF Insert, Inserts
  <2>3. req[h].op = "idle" /\ req' = [req EXCEPT ![h] = i] /\ byDecision' = byDecision
    BY <1>5, <2>1 DEF Place
  <2> QED
    BY <1>4, <1>5, <2>2, <2>3
<1>6. ASSUME NEW h \in HoldSlots, Release(h, UserOf[d])
      PROVE  /\ byDecision' = byDecision /\ req' \in [HoldSlots -> Inserts] /\ HoldsAsked'
             /\ \A k \in HoldSlots, e \in Decisions : req[k].decision = e => req'[k].decision = e
             /\ ~(\E k \in HoldSlots : Place(k, UserOf[d], d))
  <2>1. PICK i : i = Insert("release", UserOf[d], NoDecision)
    OBVIOUS
  <2>2. i \in Inserts /\ i.op = "release" /\ i.decision = NoDecision
    BY <1>2, <2>1 DEF Insert, Inserts
  <2>3. req[h].op = "idle" /\ req' = [req EXCEPT ![h] = i] /\ byDecision' = byDecision
    BY <1>6, <2>1 DEF Release
  <2>4. ASSUME NEW k \in HoldSlots, Place(k, UserOf[d], d) PROVE FALSE
    <3>1. req'[k] = Insert("place", UserOf[d], d) /\ req[k].op = "idle"
      BY <1>1, <2>4 DEF Place
    <3>2. req'[k].op = "place"
      BY <3>1 DEF Insert
    <3> QED
      BY <1>1, <2>2, <2>3, <3>1, <3>2
  <2> QED
    BY <1>4, <2>2, <2>3, <2>4
<1> QED
  BY <1>3, <1>5, <1>6 DEF PostFreeze, PostUnfreeze

LEMMA CallFreezeInv ==
  ASSUME FraudInv, NEW d \in Decisions, CallFreeze(d)
  PROVE  FraudInv'
<1>1. /\ handling[d] = "callback" /\ handling' = [handling EXCEPT ![d] = "done"]
      /\ UNCHANGED <<call, registry, served, decided, features, cases, requested, promoted>>
      /\ \/ PostFreeze(d) /\ mishaps' = mishaps
         \/ mishaps' = mishaps \cup {"call"} /\ UNCHANGED holdsVars
  BY DEF CallFreeze, Handled, PostFails
<1>2. /\ handling' \in [Decisions -> Stages] /\ handling'[d] = "done"
      /\ \A e \in Decisions \ {d} : handling'[e] = handling[e]
  BY <1>1 DEF FraudInv, FraudTypeOK, Stages
<1>3. Ordered(d)
  BY DEF FraudInv, FreezesInOrder
<1>4. /\ cases' = cases /\ decided' = decided /\ requested' = requested /\ mishaps \subseteq mishaps'
      /\ cases' \in [Decisions -> {"none", "open", "closed"}]
      /\ d \in requested /\ requested \subseteq Decisions
  BY <1>1, <1>3 DEF FraudInv, FraudTypeOK, FreezesInOrder, HoldsAsked, Ordered
<1>5. /\ byDecision' = byDecision /\ req' \in [HoldSlots -> Inserts] /\ HoldsAsked'
      /\ \A h \in HoldSlots, e \in Decisions : req[h].decision = e => req'[h].decision = e
      /\ PostFreeze(d) => byDecision'[d] > 0 \/ \E h \in HoldSlots : req'[h].decision = d
  BY <1>1, <1>4, PostMovesHolds
<1>6. Ordered(d)'
  <2>1. Arrives(d)'
    BY <1>1, <1>5 DEF Arrives
  <2> QED
    BY <1>2, <1>3, <1>4, <1>5, <2>1 DEF Ordered
<1>7. handling[d] # "none" /\ handling'[d] # "none"
  BY <1>1, <1>2
<1> QED
  BY <1>1, <1>2, <1>4, <1>5, <1>6, <1>7, CaseStep

LEMMA CaseActionInv ==
  ASSUME FraudInv, NEW d \in Decisions, NEW action \in {"freeze", "unfreeze"}, CaseAction(d, action)
  PROVE  FraudInv'
<1>1. /\ cases[d] # "none"
      /\ requested' = IF action = "freeze" THEN requested \cup {d} ELSE requested
      /\ UNCHANGED <<call, registry, served, decided, features, handling, cases, promoted>>
      /\ \/ action = "freeze" /\ PostFreeze(d) /\ mishaps' = mishaps
         \/ action = "unfreeze" /\ PostUnfreeze(d) /\ mishaps' = mishaps
         \/ mishaps' = mishaps \cup {"call"} /\ UNCHANGED holdsVars
  BY DEF CaseAction, PostFails
<1>2. Ordered(d)
  BY DEF FraudInv, FreezesInOrder
<1>3. /\ cases' = cases /\ decided' = decided /\ handling' = handling /\ mishaps \subseteq mishaps'
      /\ requested \subseteq requested' /\ requested' \subseteq requested \cup {d}
      /\ requested' \subseteq Decisions
      /\ cases' \in [Decisions -> {"none", "open", "closed"}] /\ handling' \in [Decisions -> Stages]
  BY <1>1 DEF FraudInv, FraudTypeOK, FreezesInOrder, HoldsAsked
<1>4. /\ byDecision' = byDecision /\ req' \in [HoldSlots -> Inserts] /\ HoldsAsked'
      /\ \A h \in HoldSlots, e \in Decisions : req[h].decision = e => req'[h].decision = e
  <2>1. CASE action = "freeze"
    BY <1>1, <1>3, <2>1, PostMovesHolds
  <2>2. CASE action = "unfreeze"
    <3>1. PostUnfreeze(d) \/ UNCHANGED holdsVars
      BY <1>1, <2>2
    <3>2. PostFreeze(d) => UNCHANGED holdsVars
      <4>1. CASE UNCHANGED holdsVars
        BY <4>1
      <4>2. ASSUME NEW h \in HoldSlots, Release(h, UserOf[d]), NEW k \in HoldSlots, Place(k, UserOf[d], d)
            PROVE  FALSE
        <5>1. req \in [HoldSlots -> Inserts] /\ NoDecision \notin Decisions
          BY HoldsAssumption DEF FraudInv, FraudTypeOK
        <5>2. /\ req[k].op = "idle" /\ req[h].op = "idle"
              /\ req' = [req EXCEPT ![k] = Insert("place", UserOf[d], d)]
              /\ req' = [req EXCEPT ![h] = Insert("release", UserOf[d], NoDecision)]
          BY <4>2 DEF Place, Release
        <5>3. Insert("place", UserOf[d], d).op = "place" /\ Insert("release", UserOf[d], NoDecision).op = "release"
          BY DEF Insert
        <5> QED
          BY <5>1, <5>2, <5>3
      <4> QED
        BY <3>1, <4>1, <4>2 DEF PostFreeze, PostUnfreeze
    <3> QED
      BY <1>3, <3>1, <3>2, PostMovesHolds
  <2> QED
    BY <2>1, <2>2
<1>5. Ordered(d)'
  <2>1. mishaps' \cap {"restart", "call"} = {} => mishaps \cap {"restart", "call"} = {}
    BY <1>3
  <2>2. Arrives(d)'
    BY <1>2, <1>3, <1>4, <2>1 DEF Ordered, Arrives
  <2> QED
    BY <1>1, <1>2, <1>3, <1>4, <2>2 DEF Ordered
<1> QED
  BY <1>1, <1>3, <1>4, <1>5, CaseStep

LEMMA ResolveCaseInv ==
  ASSUME FraudInv, NEW d \in Decisions, ResolveCase(d)
  PROVE  FraudInv'
<1>1. /\ cases[d] = "open" /\ cases' = [cases EXCEPT ![d] = "closed"]
      /\ UNCHANGED <<call, holdsVars, registry, served, decided, features, handling, requested,
                     promoted, mishaps>>
  BY DEF ResolveCase
<1>2. /\ cases' \in [Decisions -> {"none", "open", "closed"}] /\ cases'[d] = "closed"
      /\ \A e \in Decisions \ {d} : cases'[e] = cases[e]
  BY <1>1 DEF FraudInv, FraudTypeOK
<1>3. /\ byDecision' = byDecision /\ req' = req /\ requested' = requested /\ decided' = decided
      /\ mishaps' = mishaps /\ req' \in [HoldSlots -> Inserts] /\ handling' = handling
      /\ handling' \in [Decisions -> Stages]
  BY <1>1 DEF FraudInv, FraudTypeOK, holdsVars
<1>4. HoldsAsked'
  BY <1>3, HoldsAskedStays DEF FraudInv, FreezesInOrder, HoldsAsked
<1>5. Ordered(d)'
  BY <1>1, <1>2, <1>3, OrderedStays
<1> QED
  BY <1>1, <1>2, <1>3, <1>4, <1>5, CaseStep

(* Goemon serves a callback.                                               *)
LEMMA HoldsMoveInv ==
  ASSUME FraudInv, UNCHANGED <<call, registry, served, decided, features, handling, cases, requested,
                               promoted>>,
         mishaps \subseteq mishaps', byDecision' \in [Decisions -> Nat], NEW h \in HoldSlots,
         req' = [req EXCEPT ![h] = NoInsert],
         \A d \in Decisions :
           IF req[h].decision = d THEN byDecision'[d] = byDecision[d] + 1 \/
                                       ("call" \in mishaps' /\ byDecision'[d] = byDecision[d])
                                  ELSE byDecision'[d] = byDecision[d]
  PROVE  FraudInv'
<1>1. /\ req \in [HoldSlots -> Inserts] /\ requested \subseteq Decisions /\ byDecision \in [Decisions -> Nat]
      /\ \A k \in HoldSlots : /\ req[k].op = "place" => req[k].decision \in requested
                              /\ req[k].op # "place" => req[k].decision = NoDecision
  BY DEF FraudInv, FraudTypeOK, FreezesInOrder, HoldsAsked
<1>2. /\ NoInsert \in Inserts /\ NoInsert.op = "idle" /\ NoInsert.decision = NoDecision
  BY DEF NoInsert, Insert, Inserts
<1>3. /\ req' \in [HoldSlots -> Inserts] /\ req'[h] = NoInsert
      /\ \A k \in HoldSlots \ {h} : req'[k] = req[k]
  BY <1>1, <1>2
<1>4. FraudTypeOK'
  BY <1>3 DEF FraudInv, FraudTypeOK
<1>5. EventCalls' /\ EventsOnce'
  BY CallsStay
<1>6. RoutesPromoted' /\ FoldsAlone'
  BY RoutesStay, FoldsStay
<1>7. HoldsAsked'
  BY <1>1, <1>2, <1>3 DEF HoldsAsked
<1>8. ASSUME NEW d \in Decisions PROVE Ordered(d)'
  <2>1. Ordered(d)
    BY DEF FraudInv, FreezesInOrder
  <2>2. CASE req[h].decision = d
    <3>1. d \in requested /\ byDecision[d] \in Nat
      BY <1>1, <2>2, HoldsAssumption
    <3>2. Arrives(d)'
      <4>1. CASE "call" \in mishaps'
        BY <4>1 DEF Arrives
      <4>2. CASE byDecision'[d] = byDecision[d] + 1
        BY <3>1, <4>2 DEF Arrives
      <4> QED
        BY <2>2, <4>1, <4>2
    <3> QED
      BY <2>1, <3>1, <3>2 DEF Ordered
  <2>3. CASE req[h].decision # d
    <3>1. \A k \in HoldSlots : req[k].decision = d => req'[k].decision = d
      BY <1>3, <2>3
    <3>2. byDecision'[d] = byDecision[d]
      BY <2>3
    <3> QED
      BY <3>1, <3>2, OrderedStays
  <2> QED
    BY <2>2, <2>3
<1> QED
  BY <1>4, <1>5, <1>6, <1>7, <1>8 DEF FraudInv, FreezesInOrder

LEMMA HoldsStepInv ==
  ASSUME FraudInv, HoldsStep \/ HoldsDie
  PROVE  FraudInv'
<1>1. /\ req \in [HoldSlots -> Inserts] /\ byDecision \in [Decisions -> Nat]
      /\ requested \subseteq Decisions
      /\ \A k \in HoldSlots : /\ req[k].op = "place" => req[k].decision \in requested
                              /\ req[k].op # "place" => req[k].decision = NoDecision
  BY DEF FraudInv, FraudTypeOK, FreezesInOrder, HoldsAsked
<1>2. NoDecision \notin Decisions
  BY HoldsAssumption
<1>3. ASSUME NEW h \in HoldSlots, PlaceInsert(h), UNCHANGED <<journals, bal, call, engineVars>>
      PROVE  FraudInv'
  <2>1. PICK d : d = req[h].decision
    OBVIOUS
  <2>2. d \in Decisions
    BY <1>1, <1>3, <2>1 DEF PlaceInsert
  <2>3. byDecision' = [byDecision EXCEPT ![d] = @ + 1] /\ req' = [req EXCEPT ![h] = NoInsert]
    BY <1>2, <1>3, <2>1, <2>2 DEF PlaceInsert
  <2>4. /\ byDecision' \in [Decisions -> Nat] /\ byDecision'[d] = byDecision[d] + 1
        /\ \A e \in Decisions \ {d} : byDecision'[e] = byDecision[e]
    BY <1>1, <2>2, <2>3
  <2>5. /\ UNCHANGED <<call, registry, served, decided, features, handling, cases, requested, promoted>>
        /\ mishaps \subseteq mishaps'
    BY <1>3 DEF engineVars
  <2> QED
    BY <2>1, <2>3, <2>4, <2>5, HoldsMoveInv
<1>4. ASSUME NEW h \in HoldSlots, ReleaseInsert(h), UNCHANGED <<journals, bal, call, engineVars>>
      PROVE  FraudInv'
  <2>1. /\ byDecision' = byDecision /\ req' = [req EXCEPT ![h] = NoInsert]
        /\ req[h].decision \notin Decisions
    BY <1>1, <1>2, <1>4 DEF ReleaseInsert
  <2>2. /\ UNCHANGED <<call, registry, served, decided, features, handling, cases, requested, promoted>>
        /\ mishaps \subseteq mishaps'
    BY <1>4 DEF engineVars
  <2> QED
    BY <1>1, <2>1, <2>2, HoldsMoveInv
<1>5. ASSUME NEW h \in HoldSlots, HoldsFail(h), HoldsDie PROVE FraudInv'
  <2>1. /\ byDecision' = byDecision /\ req' = [req EXCEPT ![h] = NoInsert]
    BY <1>5 DEF HoldsFail
  <2>2. /\ UNCHANGED <<call, registry, served, decided, features, handling, cases, requested, promoted>>
        /\ mishaps \subseteq mishaps' /\ "call" \in mishaps'
    BY <1>5 DEF HoldsDie
  <2> QED
    BY <1>1, <2>1, <2>2, HoldsMoveInv
<1> QED
  BY <1>3, <1>4, <1>5 DEF HoldsStep, HoldsDie

-----------------------------------------------------------------------------
(* The fraud team, and the restart.                                        *)
LEMMA TeamInv ==
  ASSUME FraudInv, UNCHANGED <<call, holdsVars, decided, features, handling, cases, requested, mishaps>>,
         registry' \in [Models -> [status : ModelStatuses, pct : Nat]],
         served' \subseteq Models, promoted' \subseteq Models, promoted \subseteq promoted',
         \A m \in Models : registry'[m].status \in {"prod", "canary"} => m \in promoted'
  PROVE  FraudInv'
<1>1. FraudTypeOK'
  BY DEF FraudInv, FraudTypeOK, holdsVars
<1>2. EventCalls' /\ EventsOnce'
  BY CallsStay
<1>3. FoldsAlone'
  BY FoldsStay
<1>4. FreezesInOrder'
  BY OrderStays DEF holdsVars
<1>5. RoutesPromoted'
  BY DEF FraudInv, RoutesPromoted, ShadowsOnlyWatch
<1> QED
  BY <1>1, <1>2, <1>3, <1>4, <1>5 DEF FraudInv

LEMMA TeamStepInv ==
  ASSUME FraudInv,
         \/ \E m \in Models : MintCandidate(m) \/ RegisterCandidate(m)
         \/ \E p \in Promotions : Promote(p[1], p[2], p[3])
  PROVE  FraudInv'
<1>1. /\ registry \in [Models -> [status : ModelStatuses, pct : Nat]]
      /\ served \subseteq Models /\ promoted \subseteq Models
      /\ \A m \in Models : registry[m].status \in {"prod", "canary"} => m \in promoted
  BY DEF FraudInv, FraudTypeOK, RoutesPromoted
<1>2. ASSUME NEW m \in Models, MintCandidate(m) PROVE FraudInv'
  BY <1>1, <1>2, TeamInv DEF MintCandidate
<1>3. ASSUME NEW m \in Models, NEW status \in {"prod", "canary", "shadow", "retired"}, NEW pct \in Nat,
             registry' = [registry EXCEPT ![m] = Registered(status, pct)],
             promoted' = IF status \in {"prod", "canary"} THEN promoted \cup {m} ELSE promoted,
             UNCHANGED <<call, holdsVars, served, decided, features, handling, cases, requested, mishaps>>
      PROVE  FraudInv'
  <2>1. PICK r : r = Registered(status, pct)
    OBVIOUS
  <2>2. r \in [status : ModelStatuses, pct : Nat] /\ r.status = status
    BY <2>1 DEF Registered, ModelStatuses
  <2>3. /\ registry' \in [Models -> [status : ModelStatuses, pct : Nat]] /\ registry'[m] = r
        /\ \A n \in Models \ {m} : registry'[n] = registry[n]
    BY <1>1, <1>3, <2>1, <2>2
  <2>4. promoted' \subseteq Models /\ promoted \subseteq promoted'
    BY <1>1, <1>3
  <2>5. \A n \in Models : registry'[n].status \in {"prod", "canary"} => n \in promoted'
    BY <1>1, <1>3, <2>2, <2>3
  <2>6. served' \subseteq Models
    BY <1>1, <1>3
  <2> QED
    BY <1>3, <2>3, <2>4, <2>5, <2>6, TeamInv
<1>4. ASSUME NEW m \in Models, RegisterCandidate(m) PROVE FraudInv'
  BY <1>3, <1>4 DEF RegisterCandidate
<1>5. ASSUME NEW p \in Promotions, Promote(p[1], p[2], p[3]) PROVE FraudInv'
  <2>1. PICK m \in Models, status \in {"prod", "canary", "shadow", "retired"}, pct \in Nat :
          Promote(m, status, pct)
    BY <1>5, FraudAssumption
  <2>2. PICK n \in Nat : n = IF status = "canary" THEN pct ELSE 0
    OBVIOUS
  <2>3. registry' = [registry EXCEPT ![m] = Registered(status, n)]
    BY <2>1, <2>2 DEF Promote
  <2> QED
    BY <1>3, <2>1, <2>3 DEF Promote
<1> QED
  BY <1>2, <1>4, <1>5

LEMMA RestartEngineInv ==
  ASSUME FraudInv, RestartEngine
  PROVE  FraudInv'
<1>1. /\ call' = [s \in Slots |-> Idle]
      /\ handling' = [d \in Decisions |-> IF handling[d] = "none" THEN "none" ELSE "done"]
      /\ served' = BuiltIn /\ "restart" \in mishaps'
      /\ UNCHANGED <<holdsVars, registry, decided, features, cases, requested, promoted>>
  BY DEF RestartEngine
<1>2. Idle.at = "idle" /\ Idle.row = None /\ EventCall(Idle) /\ None \notin Decisions
  BY FraudAssumption DEF Idle, Request, EventCall
<1>3. FraudTypeOK'
  <2>1. handling' \in [Decisions -> Stages] /\ served' \subseteq Models
    BY <1>1, FraudAssumption DEF Stages
  <2> QED
    BY <1>1, <2>1 DEF FraudInv, FraudTypeOK, holdsVars
<1>4. EventCalls'
  BY <1>1, <1>2 DEF EventCalls, EventCall
<1>5. EventsOnce'
  BY <1>1, <1>2 DEF FraudInv, EventsOnce
<1>6. RoutesPromoted'
  BY <1>1, <1>2 DEF FraudInv, RoutesPromoted, ShadowsOnlyWatch
<1>7. FreezesInOrder'
  <2>1. HoldsAsked'
    BY <1>1 DEF FraudInv, FreezesInOrder, HoldsAsked, holdsVars
  <2>2. ASSUME NEW d \in Decisions PROVE Ordered(d)'
    <3>1. Ordered(d)
      BY DEF FraudInv, FreezesInOrder
    <3>2. /\ decided' = decided /\ cases' = cases /\ requested' = requested /\ byDecision' = byDecision
          /\ handling'[d] \in {"none", "done"}
      BY <1>1 DEF holdsVars
    <3>3. Arrives(d)'
      BY <1>1 DEF Arrives
    <3> QED
      BY <3>1, <3>2, <3>3 DEF Ordered
  <2> QED
    BY <2>1, <2>2 DEF FreezesInOrder
<1>8. FoldsAlone'
  BY <1>1 DEF FoldsAlone
<1> QED
  BY <1>3, <1>4, <1>5, <1>6, <1>7, <1>8 DEF FraudInv

(* Every step.                                                             *)
LEMMA FraudStepInv == FraudInv /\ [FraudNext]_fraudVars => FraudInv'
<1> SUFFICES ASSUME FraudInv, [FraudNext]_fraudVars PROVE FraudInv'
  OBVIOUS
<1>1. CASE UNCHANGED fraudVars
  <2>1. UNCHANGED <<call, holdsVars, decided, features, handling, cases, requested, mishaps>>
        /\ registry' = registry /\ served' = served /\ promoted' = promoted
    BY <1>1 DEF fraudVars, engineVars
  <2> QED
    BY <2>1, TeamInv DEF FraudInv, FraudTypeOK, RoutesPromoted
<1>2. ASSUME NEW s \in Slots,
             \/ \E d \in Decisions : Ingest(s, d)
             \/ \E status \in {"prod", "canary"} : ReadModels(s, status)
             \/ DecideEvent(s) \/ ReadFeatures(s) \/ WriteFeatures(s)
      PROVE  FraudInv'
  BY <1>2, IngestInv, ReadModelsInv, DecideEventInv, ReadFeaturesInv, WriteFeaturesInv
<1>3. ASSUME NEW d \in Decisions,
             \/ OpenCase(d) \/ LogFreeze(d) \/ CallFreeze(d) \/ ResolveCase(d)
             \/ \E action \in {"freeze", "unfreeze"} : CaseAction(d, action)
      PROVE  FraudInv'
  BY <1>3, OpenCaseInv, LogFreezeInv, CallFreezeInv, ResolveCaseInv, CaseActionInv
<1>4. CASE \/ \E m \in Models : MintCandidate(m) \/ RegisterCandidate(m)
           \/ \E p \in Promotions : Promote(p[1], p[2], p[3])
  BY <1>4, TeamStepInv
<1>5. CASE RestartEngine \/ HoldsStep \/ HoldsDie
  BY <1>5, RestartEngineInv, HoldsStepInv
<1> QED
  BY <1>1, <1>2, <1>3, <1>4, <1>5 DEF FraudNext

LEMMA FraudInvHolds ==
  FraudInv => ShadowsOnlyWatch /\ HoldsHaveCases /\ FreezesArrive /\ FeaturesCountDecisions
<1> SUFFICES ASSUME FraudInv PROVE ShadowsOnlyWatch /\ HoldsHaveCases /\ FreezesArrive /\ FeaturesCountDecisions
  OBVIOUS
<1>1. ShadowsOnlyWatch
  BY DEF FraudInv, RoutesPromoted
<1>2. \A d \in Decisions : Ordered(d)
  BY DEF FraudInv, FreezesInOrder
<1>3. HoldsHaveCases /\ FreezesArrive
  BY <1>2 DEF Ordered, Arrives, HoldsHaveCases, FreezesArrive
<1>4. FeaturesCountDecisions
  BY DEF FraudInv, FoldsAlone, Counted, FeaturesCountDecisions
<1> QED
  BY <1>1, <1>3, <1>4

-----------------------------------------------------------------------------
(* A step of the composition is, for the service that runs, a step of its  *)
(* own.                                                                    *)
LEMMA ProductsStep ==
  ASSUME [ProductsNext]_productsVars
  PROVE  /\ running' = running
         /\ running = "lending" => [LendingNext]_lendingVars
         /\ running = "trading" => [TradingNext]_tradingVars
         /\ running = "exchange" => [ExchangeNext]_exchangeVars
         /\ running = "yield" => [YieldNext]_yieldVars
         /\ running = "book" => [OrderBookNext]_bookVars
         /\ running = "teen" => [TeenSpendNext]_teenVars
         /\ running = "credit" => [CreditNext]_creditVars
         /\ running = "savings" => [SavingsNext]_savingsVars
         /\ running = "rails" => [RailsNext]_railVars
         /\ running = "wallets" => [WalletsNext]_walletVars
         /\ running = "market" => [MarketNext]_marketVars
         /\ running = "equity" => [EquityNext]_equityVars
         /\ running = "listings" => [ListingsNext]_listingsVars
         /\ running = "onboarding" => [OnboardingNext]_onboardingVars
         /\ running = "agents" => [AgentsNext]_agentsVars
         /\ running = "fraud" => [FraudNext]_fraudVars
BY DEF ProductsNext, productsVars, Others

(* Loans: no debt is forgiven by overlapping repayments and accruals, and  *)
(* collateral goes back for what was paid.                                 *)
THEOREM ProductsLoanBooks == ProductsSpec => []LoanBooksHold
<1> DEFINE Inv == running = "lending" => LoanInv
<1>1. ProductsInit => Inv
  BY LoanInitInv DEF ProductsInit
<1>2. Inv /\ [ProductsNext]_productsVars => Inv'
  BY ProductsStep, LoanStepInv
<1>3. Inv => LoanBooksHold
  BY LoanInvBounds DEF LoanBooksHold
<1> QED
  BY <1>1, <1>2, <1>3, PTL DEF ProductsSpec

(* Trading: an accepted order is settled once or waits.                    *)
THEOREM ProductsSettlement == ProductsSpec => []SettlementSound
<1> DEFINE Inv == running = "trading" => TradeInv
<1>1. ProductsInit => Inv
  BY TradeInitInv DEF ProductsInit
<1>2. Inv /\ [ProductsNext]_productsVars => Inv'
  BY ProductsStep, TradeStepInv
<1>3. Inv => SettlementSound
  BY TradeInvBounds DEF SettlementSound
<1> QED
  BY <1>1, <1>2, <1>3, PTL DEF ProductsSpec

(* Conversions and distributions: a conversion tells the rate that it was  *)
(* made at, a holder is paid once for units that he held.                  *)
THEOREM ProductsExchange == ProductsSpec => []ExchangeSound
<1> DEFINE Inv == (running = "exchange" => SwapInv) /\ (running = "yield" => YieldInv)
<1>1. ProductsInit => Inv
  BY SwapInitInv, YieldInitInv DEF ProductsInit
<1>2. Inv /\ [ProductsNext]_productsVars => Inv'
  BY ProductsStep, SwapStepInv, YieldStepInv
<1>3. Inv => ExchangeSound
  BY SwapInvBounds, YieldInvBounds DEF ExchangeSound
<1> QED
  BY <1>1, <1>2, <1>3, PTL DEF ProductsSpec

(* The secondary market, whatever overlaps and wherever requests die:      *)
(* trades keep to the limits, the escrow is explained by the journals, and *)
(* it backs every order that is not contested.                             *)
THEOREM ProductsBook == ProductsSpec => []BookHolds
<1> DEFINE Inv == running = "book" => EscrowInv
<1>1. ProductsInit => Inv
  BY EscrowStarts DEF ProductsInit
<1>2. Inv /\ [ProductsNext]_productsVars => Inv'
  BY ProductsStep, EscrowInvKept, EscrowInvStutters
<1>3. Inv => BookHolds
  BY BookBacked DEF BookHolds
<1> QED
  BY <1>1, <1>2, <1>3, PTL DEF ProductsSpec

(* A teen's card, credit builder and savings: the allowance bounds what    *)
(* passes without the guardian, the bureau hears what was paid, a teen     *)
(* owes no more than was charged and its limit is what was secured, unless *)
(* openings asked for different limits; a goal shows what was saved, and   *)
(* interest for a day is paid once.                                        *)
THEOREM ProductsStarter == ProductsSpec => []StarterHolds
<1> DEFINE Inv == /\ running = "teen" => TeenInv
                  /\ running = "credit" => CreditInv
                  /\ running = "savings" => SavingsInv
<1>1. ProductsInit => Inv
  BY TeenInitInv, CreditInitInv, SavingsInitInv DEF ProductsInit
<1>2. Inv /\ [ProductsNext]_productsVars => Inv'
  BY ProductsStep, TeenStepInv, CreditStepInv, SavingsStepInv
<1>3. Inv => StarterHolds
  BY TeenInvBounds, CreditInvBounds, SavingsInvBounds DEF StarterHolds
<1> QED
  BY <1>1, <1>2, <1>3, PTL DEF ProductsSpec

(* The primary market, equity and listings: what a subscriber paid is in   *)
(* escrow until his subscription settles, units are short by what was      *)
(* redeemed; units granted follow the vesting; a listing's versions follow *)
(* its diagram, and a slab is one asset.                                   *)
THEOREM ProductsStock == ProductsSpec => []StockAndEscrowHold
<1> DEFINE Inv == /\ running = "market" => MarketInv
                  /\ running = "equity" => EquityInv
                  /\ running = "listings" => ListingsInv
<1>1. ProductsInit => Inv
  BY MarketInitInv, EquityInitInv, ListingsInitInv DEF ProductsInit
<1>2. Inv /\ [ProductsNext]_productsVars => Inv'
  BY ProductsStep, MarketStepInv, EquityStepInv, ListingsStepInv
<1>3. Inv => StockAndEscrowHold
  BY EquityVests, ListingsHold DEF StockAndEscrowHold, MarketInv
<1> QED
  BY <1>1, <1>2, <1>3, PTL DEF ProductsSpec

(* Bank rails and wallets: a cash journal has an answer of the provider    *)
(* behind it; a journal of a send has an executed transfer, its own or, of *)
(* a build, what the client submitted in its place; drift has a cause, and *)
(* what a reconciliation says of ledger and chain is so while nothing      *)
(* moves.                                                                  *)
THEOREM ProductsRails == ProductsSpec => []RailsTellTruth
<1> DEFINE Inv == (running = "rails" => RailsInv) /\ (running = "wallets" => DriftInv)
<1>1. ProductsInit => Inv
  BY RailsInitInv, DriftInitInv DEF ProductsInit
<1>2. Inv /\ [ProductsNext]_productsVars => Inv'
  BY ProductsStep, RailsStepInv, DriftStepInv
<1>3. Inv => RailsTellTruth
  BY RailsInvTells, DriftInvTells DEF RailsTellTruth
<1> QED
  BY <1>1, <1>2, <1>3, PTL DEF ProductsSpec

(* Onboarding, agents and the fraud engine: a tier is raised on evidence   *)
(* or by a person, or by the simulated check where that is served; nobody  *)
(* waits for a step that is not to be taken; an agent's tokens carry what  *)
(* was granted; promoted models decide, a freeze has its case, and the     *)
(* features count every decision.                                          *)
THEOREM ProductsOnboarding == ProductsSpec => []OnboardingSound
<1> DEFINE Inv == /\ running = "onboarding" => OnbInv
                  /\ running = "agents" => AgentsInv
                  /\ running = "fraud" => FraudInv
<1>1. ProductsInit => Inv
  BY OnbInitInv, AgentsInitInv, FraudInitInv DEF ProductsInit
<1>2. Inv /\ [ProductsNext]_productsVars => Inv'
  BY ProductsStep, OnbStepInv, AgentsStepInv, FraudStepInv
<1>3. Inv => OnboardingSound
  BY OnbInvHolds, AgentsInvHolds, FraudInvHolds DEF OnboardingSound
<1> QED
  BY <1>1, <1>2, <1>3, PTL DEF ProductsSpec
=============================================================================
