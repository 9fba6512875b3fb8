---------------------------- MODULE AccountHolds ----------------------------
(***************************************************************************)
(* Fraud remediation holds, backend/src/services/accountHoldService.ts,    *)
(* with its callers: the fraud engine's callbacks (which an analyst may    *)
(* repeat), the guardian controls and the compliance skill.                *)
(*                                                                         *)
(* account_holds is append-only and nothing in it is unique, so the table  *)
(* is abstracted to the counts the code asks it for.  placeHold and        *)
(* releaseHold each read, await, and insert: two requests may read before  *)
(* either inserts.                                                         *)
(***************************************************************************)
EXTENDS Integers, FiniteSets

CONSTANTS
  Users,
  Decisions,   \* decision ids of the fraud engine
  HoldSlots,   \* requests served at once
  MaxPlaces,   \* bound on the place rows of one user
  NoDecision   \* no decision id (guardian, compliance)

ASSUME HoldsAssumption ==
  /\ IsFiniteSet(HoldSlots) /\ HoldSlots # {}
  /\ MaxPlaces \in Nat
  /\ NoDecision \notin Users \cup Decisions

VARIABLES
  places,      \* places[u]: rows of u with action 'place'
  releases,    \* releases[u]: rows of u with action 'release'
  byDecision,  \* byDecision[d]: rows with action 'place' and decision_id d
  req          \* req[s]: the insert that slot s is about to make

holdsVars == <<places, releases, byDecision, req>>

Insert(op, u, d) == [op |-> op, user |-> u, decision |-> d]
NoInsert == Insert("idle", NoDecision, NoDecision)

Inserts == [op : {"idle", "place", "release"},
            user : Users \cup {NoDecision}, decision : Decisions \cup {NoDecision}]

HoldsTypeOK ==
  /\ places \in [Users -> Nat]
  /\ releases \in [Users -> Nat]
  /\ byDecision \in [Decisions -> Nat]
  /\ req \in [HoldSlots -> Inserts]

HoldsInit ==
  /\ places = [u \in Users |-> 0]
  /\ releases = [u \in Users |-> 0]
  /\ byDecision = [d \in Decisions |-> 0]
  /\ req = [s \in HoldSlots |-> NoInsert]

-----------------------------------------------------------------------------
(* isAccountFrozen                                                         *)
Frozen(u) == places[u] > releases[u]

(* placeHold: a decision that already placed a hold is answered at once.   *)
Place(s, u, d) ==
  /\ req[s].op = "idle"
  /\ d \in Decisions => byDecision[d] = 0
  /\ req' = [req EXCEPT ![s] = Insert("place", u, d)]
  /\ UNCHANGED <<places, releases, byDecision>>

PlaceInsert(s) ==
  LET u == req[s].user  d == req[s].decision IN
  /\ req[s].op = "place"
  /\ places[u] < MaxPlaces
  /\ places' = [places EXCEPT ![u] = @ + 1]
  /\ byDecision' = IF d = NoDecision THEN byDecision ELSE [byDecision EXCEPT ![d] = @ + 1]
  /\ req' = [req EXCEPT ![s] = NoInsert]
  /\ UNCHANGED releases

(* Faulty: the state is not read before the release is inserted.           *)
ReleaseUnchecked(s, u) ==
  /\ req[s].op = "idle"
  /\ releases[u] <= MaxPlaces + Cardinality(HoldSlots)
  /\ req' = [req EXCEPT ![s] = Insert("release", u, NoDecision)]
  /\ UNCHANGED <<places, releases, byDecision>>

(* releaseHold: an account that is not frozen is answered at once.         *)
Release(s, u) ==
  /\ req[s].op = "idle"
  /\ Frozen(u)
  /\ req' = [req EXCEPT ![s] = Insert("release", u, NoDecision)]
  /\ UNCHANGED <<places, releases, byDecision>>

ReleaseInsert(s) ==
  /\ req[s].op = "release"
  /\ releases' = [releases EXCEPT ![req[s].user] = @ + 1]
  /\ req' = [req EXCEPT ![s] = NoInsert]
  /\ UNCHANGED <<places, byDecision>>

(* The request dies between its read and its insert.                       *)
HoldsFail(s) ==
  /\ req[s].op # "idle"
  /\ req' = [req EXCEPT ![s] = NoInsert]
  /\ UNCHANGED <<places, releases, byDecision>>

HoldsNext ==
  \E s \in HoldSlots :
    \/ \E u \in Users :
         \/ \E d \in Decisions \cup {NoDecision} : Place(s, u, d)
         \/ Release(s, u)
    \/ PlaceInsert(s)
    \/ ReleaseInsert(s)
    \/ HoldsFail(s)

HoldsSpec == HoldsInit /\ [][HoldsNext]_holdsVars

-----------------------------------------------------------------------------
(* Correctness *)

(* Releases run ahead of places by less than the requests served at once:  *)
(* the lag of a later freeze, which has to make up for them first, is      *)
(* bounded by the concurrency (accountHoldService.ts:31, 76-81).           *)
DriftBounded ==
  \A u \in Users : releases[u] - places[u] < Cardinality(HoldSlots)

(* "Retried remediation never double-freezes" (accountHoldService.ts:36)   *)
(* holds for callbacks that follow one another only: nothing makes         *)
(* decision_id unique, and two callbacks served side by side both find no  *)
(* row (:46-57).  What is true is that one decision, however often its     *)
(* callback is repeated, places at most as many holds as requests were     *)
(* served at once; of two of them, one release lifts one.                  *)
DoubleFreezeBounded ==
  \A d \in Decisions : byDecision[d] <= Cardinality(HoldSlots)

(* Both bounds, for however many users, decisions and requests.            *)
HoldsBounded == DriftBounded /\ DoubleFreezeBounded

(* "Release all holds for a user" (accountHoldService.ts:68): an applied   *)
(* release leaves the account unfrozen.                                    *)
ReleaseUnfreezes ==
  [][\A u \in Users : releases'[u] > releases[u] => ~Frozen(u)']_holdsVars

(* The strengthening that makes the two bounds inductive: a request that   *)
(* has read the table and not yet inserted counts as if it had.            *)
Releasing(u) == {s \in HoldSlots : req[s].op = "release" /\ req[s].user = u}
Placing(d) == {s \in HoldSlots : req[s].op = "place" /\ req[s].decision = d}

PendingBounded ==
  /\ \A u \in Users :
       releases[u] + Cardinality(Releasing(u)) < places[u] + Cardinality(HoldSlots)
  /\ \A d \in Decisions :
       byDecision[d] + Cardinality(Placing(d)) <= Cardinality(HoldSlots)
  /\ \A s \in HoldSlots : req[s].op # "idle" => req[s].user \in Users
=============================================================================
