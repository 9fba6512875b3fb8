------------------------------- MODULE Equity -------------------------------
(***************************************************************************)
(* Equity compensation, backend/src/services/equityCompService.ts: grants  *)
(* over the treasury of one asset, the release of vested units, and the    *)
(* exercise of vested options.                                             *)
(*                                                                         *)
(* Nothing is a transaction but each journal.  A release and an exercise   *)
(* read units_released, post, and write back what they computed; a release *)
(* has its key from what is vested, an exercise from its caller.           *)
(***************************************************************************)
EXTENDS Service, Functions

CONSTANTS
  Grants,         \* rows in equity_grants
  AwardType,      \* AwardType[g]: "units" (unit_award, profits_interest) or "option"
  UnitsTotal,     \* units_total
  Exercises,      \* idempotency keys
  ExerciseGrant, ExerciseQty,
  Strike,         \* exercise_price_minor
  CliffMonths, DurationMonths,
  Employee, Company,           \* accounts in cash
  GrantPool, EmployeeUnits     \* accounts in the asset

ASSUME EquityAssumption ==
  /\ AwardType \in [Grants -> {"units", "option"}]
  /\ UnitsTotal \in [Grants -> Nat \ {0}]
  /\ ExerciseGrant \in [Exercises -> {g \in Grants : AwardType[g] = "option"}]
  /\ ExerciseQty \in [Exercises -> Nat \ {0}]
  /\ Strike \in Nat \ {0}
  /\ CliffMonths \in Nat /\ DurationMonths \in Nat \ {0}
  /\ {Employee, Company, GrantPool, EmployeeUnits} \subseteq Accounts
  /\ IsFiniteSet(Exercises)
  /\ GrantPool # EmployeeUnits
  /\ None \notin Nat \cup Grants \cup Exercises

VARIABLES
  released,  \* released[g]: units_released, or None where there is no row
  month,     \* months since vest_start
  muddled    \* grants with overlapping or dead calls: a history variable

equityVars == <<journals, bal, call, released, month, muddled>>

EquityInit ==
  /\ ServiceInit
  /\ released = [g \in Grants |-> None]
  /\ month = 0
  /\ muddled = {}

Granted == {g \in Grants : released[g] # None}

(* computeVested: nothing before the cliff, then linear, rounded down.     *)
VestedUnits(g, m) ==
  IF m < CliffMonths THEN 0
  ELSE IF m >= DurationMonths THEN UnitsTotal[g]
  ELSE (UnitsTotal[g] * m) \div DurationMonths

GrantOf(s) == IF call[s].op = "exercise" THEN ExerciseGrant[call[s].row] ELSE call[s].row

(* A call on g begins; it is muddled with another one that is on its way.  *)
BeginOnGrant(s, g, op, at, row, saw) ==
  /\ Begin(s, op, at, row, saw)
  /\ muddled' = IF \E t \in Slots : call[t] # Idle /\ GrantOf(t) = g
                  THEN muddled \cup {g} ELSE muddled

-----------------------------------------------------------------------------
(* createGrant, of a row with an id of its own: availableToGrant reads the *)
(* treasury, then the grants.                                              *)
Reserved == SumFunctionOnSet([g \in Granted |-> UnitsTotal[g] - released[g]], Granted)

GrantCall(s, g) ==
  /\ released[g] = None
  /\ \A t \in Slots : ~(call[t].op = "grant" /\ call[t].row = g)
  /\ BeginOnGrant(s, g, "grant", "list", g, <<bal[GrantPool]>>)
  /\ UNCHANGED <<journals, bal, released, month>>

GrantList(s) ==
  /\ At(s, "grant", "list")
  /\ IF UnitsTotal[call[s].row] <= call[s].saw[1] - Reserved THEN Goto(s, "insert") ELSE Leave(s)
  /\ UNCHANGED <<journals, bal, released, month, muddled>>

GrantInsert(s) ==
  /\ At(s, "grant", "insert")
  /\ released' = [released EXCEPT ![call[s].row] = 0]
  /\ Leave(s)
  /\ UNCHANGED <<journals, bal, month, muddled>>

-----------------------------------------------------------------------------
(* releaseVested.                                                          *)
ReleaseCall(s, g) ==
  LET vested == VestedUnits(g, month) IN
  /\ AwardType[g] = "units" /\ g \in Granted
  /\ vested > released[g]
  /\ BeginOnGrant(s, g, "release", "post", g, <<vested, vested - released[g]>>)
  /\ UNCHANGED <<journals, bal, released, month>>

ReleasePost(s) ==
  LET g == call[s].row  vested == call[s].saw[1]  units == call[s].saw[2] IN
  /\ At(s, "release", "post")
  /\ PostJournal(<<"vest", g, vested>>, Move(GrantPool, EmployeeUnits, units))
  /\ Goto(s, "mark")
  /\ UNCHANGED <<released, month, muddled>>

ReleaseMark(s) ==
  /\ At(s, "release", "mark")
  /\ released' = [released EXCEPT ![call[s].row] = call[s].saw[1]]
  /\ Leave(s)
  /\ UNCHANGED <<journals, bal, month, muddled>>

-----------------------------------------------------------------------------
(* exercise: what is exercisable and the cash are read, cash and units     *)
(* change hands in one journal, units_released follows.                    *)
Cost(k) == ExerciseQty[k] * Strike

ExerciseCall(s, k) ==
  LET g == ExerciseGrant[k] IN
  /\ g \in Granted
  /\ ExerciseQty[k] <= VestedUnits(g, month) - released[g]
  /\ bal[Employee] >= Cost(k)
  /\ BeginOnGrant(s, g, "exercise", "post", k, <<released[g]>>)
  /\ UNCHANGED <<journals, bal, released, month>>

ExercisePost(s) ==
  LET k == call[s].row IN
  /\ At(s, "exercise", "post")
  /\ PostJournal(<<"option", k>>,
       Both(Move(Employee, Company, Cost(k)), Move(GrantPool, EmployeeUnits, ExerciseQty[k])))
  /\ Goto(s, "mark")
  /\ UNCHANGED <<released, month, muddled>>

ExerciseMark(s) ==
  LET k == call[s].row IN
  /\ At(s, "exercise", "mark")
  /\ released' = [released EXCEPT ![ExerciseGrant[k]] = call[s].saw[1] + ExerciseQty[k]]
  /\ Leave(s)
  /\ UNCHANGED <<journals, bal, month, muddled>>

-----------------------------------------------------------------------------
NextMonth ==
  /\ month < DurationMonths
  /\ month' = month + 1
  /\ UNCHANGED <<journals, bal, call, released, muddled>>

EquityNext ==
  \/ NextMonth
  \/ \E s \in Slots :
       \/ \E g \in Grants : GrantCall(s, g) \/ ReleaseCall(s, g)
       \/ \E k \in Exercises : ExerciseCall(s, k)
       \/ GrantList(s) \/ GrantInsert(s)
       \/ ReleasePost(s) \/ ReleaseMark(s)
       \/ ExercisePost(s) \/ ExerciseMark(s)
       \/ Dies(s) /\ muddled' = muddled \cup {GrantOf(s)} /\ UNCHANGED <<released, month>>

EquitySpec == EquityInit /\ [][EquityNext]_equityVars

-----------------------------------------------------------------------------
(* Correctness *)

Delivered(g) ==
  LET releases == {j \in DOMAIN journals : j[1] = "vest" /\ j[2] = g}
      exercised == {k \in Exercises : ExerciseGrant[k] = g /\ Posted(<<"option", k>>)}
  IN SumFunctionOnSet([j \in releases |-> journals[j][EmployeeUnits]], releases)
       + SumFunctionOnSet(ExerciseQty, exercised)

(* units_released is never ahead of the schedule.  A grant that no death   *)
(* and no overlap has touched delivers no more than is vested, and while   *)
(* nothing is on its way its row admits to all that was delivered, and a   *)
(* release to nothing else (an exercise that is retried counts its units   *)
(* again) (equityCompService.ts:181-199, 208-239).                         *)
UnitsFollowVesting ==
  \A g \in Granted :
    /\ released[g] <= VestedUnits(g, month)
    /\ g \notin muddled =>
         /\ Delivered(g) <= VestedUnits(g, month)
         /\ (\A s \in Slots : call[s] = Idle) =>
              /\ Delivered(g) <= released[g]
              /\ AwardType[g] = "units" => Delivered(g) = released[g]
=============================================================================
