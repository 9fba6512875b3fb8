------------------------------- MODULE Raise -------------------------------
(***************************************************************************)
(* A capital raise, backend/src/services/capitalRaiseService.ts: invest,   *)
(* closeOffering and cancelOffering on one offering.                       *)
(*                                                                         *)
(* Nothing is a transaction but each journal.  Closing reads the committed *)
(* rows once, then posts a journal and updates a row for each of them, and *)
(* writes the offering's status at the very end.  The compliance rules and *)
(* the limits per investor only refuse.                                    *)
(***************************************************************************)
EXTENDS Service, Functions

CONSTANTS
  Investments,   \* idempotency keys, one row each
  InvestUnits,   \* InvestUnits[i]: units
  UnitPrice,     \* price_minor
  RaiseTarget,   \* target_minor
  RaiseCap,      \* cap_minor
  Investor, Issuer, RaiseEscrow,  \* accounts in cash
  RaiseTreasury, Investors        \* accounts in the asset

ASSUME RaiseAssumption ==
  /\ IsFiniteSet(Investments)
  /\ InvestUnits \in [Investments -> Nat \ {0}]
  /\ UnitPrice \in Nat \ {0}
  /\ RaiseTarget \in Nat \ {0} /\ RaiseCap \in Nat /\ RaiseCap >= RaiseTarget
  /\ {Investor, Issuer, RaiseEscrow, RaiseTreasury, Investors} \subseteq Accounts
  /\ Opening[RaiseTreasury] >= RaiseCap \div UnitPrice

VARIABLES
  offering,   \* status of the row in offerings
  investment, \* investment[i]: status of the row in offering_investments
  late,       \* history: investments inserted when a closing had read the rows
  torn        \* history: two closings were at once at work, or one died half-way

raiseVars == <<journals, bal, call, offering, investment, late, torn>>

RaiseInit ==
  /\ ServiceInit
  /\ offering = "open"
  /\ investment = [i \in Investments |-> "none"]
  /\ late = {}
  /\ torn = FALSE

Invested(i) == InvestUnits[i] * UnitPrice

InStatus(S) == {i \in Investments : investment[i] \in S}

Total(I) == SumFunctionOnSet([i \in Investments |-> Invested(i)], I)

(* The requests that settle or refund; each is named for its outcome.      *)
Closings == {"settled", "refunded", "cancelled"}
AtWork == {s \in Slots : call[s].op \in Closings}

Settled(i) == Posted(<<"raise-settle", i>>)
Refunded(i) == Posted(<<"raise-refund", i>>)

-----------------------------------------------------------------------------
(* invest: a row with the key answers the call; the offering, the cap and  *)
(* the cash are read, the escrow journal is posted, the row is inserted.   *)
InvestCall(s, i) ==
  /\ investment[i] = "none"
  /\ offering = "open"
  /\ Total(InStatus({"committed", "settled"})) + Invested(i) <= RaiseCap
  /\ bal[Investor] >= Invested(i)
  /\ Begin(s, "invest", "post", i, None)
  /\ UNCHANGED <<journals, bal, offering, investment, late, torn>>

InvestPost(s) ==
  LET i == call[s].row IN
  /\ At(s, "invest", "post")
  /\ PostJournal(<<"commit", i>>, Move(Investor, RaiseEscrow, Invested(i)))
  /\ Goto(s, "insert")
  /\ UNCHANGED <<offering, investment, late, torn>>

InvestInsert(s) ==
  /\ At(s, "invest", "insert")
  /\ investment' = [investment EXCEPT ![call[s].row] = IF @ = "none" THEN "committed" ELSE @]
  /\ late' = IF investment[call[s].row] = "none" /\ (offering # "open" \/ AtWork # {})
               THEN late \cup {call[s].row} ELSE late
  /\ Leave(s)
  /\ UNCHANGED <<journals, bal, offering, torn>>

-----------------------------------------------------------------------------
(* closeOffering and cancelOffering: the offering, then the committed      *)
(* rows, which decide between settling and refunding.                      *)
Outcome(I) == IF Total(I) >= RaiseTarget THEN "settled" ELSE "refunded"

CloseOffering(s) ==
  LET committed == InStatus({"committed"}) IN
  /\ offering = "open"
  /\ Begin(s, Outcome(committed), "next", None, committed)
  /\ torn' = (torn \/ AtWork # {})
  /\ UNCHANGED <<journals, bal, offering, investment, late>>

CancelOffering(s) ==
  /\ offering = "open"
  /\ Begin(s, "cancelled", "next", None, InStatus({"committed"}))
  /\ torn' = (torn \/ AtWork # {})
  /\ UNCHANGED <<journals, bal, offering, investment, late>>

Closing(s, at) == call[s].op \in Closings /\ call[s].at = at

Delivery(i) ==
  Both(Move(RaiseEscrow, Issuer, Invested(i)), Move(RaiseTreasury, Investors, InvestUnits[i]))

(* The journal of the next row on the list, under its id.                  *)
OutcomePost(s) ==
  /\ Closing(s, "next")
  /\ \E i \in call[s].saw :
       /\ IF call[s].op = "settled"
            THEN PostJournal(<<"raise-settle", i>>, Delivery(i))
            ELSE PostJournal(<<"raise-refund", i>>, Move(RaiseEscrow, Investor, Invested(i)))
       /\ call' = [call EXCEPT ![s] = Request(@.op, "mark", i, @.saw \ {i})]
  /\ UNCHANGED <<offering, investment, late, torn>>

OutcomeMark(s) ==
  LET status == IF call[s].op = "settled" THEN "settled" ELSE "refunded" IN
  /\ Closing(s, "mark")
  /\ investment' = [investment EXCEPT ![call[s].row] = status]
  /\ Goto(s, "next")
  /\ UNCHANGED <<journals, bal, offering, late, torn>>

OutcomeDoneEarly(s) ==  \* faulty: the status comes before the rows
  /\ Closing(s, "next")
  /\ offering' = call[s].op
  /\ IF call[s].saw = {} THEN Leave(s) ELSE Goto(s, "next")
  /\ UNCHANGED <<journals, bal, investment, late, torn>>

OutcomeDone(s) ==
  /\ Closing(s, "next") /\ call[s].saw = {}
  /\ offering' = call[s].op
  /\ Leave(s)
  /\ UNCHANGED <<journals, bal, investment, late, torn>>

(* A closing that is repeated counts the rows that are still committed.    *)
RaiseDies(s) ==
  /\ Dies(s)
  /\ torn' = (torn \/ (s \in AtWork /\ \E i \in Investments : Settled(i) \/ Refunded(i)))
  /\ UNCHANGED <<offering, investment, late>>

-----------------------------------------------------------------------------
RaiseNext ==
  \E s \in Slots :
    \/ \E i \in Investments : InvestCall(s, i)
    \/ CloseOffering(s) \/ CancelOffering(s)
    \/ InvestPost(s) \/ InvestInsert(s)
    \/ OutcomePost(s) \/ OutcomeMark(s) \/ OutcomeDone(s)
    \/ RaiseDies(s)

RaiseSpec == RaiseInit /\ [][RaiseNext]_raiseVars

-----------------------------------------------------------------------------
(* Correctness *)

Committed(i) == Posted(<<"commit", i>>)

(* The issuer is paid only out of a raise that reached its target, every   *)
(* status has its journal, and money is settled or given back only after   *)
(* it was committed.                                                       *)
OutcomesHaveJournals ==
  /\ \A i \in Investments :
       /\ Settled(i) => Total({j \in Investments : Committed(j)}) >= RaiseTarget
       /\ Settled(i) \/ Refunded(i) \/ investment[i] # "none" => Committed(i)
       /\ investment[i] = "settled" => Settled(i)
       /\ investment[i] = "refunded" => Refunded(i)
  /\ offering = "settled" => Total({i \in Investments : Settled(i)}) >= RaiseTarget

(* An offering that is no longer open left no investment in escrow but for *)
(* those that were inserted behind the reading of its rows.                *)
NothingLeftBehind == offering # "open" => InStatus({"committed"}) \subseteq late

(* "At close the raise SETTLES ... if the target is met, or REFUNDS        *)
(* everyone" (capitalRaiseService.ts:5-7): one or the other.               *)
OneOutcome ==
  /\ ~(\E i, j \in Investments : Settled(i) /\ Refunded(j))
  /\ offering = "settled" => \A i \in Investments : ~Refunded(i)
  /\ offering \in {"refunded", "cancelled"} => \A i \in Investments : ~Settled(i)

(* However closings, cancellations, investments and deaths interleave,     *)
(* outcomes have their journals and nothing but late investments is left   *)
(* behind; and the raise has one outcome, unless two closings were at work *)
(* at once or one that had moved money died and was repeated               *)
(* (capitalRaiseService.ts:179-270).                                       *)
IssuerPaidOnTarget ==
  /\ OutcomesHaveJournals
  /\ NothingLeftBehind
  /\ ~torn => OneOutcome
=============================================================================
