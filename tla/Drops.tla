-------------------------------- MODULE Drops --------------------------------
(***************************************************************************)
(* Creator drops, backend/src/services/creatorDropService.ts: claimDrop on *)
(* one drop.  Nothing is a transaction but the journal: the key, the row,  *)
(* the cash and the stock are read, the claim is posted, the edition       *)
(* number and the new count come from the row that was read first.         *)
(***************************************************************************)
EXTENDS Service

CONSTANTS
  Claims,       \* idempotency keys of claims
  ClaimPrice,   \* price_minor
  EditionSize,  \* edition_size
  Fan, Creator, \* user_cash of the buyers, taken together, and of the creator
  DropSupply, Claimed  \* asset treasury, and the buyers' units

ASSUME DropsAssumption ==
  /\ ClaimPrice \in Nat \ {0}
  /\ EditionSize \in Nat \ {0}
  /\ {Fan, Creator, DropSupply, Claimed} \subseteq Accounts
  /\ DropSupply \notin {Fan, Creator, Claimed} /\ Claimed \notin {Fan, Creator}
  /\ Opening[DropSupply] = EditionSize

VARIABLES
  drop,   \* the row in creator_drops: status and claimed_count
  claim   \* claim[c]: edition_number of the row in drop_claims, or 0

dropVars == <<journals, bal, call, drop, claim>>

DropsInit ==
  /\ ServiceInit
  /\ drop = [status |-> "active", claimed |-> 0]
  /\ claim = [c \in Claims |-> 0]

-----------------------------------------------------------------------------
(* claimDrop: a claim with the key answers the call.                       *)
ClaimCall(s, c) ==
  /\ claim[c] = 0
  /\ drop.status = "active"
  /\ Begin(s, "claim", "check", c, drop.claimed)
  /\ UNCHANGED <<journals, bal, drop, claim>>

ClaimCheckCash(s) ==  \* faulty: only the status says that the drop is sold out
  /\ At(s, "claim", "check")
  /\ IF bal[Fan] >= ClaimPrice THEN Goto(s, "post") ELSE Leave(s)
  /\ UNCHANGED <<journals, bal, drop, claim>>

(* The cash, then the stock; a drop without stock is marked sold out.      *)
ClaimCheck(s) ==
  /\ At(s, "claim", "check")
  /\ IF bal[Fan] >= ClaimPrice /\ bal[DropSupply] < 1
       THEN drop' = [drop EXCEPT !.status = "sold_out"]
       ELSE UNCHANGED drop
  /\ IF bal[Fan] >= ClaimPrice /\ bal[DropSupply] >= 1 THEN Goto(s, "post") ELSE Leave(s)
  /\ UNCHANGED <<journals, bal, claim>>

ClaimPost(s) ==
  /\ At(s, "claim", "post")
  /\ PostJournal(<<"claim", call[s].row>>,
       Both(Move(Fan, Creator, ClaimPrice), Move(DropSupply, Claimed, 1)))
  /\ Goto(s, "insert")
  /\ UNCHANGED <<drop, claim>>

(* INSERT INTO drop_claims: the key is UNIQUE.                             *)
ClaimInsert(s) ==
  LET c == call[s].row IN
  /\ At(s, "claim", "insert")
  /\ IF claim[c] = 0
       THEN claim' = [claim EXCEPT ![c] = call[s].saw + 1] /\ Goto(s, "count")
       ELSE UNCHANGED claim /\ Leave(s)
  /\ UNCHANGED <<journals, bal, drop>>

ClaimCount(s) ==
  LET edition == call[s].saw + 1 IN
  /\ At(s, "claim", "count")
  /\ drop' = [status |-> IF edition >= EditionSize THEN "sold_out" ELSE "active",
              claimed |-> edition]
  /\ Leave(s)
  /\ UNCHANGED <<journals, bal, claim>>

-----------------------------------------------------------------------------
DropsNext ==
  \E s \in Slots :
    \/ \E c \in Claims : ClaimCall(s, c)
    \/ ClaimCheck(s) \/ ClaimPost(s) \/ ClaimInsert(s) \/ ClaimCount(s)
    \/ Dies(s) /\ UNCHANGED <<drop, claim>>

DropsSpec == DropsInit /\ [][DropsNext]_dropVars

-----------------------------------------------------------------------------
(* Correctness *)

(* "Idempotent on the key; never over-mints the edition."                  *)
(* (creatorDropService.ts:130).                                            *)
NeverOverMints == bal[DropSupply] >= 0

(* What remains true: the edition is over-minted by no more than the       *)
(* claims that were in flight together, whatever is retried; a claim on    *)
(* the books was paid for and delivered, and its number is not above the   *)
(* number of claims that were (creatorDropService.ts:155, 161-180).        *)
OverMintIsBounded ==
  /\ bal[DropSupply] >= 1 - Cardinality(Slots)
  /\ \A c \in Claims :
       claim[c] # 0 =>
         /\ Posted(<<"claim", c>>)
         /\ claim[c] <= bal[Claimed] - Opening[Claimed]
  /\ drop.claimed <= bal[Claimed] - Opening[Claimed]
=============================================================================
