------------------------------ MODULE Listings ------------------------------
(***************************************************************************)
(* Issuance and listings: backend/src/services/tokenizationService.ts,     *)
(* listingService.ts, issuanceService.ts, sellerCollectibleService.ts.     *)
(*                                                                         *)
(* A listing is a list of versions that is only added to: a writer reads   *)
(* the last one and inserts the next number, unique by asset.  To approve  *)
(* a seller's slab is to make its asset, mint it, list it, take the        *)
(* listing to public and last to mark the submission, each in a statement  *)
(* of its own, on an asset administrators can already see.                 *)
(***************************************************************************)
EXTENDS Service, Sequences

CONSTANTS
  Submissions,   \* ids of seller_collectible_submissions
  Assets,        \* the uuids createAsset may take
  AskPrice,      \* of a listing when it is created
  ListPrices,    \* prices an administrator publishes
  MaxVersions,   \* bound of the checker: administrators leave longer lists alone
  AssetEquity, AssetTreasury

ASSUME ListingsAssumption ==
  /\ {AskPrice} \cup ListPrices \subseteq Nat \ {0} /\ MaxVersions \in Nat
  /\ {AssetEquity, AssetTreasury} \subseteq Accounts
  /\ "issued" \notin Submissions /\ None \notin Submissions \cup {"issued"}

VARIABLES
  asset,       \* asset[a]: None, "issued", or the submission in its metadata
  versions,    \* versions[a]: [status, price] of each version of its listing
  submission,  \* submission[k]: [status, asset]
  split        \* submissions whose decisions overlapped, died or were refused: a history variable

listingsVars == <<journals, bal, call, asset, versions, submission, split>>

ListingsInit ==
  /\ ServiceInit
  /\ asset = [a \in Assets |-> None]
  /\ versions = [a \in Assets |-> <<>>]
  /\ submission = [k \in Submissions |-> [status |-> "pending_human", asset |-> None]]
  /\ split = {}

Allowed ==
  [staging |-> {"soft", "delisted"},
   soft    |-> {"public", "paused", "delisted"},
   public  |-> {"paused", "delisted"},
   paused  |-> {"public", "soft", "delisted"},
   delisted |-> {}]

(* What a request that goes wrong leaves undecided.                        *)
Spoil(s) ==
  split' = IF call[s].op \in {"approve", "reject"} THEN split \cup {call[s].row} ELSE split

Refused(s) ==
  /\ Leave(s)
  /\ Spoil(s)
  /\ UNCHANGED <<journals, bal, asset, versions, submission>>

-----------------------------------------------------------------------------
(* approveSubmission, rejectSubmission: the row is read, and not again.    *)
DecideSubmission(s, op, at, k) ==
  /\ submission[k].status = "pending_human"
  /\ Begin(s, op, at, k, <<None>>)
  /\ split' = IF \E t \in Slots : call[t].op \in {"approve", "reject"} /\ call[t].row = k
                THEN split \cup {k} ELSE split
  /\ UNCHANGED <<journals, bal, asset, versions, submission>>

ApproveCall(s, k) == DecideSubmission(s, "approve", "insert", k)

RejectCall(s, k) == DecideSubmission(s, "reject", "row", k)

(* issueAsset of the console.                                              *)
IssueCall(s) ==
  /\ Begin(s, "issue", "insert", "issued", <<None>>)
  /\ UNCHANGED <<journals, bal, asset, versions, submission, split>>

(* createAsset: the row, then the initial supply.                          *)
AssetInsert(s, a) ==
  /\ call[s].at = "insert" /\ asset[a] = None
  /\ asset' = [asset EXCEPT ![a] = call[s].row]
  /\ call' = [call EXCEPT ![s].at = "mint", ![s].saw = <<a>>]
  /\ UNCHANGED <<journals, bal, versions, submission, split>>

AssetMint(s) ==
  /\ call[s].at = "mint"
  /\ PostJournal(<<"mint", call[s].saw[1]>>, Move(AssetEquity, AssetTreasury, 1))
  /\ Goto(s, "list")
  /\ UNCHANGED <<asset, versions, submission, split>>

-----------------------------------------------------------------------------
(* createListing, transitionListing and updatePrice: what they make of the *)
(* current version, nothing when they refuse.                              *)
NextVersion(a, op) ==
  IF versions[a] = <<>>
    THEN IF op = "list" THEN {[status |-> "staging", price |-> AskPrice]} ELSE {}
    ELSE LET v == versions[a][Len(versions[a])] IN
         CASE op = "reprice" -> {[v EXCEPT !.price = p] : p \in ListPrices}
           [] op \in Allowed[v.status] -> {[v EXCEPT !.status = op]}
           [] OTHER -> {}

Saw(a, v) == <<a, Len(versions[a]), v.status, v.price>>

AdminCall(s, a, op) ==
  /\ asset[a] # None /\ Len(versions[a]) < MaxVersions
  /\ \E v \in NextVersion(a, op) : Begin(s, "admin", "write", None, Saw(a, v))
  /\ UNCHANGED <<journals, bal, asset, versions, submission, split>>

CurrentRead(s) ==
  LET a == call[s].saw[1]  op == call[s].at IN
  /\ op \in {"list", "soft", "public"}
  /\ IF NextVersion(a, op) = {}
       THEN Refused(s)
       ELSE /\ \E v \in NextVersion(a, op) :
                 call' = [call EXCEPT ![s].at = "write", ![s].saw = Saw(a, v)]
            /\ UNCHANGED <<journals, bal, asset, versions, submission, split>>

AfterVersion(s) ==
  CASE call[s].op # "admin" /\ call[s].saw[3] = "staging" -> "soft"
    [] call[s].op = "approve" /\ call[s].saw[3] = "soft" -> "public"
    [] call[s].op = "approve" /\ call[s].saw[3] = "public" -> "row"
    [] OTHER -> "done"

InsertVersion(s) ==
  LET a == call[s].saw[1] IN
  /\ call[s].at = "write"
  /\ IF Len(versions[a]) = call[s].saw[2]
       THEN /\ versions' = [versions EXCEPT ![a] =
                              Append(@, [status |-> call[s].saw[3], price |-> call[s].saw[4]])]
            /\ IF AfterVersion(s) = "done" THEN Leave(s)
               ELSE call' = [call EXCEPT ![s].at = AfterVersion(s), ![s].saw = <<a>>]
            /\ UNCHANGED <<journals, bal, asset, submission, split>>
       ELSE Refused(s)

SubmissionRow(s) ==
  LET k == call[s].row IN
  /\ call[s].at = "row"
  /\ submission' = [submission EXCEPT ![k] =
       IF call[s].op = "approve" THEN [status |-> "approved", asset |-> call[s].saw[1]]
                                 ELSE [@ EXCEPT !.status = "rejected"]]
  /\ Leave(s)
  /\ UNCHANGED <<journals, bal, asset, versions, split>>

-----------------------------------------------------------------------------
ListingsNext ==
  \E s \in Slots :
    \/ \E k \in Submissions : ApproveCall(s, k) \/ RejectCall(s, k)
    \/ IssueCall(s)
    \/ \E a \in Assets : \/ AssetInsert(s, a)
                         \/ \E op \in {"list", "reprice"} \cup DOMAIN Allowed : AdminCall(s, a, op)
    \/ AssetMint(s) \/ CurrentRead(s) \/ InsertVersion(s) \/ SubmissionRow(s)
    \/ Dies(s) /\ Spoil(s) /\ UNCHANGED <<asset, versions, submission>>

ListingsSpec == ListingsInit /\ [][ListingsNext]_listingsVars

-----------------------------------------------------------------------------
(* Correctness *)

(* A version changes the status along the diagram or the price, and never  *)
(* both, whoever else writes: delisted is final and no price is lost       *)
(* (listingService.ts:108-181, 006_marketplace.sql:42).                    *)
VersionsFollowDiagram ==
  \A a \in Assets : LET v == versions[a] IN
    /\ v # <<>> => v[1].status = "staging" /\ asset[a] # None
    /\ \A i \in 1..Len(v) - 1 :
         \/ v[i + 1].status = v[i].status
         \/ v[i + 1].status \in Allowed[v[i].status] /\ v[i + 1].price = v[i].price

(* An approved slab was minted once and was listed to the public; it has   *)
(* one asset, and a rejected one none, unless decisions on it overlapped,  *)
(* died or were refused half-way (sellerCollectibleService.ts:183-272).    *)
OneAssetPerSlab ==
  \A k \in Submissions :
    /\ submission[k].asset # None =>
         LET a == submission[k].asset IN
         /\ asset[a] = k /\ Posted(<<"mint", a>>)
         /\ \E i \in 1..Len(versions[a]) : versions[a][i].status = "public"
    /\ k \notin split =>
         /\ \A a, b \in Assets : asset[a] = k /\ asset[b] = k => a = b
         /\ submission[k].status = "rejected" => \A a \in Assets : asset[a] # k
=============================================================================
