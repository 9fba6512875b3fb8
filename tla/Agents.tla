------------------------------- MODULE Agents -------------------------------
(***************************************************************************)
(* A user's grant to an agent and what the agent gets for it:              *)
(* backend/src/services/userAgentGrantService.ts,                          *)
(* agentPersonhoodService.ts, presentationService.ts, routes/present.ts.   *)
(*                                                                         *)
(* A presentation consumes its nonce in a transaction, then reads the      *)
(* credential, the grant and the attestation one by one; the token it      *)
(* mints has what all of them allow.  The attestation follows the grant in *)
(* a statement of its own.                                                 *)
(***************************************************************************)
EXTENDS Service

CONSTANTS
  Functions,      \* what an agent may be allowed to do
  Presentations,  \* vp_hash of each signed presentation
  Nonces, NonceOf, NonceScope,
  PersonhoodEnforced  \* AGENT_PERSONHOOD_ENFORCED and require_user_approval

ASSUME AgentsAssumption ==
  /\ NonceOf \in [Presentations -> Nonces]
  /\ NonceScope \in [Nonces -> SUBSET Functions]
  /\ PersonhoodEnforced \in BOOLEAN

VARIABLES
  agentGrant,  \* [active, functions] of user_agent_grants
  attested,    \* active of agent_personhood_attestations
  credential,  \* "valid" or "revoked"
  used,        \* nonces that are used
  tokens,      \* rows of vp_presentations: [of, scope, human, during]
  relay,       \* relay[n]: "none", "parked" or "fetched"
  during,      \* during[s]: what was granted at some time of the request: a history variable
  ragged       \* a change of the grant overlapped another, or died: a history variable

agentsVars ==
  <<journals, bal, call, agentGrant, attested, credential, used, tokens, relay, during, ragged>>

AgentsInit ==
  /\ ServiceInit
  /\ agentGrant = [active |-> FALSE, functions |-> {}]
  /\ attested = FALSE
  /\ credential = "valid"
  /\ used = {}
  /\ tokens = {}
  /\ relay = [n \in Nonces |-> "none"]
  /\ during = [s \in Slots |-> [granted |-> {}, attested |-> FALSE]]
  /\ ragged = FALSE

-----------------------------------------------------------------------------
(* What the requests that are running have seen by now.                    *)
Watch ==
  during' = [s \in Slots |->
    IF call'[s] = Idle \/ call'[s].op # "present" THEN [granted |-> {}, attested |-> FALSE]
    ELSE [granted |-> during[s].granted \cup
                        (IF agentGrant'.active THEN agentGrant'.functions ELSE {}),
          attested |-> during[s].attested \/ attested']]

Changing == {t \in Slots : call[t].op \in {"grant", "revoke"}}

(* grantAgent: the row of user and agent, then its attestation.            *)
GrantAgent(s, F) ==
  /\ Begin(s, "grant", "credential", None, <<>>)
  /\ agentGrant' = [active |-> TRUE, functions |-> F]
  /\ ragged' = (ragged \/ Changing # {})
  /\ UNCHANGED <<journals, bal, attested, credential, used, tokens, relay>>

(* mintAttestation does nothing without a credential, and nothing when it  *)
(* fails.                                                                  *)
AttestRead(s) ==
  /\ At(s, "grant", "credential")
  /\ \/ credential = "valid" /\ Goto(s, "attest")
     \/ Leave(s)
  /\ UNCHANGED <<journals, bal, agentGrant, attested, credential, used, tokens, relay, ragged>>

AttestWrite(s) ==
  /\ At(s, "grant", "attest")
  /\ attested' = TRUE
  /\ Leave(s)
  /\ UNCHANGED <<journals, bal, agentGrant, credential, used, tokens, relay, ragged>>

(* revokeGrant and revokeAttestation.                                      *)
RevokeGrant(s) ==
  /\ agentGrant.functions # {}
  /\ Begin(s, "revoke", "attestation", None, <<>>)
  /\ agentGrant' = [agentGrant EXCEPT !.active = FALSE]
  /\ ragged' = (ragged \/ Changing # {})
  /\ UNCHANGED <<journals, bal, attested, credential, used, tokens, relay>>

RevokeAttestation(s) ==
  /\ At(s, "revoke", "attestation")
  /\ attested' = FALSE
  /\ Leave(s)
  /\ UNCHANGED <<journals, bal, agentGrant, credential, used, tokens, relay, ragged>>

RevokeCredential ==
  /\ credential = "valid"
  /\ credential' = "revoked"
  /\ UNCHANGED <<journals, bal, call, agentGrant, attested, used, tokens, relay, ragged>>

-----------------------------------------------------------------------------
(* verifyPresentation: was it seen, is its nonce free (a transaction), is  *)
(* the credential valid, what is granted, is it a person.                  *)
Seen(p) == \E t \in tokens : t.of = p

PresentCall(s, p) ==
  /\ ~Seen(p)
  /\ Begin(s, "present", "nonce", p, <<>>)
  /\ UNCHANGED <<journals, bal, agentGrant, attested, credential, used, tokens, relay, ragged>>

ConsumeNonce(s) ==
  LET n == NonceOf[call[s].row] IN
  /\ At(s, "present", "nonce")
  /\ IF n \in used THEN Leave(s) ELSE Goto(s, "credential")
  /\ used' = used \cup {n}
  /\ UNCHANGED <<journals, bal, agentGrant, attested, credential, tokens, relay, ragged>>

CredentialRead(s) ==
  /\ At(s, "present", "credential")
  /\ IF credential = "valid" THEN Goto(s, "grant") ELSE Leave(s)
  /\ UNCHANGED <<journals, bal, agentGrant, attested, credential, used, tokens, relay, ragged>>

GrantRead(s) ==
  LET scope == NonceScope[NonceOf[call[s].row]] \cap agentGrant.functions IN
  /\ At(s, "present", "grant")
  /\ IF agentGrant.active /\ scope # {}
       THEN Seeing(s, "person", <<scope>>)
       ELSE Leave(s)
  /\ UNCHANGED <<journals, bal, agentGrant, attested, credential, used, tokens, relay, ragged>>

PersonhoodRead(s) ==
  /\ At(s, "present", "person")
  /\ IF attested \/ ~PersonhoodEnforced
       THEN Seeing(s, "token", <<call[s].saw[1], attested>>)
       ELSE Leave(s)
  /\ UNCHANGED <<journals, bal, agentGrant, attested, credential, used, tokens, relay, ragged>>

RecordToken(s) ==
  /\ At(s, "present", "token")
  /\ tokens' = tokens \cup {[of |-> call[s].row, scope |-> call[s].saw[1],
                             human |-> call[s].saw[2], during |-> during[s]]}
  /\ Goto(s, "park")
  /\ UNCHANGED <<journals, bal, agentGrant, attested, credential, used, relay, ragged>>

(* storePendingToken and, once, fetchPendingToken.                         *)
ParkToken(s) ==
  /\ At(s, "present", "park")
  /\ relay' = [relay EXCEPT ![NonceOf[call[s].row]] = "parked"]
  /\ Leave(s)
  /\ UNCHANGED <<journals, bal, agentGrant, attested, credential, used, tokens, ragged>>

FetchToken(n) ==
  /\ relay[n] = "parked"
  /\ relay' = [relay EXCEPT ![n] = "fetched"]
  /\ UNCHANGED <<journals, bal, call, agentGrant, attested, credential, used, tokens, ragged>>

-----------------------------------------------------------------------------
AgentsNext ==
  /\ \/ RevokeCredential
     \/ \E n \in Nonces : FetchToken(n)
     \/ \E s \in Slots :
          \/ \E F \in SUBSET Functions \ {{}} : GrantAgent(s, F)
          \/ AttestRead(s) \/ AttestWrite(s) \/ RevokeGrant(s) \/ RevokeAttestation(s)
          \/ \E p \in Presentations : PresentCall(s, p)
          \/ ConsumeNonce(s) \/ CredentialRead(s) \/ GrantRead(s) \/ PersonhoodRead(s)
          \/ RecordToken(s) \/ ParkToken(s)
          \/ /\ Dies(s)
             /\ ragged' = (ragged \/ s \in Changing)
             /\ UNCHANGED <<agentGrant, attested, credential, used, tokens, relay>>
  /\ Watch

AgentsSpec == AgentsInit /\ [][AgentsNext]_agentsVars

-----------------------------------------------------------------------------
(* Correctness *)

(* A nonce yields one token, of what was asked for and was granted, and    *)
(* attested if it says so, while it was presented; the relay has only such *)
(* tokens (presentationService.ts:198-302, routes/present.ts:35-48).       *)
TokensFollowGrant ==
  /\ \A t, u \in tokens : NonceOf[t.of] = NonceOf[u.of] => t = u
  /\ \A t \in tokens :
       /\ t.scope # {} /\ t.scope \subseteq NonceScope[NonceOf[t.of]] \cap t.during.granted
       /\ t.human => t.during.attested
  /\ \A n \in Nonces : relay[n] # "none" => \E t \in tokens : NonceOf[t.of] = n

(* The attestation is valid only while the grant is, as long as no two     *)
(* changes of the grant overlapped and none died between its two rows      *)
(* (userAgentGrantService.ts:126-128, 156-162).                            *)
AttestedWhileGranted == ~ragged /\ Changing = {} => (attested => agentGrant.active)
=============================================================================
