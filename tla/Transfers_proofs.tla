-------------------------- MODULE Transfers_proofs --------------------------
(***************************************************************************)
(* Proofs about Transfers, for every set of users, requests, slots and     *)
(* workers, every way requests share keys, with and without Temporal: the  *)
(* inductive invariant Inv, no overdraft, that answers tell the truth, and *)
(* that a journal is the transfer of exactly one request.                  *)
(***************************************************************************)
EXTENDS Transfers, Ledger_proofs

Inv ==
  /\ TransfersTypeOK
  /\ NoUserOverdrawn
  /\ RunsInOrder
  /\ FlowsInOrder
  /\ AnswersInOrder
  /\ HistoryMatchesJournals

-----------------------------------------------------------------------------
LEMMA TransfersInitInv == TransfersInit => Inv
<1> SUFFICES ASSUME TransfersInit PROVE Inv
  OBVIOUS
<1> USE TransfersAssumption, OpeningAssumption DEF TransfersInit, LedgerInit
<1>1. TransfersTypeOK
  <2>1. 0 \in 0 .. MaxTries
    OBVIOUS
  <2> QED
    BY <2>1 DEF TransfersTypeOK, LedgerTypeOK, Effects, Runs, Idle, Flows
<1>2. NoUserOverdrawn
  BY DEF NoUserOverdrawn
<1>3. RunsInOrder
  BY DEF RunsInOrder, At, Idle
<1>4. FlowsInOrder
  BY DEF FlowsInOrder
<1>5. AnswersInOrder
  BY DEF AnswersInOrder
<1>6. HistoryMatchesJournals
  BY DEF HistoryMatchesJournals, Posted
<1> QED
  BY <1>1, <1>2, <1>3, <1>4, <1>5, <1>6 DEF Inv

-----------------------------------------------------------------------------
(* What a slot or worker may be executing next.                            *)
RunFits(c) ==
  /\ c.pc # "idle" => c.request \in Requests
  /\ c.pc \in {"ok", "store"} => Posted(Key[c.request])

(* Runs stay in order when one of them moves on and no journal is lost.    *)
LEMMA RunsPersist ==
  ASSUME Inv, NEW x \in Runners, NEW c \in Runs,
         run' = [run EXCEPT ![x] = c],
         RunFits(c)',
         DOMAIN journals \subseteq DOMAIN journals'
  PROVE  run' \in [Runners -> Runs] /\ RunsInOrder'
<1>1. run \in [Runners -> Runs]
  BY DEF Inv, TransfersTypeOK
<1>2. run' \in [Runners -> Runs]
  BY <1>1
<1>3. ASSUME NEW y \in Runners PROVE RunFits(run[y])'
  <2>1. CASE y = x
    <3>1. run'[y] = c
      BY <1>1, <2>1
    <3> QED
      BY <3>1 DEF RunFits, Posted
  <2>2. CASE y # x
    <3>1. run'[y] = run[y]
      BY <1>1, <2>2
    <3>2. RunFits(run[y])
      BY DEF Inv, RunsInOrder, RunFits, At, Req
    <3> QED
      BY <3>1, <3>2 DEF RunFits, Posted
  <2> QED
    BY <2>1, <2>2
<1>4. RunsInOrder'
  BY <1>3 DEF RunsInOrder, RunFits, At, Req, Posted
<1> QED
  BY <1>2, <1>4

(* A step that posts nothing needs to account for runs, flows and answers. *)
LEMMA QuietInv ==
  ASSUME Inv, UNCHANGED <<journals, bal, history>>,
         run' \in [Runners -> Runs], RunsInOrder',
         flow' \in [Keys -> Flows], FlowsInOrder',
         stored' \in [Keys -> [Users -> Requests \cup {None}]],
         frozen' \subseteq Users, confirmed' \subseteq Requests,
         AnswersInOrder'
  PROVE  Inv'
<1>1. TransfersTypeOK'
  BY DEF Inv, TransfersTypeOK, LedgerTypeOK
<1>2. NoUserOverdrawn'
  BY DEF Inv, NoUserOverdrawn
<1>3. HistoryMatchesJournals'
  BY DEF Inv, HistoryMatchesJournals, MadeFor, Made, Posted
<1> QED
  BY <1>1, <1>2, <1>3 DEF Inv

(* A step of one run that changes no table and no workflow.                *)
LEMMA RunStepInv ==
  ASSUME Inv, NEW x \in Runners, NEW c \in Runs,
         run' = [run EXCEPT ![x] = c],
         RunFits(c),
         UNCHANGED <<journals, bal, history, stored, flow, frozen, confirmed>>
  PROVE  Inv'
<1>1. RunFits(c)'
  BY DEF RunFits, Posted
<1>2. run' \in [Runners -> Runs] /\ RunsInOrder'
  BY <1>1, RunsPersist
<1>3. FlowsInOrder' /\ AnswersInOrder'
  BY DEF Inv, FlowsInOrder, AnswersInOrder, Posted
<1> QED
  BY <1>2, <1>3, QuietInv DEF Inv, TransfersTypeOK

LEMMA IdleFits == Idle \in Runs /\ RunFits(Idle) /\ RunFits(Idle)'
<1>1. 0 \in 0 .. MaxTries
  BY TransfersAssumption
<1> QED
  BY <1>1 DEF Idle, Runs, RunFits

LEMMA LeaveInv ==
  ASSUME Inv, NEW x \in Runners, Leave(x),
         UNCHANGED <<journals, bal, history, stored, flow, frozen, confirmed>>
  PROVE  Inv'
BY IdleFits, RunStepInv DEF Leave

Pcs == {"start", "await", "enter", "screen", "commit", "ok", "refused", "store"}

(* Goto, as the step to one run of the same request.                       *)
LEMMA GotoRun ==
  ASSUME Inv, NEW x \in Runners, NEW pc \in Pcs, Goto(x, pc)
  PROVE  \E c \in Runs : /\ c.pc = pc /\ c.request = run[x].request
                         /\ run' = [run EXCEPT ![x] = c]
<1>1. run \in [Runners -> Runs] /\ run[x] \in Runs
  BY DEF Inv, TransfersTypeOK
<1> DEFINE c == [run[x] EXCEPT !.pc = pc]
<1>2. c \in Runs /\ c.pc = pc /\ c.request = run[x].request
  BY <1>1 DEF Runs, Pcs
<1>3. run' = [run EXCEPT ![x] = c]
  BY <1>1 DEF Goto
<1> QED
  BY <1>2, <1>3

LEMMA GotoInv ==
  ASSUME Inv, NEW x \in Runners, NEW pc \in Pcs, Goto(x, pc),
         run[x].pc # "idle",
         pc \in {"ok", "store"} => Posted(Key[run[x].request]),
         UNCHANGED <<journals, bal, history, stored, flow, frozen, confirmed>>
  PROVE  Inv'
<1>1. PICK c \in Runs : /\ c.pc = pc /\ c.request = run[x].request
                        /\ run' = [run EXCEPT ![x] = c]
  BY GotoRun
<1>2. RunFits(c)
  BY <1>1 DEF RunFits, Inv, RunsInOrder, At, Req
<1> QED
  BY <1>1, <1>2, RunStepInv

(* The request of a busy run.                                              *)
LEMMA BusyRun ==
  ASSUME Inv, NEW x \in Runners, run[x].pc # "idle"
  PROVE  /\ Req(x) \in Requests
         /\ Key[Req(x)] \in Keys
         /\ run[x].pc \in {"ok", "store"} => Posted(Key[Req(x)])
BY TransfersAssumption DEF Inv, RunsInOrder, At, Req

-----------------------------------------------------------------------------
LEMMA ReceiveInv ==
  ASSUME Inv, NEW s \in Slots, NEW r \in Requests, Receive(s, r)
  PROVE  Inv'
<1> DEFINE seen == stored[Key[r]][Sender[r]]
           pc == IF seen = None THEN Execute ELSE IF seen = r THEN "ok" ELSE "refused"
<1>1. 0 \in 0 .. MaxTries
  BY TransfersAssumption
<1>2. Execute \in {"start", "enter"}
  BY DEF Execute
<1>3. PICK c \in Runs : c = [pc |-> pc, request |-> r, try |-> 0]
  <2>1. pc \in {"start", "enter", "ok", "refused"}
    BY <1>2
  <2> HIDE DEF pc
  <2> QED
    BY <1>1, <2>1 DEF Runs
<1>4. RunFits(c)
  <2>1. pc \in {"ok", "store"} => seen = r
    BY <1>2
  <2>2. seen = r => Posted(Key[r])
    BY DEF Inv, AnswersInOrder
  <2> QED
    BY <1>3, <2>1, <2>2 DEF RunFits
<1>5. run' = [run EXCEPT ![s] = c]
  BY <1>3 DEF Receive
<1> QED
  BY <1>4, <1>5, RunStepInv DEF Receive, Runners

LEMMA ConfirmInv ==
  ASSUME Inv, NEW s \in Slots, Confirm(s)
  PROVE  Inv'
<1>1. /\ run[s].pc = "ok" /\ s \in Runners
      /\ confirmed' = confirmed \cup {Req(s)}
      /\ Goto(s, "store")
      /\ UNCHANGED <<journals, bal, history, stored, flow, frozen>>
  BY DEF Confirm, At, Runners
<1>2. Req(s) \in Requests /\ Posted(Key[Req(s)])
  BY <1>1, BusyRun
<1>3. PICK c \in Runs : /\ c.pc = "store" /\ c.request = run[s].request
                        /\ run' = [run EXCEPT ![s] = c]
  BY <1>1, GotoRun DEF Pcs
<1>4. RunFits(c)'
  BY <1>1, <1>2, <1>3 DEF RunFits, Req, Posted
<1>5. run' \in [Runners -> Runs] /\ RunsInOrder'
  BY <1>1, <1>3, <1>4, RunsPersist
<1>6. FlowsInOrder'
  BY <1>1 DEF Inv, FlowsInOrder, Posted
<1>7. AnswersInOrder'
  BY <1>1, <1>2 DEF Inv, AnswersInOrder, Posted
<1>8. confirmed' \subseteq Requests
  BY <1>1, <1>2 DEF Inv, TransfersTypeOK
<1> QED
  BY <1>1, <1>5, <1>6, <1>7, <1>8, QuietInv DEF Inv, TransfersTypeOK

LEMMA StoreInv ==
  ASSUME Inv, NEW s \in Slots, Store(s)
  PROVE  Inv'
<1> DEFINE r == Req(s)
<1>1. /\ run[s].pc = "store" /\ s \in Runners
      /\ stored' = IF stored[Key[r]][Sender[r]] = None
                     THEN [stored EXCEPT ![Key[r]][Sender[r]] = r] ELSE stored
      /\ Leave(s)
      /\ UNCHANGED <<journals, bal, history, flow, frozen, confirmed>>
  BY DEF Store, At, Runners
<1>2. r \in Requests /\ Posted(Key[r])
  BY <1>1, BusyRun
<1>3. Key[r] \in Keys /\ Sender[r] \in Users
  BY <1>2, TransfersAssumption
<1>4. stored \in [Keys -> [Users -> Requests \cup {None}]]
  BY DEF Inv, TransfersTypeOK
<1>5. stored' \in [Keys -> [Users -> Requests \cup {None}]]
  BY <1>1, <1>2, <1>3, <1>4
<1>6. \A q \in Requests : stored'[Key[q]][Sender[q]] = q =>
        stored[Key[q]][Sender[q]] = q \/ q = r
  <2> SUFFICES ASSUME NEW q \in Requests, stored'[Key[q]][Sender[q]] = q
               PROVE  stored[Key[q]][Sender[q]] = q \/ q = r
    OBVIOUS
  <2>1. Key[q] \in Keys /\ Sender[q] \in Users
    BY TransfersAssumption
  <2>2. stored'[Key[q]][Sender[q]] \in {stored[Key[q]][Sender[q]], r}
    BY <1>1, <1>3, <1>4, <2>1
  <2> QED
    BY <2>2
<1>7. run' \in [Runners -> Runs] /\ RunsInOrder'
  BY <1>1, IdleFits, RunsPersist DEF Leave
<1>8. FlowsInOrder'
  BY <1>1 DEF Inv, FlowsInOrder, Posted
<1>9. AnswersInOrder'
  BY <1>1, <1>2, <1>6 DEF Inv, AnswersInOrder, Posted
<1> QED
  BY <1>1, <1>5, <1>7, <1>8, <1>9, QuietInv DEF Inv, TransfersTypeOK

-----------------------------------------------------------------------------
LEMMA EnterInv ==
  ASSUME Inv, NEW x \in Runners, Enter(x)
  PROVE  Inv'
BY GotoInv DEF Enter, At, Pcs

LEMMA ScreenInv ==
  ASSUME Inv, NEW x \in Runners, Screen(x)
  PROVE  Inv'
BY GotoInv DEF Screen, At, Pcs

LEMMA PostTransferInv ==
  ASSUME Inv, NEW x \in Runners, run[x].pc = "commit", PostTransfer(x),
         UNCHANGED <<stored, flow, frozen, confirmed>>
  PROVE  Inv'
<1>1. PICK r \in Requests : r = Req(x)
  BY BusyRun
<1>2. PICK d \in Effects : d = Move(Sender[r], Recipient[r], Amount[r])
  BY <1>1, MoveType, TransfersAssumption
<1>3. /\ Key[r] \in Keys /\ Sender[r] \in Users /\ Recipient[r] \in Users
      /\ Sender[r] # Recipient[r] /\ Amount[r] \in Nat
      /\ Users \subseteq Accounts
  BY TransfersAssumption
<1>4. /\ ~Posted(Key[r]) /\ bal[Sender[r]] >= Amount[r]
      /\ PostJournal(Key[r], d)
      /\ history' = [history EXCEPT ![r] = @ + 1]
      /\ Goto(x, "ok")
  BY <1>1, <1>2 DEF PostTransfer, Post
<1>5. /\ LedgerTypeOK'
      /\ DOMAIN journals' = DOMAIN journals \cup {Key[r]}
      /\ journals'[Key[r]] = d
      /\ \A k \in DOMAIN journals : journals'[k] = journals[k]
      /\ \A a \in Accounts : bal'[a] = bal[a] + d[a]
  BY <1>4, PostFresh DEF Inv, TransfersTypeOK
<1>6. PICK c \in Runs : /\ c.pc = "ok" /\ c.request = run[x].request
                        /\ run' = [run EXCEPT ![x] = c]
  BY <1>4, GotoRun DEF Pcs
<1>7. RunFits(c)'
  BY <1>1, <1>5, <1>6 DEF RunFits, Req, Posted
<1>8. run' \in [Runners -> Runs] /\ RunsInOrder'
  BY <1>5, <1>6, <1>7, RunsPersist
<1>9. TransfersTypeOK'
  <2>1. history' \in [Requests -> Nat]
    BY <1>4 DEF Inv, TransfersTypeOK
  <2> QED
    BY <1>5, <1>8, <2>1 DEF Inv, TransfersTypeOK
<1>10. NoUserOverdrawn'
  <2> SUFFICES ASSUME NEW u \in Users PROVE bal'[u] >= 0
    BY DEF NoUserOverdrawn
  <2>1. u \in Accounts /\ bal[u] \in Int /\ bal[u] >= 0
    BY <1>3 DEF Inv, TransfersTypeOK, LedgerTypeOK, Effects, NoUserOverdrawn
  <2>2. bal'[u] = bal[u] + d[u]
    BY <1>5, <2>1
  <2>3. d[u] = (IF u = Recipient[r] THEN Amount[r] ELSE 0) - (IF u = Sender[r] THEN Amount[r] ELSE 0)
    BY <1>2, <2>1 DEF Move
  <2> QED
    BY <1>3, <1>4, <2>1, <2>2, <2>3
<1>11. FlowsInOrder'
  BY <1>5 DEF Inv, FlowsInOrder, Posted
<1>12. AnswersInOrder'
  BY <1>5 DEF Inv, AnswersInOrder, Posted
<1>13. HistoryMatchesJournals'
  <2>1. history \in [Requests -> Nat] /\ \A q \in Requests : Key[q] = Key[r] => history[q] = 0
    BY <1>3, <1>4 DEF Inv, TransfersTypeOK, HistoryMatchesJournals
  <2>2. history'[r] = 1 /\ \A q \in Requests \ {r} : history'[q] = history[q]
    BY <1>4, <2>1
  <2>3. MadeFor(r)'
    BY <1>2, <1>5, <2>1, <2>2 DEF MadeFor, Made, Posted
  <2>4. ASSUME NEW k \in Keys, k # Key[r], Posted(k)
        PROVE  \E q \in Requests : Key[q] = k /\ MadeFor(q)'
    <3>1. PICK q \in Requests : Key[q] = k /\ MadeFor(q)
      BY <2>4 DEF Inv, HistoryMatchesJournals
    <3>2. Made(q)'
      BY <1>5, <3>1 DEF MadeFor, Made, Posted
    <3>3. history'[q] = 1 /\ \A p \in Requests \ {q} : Key[p] = Key[q] => history'[p] = 0
      BY <2>2, <2>4, <3>1 DEF MadeFor
    <3> QED
      BY <3>1, <3>2, <3>3 DEF MadeFor
  <2>5. ASSUME NEW k \in Keys, ~Posted(k)', NEW q \in Requests, Key[q] = k
        PROVE  history'[q] = 0
    <3>1. ~Posted(k) /\ k # Key[r]
      BY <1>5, <2>5 DEF Posted
    <3> QED
      BY <2>2, <2>5, <3>1 DEF Inv, HistoryMatchesJournals
  <2>6. \A k \in Keys : Posted(k)' <=> Posted(k) \/ k = Key[r]
    BY <1>5 DEF Posted
  <2> QED
    BY <2>3, <2>4, <2>5, <2>6 DEF HistoryMatchesJournals
<1> QED
  BY <1>8, <1>9, <1>10, <1>11, <1>12, <1>13 DEF Inv

LEMMA CommitInv ==
  ASSUME Inv, NEW x \in Runners, Commit(x)
  PROVE  Inv'
<1>1. run[x].pc = "commit" /\ UNCHANGED <<stored, flow, frozen, confirmed>>
  BY DEF Commit, At
<1>2. CASE AlreadyPosted(x)
  BY <1>1, <1>2, GotoInv DEF AlreadyPosted, Req, Pcs
<1>3. CASE Unfunded(x)
  BY <1>1, <1>3, GotoInv DEF Unfunded, Pcs
<1>4. CASE PostTransfer(x)
  BY <1>1, <1>4, PostTransferInv
<1> QED
  BY <1>2, <1>3, <1>4 DEF Commit

-----------------------------------------------------------------------------
(* A step that moves one run on and changes one workflow.                  *)
LEMMA FlowStepInv ==
  ASSUME Inv, NEW x \in Runners, NEW c \in Runs,
         run' = [run EXCEPT ![x] = c], RunFits(c),
         NEW k \in Keys, NEW f \in Flows,
         flow' = [flow EXCEPT ![k] = f],
         f.status = "running" => f.args \in Requests,
         f.status = "done" => Posted(k),
         UNCHANGED <<journals, bal, history, stored, frozen, confirmed>>
  PROVE  Inv'
<1>1. RunFits(c)'
  BY DEF RunFits, Posted
<1>2. run' \in [Runners -> Runs] /\ RunsInOrder'
  BY <1>1, RunsPersist
<1>3. flow \in [Keys -> Flows] /\ flow' \in [Keys -> Flows]
  BY DEF Inv, TransfersTypeOK
<1>4. FlowsInOrder'
  <2> SUFFICES ASSUME NEW j \in Keys
               PROVE  /\ flow'[j].status = "running" => flow'[j].args \in Requests
                      /\ flow'[j].status = "done" => Posted(j)
    BY DEF FlowsInOrder, Posted
  <2>1. CASE j = k
    BY <1>3, <2>1
  <2>2. CASE j # k
    BY <1>3, <2>2 DEF Inv, FlowsInOrder
  <2> QED
    BY <2>1, <2>2
<1>5. AnswersInOrder'
  BY DEF Inv, AnswersInOrder, Posted
<1> QED
  BY <1>2, <1>3, <1>4, <1>5, QuietInv DEF Inv, TransfersTypeOK

LEMMA StartFlowInv ==
  ASSUME Inv, NEW s \in Slots, StartFlow(s)
  PROVE  Inv'
<1> DEFINE k == Key[Req(s)]
<1>1. /\ run[s].pc = "start" /\ s \in Runners /\ Goto(s, "await")
      /\ UNCHANGED <<journals, bal, history, stored, frozen, confirmed>>
  BY DEF StartFlow, At, Runners
<1>2. Req(s) \in Requests /\ k \in Keys
  BY <1>1, BusyRun
<1>3. CASE UNCHANGED flow
  BY <1>1, <1>3, GotoInv DEF Pcs
<1>4. CASE ~(UNCHANGED flow)
  <2>1. PICK c \in Runs : /\ c.pc = "await" /\ c.request = run[s].request
                          /\ run' = [run EXCEPT ![s] = c]
    BY <1>1, GotoRun DEF Pcs
  <2>2. RunFits(c)
    BY <1>2, <2>1 DEF RunFits, Req
  <2>3. flow[k] \in Flows
    BY <1>2 DEF Inv, TransfersTypeOK
  <2>4. flow[k].tries + MaxAttempts <= MaxTries
    BY <1>4 DEF StartFlow
  <2>5. flow[k].tries + MaxAttempts \in 0 .. MaxTries
    BY <2>3, <2>4, TransfersAssumption DEF Flows
  <2>6. PICK f \in Flows : f = [status |-> "running", args |-> Req(s), tries |-> flow[k].tries,
                                limit |-> flow[k].tries + MaxAttempts]
    BY <1>2, <2>3, <2>5 DEF Flows
  <2>7. flow' = [flow EXCEPT ![k] = f]
    BY <1>4, <2>6 DEF StartFlow
  <2> QED
    BY <1>1, <1>2, <2>1, <2>2, <2>6, <2>7, FlowStepInv
<1> QED
  BY <1>3, <1>4

LEMMA AwaitFlowInv ==
  ASSUME Inv, NEW s \in Slots, AwaitFlow(s)
  PROVE  Inv'
<1>1. /\ run[s].pc = "await" /\ s \in Runners
      /\ UNCHANGED <<journals, bal, history, stored, flow, frozen, confirmed>>
  BY DEF AwaitFlow, At, Runners
<1>2. CASE FlowOf(s).status = "done" /\ Goto(s, "ok")
  <2>1. Posted(Key[run[s].request])
    BY <1>1, <1>2, BusyRun DEF Inv, FlowsInOrder, FlowOf, Req
  <2> QED
    BY <1>1, <1>2, <2>1, GotoInv DEF Pcs
<1>3. CASE Goto(s, "enter")
  BY <1>1, <1>3, GotoInv DEF Pcs
<1> QED
  BY <1>2, <1>3 DEF AwaitFlow

LEMMA DirectPathInv ==
  ASSUME Inv, NEW s \in Slots, Unreachable(s) \/ ConnectionLost(s)
  PROVE  Inv'
BY GotoInv DEF Unreachable, ConnectionLost, At, Pcs, Runners

LEMMA AttemptInv ==
  ASSUME Inv, NEW w \in Workers, NEW k \in Keys, Attempt(w, k)
  PROVE  Inv'
<1>1. /\ w \in Runners /\ flow[k].status = "running" /\ flow[k].tries < flow[k].limit
      /\ flow' = [flow EXCEPT ![k].tries = @ + 1]
      /\ run' = [run EXCEPT ![w] = [pc |-> "enter", request |-> flow[k].args,
                                    try |-> flow[k].tries + 1]]
      /\ UNCHANGED <<journals, bal, history, stored, frozen, confirmed>>
  BY DEF Attempt, Runners
<1>2. flow \in [Keys -> Flows] /\ flow[k] \in Flows /\ flow[k].args \in Requests
  BY <1>1 DEF Inv, TransfersTypeOK, FlowsInOrder
<1>3. flow[k].tries + 1 \in 0 .. MaxTries
  BY <1>1, <1>2, TransfersAssumption DEF Flows
<1>4. PICK c \in Runs : c = [pc |-> "enter", request |-> flow[k].args, try |-> flow[k].tries + 1]
  BY <1>2, <1>3 DEF Runs
<1>5. RunFits(c)
  BY <1>2, <1>4 DEF RunFits
<1> DEFINE g == [flow[k] EXCEPT !.tries = @ + 1]
<1>6. g \in Flows /\ g.status = "running" /\ g.args = flow[k].args
  BY <1>1, <1>2, <1>3 DEF Flows
<1>7. PICK f \in Flows : f = g
  BY <1>6
<1>8. flow' = [flow EXCEPT ![k] = f]
  BY <1>1, <1>2, <1>7
<1>9. f.status = "running" /\ f.args \in Requests
  BY <1>2, <1>6, <1>7
<1>10. run' = [run EXCEPT ![w] = c]
  BY <1>1, <1>4
<1> QED
  BY <1>1, <1>5, <1>8, <1>9, <1>10, FlowStepInv

LEMMA EndedFlow ==
  ASSUME Inv, NEW k \in Keys, NEW st \in {"done", "failed"}, EndFlow(k, st)
  PROVE  \E f \in Flows : f.status = st /\ flow' = [flow EXCEPT ![k] = f]
<1>1. flow \in [Keys -> Flows] /\ flow[k] \in Flows
  BY DEF Inv, TransfersTypeOK
<1> DEFINE f == [flow[k] EXCEPT !.status = st]
<1>2. f \in Flows /\ f.status = st
  BY <1>1 DEF Flows
<1>3. flow' = [flow EXCEPT ![k] = f]
  BY <1>1 DEF EndFlow
<1> QED
  BY <1>2, <1>3

LEMMA ReportInv ==
  ASSUME Inv, NEW w \in Workers, Report(w)
  PROVE  Inv'
<1>1. w \in Runners /\ Leave(w) /\ UNCHANGED <<journals, bal, history, stored, frozen, confirmed>>
  BY DEF Report, Runners
<1>2. CASE UNCHANGED flow
  BY <1>1, <1>2, LeaveInv
<1>3. CASE ~(UNCHANGED flow)
  <2> DEFINE k == Key[Req(w)]
  <2>1. run[w].pc = "ok" /\ EndFlow(k, "done")
    BY <1>3 DEF Report, At
  <2>2. k \in Keys /\ Posted(k)
    BY <1>1, <2>1, BusyRun
  <2>3. PICK f \in Flows : f.status = "done" /\ flow' = [flow EXCEPT ![k] = f]
    BY <2>1, <2>2, EndedFlow
  <2> QED
    BY <1>1, <2>2, <2>3, IdleFits, FlowStepInv DEF Leave
<1> QED
  BY <1>2, <1>3

LEMMA GiveUpInv ==
  ASSUME Inv, NEW k \in Keys, GiveUp(k)
  PROVE  Inv'
<1>1. EndFlow(k, "failed") /\ UNCHANGED <<journals, bal, history, stored, run, frozen, confirmed>>
  BY DEF GiveUp
<1>2. PICK f \in Flows : f.status = "failed" /\ flow' = [flow EXCEPT ![k] = f]
  BY <1>1, EndedFlow
<1>3. flow \in [Keys -> Flows] /\ flow' \in [Keys -> Flows]
  BY <1>2 DEF Inv, TransfersTypeOK
<1>4. FlowsInOrder'
  BY <1>1, <1>2, <1>3 DEF Inv, FlowsInOrder, Posted
<1>5. AnswersInOrder' /\ RunsInOrder'
  BY <1>1 DEF Inv, AnswersInOrder, RunsInOrder, At, Req, Posted
<1> QED
  BY <1>1, <1>3, <1>4, <1>5, QuietInv DEF Inv, TransfersTypeOK

LEMMA FreezeInv ==
  ASSUME Inv, NEW u \in Suspects, FreezeOrRelease(u)
  PROVE  Inv'
<1>1. UNCHANGED <<journals, bal, history, stored, flow, run, confirmed>>
  BY DEF FreezeOrRelease
<1>2. frozen' \subseteq Users
  BY TransfersAssumption DEF FreezeOrRelease, Inv, TransfersTypeOK
<1>3. AnswersInOrder' /\ RunsInOrder' /\ FlowsInOrder'
  BY <1>1 DEF Inv, AnswersInOrder, RunsInOrder, FlowsInOrder, At, Req, Posted
<1> QED
  BY <1>1, <1>2, <1>3, QuietInv DEF Inv, TransfersTypeOK

-----------------------------------------------------------------------------
LEMMA TransfersNextInv == Inv /\ [TransfersNext]_transferVars => Inv'
<1> SUFFICES ASSUME Inv, [TransfersNext]_transferVars PROVE Inv'
  OBVIOUS
<1> USE DEF Runners
<1>1. ASSUME NEW s \in Slots, NEW r \in Requests, Receive(s, r) PROVE Inv'
  BY <1>1, ReceiveInv
<1>2. ASSUME NEW x \in Runners, Transfer(x) PROVE Inv'
  BY <1>2, EnterInv, ScreenInv, CommitInv DEF Transfer
<1>3. ASSUME NEW s \in Slots, Serve(s) PROVE Inv'
  <2>1. CASE Refuse(s)
    BY <2>1, LeaveInv DEF Refuse
  <2>2. CASE Transfer(s)
    BY <1>2, <2>2
  <2> QED
    BY <1>3, <2>1, <2>2, ConfirmInv, StoreInv, StartFlowInv, AwaitFlowInv, DirectPathInv DEF Serve
<1>4. ASSUME NEW s \in Slots, ConnectionLost(s) PROVE Inv'
  BY <1>4, DirectPathInv
<1>5. ASSUME NEW w \in Workers, NEW k \in Keys, Attempt(w, k) PROVE Inv'
  BY <1>5, AttemptInv
<1>6. ASSUME NEW w \in Workers, Work(w) PROVE Inv'
  BY <1>2, <1>6, ReportInv DEF Work
<1>7. ASSUME NEW k \in Keys, GiveUp(k) PROVE Inv'
  BY <1>7, GiveUpInv
<1>8. ASSUME NEW x \in Runners, Fail(x) PROVE Inv'
  BY <1>8, LeaveInv DEF Fail
<1>9. ASSUME NEW u \in Suspects, FreezeOrRelease(u) PROVE Inv'
  BY <1>9, FreezeInv
<1>10. CASE UNCHANGED transferVars
  <2>1. UNCHANGED <<journals, bal, history, stored, flow, run, frozen, confirmed>>
    BY <1>10 DEF transferVars
  <2>2. AnswersInOrder' /\ RunsInOrder' /\ FlowsInOrder'
    BY <2>1 DEF Inv, AnswersInOrder, RunsInOrder, FlowsInOrder, At, Req, Posted
  <2> QED
    BY <2>1, <2>2, QuietInv DEF Inv, TransfersTypeOK
<1> QED
  BY <1>1, <1>3, <1>4, <1>5, <1>6, <1>7, <1>8, <1>9, <1>10 DEF TransfersNext

(* Inv is an invariant of the transfers.                                   *)
THEOREM TransfersInvariant == TransfersSpec => []Inv
BY TransfersInitInv, TransfersNextInv, PTL DEF TransfersSpec

(* The tables, workflows and runs keep their shape.                        *)
THEOREM TransfersTypes == TransfersSpec => []TransfersTypeOK
<1>1. Inv => TransfersTypeOK
  BY DEF Inv
<1> QED
  BY <1>1, TransfersInvariant, PTL

(* No interleaving of slots, workflow attempts and attempts that timed out *)
(* overdraws a user (transferService.ts:108-112).                          *)
THEOREM TransfersNoUserOverdrawn == TransfersSpec => []NoUserOverdrawn
<1>1. Inv => NoUserOverdrawn
  BY DEF Inv
<1> QED
  BY <1>1, TransfersInvariant, PTL

(* A journal is the transfer of exactly one request with its key, and has  *)
(* exactly one pair of history rows, however requests share keys and       *)
(* however often they are retried (transferService.ts:95-136).             *)
THEOREM TransfersHistoryMatchesJournals == TransfersSpec => []HistoryMatchesJournals
<1>1. Inv => HistoryMatchesJournals
  BY DEF Inv
<1> QED
  BY <1>1, TransfersInvariant, PTL

(* A success that a client, a workflow or the replay store has is a        *)
(* transfer that was made (idempotency.ts:4-8, moneyEngine.ts:4-10).       *)
THEOREM TransfersAnswersTellTruth == TransfersSpec => []AnswersTellTruth
<1>1. Inv => AnswersTellTruth
  <2> SUFFICES ASSUME Inv, NEW r \in Requests, KeyUnshared(r)
               PROVE  /\ \A x \in Runners : Req(x) = r /\ run[x].pc \in {"ok", "store"} => Made(r)
                      /\ stored[Key[r]][Sender[r]] = r => Made(r)
                      /\ flow[Key[r]].status = "done" => Made(r)
                      /\ r \in confirmed => Made(r)
    BY DEF AnswersTellTruth
  <2>1. Key[r] \in Keys
    BY TransfersAssumption
  <2>2. Posted(Key[r]) => Made(r)
    BY <2>1 DEF Inv, HistoryMatchesJournals, MadeFor, KeyUnshared
  <2>3. \A x \in Runners : Req(x) = r /\ run[x].pc \in {"ok", "store"} => Posted(Key[r])
    BY DEF Inv, RunsInOrder, At
  <2>4. stored[Key[r]][Sender[r]] = r \/ r \in confirmed => Posted(Key[r])
    BY DEF Inv, AnswersInOrder
  <2>5. flow[Key[r]].status = "done" => Posted(Key[r])
    BY <2>1 DEF Inv, FlowsInOrder
  <2> QED
    BY <2>2, <2>3, <2>4, <2>5
<1> QED
  BY <1>1, TransfersInvariant, PTL
-----------------------------------------------------------------------------
(* The customers' cash, as a sum over the rows of transactions.            *)
CashInv == IsFiniteSet(Recorded) /\ HistoryExplainsCash

(* A committed transfer adds one pair of rows, worth what it moved.        *)
LEMMA PostTransferKeepsCash ==
  ASSUME Inv, CashInv, NEW x \in Runners, run[x].pc = "commit", PostTransfer(x)
  PROVE  CashInv'
<1>1. PICK r \in Requests : r = Req(x)
  BY BusyRun
<1>2. PICK d \in Effects : d = Move(Sender[r], Recipient[r], Amount[r])
  BY <1>1, MoveType, TransfersAssumption
<1>3. /\ Key[r] \in Keys /\ Sender[r] \in Users /\ Recipient[r] \in Users
      /\ Amount[r] \in Nat /\ Users \subseteq Accounts
  BY TransfersAssumption
<1>4. /\ ~Posted(Key[r])
      /\ PostJournal(Key[r], d)
      /\ history' = [history EXCEPT ![r] = @ + 1]
  BY <1>1, <1>2 DEF PostTransfer, Post
<1>5. \A a \in Accounts : bal'[a] = bal[a] + d[a]
  BY <1>4, PostFresh DEF Inv, TransfersTypeOK
<1>6. history \in [Requests -> Nat] /\ history[r] = 0
  BY <1>3, <1>4 DEF Inv, TransfersTypeOK, HistoryMatchesJournals
<1>7. history'[r] = 1 /\ \A q \in Requests \ {r} : history'[q] = history[q]
  BY <1>4, <1>6
<1>8. r \notin Recorded /\ Recorded' = Recorded \cup {r}
  BY <1>6, <1>7 DEF Recorded
<1>9. IsFiniteSet(Recorded) /\ IsFiniteSet(Recorded')
  BY <1>8, FS_AddElement DEF CashInv
<1>10. HistoryExplainsCash'
  <2> SUFFICES ASSUME NEW u \in Users
               PROVE  bal'[u] = Opening[u] + SumFunctionOnSet(Signed(u)', Recorded')
    BY DEF HistoryExplainsCash
  <2>1. \A q \in Requests : Signed(u)[q] \in Int
    <3> SUFFICES ASSUME NEW q \in Requests PROVE Signed(u)[q] \in Int
      OBVIOUS
    <3>1. Amount[q] \in Int /\ history[q] \in Int
      BY <1>6, TransfersAssumption
    <3> QED
      BY <3>1 DEF Signed
  <2>2. /\ \A q \in Recorded : Signed(u)'[q] = Signed(u)[q] /\ Signed(u)'[q] \in Int
        /\ \A q \in Recorded : q \in Requests
    BY <1>7, <1>8, <2>1 DEF Recorded, Signed
  <2>3. d[u] \in Int /\ Signed(u)'[r] = d[u]
    <3>1. d[u] = (IF u = Recipient[r] THEN Amount[r] ELSE 0)
                 - (IF u = Sender[r] THEN Amount[r] ELSE 0)
      BY <1>2, <1>3 DEF Move
    <3>2. Signed(u)'[r] = 1 * ((IF Recipient[r] = u THEN Amount[r] ELSE 0)
                               - (IF Sender[r] = u THEN Amount[r] ELSE 0))
      BY <1>7 DEF Signed
    <3> QED
      BY <1>3, <3>1, <3>2
  <2>4. SumFunctionOnSet(Signed(u)', Recorded) = SumFunctionOnSet(Signed(u), Recorded)
    BY <1>9, <2>2, SumSame
  <2>5. SumFunctionOnSet(Signed(u)', Recorded') =
          SumFunctionOnSet(Signed(u)', Recorded) + Signed(u)'[r]
    BY <1>8, <1>9, <2>2, <2>3, SumAdd
  <2>6. SumFunctionOnSet(Signed(u), Recorded) \in Int
    BY <1>9, <2>1, <2>2, SumType
  <2>7. bal[u] = Opening[u] + SumFunctionOnSet(Signed(u), Recorded)
    BY DEF CashInv, HistoryExplainsCash
  <2>8. Opening[u] \in Int /\ bal'[u] = bal[u] + d[u]
    BY <1>3, <1>5, OpeningAssumption
  <2> QED
    BY <2>3, <2>4, <2>5, <2>6, <2>7, <2>8
<1> QED
  BY <1>9, <1>10 DEF CashInv

(* No other step touches journals, balances or history.                    *)
LEMMA OnlyTransfersPost ==
  ASSUME Inv, [TransfersNext]_transferVars
  PROVE  \/ UNCHANGED <<bal, history>>
         \/ \E x \in Runners : run[x].pc = "commit" /\ PostTransfer(x)
<1> DEFINE Goal == \/ UNCHANGED <<bal, history>>
                   \/ \E x \in Runners : run[x].pc = "commit" /\ PostTransfer(x)
<1>1. ASSUME NEW x \in Runners, Transfer(x) PROVE Goal
  BY <1>1 DEF Transfer, Enter, Screen, Commit, AlreadyPosted, Unfunded, At
<1>2. ASSUME NEW s \in Slots, Serve(s) PROVE Goal
  <2>1. CASE Transfer(s)
    BY <1>1, <2>1 DEF Runners
  <2>2. CASE ~Transfer(s)
    BY <1>2, <2>2 DEF Serve, Confirm, Refuse, Store, StartFlow, AwaitFlow, Unreachable
  <2> QED
    BY <2>1, <2>2
<1>3. ASSUME NEW w \in Workers, Work(w) PROVE Goal
  BY <1>1, <1>3 DEF Work, Report, Runners
<1>4. ASSUME NEW s \in Slots, (\E r \in Requests : Receive(s, r)) \/ ConnectionLost(s) PROVE Goal
  BY <1>4 DEF Receive, ConnectionLost
<1>5. ASSUME NEW w \in Workers, NEW k \in Keys, Attempt(w, k) PROVE Goal
  BY <1>5 DEF Attempt
<1>6. ASSUME (\E k \in Keys : GiveUp(k)) \/ (\E x \in Runners : Fail(x))
             \/ (\E u \in Suspects : FreezeOrRelease(u)) \/ UNCHANGED transferVars
      PROVE  Goal
  BY <1>6 DEF GiveUp, Fail, FreezeOrRelease, transferVars
<1> QED
  BY <1>2, <1>3, <1>4, <1>5, <1>6 DEF TransfersNext

LEMMA CashInitInv == TransfersInit => CashInv
<1> SUFFICES ASSUME TransfersInit PROVE CashInv
  OBVIOUS
<1>1. Recorded = {}
  BY DEF TransfersInit, Recorded
<1>2. ASSUME NEW u \in Users PROVE bal[u] = Opening[u] + SumFunctionOnSet(Signed(u), Recorded)
  <2>1. SumFunctionOnSet(Signed(u), Recorded) = 0
    BY <1>1, SumEmpty
  <2>2. bal[u] = Opening[u] /\ Opening[u] \in Int
    BY TransfersAssumption, OpeningAssumption DEF TransfersInit, LedgerInit
  <2> QED
    BY <2>1, <2>2
<1> QED
  BY <1>1, <1>2, FS_EmptySet DEF CashInv, HistoryExplainsCash

LEMMA CashNextInv == Inv /\ CashInv /\ [TransfersNext]_transferVars => CashInv'
<1> SUFFICES ASSUME Inv, CashInv, [TransfersNext]_transferVars PROVE CashInv'
  OBVIOUS
<1>1. CASE UNCHANGED <<bal, history>>
  BY <1>1 DEF CashInv, HistoryExplainsCash, Recorded, Signed
<1>2. ASSUME NEW x \in Runners, run[x].pc = "commit", PostTransfer(x) PROVE CashInv'
  BY <1>2, PostTransferKeepsCash
<1> QED
  BY <1>1, <1>2, OnlyTransfersPost

(* The history explains every customer's cash: a pair of rows for every    *)
(* journal and no other, for any number of retries and whatever requests   *)
(* share a key (transferService.ts:96-104, 127-136).                       *)
THEOREM TransfersHistoryExplainsCash == TransfersSpec => []HistoryExplainsCash
<1>1. CashInv => HistoryExplainsCash
  BY DEF CashInv
<1> QED
  BY <1>1, CashInitInv, CashNextInv, TransfersInvariant, PTL DEF TransfersSpec
=============================================================================
