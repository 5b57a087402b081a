------------------------------- MODULE Invite -------------------------------
(***************************************************************************)
(* The P2P invite handshake of apps/web/src/services/invites/service.ts:   *)
(* one creator session and a set of joiner sessions that meet on the same  *)
(* rendezvous.  A joiner session owns one random peer id and one random    *)
(* request id, so the session itself stands for both.                      *)
(*                                                                         *)
(* Every await that leaves the JavaScript task queue (IndexedDB, ECDSA     *)
(* signing and verification, the grace delay, the signaling disconnect) is *)
(* the boundary between two actions; awaits that only yield to microtasks  *)
(* are not.                                                                *)
(***************************************************************************)
EXTENDS Naturals, FiniteSets

CONSTANTS Joiners,       \* joiner sessions
          Creator,       \* the creator's ephemeral peer
          NoPeer,        \* an undefined peer, request or session
          Scenes,        \* bound: the instances that are followed, see Scene
          StorageFails   \* bound: whether local persistence may throw

\* A friend or a group invite, the joiners that come, how often the creator's user
\* clicks accept or reject, and the local endings that occur.
Scene == [group : BOOLEAN, guests : SUBSET Joiners, decisions : Nat,
          endings : SUBSET {"expired", "cancelled", "unmounted"}]

ASSUME InviteAssumption ==
    /\ Creator \notin Joiners
    /\ NoPeer \notin Joiners \cup {Creator}
    /\ Scenes \subseteq Scene
    /\ StorageFails \in BOOLEAN

VARIABLES
    scene,       \* which of the instances this is
    cStatus,     \* snapshot.status of the creator
    cCand,       \* candidatePeerId
    cLink,       \* the creator's end: none, stray (adopted, never dialled), dialing, open
    cRequest,    \* request (its requestId)
    cPending,    \* pendingDecision
    cCommitted,  \* membershipCommittedRequestId
    cTimer,      \* decisionTimer is armed
    cClean,      \* cleanup(): no, closing (before the awaits), done
    cOp,         \* the user's sendDecision in flight; via: candidate when send() began
    cDecisions,  \* clicks so far; numbers the decision messages
    cInbox,      \* messages of the candidate whose signature is being verified
    cSaving,     \* acknowledged requests whose persistence is in flight
    cGrace,      \* finishWithStatus is in its FINAL_ACK_GRACE_MS delay
    cSaved,      \* persisted: friends, or members added to the group
    approved,    \* history: requests the user ever accepted
    jStatus, jCand, jOpen, jRequested, jSend, jTasks, jGrace, jClean, jSaved,
    pipe,        \* the DataChannel between creator and joiner is up
    toC, toJ     \* messages in flight on it

cVars == <<cStatus, cCand, cLink, cRequest, cPending, cCommitted, cTimer, cClean,
           cOp, cDecisions, cInbox, cSaving, cGrace, cSaved, approved>>
jVars == <<jStatus, jCand, jOpen, jRequested, jSend, jTasks, jGrace, jClean, jSaved>>
net   == <<pipe, toC, toJ>>
moves == <<cVars, jVars, net>>
vars  == <<scene, moves>>

GroupInvite  == scene.group
MaxDecisions == scene.decisions
Endings      == scene.endings

TerminalStatus == {"accepted", "rejected", "expired", "cancelled", "error"}
Status == TerminalStatus \cup
          {"idle", "waiting", "connecting", "connected", "approval", "confirming"}
isTerminalStatus(s) == s \in TerminalStatus

Decision == {"accept", "reject"}
NoOp == [step |-> "none", decision |-> "accept", req |-> NoPeer, n |-> 0, via |-> NoPeer]
Op == [step : {"none", "commit", "send"}, decision : Decision,
       req : Joiners \cup {NoPeer}, n : Nat, via : Joiners \cup {NoPeer}]
ToCreator == [kind : {"request", "ack"}, req : Joiners, n : Nat]
ToJoiner  == [kind : Decision, req : Joiners \cup {NoPeer}, n : Nat]
Task      == [step : {"save", "ack"}, kind : Decision, n : Nat]

Init ==
    /\ scene \in Scenes
    /\ cStatus = "waiting" /\ cCand = NoPeer /\ cLink = "none"
    /\ cRequest = NoPeer /\ cPending = "none" /\ cCommitted = NoPeer
    /\ cTimer = FALSE /\ cClean = "no" /\ cOp = NoOp /\ cDecisions = 0
    /\ cInbox = {} /\ cSaving = {} /\ cGrace = FALSE
    /\ cSaved = {} /\ approved = {}
    /\ jStatus = [j \in Joiners |-> "idle"]
    /\ jCand = [j \in Joiners |-> NoPeer]
    /\ jOpen = [j \in Joiners |-> FALSE]
    /\ jRequested = [j \in Joiners |-> FALSE]
    /\ jSend = [j \in Joiners |-> FALSE]
    /\ jTasks = [j \in Joiners |-> {}]
    /\ jGrace = [j \in Joiners |-> FALSE]
    /\ jClean = [j \in Joiners |-> "no"]
    /\ jSaved = [j \in Joiners |-> FALSE]
    /\ pipe = [j \in Joiners |-> FALSE]
    /\ toC = [j \in Joiners |-> {}]
    /\ toJ = [j \in Joiners |-> {}]

-----------------------------------------------------------------------------
(* The network: WebRTC opens the channel once both ends hold each other as  *)
(* candidate and the creator dialled; it may fail at any time, losing what  *)
(* is in flight.  Timing: a redial follows CREATOR_RETRY_DELAY_MS (1 s) and *)
(* a negotiation through the signaling server; by then the 3 attempts of    *)
(* sendAck (150 ms apart) and the signatures being made or verified for the *)
(* previous channel are over.                                               *)

CryptoSettled(j) ==
    /\ cInbox = {} /\ cOp.step # "send" /\ ~jSend[j]
    /\ \A t \in jTasks[j] : t.step # "ack"

LinkUp(j) ==
    /\ cCand = j /\ cLink = "dialing" /\ cClean = "no"
    /\ jCand[j] = Creator /\ jClean[j] = "no" /\ ~isTerminalStatus(jStatus[j])
    /\ ~pipe[j] /\ CryptoSettled(j)
    /\ pipe' = [pipe EXCEPT ![j] = TRUE]
    /\ jOpen' = [jOpen EXCEPT ![j] = FALSE]
    /\ UNCHANGED <<cVars, jStatus, jCand, jRequested, jSend, jTasks, jGrace, jClean,
                   jSaved, toC, toJ>>

\* The channels of the joiners in S are closed and their messages are lost.
Drop(S) ==
    /\ pipe' = [j \in Joiners |-> IF j \in S THEN FALSE ELSE pipe[j]]
    /\ toC'  = [j \in Joiners |-> IF j \in S THEN {} ELSE toC[j]]
    /\ toJ'  = [j \in Joiners |-> IF j \in S THEN {} ELSE toJ[j]]

LinkDown(j) == pipe[j] /\ Drop({j}) /\ UNCHANGED <<cVars, jVars>>

-----------------------------------------------------------------------------
(* The creator.                                                             *)

\* cleanup() up to its first real await; a second call returns at once.
CCleanup ==
    IF cClean = "no"
    THEN cClean' = "closing" /\ cTimer' = FALSE /\ Drop(Joiners)
    ELSE UNCHANGED <<cClean, cTimer, net>>

\* the rest of cleanup(): the fields are reset once signaling is disconnected
CCleanupEnd ==
    /\ cClean = "closing" /\ cClean' = "done"
    /\ cCand' = NoPeer /\ cLink' = "none" /\ cRequest' = NoPeer
    /\ cPending' = "none" /\ cCommitted' = NoPeer
    /\ UNCHANGED <<cStatus, cTimer, cOp, cDecisions, cInbox, cSaving, cGrace, cSaved,
                   approved, jVars, net>>

PresentJoiner(j) == jClean[j] = "no" /\ jStatus[j] # "idle"

\* considerCandidate(), from onPeerJoined, reconcilePresentCandidates or the retry
CConsider(j) ==
    /\ cClean = "no" /\ cCand = NoPeer /\ cStatus \in {"waiting", "connecting"}
    /\ PresentJoiner(j)
    /\ cCand' = j /\ cLink' = "dialing" /\ cStatus' = "connecting"
    /\ UNCHANGED <<cRequest, cPending, cCommitted, cTimer, cClean, cOp, cDecisions,
                   cInbox, cSaving, cGrace, cSaved, approved, jVars, net>>

\* acceptCandidate(): a late ICE candidate or answer of a forgotten joiner
\* adopts it without dialling
CAcceptCandidate(j) ==
    /\ cClean = "no" /\ cCand = NoPeer /\ ~isTerminalStatus(cStatus)
    /\ PresentJoiner(j) /\ jCand[j] = Creator
    /\ cCand' = j /\ cLink' = "stray"
    /\ cStatus' = IF cStatus \in {"waiting", "connecting"} THEN "connecting" ELSE cStatus
    /\ UNCHANGED <<cRequest, cPending, cCommitted, cTimer, cClean, cOp, cDecisions,
                   cInbox, cSaving, cGrace, cSaved, approved, jVars, net>>

COpen ==
    /\ cLink = "dialing" /\ ~isTerminalStatus(cStatus)
    /\ cCand \in Joiners /\ pipe[cCand]
    /\ cLink' = "open"
    /\ cStatus' = IF cStatus \in {"waiting", "connecting"} THEN "connected" ELSE cStatus
    /\ UNCHANGED <<cCand, cRequest, cPending, cCommitted, cTimer, cClean, cOp,
                   cDecisions, cInbox, cSaving, cGrace, cSaved, approved, jVars, net>>

\* failCandidate(): candidate timeout, channel closed, connection failed or
\* presence lost.  After the TTL the session ends instead of waiting again.
CFailCandidate ==
    /\ cCand \in Joiners /\ ~isTerminalStatus(cStatus) /\ cClean # "done"
    /\ cCand' = NoPeer /\ cLink' = "none" /\ cRequest' = NoPeer
    /\ cPending' = "none"
    /\ \/ cStatus' = "waiting" /\ cTimer' = FALSE /\ Drop({cCand}) /\ UNCHANGED cClean
       \/ cStatus' = "error" /\ cTimer' = FALSE /\ Drop(Joiners)
          /\ cClean' = IF cClean = "no" THEN "closing" ELSE cClean
    /\ UNCHANGED <<cCommitted, cOp, cDecisions, cInbox, cSaving, cGrace, cSaved,
                   approved, jVars>>

\* the expiry timer, or the user's cancel() (the panel disables it while a
\* decision is in flight)
CEnd(s) ==
    /\ s \in Endings /\ ~isTerminalStatus(cStatus) /\ cClean = "no"
    /\ s = "cancelled" => cOp.step = "none"
    /\ cStatus' = s /\ CCleanup
    /\ UNCHANGED <<cCand, cLink, cRequest, cPending, cCommitted, cOp, cDecisions, cInbox,
                   cSaving, cGrace, cSaved, approved, jVars>>

CExpire == CEnd("expired")
CCancel == CEnd("cancelled")

\* the panel is unmounted: cancel(false) cleans up and keeps the status
CUnmount ==
    /\ "unmounted" \in Endings
    /\ cStatus \notin {"accepted", "rejected"} /\ cClean = "no" /\ CCleanup
    /\ UNCHANGED <<cStatus, cCand, cLink, cRequest, cPending, cCommitted, cOp, cDecisions,
                   cInbox, cSaving, cGrace, cSaved, approved, jVars>>

\* mutant: the decision timeout is not armed
ConfirmingUntimed(d, req, n) ==
    /\ cPending' = d /\ cStatus' = "confirming" /\ UNCHANGED cTimer
    /\ cOp' = [step |-> "send", decision |-> d, req |-> req, n |-> n,
               via |-> cCand]

\* sendDecision() from the point where the decision becomes pending
Confirming(d, req, n) ==
    /\ cPending' = d /\ cStatus' = "confirming" /\ cTimer' = TRUE
    /\ cOp' = [step |-> "send", decision |-> d, req |-> req, n |-> n,
               via |-> cCand]

\* accept() / reject(): the panel offers them in approval and one at a time
CDecide(d) ==
    /\ cStatus = "approval" /\ cOp.step = "none" /\ cDecisions < MaxDecisions
    /\ cRequest \in Joiners /\ cCand # NoPeer /\ cPending = "none"
    /\ ~(d = "reject" /\ cCommitted = cRequest)
    /\ cDecisions' = cDecisions + 1
    /\ approved' = IF d = "accept" THEN approved \cup {cRequest} ELSE approved
    /\ IF d = "accept" /\ GroupInvite /\ cCommitted # cRequest
       THEN /\ cOp' = [step |-> "commit", decision |-> d, req |-> cRequest,
                       n |-> cDecisions + 1, via |-> NoPeer]
            /\ UNCHANGED <<cPending, cStatus, cTimer>>
       ELSE Confirming(d, cRequest, cDecisions + 1)
    /\ UNCHANGED <<cCand, cLink, cRequest, cCommitted, cClean, cInbox, cSaving, cGrace,
                   cSaved, jVars, net>>

\* addLocalGroupMember() returns; the status is not looked at again
CCommit ==
    /\ cOp.step = "commit"
    /\ cSaved' = cSaved \cup {cOp.req} /\ cCommitted' = cOp.req
    /\ Confirming("accept", cOp.req, cOp.n)
    /\ UNCHANGED <<cCand, cLink, cRequest, cClean, cDecisions, cInbox, cSaving, cGrace,
                   approved, jVars, net>>

\* addLocalGroupMember() throws (revoked identity, member limit, storage)
CCommitFails ==
    /\ StorageFails /\ cOp.step = "commit" /\ cOp' = NoOp
    /\ UNCHANGED <<cStatus, cCand, cLink, cRequest, cPending, cCommitted, cTimer, cClean,
                   cDecisions, cInbox, cSaving, cGrace, cSaved, approved, jVars, net>>

CanSend == cOp.via # NoPeer /\ cLink = "open" /\ cCand \in Joiners /\ pipe[cCand]

\* the signature is ready and sendData() hands the decision to the channel
CSend ==
    /\ cOp.step = "send" /\ CanSend
    /\ toJ' = [toJ EXCEPT ![cCand] =
                 @ \cup {[kind |-> cOp.decision, req |-> cOp.req, n |-> cOp.n]}]
    /\ cOp' = NoOp
    /\ UNCHANGED <<cStatus, cCand, cLink, cRequest, cPending, cCommitted, cTimer, cClean,
                   cDecisions, cInbox, cSaving, cGrace, cSaved, approved, jVars, pipe, toC>>

\* mutant: the failed send does not look whether the session ended
CSendFailsAlways ==
    /\ cOp.step = "send" /\ ~CanSend
    /\ cOp' = NoOp /\ cTimer' = FALSE /\ cPending' = "none" /\ cStatus' = "approval"
    /\ UNCHANGED <<cCand, cLink, cRequest, cCommitted, cClean, cDecisions, cInbox,
                   cSaving, cGrace, cSaved, approved, jVars, net>>

\* ... or throws: the creator is put back in approval
CSendFails ==
    /\ cOp.step = "send" /\ ~CanSend
    /\ cOp' = NoOp /\ cTimer' = FALSE /\ cPending' = "none"
    /\ cStatus' = IF isTerminalStatus(cStatus) THEN cStatus ELSE "approval"
    /\ UNCHANGED <<cCand, cLink, cRequest, cCommitted, cClean, cDecisions, cInbox,
                   cSaving, cGrace, cSaved, approved, jVars, net>>

\* armDecisionTimeout(): no ACK within DECISION_ACK_TIMEOUT_MS
CDecisionTimeout ==
    /\ cTimer
    /\ \/ /\ cStatus # "confirming"
          /\ cTimer' = FALSE /\ UNCHANGED <<cStatus, cPending, cClean, net>>
       \/ /\ cStatus = "confirming" /\ cRequest # NoPeer /\ cCand # NoPeer
          /\ cTimer' = FALSE /\ cPending' = "none" /\ cStatus' = "approval"
          /\ UNCHANGED <<cClean, net>>
       \/ /\ cStatus = "confirming" /\ ~(cRequest # NoPeer /\ cCand # NoPeer)
          /\ cTimer' = FALSE /\ cPending' = "none" /\ cStatus' = "error"
          /\ cClean' = IF cClean = "no" THEN "closing" ELSE cClean
          /\ IF cClean = "no" THEN Drop(Joiners) ELSE UNCHANGED net
    /\ UNCHANGED <<cCand, cLink, cRequest, cCommitted, cOp, cDecisions, cInbox, cSaving,
                   cGrace, cSaved, approved, jVars>>

\* onDataMessage(): only the candidate is listened to; verification starts
CArrive(j) ==
    /\ cCand = j /\ cLink = "open"
    /\ \E m \in toC[j] : /\ toC' = [toC EXCEPT ![j] = @ \ {m}]
                         /\ cInbox' = cInbox \cup {m}
    /\ UNCHANGED <<cStatus, cCand, cLink, cRequest, cPending, cCommitted, cTimer, cClean,
                   cOp, cDecisions, cSaving, cGrace, cSaved, approved, jVars, pipe, toJ>>

IsAck(m) == m.kind = "ack" /\ cRequest # NoPeer /\ m.req = cRequest /\ cPending # "none"
IsRequest(m) == m.kind = "request" /\ cPending = "none" /\ cRequest = NoPeer

\* mutant: finishWithStatus() without the cleanup that ends it
CFinishNoCleanup(s) == cStatus' = s /\ cTimer' = FALSE /\ UNCHANGED cGrace
\* mutant: a status the snapshot does not know
CFinishUnknown(s) == cStatus' = "finished" /\ cTimer' = FALSE /\ cGrace' = TRUE

\* finishWithStatus() up to its grace delay
CFinish(s) == cStatus' = s /\ cTimer' = FALSE /\ cGrace' = TRUE

\* receive(): the ACK of the pending decision
CReceiveAck(m) ==
    /\ m \in cInbox /\ cInbox' = cInbox \ {m}
    /\ ~isTerminalStatus(cStatus) /\ IsAck(m)
    /\ cPending' = "none"
    /\ \/ /\ cPending = "accept" /\ ~(GroupInvite /\ cCommitted = m.req)
          /\ cSaving' = cSaving \cup {m.req} /\ cTimer' = FALSE
          /\ UNCHANGED <<cStatus, cGrace>>
       \/ /\ cPending = "accept" /\ GroupInvite /\ cCommitted = m.req
          /\ CFinish("accepted") /\ UNCHANGED cSaving
       \/ /\ cPending = "reject"
          /\ CFinish("rejected") /\ UNCHANGED cSaving
    /\ UNCHANGED <<cCand, cLink, cRequest, cCommitted, cClean, cOp, cDecisions, cSaved,
                   approved, jVars, net>>

\* receive(): the first request of the session asks for approval
CReceiveRequest(m) ==
    /\ m \in cInbox /\ cInbox' = cInbox \ {m}
    /\ ~isTerminalStatus(cStatus) /\ IsRequest(m)
    /\ cRequest' = m.req /\ cStatus' = "approval"
    /\ UNCHANGED <<cCand, cLink, cPending, cCommitted, cTimer, cClean, cOp, cDecisions,
                   cSaving, cGrace, cSaved, approved, jVars, net>>

\* receive(): anything else is ignored
CReceiveIgnored(m) ==
    /\ m \in cInbox /\ cInbox' = cInbox \ {m}
    /\ isTerminalStatus(cStatus) \/ ~(IsAck(m) \/ IsRequest(m))
    /\ UNCHANGED <<cStatus, cCand, cLink, cRequest, cPending, cCommitted, cTimer, cClean,
                   cOp, cDecisions, cSaving, cGrace, cSaved, approved, jVars, net>>

\* saveLocalFriend() / addLocalGroupMember() returns: accepted, whatever the
\* status has become meanwhile
CPersist(j) ==
    /\ j \in cSaving /\ cSaving' = cSaving \ {j}
    /\ cSaved' = cSaved \cup {j} /\ CFinish("accepted")
    /\ UNCHANGED <<cCand, cLink, cRequest, cPending, cCommitted, cClean, cOp, cDecisions,
                   cInbox, approved, jVars, net>>

\* ... or throws: failCurrent()
CPersistFails(j) ==
    /\ StorageFails /\ j \in cSaving /\ cSaving' = cSaving \ {j}
    /\ IF isTerminalStatus(cStatus)
       THEN UNCHANGED <<cStatus, cClean, cTimer, net>>
       ELSE cStatus' = "error" /\ CCleanup
    /\ UNCHANGED <<cCand, cLink, cRequest, cPending, cCommitted, cOp, cDecisions, cInbox,
                   cGrace, cSaved, approved, jVars>>

\* the grace delay of finishWithStatus() ends
CGraceEnd ==
    /\ cGrace /\ cGrace' = FALSE /\ CCleanup
    /\ UNCHANGED <<cStatus, cCand, cLink, cRequest, cPending, cCommitted, cOp, cDecisions,
                   cInbox, cSaving, cSaved, approved, jVars>>

-----------------------------------------------------------------------------
(* A joiner.                                                                *)

\* cleanup() up to its first real await
JCleanup(j) ==
    IF jClean[j] = "no"
    THEN jClean' = [jClean EXCEPT ![j] = "closing"] /\ Drop({j})
    ELSE UNCHANGED <<jClean, net>>

JCleanupEnd(j) ==
    /\ jClean[j] = "closing" /\ jClean' = [jClean EXCEPT ![j] = "done"]
    /\ jCand' = [jCand EXCEPT ![j] = NoPeer]
    /\ jRequested' = [jRequested EXCEPT ![j] = FALSE]
    /\ UNCHANGED <<cVars, jStatus, jOpen, jSend, jTasks, jGrace, jSaved, net>>

\* joinInvite(): start() succeeds, or fails and cleans up
JStart(j) ==
    /\ j \in scene.guests /\ jStatus[j] = "idle"
    /\ \/ jStatus' = [jStatus EXCEPT ![j] = "connecting"] /\ UNCHANGED <<jClean, net>>
       \/ jStatus' = [jStatus EXCEPT ![j] = "error"] /\ JCleanup(j)
    /\ UNCHANGED <<cVars, jCand, jOpen, jRequested, jSend, jTasks, jGrace, jSaved>>

\* considerCandidate() / acceptCandidate(): whoever is seen first, be it the
\* creator or another joiner
JConsider(j, p) ==
    /\ jStatus[j] = "connecting" /\ jCand[j] = NoPeer /\ jClean[j] = "no" /\ p # j
    /\ IF p = Creator THEN cClean = "no" ELSE PresentJoiner(p)
    /\ jCand' = [jCand EXCEPT ![j] = p]
    /\ UNCHANGED <<cVars, jStatus, jOpen, jRequested, jSend, jTasks, jGrace, jClean,
                   jSaved, net>>

\* handleDataChannelOpen(): the request is signed
JOpen(j) ==
    /\ pipe[j] /\ ~jOpen[j] /\ ~isTerminalStatus(jStatus[j]) /\ jCand[j] = Creator
    /\ jOpen' = [jOpen EXCEPT ![j] = TRUE]
    /\ jRequested' = [jRequested EXCEPT ![j] = TRUE]
    /\ jStatus' = [jStatus EXCEPT ![j] = IF @ = "connecting" THEN "connected" ELSE @]
    /\ jSend' = [jSend EXCEPT ![j] = TRUE]
    /\ UNCHANGED <<cVars, jCand, jTasks, jGrace, jClean, jSaved, net>>

JCanSend(j) == pipe[j] /\ jOpen[j] /\ jClean[j] = "no"

\* failCurrent()
JFailCurrent(j) ==
    IF isTerminalStatus(jStatus[j])
    THEN UNCHANGED <<jStatus, jClean, net>>
    ELSE jStatus' = [jStatus EXCEPT ![j] = "error"] /\ JCleanup(j)

\* the signed request is handed to the channel, or the session fails
JSendRequest(j) ==
    /\ jSend[j] /\ jSend' = [jSend EXCEPT ![j] = FALSE]
    /\ IF JCanSend(j)
       THEN /\ toC' = [toC EXCEPT ![j] = @ \cup {[kind |-> "request", req |-> j, n |-> 0]}]
            /\ jStatus' = [jStatus EXCEPT ![j] = IF isTerminalStatus(@) THEN @ ELSE "approval"]
            /\ UNCHANGED <<jClean, pipe, toJ>>
       ELSE JFailCurrent(j)
    /\ UNCHANGED <<cVars, jCand, jOpen, jRequested, jTasks, jGrace, jSaved>>

\* mutant: a joiner obeys the decision of any request
JReceiveAny(j) ==
    /\ jOpen[j]
    /\ \E m \in toJ[j] :
         /\ toJ' = [toJ EXCEPT ![j] = @ \ {m}]
         /\ IF ~isTerminalStatus(jStatus[j])
            THEN jTasks' = [jTasks EXCEPT ![j] = @ \cup
                   {[step |-> IF m.kind = "accept" THEN "save" ELSE "ack",
                     kind |-> m.kind, n |-> m.n]}]
            ELSE UNCHANGED jTasks
    /\ UNCHANGED <<cVars, jStatus, jCand, jOpen, jRequested, jSend, jGrace, jClean,
                   jSaved, pipe, toC>>

\* mutant: the accept is acknowledged before it is stored
JReceiveAckFirst(j) ==
    /\ jOpen[j]
    /\ \E m \in toJ[j] :
         /\ toJ' = [toJ EXCEPT ![j] = @ \ {m}]
         /\ IF ~isTerminalStatus(jStatus[j]) /\ jRequested[j] /\ m.req = j
            THEN jTasks' = [jTasks EXCEPT ![j] = @ \cup
                              {[step |-> "ack", kind |-> m.kind, n |-> m.n]}]
            ELSE UNCHANGED jTasks
    /\ UNCHANGED <<cVars, jStatus, jCand, jOpen, jRequested, jSend, jGrace, jClean,
                   jSaved, pipe, toC>>

\* receive(): a decision of this request starts its persistence (accept) or
\* its ACK (reject); anything else is ignored
JReceive(j) ==
    /\ jOpen[j]
    /\ \E m \in toJ[j] :
         /\ toJ' = [toJ EXCEPT ![j] = @ \ {m}]
         /\ IF ~isTerminalStatus(jStatus[j]) /\ jRequested[j] /\ m.req = j
            THEN jTasks' = [jTasks EXCEPT ![j] = @ \cup
                   {[step |-> IF m.kind = "accept" THEN "save" ELSE "ack",
                     kind |-> m.kind, n |-> m.n]}]
            ELSE UNCHANGED jTasks
    /\ UNCHANGED <<cVars, jStatus, jCand, jOpen, jRequested, jSend, jGrace, jClean,
                   jSaved, pipe, toC>>

\* saveLocalFriend() / saveLocalGroup() / mergeLocalGroupManifest() returns
JPersist(j, t) ==
    /\ t \in jTasks[j] /\ t.step = "save"
    /\ jSaved' = [jSaved EXCEPT ![j] = TRUE]
    /\ jTasks' = [jTasks EXCEPT ![j] = (@ \ {t}) \cup {[t EXCEPT !.step = "ack"]}]
    /\ UNCHANGED <<cVars, jStatus, jCand, jOpen, jRequested, jSend, jGrace, jClean, net>>

\* ... or throws
JPersistFails(j, t) ==
    /\ StorageFails /\ t \in jTasks[j] /\ t.step = "save"
    /\ jTasks' = [jTasks EXCEPT ![j] = @ \ {t}]
    /\ JFailCurrent(j)
    /\ UNCHANGED <<cVars, jCand, jOpen, jRequested, jSend, jGrace, jSaved>>

\* sendAck(), then finishWithStatus(); the status is not looked at again
JAck(j, t) ==
    /\ t \in jTasks[j] /\ t.step = "ack" /\ JCanSend(j)
    /\ jTasks' = [jTasks EXCEPT ![j] = @ \ {t}]
    /\ toC' = [toC EXCEPT ![j] = @ \cup {[kind |-> "ack", req |-> j, n |-> t.n]}]
    /\ jStatus' = [jStatus EXCEPT ![j] = IF t.kind = "accept" THEN "accepted" ELSE "rejected"]
    /\ jGrace' = [jGrace EXCEPT ![j] = TRUE]
    /\ UNCHANGED <<cVars, jCand, jOpen, jRequested, jSend, jClean, jSaved, pipe, toJ>>

\* the third attempt fails as well
JAckFails(j, t) ==
    /\ t \in jTasks[j] /\ t.step = "ack" /\ ~JCanSend(j)
    /\ jTasks' = [jTasks EXCEPT ![j] = @ \ {t}]
    /\ JFailCurrent(j)
    /\ UNCHANGED <<cVars, jCand, jOpen, jRequested, jSend, jGrace, jSaved>>

JGraceEnd(j) ==
    /\ jGrace[j] /\ jGrace' = [jGrace EXCEPT ![j] = FALSE] /\ JCleanup(j)
    /\ UNCHANGED <<cVars, jStatus, jCand, jOpen, jRequested, jSend, jTasks, jSaved>>

\* failCandidate() of a joiner and the availability timer end the session, as
\* do the expiry timer and cancel()
JEnd(j, s) ==
    /\ ~isTerminalStatus(jStatus[j]) /\ jStatus[j] # "idle" /\ jClean[j] = "no"
    /\ jStatus' = [jStatus EXCEPT ![j] = s] /\ JCleanup(j)
    /\ UNCHANGED <<cVars, jOpen, jSend, jTasks, jGrace, jSaved>>
    /\ IF s = "error" /\ jCand[j] # NoPeer
       THEN /\ jCand' = [jCand EXCEPT ![j] = NoPeer]
            /\ jRequested' = [jRequested EXCEPT ![j] = FALSE]
       ELSE UNCHANGED <<jCand, jRequested>>

JFail(j) == (jCand[j] # NoPeer \/ jStatus[j] = "connecting") /\ JEnd(j, "error")
JExpire(j) == "expired" \in Endings /\ JEnd(j, "expired")
JCancel(j) == "cancelled" \in Endings /\ JEnd(j, "cancelled")

JUnmount(j) ==
    /\ "unmounted" \in Endings
    /\ jStatus[j] \notin {"idle", "accepted", "rejected"} /\ jClean[j] = "no"
    /\ JCleanup(j)
    /\ UNCHANGED <<cVars, jStatus, jCand, jOpen, jRequested, jSend, jTasks, jGrace, jSaved>>

-----------------------------------------------------------------------------
CReceive == \E m \in cInbox : CReceiveAck(m) \/ CReceiveRequest(m) \/ CReceiveIgnored(m)
CPersistence == \E j \in Joiners : CPersist(j) \/ CPersistFails(j)

CreatorStep ==
    \/ \E j \in Joiners : CConsider(j) \/ CAcceptCandidate(j) \/ CArrive(j)
    \/ COpen \/ CFailCandidate \/ CExpire \/ CCancel \/ CUnmount
    \/ \E d \in Decision : CDecide(d)
    \/ CDecisionTimeout
    \/ CCommit \/ CCommitFails \/ CSend \/ CSendFails
    \/ CReceive \/ CPersistence \/ CCleanupEnd \/ CGraceEnd

JTaskStep(j) ==
    \E t \in jTasks[j] : \/ JPersist(j, t) \/ JPersistFails(j, t)
                         \/ JAck(j, t) \/ JAckFails(j, t)

JoinerStep(j) ==
    \/ JStart(j) \/ JOpen(j) \/ JReceive(j)
    \/ \E p \in Joiners \cup {Creator} : JConsider(j, p)
    \/ JFail(j) \/ JExpire(j) \/ JCancel(j) \/ JUnmount(j)
    \/ JSendRequest(j) \/ JTaskStep(j) \/ JGraceEnd(j) \/ JCleanupEnd(j)

Next ==
    /\ UNCHANGED scene
    /\ \/ CreatorStep
       \/ \E j \in Joiners : LinkUp(j) \/ LinkDown(j) \/ JoinerStep(j)

\* Timers fire and the operations awaited by the creator settle; nothing is
\* promised about the network, the joiners or the users.
Fairness ==
    /\ WF_moves(CDecisionTimeout) /\ WF_moves(CExpire) /\ WF_moves(CReceive)
    /\ WF_moves(CCommit \/ CCommitFails) /\ WF_moves(CSend \/ CSendFails)
    /\ WF_moves(CPersistence) /\ WF_moves(CGraceEnd) /\ WF_moves(CCleanupEnd)

Spec == Init /\ [][Next]_vars /\ Fairness

-----------------------------------------------------------------------------
CreatorTypes ==
    /\ cStatus \in Status /\ cCand \in Joiners \cup {NoPeer}
    /\ cLink \in {"none", "stray", "dialing", "open"}
    /\ cRequest \in Joiners \cup {NoPeer} /\ cPending \in Decision \cup {"none"}
    /\ cCommitted \in Joiners \cup {NoPeer} /\ cTimer \in BOOLEAN
    /\ cClean \in {"no", "closing", "done"} /\ cOp \in Op
    /\ cDecisions \in Nat /\ cInbox \subseteq ToCreator
    /\ cSaving \subseteq Joiners /\ cGrace \in BOOLEAN
    /\ cSaved \subseteq Joiners /\ approved \subseteq Joiners

JoinerTypes ==
    /\ jStatus \in [Joiners -> Status]
    /\ jCand \in [Joiners -> Joiners \cup {Creator, NoPeer}]
    /\ jOpen \in [Joiners -> BOOLEAN] /\ jRequested \in [Joiners -> BOOLEAN]
    /\ jSend \in [Joiners -> BOOLEAN] /\ jTasks \in [Joiners -> SUBSET Task]
    /\ jGrace \in [Joiners -> BOOLEAN]
    /\ jClean \in [Joiners -> {"no", "closing", "done"}]
    /\ jSaved \in [Joiners -> BOOLEAN]

NetTypes ==
    /\ pipe \in [Joiners -> BOOLEAN]
    /\ toC \in [Joiners -> SUBSET ToCreator] /\ toJ \in [Joiners -> SUBSET ToJoiner]

\* Types of the fields, messages and continuations; a decision that is committed or
\* sent names a request.
Typed == CreatorTypes /\ JoinerTypes /\ NetTypes /\ (cOp.step # "none" => cOp.req \in Joiners)

TypeOK == scene \in Scene /\ Typed

\* Nobody is stored as a friend or member without the creator's user having
\* accepted that very request, and the creator of a friend invite stores a
\* joiner only after that joiner settled a decision: timeouts, retries,
\* replaced candidates and late ACKs never smuggle anyone in.
MutualConsent ==
    /\ \A j \in Joiners : jSaved[j] => j \in approved
    /\ \A j \in cSaved : /\ j \in approved
                         /\ ~GroupInvite => jStatus[j] \in {"accepted", "rejected"}

Settled(j) == jStatus[j] \in {"accepted", "rejected"}

\* j is about to ask, or its request is on its way.
Asking(j) ==
    \/ pipe[j] /\ (~jOpen[j] \/ jSend[j])
    \/ \E m \in toC[j] : m.kind = "request"
    \/ \E m \in cInbox : m.kind = "request" /\ m.req = j

\* A reject of j's request is on its way to j, or j's answer to a decision back.
Answering(j) ==
    \/ cOp.step = "send" /\ cOp.decision = "reject" /\ cOp.req = j
    \/ \E m \in toJ[j] : m.kind = "reject" /\ m.req = j
    \/ \E t \in jTasks[j] : t.kind = "reject"
    \/ \E m \in toC[j] : m.kind = "ack"
    \/ \E m \in cInbox : m.kind = "ack" /\ m.req = j

\* An accept is being stored, sent or awaited.
Accepting == cOp.step = "commit" \/ cPending = "accept"

\* The creator hears one joiner at a time, the candidate it dialled last.
OneVoice ==
    /\ \A j \in Joiners :
         /\ pipe[j] => cCand = j /\ cLink \in {"dialing", "open"} /\ cClean = "no"
         /\ ~pipe[j] => toC[j] = {} /\ toJ[j] = {}
         /\ \A m \in toC[j] : m.req = j
    /\ \A m \in cInbox : /\ \A n \in cInbox : m.req = n.req
                         /\ \A j \in Joiners : pipe[j] => m.req = j

\* An accept exists, as message, task or operation, only for an approved request, and an
\* ACK exists only of a joiner that settled.
Consented ==
    /\ \A j \in Joiners : jSaved[j] => j \in approved
    /\ \A j \in Joiners : \A t \in jTasks[j] :
           t.kind = "accept" \/ t.step = "save" => j \in approved /\ t.kind = "accept"
    /\ \A j \in Joiners : \A m \in toJ[j] : m.kind = "accept" => m.req \in approved
    /\ cOp.step # "none" /\ cOp.decision = "accept" => cOp.req \in approved
    /\ cOp.step = "commit" => GroupInvite /\ cOp.decision = "accept" /\ cPending = "none"
    /\ \A j \in cSaved \cup cSaving : j \in approved /\ (~GroupInvite => Settled(j))
    /\ \A j \in Joiners : \A m \in toC[j] : m.kind = "ack" => Settled(m.req)
    /\ \A m \in cInbox : m.kind = "ack" => Settled(m.req)

\* A group's accept may still be pending when its candidate has been replaced (the
\* commit is awaited); the next one was not rejected before on the same channel, so
\* it does not acknowledge what it never got.
FreshAnswers ==
    \A j \in Joiners \ approved : Answering(j) =>
        /\ Accepting => cRequest # j
        /\ Asking(j) => cRequest \in {j, NoPeer} /\ ~Accepting

\* The strengthening of MutualConsent that is inductive.
ConsentInv == Consented /\ OneVoice /\ FreshAnswers

\* "O InviteService persiste o novo vinculo antes de publicar o estado accepted":
\* whoever shows accepted has stored the bond.
AcceptedIsPersisted ==
    /\ cStatus = "accepted" => cSaved # {}
    /\ \A j \in Joiners : jStatus[j] = "accepted" => jSaved[j]

\* A session that ended stays ended; only a membership commit that was already
\* in flight when it ended can put the creator back into confirming.
EndedStaysEnded ==
    [][isTerminalStatus(cStatus) /\ ~isTerminalStatus(cStatus') => cOp.step = "commit"]_vars

\* Every creator session finally releases its signaling and its channels, in
\* whatever state it was caught (finish, expiry, errors, lost candidates).  Without
\* the expiry a session may wait for its users for ever.
EventuallyReleased == "expired" \in Endings =>
    <>[](cClean = "done" /\ \A j \in Joiners : ~pipe[j])

=============================================================================
