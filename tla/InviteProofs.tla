---------------------------- MODULE InviteProofs ----------------------------
(* Typing of the invite handshake and the consent it guarantees, for any    *)
(* number of joiner sessions and decisions.                                 *)
EXTENDS Invite, TLAPS

USE DEF TerminalStatus, Status, isTerminalStatus, Decision, ToCreator, ToJoiner, Task

\* Closing channels keeps the types of the network and only loses messages.
LEMMA DropTypes ==
    ASSUME NEW S, NetTypes, Drop(S)
    PROVE  NetTypes'
BY DEF Drop, NetTypes

\* cleanup() of the creator, started once or already running.
LEMMA CCleanupTypes ==
    ASSUME Typed, CCleanup
    PROVE  NetTypes' /\ cClean' \in {"no", "closing", "done"} /\ cTimer' \in BOOLEAN
<1>1. CASE cClean = "no"
  BY <1>1, DropTypes DEF CCleanup, Typed
<1>2. CASE cClean # "no"
  BY <1>2 DEF CCleanup, Typed, CreatorTypes, NetTypes, net
<1>3. QED
  BY <1>1, <1>2

\* cleanup() of a joiner.
LEMMA JCleanupTypes ==
    ASSUME Typed, NEW j \in Joiners, JCleanup(j)
    PROVE  NetTypes' /\ jClean' \in [Joiners -> {"no", "closing", "done"}]
<1>1. CASE jClean[j] = "no"
  BY <1>1, DropTypes DEF JCleanup, Typed, JoinerTypes
<1>2. CASE jClean[j] # "no"
  BY <1>2 DEF JCleanup, Typed, JoinerTypes, NetTypes, net
<1>3. QED
  BY <1>1, <1>2

\* failCurrent() of a joiner.
LEMMA JFailCurrentTypes ==
    ASSUME Typed, NEW j \in Joiners, JFailCurrent(j)
    PROVE  /\ NetTypes' /\ jClean' \in [Joiners -> {"no", "closing", "done"}]
           /\ jStatus' \in [Joiners -> Status]
<1>1. CASE isTerminalStatus(jStatus[j])
  BY <1>1 DEF JFailCurrent, Typed, JoinerTypes, NetTypes, net
<1>2. CASE ~isTerminalStatus(jStatus[j])
  BY <1>2, JCleanupTypes DEF JFailCurrent, Typed, JoinerTypes
<1>3. QED
  BY <1>1, <1>2

-----------------------------------------------------------------------------
(* Types are kept by each group of actions.                                 *)

\* Taking a candidate and receiving a message keep the types.
LEMMA CandidateTypes ==
    ASSUME Typed, NEW j \in Joiners, CConsider(j) \/ CAcceptCandidate(j) \/ CArrive(j)
    PROVE  Typed'
BY DEF Typed, CreatorTypes, JoinerTypes, NetTypes, jVars, net,
       CConsider, CAcceptCandidate, CArrive

\* The opened channel of the creator's candidate keeps the types.
LEMMA OpenTypes ==
    ASSUME Typed, COpen
    PROVE  Typed'
BY DEF Typed, CreatorTypes, JoinerTypes, NetTypes, jVars, net, COpen

\* failCandidate() of the creator keeps the types.
LEMMA FailCandidateTypes ==
    ASSUME Typed, CFailCandidate
    PROVE  Typed'
<1>1. NetTypes'
  BY DropTypes DEF CFailCandidate, Typed
<1>2. JoinerTypes'
  BY DEF CFailCandidate, Typed, JoinerTypes, jVars
<1>3. QED
  BY <1>1, <1>2 DEF CFailCandidate, Typed, CreatorTypes

\* Expiry, cancellation, unmounting and the end of the grace delay keep the types.
LEMMA EndTypes ==
    ASSUME Typed, CExpire \/ CCancel \/ CUnmount \/ CGraceEnd
    PROVE  Typed'
<1>1. CCleanup
  BY DEF CExpire, CCancel, CUnmount, CGraceEnd, CEnd
<1>2. JoinerTypes'
  BY DEF CExpire, CCancel, CUnmount, CGraceEnd, CEnd, Typed, JoinerTypes, jVars
<1>3. QED
  BY <1>1, <1>2, CCleanupTypes
     DEF CExpire, CCancel, CUnmount, CGraceEnd, CEnd, Typed, CreatorTypes

\* accept() and reject(), up to their first await, keep the types.
LEMMA DecideTypes ==
    ASSUME Typed, NEW d \in Decision, CDecide(d)
    PROVE  Typed'
<1>1. JoinerTypes' /\ NetTypes'
  BY DEF CDecide, Typed, JoinerTypes, NetTypes, jVars, net
<1>2. cDecisions + 1 \in Nat /\ cRequest \in Joiners
  BY DEF CDecide, Typed, CreatorTypes
<1>3. cOp' \in Op /\ cOp'.req \in Joiners
  BY <1>2 DEF CDecide, Confirming, Op, Typed, CreatorTypes
<1>4. cPending' \in Decision \cup {"none"} /\ cStatus' \in Status /\ cTimer' \in BOOLEAN
  BY DEF CDecide, Confirming, Typed, CreatorTypes
<1>5. QED
  BY <1>1, <1>2, <1>3, <1>4 DEF CDecide, Typed, CreatorTypes

\* The decision timeout keeps the types.
LEMMA TimeoutTypes ==
    ASSUME Typed, CDecisionTimeout
    PROVE  Typed'
<1>1. NetTypes'
  BY DropTypes DEF CDecisionTimeout, Typed, NetTypes, net
<1>2. JoinerTypes'
  BY DEF CDecisionTimeout, Typed, JoinerTypes, jVars
<1>3. /\ cStatus' \in Status /\ cPending' \in Decision \cup {"none"} /\ cTimer' = FALSE
      /\ cClean' \in {"no", "closing", "done"}
  BY DEF CDecisionTimeout, Typed, CreatorTypes
<1>4. UNCHANGED <<cCand, cLink, cRequest, cCommitted, cOp, cDecisions, cInbox, cSaving,
                  cGrace, cSaved, approved>>
  BY DEF CDecisionTimeout
<1>5. QED
  BY <1>1, <1>2, <1>3, <1>4 DEF Typed, CreatorTypes

\* The end of addLocalGroupMember, either way, keeps the types.
LEMMA CommitTypes ==
    ASSUME Typed, CCommit \/ CCommitFails
    PROVE  Typed'
<1>1. JoinerTypes' /\ NetTypes'
  BY DEF CCommit, CCommitFails, Typed, JoinerTypes, NetTypes, jVars, net
<1>2. cOp.n \in Nat
  BY DEF Typed, CreatorTypes, Op
<1>3. cOp' \in Op /\ (cOp'.step # "none" => cOp'.req \in Joiners)
  <2>1. CASE CCommit
    BY <1>2, <2>1 DEF CCommit, Confirming, Typed, CreatorTypes, Op
  <2>2. CASE CCommitFails
    BY <2>2 DEF CCommitFails, Op, NoOp
  <2>3. QED
    BY <2>1, <2>2
<1>4. QED
  BY <1>1, <1>3 DEF CCommit, CCommitFails, Confirming, Typed, CreatorTypes

\* Sending the signed decision, or failing to, keeps the types.
LEMMA SendTypes ==
    ASSUME Typed, CSend \/ CSendFails
    PROVE  Typed'
<1>1. JoinerTypes'
  BY DEF CSend, CSendFails, Typed, JoinerTypes, jVars
<1>2. NetTypes'
  BY DEF CSend, CSendFails, CanSend, Typed, CreatorTypes, NetTypes, net, Op
<1>3. cOp' \in Op /\ cOp'.step = "none"
  BY InviteAssumption DEF CSend, CSendFails, Op, NoOp
<1>4. QED
  BY <1>1, <1>2, <1>3 DEF CSend, CSendFails, Typed, CreatorTypes

\* What the creator makes of a verified message keeps the types.
LEMMA ReceiveTypes ==
    ASSUME Typed, NEW m \in cInbox, CReceiveAck(m) \/ CReceiveRequest(m) \/ CReceiveIgnored(m)
    PROVE  Typed'
<1>1. JoinerTypes' /\ NetTypes'
  BY DEF CReceiveAck, CReceiveRequest, CReceiveIgnored, Typed, JoinerTypes, NetTypes, jVars, net
<1>2. m.req \in Joiners
  BY DEF Typed, CreatorTypes
<1>3. CASE CReceiveAck(m)
  <2>1. cSaving' \subseteq Joiners
    BY <1>2, <1>3 DEF CReceiveAck, Typed, CreatorTypes
  <2>2. cStatus' \in Status /\ cTimer' \in BOOLEAN /\ cGrace' \in BOOLEAN
    BY <1>3 DEF CReceiveAck, CFinish, Typed, CreatorTypes
  <2>3. cInbox' \subseteq ToCreator /\ cPending' = "none"
    BY <1>3 DEF CReceiveAck, Typed, CreatorTypes
  <2>4. UNCHANGED <<cCand, cLink, cRequest, cCommitted, cClean, cOp, cDecisions, cSaved, approved>>
    BY <1>3 DEF CReceiveAck
  <2>5. QED
    BY <1>1, <2>1, <2>2, <2>3, <2>4 DEF Typed, CreatorTypes
<1>4. CASE CReceiveRequest(m) \/ CReceiveIgnored(m)
  BY <1>1, <1>2, <1>4 DEF CReceiveRequest, CReceiveIgnored, Typed, CreatorTypes
<1>5. QED
  BY <1>3, <1>4

\* Storing the bond at the creator, or failing to, keeps the types.
LEMMA PersistTypes ==
    ASSUME Typed, NEW j \in Joiners, CPersist(j) \/ CPersistFails(j)
    PROVE  Typed'
<1>1. JoinerTypes'
  BY DEF CPersist, CPersistFails, Typed, JoinerTypes, jVars
<1>2. NetTypes'
  BY CCleanupTypes DEF CPersist, CPersistFails, Typed, NetTypes, net
<1>3. CASE CPersist(j)
  BY <1>1, <1>2, <1>3 DEF CPersist, CFinish, Typed, CreatorTypes
<1>4. CASE CPersistFails(j)
  BY <1>1, <1>2, <1>4, CCleanupTypes DEF CPersistFails, Typed, CreatorTypes
<1>5. QED
  BY <1>3, <1>4

\* The end of the creator's cleanup keeps the types.
LEMMA CleanupEndTypes ==
    ASSUME Typed, CCleanupEnd
    PROVE  Typed'
BY DEF Typed, CreatorTypes, JoinerTypes, NetTypes, jVars, net, CCleanupEnd

\* A channel that opens or closes keeps the types.
LEMMA LinkTypes ==
    ASSUME Typed, NEW j \in Joiners, LinkUp(j) \/ LinkDown(j)
    PROVE  Typed'
<1>1. CASE LinkUp(j)
  BY <1>1 DEF LinkUp, Typed, CreatorTypes, JoinerTypes, NetTypes, cVars
<1>2. CASE LinkDown(j)
  BY <1>2, DropTypes DEF LinkDown, Typed, CreatorTypes, JoinerTypes, cVars, jVars
<1>3. QED
  BY <1>1, <1>2

\* joinInvite() keeps the types.
LEMMA StartTypes ==
    ASSUME Typed, NEW j \in Joiners, JStart(j)
    PROVE  Typed'
<1>1. NetTypes' /\ jClean' \in [Joiners -> {"no", "closing", "done"}]
  BY JCleanupTypes DEF JStart, Typed, JoinerTypes, NetTypes, net
<1>2. QED
  BY <1>1 DEF JStart, Typed, CreatorTypes, JoinerTypes, cVars

\* A joiner's opened channel, received decision or finished cleanup keeps the types.
LEMMA OpenReceiveTypes ==
    ASSUME Typed, NEW j \in Joiners, JOpen(j) \/ JReceive(j) \/ JCleanupEnd(j)
    PROVE  Typed'
<1>1. CASE JOpen(j) \/ JCleanupEnd(j)
  <2>1. CreatorTypes' /\ NetTypes' /\ cOp' = cOp
    BY <1>1 DEF Typed, CreatorTypes, NetTypes, cVars, net, JOpen, JCleanupEnd
  <2>2. JoinerTypes'
    BY <1>1 DEF Typed, JoinerTypes, JOpen, JCleanupEnd
  <2>3. QED
    BY <2>1, <2>2 DEF Typed
<1>2. CASE JReceive(j)
  <2>1. jTasks' \in [Joiners -> SUBSET Task] /\ toJ' \in [Joiners -> SUBSET ToJoiner]
    BY <1>2 DEF JReceive, Typed, JoinerTypes, NetTypes
  <2>2. QED
    BY <1>2, <2>1 DEF JReceive, Typed, CreatorTypes, JoinerTypes, NetTypes, cVars
<1>3. QED
  BY <1>1, <1>2

\* A joiner's choice of a candidate keeps the types.
LEMMA ConsiderTypes ==
    ASSUME Typed, NEW j \in Joiners, NEW p \in Joiners \cup {Creator}, JConsider(j, p)
    PROVE  Typed'
BY DEF Typed, CreatorTypes, JoinerTypes, NetTypes, cVars, net, JConsider

\* The ways a joiner's session ends keep the types.
LEMMA JoinerEndTypes ==
    ASSUME Typed, NEW j \in Joiners,
           JFail(j) \/ JExpire(j) \/ JCancel(j) \/ JUnmount(j) \/ JGraceEnd(j)
    PROVE  Typed'
<1>1. JCleanup(j)
  BY DEF JFail, JExpire, JCancel, JUnmount, JGraceEnd, JEnd
<1>2. NetTypes' /\ jClean' \in [Joiners -> {"no", "closing", "done"}]
  BY <1>1, JCleanupTypes
<1>0. CreatorTypes' /\ cOp' = cOp
  BY DEF JFail, JExpire, JCancel, JUnmount, JGraceEnd, JEnd, Typed, CreatorTypes, cVars
<1>3. CASE JUnmount(j) \/ JGraceEnd(j)
  BY <1>0, <1>2, <1>3 DEF JUnmount, JGraceEnd, Typed, JoinerTypes
<1>4. ASSUME NEW s \in {"error", "expired", "cancelled"}, JEnd(j, s)
      PROVE  Typed'
  BY <1>0, <1>2, <1>4 DEF JEnd, Typed, JoinerTypes
<1>5. QED
  BY <1>3, <1>4 DEF JFail, JExpire, JCancel

\* The joiner's request, sent or not, keeps the types.
LEMMA SendRequestTypes ==
    ASSUME Typed, NEW j \in Joiners, JSendRequest(j)
    PROVE  Typed'
<1>1. CASE JCanSend(j)
  <2>1. CreatorTypes' /\ cOp' = cOp
    BY DEF JSendRequest, Typed, CreatorTypes, cVars
  <2>2. NetTypes'
    <3>1. [kind |-> "request", req |-> j, n |-> 0] \in ToCreator
      OBVIOUS
    <3>2. QED
      BY <1>1, <3>1 DEF JSendRequest, Typed, NetTypes
  <2>3. jStatus' \in [Joiners -> Status] /\ jSend' \in [Joiners -> BOOLEAN]
    BY <1>1 DEF JSendRequest, Typed, JoinerTypes
  <2>4. UNCHANGED <<jClean, jCand, jOpen, jRequested, jTasks, jGrace, jSaved>>
    BY <1>1 DEF JSendRequest
  <2>5. JoinerTypes'
    BY <2>3, <2>4 DEF Typed, JoinerTypes
  <2>6. QED
    BY <2>1, <2>2, <2>5 DEF Typed
<1>2. CASE ~JCanSend(j)
  BY <1>2, JFailCurrentTypes DEF JSendRequest, Typed, CreatorTypes, JoinerTypes, cVars
<1>3. QED
  BY <1>1, <1>2

\* The continuations of a received decision at the joiner keep the types.
LEMMA TaskTypes ==
    ASSUME Typed, NEW j \in Joiners, NEW t \in jTasks[j],
           JPersist(j, t) \/ JPersistFails(j, t) \/ JAck(j, t) \/ JAckFails(j, t)
    PROVE  Typed'
<1>1. CASE JPersist(j, t)
  <2>1. t \in Task /\ [t EXCEPT !.step = "ack"] \in Task
    BY DEF Typed, JoinerTypes
  <2>2. jTasks' \in [Joiners -> SUBSET Task]
    BY <1>1, <2>1 DEF JPersist, Typed, JoinerTypes
  <2>3. QED
    BY <1>1, <2>2 DEF JPersist, Typed, CreatorTypes, JoinerTypes, NetTypes, cVars, net
<1>3. CASE JAck(j, t)
  <2>1. t.n \in Nat
    BY DEF Typed, JoinerTypes
  <2>2. NetTypes'
    BY <1>3, <2>1 DEF JAck, Typed, NetTypes
  <2>3. QED
    BY <1>3, <2>2 DEF JAck, Typed, CreatorTypes, JoinerTypes, cVars
<1>2. CASE JPersistFails(j, t) \/ JAckFails(j, t)
  BY <1>2, JFailCurrentTypes DEF JPersistFails, JAckFails, Typed, CreatorTypes, JoinerTypes, cVars
<1>4. QED
  BY <1>1, <1>2, <1>3

-----------------------------------------------------------------------------
\* The disjuncts of Next, one per handler or continuation of the code.
LEMMA NextCases ==
    ASSUME Next
    PROVE  \/ \E j \in Joiners : CConsider(j) \/ CAcceptCandidate(j) \/ CArrive(j)
           \/ COpen \/ CFailCandidate
           \/ CExpire \/ CCancel \/ CUnmount \/ CGraceEnd
           \/ \E d \in Decision : CDecide(d)
           \/ CDecisionTimeout \/ CCommit \/ CCommitFails \/ CSend \/ CSendFails
           \/ \E m \in cInbox : CReceiveAck(m) \/ CReceiveRequest(m) \/ CReceiveIgnored(m)
           \/ \E j \in Joiners : CPersist(j) \/ CPersistFails(j)
           \/ CCleanupEnd
           \/ \E j \in Joiners : LinkUp(j) \/ LinkDown(j)
           \/ \E j \in Joiners : JStart(j)
           \/ \E j \in Joiners : JOpen(j) \/ JReceive(j) \/ JCleanupEnd(j)
           \/ \E j \in Joiners, p \in Joiners \cup {Creator} : JConsider(j, p)
           \/ \E j \in Joiners : JFail(j) \/ JExpire(j) \/ JCancel(j) \/ JUnmount(j)
                                 \/ JGraceEnd(j)
           \/ \E j \in Joiners : JSendRequest(j)
           \/ \E j \in Joiners : \E t \in jTasks[j] : JPersist(j, t) \/ JPersistFails(j, t)
                                                      \/ JAck(j, t) \/ JAckFails(j, t)
BY DEF Next, CreatorStep, JoinerStep, CReceive, CPersistence, JTaskStep

\* Every step of the handshake keeps the types and stays in its instance.
LEMMA TypeStep ==
    ASSUME TypeOK, [Next]_vars
    PROVE  TypeOK' /\ scene' = scene
<1>1. CASE UNCHANGED vars
  BY <1>1 DEF vars, moves, cVars, jVars, net, TypeOK, Typed, CreatorTypes, JoinerTypes, NetTypes
<1>2. CASE Next
  <2>1. Typed'
    BY <1>2, NextCases, CandidateTypes, OpenTypes, FailCandidateTypes, EndTypes, DecideTypes,
       TimeoutTypes, CommitTypes, SendTypes, ReceiveTypes, PersistTypes, CleanupEndTypes,
       LinkTypes, StartTypes, OpenReceiveTypes, ConsiderTypes, JoinerEndTypes,
       SendRequestTypes, TaskTypes DEF TypeOK
  <2>2. scene' = scene
    BY <1>2 DEF Next
  <2>3. QED
    BY <2>1, <2>2 DEF TypeOK
<1>3. QED
  BY <1>1, <1>2

\* The initial state is well typed.
LEMMA InviteTypingInit == Init => TypeOK
<1> SUFFICES ASSUME Init PROVE TypeOK
  OBVIOUS
<1>1. cOp \in Op /\ cOp.step = "none"
  BY InviteAssumption DEF Init, NoOp, Op
<1>2. CreatorTypes
  BY <1>1 DEF Init, CreatorTypes
<1>3. JoinerTypes /\ NetTypes
  BY DEF Init, JoinerTypes, NetTypes
<1>4. scene \in Scene
  BY InviteAssumption DEF Init
<1>5. QED
  BY <1>1, <1>2, <1>3, <1>4 DEF TypeOK, Typed

\* The handshake is well typed: the fields of InviteService, the messages and
\* the continuations it keeps, for any number of joiner sessions and decisions.
THEOREM InviteTyping == Spec => []TypeOK
<1>1. Init => TypeOK
  BY InviteTypingInit
<1>2. TypeOK /\ [Next]_vars => TypeOK'
  BY TypeStep
<1>3. QED
  BY <1>1, <1>2, PTL DEF Spec

-----------------------------------------------------------------------------
(* Consent.  Most actions only remove messages and tasks, close channels,   *)
(* never withdraw an approval and never change a settled status: frames.    *)

Shrinks(x) == \A j \in Joiners : x'[j] \subseteq x[j]

KeepsSettled == \A j \in Joiners : Settled(j) => Settled(j)'

\* No channel opens, one that stays open keeps its candidate, one that does not is empty.
Quiet ==
    /\ Shrinks(toJ) /\ Shrinks(toC) /\ cInbox' \subseteq cInbox
    /\ \A j \in Joiners : /\ pipe'[j] => /\ pipe[j] /\ cCand' = cCand
                                         /\ cLink' \in {cLink, "open"} /\ cClean' = cClean
                          /\ ~pipe'[j] => ~pipe[j] \/ (toC'[j] = {} /\ toJ'[j] = {})

Frame ==
    /\ Quiet /\ Shrinks(jTasks) /\ KeepsSettled
    /\ approved' = approved /\ jSaved' = jSaved
    /\ \A j \in Joiners : (jOpen[j] => jOpen'[j]) /\ (jSend'[j] => jSend[j] \/ ~jOpen[j])
    /\ cOp' = cOp \/ cOp'.step = "none"
    /\ cSaved' = cSaved /\ cSaving' \subseteq cSaving
    /\ cPending' \in {cPending, "none"} /\ cRequest' \in {cRequest, NoPeer}

\* A quiet step leaves the creator with one voice at most.
LEMMA QuietVoice ==
    ASSUME Typed, OneVoice, Quiet
    PROVE  OneVoice'
<1>1. ASSUME NEW j \in Joiners
      PROVE  /\ pipe'[j] => cCand' = j /\ cLink' \in {"dialing", "open"} /\ cClean' = "no"
             /\ ~pipe'[j] => toC'[j] = {} /\ toJ'[j] = {}
             /\ \A m \in toC'[j] : m.req = j
  BY DEF OneVoice, Quiet, Shrinks
<1>2. ASSUME NEW m \in cInbox'
      PROVE  /\ \A n \in cInbox' : m.req = n.req
             /\ \A j \in Joiners : pipe'[j] => m.req = j
  BY DEF OneVoice, Quiet
<1>3. QED
  BY <1>1, <1>2 DEF OneVoice

\* A frame brings forth no question and no answer.
LEMMA FrameAnswers ==
    ASSUME Typed, FreshAnswers, Frame
    PROVE  FreshAnswers'
<1> SUFFICES ASSUME NEW j \in Joiners \ approved, Answering(j)'
             PROVE  /\ Accepting' => cRequest' # j
                    /\ Asking(j)' => cRequest' \in {j, NoPeer} /\ ~Accepting'
  BY DEF FreshAnswers, Frame
<1>1. Answering(j)
  BY DEF Answering, Frame, Quiet, Shrinks
<1>2. Asking(j)' => Asking(j)
  BY DEF Asking, Frame, Quiet, Shrinks
<1>3. Accepting' => Accepting
  BY DEF Accepting, Frame
<1>4. j # NoPeer
  BY InviteAssumption
<1>5. QED
  BY <1>1, <1>2, <1>3, <1>4 DEF FreshAnswers, Frame

\* A frame brings forth no accept and no ACK.
LEMMA FrameConsented ==
    ASSUME Typed, scene' = scene, Consented, Frame
    PROVE  Consented'
<1>0. GroupInvite' = GroupInvite
  BY DEF GroupInvite
<1>1. \A j \in Joiners : jSaved'[j] => j \in approved'
  BY DEF Consented, Frame
<1>2. \A j \in Joiners : \A t \in jTasks'[j] :
        t.kind = "accept" \/ t.step = "save" => j \in approved' /\ t.kind = "accept"
  BY DEF Consented, Frame, Shrinks
<1>3. \A j \in Joiners : \A m \in toJ'[j] : m.kind = "accept" => m.req \in approved'
  BY DEF Consented, Frame, Quiet, Shrinks
<1>4. cOp'.step # "none" /\ cOp'.decision = "accept" => cOp'.req \in approved'
  BY DEF Consented, Frame
<1>5. cOp'.step = "commit" => GroupInvite' /\ cOp'.decision = "accept" /\ cPending' = "none"
  BY <1>0 DEF Consented, Frame
<1>6. \A j \in cSaved' \cup cSaving' : j \in approved' /\ (~GroupInvite' => Settled(j)')
  BY <1>0 DEF Consented, Frame, KeepsSettled, Typed, CreatorTypes
<1>7. \A j \in Joiners : \A m \in toC'[j] : m.kind = "ack" => Settled(m.req)'
  BY DEF Consented, Frame, Quiet, Shrinks, KeepsSettled, Typed, NetTypes
<1>8. \A m \in cInbox' : m.kind = "ack" => Settled(m.req)'
  BY DEF Consented, Frame, Quiet, KeepsSettled, Typed, CreatorTypes
<1>9. QED
  BY <1>1, <1>2, <1>3, <1>4, <1>5, <1>6, <1>7, <1>8 DEF Consented

\* A step that changes nothing the invariant speaks of, or only forgets, keeps it.
LEMMA FrameConsent ==
    ASSUME Typed, scene' = scene, ConsentInv, Frame
    PROVE  ConsentInv'
BY QuietVoice, FrameAnswers, FrameConsented DEF ConsentInv, Frame

\* Closing the channels of S forgets what is on them.
LEMMA DropQuiet ==
    ASSUME Typed, NEW S, Drop(S)
    PROVE  /\ Shrinks(toC) /\ Shrinks(toJ)
           /\ \A j \in Joiners : /\ pipe'[j] => pipe[j] /\ j \notin S
                                 /\ ~pipe'[j] => ~pipe[j] \/ (toC'[j] = {} /\ toJ'[j] = {})
BY DEF Drop, Shrinks, Typed, NetTypes

\* An unchanged network, with the creator's end unchanged, is quiet.
LEMMA SameNetQuiet ==
    ASSUME Typed, UNCHANGED net, cInbox' \subseteq cInbox,
           UNCHANGED <<cCand, cLink, cClean>> \/ \A j \in Joiners : ~pipe[j]
    PROVE  Quiet
BY DEF Quiet, Shrinks, net

\* Channels that close, with the creator's end unchanged, are quiet.
LEMMA SameCreatorQuiet ==
    ASSUME Typed, NEW S, Drop(S), UNCHANGED <<cCand, cLink, cClean, cInbox>>
    PROVE  Quiet
BY DropQuiet DEF Quiet

\* The creator's cleanup, started once or already running, is quiet.
LEMMA CCleanupQuiet ==
    ASSUME Typed, CCleanup, UNCHANGED <<cCand, cLink, cInbox>>
    PROVE  Quiet
<1>1. CASE cClean = "no"
  BY <1>1, DropQuiet DEF CCleanup, Quiet
<1>2. CASE cClean # "no"
  BY <1>2, SameNetQuiet DEF CCleanup
<1>3. QED
  BY <1>1, <1>2

\* A joiner's cleanup is quiet.
LEMMA JCleanupQuiet ==
    ASSUME Typed, NEW j \in Joiners, JCleanup(j), UNCHANGED cVars
    PROVE  Quiet
BY SameCreatorQuiet, SameNetQuiet DEF JCleanup, cVars

\* failCurrent() of a joiner is quiet and ends no settled session.
LEMMA JFailCurrentKeeps ==
    ASSUME Typed, NEW j \in Joiners, JFailCurrent(j), UNCHANGED cVars
    PROVE  Quiet /\ KeepsSettled
<1>1. CASE isTerminalStatus(jStatus[j])
  BY <1>1, SameNetQuiet DEF JFailCurrent, KeepsSettled, Settled, cVars
<1>2. CASE ~isTerminalStatus(jStatus[j])
  BY <1>2, JCleanupQuiet DEF JFailCurrent, KeepsSettled, Settled, Typed, JoinerTypes
<1>3. QED
  BY <1>1, <1>2

\* Without a candidate no channel is up.
LEMMA NoCandidate ==
    ASSUME OneVoice, NEW j \in Joiners, pipe[j]
    PROVE  cCand = j /\ cCand # NoPeer /\ cClean = "no" /\ cLink \in {"dialing", "open"}
BY InviteAssumption DEF OneVoice

\* The creator's actions that are frames.
LEMMA CreatorFrames ==
    ASSUME Typed, OneVoice,
           \/ \E j \in Joiners : CConsider(j) \/ CAcceptCandidate(j)
           \/ COpen \/ CFailCandidate \/ CDecisionTimeout \/ CCleanupEnd
           \/ CExpire \/ CCancel \/ CUnmount \/ CGraceEnd
           \/ CCommitFails \/ CSendFails
           \/ \E m \in cInbox : CReceiveIgnored(m)
           \/ \E j \in Joiners : CPersistFails(j)
    PROVE  Frame
<1>1. CASE (\E j \in Joiners : CConsider(j) \/ CAcceptCandidate(j)) \/ CCleanupEnd
  <2>1. Quiet
    BY <1>1, NoCandidate, SameNetQuiet DEF CConsider, CAcceptCandidate, CCleanupEnd, net
  <2>2. QED
    BY <1>1, <2>1 DEF CConsider, CAcceptCandidate, CCleanupEnd, Frame, Shrinks, KeepsSettled,
                      Settled, jVars
<1>2. CASE COpen
  <2>1. Quiet
    BY <1>2 DEF COpen, Quiet, Shrinks, net
  <2>2. QED
    BY <1>2, <2>1 DEF COpen, Frame, Shrinks, KeepsSettled, Settled, jVars
<1>3. CASE CFailCandidate
  <2>1. /\ Shrinks(toC) /\ Shrinks(toJ)
        /\ \A j \in Joiners : /\ pipe'[j] => pipe[j] /\ j # cCand
                              /\ ~pipe'[j] => ~pipe[j] \/ (toC'[j] = {} /\ toJ'[j] = {})
    BY <1>3, DropQuiet DEF CFailCandidate
  <2>2. Quiet
    BY <1>3, <2>1, NoCandidate DEF CFailCandidate, Quiet
  <2>3. QED
    BY <1>3, <2>2 DEF CFailCandidate, Frame, Shrinks, KeepsSettled, Settled, jVars
<1>4. CASE CDecisionTimeout
  <2>1. Quiet
    <3>1. CASE UNCHANGED net /\ cClean' = cClean
      BY <1>4, <3>1, SameNetQuiet DEF CDecisionTimeout
    <3>2. CASE Drop(Joiners)
      BY <1>4, <3>2, DropQuiet DEF CDecisionTimeout, Quiet
    <3>3. QED
      BY <1>4, <3>1, <3>2 DEF CDecisionTimeout
  <2>2. QED
    BY <1>4, <2>1 DEF CDecisionTimeout, Frame, Shrinks, KeepsSettled, Settled, jVars
<1>5. CASE CExpire \/ CCancel \/ CUnmount \/ CGraceEnd
  <2>1. Quiet
    BY <1>5, CCleanupQuiet DEF CExpire, CCancel, CUnmount, CGraceEnd, CEnd
  <2>2. QED
    BY <1>5, <2>1 DEF CExpire, CCancel, CUnmount, CGraceEnd, CEnd, Frame, Shrinks,
                      KeepsSettled, Settled, jVars
<1>6. CASE CCommitFails \/ CSendFails
  <2>1. Quiet
    BY <1>6, SameNetQuiet DEF CCommitFails, CSendFails
  <2>2. QED
    BY <1>6, <2>1 DEF CCommitFails, CSendFails, NoOp, Frame, Shrinks, KeepsSettled, Settled, jVars
<1>7. ASSUME NEW m \in cInbox, CReceiveIgnored(m)
      PROVE  Frame
  <2>1. Quiet
    BY <1>7, SameNetQuiet DEF CReceiveIgnored
  <2>2. QED
    BY <1>7, <2>1 DEF CReceiveIgnored, Frame, Shrinks, KeepsSettled, Settled, jVars
<1>8. ASSUME NEW j \in Joiners, CPersistFails(j)
      PROVE  Frame
  <2>1. Quiet
    BY <1>8, CCleanupQuiet, SameNetQuiet DEF CPersistFails
  <2>2. QED
    BY <1>8, <2>1 DEF CPersistFails, Frame, Shrinks, KeepsSettled, Settled, jVars
<1>9. QED
  BY <1>1, <1>2, <1>3, <1>4, <1>5, <1>6, <1>7, <1>8

\* The joiners' and the network's actions that are frames.
LEMMA JoinerFrames ==
    ASSUME Typed, NEW j \in Joiners,
           \/ LinkDown(j) \/ JStart(j) \/ JOpen(j) \/ JCleanupEnd(j)
           \/ \E p \in Joiners \cup {Creator} : JConsider(j, p)
           \/ JFail(j) \/ JExpire(j) \/ JCancel(j) \/ JUnmount(j) \/ JGraceEnd(j)
           \/ \E t \in jTasks[j] : JPersistFails(j, t) \/ JAckFails(j, t)
    PROVE  Frame
<1>1. CASE JOpen(j) \/ JCleanupEnd(j) \/ \E p \in Joiners \cup {Creator} : JConsider(j, p)
  <2>1. Quiet
    BY <1>1, SameNetQuiet DEF JOpen, JCleanupEnd, JConsider, cVars
  <2>2. QED
    BY <1>1, <2>1 DEF JOpen, JCleanupEnd, JConsider, Frame, Shrinks, KeepsSettled, Settled,
                      cVars, Typed, JoinerTypes
<1>2. CASE LinkDown(j)
  <2>1. Quiet
    BY <1>2, SameCreatorQuiet DEF LinkDown, cVars
  <2>2. QED
    BY <1>2, <2>1 DEF LinkDown, Frame, Shrinks, KeepsSettled, Settled, cVars, jVars
<1>3. CASE JStart(j)
  <2>1. Quiet
    BY <1>3, JCleanupQuiet, SameNetQuiet DEF JStart, cVars
  <2>2. QED
    BY <1>3, <2>1 DEF JStart, Frame, Shrinks, KeepsSettled, Settled, cVars, Typed, JoinerTypes
<1>4. CASE JUnmount(j) \/ JGraceEnd(j)
  BY <1>4, JCleanupQuiet
     DEF JUnmount, JGraceEnd, Frame, Shrinks, KeepsSettled, Settled, cVars
<1>5. ASSUME NEW s, JEnd(j, s)
      PROVE  Frame
  <2>1. Quiet
    BY <1>5, JCleanupQuiet DEF JEnd
  <2>2. QED
    BY <1>5, <2>1
       DEF JEnd, Frame, Shrinks, KeepsSettled, Settled, cVars, Typed, JoinerTypes
<1>6. ASSUME NEW t \in jTasks[j], JPersistFails(j, t) \/ JAckFails(j, t)
      PROVE  Frame
  <2>1. Quiet /\ KeepsSettled
    BY <1>6, JFailCurrentKeeps DEF JPersistFails, JAckFails
  <2>2. QED
    BY <1>6, <2>1 DEF JPersistFails, JAckFails, Frame, Shrinks, cVars, Typed, JoinerTypes
<1>7. QED
  BY <1>1, <1>2, <1>3, <1>4, <1>5, <1>6 DEF JFail, JExpire, JCancel

(* The other actions.                                                       *)

\* A channel opens when everything about the previous one is settled.
LEMMA LinkUpConsent ==
    ASSUME Typed, scene' = scene, ConsentInv, NEW j \in Joiners, LinkUp(j)
    PROVE  ConsentInv'
<1> USE DEF LinkUp, cVars, ConsentInv
<1>1. cInbox = {} /\ ~pipe[j] /\ toC[j] = {} /\ toJ[j] = {}
  BY DEF OneVoice, CryptoSettled
<1>2. Consented'
  BY DEF Consented, Settled, GroupInvite
<1>3. \A k \in Joiners : pipe'[k] => k = j
  BY DEF OneVoice, Typed, NetTypes
<1>4. OneVoice'
  BY <1>1, <1>3 DEF OneVoice, Typed, NetTypes
<1>5. ASSUME NEW k \in Joiners \ approved, Answering(k)'
      PROVE  /\ Accepting' => cRequest # k
             /\ Asking(k)' => cRequest \in {k, NoPeer} /\ ~Accepting'
  <2>1. Answering(k)
    BY <1>5 DEF Answering
  <2>2. k # j
    <3>1. \A t \in jTasks[j] : t.kind # "reject"
      BY DEF CryptoSettled, Consented, Typed, JoinerTypes
    <3>2. QED
      BY <1>1, <2>1, <3>1 DEF Answering, CryptoSettled
  <2>3. Asking(k)' => Asking(k)
    BY <1>3, <2>2 DEF Asking, Typed, JoinerTypes
  <2>4. Accepting' = Accepting
    BY DEF Accepting
  <2>5. QED
    BY <2>1, <2>3, <2>4 DEF FreshAnswers
<1>6. FreshAnswers'
  BY <1>5 DEF FreshAnswers
<1>7. QED
  BY <1>2, <1>4, <1>6

\* A message that reaches the creator comes from the only open channel.
LEMMA ArriveConsent ==
    ASSUME Typed, scene' = scene, ConsentInv, NEW j \in Joiners, CArrive(j)
    PROVE  ConsentInv'
<1> USE DEF CArrive, ConsentInv, jVars
<1>1. PICK m \in toC[j] : toC' = [toC EXCEPT ![j] = @ \ {m}] /\ cInbox' = cInbox \cup {m}
  OBVIOUS
<1>2. m.req = j /\ pipe[j] /\ Shrinks(toC)
  BY <1>1 DEF OneVoice, Shrinks, Typed, NetTypes
<1>3. \A n \in cInbox : n.req = j
  BY <1>2 DEF OneVoice
<1>4. Consented'
  BY <1>1, <1>2 DEF Consented, Settled, GroupInvite, Shrinks
<1>5. OneVoice'
  <2>1. \A k \in Joiners : pipe[k] => k = j
    BY <1>2 DEF OneVoice
  <2>2. \A n \in cInbox' : n.req = j
    BY <1>1, <1>2, <1>3
  <2>3. \A k \in Joiners : ~pipe[k] => toC'[k] = {}
    BY <1>2 DEF OneVoice, Shrinks
  <2>4. QED
    BY <1>2, <2>1, <2>2, <2>3 DEF OneVoice, Shrinks
<1>6. FreshAnswers'
  <2>1. ASSUME NEW k \in Joiners
        PROVE  (Answering(k)' => Answering(k)) /\ (Asking(k)' => Asking(k))
    BY <1>1, <1>2 DEF Answering, Asking, Shrinks
  <2>2. QED
    BY <2>1 DEF FreshAnswers, Accepting
<1>7. QED
  BY <1>4, <1>5, <1>6

\* The creator's decision: an accept is recorded as consent, a reject ends a question.
LEMMA DecideConsent ==
    ASSUME Typed, scene' = scene, ConsentInv, NEW d \in Decision, CDecide(d)
    PROVE  ConsentInv'
<1> USE DEF CDecide, ConsentInv
<1>0. /\ cRequest \in Joiners /\ cRequest # NoPeer /\ ~Accepting /\ cPending = "none"
      /\ cOp.step = "none" /\ cRequest' = cRequest
  BY InviteAssumption DEF Accepting
<1>1. /\ approved \subseteq approved' /\ (d = "accept" => cRequest \in approved')
      /\ cOp'.decision = d /\ cOp'.req = cRequest
      /\ cOp'.step = "commit" => GroupInvite /\ d = "accept" /\ cPending' = "none"
      /\ cPending' \in {"none", d} /\ cOp'.step \in {"commit", "send"}
  BY <1>0 DEF Confirming
<1>2. Consented'
  BY <1>1 DEF Consented, Settled, GroupInvite, jVars, net
<1>3. OneVoice'
  BY SameNetQuiet, QuietVoice
<1>4. ASSUME NEW k \in Joiners \ approved', Answering(k)'
      PROVE  /\ Accepting' => cRequest # k
             /\ Asking(k)' => cRequest \in {k, NoPeer} /\ ~Accepting'
  <2>1. Asking(k)' = Asking(k)
    BY DEF Asking, jVars, net
  <2>2. CASE d = "accept"
    <3>1. Answering(k)
      BY <1>1, <1>4, <2>2 DEF Answering, jVars, net
    <3>2. cRequest # k
      BY <1>1, <2>2
    <3>3. ~Asking(k)
      BY <1>0, <1>1, <3>1, <3>2 DEF FreshAnswers
    <3>4. QED
      BY <2>1, <3>2, <3>3
  <2>3. CASE d = "reject"
    <3>1. ~Accepting'
      BY <1>1, <2>3 DEF Accepting
    <3>2. Answering(k) \/ cRequest = k
      BY <1>1, <1>4, <2>3 DEF Answering, jVars, net
    <3>3. QED
      BY <1>1, <2>1, <3>1, <3>2 DEF FreshAnswers
  <2>4. QED
    BY <2>2, <2>3
<1>5. FreshAnswers'
  BY <1>0, <1>4 DEF FreshAnswers
<1>6. QED
  BY <1>2, <1>3, <1>5

\* The membership that is stored was accepted, whoever is the candidate by then.
LEMMA CommitConsent ==
    ASSUME Typed, scene' = scene, ConsentInv, CCommit
    PROVE  ConsentInv'
<1> USE DEF CCommit, ConsentInv
<1>1. GroupInvite /\ cOp.req \in approved /\ Accepting
  BY DEF Consented, Accepting
<1>2. /\ cOp'.step = "send" /\ cOp'.decision = "accept" /\ cOp'.req = cOp.req
      /\ cPending' = "accept"
  BY DEF Confirming
<1>3. Consented'
  BY <1>1, <1>2 DEF Consented, Settled, GroupInvite, jVars, net
<1>4. OneVoice'
  BY SameNetQuiet, QuietVoice
<1>5. FreshAnswers'
  <2>1. ASSUME NEW k \in Joiners
        PROVE  (Answering(k)' => Answering(k)) /\ (Asking(k)' => Asking(k))
    BY <1>2 DEF Answering, Asking, jVars, net
  <2>2. QED
    BY <1>1, <2>1 DEF FreshAnswers
<1>6. QED
  BY <1>3, <1>4, <1>5

\* The signed decision that is sent.
LEMMA SendConsent ==
    ASSUME Typed, scene' = scene, ConsentInv, CSend
    PROVE  ConsentInv'
<1> USE DEF CSend, ConsentInv
<1> DEFINE msg == [kind |-> cOp.decision, req |-> cOp.req, n |-> cOp.n]
<1>1. cCand \in Joiners /\ pipe[cCand] /\ cOp'.step = "none" /\ cOp.step = "send"
  BY DEF CanSend, NoOp
<1>2. /\ \A j \in Joiners : toJ'[j] \subseteq toJ[j] \cup {msg}
      /\ \A j \in Joiners : ~pipe[j] => toJ'[j] = toJ[j]
  BY <1>1 DEF Typed, NetTypes
<1>3. \A j \in Joiners : \A m \in toJ'[j] : m.kind = "accept" => m.req \in approved
  BY <1>1, <1>2 DEF Consented
<1>4. Consented'
  BY <1>1, <1>3 DEF Consented, Settled, GroupInvite, jVars
<1>5. OneVoice'
  BY <1>2 DEF OneVoice
<1>6. FreshAnswers'
  <2>1. ASSUME NEW k \in Joiners
        PROVE  (Answering(k)' => Answering(k)) /\ (Asking(k)' => Asking(k))
    <3>1. ASSUME NEW m \in toJ'[k], m.kind = "reject", m.req = k
          PROVE  Answering(k)
      BY <1>1, <1>2, <3>1 DEF Answering
    <3>2. QED
      BY <1>1, <3>1 DEF Answering, Asking, jVars
  <2>2. QED
    BY <1>1, <2>1 DEF FreshAnswers, Accepting
<1>7. QED
  BY <1>4, <1>5, <1>6

\* An ACK makes the creator store only a joiner it accepted.
LEMMA ReceiveAckConsent ==
    ASSUME Typed, scene' = scene, ConsentInv, NEW m \in cInbox, CReceiveAck(m)
    PROVE  ConsentInv'
<1> USE DEF CReceiveAck, ConsentInv
<1>1. m.kind = "ack" /\ m.req = cRequest /\ m.req \in Joiners /\ Settled(m.req)
  BY DEF IsAck, Consented, Typed, CreatorTypes
<1>2. cPending = "accept" => m.req \in approved
  BY <1>1 DEF Answering, Accepting, FreshAnswers
<1>3. \A j \in cSaving' : (j \in approved /\ Settled(j)) \/ j \in cSaving
  BY <1>1, <1>2
<1>4. cPending' = "none" /\ cInbox' \subseteq cInbox
  OBVIOUS
<1>5. Consented'
  BY <1>3, <1>4 DEF Consented, Settled, GroupInvite, jVars, net
<1>6. OneVoice'
  BY <1>4, SameNetQuiet, QuietVoice
<1>7. FreshAnswers'
  <2>1. ASSUME NEW k \in Joiners
        PROVE  (Answering(k)' => Answering(k)) /\ (Asking(k)' => Asking(k))
    BY <1>4 DEF Answering, Asking, jVars, net
  <2>2. QED
    BY <1>4, <2>1 DEF FreshAnswers, Accepting
<1>8. QED
  BY <1>5, <1>6, <1>7

\* A request is taken up that is not being answered already while an accept is stored.
LEMMA ReceiveRequestConsent ==
    ASSUME Typed, scene' = scene, ConsentInv, NEW m \in cInbox, CReceiveRequest(m)
    PROVE  ConsentInv'
<1> USE DEF CReceiveRequest, ConsentInv
<1>1. m.kind = "request" /\ m.req \in Joiners /\ cInbox' \subseteq cInbox /\ cRequest = NoPeer
  BY DEF IsRequest, Typed, CreatorTypes
<1>2. Consented'
  BY <1>1 DEF Consented, Settled, GroupInvite, jVars, net
<1>3. OneVoice'
  BY <1>1, SameNetQuiet, QuietVoice
<1>4. ASSUME NEW k \in Joiners \ approved, Answering(k)'
      PROVE  /\ Accepting' => m.req # k
             /\ Asking(k)' => m.req \in {k, NoPeer} /\ ~Accepting'
  <2>1. Answering(k) /\ (Asking(k)' => Asking(k)) /\ Accepting' = Accepting
    BY <1>1, <1>4 DEF Answering, Asking, Accepting, jVars, net
  <2>2. m.req = k => Asking(k)
    BY <1>1 DEF Asking
  <2>3. Asking(k) => m.req = k
    <3>1. ASSUME NEW n \in cInbox, n.req = k PROVE m.req = k
      BY <3>1 DEF OneVoice
    <3>2. toC[k] # {} \/ pipe[k] => m.req = k
      BY DEF OneVoice
    <3>3. QED
      BY <3>1, <3>2 DEF Asking
  <2>4. QED
    BY <2>1, <2>2, <2>3 DEF FreshAnswers
<1>5. FreshAnswers'
  BY <1>4 DEF FreshAnswers
<1>6. QED
  BY <1>2, <1>3, <1>5

\* Storing at the creator.
LEMMA PersistConsent ==
    ASSUME Typed, scene' = scene, ConsentInv, NEW j \in Joiners, CPersist(j)
    PROVE  ConsentInv'
<1> USE DEF CPersist, ConsentInv
<1>1. Consented'
  BY DEF Consented, Settled, GroupInvite, jVars, net
<1>2. OneVoice'
  BY SameNetQuiet, QuietVoice
<1>3. FreshAnswers'
  BY DEF FreshAnswers, Answering, Asking, Accepting, jVars, net
<1>4. QED
  BY <1>1, <1>2, <1>3

\* The joiner's request: sending it is its consent.
LEMMA SendRequestConsent ==
    ASSUME Typed, scene' = scene, ConsentInv, NEW j \in Joiners, JSendRequest(j)
    PROVE  ConsentInv'
<1>1. CASE ~JCanSend(j)
  <2>1. Quiet /\ KeepsSettled
    BY <1>1, JFailCurrentKeeps DEF JSendRequest
  <2>2. Frame
    BY <1>1, <2>1 DEF JSendRequest, Frame, Shrinks, cVars, Typed, JoinerTypes
  <2>3. QED
    BY <2>2, FrameConsent
<1>2. CASE JCanSend(j)
  <2> DEFINE msg == [kind |-> "request", req |-> j, n |-> 0]
  <2>1. /\ KeepsSettled /\ pipe[j] /\ jOpen[j] /\ jSend[j] /\ pipe' = pipe /\ toJ' = toJ
        /\ \A k \in Joiners : toC'[k] \subseteq toC[k] \cup (IF k = j THEN {msg} ELSE {})
        /\ \A k \in Joiners : jSend'[k] => jSend[k]
    BY <1>2 DEF JSendRequest, JCanSend, KeepsSettled, Settled, Typed, JoinerTypes, NetTypes
  <2>2. UNCHANGED <<cVars, jOpen, jTasks, jSaved>>
    BY DEF JSendRequest
  <2>3. Consented'
    <3>1. ASSUME NEW k \in Joiners, NEW m \in toC'[k], m.kind = "ack"
          PROVE  Settled(m.req)'
      <4>1. m \in toC[k] /\ m.req \in Joiners
        BY <2>1, <3>1 DEF Typed, NetTypes
      <4>2. QED
        BY <2>1, <3>1, <4>1 DEF ConsentInv, Consented, KeepsSettled
    <3>2. ASSUME NEW m \in cInbox', m.kind = "ack"
          PROVE  Settled(m.req)'
      BY <2>1, <2>2, <3>2 DEF cVars, ConsentInv, Consented, KeepsSettled, Typed, CreatorTypes
    <3>3. \A k \in cSaved \cup cSaving : k \in approved /\ (~GroupInvite => Settled(k)')
      BY <2>1 DEF ConsentInv, Consented, KeepsSettled, Typed, CreatorTypes
    <3>4. QED
      BY <2>1, <2>2, <3>1, <3>2, <3>3 DEF ConsentInv, Consented, GroupInvite, cVars
  <2>4. OneVoice'
    BY <2>1, <2>2 DEF ConsentInv, OneVoice, cVars
  <2>5. FreshAnswers'
    <3>1. ASSUME NEW k \in Joiners
          PROVE  (Answering(k)' => Answering(k)) /\ (Asking(k)' => Asking(k))
      BY <2>1, <2>2 DEF Answering, Asking, cVars
    <3>2. QED
      BY <2>2, <3>1 DEF ConsentInv, FreshAnswers, Accepting, cVars
  <2>6. QED
    BY <2>3, <2>4, <2>5 DEF ConsentInv
<1>3. QED
  BY <1>1, <1>2

\* A decision the joiner obeys was made about its own request.
LEMMA JReceiveConsent ==
    ASSUME Typed, scene' = scene, ConsentInv, NEW j \in Joiners, JReceive(j)
    PROVE  ConsentInv'
<1>1. PICK m \in toJ[j] :
        /\ toJ' = [toJ EXCEPT ![j] = @ \ {m}]
        /\ IF ~isTerminalStatus(jStatus[j]) /\ jRequested[j] /\ m.req = j
           THEN jTasks' = [jTasks EXCEPT ![j] = @ \cup
                  {[step |-> IF m.kind = "accept" THEN "save" ELSE "ack",
                    kind |-> m.kind, n |-> m.n]}]
           ELSE UNCHANGED jTasks
  BY DEF JReceive
<1>2. Shrinks(toJ) /\ Quiet
  <2>1. Shrinks(toJ)
    BY <1>1 DEF Shrinks, Typed, NetTypes
  <2>2. QED
    BY <2>1 DEF JReceive, Quiet, Shrinks, cVars
<1>3. ASSUME NEW k \in Joiners, NEW t \in jTasks'[k]
      PROVE  t \in jTasks[k] \/ (k = j /\ m.req = j /\ t.kind = m.kind
                                   /\ (t.step = "save" => m.kind = "accept"))
  BY <1>1 DEF Typed, JoinerTypes
<1>4. Consented'
  <2>1. ASSUME NEW k \in Joiners, NEW t \in jTasks'[k], t.kind = "accept" \/ t.step = "save"
        PROVE  k \in approved /\ t.kind = "accept"
    BY <1>3, <2>1 DEF ConsentInv, Consented
  <2>2. QED
    BY <1>2, <2>1 DEF JReceive, ConsentInv, Consented, Settled, GroupInvite, Shrinks, cVars
<1>5. FreshAnswers'
  <2>1. ASSUME NEW k \in Joiners
        PROVE  (Answering(k)' => Answering(k)) /\ (Asking(k)' => Asking(k))
    BY <1>2, <1>3 DEF JReceive, Answering, Asking, Shrinks, cVars
  <2>2. QED
    BY <2>1 DEF JReceive, ConsentInv, FreshAnswers, Accepting, cVars
<1>6. QED
  BY <1>2, <1>4, <1>5, QuietVoice DEF ConsentInv

\* Storing at the joiner.
LEMMA JPersistConsent ==
    ASSUME Typed, scene' = scene, ConsentInv, NEW j \in Joiners, NEW t \in jTasks[j],
           JPersist(j, t)
    PROVE  ConsentInv'
<1> USE DEF JPersist, ConsentInv
<1>1. j \in approved
  BY DEF Consented
<1>2. ASSUME NEW k \in Joiners, NEW u \in jTasks'[k]
      PROVE  u \in jTasks[k] \/ (k = j /\ u.kind = "accept" /\ u.step = "ack")
  <2>1. [t EXCEPT !.step = "ack"].kind = t.kind /\ [t EXCEPT !.step = "ack"].step = "ack"
    BY DEF Typed, JoinerTypes
  <2>2. t.kind = "accept"
    BY DEF Consented
  <2>3. QED
    BY <2>1, <2>2 DEF Typed, JoinerTypes
<1>3. \A k \in Joiners : jSaved'[k] => k \in approved
  BY <1>1 DEF Consented, Typed, JoinerTypes
<1>4. Consented'
  BY <1>1, <1>2, <1>3 DEF Consented, Settled, GroupInvite, cVars, net
<1>5. OneVoice'
  BY SameNetQuiet, QuietVoice DEF cVars
<1>6. FreshAnswers'
  <2>1. ASSUME NEW k \in Joiners
        PROVE  (Answering(k)' => Answering(k)) /\ (Asking(k)' => Asking(k))
    BY <1>2 DEF Answering, Asking, cVars, net
  <2>2. QED
    BY <2>1 DEF FreshAnswers, Accepting, cVars
<1>7. QED
  BY <1>4, <1>5, <1>6

\* Acknowledging at the joiner, which settles it.
LEMMA JAckConsent ==
    ASSUME Typed, scene' = scene, ConsentInv, NEW j \in Joiners, NEW t \in jTasks[j], JAck(j, t)
    PROVE  ConsentInv'
<1> DEFINE msg == [kind |-> "ack", req |-> j, n |-> t.n]
<1>1. KeepsSettled /\ Settled(j)'
  BY DEF JAck, KeepsSettled, Settled, Typed, JoinerTypes
<1>2. /\ Shrinks(jTasks) /\ pipe[j] /\ pipe' = pipe /\ toJ' = toJ
      /\ \A k \in Joiners : toC'[k] \subseteq toC[k] \cup (IF k = j THEN {msg} ELSE {})
  BY DEF JAck, JCanSend, Shrinks, Typed, JoinerTypes, NetTypes
<1>3. UNCHANGED <<cVars, jOpen, jSend, jSaved>>
  BY DEF JAck
<1>4. Consented'
  <2>1. ASSUME NEW k \in Joiners, NEW m \in toC'[k], m.kind = "ack"
        PROVE  Settled(m.req)'
    <3>1. m \in toC[k] \/ m.req = j
      BY <1>2
    <3>2. m \in toC[k] => m.req \in Joiners
      BY DEF Typed, NetTypes
    <3>3. QED
      BY <1>1, <2>1, <3>1, <3>2 DEF ConsentInv, Consented, KeepsSettled
  <2>2. \A m \in cInbox : m.kind = "ack" => Settled(m.req)'
    BY <1>1 DEF ConsentInv, Consented, KeepsSettled, Typed, CreatorTypes
  <2>3. \A k \in cSaved \cup cSaving : k \in approved /\ (~GroupInvite => Settled(k)')
    BY <1>1 DEF ConsentInv, Consented, KeepsSettled, Typed, CreatorTypes
  <2>4. QED
    BY <1>2, <1>3, <2>1, <2>2, <2>3 DEF ConsentInv, Consented, Shrinks, GroupInvite, cVars
<1>5. OneVoice'
  BY <1>2, <1>3 DEF ConsentInv, OneVoice, cVars
<1>6. FreshAnswers'
  <2>1. ASSUME NEW k \in Joiners \ approved, Answering(k)'
        PROVE  Answering(k)
    <3>1. CASE k = j
      BY <3>1 DEF Answering, ConsentInv, Consented, Typed, JoinerTypes, Decision
    <3>2. CASE k # j
      BY <1>2, <1>3, <2>1, <3>2 DEF Answering, Shrinks, cVars
    <3>3. QED
      BY <3>1, <3>2
  <2>2. ASSUME NEW k \in Joiners
        PROVE  Asking(k)' => Asking(k)
    BY <1>2, <1>3 DEF Asking, cVars
  <2>3. QED
    BY <1>3, <2>1, <2>2 DEF ConsentInv, FreshAnswers, Accepting, cVars
<1>7. QED
  BY <1>4, <1>5, <1>6 DEF ConsentInv

-----------------------------------------------------------------------------
\* Every step of an invite keeps the invariant.
LEMMA ConsentStep ==
    ASSUME TypeOK, ConsentInv, [Next]_vars
    PROVE  ConsentInv'
<1>0. Typed /\ scene' = scene
  BY TypeStep DEF TypeOK
<1>1. CASE UNCHANGED vars
  <2>1. Quiet
    BY <1>0, <1>1, SameNetQuiet DEF vars, moves, cVars
  <2>2. Frame
    BY <1>1, <2>1 DEF vars, moves, cVars, jVars, Frame, Shrinks, KeepsSettled, Settled
  <2>3. QED
    BY <1>0, <2>2, FrameConsent
<1>2. CASE Next
  <2>1. OneVoice
    BY DEF ConsentInv
  <2>2. QED
    BY <1>0, <1>2, <2>1, NextCases, FrameConsent, CreatorFrames, JoinerFrames, LinkUpConsent,
       ArriveConsent, DecideConsent, CommitConsent, SendConsent, ReceiveAckConsent,
       ReceiveRequestConsent, PersistConsent, SendRequestConsent, JReceiveConsent,
       JPersistConsent, JAckConsent
<1>3. QED
  BY <1>1, <1>2

\* Whoever the creator stores was accepted by its user, and in a friend invite has
\* settled a decision of that request itself; whoever stores the creator was
\* accepted: for any number of joiner sessions, decisions, lost channels, replaced
\* candidates, timeouts and retries, with a group's membership commit in flight.
THEOREM Consent == Spec => []MutualConsent
<1>1. Init => TypeOK /\ ConsentInv
  <2> SUFFICES ASSUME Init PROVE ConsentInv
    BY InviteTypingInit
  <2>1. cOp.step = "none" /\ cInbox = {} /\ cSaved = {} /\ cSaving = {}
    BY DEF Init, NoOp
  <2>2. Consented
    BY <2>1 DEF Init, Consented
  <2>3. OneVoice
    BY <2>1 DEF Init, OneVoice
  <2>4. FreshAnswers
    BY <2>1 DEF Init, FreshAnswers, Answering
  <2>5. QED
    BY <2>2, <2>3, <2>4 DEF ConsentInv
<1>2. TypeOK /\ ConsentInv /\ [Next]_vars => (TypeOK /\ ConsentInv)'
  BY TypeStep, ConsentStep
<1>3. TypeOK /\ ConsentInv => MutualConsent
  BY DEF ConsentInv, Consented, MutualConsent, Settled
<1>4. QED
  BY <1>1, <1>2, <1>3, PTL DEF Spec

-----------------------------------------------------------------------------
(* What is shown as accepted is stored.                                     *)

\* The strengthening of AcceptedIsPersisted that is inductive: the commit of a group
\* member leaves a bond behind, and a joiner acknowledges an accept it has stored.
PersistInv ==
    /\ AcceptedIsPersisted
    /\ cCommitted # NoPeer => cSaved # {}
    /\ \A j \in Joiners : \A t \in jTasks[j] :
           t.step = "ack" /\ t.kind = "accept" => jSaved[j]

\* No step of the creator shows accepted without a bond.
LEMMA CreatorPersists ==
    ASSUME Typed, PersistInv, CreatorStep
    PROVE  PersistInv'
<1>1. UNCHANGED jVars
  BY DEF CreatorStep, CConsider, CAcceptCandidate, CArrive, COpen, CFailCandidate, CExpire,
         CCancel, CUnmount, CEnd, CDecide, CDecisionTimeout, CCommit, CCommitFails, CSend,
         CSendFails, CReceive, CReceiveAck, CReceiveRequest, CReceiveIgnored, CPersistence,
         CPersist, CPersistFails, CCleanupEnd, CGraceEnd
<1>2. cSaved \subseteq cSaved' /\ (cStatus' = "accepted" => cSaved' # {})
      /\ (cCommitted' # NoPeer => cSaved' # {})
  <2>1. CASE \E j \in Joiners : CConsider(j) \/ CAcceptCandidate(j) \/ CArrive(j)
    BY <2>1 DEF CConsider, CAcceptCandidate, CArrive, PersistInv, AcceptedIsPersisted
  <2>2. CASE COpen \/ CFailCandidate \/ CExpire \/ CCancel \/ CUnmount
    BY <2>2 DEF COpen, CFailCandidate, CExpire, CCancel, CUnmount, CEnd, PersistInv,
                AcceptedIsPersisted
  <2>3. ASSUME NEW d \in Decision, CDecide(d)
        PROVE  /\ cSaved' = cSaved /\ cCommitted' = cCommitted
               /\ cStatus' = "accepted" => cStatus = "accepted"
    BY <2>3 DEF CDecide, Confirming
  <2>4. CASE CDecisionTimeout \/ CCommitFails \/ CSend \/ CSendFails
    BY <2>4 DEF CDecisionTimeout, CCommitFails, CSend, CSendFails, PersistInv,
                AcceptedIsPersisted
  <2>5. CASE CCommit
    BY <2>5 DEF CCommit, Confirming
  <2>6. ASSUME NEW m \in cInbox, CReceiveAck(m)
        PROVE  /\ cSaved' = cSaved /\ cCommitted' = cCommitted
               /\ cStatus' = "accepted" => cStatus = "accepted" \/ cCommitted # NoPeer
    BY <2>6, InviteAssumption DEF CReceiveAck, CFinish, Typed, CreatorTypes
  <2>7. ASSUME NEW m \in cInbox, CReceiveRequest(m) \/ CReceiveIgnored(m)
        PROVE  /\ cSaved' = cSaved /\ cCommitted' = cCommitted
               /\ cStatus' = "accepted" => cStatus = "accepted"
    BY <2>7 DEF CReceiveRequest, CReceiveIgnored
  <2>8. ASSUME NEW j \in Joiners, CPersist(j) \/ CPersistFails(j)
        PROVE  /\ cSaved \subseteq cSaved' /\ cCommitted' = cCommitted
               /\ cStatus' = "accepted" => cStatus = "accepted" \/ cSaved' # {}
    BY <2>8 DEF CPersist, CPersistFails, CFinish
  <2>9. CASE CCleanupEnd \/ CGraceEnd
    BY <2>9 DEF CCleanupEnd, CGraceEnd, PersistInv, AcceptedIsPersisted
  <2>10. QED
    BY <2>1, <2>2, <2>3, <2>4, <2>5, <2>6, <2>7, <2>8, <2>9
       DEF CreatorStep, CReceive, CPersistence, PersistInv, AcceptedIsPersisted
<1>3. QED
  BY <1>1, <1>2 DEF PersistInv, AcceptedIsPersisted, jVars

\* The network and the joiners leave the creator's fields alone.
LEMMA JoinersApart ==
    ASSUME NEW j \in Joiners, LinkUp(j) \/ LinkDown(j) \/ JoinerStep(j)
    PROVE  UNCHANGED cVars
<1>1. CASE LinkUp(j) \/ LinkDown(j) \/ JStart(j) \/ JOpen(j) \/ JReceive(j)
  BY <1>1 DEF LinkUp, LinkDown, JStart, JOpen, JReceive
<1>2. CASE \E p \in Joiners \cup {Creator} : JConsider(j, p)
  BY <1>2 DEF JConsider
<1>3. CASE JFail(j) \/ JExpire(j) \/ JCancel(j) \/ JUnmount(j) \/ JGraceEnd(j) \/ JCleanupEnd(j)
  BY <1>3 DEF JFail, JExpire, JCancel, JEnd, JUnmount, JGraceEnd, JCleanupEnd
<1>4. CASE JSendRequest(j) \/ JTaskStep(j)
  BY <1>4 DEF JSendRequest, JTaskStep, JPersist, JPersistFails, JAck, JAckFails
<1>5. QED
  BY <1>1, <1>2, <1>3, <1>4 DEF JoinerStep

\* Nor does a joiner.
LEMMA JoinerPersists ==
    ASSUME Typed, PersistInv, NEW j \in Joiners, LinkUp(j) \/ LinkDown(j) \/ JoinerStep(j)
    PROVE  PersistInv'
<1>1. UNCHANGED <<cStatus, cSaved, cCommitted>>
  BY JoinersApart DEF cVars
<1> DEFINE Kept == /\ \A k \in Joiners : jStatus'[k] = "accepted" => jStatus[k] = "accepted"
                   /\ Shrinks(jTasks) /\ UNCHANGED jSaved
<1>2. Kept => PersistInv'
  BY <1>1 DEF PersistInv, AcceptedIsPersisted, Shrinks
<1>3. CASE LinkUp(j) \/ LinkDown(j) \/ JStart(j) \/ JOpen(j) \/ JGraceEnd(j) \/ JCleanupEnd(j)
           \/ JUnmount(j) \/ \E p \in Joiners \cup {Creator} : JConsider(j, p)
  <2>1. Kept
    BY <1>3 DEF LinkUp, LinkDown, JStart, JOpen, JGraceEnd, JCleanupEnd, JUnmount, JConsider,
                jVars, Shrinks, Typed, JoinerTypes
  <2>2. QED
    BY <1>2, <2>1
<1>4. CASE JFail(j) \/ JExpire(j) \/ JCancel(j)
  <2>1. Kept
    BY <1>4 DEF JFail, JExpire, JCancel, JEnd, Shrinks, Typed, JoinerTypes
  <2>2. QED
    BY <1>2, <2>1
<1>5. CASE JSendRequest(j)
  <2>1. Kept
    BY <1>5 DEF JSendRequest, JFailCurrent, Shrinks, Typed, JoinerTypes
  <2>2. QED
    BY <1>2, <2>1
<1>6. ASSUME NEW t \in jTasks[j], JPersistFails(j, t) \/ JAckFails(j, t)
      PROVE  PersistInv'
  <2>1. Kept
    BY <1>6 DEF JPersistFails, JAckFails, JFailCurrent, Shrinks, Typed, JoinerTypes
  <2>2. QED
    BY <1>2, <2>1
<1>7. CASE JReceive(j)
  <2>1. ASSUME NEW k \in Joiners, NEW t \in jTasks'[k]
        PROVE  t \in jTasks[k] \/ (t.step = "ack" => t.kind # "accept")
    BY <1>7 DEF JReceive, Typed, JoinerTypes
  <2>2. QED
    BY <1>1, <1>7, <2>1 DEF JReceive, PersistInv, AcceptedIsPersisted
<1>8. ASSUME NEW t \in jTasks[j], JPersist(j, t)
      PROVE  PersistInv'
  <2>1. jSaved'[j] /\ \A k \in Joiners : jSaved[k] => jSaved'[k]
    BY <1>8 DEF JPersist, Typed, JoinerTypes
  <2>2. \A k \in Joiners : k # j => jTasks'[k] = jTasks[k]
    BY <1>8 DEF JPersist, Typed, JoinerTypes
  <2>3. QED
    BY <1>1, <1>8, <2>1, <2>2 DEF JPersist, PersistInv, AcceptedIsPersisted
<1>9. ASSUME NEW t \in jTasks[j], JAck(j, t)
      PROVE  PersistInv'
  <2>1. /\ \A k \in Joiners : jStatus'[k] = "accepted" => jStatus[k] = "accepted" \/ jSaved[k]
        /\ Shrinks(jTasks) /\ UNCHANGED jSaved
    BY <1>9 DEF JAck, Shrinks, PersistInv, Typed, JoinerTypes
  <2>2. QED
    BY <1>1, <2>1 DEF PersistInv, AcceptedIsPersisted, Shrinks
<1>10. QED
  BY <1>3, <1>4, <1>5, <1>6, <1>7, <1>8, <1>9 DEF JoinerStep, JTaskStep

\* Whoever shows accepted has stored the bond, whatever was lost, retried or awaited
\* between the decision and its acknowledgement.
THEOREM AcceptedMeansStored == Spec => []AcceptedIsPersisted
<1>1. Init => TypeOK /\ PersistInv
  <2> SUFFICES ASSUME Init PROVE PersistInv
    BY InviteTypingInit
  <2>1. QED
    BY DEF Init, PersistInv, AcceptedIsPersisted
<1>2. TypeOK /\ PersistInv /\ [Next]_vars => (TypeOK /\ PersistInv)'
  <2> SUFFICES ASSUME TypeOK, PersistInv, [Next]_vars PROVE PersistInv'
    BY TypeStep
  <2>1. CASE UNCHANGED vars
    BY <2>1 DEF vars, moves, cVars, jVars, PersistInv, AcceptedIsPersisted
  <2>2. CASE Next
    BY <2>2, CreatorPersists, JoinerPersists DEF Next, TypeOK
  <2>3. QED
    BY <2>1, <2>2
<1>3. PersistInv => AcceptedIsPersisted
  BY DEF PersistInv
<1>4. QED
  BY <1>1, <1>2, <1>3, PTL DEF Spec

-----------------------------------------------------------------------------
\* A creator session that ended stays ended: of all the continuations that settle late,
\* only a membership commit in flight can put it back into confirming.
THEOREM EndIsFinal == Spec => EndedStaysEnded
<1> DEFINE Final == isTerminalStatus(cStatus) /\ ~isTerminalStatus(cStatus')
                        => cOp.step = "commit"
<1>1. [Next]_vars => Final
  <2> SUFFICES ASSUME [Next]_vars, isTerminalStatus(cStatus), ~isTerminalStatus(cStatus')
               PROVE  cOp.step = "commit"
    OBVIOUS
  <2>1. ~UNCHANGED cStatus
    OBVIOUS
  <2>2. CreatorStep
    BY <2>1, JoinersApart DEF Next, vars, moves, cVars
  <2>3. CASE \E j \in Joiners : CConsider(j) \/ CAcceptCandidate(j) \/ CArrive(j)
    BY <2>3 DEF CConsider, CAcceptCandidate, CArrive
  <2>4. CASE COpen \/ CFailCandidate \/ CExpire \/ CCancel \/ CUnmount
    BY <2>4 DEF COpen, CFailCandidate, CExpire, CCancel, CUnmount, CEnd
  <2>5. CASE \E d \in Decision : CDecide(d)
    BY <2>5 DEF CDecide
  <2>6. CASE CDecisionTimeout \/ CCommitFails \/ CSend \/ CSendFails
    BY <2>6 DEF CDecisionTimeout, CCommitFails, CSend, CSendFails
  <2>7. CASE CCommit
    BY <2>7 DEF CCommit
  <2>8. CASE CReceive
    BY <2>8 DEF CReceive, CReceiveAck, CReceiveRequest, CReceiveIgnored
  <2>9. CASE CPersistence
    BY <2>9 DEF CPersistence, CPersist, CPersistFails, CFinish
  <2>10. CASE CCleanupEnd \/ CGraceEnd
    BY <2>10 DEF CCleanupEnd, CGraceEnd
  <2>11. QED
    BY <2>2, <2>3, <2>4, <2>5, <2>6, <2>7, <2>8, <2>9, <2>10 DEF CreatorStep
<1>2. QED
  BY <1>1, PTL DEF Spec, EndedStaysEnded

=============================================================================
