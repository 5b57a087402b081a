--------------------------- MODULE TransferProofs ---------------------------
(***************************************************************************)
(* That Transfer implements Delivery, for any file, any number of          *)
(* transfers and any interventions.  The inductive invariant TInv says     *)
(* what S may have been told (ToldInv), that a chunk is written only after *)
(* its hash was checked (WriteInv) and that content found intact stays so  *)
(* until complete takes note of it (IntactInv), although cancellations,    *)
(* late messages and other transfers of the attachment come in between.    *)
(* And that R's disk stays accounted for: DiskInv gives every entry, record*)
(* and message its type and a transfer that was offered, and says with     *)
(* Covered what each kept chunk is kept for.                               *)
(***************************************************************************)
EXTENDS Transfer, SequenceTheorems, FiniteSetTheorems, WellFoundedInduction, TLAPS

(* Chunk hashes are checked as a chunk arrives, or the storage keeps the  *)
(* chunks of each transfer apart.                                         *)
HashedChunks == setup.desktop \/ setup.hashes

(* What R may have told S and S has not heard.                            *)
Said(s) == {s[k] : k \in DOMAIN s}
ToldInv == toS \in Seq(Said(toS)) /\ \A m \in Said(toS) : m.type = "complete" => m.id \in verified

(* A transfer has its fields and no other, and the storage its types.     *)
Whole(t) == t = [state |-> t.state, received |-> t.received, known |-> t.known,
                 missing |-> t.missing, auto |-> t.auto, tell |-> t.tell]
ReceiverInv ==
    /\ setup \in Setups /\ verified \subseteq Ids /\ final \subseteq Ids
    /\ DOMAIN rcv = Ids /\ DOMAIN completing = Ids /\ rcv = [i \in Ids |-> rcv[i]] /\ completing = [i \in Ids |-> completing[i]]
    /\ \A i \in Ids : \A t \in rcv[i] : Whole(t)
    /\ DOMAIN records = 0..MaxTransfers /\ records = [i \in 0..MaxTransfers |-> records[i]]
    /\ store \in [Ids -> [Chunks -> {"no", "good", "bad"}]]

(* A chunk is written only after its hash was checked, where there is one. *)
WriteInv ==
    \A w \in writes : /\ w = [id |-> w.id, chunk |-> w.chunk, bad |-> w.bad, step |-> w.step]
                      /\ w.step = "write" /\ setup.hashes => w.bad # TRUE

(* Content found intact stays so until complete takes note of it.         *)
Secure(i) ==
    IF setup.desktop THEN i \in final
    ELSE records[i] # "none" /\ \A c \in Chunks : store[1][c] = "good"
IntactInv ==
    \A i \in Ids : completing[i] = "intact" /\ (\E t \in rcv[i] : t.state = "verifying") => Secure(i)

TInv == HashedChunks /\ ReceiverInv /\ ToldInv /\ WriteInv /\ IntactInv

---------------------------------------------------------------------------
\* A sequence is one of what it holds.
LEMMA Narrow ==
    ASSUME NEW S, NEW s \in Seq(S)
    PROVE  s \in Seq(Said(s))
<1>1. PICK n \in Nat : s \in [1..n -> S]
  BY SeqDef
<1>2. s \in [1..n -> Said(s)]
  BY <1>1 DEF Said
<1>3. QED
  BY <1>1, <1>2, SeqDef

LEMMA AppendSaid ==
    ASSUME NEW s, s \in Seq(Said(s)), NEW e
    PROVE  Append(s, e) \in Seq(Said(Append(s, e))) /\ Said(Append(s, e)) \subseteq Said(s) \cup {e}
<1> DEFINE S == Said(s) \cup {e}
<1>1. s \in Seq(S) /\ e \in S
  OBVIOUS
<1> HIDE DEF S
<1>2. Append(s, e) \in Seq(S)
  BY <1>1
<1>3. \A k \in DOMAIN Append(s, e) : Append(s, e)[k] \in S
  BY <1>2
<1>4. Append(s, e) \in Seq(Said(Append(s, e)))
  BY <1>2, Narrow
<1>5. QED
  BY <1>3, <1>4 DEF Said, S

LEMMA TailSaid ==
    ASSUME NEW s, s \in Seq(Said(s)), s # <<>>
    PROVE  Head(s) \in Said(s) /\ Tail(s) \in Seq(Said(Tail(s))) /\ Said(Tail(s)) \subseteq Said(s)
<1> DEFINE S == Said(s)
<1>0. s \in Seq(S)
  OBVIOUS
<1> HIDE DEF S
<1>1. Head(s) \in S /\ Tail(s) \in Seq(S)
  BY <1>0
<1>2. \A k \in DOMAIN Tail(s) : Tail(s)[k] \in S
  BY <1>1
<1>3. Tail(s) \in Seq(Said(Tail(s)))
  BY <1>1, Narrow
<1>4. QED
  BY <1>1, <1>2, <1>3 DEF Said, S

LEMMA NothingSaid == <<>> \in Seq(Said(<<>>)) /\ Said(<<>>) = {}
BY DEF Said

LEMMA Types == (\A t, i : Message(t, i).type = t /\ Message(t, i).id = i) /\ (\A i, missing : Need(i, missing).type = "need")
BY DEF Message, Need

\* A message that reports no completion leaves what S was told true.
LEMMA ToldMore ==
    ASSUME ToldInv, verified \subseteq verified', NEW m, toS' \in {toS, Append(toS, m)},
           m.type = "complete" => m.id \in verified'
    PROVE  ToldInv'
<1>1. toS' = toS => ToldInv'
  BY DEF ToldInv
<1>2. toS' = Append(toS, m) => ToldInv'
  BY AppendSaid DEF ToldInv
<1>3. QED
  BY <1>1, <1>2

LEMMA ToldLess ==
    ASSUME ToldInv, verified \subseteq verified', toS' = toS \/ toS' = <<>> \/ (toS # <<>> /\ toS' = Tail(toS))
    PROVE  ToldInv'
<1>1. toS # <<>> /\ toS' = Tail(toS) => ToldInv'
  BY TailSaid DEF ToldInv
<1>2. toS' = <<>> => ToldInv'
  BY NothingSaid DEF ToldInv
<1>3. QED
  BY <1>1, <1>2 DEF ToldInv

\* No step tells S of a completion but the one that verified the content.
LEMMA ToldStep ==
    ASSUME ReceiverInv, ToldInv, [Next]_vars
    PROVE  ToldInv'
<1>1. CASE UNCHANGED <<toS, verified>>
  BY <1>1, ToldLess
<1>2. CASE SenderControl
  BY <1>2, ToldLess DEF SenderControl, memory
<1>3. CASE ReceiverControl
  <2>1. verified' = verified
    BY <1>3 DEF ReceiverControl, ReceiveOffer, memory
  <2>2. \E m : m.type # "complete" /\ toS' \in {toS, Append(toS, m)}
    <3> DEFINE i == Head(toR).id
    <3>1. CASE toS' = toS
      <4>1. Message("want", 0).type # "complete"
        BY DEF Message
      <4>2. QED
        BY <3>1, <4>1
    <3>2. CASE Head(toR).type \in {"offer", "manifest"}
      <4>1. ReceiveOffer(i)
        BY <1>3, <3>2 DEF ReceiverControl
      <4>2. toS' = toS \/ \E j : SendToS(Message("reject", j))
        BY <4>1 DEF ReceiveOffer
      <4>3. QED
        BY <3>1, <4>2 DEF SendToS, Message
    <3>3. CASE Head(toR).type = "listed"
      BY <1>3, <3>1, <3>3 DEF ReceiverControl, AcceptSyncManifest, SendToS, Message
    <3>4. CASE Head(toR).type \notin {"offer", "manifest", "listed"}
      BY <1>3, <3>1, <3>4 DEF ReceiverControl
    <3>5. QED
      BY <3>1, <3>2, <3>3, <3>4
  <2>3. QED
    BY <2>1, <2>2, ToldMore
<1>4. ASSUME NEW i \in Ids, AcceptPrepared(i) PROVE ToldInv'
  BY <1>4, <1>1, ToldMore DEF AcceptPrepared, SendToS, Message
<1>5. ASSUME NEW i \in Ids, AcceptListed(i) PROVE ToldInv'
  <2>1. verified' = verified /\ \E m \in {Message("accept", i), Need(i, MissingChunks(i))} : SendToS(m)
    BY <1>5 DEF AcceptListed
  <2>2. QED
    BY <2>1, Types, ToldMore DEF SendToS
<1>6. ASSUME NEW w \in writes, ChunkVerified(w) PROVE ToldInv'
  BY <1>6, <1>1, ToldMore DEF ChunkVerified, SendToS, Need
<1>7. ASSUME NEW i \in Ids, CompleteChecked(i) PROVE ToldInv'
  <2>1. verified' = verified
    BY <1>7 DEF CompleteChecked
  <2>2. toS' = toS \/ \E missing : SendToS(Need(i, missing))
    BY <1>7 DEF CompleteChecked
  <2>3. QED
    BY <1>1, <2>1, <2>2, Types, ToldMore DEF SendToS
<1>8. ASSUME NEW i \in Ids, Finalized(i) PROVE ToldInv'
  <2>1. CASE UNCHANGED <<verified, toS>>
    BY <1>1, <2>1
  <2>2. CASE verified' = verified \cup {i} /\ SendToS(Message("complete", i))
    BY <2>2, ToldMore DEF SendToS, Message
  <2>3. CASE verified' = verified /\ SendToS(Message("error", i))
    BY <2>3, ToldMore DEF SendToS, Message
  <2>4. QED
    BY <1>8, <2>1, <2>2, <2>3 DEF Finalized
<1>9. ASSUME NEW i \in Ids, CancelEnds(i) PROVE ToldInv'
  BY <1>9, <1>1, ToldMore DEF CancelEnds, SendToS, Message
<1>10. ASSUME NEW j \in DOMAIN records, Request(j) PROVE ToldInv'
  BY <1>10, <1>1, ToldMore DEF Request, SendToS, Message
<1>11. ASSUME NEW i \in Ids, PauseAtR(i) \/ ResumeAtR(i) PROVE ToldInv'
  BY <1>11, ToldMore DEF PauseAtR, ResumeAtR, SendToS, Message
<1>12. CASE Reconnect
  <2> DEFINE s == Append(<<>>, Message("hello", 0))
  <2>1. toS' = s
    BY <1>12 DEF Reconnect
  <2>2. s \in Seq(Said(s)) /\ Said(s) \subseteq {Message("hello", 0)}
    BY NothingSaid, AppendSaid
  <2> HIDE DEF s
  <2>3. QED
    BY <2>1, <2>2, Types DEF ToldInv
<1>13. CASE Break \/ RestartR \/ RestartS
  BY <1>13, ToldLess DEF Break, RestartR, RestartS, Drop, memory
<1>14. CASE SendFile \/ ReceiveChunk \/ \E c \in Chunks : SourceChanges(c)
  BY <1>14, <1>1 DEF SendFile, ReceiveChunk, SourceChanges, memory, net
<1>15. ASSUME NEW i \in Ids, SenderStep(i) PROVE ToldInv'
  BY <1>15, <1>1 DEF SenderStep, TakeChunk, SendChunk, RunCancelled, RunCompletes, RunFails, memory, net
<1>16. ASSUME NEW i \in Ids, AcceptFails(i) \/ Finalize(i) \/ CancelAtR(i) PROVE ToldInv'
  BY <1>16, <1>1 DEF AcceptFails, Finalize, CancelAtR, net
<1>17. ASSUME NEW i \in Ids, PauseAtS(i) \/ ResumeAtS(i) \/ CancelAtS(i) PROVE ToldInv'
  BY <1>17, <1>1 DEF PauseAtS, ResumeAtS, CancelAtS, memory
<1>18. ASSUME NEW w \in writes, ChunkWritten(w) PROVE ToldInv'
  BY <1>18, <1>1 DEF ChunkWritten, net
<1>19. CASE UNCHANGED vars
  BY <1>19, <1>1 DEF vars, memory, net
<1>20. QED
  BY <1>2, <1>3, <1>4, <1>5, <1>6, <1>7, <1>8, <1>9, <1>10, <1>11, <1>12, <1>13, <1>14, <1>15, <1>16, <1>17, <1>18, <1>19
     DEF Next, ReceiverStep, UserStep

\* A chunk that does not match its hash is asked for again and not written.
LEMMA WriteStep ==
    ASSUME WriteInv, [Next]_vars
    PROVE  WriteInv'
<1>1. CASE writes' \subseteq writes /\ setup' = setup
  BY <1>1 DEF WriteInv
<1>2. CASE ReceiveChunk
  <2> DEFINE f == Head(data)
             w == [id |-> f.id, chunk |-> f.chunk, bad |-> f.bad, step |-> "verify"]
  <2>1. setup' = setup /\ writes' \in {writes, writes \cup {w}}
    BY <1>2 DEF ReceiveChunk
  <2>2. w = [id |-> w.id, chunk |-> w.chunk, bad |-> w.bad, step |-> w.step] /\ w.step # "write"
    OBVIOUS
  <2> HIDE DEF w
  <2>3. QED
    BY <2>1, <2>2 DEF WriteInv
<1>3. ASSUME NEW w \in writes, ChunkVerified(w) PROVE WriteInv'
  <2>0. setup' = setup
    BY <1>3 DEF ChunkVerified
  <2>1. CASE writes' = (writes \ {w}) \cup {[w EXCEPT !.step = "write"]} /\ ~(w.bad /\ setup.hashes)
    <3>1. w = [id |-> w.id, chunk |-> w.chunk, bad |-> w.bad, step |-> w.step]
      BY DEF WriteInv
    <3> DEFINE v == [id |-> w.id, chunk |-> w.chunk, bad |-> w.bad, step |-> "write"]
    <3>2. [w EXCEPT !.step = "write"] = v
      BY <3>1
    <3>3. v = [id |-> v.id, chunk |-> v.chunk, bad |-> v.bad, step |-> v.step] /\ v.bad = w.bad
      OBVIOUS
    <3> HIDE DEF v
    <3>4. setup.hashes => w.bad # TRUE
      BY <2>1
    <3>5. QED
      BY <2>0, <2>1, <3>2, <3>3, <3>4 DEF WriteInv
  <2>2. QED
    BY <1>1, <1>3, <2>0, <2>1 DEF ChunkVerified
<1>4. ASSUME NEW w \in writes, ChunkWritten(w) PROVE WriteInv'
  BY <1>1, <1>4 DEF ChunkWritten
<1>5. CASE SendFile \/ SenderControl \/ Break \/ Reconnect \/ RestartR \/ RestartS \/ \E c \in Chunks : SourceChanges(c)
  BY <1>1, <1>5 DEF SendFile, SenderControl, Break, Reconnect, RestartR, RestartS, SourceChanges, memory
<1>6. CASE ReceiverControl
  BY <1>1, <1>6 DEF ReceiverControl, ReceiveOffer, memory
<1>7. ASSUME NEW i \in Ids, SenderStep(i) PROVE WriteInv'
  BY <1>1, <1>7 DEF SenderStep, TakeChunk, SendChunk, RunCancelled, RunCompletes, RunFails, memory
<1>8. ASSUME NEW i \in Ids, ReceiverStep(i) PROVE WriteInv'
  BY <1>1, <1>8 DEF ReceiverStep, AcceptPrepared, AcceptListed, AcceptFails, CompleteChecked, Finalize, Finalized, CancelEnds
<1>9. ASSUME NEW i \in Ids, UserStep(i) PROVE WriteInv'
  BY <1>1, <1>9 DEF UserStep, PauseAtR, PauseAtS, ResumeAtR, ResumeAtS, CancelAtR, CancelAtS, memory
<1>10. ASSUME NEW j \in DOMAIN records, Request(j) PROVE WriteInv'
  BY <1>1, <1>10 DEF Request
<1>11. CASE UNCHANGED vars
  BY <1>1, <1>11 DEF vars, memory
<1>12. QED
  BY <1>2, <1>3, <1>4, <1>5, <1>6, <1>7, <1>8, <1>9, <1>10, <1>11 DEF Next

---------------------------------------------------------------------------
\* Of a set of numbers the least is chosen.
LEMMA LeastOf ==
    ASSUME NEW S \in SUBSET Nat, S # {}
    PROVE  (CHOOSE j \in S : \A k \in S : j <= k) \in S
<1> DEFINE R == {ss \in Nat \X Nat : ss[1] < ss[2]}
<1>1. OpToRel(<, Nat) = R
  BY DEF OpToRel
<1>2. IsWellFoundedOn(R, Nat)
  BY <1>1, NatLessThanWellFounded
<1>3. PICK x \in S : \A y \in S : <<y, x>> \notin R
  BY <1>2, WFMin
<1>4. ASSUME NEW y \in S PROVE x <= y
  <2>1. x \in Nat /\ y \in Nat /\ ~(y < x)
    BY <1>3
  <2> QED
    BY <2>1
<1> QED
  BY <1>4

\* The offer that makes room is one of those nobody accepted.
LEMMA OldestOffer ==
    ASSUME NEW S \in SUBSET Ids, S # {}
    PROVE  (CHOOSE j \in S : \A k \in S : j <= k) \in S
<1>1. S \in SUBSET Nat
  BY DEF Ids
<1>2. QED
  BY <1>1, LeastOf

\* A transfer that is known can be looked up.
LEMMA TransferOf ==
    ASSUME ReceiverInv, NEW i \in Ids, In(i)
    PROVE  T(i) \in rcv[i] /\ Whole(T(i))
BY DEF ReceiverInv, In, T

\* A transfer that is not being verified.
Shaped(t) == Whole(t) /\ t.state # "verifying"

\* A change of some fields leaves the others.
WithState(u, s) == [u EXCEPT !.state = s]
WithReceived(u, r) == [u EXCEPT !.received = r]
WithKnown(u, b) == [u EXCEPT !.known = b]
WithMissing(u, m) == [u EXCEPT !.missing = m]
WithTell(u, b) == [u EXCEPT !.tell = b]

LEMMA Fields ==
    ASSUME NEW u, Whole(u), NEW x
    PROVE  /\ Whole(WithState(u, x)) /\ WithState(u, x).state = x
           /\ Whole(WithReceived(u, x)) /\ WithReceived(u, x).state = u.state
           /\ Whole(WithKnown(u, x)) /\ WithKnown(u, x).state = u.state
           /\ Whole(WithMissing(u, x)) /\ WithMissing(u, x).state = u.state
           /\ Whole(WithTell(u, x)) /\ WithTell(u, x).state = u.state
<1>1. PICK st, re, kn, mi, au, te : u = [state |-> st, received |-> re, known |-> kn, missing |-> mi, auto |-> au, tell |-> te]
  BY DEF Whole
<1>2. Whole(WithState(u, x)) /\ WithState(u, x).state = x
  <2> DEFINE v == [state |-> x, received |-> re, known |-> kn, missing |-> mi, auto |-> au, tell |-> te]
  <2>1. WithState(u, x) = v
    BY <1>1 DEF WithState
  <2>2. Whole(v) /\ v.state = x /\ u.state = st
    BY <1>1 DEF Whole
  <2> HIDE DEF v
  <2>3. QED
    BY <2>1, <2>2
<1>3. Whole(WithReceived(u, x)) /\ WithReceived(u, x).state = u.state
  <2> DEFINE v == [state |-> st, received |-> x, known |-> kn, missing |-> mi, auto |-> au, tell |-> te]
  <2>1. WithReceived(u, x) = v
    BY <1>1 DEF WithReceived
  <2>2. Whole(v) /\ v.state = st /\ u.state = st
    BY <1>1 DEF Whole
  <2> HIDE DEF v
  <2>3. QED
    BY <2>1, <2>2
<1>4. Whole(WithKnown(u, x)) /\ WithKnown(u, x).state = u.state
  <2> DEFINE v == [state |-> st, received |-> re, known |-> x, missing |-> mi, auto |-> au, tell |-> te]
  <2>1. WithKnown(u, x) = v
    BY <1>1 DEF WithKnown
  <2>2. Whole(v) /\ v.state = st /\ u.state = st
    BY <1>1 DEF Whole
  <2> HIDE DEF v
  <2>3. QED
    BY <2>1, <2>2
<1>5. Whole(WithMissing(u, x)) /\ WithMissing(u, x).state = u.state
  <2> DEFINE v == [state |-> st, received |-> re, known |-> kn, missing |-> x, auto |-> au, tell |-> te]
  <2>1. WithMissing(u, x) = v
    BY <1>1 DEF WithMissing
  <2>2. Whole(v) /\ v.state = st /\ u.state = st
    BY <1>1 DEF Whole
  <2> HIDE DEF v
  <2>3. QED
    BY <2>1, <2>2
<1>6. Whole(WithTell(u, x)) /\ WithTell(u, x).state = u.state
  <2> DEFINE v == [state |-> st, received |-> re, known |-> kn, missing |-> mi, auto |-> au, tell |-> x]
  <2>1. WithTell(u, x) = v
    BY <1>1 DEF WithTell
  <2>2. Whole(v) /\ v.state = st /\ u.state = st
    BY <1>1 DEF Whole
  <2> HIDE DEF v
  <2>3. QED
    BY <2>1, <2>2
<1>7. QED
  BY <1>2, <1>3, <1>4, <1>5, <1>6

LEMMA Cancelling ==
    ASSUME NEW u, Whole(u), NEW b
    PROVE  Shaped([u EXCEPT !.state = "cancelled", !.tell = b])
<1>1. [u EXCEPT !.state = "cancelled", !.tell = b] = WithTell(WithState(u, "cancelled"), b)
  BY DEF WithTell, WithState
<1>2. Whole(WithState(u, "cancelled")) /\ WithState(u, "cancelled").state = "cancelled"
  BY Fields
<1>3. QED
  BY <1>1, <1>2, Fields DEF Shaped

LEMMA Listing ==
    ASSUME NEW u, Whole(u), NEW m
    PROVE  Shaped([u EXCEPT !.known = TRUE, !.missing = m, !.state = "transferring"])
<1>1. [u EXCEPT !.known = TRUE, !.missing = m, !.state = "transferring"]
        = WithState(WithMissing(WithKnown(u, TRUE), m), "transferring")
  BY DEF WithState, WithMissing, WithKnown
<1>2. Whole(WithKnown(u, TRUE)) /\ Whole(WithMissing(WithKnown(u, TRUE), m))
  BY Fields
<1> DEFINE v == WithMissing(WithKnown(u, TRUE), m)
<1>3. Whole(v)
  BY <1>2
<1> HIDE DEF v
<1>4. Shaped(WithState(v, "transferring"))
  BY <1>3, Fields DEF Shaped
<1>5. QED
  BY <1>1, <1>4 DEF v

LEMMA Stocking ==
    ASSUME NEW u, Whole(u), NEW r, NEW m, NEW s, s # "verifying"
    PROVE  Shaped([u EXCEPT !.received = r, !.missing = m, !.state = s])
<1>1. [u EXCEPT !.received = r, !.missing = m, !.state = s] = WithState(WithMissing(WithReceived(u, r), m), s)
  BY DEF WithState, WithMissing, WithReceived
<1>2. Whole(WithReceived(u, r)) /\ Whole(WithMissing(WithReceived(u, r), m))
  BY Fields
<1>3. QED
  BY <1>1, <1>2, Fields DEF Shaped

\* The transfers known after a step keep their fields, and none begins to be verified.
Tame == /\ rcv' = [k \in Ids |-> rcv'[k]]
        /\ \A k \in Ids : \A t \in rcv'[k] : Whole(t) /\ (t.state = "verifying" => \E u \in rcv[k] : u.state = "verifying")

LEMMA TameSame == ASSUME ReceiverInv, rcv' = rcv PROVE Tame
BY DEF Tame, ReceiverInv

LEMMA TameCleared ==
    ASSUME ReceiverInv, NEW i, rcv' = [rcv EXCEPT ![i] = {}]
    PROVE  Tame
BY DEF Tame, ReceiverInv

LEMMA TamePut ==
    ASSUME ReceiverInv, NEW i, NEW t, Put(i, t),
           i \in Ids => Whole(t) /\ (t.state = "verifying" => \E u \in rcv[i] : u.state = "verifying")
    PROVE  Tame
BY DEF Tame, ReceiverInv, Put

LEMMA TameState ==
    ASSUME ReceiverInv, NEW i, NEW s, s # "verifying", In(i), Put(i, [T(i) EXCEPT !.state = s])
    PROVE  Tame
<1> DEFINE t == [T(i) EXCEPT !.state = s]
<1>1. ASSUME i \in Ids PROVE Whole(t) /\ t.state # "verifying"
  BY <1>1, TransferOf DEF Whole
<1> HIDE DEF t
<1>2. Put(i, t)
  BY DEF t
<1>3. QED
  BY <1>1, <1>2, TamePut

LEMMA TameCancel ==
    ASSUME ReceiverInv, NEW i, NEW tell, In(i), BeginCancel(i, tell)
    PROVE  Tame
<1> DEFINE t == [T(i) EXCEPT !.state = "cancelled", !.tell = tell]
<1>1. ASSUME i \in Ids PROVE Shaped(t)
  <2>1. PICK u : u = T(i) /\ Whole(u)
    BY <1>1, TransferOf
  <2>2. Shaped([u EXCEPT !.state = "cancelled", !.tell = tell])
    BY <2>1, Cancelling
  <2>3. QED
    BY <2>1, <2>2
<1>2. Put(i, t)
  BY DEF BeginCancel
<1> HIDE DEF t
<1>3. QED
  BY <1>1, <1>2, TamePut DEF Shaped

LEMMA TameUpdate ==
    ASSUME ReceiverInv, NEW i, NEW s, s # "verifying", UpdateState(i, s)
    PROVE  Tame
BY TameSame, TameState DEF UpdateState

LEMMA TameOffer ==
    ASSUME ReceiverInv, NEW i, ReceiveOffer(i)
    PROVE  Tame
<1>1. \A auto : Whole(NewIncoming(auto)) /\ NewIncoming(auto).state # "verifying"
  BY DEF Whole, NewIncoming
<1>2. rcv' = rcv \/ \E out, auto : rcv' = [j \in Ids |-> IF j = i THEN {NewIncoming(auto)} ELSE IF j \in out THEN {} ELSE rcv[j]]
  <2> DEFINE auto == requested \/ ~setup.large
             Enter(out) == rcv' = [j \in Ids |-> IF j = i THEN {NewIncoming(auto)} ELSE IF j \in out THEN {} ELSE rcv[j]]
  <2>1. rcv' = rcv \/ Enter({}) \/ \E j : Enter({j})
    BY DEF ReceiveOffer, memory
  <2>2. \A out : Enter(out) => \E o, a : rcv' = [j \in Ids |-> IF j = i THEN {NewIncoming(a)} ELSE IF j \in o THEN {} ELSE rcv[j]]
    OBVIOUS
  <2> HIDE DEF auto, Enter
  <2>3. QED
    BY <2>1, <2>2
<1>3. ASSUME NEW out, NEW auto, rcv' = [j \in Ids |-> IF j = i THEN {NewIncoming(auto)} ELSE IF j \in out THEN {} ELSE rcv[j]]
      PROVE  Tame
  BY <1>1, <1>3 DEF Tame, ReceiverInv
<1>4. QED
  BY <1>2, <1>3, TameSame

LEMMA TameControl ==
    ASSUME ReceiverInv, ReceiverControl
    PROVE  Tame
<1> DEFINE m == Head(toR)
<1>1. CASE rcv' = rcv
  BY <1>1, TameSame
<1>2. CASE m.type \in {"offer", "manifest"}
  BY <1>2, TameOffer DEF ReceiverControl
<1>3. CASE m.type = "pause"
  BY <1>3, TameUpdate DEF ReceiverControl
<1>4. CASE m.type = "resume"
  BY <1>4, TameUpdate DEF ReceiverControl
<1>5. CASE m.type = "cancel" /\ In(m.id)
  BY <1>5, TameCancel DEF ReceiverControl
<1>6. QED
  BY <1>1, <1>2, <1>3, <1>4, <1>5 DEF ReceiverControl, memory

LEMMA TameAccept ==
    ASSUME ReceiverInv, NEW i \in Ids, AcceptPrepared(i) \/ AcceptListed(i)
    PROVE  Tame
<1>1. CASE rcv' = rcv \/ rcv' = [rcv EXCEPT ![i] = {}]
  BY <1>1, TameSame, TameCleared
<1>2. CASE rcv' = [rcv EXCEPT ![i] = {[t EXCEPT !.state = "accepted"] : t \in @}]
  <2> DEFINE New(t) == [t EXCEPT !.state = "accepted"]
  <2>1. ASSUME NEW t \in rcv[i] PROVE Shaped(New(t))
    <3>1. Whole(t)
      BY DEF ReceiverInv
    <3>2. Whole(New(t)) /\ New(t).state = "accepted"
      BY <3>1, Fields DEF WithState
    <3> HIDE DEF New
    <3>3. QED
      BY <3>2 DEF Shaped
  <2>2. rcv' = [rcv EXCEPT ![i] = {New(t) : t \in rcv[i]}]
    BY <1>2
  <2> HIDE DEF New
  <2>3. QED
    BY <2>1, <2>2 DEF Tame, ReceiverInv, Shaped
<1>3. CASE AcceptListed(i)
  <2> DEFINE New(t) == [t EXCEPT !.known = TRUE, !.missing = MissingChunks(i), !.state = "transferring"]
  <2>1. ASSUME NEW t \in rcv[i] PROVE Shaped(New(t))
    <3>1. Whole(t)
      BY DEF ReceiverInv
    <3>2. Shaped(New(t))
      BY <3>1, Listing
    <3>3. QED
      BY <3>2
  <2>2. rcv' = [rcv EXCEPT ![i] = {New(t) : t \in rcv[i]}]
    BY <1>3 DEF AcceptListed
  <2> HIDE DEF New
  <2>3. QED
    BY <2>1, <2>2 DEF Tame, ReceiverInv, Shaped
<1>4. QED
  BY <1>1, <1>2, <1>3 DEF AcceptPrepared

LEMMA TameChunks ==
    ASSUME ReceiverInv, NEW w \in writes, ChunkVerified(w) \/ ChunkWritten(w)
    PROVE  Tame
<1> DEFINE i == w.id
<1>1. CASE rcv' = rcv
  BY <1>1, TameSame
<1>2. CASE In(i) /\ Put(i, [T(i) EXCEPT !.received = @ \cup {w.chunk}])
  <2> DEFINE t == [T(i) EXCEPT !.received = @ \cup {w.chunk}]
  <2>1. ASSUME i \in Ids PROVE Whole(t) /\ t.state = T(i).state /\ T(i) \in rcv[i]
    BY <1>2, <2>1, TransferOf DEF Whole
  <2> HIDE DEF t
  <2>2. Put(i, t)
    BY <1>2 DEF t
  <2>3. QED
    BY <2>1, <2>2, TamePut
<1>3. CASE In(i) /\ Put(i, [T(i) EXCEPT !.received = @ \cup {w.chunk}, !.missing = @ \ {w.chunk}, !.state = StateAfterWrite(@)])
  <2> DEFINE t == [T(i) EXCEPT !.received = @ \cup {w.chunk}, !.missing = @ \ {w.chunk}, !.state = StateAfterWrite(@)]
  <2>1. ASSUME i \in Ids PROVE Whole(t) /\ t.state # "verifying"
    <3>1. PICK u : u = T(i) /\ Whole(u)
      BY <1>3, <2>1, TransferOf
    <3>2. Shaped([u EXCEPT !.received = u.received \cup {w.chunk}, !.missing = u.missing \ {w.chunk}, !.state = StateAfterWrite(u.state)])
      BY <3>1, Stocking DEF StateAfterWrite
    <3>3. QED
      BY <3>1, <3>2 DEF Shaped
  <2> HIDE DEF t
  <2>2. Put(i, t)
    BY <1>3 DEF t
  <2>3. QED
    BY <2>1, <2>2, TamePut
<1>4. QED
  <2>1. CASE ChunkVerified(w)
    BY <1>1, <1>2, <2>1 DEF ChunkVerified, IsReceiving
  <2>2. CASE ChunkWritten(w)
    BY <1>1, <1>3, <2>2 DEF ChunkWritten
  <2>3. QED
    BY <2>1, <2>2

LEMMA TameFinalized ==
    ASSUME ReceiverInv, NEW i \in Ids, Finalized(i)
    PROVE  Tame
<1>1. CASE rcv' = rcv \/ rcv' = [rcv EXCEPT ![i] = {}]
  BY <1>1, TameSame, TameCleared
<1>2. CASE In(i) /\ Put(i, [T(i) EXCEPT !.state = "failed"])
  BY <1>2, TameState
<1>3. QED
  BY <1>1, <1>2 DEF Finalized

\* Only complete begins to verify a transfer.
LEMMA TameStep ==
    ASSUME ReceiverInv, [Next]_vars
    PROVE  Tame \/ \E i \in Ids : CompleteChecked(i)
<1>1. CASE SendFile \/ SenderControl \/ ReceiveChunk \/ Break \/ Reconnect \/ RestartS \/ \E c \in Chunks : SourceChanges(c)
  BY <1>1, TameSame DEF SendFile, SenderControl, ReceiveChunk, Break, Reconnect, RestartS, SourceChanges, memory
<1>2. CASE RestartR
  BY <1>2 DEF RestartR, Tame
<1>3. ASSUME NEW i \in Ids, SenderStep(i) PROVE Tame
  BY <1>3, TameSame DEF SenderStep, TakeChunk, SendChunk, RunCancelled, RunCompletes, RunFails, memory
<1>4. ASSUME NEW i \in Ids, AcceptFails(i) \/ Finalize(i) \/ CancelEnds(i) PROVE Tame
  BY <1>4, TameSame, TameCleared DEF AcceptFails, Finalize, CancelEnds
<1>5. ASSUME NEW i \in Ids, PauseAtS(i) \/ ResumeAtS(i) \/ CancelAtS(i) PROVE Tame
  BY <1>5, TameSame DEF PauseAtS, ResumeAtS, CancelAtS, memory
<1>6. ASSUME NEW i \in Ids, PauseAtR(i) \/ ResumeAtR(i) PROVE Tame
  BY <1>6, TameUpdate DEF PauseAtR, ResumeAtR
<1>7. ASSUME NEW i \in Ids, CancelAtR(i) PROVE Tame
  BY <1>7, TameCancel DEF CancelAtR
<1>8. ASSUME NEW j \in DOMAIN records, Request(j) PROVE Tame
  BY <1>8, TameSame DEF Request
<1>9. CASE UNCHANGED vars
  BY <1>9, TameSame DEF vars, memory
<1>10. QED
  BY <1>1, <1>2, <1>3, <1>4, <1>5, <1>6, <1>7, <1>8, <1>9, TameControl, TameAccept, TameChunks, TameFinalized
     DEF Next, ReceiverStep, UserStep

---------------------------------------------------------------------------
\* A transfer that has ended cannot be found intact.
Ends(k) == rcv'[k] = {} \/ completing'[k] # "intact"
Forgets(i) == store' = Cleared(i) /\ (i \in Ids => UnderWay(i) /\ Ends(i))
Stores(w) == store' = Stored(w) /\ w.step = "write"
Moves(i) == setup.desktop /\ i \in Ids /\ completing[i] # "no" /\ store' = [store EXCEPT ![Key(i)] = NoChunks]

\* Chunks are stored by writes, and given up with what they were received for.
Stock ==
    /\ store' = store \/ (\E i : Forgets(i)) \/ (\E w \in writes : Stores(w)) \/ \E i : Moves(i)
    /\ records' = [k \in 0..MaxTransfers |-> records'[k]]
    /\ \A k \in Ids : records[k] # "none" /\ records'[k] = "none" => Ends(k)
    /\ final \subseteq final' /\ final' \subseteq Ids

\* A change of one record leaves the others.
LEMMA RecordsChange ==
    ASSUME ReceiverInv, NEW i, NEW x, records' = [records EXCEPT ![i] = x]
    PROVE  /\ records' = [k \in 0..MaxTransfers |-> records'[k]]
           /\ \A k \in Ids : records'[k] = IF k = i THEN x ELSE records[k]
<1>1. Ids \subseteq 0..MaxTransfers
  BY DEF Ids
<1>2. QED
  BY <1>1 DEF ReceiverInv

LEMMA RecordsWorth ==
    ASSUME ReceiverInv, NEW i, NEW x, records' = [records EXCEPT ![i] = x], records[i] # "none" => x # "none"
    PROVE  /\ records' = [k \in 0..MaxTransfers |-> records'[k]]
           /\ \A k \in Ids : records[k] # "none" => records'[k] # "none"
<1>1. \A k \in Ids : records'[k] = IF k = i THEN x ELSE records[k]
  BY RecordsChange
<1>2. QED
  BY <1>1, RecordsChange

LEMMA RecordsSame ==
    ASSUME ReceiverInv, records' = records
    PROVE  records' = [k \in 0..MaxTransfers |-> records'[k]]
BY DEF ReceiverInv

LEMMA StockSame ==
    ASSUME ReceiverInv, store' = store, final' = final,
           records' = records \/ (\E i, s : s # "none" /\ Note(i, s)) \/ \E i, s : s # "none" /\ records' = [records EXCEPT ![i] = s]
    PROVE  Stock
<1> USE DEF Stock
<1>1. final' \subseteq Ids
  BY DEF ReceiverInv
<1>2. CASE records' = records
  BY <1>1, <1>2, RecordsSame
<1>3. ASSUME NEW i, NEW s, s # "none", Note(i, s) PROVE Stock
  <2> DEFINE x == IF records[i] = "none" THEN records[i] ELSE s
  <2>1. records' = [records EXCEPT ![i] = x] /\ (records[i] # "none" => x # "none")
    BY <1>3 DEF Note
  <2> HIDE DEF x
  <2>2. QED
    BY <1>1, <2>1, RecordsWorth
<1>4. ASSUME NEW i, NEW s, s # "none", records' = [records EXCEPT ![i] = s] PROVE Stock
  BY <1>1, <1>4, RecordsWorth
<1>5. QED
  BY <1>2, <1>3, <1>4

LEMMA StockDiscard ==
    ASSUME ReceiverInv, NEW i, Discard(i), i \in Ids => UnderWay(i) /\ Ends(i)
    PROVE  Stock
<1>1. CASE UNCHANGED disk
  BY <1>1, StockSame DEF disk
<1>2. CASE records' = Discarded(i) /\ store' = Cleared(i) /\ final' = final
  <2>1. Forgets(i) /\ final' \subseteq Ids
    BY <1>2 DEF Forgets, ReceiverInv
  <2>2. /\ records' = [k \in 0..MaxTransfers |-> records'[k]]
        /\ \A k \in Ids : records'[k] = IF k = i THEN "none" ELSE records[k]
    BY <1>2, RecordsChange DEF Discarded
  <2>3. QED
    BY <1>2, <2>1, <2>2 DEF Stock
<1>3. QED
  BY <1>1, <1>2 DEF Discard

LEMMA StockOffer ==
    ASSUME ReceiverInv, NEW i, ReceiveOffer(i)
    PROVE  Stock
<1>1. CASE UNCHANGED disk
  BY <1>1, StockSame DEF disk
<1>2. CASE records' = Recorded(records, i) /\ UNCHANGED <<store, final>>
  <2> DEFINE x == IF records[i] = "none" THEN "waiting" ELSE records[i]
  <2>1. records' = [records EXCEPT ![i] = x] /\ (records[i] # "none" => x # "none")
    BY <1>2 DEF Recorded
  <2> HIDE DEF x
  <2>2. QED
    BY <1>2, <2>1, RecordsWorth DEF Stock, ReceiverInv
<1> DEFINE pending == {j \in {k \in Ids : In(k)} : T(j).state = "offered"}
           Evict(j) == /\ \E a : rcv' = [k \in Ids |-> IF k = i THEN {NewIncoming(a)} ELSE IF k \in {j} THEN {} ELSE rcv[k]]
                       /\ records' = Recorded(Discarded(j), i)
                       /\ store' = Cleared(j)
                       /\ UNCHANGED final
<1>3. ASSUME NEW j \in Ids, In(j), ~In(i), Evict(j) PROVE Stock
  <2>1. rcv'[j] = {} /\ j # i
    BY <1>3
  <2>2. Forgets(j)
    BY <1>3, <2>1 DEF Forgets, Ends, UnderWay
  <2>3. \A k \in Ids : records[k] # "none" /\ records'[k] = "none" => k = j
    BY <1>3 DEF Recorded, Discarded, ReceiverInv, Ids
  <2>4. records' = [k \in 0..MaxTransfers |-> records'[k]]
    BY <1>3 DEF Recorded, Discarded, ReceiverInv
  <2>5. QED
    BY <1>3, <2>1, <2>2, <2>3, <2>4 DEF Stock, Ends, ReceiverInv
<1>4. CASE pending # {} /\ ~In(i) /\ Evict(CHOOSE j \in pending : \A k \in pending : j <= k)
  <2> DEFINE j == CHOOSE j \in pending : \A k \in pending : j <= k
  <2>1. j \in pending
    BY <1>4, OldestOffer
  <2>2. j \in Ids /\ In(j)
    BY <2>1
  <2>3. Evict(j)
    BY <1>4
  <2> HIDE DEF j, Evict
  <2>4. QED
    BY <1>3, <1>4, <2>2, <2>3
<1>5. QED
  BY <1>1, <1>2, <1>4 DEF ReceiveOffer

LEMMA StockControl ==
    ASSUME ReceiverInv, ReceiverControl
    PROVE  Stock
<1> DEFINE m == Head(toR)
<1>1. CASE UNCHANGED disk
  BY <1>1, StockSame DEF disk
<1>2. CASE m.type \in {"offer", "manifest"}
  BY <1>2, StockOffer DEF ReceiverControl
<1>3. CASE m.type \in {"pause", "resume"}
  BY <1>1, <1>3, StockSame DEF ReceiverControl, UpdateState, disk
<1>4. CASE m.type = "items"
  BY <1>4, StockSame DEF ReceiverControl, AcceptSyncItems
<1>5. CASE m.type = "unavailable"
  <2>1. UNCHANGED <<store, final>> /\ MarkRequestedError
    BY <1>5 DEF ReceiverControl
  <2>2. CASE records' = records
    BY <2>1, <2>2, StockSame
  <2>3. ASSUME NEW j \in Listed, records' = [records EXCEPT ![j] = IF @ = "completed" THEN @ ELSE "failed"] PROVE Stock
    <3> DEFINE x == IF records[j] = "completed" THEN records[j] ELSE "failed"
    <3>1. records' = [records EXCEPT ![j] = x] /\ x # "none"
      BY <2>3
    <3> HIDE DEF x
    <3>2. QED
      BY <2>1, <3>1, RecordsWorth DEF Stock, ReceiverInv
  <2>4. QED
    BY <2>1, <2>2, <2>3 DEF MarkRequestedError
<1>6. QED
  BY <1>1, <1>2, <1>3, <1>4, <1>5 DEF ReceiverControl

LEMMA StockAccept ==
    ASSUME ReceiverInv, NEW i \in Ids, AcceptPrepared(i) \/ AcceptListed(i) \/ AcceptFails(i)
    PROVE  Stock
<1>1. CASE UNCHANGED disk
  BY <1>1, StockSame DEF disk
<1>2. CASE In(i) /\ rcv' = [rcv EXCEPT ![i] = {}] /\ Discard(i)
  BY <1>2, StockDiscard DEF UnderWay, Ends, ReceiverInv
<1>3. CASE AcceptListed(i)
  BY <1>1, <1>3, StockSame DEF AcceptListed, disk
<1>4. CASE records' = [records EXCEPT ![i] = IF @ = "none" THEN "accepted" ELSE @] /\ UNCHANGED <<store, final>>
  <2> DEFINE x == IF records[i] = "none" THEN "accepted" ELSE records[i]
  <2>1. records' = [records EXCEPT ![i] = x] /\ (records[i] # "none" => x # "none")
    BY <1>4
  <2> HIDE DEF x
  <2>2. QED
    BY <1>4, <2>1, RecordsWorth DEF Stock, ReceiverInv
<1>5. QED
  BY <1>1, <1>2, <1>3, <1>4 DEF AcceptPrepared, AcceptFails, In

LEMMA StockWritten ==
    ASSUME ReceiverInv, NEW w \in writes, ChunkWritten(w)
    PROVE  Stock
<1> DEFINE i == w.id
<1>1. CASE UNCHANGED disk
  BY <1>1, StockSame DEF disk
<1>2. CASE ~In(i) /\ Discard(i) /\ rcv' = rcv
  <2>1. UnderWay(i)
    BY DEF UnderWay, Writing
  <2>2. Ends(i)
    BY <1>2 DEF Ends, In
  <2>3. QED
    BY <1>2, <2>1, <2>2, StockDiscard
<1>3. CASE store' = Stored(w) /\ final' = final /\ (records' = records \/ \E s : s # "none" /\ Note(i, s))
  <2>1. Stores(w)
    BY <1>3 DEF Stores, ChunkWritten
  <2>2. QED
    <3>1. CASE records' = records
      BY <1>3, <2>1, <3>1, RecordsSame DEF Stock, ReceiverInv
    <3>2. ASSUME NEW s, s # "none", Note(i, s) PROVE Stock
      <4> DEFINE x == IF records[i] = "none" THEN records[i] ELSE s
      <4>1. records' = [records EXCEPT ![i] = x] /\ (records[i] # "none" => x # "none")
        BY <3>2 DEF Note
      <4> HIDE DEF x
      <4>2. QED
        BY <1>3, <2>1, <4>1, RecordsWorth DEF Stock, ReceiverInv
    <3>3. QED
      BY <1>3, <3>1, <3>2
<1>4. QED
  BY <1>1, <1>2, <1>3 DEF ChunkWritten, disk, StateAfterWrite

LEMMA StockFinal ==
    ASSUME ReceiverInv, NEW i \in Ids, Finalize(i) \/ Finalized(i) \/ CancelEnds(i)
    PROVE  Stock
<1>1. CASE UNCHANGED disk
  BY <1>1, StockSame DEF disk
<1>2. CASE Finalize(i)
  <2>1. CASE /\ records' = [records EXCEPT ![i] = "completed"] /\ final' \in {final, final \cup {i}}
             /\ store' = IF setup.desktop THEN [store EXCEPT ![Key(i)] = NoChunks] ELSE store
    <3>1. store' = store \/ Moves(i)
      BY <1>2, <2>1 DEF Finalize, Moves
    <3>2. QED
      BY <2>1, <3>1, RecordsWorth DEF Stock, ReceiverInv
  <2>2. QED
    BY <1>1, <1>2, <2>1 DEF Finalize
<1>3. CASE Finalized(i)
  <2>1. CASE Discard(i)
    <3>1. UnderWay(i) /\ Ends(i)
      BY <1>3 DEF Finalized, UnderWay, Ends, ReceiverInv
    <3>2. QED
      BY <2>1, <3>1, StockDiscard
  <2>2. CASE Note(i, "failed") /\ UNCHANGED <<store, final>>
    BY <2>2, StockSame
  <2>3. QED
    BY <1>1, <1>3, <2>1, <2>2 DEF Finalized
<1>4. CASE CancelEnds(i)
  <2>1. Forgets(i)
    BY <1>4 DEF CancelEnds, Forgets, UnderWay, Ends, ReceiverInv
  <2>2. QED
    BY <1>4, <2>1, RecordsWorth DEF CancelEnds, Stock, ReceiverInv
<1>5. QED
  BY <1>2, <1>3, <1>4

LEMMA StockStep ==
    ASSUME ReceiverInv, [Next]_vars
    PROVE  Stock
<1>1. CASE UNCHANGED disk
  BY <1>1, StockSame DEF disk
<1>2. CASE SendFile \/ SenderControl \/ ReceiveChunk \/ Break \/ Reconnect \/ RestartR \/ RestartS \/ \E c \in Chunks : SourceChanges(c)
  BY <1>1, <1>2 DEF SendFile, SenderControl, ReceiveChunk, Break, Reconnect, RestartR, RestartS, SourceChanges
<1>3. ASSUME NEW i \in Ids, SenderStep(i) PROVE Stock
  BY <1>1, <1>3 DEF SenderStep, TakeChunk, SendChunk, RunCancelled, RunCompletes, RunFails
<1>4. ASSUME NEW i \in Ids, CompleteChecked(i) PROVE Stock
  BY <1>4, StockSame DEF CompleteChecked
<1>5. ASSUME NEW i \in Ids, CancelAtR(i) \/ PauseAtS(i) \/ ResumeAtS(i) \/ CancelAtS(i) PROVE Stock
  BY <1>1, <1>5 DEF CancelAtR, PauseAtS, ResumeAtS, CancelAtS
<1>6. ASSUME NEW i \in Ids, PauseAtR(i) \/ ResumeAtR(i) PROVE Stock
  BY <1>6, StockSame DEF PauseAtR, ResumeAtR, UpdateState
<1>7. ASSUME NEW j \in DOMAIN records, Request(j) PROVE Stock
  BY <1>7, StockSame DEF Request
<1>8. ASSUME NEW w \in writes, ChunkVerified(w) PROVE Stock
  BY <1>1, <1>8 DEF ChunkVerified
<1>9. CASE UNCHANGED vars
  BY <1>1, <1>9 DEF vars
<1>10. QED
  BY <1>2, <1>3, <1>4, <1>5, <1>6, <1>7, <1>8, <1>9, StockControl, StockAccept, StockWritten, StockFinal
     DEF Next, ReceiverStep, UserStep

---------------------------------------------------------------------------
\* Content is found intact by finalize alone.
LEMMA CompletingStep ==
    ASSUME ReceiverInv, [Next]_vars
    PROVE  /\ setup' = setup /\ completing' = [k \in Ids |-> completing'[k]]
           /\ \A k \in Ids : completing'[k] = "intact" => completing[k] = "intact" \/ Finalize(k)
<1> DEFINE Goal == /\ setup' = setup /\ completing' = [k \in Ids |-> completing'[k]]
                   /\ \A k \in Ids : completing'[k] = "intact" => completing[k] = "intact" \/ Finalize(k)
<1>1. CASE setup' = setup /\ completing' = completing
  BY <1>1 DEF ReceiverInv
<1>2. ASSUME NEW i, NEW s, s # "intact", setup' = setup, completing' = [completing EXCEPT ![i] = s] PROVE Goal
  BY <1>2 DEF ReceiverInv
<1>3. CASE SendFile \/ SenderControl \/ ReceiveChunk \/ Break \/ Reconnect \/ RestartS \/ \E c \in Chunks : SourceChanges(c)
  BY <1>1, <1>3 DEF SendFile, SenderControl, ReceiveChunk, Break, Reconnect, RestartS, SourceChanges, memory
<1>4. CASE RestartR
  BY <1>4 DEF RestartR
<1>5. CASE ReceiverControl
  BY <1>1, <1>2, <1>5 DEF ReceiverControl, ReceiveOffer, memory
<1>6. ASSUME NEW i \in Ids, SenderStep(i) PROVE Goal
  BY <1>1, <1>6 DEF SenderStep, TakeChunk, SendChunk, RunCancelled, RunCompletes, RunFails, memory
<1>7. ASSUME NEW i \in Ids, AcceptPrepared(i) \/ AcceptListed(i) \/ AcceptFails(i) \/ CancelEnds(i) PROVE Goal
  BY <1>1, <1>7 DEF AcceptPrepared, AcceptListed, AcceptFails, CancelEnds
<1>8. ASSUME NEW i \in Ids, CompleteChecked(i) \/ Finalized(i) PROVE Goal
  BY <1>2, <1>8 DEF CompleteChecked, Finalized
<1>9. ASSUME NEW i \in Ids, Finalize(i) PROVE Goal
  <2>1. setup' = setup /\ \E r : completing' = [completing EXCEPT ![i] = r]
    BY <1>9 DEF Finalize
  <2>2. QED
    BY <1>9, <2>1 DEF ReceiverInv
<1>10. ASSUME NEW i \in Ids, UserStep(i) PROVE Goal
  BY <1>1, <1>10 DEF UserStep, PauseAtR, PauseAtS, ResumeAtR, ResumeAtS, CancelAtR, CancelAtS, memory
<1>11. ASSUME NEW w \in writes, ChunkVerified(w) \/ ChunkWritten(w) PROVE Goal
  BY <1>1, <1>11 DEF ChunkVerified, ChunkWritten
<1>12. ASSUME NEW j \in DOMAIN records, Request(j) PROVE Goal
  BY <1>1, <1>12 DEF Request
<1>13. CASE UNCHANGED vars
  BY <1>1, <1>13 DEF vars, memory
<1>14. QED
  BY <1>3, <1>4, <1>5, <1>6, <1>7, <1>8, <1>9, <1>10, <1>11, <1>12, <1>13 DEF Next, ReceiverStep

\* Content is verified by complete alone, reported by the sender alone.
LEMMA VerifiedStep ==
    ASSUME ReceiverInv, ToldInv, [Next]_vars
    PROVE  \/ UNCHANGED <<verified, reported>>
           \/ \E i \in Ids : /\ Finalized(i) /\ completing[i] = "intact" /\ In(i) /\ T(i).state = "verifying"
                             /\ verified' = verified \cup {i} /\ UNCHANGED <<reported, disk, setup>>
           \/ \E i \in verified : reported' = reported \cup {i} /\ UNCHANGED <<memory, disk, setup>>
<1> DEFINE Goal == \/ UNCHANGED <<verified, reported>>
                   \/ \E i \in Ids : /\ Finalized(i) /\ completing[i] = "intact" /\ In(i) /\ T(i).state = "verifying"
                                     /\ verified' = verified \cup {i} /\ UNCHANGED <<reported, disk, setup>>
                   \/ \E i \in verified : reported' = reported \cup {i} /\ UNCHANGED <<memory, disk, setup>>
<1>1. CASE SendFile \/ ReceiveChunk \/ Break \/ Reconnect \/ RestartS \/ RestartR \/ \E c \in Chunks : SourceChanges(c)
  BY <1>1 DEF SendFile, ReceiveChunk, Break, Reconnect, RestartS, RestartR, SourceChanges, memory, sender
<1>2. CASE SenderControl
  <2> DEFINE m == Head(toS)
  <2>1. UNCHANGED <<setup, memory, disk>>
    BY <1>2 DEF SenderControl
  <2>2. CASE reported' = reported
    BY <2>1, <2>2 DEF memory
  <2>3. CASE reported' # reported
    <3>1. reported' = reported \cup {m.id} /\ m.type = "complete" /\ toS # <<>>
      BY <1>2, <2>3 DEF SenderControl
    <3>2. m.id \in verified
      BY <3>1, TailSaid DEF ToldInv
    <3>3. QED
      BY <2>1, <3>1, <3>2
  <2>4. QED
    BY <2>2, <2>3
<1>3. CASE ReceiverControl
  BY <1>3 DEF ReceiverControl, ReceiveOffer, memory, sender
<1>4. ASSUME NEW i \in Ids, SenderStep(i) PROVE Goal
  BY <1>4 DEF SenderStep, TakeChunk, SendChunk, RunCancelled, RunCompletes, RunFails, memory
<1>5. ASSUME NEW i \in Ids, AcceptPrepared(i) \/ AcceptListed(i) \/ AcceptFails(i) \/ CancelEnds(i) \/ CompleteChecked(i) \/ Finalize(i)
      PROVE  Goal
  BY <1>5 DEF AcceptPrepared, AcceptListed, AcceptFails, CancelEnds, CompleteChecked, Finalize, sender
<1>6. ASSUME NEW i \in Ids, Finalized(i) PROVE Goal
  <2>1. setup' = setup /\ reported' = reported
    BY <1>6 DEF Finalized, sender
  <2>2. CASE verified' = verified
    BY <2>1, <2>2
  <2>3. CASE verified' # verified
    BY <1>6, <2>1, <2>3 DEF Finalized, Verdict
  <2>4. QED
    BY <2>2, <2>3
<1>7. ASSUME NEW i \in Ids, UserStep(i) PROVE Goal
  BY <1>7 DEF UserStep, PauseAtR, PauseAtS, ResumeAtR, ResumeAtS, CancelAtR, CancelAtS, memory, sender
<1>8. ASSUME NEW w \in writes, ChunkVerified(w) \/ ChunkWritten(w) PROVE Goal
  BY <1>8 DEF ChunkVerified, ChunkWritten, sender
<1>9. ASSUME NEW j \in DOMAIN records, Request(j) PROVE Goal
  BY <1>9 DEF Request, sender
<1>10. CASE UNCHANGED vars
  BY <1>10 DEF vars, memory, sender
<1>11. QED
  BY <1>1, <1>2, <1>3, <1>4, <1>5, <1>6, <1>7, <1>8, <1>9, <1>10 DEF Next, ReceiverStep

\* The storage keeps its type.
LEMMA StoreTyped ==
    ASSUME ReceiverInv, Stock
    PROVE  store' \in [Ids -> [Chunks -> {"no", "good", "bad"}]]
<1> DEFINE Held1 == [Chunks -> {"no", "good", "bad"}]
<1>1. NoChunks \in Held1 /\ store \in [Ids -> Held1]
  BY DEF NoChunks, ReceiverInv
<1>2. ASSUME NEW i PROVE [store EXCEPT ![Key(i)] = NoChunks] \in [Ids -> Held1]
  BY <1>1
<1>3. ASSUME NEW i PROVE Cleared(i) \in [Ids -> Held1]
  BY <1>1, <1>2 DEF Cleared
<1>4. ASSUME NEW w PROVE Stored(w) \in [Ids -> Held1]
  BY <1>1 DEF Stored
<1>5. QED
  BY <1>1, <1>2, <1>3, <1>4 DEF Stock, Forgets, Stores, Moves

LEMMA ReceiverInvStep ==
    ASSUME ReceiverInv, ToldInv, [Next]_vars
    PROVE  ReceiverInv'
<1>1. Stock
  BY StockStep
<1>2. verified' \subseteq Ids
  BY VerifiedStep DEF ReceiverInv, memory
<1>3. rcv' = [k \in Ids |-> rcv'[k]] /\ \A k \in Ids : \A t \in rcv'[k] : Whole(t)
  <2>1. CASE Tame
    BY <2>1 DEF Tame
  <2>2. ASSUME NEW i \in Ids, CompleteChecked(i) PROVE rcv' = [k \in Ids |-> rcv'[k]] /\ \A k \in Ids : \A t \in rcv'[k] : Whole(t)
    <3>1. CASE rcv' = rcv
      BY <3>1 DEF ReceiverInv
    <3> DEFINE missing == IF T(i).known THEN T(i).missing ELSE MissingChunks(i)
               v == WithMissing(WithKnown(T(i), TRUE), missing)
               n == WithState(WithMissing(WithKnown(T(i), TRUE), {}), "verifying")
    <3>2. ASSUME In(i) PROVE Whole(v) /\ Whole(n)
      <4>1. Whole(WithKnown(T(i), TRUE))
        BY <3>2, TransferOf, Fields
      <4>2. Whole(WithMissing(WithKnown(T(i), TRUE), {}))
        BY <4>1, Fields
      <4>3. QED
        BY <4>1, <4>2, Fields
    <3>3. rcv' = rcv \/ (In(i) /\ (Put(i, v) \/ Put(i, n)))
      <4>1. CASE ~IsReceiving(i)
        BY <2>2, <4>1 DEF CompleteChecked
      <4>2. CASE IsReceiving(i) /\ missing # {}
        <5>1. Put(i, [T(i) EXCEPT !.known = TRUE, !.missing = missing])
          BY <2>2, <4>2 DEF CompleteChecked
        <5>2. v = [T(i) EXCEPT !.known = TRUE, !.missing = missing]
          BY DEF WithMissing, WithKnown
        <5>3. QED
          BY <4>2, <5>1, <5>2 DEF IsReceiving
      <4>3. CASE IsReceiving(i) /\ missing = {}
        <5>1. Put(i, [T(i) EXCEPT !.known = TRUE, !.missing = {}, !.state = "verifying"])
          BY <2>2, <4>3 DEF CompleteChecked
        <5>2. n = [T(i) EXCEPT !.known = TRUE, !.missing = {}, !.state = "verifying"]
          BY DEF WithState, WithMissing, WithKnown
        <5>3. QED
          BY <4>3, <5>1, <5>2 DEF IsReceiving
      <4>4. QED
        BY <4>1, <4>2, <4>3
    <3> HIDE DEF v, n
    <3>4. ASSUME NEW t, Whole(t), Put(i, t) PROVE rcv' = [k \in Ids |-> rcv'[k]] /\ \A k \in Ids : \A u \in rcv'[k] : Whole(u)
      BY <3>4 DEF Put, ReceiverInv
    <3>5. QED
      BY <3>1, <3>2, <3>3, <3>4
  <2>3. QED
    BY <2>1, <2>2, TameStep
<1>4. QED
  BY <1>1, <1>2, <1>3, CompletingStep, StoreTyped DEF ReceiverInv, Stock

---------------------------------------------------------------------------
\* The intact chunks of a transfer.
Have(i) == IF setup.desktop /\ i \in final THEN Chunks ELSE {c \in Chunks : store[Key(i)][c] = "good"}

\* Nobody but the transfers concerned and their ends takes chunks away.
\* Keys of the storage are transfers.
LEMMA FirstId == ASSUME NEW k \in Ids PROVE 1 \in Ids /\ k \in 0..MaxTransfers /\ Key(k) \in Ids
<1>1. 1 \in Ids /\ k \in 0..MaxTransfers
  BY BoundsAssumption DEF Ids
<1>2. QED
  BY <1>1 DEF Key

LEMMA HaveKept ==
    ASSUME HashedChunks, ReceiverInv, WriteInv, Stock, setup' = setup, NEW k \in Ids, ~UnderWay(k)
    PROVE  Have(k) \subseteq Have(k)'
<1>1. final \subseteq final' /\ Key(k)' = Key(k) /\ Key(k) \in Ids /\ store \in [Ids -> [Chunks -> {"no", "good", "bad"}]]
  BY FirstId DEF Stock, Key, ReceiverInv
<1>2. SUFFICES ASSUME NEW c \in Chunks, store[Key(k)][c] = "good"
               PROVE  store'[Key(k)][c] = "good"
  BY <1>1 DEF Have
<1>3. ASSUME NEW i, Forgets(i) PROVE store'[Key(k)][c] = "good"
  <2>1. i # k
    BY <1>3 DEF Forgets
  <2>2. CASE setup.desktop
    BY <1>1, <1>2, <1>3, <2>1, <2>2 DEF Forgets, Cleared, Key
  <2>3. CASE ~setup.desktop
    <3>1. k \in DOMAIN records /\ records[k] # "none"
      BY DEF ReceiverInv, UnderWay, Ids
    <3>2. QED
      BY <1>2, <1>3, <2>1, <2>3, <3>1 DEF Forgets, Cleared
  <2>4. QED
    BY <2>2, <2>3
<1>4. ASSUME NEW w \in writes, Stores(w) PROVE store'[Key(k)][c] = "good"
  <2>1. w.id # k
    BY DEF UnderWay, Writing
  <2>2. CASE setup.desktop
    BY <1>1, <1>2, <1>4, <2>1, <2>2 DEF Stores, Stored, Key
  <2>3. CASE ~setup.desktop
    <3>1. w.bad # TRUE
      BY <1>4, <2>3 DEF HashedChunks, ReceiverInv, WriteInv, Stores
    <3>2. QED
      BY <1>1, <1>2, <1>4, <3>1 DEF Stores, Stored
  <2>4. QED
    BY <2>2, <2>3
<1>5. ASSUME NEW i, Moves(i) PROVE store'[Key(k)][c] = "good"
  <2>1. i # k
    BY <1>5 DEF Moves, UnderWay
  <2>2. QED
    BY <1>1, <1>2, <1>5, <2>1 DEF Moves, Key
<1>6. QED
  BY <1>2, <1>3, <1>4, <1>5 DEF Stock

\* Content found intact outlives every step but the end of its transfer.
LEMMA SecureKept ==
    ASSUME HashedChunks, ReceiverInv, WriteInv, Stock, setup' = setup, NEW k \in Ids, Secure(k), ~Ends(k)
    PROVE  Secure(k)'
<1>1. CASE setup.desktop
  BY <1>1 DEF Secure, Stock
<1>2. CASE ~setup.desktop
  <2>1. records[k] # "none" /\ records'[k] # "none" /\ k \in DOMAIN records /\ store \in [Ids -> [Chunks -> {"no", "good", "bad"}]] /\ 1 \in Ids
    <3>1. records[k] # "none" /\ records'[k] # "none"
      BY <1>2 DEF Secure, Stock
    <3>2. QED
      BY <3>1, FirstId DEF ReceiverInv
  <2>2. SUFFICES ASSUME NEW c \in Chunks PROVE store'[1][c] = "good"
    BY <1>2, <2>1 DEF Secure
  <2>3. store[1][c] = "good"
    BY <1>2 DEF Secure
  <2>4. ASSUME NEW i, Forgets(i) PROVE store' = store
    <3>1. i # k
      BY <2>4 DEF Forgets
    <3>2. QED
      BY <1>2, <2>1, <2>4, <3>1 DEF Forgets, Cleared
  <2>5. ASSUME NEW w \in writes, Stores(w) PROVE store'[1][c] = "good"
    <3>1. w.bad # TRUE
      BY <1>2, <2>5 DEF HashedChunks, ReceiverInv, WriteInv, Stores
    <3>2. QED
      BY <2>1, <2>3, <2>5, <3>1 DEF Stores, Stored
  <2>6. QED
    BY <1>2, <2>3, <2>4, <2>5 DEF Stock, Moves
<1>3. QED
  BY <1>1, <1>2

\* finalize finds content intact only when it is.
LEMMA FoundIntact ==
    ASSUME ReceiverInv, NEW k \in Ids, Finalize(k), completing'[k] = "intact"
    PROVE  Secure(k)'
<1> DEFINE intact == \A c \in Chunks : store[Key(k)][c] = "good"
           result == IF Held(k) # Chunks \/ records[k] = "none" \/ (setup.desktop /\ ~intact) THEN "error"
                     ELSE IF intact THEN "intact" ELSE "mismatch"
<1>1. completing' = [completing EXCEPT ![k] = result] /\ setup' = setup
  BY DEF Finalize
<1>2. completing'[k] = result
  BY <1>1 DEF ReceiverInv
<1>3. result = "intact" /\ intact
  BY <1>2
<1>4. records' = [records EXCEPT ![k] = "completed"] /\ final' = final \cup {k} /\ (~setup.desktop => store' = store)
  BY <1>3 DEF Finalize
<1>5. records'[k] = "completed"
  BY <1>4 DEF ReceiverInv, Ids
<1>6. QED
  BY <1>1, <1>3, <1>4, <1>5 DEF Secure, Key

LEMMA IntactStep ==
    ASSUME HashedChunks, ReceiverInv, WriteInv, IntactInv, [Next]_vars
    PROVE  IntactInv'
<1>1. Stock /\ setup' = setup
  BY StockStep, CompletingStep
<1>2. SUFFICES ASSUME NEW k \in Ids, completing'[k] = "intact", NEW t \in rcv'[k], t.state = "verifying"
               PROVE  Secure(k)'
  BY DEF IntactInv
<1>3. ~Ends(k)
  BY <1>2 DEF Ends
<1>4. CASE Finalize(k)
  BY <1>2, <1>4, FoundIntact
<1>5. CASE completing[k] = "intact" /\ Tame
  <2>1. \E u \in rcv[k] : u.state = "verifying"
    BY <1>2, <1>5 DEF Tame
  <2>2. Secure(k)
    BY <1>5, <2>1 DEF IntactInv
  <2>3. QED
    BY <1>1, <1>3, <2>2, SecureKept
<1>6. ASSUME NEW i \in Ids, CompleteChecked(i), completing[k] = "intact" PROVE Secure(k)'
  <2>1. k # i
    BY <1>6 DEF CompleteChecked
  <2>2. rcv'[k] = rcv[k]
    BY <1>6, <2>1 DEF CompleteChecked, Put, ReceiverInv
  <2>3. Secure(k)
    BY <1>2, <1>6, <2>2 DEF IntactInv
  <2>4. QED
    BY <1>1, <1>3, <2>3, SecureKept
<1>7. QED
  BY <1>2, <1>4, <1>5, <1>6, CompletingStep, TameStep

LEMMA ReceiverStarts == Init => ReceiverInv /\ ToldInv
<1> SUFFICES ASSUME Init PROVE ReceiverInv /\ ToldInv
  OBVIOUS
<1>1. NoChunks \in [Chunks -> {"no", "good", "bad"}]
  BY DEF NoChunks
<1>2. ReceiverInv
  BY <1>1 DEF Init, ReceiverInv
<1>3. ToldInv
  <2> DEFINE s == Append(<<>>, Message("hello", 0))
  <2>1. toS = s
    BY DEF Init
  <2>2. s \in Seq(Said(s)) /\ Said(s) \subseteq {Message("hello", 0)}
    BY NothingSaid, AppendSaid
  <2> HIDE DEF s
  <2>3. QED
    BY <2>1, <2>2, Types DEF ToldInv
<1>4. QED
  BY <1>2, <1>3

LEMMA TransferStarts == Init /\ HashedChunks => TInv
<1> SUFFICES ASSUME Init, HashedChunks PROVE TInv
  OBVIOUS
<1>1. ReceiverInv /\ ToldInv
  BY ReceiverStarts
<1>2. WriteInv /\ IntactInv
  BY DEF Init, WriteInv, IntactInv
<1>3. QED
  BY <1>1, <1>2 DEF TInv

LEMMA TransferStep ==
    ASSUME TInv, [Next]_vars
    PROVE  TInv'
<1>1. setup' = setup
  BY CompletingStep DEF TInv
<1>2. HashedChunks'
  BY <1>1 DEF TInv, HashedChunks
<1>3. QED
  BY <1>2, ReceiverInvStep, ToldStep, WriteStep, IntactStep DEF TInv

---------------------------------------------------------------------------
\* Every step is one that Delivery allows.
LEMMA DeliveryStep ==
    ASSUME TInv, [Next]_vars
    PROVE  [Promise!Next]_(Promise!vars)
<1> USE DEF TInv
<1>1. Stock /\ setup' = setup
  BY StockStep, CompletingStep
<1> DEFINE have == [i \in Ids |-> Have(i)]
           active == {i \in Ids : UnderWay(i)}
<1>2. have = [i \in Ids |-> IF setup.desktop /\ i \in final THEN Chunks ELSE {c \in Chunks : store[Key(i)][c] = "good"}]
  BY DEF Have
<1>3. have' \in [Ids -> SUBSET Chunks] /\ active' \in SUBSET Ids
  BY DEF Have
<1>4. \A k \in verified \ active : have[k] \subseteq have'[k]
  BY <1>1, HaveKept DEF ReceiverInv
<1>5. CASE UNCHANGED <<verified, reported>>
  <2>1. Promise!Hold
    BY <1>3, <1>4, <1>5 DEF Promise!Hold, Have
  <2>2. QED
    BY <2>1 DEF Promise!Next
<1>6. ASSUME NEW i \in Ids, Finalized(i), completing[i] = "intact", In(i), T(i).state = "verifying",
             verified' = verified \cup {i}, UNCHANGED <<reported, disk, setup>>
      PROVE  Promise!Next
  <2>1. Secure(i)
    BY <1>6, TransferOf DEF IntactInv
  <2>2. have[i] = Chunks
    BY <2>1 DEF Secure, Have, Key
  <2>3. have' = have
    BY <1>6 DEF disk, Have, Key
  <2>4. Promise!Verify(i)
    BY <1>3, <1>6, <2>2, <2>3 DEF Promise!Verify, Have
  <2>5. QED
    BY <2>4 DEF Promise!Next
<1>7. ASSUME NEW i \in verified, reported' = reported \cup {i}, UNCHANGED <<memory, disk, setup>>
      PROVE  Promise!Next
  <2>1. have' = have /\ active' = active /\ verified' = verified
    BY <1>7 DEF disk, memory, Have, Key, UnderWay, In, Writing
  <2>2. Promise!Report(i)
    BY <1>7, <2>1 DEF Promise!Report, Have
  <2>3. QED
    BY <2>2 DEF Promise!Next, ReceiverInv
<1>8. QED
  BY <1>5, <1>6, <1>7, VerifiedStep

LEMMA DeliveryStarts == Init => Promise!Init
<1> SUFFICES ASSUME Init PROVE Promise!Init
  OBVIOUS
<1>1. verified = {} /\ reported = {} /\ final = {}
  BY DEF Init
<1>2. ASSUME NEW i \in Ids PROVE UnderWay(i) /\ {c \in Chunks : store[Key(i)][c] = "good"} = {}
  <2>1. records[i] = "none" /\ store[Key(i)] = NoChunks
    BY FirstId DEF Init
  <2>2. QED
    BY <2>1 DEF UnderWay, NoChunks
<1>3. QED
  BY <1>1, <1>2 DEF Promise!Init

\* For any file, storages, transfers, queues and interventions: content is verified only when it is complete and
\* intact, verified content is dropped only while the same transfer is under way again or after its record is gone,
\* and the sender reports only what the receiver verified.  In the browser, where the transfers of an attachment
\* share their chunks, the manifest must carry chunk hashes: without them a chunk of a file that changed, received
\* for a second transfer, replaces one that was verified.
THEOREM DeliversWhatItPromises ==
    Spec /\ HashedChunks => Delivers
<1>1. Init /\ HashedChunks => TInv /\ Promise!Init
  BY TransferStarts, DeliveryStarts
<1>2. TInv /\ [Next]_vars => TInv' /\ [Promise!Next]_(Promise!vars)
  BY TransferStep, DeliveryStep
<1>3. QED
  BY <1>1, <1>2, PTL DEF Spec, Delivers, Promise!Spec

---------------------------------------------------------------------------
(* What the disk holds.  Everything that is known of a transfer, under way *)
(* on a channel or kept by either peer, is of a transfer that was offered. *)

Queue == [paused : BOOLEAN, cancelled : BOOLEAN, awaiting : BOOLEAN, missing : SUBSET Chunks,
          run : {"no", "chunks"}, todo : SUBSET Chunks, chunk : Chunks \cup {0}, gone : BOOLEAN]
Incoming == [state : {"offered", "accepted", "transferring", "paused", "verifying", "cancelled", "failed"},
             received : SUBSET Chunks, known : BOOLEAN, missing : SUBSET Chunks, auto : BOOLEAN, tell : BOOLEAN]

\* What is said of the file, and of one transfer.
OfFile == {"hello", "listed", "nothing", "want", "items", "request", "unavailable"}
OfTransfer == {"offer", "manifest", "accept", "need", "pause", "resume", "cancel", "reject", "complete", "error"}

Controls(n) == {m \in [type : OfFile \cup OfTransfer, id : 0..n, missing : SUBSET Chunks] : m.type \in OfTransfer => m.id # 0}
Frames(n) == [id : 1..n, chunk : Chunks, bad : BOOLEAN]
Writes(n) == [id : 1..n, chunk : Chunks, bad : BOOLEAN, step : {"verify", "write"}]

\* At most one entry, of a type, for each of the first n transfers, and none for the others.
OnePerId(s, Type, n) ==
    s \in [Ids -> SUBSET Type] /\ \A i \in Ids : s[i] = {} \/ (i <= n /\ \E x \in Type : s[i] = {x})
Idle(f, Values, n) == f \in [Ids -> Values] /\ \A i \in Ids : i > n => f[i] = "no"

AcceptSteps == {"no", "prepare", "list"}
CompleteSteps == {"no", "wait", "verify", "intact", "mismatch", "error"}

SenderShape == used \in 0..MaxTransfers /\ OnePerId(snd, Queue, used) /\ reported \subseteq Ids
ReceiverShape ==
    /\ OnePerId(rcv, Incoming, used) /\ Idle(accepting, AcceptSteps, used) /\ Idle(completing, CompleteSteps, used)
    /\ verified \subseteq Ids /\ writes \subseteq Writes(used)
DiskShape ==
    /\ records = [i \in 0..MaxTransfers |-> records[i]] /\ \A i \in Ids : i > used => records[i] = "none"
    /\ store \in [Ids -> [Chunks -> {"no", "good", "bad"}]] /\ final \subseteq Ids
NetShape == toR \in Seq(Controls(used)) /\ toS \in Seq(Controls(used)) /\ data \in Seq(Frames(used))

\* What NoOrphanChunks needs: content is found intact by finalizing it; on the desktop chunks of a transfer are
\* explained by the transfer; in the browser chunks are the last thing to go with the records.
Explained ==
    \/ calm = "restarted" \/ (\E j \in Ids : In(j) \/ j \in final)
    \/ used > 1 \/ 0 \in Listed
Intact == \A i \in Ids : completing[i] = "intact" => i \in final
Covered ==
    /\ setup.desktop => \A i \in Ids : Held(i) # {} => calm = "restarted" \/ In(i) \/ i \in final
    /\ ~setup.desktop => \A i \in Ids : Held(i) # {} => Listed # {} /\ Explained
Orphanless == Intact /\ Covered

Shape == SenderShape /\ ReceiverShape /\ DiskShape /\ NetShape
DiskInv == Shape /\ Orphanless

LEMMA Counted == /\ MaxTransfers \in Nat /\ Ids = 1..MaxTransfers /\ Ids \subseteq Nat /\ Chunks \subseteq Nat
                 /\ \A n \in 0..MaxTransfers : 1..n \subseteq Ids
BY BoundsAssumption DEF Ids

\* The transfers of a set in order.
LEMMA Ranks ==
    ASSUME NEW S \in SUBSET Ids
    PROVE  /\ Cardinality(S) \in Nat
           /\ \A k \in 1..Cardinality(S) : \E i \in S : Cardinality({j \in S : j < i}) = k - 1
<1> DEFINE n == Cardinality(S)
           below(i) == {j \in S : j < i}
           Places == 0..(n - 1)
           f == [i \in S |-> Cardinality(below(i))]
<1>1. S \subseteq Nat /\ IsFiniteSet(S)
  <2>1. S \in SUBSET Nat /\ MaxTransfers \in Nat /\ \A i \in S : i <= MaxTransfers
    BY Counted
  <2>2. QED
    BY <2>1, FS_BoundedSetOfNaturals
<1>2. n \in Nat
  BY <1>1, FS_CardinalityType
<1>3. ASSUME NEW i \in S PROVE IsFiniteSet(below(i)) /\ Cardinality(below(i)) \in Places
  <2>1. below(i) \in SUBSET S /\ i \notin below(i)
    BY <1>1
  <2> HIDE DEF below
  <2>2. IsFiniteSet(below(i)) /\ Cardinality(below(i)) <= n /\ Cardinality(below(i)) # n
    BY <1>1, <2>1, FS_Subset
  <2>3. Cardinality(below(i)) \in Nat
    BY <2>2, FS_CardinalityType
  <2>4. QED
    BY <1>2, <2>2, <2>3
<1>4. ASSUME NEW i \in S, NEW j \in S, i < j PROVE Cardinality(below(i)) < Cardinality(below(j))
  <2>1. below(i) \in SUBSET below(j) /\ i \in below(j) /\ i \notin below(i)
    <3>1. i \in Nat /\ j \in Nat
      BY <1>1
    <3>2. ASSUME NEW k \in S, k < i PROVE k < j
      <4>1. k \in Nat
        BY <1>1
      <4>2. QED
        BY <1>4, <3>1, <3>2, <4>1
    <3>3. ~(i < i)
      BY <3>1
    <3>4. QED
      BY <1>4, <3>2, <3>3
  <2>2. IsFiniteSet(below(i)) /\ IsFiniteSet(below(j))
    BY <1>3
  <2> HIDE DEF below
  <2>3. Cardinality(below(i)) <= Cardinality(below(j)) /\ Cardinality(below(i)) # Cardinality(below(j))
    BY <2>1, <2>2, FS_Subset
  <2>4. Cardinality(below(i)) \in Nat /\ Cardinality(below(j)) \in Nat
    BY <2>2, FS_CardinalityType
  <2>5. QED
    BY <2>3, <2>4
<1>5. f \in Injection(S, Places)
  <2>1. f \in [S -> Places]
    BY <1>3
  <2>2. ASSUME NEW i \in S, NEW j \in S, i # j PROVE f[i] # f[j]
    <3>1. i \in Nat /\ j \in Nat
      BY <1>1
    <3>2. i < j \/ j < i
      BY <2>2, <3>1
    <3>3. Cardinality(below(i)) \in Int /\ Cardinality(below(j)) \in Int
      BY <1>3
    <3> HIDE DEF below
    <3>4. Cardinality(below(i)) # Cardinality(below(j))
      BY <1>4, <3>2, <3>3
    <3>5. QED
      BY <3>4
  <2> HIDE DEF f
  <2>3. QED
    BY <2>1, <2>2 DEF Injection, IsInjective
<1>6. IsFiniteSet(Places) /\ Cardinality(Places) = n
  <2>1. 0 \in Int /\ n - 1 \in Int
    BY <1>2
  <2>2. IsFiniteSet(Places) /\ Cardinality(Places) = IF 0 > n - 1 THEN 0 ELSE (n - 1) - 0 + 1
    BY <2>1, FS_Interval
  <2>3. QED
    BY <1>2, <2>2
<1> HIDE DEF f, Places
<1>7. f \in Surjection(S, Places)
  BY <1>5, <1>6, FS_Injection
<1>8. ASSUME NEW k \in 1..n PROVE \E i \in S : Cardinality(below(i)) = k - 1
  <2>1. k - 1 \in Places
    BY <1>2 DEF Places
  <2>2. PICK i \in S : f[i] = k - 1
    BY <1>7, <2>1 DEF Surjection
  <2>3. QED
    BY <2>2 DEF f
<1>9. QED
  BY <1>2, <1>8

\* More transfers are offered, never fewer.
LEMMA Widens ==
    ASSUME NEW m \in 0..MaxTransfers, NEW n \in 0..MaxTransfers, m <= n
    PROVE  /\ Controls(m) \subseteq Controls(n) /\ Frames(m) \subseteq Frames(n) /\ Writes(m) \subseteq Writes(n)
           /\ \A s, Type : OnePerId(s, Type, m) => OnePerId(s, Type, n)
           /\ \A f, Values : Idle(f, Values, m) => Idle(f, Values, n)
<1>1. 0..m \subseteq 0..n /\ 1..m \subseteq 1..n /\ \A i \in Ids : i <= m => i <= n
  BY Counted
<1>2. QED
  BY <1>1, Counted DEF Controls, Frames, Writes, OnePerId, Idle

\* A message says something of the file or of an offered transfer.
LEMMA Says ==
    ASSUME NEW n \in 0..MaxTransfers, NEW i \in 1..n
    PROVE  /\ \A t \in OfTransfer : Message(t, i) \in Controls(n)
           /\ \A t \in OfFile : Message(t, 0) \in Controls(n)
           /\ \A missing \in SUBSET Chunks : Need(i, missing) \in Controls(n)
BY Counted DEF Message, Need, Controls, OfFile, OfTransfer

LEMMA SaysOfFile ==
    ASSUME NEW n \in 0..MaxTransfers, NEW t \in OfFile
    PROVE  Message(t, 0) \in Controls(n)
BY Counted DEF Message, Controls, OfFile, OfTransfer

LEMMA OneOfId ==
    ASSUME NEW s, NEW Type, NEW n, OnePerId(s, Type, n), NEW i \in Ids
    PROVE  /\ \A x \in Type : i <= n => OnePerId([s EXCEPT ![i] = {x}], Type, n)
           /\ OnePerId([s EXCEPT ![i] = {}], Type, n)
           /\ s[i] # {} => i <= n /\ (CHOOSE x \in s[i] : TRUE) \in Type /\ s[i] = {CHOOSE x \in s[i] : TRUE}
<1>1. s \in [Ids -> SUBSET Type] /\ \A j \in Ids : s[j] = {} \/ (j <= n /\ \E x \in Type : s[j] = {x})
  BY DEF OnePerId
<1>2. ASSUME NEW x \in Type, i <= n PROVE OnePerId([s EXCEPT ![i] = {x}], Type, n)
  BY <1>1, <1>2 DEF OnePerId
<1>3. OnePerId([s EXCEPT ![i] = {}], Type, n)
  BY <1>1 DEF OnePerId
<1>4. ASSUME s[i] # {} PROVE i <= n /\ (CHOOSE x \in s[i] : TRUE) \in Type /\ s[i] = {CHOOSE x \in s[i] : TRUE}
  <2>1. PICK x \in Type : s[i] = {x} /\ i <= n
    BY <1>1, <1>4
  <2>2. QED
    BY <2>1
<1>5. QED
  BY <1>2, <1>3, <1>4

\* An entry is rewritten or dropped.
LEMMA Rewritten ==
    ASSUME NEW s, NEW Type, NEW n, OnePerId(s, Type, n), NEW i \in Ids, NEW e,
           s[i] = {} => e = {},
           \A x \in Type : s[i] = {x} => e = {} \/ \E y \in Type : e = {y}
    PROVE  OnePerId([s EXCEPT ![i] = e], Type, n)
<1>1. s \in [Ids -> SUBSET Type] /\ \A j \in Ids : s[j] = {} \/ (j <= n /\ \E x \in Type : s[j] = {x})
  BY DEF OnePerId
<1>2. CASE e = {}
  BY <1>2, OneOfId
<1>3. CASE e # {}
  <2>1. PICK x \in Type : s[i] = {x} /\ i <= n
    BY <1>1, <1>3
  <2>2. PICK y \in Type : e = {y}
    BY <1>3, <2>1
  <2>3. QED
    BY <2>1, <2>2, OneOfId
<1>4. QED
  BY <1>2, <1>3

LEMMA QueueChanges ==
    ASSUME NEW q \in Queue
    PROVE  /\ \A b \in BOOLEAN : [q EXCEPT !.paused = b] \in Queue /\ [q EXCEPT !.awaiting = b, !.run = "no"] \in Queue
           /\ \A missing \in SUBSET Chunks : Resumed(q, missing) \in Queue
           /\ [q EXCEPT !.run = "chunks", !.todo = q.missing] \in Queue
           /\ [q EXCEPT !.run = "no", !.chunk = 0, !.todo = {}] \in Queue
           /\ [q EXCEPT !.cancelled = TRUE, !.paused = FALSE, !.awaiting = FALSE] \in Queue
           /\ [q EXCEPT !.awaiting = FALSE, !.gone = TRUE] \in Queue
           /\ [q EXCEPT !.chunk = 0] \in Queue
           /\ \A c \in q.todo : [q EXCEPT !.chunk = c, !.todo = @ \ {c}] \in Queue
           /\ q.missing \in SUBSET Chunks /\ q.todo \in SUBSET Chunks /\ q.chunk \in Chunks \cup {0}
BY DEF Queue, Resumed

LEMMA NewInQueue == NewQueued \in Queue
BY DEF NewQueued, Queue

\* An announcement for each transfer that starts.
LEMMA Pumps ==
    ASSUME NEW n \in 0..MaxTransfers, NEW s, OnePerId(s, Queue, n), toR \in Seq(Controls(n)), Pump(s)
    PROVE  OnePerId(snd', Queue, n) /\ toR' \in Seq(Controls(n))
<1> DEFINE starting == {i \in Ids : \E q \in s[i] : Runnable(q)}
           first(k) == CHOOSE i \in starting : Cardinality({j \in starting : j < i}) = k - 1
           Manifests == [k \in 1..Cardinality(starting) |-> Message("manifest", first(k))]
           New(i) == IF i \in starting THEN {[q EXCEPT !.run = "chunks", !.todo = q.missing] : q \in s[i]} ELSE s[i]
<1>1. s \in [Ids -> SUBSET Queue] /\ \A i \in Ids : s[i] = {} \/ (i <= n /\ \E x \in Queue : s[i] = {x})
  BY DEF OnePerId
<1>2. \/ snd' = [i \in Ids |-> New(i)] /\ toR' = toR \o Manifests
      \/ snd' = s /\ toR' = toR
  BY DEF Pump
<1>3. ASSUME NEW i \in Ids PROVE New(i) \in SUBSET Queue /\ (New(i) = {} \/ (i <= n /\ \E x \in Queue : New(i) = {x}))
  <2>1. CASE s[i] = {}
    BY <2>1
  <2>2. CASE i <= n /\ \E x \in Queue : s[i] = {x}
    <3>1. PICK x \in Queue : s[i] = {x}
      BY <2>2
    <3> DEFINE y == [x EXCEPT !.run = "chunks", !.todo = x.missing]
    <3>2. y \in Queue
      BY QueueChanges
    <3>3. New(i) = {x} \/ New(i) = {y}
      BY <3>1
    <3> HIDE DEF New, y
    <3>4. QED
      BY <2>2, <3>1, <3>2, <3>3
  <2>3. QED
    BY <1>1, <2>1, <2>2
<1>4. Manifests \in Seq(Controls(n))
  <2>1. starting \in SUBSET Ids /\ \A i \in starting : i \in 1..n
    BY <1>1, Counted
  <2> HIDE DEF starting
  <2>2. Cardinality(starting) \in Nat
    BY <2>1, Ranks
  <2>3. ASSUME NEW k \in 1..Cardinality(starting) PROVE Message("manifest", first(k)) \in Controls(n)
    <3>1. first(k) \in starting
      BY <2>1, Ranks
    <3>2. first(k) \in 1..n
      BY <2>1, <3>1
    <3>3. "manifest" \in OfTransfer
      BY DEF OfTransfer
    <3> HIDE DEF first
    <3>4. QED
      BY <3>2, <3>3, Says
  <2>4. Manifests \in [1..Cardinality(starting) -> Controls(n)]
    BY <2>3
  <2> HIDE DEF Manifests
  <2>5. QED
    BY <2>2, <2>4, SeqDef
<1>5. CASE snd' = [i \in Ids |-> New(i)] /\ toR' = toR \o Manifests
  <2>1. OnePerId([i \in Ids |-> New(i)], Queue, n)
    <3> HIDE DEF New
    <3>1. QED
      BY <1>3 DEF OnePerId
  <2> HIDE DEF New, Manifests
  <2>2. toR \o Manifests \in Seq(Controls(n))
    BY <1>4
  <2>3. QED
    BY <1>5, <2>1, <2>2
<1>6. CASE snd' = s /\ toR' = toR
  BY <1>6
<1>7. QED
  BY <1>2, <1>5, <1>6

\* A message is sent or not.
LEMMA Sends ==
    ASSUME NEW n \in 0..MaxTransfers, NEW m \in Controls(n)
    PROVE  /\ toR \in Seq(Controls(n)) /\ SendToR(m) => toR' \in Seq(Controls(n))
           /\ toS \in Seq(Controls(n)) /\ SendToS(m) => toS' \in Seq(Controls(n))
<1>1. \A s \in Seq(Controls(n)) : Append(s, m) \in Seq(Controls(n))
  OBVIOUS
<1>2. QED
  BY <1>1 DEF SendToR, SendToS

LEMMA Offers ==
    ASSUME SenderShape, toR \in Seq(Controls(used)), used < MaxTransfers, Offer(used + 1)
    PROVE  /\ used' \in 0..MaxTransfers /\ used <= used' /\ OnePerId(snd', Queue, used')
           /\ toR' \in Seq(Controls(used'))
<1>1. used \in 0..MaxTransfers /\ used' = used + 1 /\ used' \in 0..MaxTransfers /\ used <= used' /\ used + 1 \in 1..used'
  BY Counted DEF SenderShape, Offer
<1>2. OnePerId(snd, Queue, used') /\ Controls(used) \subseteq Controls(used')
  BY <1>1, Widens DEF SenderShape
<1>3. used + 1 \in Ids
  BY <1>1, Counted
<1>4. OnePerId(snd', Queue, used')
  <2>1. PICK i \in Ids : i = used + 1 /\ i <= used'
    BY <1>1, <1>3, Counted
  <2>2. snd' = [snd EXCEPT ![i] = {NewQueued}]
    BY <2>1 DEF Offer
  <2>3. OnePerId([snd EXCEPT ![i] = {NewQueued}], Queue, used')
    BY <1>2, <2>1, NewInQueue, OneOfId
  <2>4. QED
    BY <2>2, <2>3
<1>5. Message("offer", used + 1) \in Controls(used')
  <2>1. "offer" \in OfTransfer
    BY DEF OfTransfer
  <2>2. QED
    BY <1>1, <2>1, Says
<1>6. toR \in Seq(Controls(used'))
  BY <1>2
<1>7. SendToR(Message("offer", used + 1))
  BY DEF Offer
<1>8. toR' \in Seq(Controls(used'))
  BY <1>1, <1>5, <1>6, <1>7, Sends
<1>9. QED
  BY <1>1, <1>4, <1>8

LEMMA Cancels ==
    ASSUME SenderShape, NEW i \in Ids
    PROVE  OnePerId(Cancelled(i), Queue, used) /\ OnePerId(Confirmed(i), Queue, used)
<1> DEFINE c(q) == [q EXCEPT !.cancelled = TRUE, !.paused = FALSE, !.awaiting = FALSE]
           d(q) == [q EXCEPT !.awaiting = FALSE, !.gone = TRUE]
           e == IF \E q \in snd[i] : q.run = "no" THEN {} ELSE {c(q) : q \in snd[i]}
           f == {d(q) : q \in {p \in snd[i] : p.run # "no"}}
<1>1. OnePerId(snd, Queue, used) /\ snd \in [Ids -> SUBSET Queue]
  BY DEF SenderShape, OnePerId
<1>2. Cancelled(i) = [snd EXCEPT ![i] = e] /\ Confirmed(i) = [snd EXCEPT ![i] = f]
  BY <1>1 DEF Cancelled, Confirmed
<1>3. ASSUME NEW x \in Queue, snd[i] = {x} PROVE (e = {} \/ \E y \in Queue : e = {y}) /\ (f = {} \/ \E y \in Queue : f = {y})
  <2>1. c(x) \in Queue /\ d(x) \in Queue
    BY QueueChanges
  <2>2. (e = {} \/ e = {c(x)}) /\ (f = {} \/ f = {d(x)})
    BY <1>3
  <2> HIDE DEF c, d, e, f
  <2>3. QED
    BY <2>1, <2>2
<1>4. snd[i] = {} => e = {} /\ f = {}
  OBVIOUS
<1> HIDE DEF e, f
<1>5. OnePerId([snd EXCEPT ![i] = e], Queue, used)
  BY <1>1, <1>3, <1>4, Rewritten
<1>6. OnePerId([snd EXCEPT ![i] = f], Queue, used)
  BY <1>1, <1>3, <1>4, Rewritten
<1>7. QED
  BY <1>2, <1>5, <1>6

---------------------------------------------------------------------------
\* What the sender does leaves the receiver alone.
SenderGoes ==
    /\ used' \in 0..MaxTransfers /\ used <= used' /\ OnePerId(snd', Queue, used') /\ reported' \subseteq Ids
    /\ toR' \in Seq(Controls(used')) /\ toS' \in Seq(Controls(used')) /\ data' \in Seq(Frames(used'))

LEMMA Wider ==
    ASSUME NEW m \in 0..MaxTransfers, NEW n \in 0..MaxTransfers, m <= n
    PROVE  /\ \A s \in Seq(Controls(m)) : s \in Seq(Controls(n))
           /\ \A s \in Seq(Frames(m)) : s \in Seq(Frames(n))
<1>1. Controls(m) \subseteq Controls(n) /\ Frames(m) \subseteq Frames(n)
  BY Widens
<1>2. QED
  BY <1>1

LEMMA SenderStays ==
    ASSUME Shape, UNCHANGED <<snd, used, reported>>,
           toR' \in Seq(Controls(used)), toS' \in Seq(Controls(used)), data' \in Seq(Frames(used))
    PROVE  SenderGoes
<1>1. used <= used
  BY Counted DEF Shape, SenderShape
<1>2. QED
  BY <1>1 DEF SenderGoes, Shape, SenderShape

LEMMA SenderChanges ==
    ASSUME Shape, UNCHANGED <<used, reported>>, OnePerId(snd', Queue, used),
           toR' \in Seq(Controls(used)), toS' \in Seq(Controls(used)), data' \in Seq(Frames(used))
    PROVE  SenderGoes
<1>1. used <= used
  BY Counted DEF Shape, SenderShape
<1>2. QED
  BY <1>1 DEF SenderGoes, Shape, SenderShape

\* An entry of the queue.
LEMMA InQueue ==
    ASSUME Shape, NEW i \in Ids, Queued(i)
    PROVE  Q(i) \in Queue /\ i \in 1..used /\ OnePerId(snd, Queue, used) /\ used \in 0..MaxTransfers /\ snd[i] = {Q(i)}
<1>1. OnePerId(snd, Queue, used) /\ used \in 0..MaxTransfers /\ i \in Nat /\ i >= 1
  BY Counted DEF Shape, SenderShape
<1>2. i <= used /\ Q(i) \in Queue /\ snd[i] = {Q(i)}
  BY <1>1, OneOfId DEF Queued, Q
<1>3. QED
  BY <1>1, <1>2

LEMMA Changes ==
    ASSUME Shape, NEW i \in Ids, Queued(i), NEW q \in Queue
    PROVE  OnePerId(Change(i, q), Queue, used) /\ OnePerId(Ended(i, q), Queue, used) /\ OnePerId([snd EXCEPT ![i] = {}], Queue, used)
<1>1. i <= used /\ OnePerId(snd, Queue, used)
  BY InQueue, Counted
<1>2. OnePerId([snd EXCEPT ![i] = {q}], Queue, used) /\ OnePerId([snd EXCEPT ![i] = {}], Queue, used)
  BY <1>1, OneOfId
<1>3. QED
  BY <1>2 DEF Change, Ended

LEMMA Takes ==
    ASSUME Shape, NEW i \in Ids, TakeChunk(i)
    PROVE  SenderGoes
<1> DEFINE c == CHOOSE c \in Q(i).todo : \A k \in Q(i).todo : c <= k
           q == [Q(i) EXCEPT !.chunk = c, !.todo = @ \ {c}]
<1>1. Queued(i) /\ snd' = Change(i, q) /\ Q(i).todo # {} /\ UNCHANGED <<used, reported, toR, toS, data>>
  BY DEF TakeChunk, net
<1>2. Q(i) \in Queue
  BY <1>1, InQueue
<1>3. Q(i).todo \in SUBSET Nat
  BY <1>2, Counted DEF Queue
<1>4. c \in Q(i).todo
  BY <1>1, <1>3, LeastOf
<1> HIDE DEF c
<1>5. q \in Queue
  BY <1>2, <1>4, QueueChanges
<1> HIDE DEF q
<1>6. OnePerId(snd', Queue, used)
  BY <1>1, <1>5, Changes
<1>7. QED
  BY <1>1, <1>6, SenderChanges DEF Shape, NetShape

LEMMA SendsChunk ==
    ASSUME Shape, NEW i \in Ids, SendChunk(i)
    PROVE  SenderGoes
<1> DEFINE f == [id |-> i, chunk |-> Q(i).chunk, bad |-> Q(i).chunk \in bad]
           q == [Q(i) EXCEPT !.chunk = 0]
<1>1. Queued(i) /\ snd' = Change(i, q) /\ data' = Append(data, f) /\ Q(i).chunk # 0 /\ UNCHANGED <<used, reported, toR, toS>>
  BY DEF SendChunk
<1>2. Q(i) \in Queue /\ i \in 1..used
  BY <1>1, InQueue
<1>3. f \in Frames(used)
  <2> DEFINE c == Q(i).chunk
             b == c \in bad
  <2>1. c \in Chunks
    BY <1>1, <1>2, QueueChanges
  <2>2. b \in BOOLEAN
    OBVIOUS
  <2>3. f = [id |-> i, chunk |-> c, bad |-> b]
    OBVIOUS
  <2> HIDE DEF b, c, f
  <2>4. QED
    BY <1>2, <2>1, <2>2, <2>3 DEF Frames
<1>4. q \in Queue
  BY <1>2, QueueChanges
<1> HIDE DEF q, f
<1>5. OnePerId(snd', Queue, used)
  BY <1>1, <1>4, Changes
<1>6. data' \in Seq(Frames(used))
  BY <1>1, <1>3 DEF Shape, NetShape
<1>7. QED
  BY <1>1, <1>5, <1>6, SenderChanges DEF Shape, NetShape

LEMMA RunEnds ==
    ASSUME Shape, NEW i \in Ids, RunCancelled(i) \/ RunFails(i)
    PROVE  SenderGoes
<1> DEFINE q == [Q(i) EXCEPT !.run = "no", !.chunk = 0, !.todo = {}]
<1>1. Queued(i) /\ UNCHANGED <<used, reported, toS, data>> /\ (Pump([snd EXCEPT ![i] = {}]) \/ Pump(Ended(i, q)))
  BY DEF RunCancelled, RunFails
<1>2. Q(i) \in Queue
  BY <1>1, InQueue
<1>3. q \in Queue
  BY <1>2, QueueChanges
<1> HIDE DEF q
<1>4. OnePerId([snd EXCEPT ![i] = {}], Queue, used) /\ OnePerId(Ended(i, q), Queue, used)
  BY <1>1, <1>3, Changes
<1>5. used \in 0..MaxTransfers /\ toR \in Seq(Controls(used))
  BY DEF Shape, SenderShape, NetShape
<1>6. OnePerId(snd', Queue, used) /\ toR' \in Seq(Controls(used))
  BY <1>1, <1>4, <1>5, Pumps
<1>7. QED
  BY <1>1, <1>6, SenderChanges DEF Shape, NetShape

LEMMA RunIsOver ==
    ASSUME Shape, NEW i \in Ids, RunCompletes(i)
    PROVE  SenderGoes
<1> DEFINE q == [Q(i) EXCEPT !.awaiting = TRUE, !.run = "no"]
<1>1. Queued(i) /\ UNCHANGED <<used, reported, toS, data>> /\ snd' = Ended(i, q) /\ toR' = Append(toR, Message("complete", i))
  BY DEF RunCompletes
<1>2. Q(i) \in Queue /\ i \in 1..used /\ used \in 0..MaxTransfers
  BY <1>1, InQueue
<1>3. q \in Queue
  BY <1>2, QueueChanges
<1>4. Message("complete", i) \in Controls(used)
  BY <1>2, Says DEF OfTransfer
<1>5. OnePerId(snd', Queue, used)
  BY <1>1, <1>3, Changes
<1>6. toR' \in Seq(Controls(used))
  BY <1>1, <1>4 DEF Shape, NetShape
<1>7. QED
  BY <1>1, <1>5, <1>6, SenderChanges DEF Shape, NetShape

LEMMA FileIsSent ==
    ASSUME Shape, SendFile
    PROVE  SenderGoes
<1>1. used < MaxTransfers /\ Offer(used + 1) /\ UNCHANGED <<reported, toS, data>>
  BY DEF SendFile
<1>2. used' \in 0..MaxTransfers /\ used <= used' /\ OnePerId(snd', Queue, used') /\ toR' \in Seq(Controls(used'))
  BY <1>1, Offers DEF Shape, NetShape
<1>3. toS \in Seq(Controls(used')) /\ data \in Seq(Frames(used'))
  BY <1>2, Wider DEF Shape, SenderShape, NetShape
<1>4. QED
  BY <1>1, <1>2, <1>3 DEF SenderGoes, Shape, SenderShape

\* The head of a channel.
LEMMA HeadTail ==
    ASSUME NEW S, NEW s \in Seq(S), s # <<>>
    PROVE  Head(s) \in S /\ Tail(s) \in Seq(S)
OBVIOUS

LEMMA Serves ==
    ASSUME Shape, Serve
    PROVE  used' \in 0..MaxTransfers /\ used <= used' /\ OnePerId(snd', Queue, used') /\ toR' \in Seq(Controls(used'))
<1>1. used \in 0..MaxTransfers /\ OnePerId(snd, Queue, used) /\ toR \in Seq(Controls(used)) /\ used <= used
  BY Counted DEF Shape, SenderShape, NetShape
<1>2. CASE used < MaxTransfers /\ Offer(used + 1)
  BY <1>2, Offers DEF Shape, NetShape
<1>3. CASE SendToR(Message("unavailable", 0)) /\ UNCHANGED <<snd, used>>
  <2>1. Message("unavailable", 0) \in Controls(used)
    BY <1>1, SaysOfFile DEF OfFile
  <2>2. toR' \in Seq(Controls(used))
    BY <1>1, <1>3, <2>1, Sends
  <2>3. QED
    BY <1>1, <1>3, <2>2
<1>4. QED
  BY <1>2, <1>3 DEF Serve

\* A message of a transfer names one that is offered.
LEMMA OfOffered ==
    ASSUME NEW n \in 0..MaxTransfers, NEW m \in Controls(n)
    PROVE  m.missing \in SUBSET Chunks /\ m.id \in 0..n /\ (m.type \in OfTransfer => m.id \in Ids)
BY Counted DEF Controls

\* The transfer resumes, with what R lacks.
LEMMA Resumes ==
    ASSUME Shape, NEW i \in Ids, Queued(i), NEW missing \in SUBSET Chunks, Pump(Change(i, Resumed(Q(i), missing)))
    PROVE  OnePerId(snd', Queue, used) /\ toR' \in Seq(Controls(used))
<1>1. Q(i) \in Queue /\ used \in 0..MaxTransfers /\ toR \in Seq(Controls(used))
  BY InQueue DEF Shape, NetShape
<1>2. Resumed(Q(i), missing) \in Queue
  BY <1>1, QueueChanges
<1>3. OnePerId(Change(i, Resumed(Q(i), missing)), Queue, used)
  BY <1>2, Changes
<1>4. QED
  BY <1>1, <1>3, Pumps

LEMMA SenderHears ==
    ASSUME Shape, SenderControl
    PROVE  SenderGoes
<1> DEFINE m == Head(toS)
           i == m.id
           Known == Queued(i) /\ ~Q(i).cancelled /\ ~Q(i).gone
<1>1. /\ toS # <<>> /\ toS' = Tail(toS) /\ data' = data
      /\ used \in 0..MaxTransfers /\ OnePerId(snd, Queue, used) /\ reported \subseteq Ids
      /\ toR \in Seq(Controls(used)) /\ toS \in Seq(Controls(used)) /\ data \in Seq(Frames(used))
  BY DEF SenderControl, Shape, SenderShape, NetShape
<1>2. m \in Controls(used) /\ toS' \in Seq(Controls(used))
  BY <1>1, HeadTail
<1>3. m.missing \in SUBSET Chunks /\ (m.type \in OfTransfer => i \in Ids)
  BY <1>1, <1>2, OfOffered
<1> HIDE DEF m
<1>4. CASE UNCHANGED <<snd, used, reported, toR>>
  BY <1>1, <1>2, <1>4, SenderStays
<1>5. CASE UNCHANGED <<snd, used, reported>> /\ (SendSyncManifest \/ SendSyncItems)
  <2>1. /\ Message("listed", 0) \in Controls(used) /\ Message("nothing", 0) \in Controls(used)
        /\ Message("items", 0) \in Controls(used)
    BY <1>1, SaysOfFile DEF OfFile
  <2>2. \/ SendToR(Message("listed", 0)) \/ SendToR(Message("nothing", 0)) \/ SendToR(Message("items", 0)) \/ toR' = toR
    BY <1>5 DEF SendSyncManifest, SendSyncItems
  <2>3. toR' \in Seq(Controls(used))
    BY <1>1, <2>1, <2>2, Sends
  <2>4. QED
    BY <1>1, <1>2, <1>5, <2>3, SenderStays
<1>6. CASE Serve /\ reported' = reported
  <2>1. used' \in 0..MaxTransfers /\ used <= used' /\ OnePerId(snd', Queue, used') /\ toR' \in Seq(Controls(used'))
    BY <1>6, Serves
  <2>2. toS' \in Seq(Controls(used')) /\ data' \in Seq(Frames(used'))
    BY <1>1, <1>2, <2>1, Wider
  <2>3. QED
    BY <1>1, <1>6, <2>1, <2>2 DEF SenderGoes
<1>7. CASE m.type \in {"accept", "need", "resume"} /\ Known /\ UNCHANGED <<used, reported>>
            /\ \E missing \in {Chunks, m.missing, Q(i).missing} : Pump(Change(i, Resumed(Q(i), missing)))
  <2>1. i \in Ids /\ Queued(i)
    BY <1>3, <1>7 DEF OfTransfer
  <2>2. Q(i) \in Queue
    BY <2>1, InQueue
  <2>3. \A missing \in {Chunks, m.missing, Q(i).missing} : missing \in SUBSET Chunks
    BY <1>3, <2>2, QueueChanges
  <2>4. OnePerId(snd', Queue, used) /\ toR' \in Seq(Controls(used))
    BY <1>7, <2>1, <2>3, Resumes
  <2>5. QED
    BY <1>1, <1>2, <1>7, <2>4, SenderChanges
<1>8. CASE m.type = "pause" /\ Known /\ snd' = Change(i, [Q(i) EXCEPT !.paused = TRUE]) /\ UNCHANGED <<used, reported, toR>>
  <2>1. i \in Ids /\ Queued(i)
    BY <1>3, <1>8 DEF OfTransfer
  <2>2. [Q(i) EXCEPT !.paused = TRUE] \in Queue
    BY <2>1, InQueue, QueueChanges
  <2>3. OnePerId(snd', Queue, used)
    BY <1>8, <2>1, <2>2, Changes
  <2>4. QED
    BY <1>1, <1>2, <1>8, <2>3, SenderChanges
<1>9. CASE m.type \in {"cancel", "reject"} /\ snd' = Cancelled(i) /\ UNCHANGED <<used, reported, toR>>
  <2>1. i \in Ids
    BY <1>3, <1>9 DEF OfTransfer
  <2>2. OnePerId(snd', Queue, used)
    BY <1>9, <2>1, Cancels DEF Shape
  <2>3. QED
    BY <1>1, <1>2, <1>9, <2>2, SenderChanges
<1>10. CASE m.type = "complete" /\ snd' = Confirmed(i) /\ reported' = reported \cup {i} /\ UNCHANGED <<used, toR>>
  <2>1. i \in Ids
    BY <1>3, <1>10 DEF OfTransfer
  <2>2. OnePerId(snd', Queue, used) /\ used <= used
    BY <1>1, <1>10, <2>1, Cancels, Counted DEF Shape
  <2>3. QED
    BY <1>1, <1>2, <1>10, <2>1, <2>2 DEF SenderGoes
<1> DEFINE Goal == \/ UNCHANGED <<snd, used, reported, toR>>
                   \/ UNCHANGED <<snd, used, reported>> /\ (SendSyncManifest \/ SendSyncItems)
                   \/ Serve /\ reported' = reported
                   \/ m.type \in {"accept", "need", "resume"} /\ Known /\ UNCHANGED <<used, reported>>
                      /\ \E missing \in {Chunks, m.missing, Q(i).missing} : Pump(Change(i, Resumed(Q(i), missing)))
                   \/ m.type = "pause" /\ Known /\ snd' = Change(i, [Q(i) EXCEPT !.paused = TRUE]) /\ UNCHANGED <<used, reported, toR>>
                   \/ m.type \in {"cancel", "reject"} /\ snd' = Cancelled(i) /\ UNCHANGED <<used, reported, toR>>
                   \/ m.type = "complete" /\ snd' = Confirmed(i) /\ reported' = reported \cup {i} /\ UNCHANGED <<used, toR>>
<1>11. Goal
  <2> USE DEF SenderControl
  <2>1. CASE m.type \in {"hello", "want", "request"}
    BY <2>1 DEF m
  <2>2. CASE m.type \in {"accept", "need", "resume"} /\ Known
    BY <2>2 DEF m
  <2>3. CASE m.type \in {"pause", "cancel", "reject", "complete"} /\ Known
    BY <2>3 DEF m
  <2>4. CASE ~(m.type \in {"hello", "want", "request"}) /\ ~Known
    BY <2>4 DEF m
  <2>5. CASE m.type \notin {"hello", "want", "request", "accept", "need", "resume", "pause", "cancel", "reject", "complete"}
    BY <2>5 DEF m
  <2> HIDE DEF Known
  <2>6. QED
    BY <2>1, <2>2, <2>3, <2>4, <2>5
<1> HIDE DEF Known
<1>12. QED
  BY <1>4, <1>5, <1>6, <1>7, <1>8, <1>9, <1>10, <1>11

\* The user of the sender pauses, resumes or cancels.
LEMMA SenderIsTold ==
    ASSUME Shape, NEW i \in Ids, PauseAtS(i) \/ ResumeAtS(i) \/ CancelAtS(i)
    PROVE  SenderGoes
<1>1. /\ used \in 0..MaxTransfers /\ toR \in Seq(Controls(used)) /\ toS \in Seq(Controls(used))
      /\ data \in Seq(Frames(used))
  BY DEF Shape, SenderShape, NetShape
<1>2. Queued(i) /\ UNCHANGED <<used, reported, toS, data>>
  BY DEF PauseAtS, ResumeAtS, CancelAtS
<1>3. Q(i) \in Queue /\ i \in 1..used
  BY <1>2, InQueue
<1>4. /\ Message("pause", i) \in Controls(used) /\ Message("cancel", i) \in Controls(used)
      /\ Message("manifest", i) \in Controls(used) /\ Message("resume", i) \in Controls(used)
  BY <1>1, <1>3, Says DEF OfTransfer
<1>5. CASE PauseAtS(i)
  <2>1. [Q(i) EXCEPT !.paused = TRUE] \in Queue
    BY <1>3, QueueChanges
  <2>2. OnePerId(snd', Queue, used)
    BY <1>2, <1>5, <2>1, Changes DEF PauseAtS
  <2>3. toR' \in Seq(Controls(used))
    BY <1>1, <1>4, <1>5, Sends DEF PauseAtS
  <2>4. QED
    BY <1>1, <1>2, <2>2, <2>3, SenderChanges
<1>6. CASE ResumeAtS(i)
  <2> DEFINE r == Resumed(Q(i), Q(i).missing)
             todo == IF Q(i).run = "no" THEN Q(i).missing ELSE Q(i).todo
             q == [r EXCEPT !.run = "chunks", !.todo = todo]
  <2>1. r \in Queue /\ todo \in SUBSET Chunks
    BY <1>3, QueueChanges
  <2> HIDE DEF r, todo
  <2>2. q \in Queue
    BY <2>1 DEF Queue
  <2>3. snd' = Change(i, q)
    BY <1>6 DEF ResumeAtS, r, todo
  <2>4. OnePerId(snd', Queue, used)
    BY <1>2, <2>2, <2>3, Changes
  <2>5. PICK a \in {<<>>, <<Message("manifest", i)>>} : toR' = toR \o a \o <<Message("resume", i)>>
    BY <1>6 DEF ResumeAtS
  <2>6. a \in Seq(Controls(used)) /\ <<Message("resume", i)>> \in Seq(Controls(used))
    <3> DEFINE x == Message("manifest", i)
               y == Message("resume", i)
    <3>1. x \in Controls(used) /\ y \in Controls(used) /\ (a = <<>> \/ a = <<x>>)
      BY <1>4, <2>5
    <3> HIDE DEF x, y
    <3>2. \A S : \A z \in S : <<z>> \in Seq(S) /\ <<>> \in Seq(S)
      OBVIOUS
    <3>3. <<x>> \in Seq(Controls(used)) /\ <<>> \in Seq(Controls(used)) /\ <<y>> \in Seq(Controls(used))
      BY <3>1, <3>2
    <3>4. QED
      BY <3>1, <3>3 DEF y
  <2>7. toR' \in Seq(Controls(used))
    BY <1>1, <2>5, <2>6
  <2>8. QED
    BY <1>1, <1>2, <2>4, <2>7, SenderChanges
<1>7. CASE CancelAtS(i)
  <2>1. OnePerId(snd', Queue, used)
    BY <1>7, Cancels DEF CancelAtS, Shape
  <2>2. toR' \in Seq(Controls(used))
    BY <1>1, <1>4, <1>7, Sends DEF CancelAtS
  <2>3. QED
    BY <1>1, <1>2, <2>1, <2>2, SenderChanges
<1>8. QED
  BY <1>5, <1>6, <1>7

LEMMA LinkGoes ==
    ASSUME Shape, Break \/ Reconnect \/ RestartS \/ \E c \in Chunks : SourceChanges(c)
    PROVE  SenderGoes
<1>1. /\ used \in 0..MaxTransfers /\ toR \in Seq(Controls(used)) /\ toS \in Seq(Controls(used))
      /\ data \in Seq(Frames(used)) /\ OnePerId(snd, Queue, used)
  BY DEF Shape, SenderShape, NetShape
<1>2. <<>> \in Seq(Controls(used)) /\ <<>> \in Seq(Frames(used)) /\ <<Message("hello", 0)>> \in Seq(Controls(used))
  <2>1. Message("hello", 0) \in Controls(used)
    BY <1>1, SaysOfFile DEF OfFile
  <2>2. QED
    BY <2>1
<1>3. OnePerId([i \in Ids |-> {}], Queue, used)
  BY DEF OnePerId
<1>4. CASE Break \/ \E c \in Chunks : SourceChanges(c)
  BY <1>1, <1>2, <1>4, SenderStays DEF Break, Drop, SourceChanges, sender, net
<1>5. CASE Reconnect
  BY <1>1, <1>2, <1>5, SenderStays DEF Reconnect, sender
<1>6. CASE RestartS
  BY <1>1, <1>2, <1>3, <1>6, SenderChanges DEF RestartS, Drop
<1>7. QED
  BY <1>4, <1>5, <1>6

SenderSide == SendFile \/ SenderControl \/ Break \/ Reconnect \/ RestartS \/ (\E c \in Chunks : SourceChanges(c))
              \/ \E i \in Ids : SenderStep(i) \/ PauseAtS(i) \/ ResumeAtS(i) \/ CancelAtS(i)

LEMMA SenderSideGoes ==
    ASSUME Shape, SenderSide
    PROVE  SenderGoes /\ UNCHANGED <<setup, memory, disk>> /\ (calm = "restarted" => calm' = "restarted")
<1>1. ASSUME NEW i \in Ids, SenderStep(i) PROVE SenderGoes
  BY <1>1, Takes, SendsChunk, RunEnds, RunIsOver DEF SenderStep
<1>2. SenderGoes
  BY <1>1, FileIsSent, SenderHears, LinkGoes, SenderIsTold DEF SenderSide
<1>3. UNCHANGED <<setup, memory, disk>>
  BY DEF SenderSide, SendFile, SenderControl, Break, Reconnect, RestartS, SourceChanges, SenderStep, TakeChunk, SendChunk,
         RunCancelled, RunCompletes, RunFails, PauseAtS, ResumeAtS, CancelAtS
<1>4. calm = "restarted" => calm' = "restarted"
  BY DEF SenderSide, SendFile, SenderControl, Break, Reconnect, RestartS, SourceChanges, SenderStep, TakeChunk, SendChunk,
         RunCancelled, RunCompletes, RunFails, PauseAtS, ResumeAtS, CancelAtS, Calm, Disturb
<1>5. QED
  BY <1>2, <1>3, <1>4

LEMMA SenderLeavesDisk ==
    ASSUME DiskInv, SenderGoes, UNCHANGED <<setup, memory, disk>>, calm = "restarted" => calm' = "restarted"
    PROVE  DiskInv'
<1>1. used \in 0..MaxTransfers /\ used' \in 0..MaxTransfers /\ used <= used'
  BY DEF DiskInv, Shape, SenderShape, SenderGoes
<1>2. SenderShape' /\ NetShape'
  BY DEF SenderGoes, SenderShape, NetShape
<1>3. ReceiverShape'
  <2>1. /\ OnePerId(rcv, Incoming, used') /\ Idle(accepting, AcceptSteps, used') /\ Idle(completing, CompleteSteps, used')
        /\ writes \subseteq Writes(used')
    BY <1>1, Widens DEF DiskInv, Shape, ReceiverShape
  <2>2. QED
    BY <2>1 DEF DiskInv, Shape, ReceiverShape, memory
<1>4. DiskShape'
  <2>1. \A i \in Ids : i > used' => i > used
    BY <1>1, Counted
  <2>2. QED
    BY <2>1 DEF DiskInv, Shape, DiskShape, disk
<1>5. Orphanless'
  <2>1. used > 1 => used' > 1
    BY <1>1
  <2>2. Explained => Explained'
    BY <2>1 DEF Explained, memory, disk, In, Listed
  <2>3. QED
    BY <2>2 DEF DiskInv, Orphanless, Intact, Covered, memory, disk, In, Listed, Held, Key
<1>6. QED
  BY <1>2, <1>3, <1>4, <1>5 DEF DiskInv, Shape

---------------------------------------------------------------------------
\* The receiver's entries.
LEMMA IncomingChanges ==
    ASSUME NEW t \in Incoming
    PROVE  /\ \A s \in {"accepted", "transferring", "paused", "failed"} : [t EXCEPT !.state = s] \in Incoming
           /\ \A b \in BOOLEAN : [t EXCEPT !.state = "cancelled", !.tell = b] \in Incoming
           /\ \A missing \in SUBSET Chunks : /\ [t EXCEPT !.known = TRUE, !.missing = missing, !.state = "transferring"] \in Incoming
                                             /\ [t EXCEPT !.known = TRUE, !.missing = missing] \in Incoming
           /\ [t EXCEPT !.known = TRUE, !.missing = {}, !.state = "verifying"] \in Incoming
           /\ \A c \in Chunks : [t EXCEPT !.received = @ \cup {c}] \in Incoming
           /\ t.missing \in SUBSET Chunks
BY DEF Incoming

LEMMA StocksIncoming ==
    ASSUME NEW t \in Incoming, NEW c \in Chunks
    PROVE  LET u == [t EXCEPT !.received = @ \cup {c}, !.missing = @ \ {c}, !.state = StateAfterWrite(@)] IN u \in Incoming
<1> DEFINE s == StateAfterWrite(t.state)
           r == t.received \cup {c}
           m == t.missing \ {c}
<1>1. s \in {"paused", "transferring"} /\ r \in SUBSET Chunks /\ m \in SUBSET Chunks
  BY DEF StateAfterWrite, Incoming
<1> HIDE DEF s, r, m
<1>2. [t EXCEPT !.received = r, !.missing = m, !.state = s] \in Incoming
  BY <1>1 DEF Incoming
<1>3. QED
  BY <1>2 DEF s, r, m

LEMMA NewIsIncoming == \A auto \in BOOLEAN : NewIncoming(auto) \in Incoming
BY DEF NewIncoming, Incoming

LEMMA InTransfer ==
    ASSUME Shape, NEW i \in Ids, In(i)
    PROVE  T(i) \in Incoming /\ i \in 1..used /\ rcv[i] = {T(i)}
<1>1. OnePerId(rcv, Incoming, used) /\ used \in 0..MaxTransfers /\ i \in Nat /\ i >= 1
  BY Counted DEF Shape, ReceiverShape, SenderShape
<1>2. i <= used /\ T(i) \in Incoming /\ rcv[i] = {T(i)}
  BY <1>1, OneOfId DEF In, T
<1>3. QED
  BY <1>1, <1>2

LEMMA Puts ==
    ASSUME Shape, NEW i, i \in Ids => In(i), NEW t, i \in Ids => t \in Incoming, Put(i, t)
    PROVE  OnePerId(rcv', Incoming, used)
<1>1. OnePerId(rcv, Incoming, used)
  BY DEF Shape, ReceiverShape
<1>2. CASE i \in Ids
  <2>1. OnePerId([rcv EXCEPT ![i] = {t}], Incoming, used)
    BY <1>1, <1>2, OneOfId DEF In
  <2>2. QED
    BY <2>1 DEF Put
<1>3. CASE i \notin Ids
  BY <1>1, <1>3 DEF Put, OnePerId
<1>4. QED
  BY <1>2, <1>3

LEMMA Updates ==
    ASSUME Shape, NEW i, NEW s \in {"paused", "transferring", "failed"}, UpdateState(i, s)
    PROVE  OnePerId(rcv', Incoming, used)
<1> DEFINE t == [T(i) EXCEPT !.state = s]
<1>1. CASE ~In(i)
  BY <1>1 DEF UpdateState, Shape, ReceiverShape
<1>2. CASE In(i)
  <2>1. i \in Ids => t \in Incoming
    BY <1>2, InTransfer, IncomingChanges
  <2>2. Put(i, t)
    BY <1>2 DEF UpdateState
  <2> HIDE DEF t
  <2>3. QED
    BY <1>2, <2>1, <2>2, Puts
<1>3. QED
  BY <1>1, <1>2

LEMMA BeginsCancel ==
    ASSUME Shape, NEW i, NEW b \in BOOLEAN, In(i), BeginCancel(i, b)
    PROVE  OnePerId(rcv', Incoming, used)
<1> DEFINE t == [T(i) EXCEPT !.state = "cancelled", !.tell = b]
<1>1. i \in Ids => t \in Incoming
  BY InTransfer, IncomingChanges
<1>2. Put(i, t)
  BY DEF BeginCancel
<1> HIDE DEF t
<1>3. QED
  BY <1>1, <1>2, Puts

\* A new offer takes its place, or that of one nobody accepted.
LEMMA Enters ==
    ASSUME Shape, NEW i \in 1..used, NEW auto \in BOOLEAN, NEW out,
           rcv' = [j \in Ids |-> IF j = i THEN {NewIncoming(auto)} ELSE IF j \in out THEN {} ELSE rcv[j]]
    PROVE  OnePerId(rcv', Incoming, used)
<1>1. OnePerId(rcv, Incoming, used) /\ i <= used
  BY Counted DEF Shape, SenderShape, ReceiverShape
<1>2. NewIncoming(auto) \in Incoming
  BY NewIsIncoming
<1>3. QED
  BY <1>1, <1>2 DEF OnePerId

LEMMA OffersEnter ==
    ASSUME Shape, NEW i \in 1..used, ReceiveOffer(i)
    PROVE  /\ OnePerId(rcv', Incoming, used) /\ Idle(accepting', AcceptSteps, used)
           /\ UNCHANGED <<completing, writes, verified>> /\ toS' \in Seq(Controls(used))
<1> DEFINE auto == requested \/ ~setup.large
           Enter(out) == /\ rcv' = [j \in Ids |-> IF j = i THEN {NewIncoming(auto)} ELSE IF j \in out THEN {} ELSE rcv[j]]
                         /\ accepting' = IF auto THEN [accepting EXCEPT ![i] = "prepare"] ELSE accepting
<1>1. /\ used \in 0..MaxTransfers /\ i \in Ids /\ i <= used /\ OnePerId(rcv, Incoming, used) /\ Idle(accepting, AcceptSteps, used)
      /\ toS \in Seq(Controls(used))
  BY Counted DEF Shape, SenderShape, ReceiverShape, NetShape
<1>2. /\ UNCHANGED <<rcv, accepting>> \/ Enter({}) \/ \E j \in Ids : Enter({j})
      /\ UNCHANGED <<completing, writes, verified>>
      /\ toS' = toS \/ (\E j \in Ids : In(j) /\ SendToS(Message("reject", j))) \/ SendToS(Message("reject", i))
  <2> DEFINE present == {j \in Ids : In(j)}
             pending == {j \in present : T(j).state = "offered"}
             j == CHOOSE j \in pending : \A k \in pending : j <= k
  <2>1. CASE pending # {}
    <3>1. j \in pending
      BY <2>1, OldestOffer
    <3>2. j \in Ids /\ In(j)
      BY <3>1
    <3>3. \/ UNCHANGED <<rcv, accepting>> /\ toS' = toS
          \/ Enter({}) /\ toS' = toS
          \/ Enter({j}) /\ SendToS(Message("reject", j))
      BY <2>1 DEF ReceiveOffer, memory
    <3>4. UNCHANGED <<completing, writes, verified>>
      BY <2>1 DEF ReceiveOffer, memory
    <3> HIDE DEF Enter, j
    <3>5. QED
      BY <3>2, <3>3, <3>4
  <2>2. CASE pending = {}
    <3>1. UNCHANGED <<rcv, accepting>> \/ Enter({})
      BY <2>2 DEF ReceiveOffer, memory
    <3>2. UNCHANGED <<completing, writes, verified>>
      BY <2>2 DEF ReceiveOffer, memory
    <3>3. toS' = toS \/ SendToS(Message("reject", i))
      BY <2>2 DEF ReceiveOffer, memory
    <3>4. QED
      BY <3>1, <3>2, <3>3
  <2>3. QED
    BY <2>1, <2>2
<1>3. ASSUME NEW out, Enter(out) PROVE OnePerId(rcv', Incoming, used) /\ Idle(accepting', AcceptSteps, used)
  <2>1. auto \in BOOLEAN
    OBVIOUS
  <2> HIDE DEF auto
  <2>2. OnePerId(rcv', Incoming, used)
    BY <1>3, <2>1, Enters
  <2>3. Idle(accepting', AcceptSteps, used)
    BY <1>1, <1>3, Counted DEF Idle, AcceptSteps
  <2>4. QED
    BY <2>2, <2>3
<1> HIDE DEF Enter
<1>4. toS' \in Seq(Controls(used))
  <2>1. ASSUME NEW j \in Ids, In(j) PROVE Message("reject", j) \in Controls(used)
    BY <1>1, <2>1, InTransfer, Says DEF OfTransfer
  <2>2. Message("reject", i) \in Controls(used)
    BY <1>1, Says DEF OfTransfer
  <2>3. QED
    BY <1>1, <1>2, <2>1, <2>2, Sends
<1>5. QED
  BY <1>1, <1>2, <1>3, <1>4

---------------------------------------------------------------------------
\* What the receiver does leaves the sender alone.
ReceiverGoes ==
    /\ UNCHANGED <<setup, snd, used, reported>>
    /\ OnePerId(rcv', Incoming, used) /\ Idle(accepting', AcceptSteps, used) /\ Idle(completing', CompleteSteps, used)
    /\ verified' \subseteq Ids /\ writes' \subseteq Writes(used)
    /\ toR' \in Seq(Controls(used)) /\ toS' \in Seq(Controls(used)) /\ data' \in Seq(Frames(used))

ReceiverState ==
    /\ used \in 0..MaxTransfers /\ reported \subseteq Ids
    /\ OnePerId(rcv, Incoming, used) /\ Idle(accepting, AcceptSteps, used) /\ Idle(completing, CompleteSteps, used)
    /\ verified \subseteq Ids /\ writes \subseteq Writes(used)
    /\ toR \in Seq(Controls(used)) /\ toS \in Seq(Controls(used)) /\ data \in Seq(Frames(used))

LEMMA StateOfReceiver == Shape => ReceiverState
BY DEF Shape, SenderShape, ReceiverShape, NetShape, ReceiverState

LEMMA StepChanges ==
    ASSUME NEW f, NEW Values, NEW n, Idle(f, Values, n), NEW i, NEW v \in Values, i \in Ids => ~(i > n) \/ v = "no"
    PROVE  Idle([f EXCEPT ![i] = v], Values, n)
<1>1. f \in [Ids -> Values] /\ \A j \in Ids : j > n => f[j] = "no"
  BY DEF Idle
<1> DEFINE g == [f EXCEPT ![i] = v]
<1>2. g \in [Ids -> Values] /\ \A j \in Ids : g[j] = IF j = i THEN v ELSE f[j]
  BY <1>1
<1> HIDE DEF g
<1>3. ASSUME NEW j \in Ids, j > n PROVE g[j] = "no"
  <2>1. j # i \/ v = "no"
    BY <1>3
  <2>2. QED
    BY <1>1, <1>2, <1>3, <2>1
<1>4. QED
  BY <1>2, <1>3 DEF Idle, g

LEMMA IsBusy ==
    ASSUME Shape, NEW i \in Ids, accepting[i] # "no" \/ completing[i] # "no" \/ In(i)
    PROVE  i \in 1..used /\ i <= used
<1>1. accepting[i] # "no" \/ completing[i] # "no" => i <= used
  <2>1. i \in Nat /\ used \in Nat
    BY Counted DEF Shape, SenderShape
  <2>2. QED
    BY <2>1 DEF Shape, ReceiverShape, Idle
<1>2. In(i) => i <= used
  BY InTransfer, Counted
<1>3. QED
  BY <1>1, <1>2, Counted

LEMMA ChunkArrives ==
    ASSUME Shape, ReceiveChunk
    PROVE  ReceiverGoes
<1> DEFINE f == Head(data)
           w == [id |-> f.id, chunk |-> f.chunk, bad |-> f.bad, step |-> "verify"]
<1>1. ReceiverState
  BY StateOfReceiver
<1>2. /\ data # <<>> /\ data' = Tail(data) /\ (writes' = writes \/ writes' = writes \cup {w})
      /\ UNCHANGED <<setup, snd, used, reported, rcv, accepting, completing, verified, toR, toS>>
  BY DEF ReceiveChunk, sender
<1>3. f \in Frames(used) /\ data' \in Seq(Frames(used))
  BY <1>1, <1>2, HeadTail DEF ReceiverState
<1> HIDE DEF f
<1>4. w \in Writes(used)
  BY <1>3 DEF Frames, Writes
<1> HIDE DEF w
<1>5. QED
  BY <1>1, <1>2, <1>3, <1>4 DEF ReceiverState, ReceiverGoes

LEMMA ReceiverHears ==
    ASSUME Shape, ReceiverControl
    PROVE  ReceiverGoes
<1> DEFINE m == Head(toR)
           i == m.id
<1>1. ReceiverState
  BY StateOfReceiver
<1>2. toR # <<>> /\ toR' = Tail(toR) /\ UNCHANGED <<setup, snd, used, reported, data>>
  BY DEF ReceiverControl, sender
<1>3. m \in Controls(used) /\ toR' \in Seq(Controls(used))
  BY <1>1, <1>2, HeadTail DEF ReceiverState
<1>4. m.type \in OfTransfer => i \in Ids /\ i \in 1..used
  BY <1>1, <1>3, Counted DEF Controls, ReceiverState
<1> HIDE DEF m
<1>5. CASE m.type \in {"offer", "manifest"}
  <2>1. ReceiveOffer(i) /\ i \in 1..used
    BY <1>4, <1>5 DEF ReceiverControl, m, OfTransfer
  <2>2. /\ OnePerId(rcv', Incoming, used) /\ Idle(accepting', AcceptSteps, used)
        /\ UNCHANGED <<completing, writes, verified>> /\ toS' \in Seq(Controls(used))
    BY <2>1, OffersEnter
  <2>3. QED
    BY <1>1, <1>2, <1>3, <2>2 DEF ReceiverState, ReceiverGoes
<1>6. CASE m.type \in {"listed", "items", "unavailable"}
  <2>1. UNCHANGED <<rcv, accepting, completing, writes, verified>> /\ (toS' = toS \/ SendToS(Message("want", 0)))
    BY <1>6 DEF ReceiverControl, m, memory, AcceptSyncManifest
  <2>2. Message("want", 0) \in Controls(used)
    BY <1>1, SaysOfFile DEF OfFile, ReceiverState
  <2>3. toS' \in Seq(Controls(used))
    BY <1>1, <2>1, <2>2, Sends DEF ReceiverState
  <2>4. QED
    BY <1>1, <1>2, <1>3, <2>1, <2>3 DEF ReceiverState, ReceiverGoes
<1>7. CASE m.type \in {"pause", "resume"}
  <2>1. (UpdateState(i, "paused") \/ UpdateState(i, "transferring")) /\ UNCHANGED <<accepting, completing, writes, verified, toS>>
    BY <1>7 DEF ReceiverControl, m
  <2>2. OnePerId(rcv', Incoming, used)
    BY <2>1, Updates
  <2>3. QED
    BY <1>1, <1>2, <1>3, <2>1, <2>2 DEF ReceiverState, ReceiverGoes
<1>8. CASE m.type = "cancel" /\ In(i)
  <2>1. BeginCancel(i, FALSE) /\ UNCHANGED <<accepting, completing, writes, verified, toS>>
    BY <1>8 DEF ReceiverControl, m
  <2>2. OnePerId(rcv', Incoming, used)
    BY <1>8, <2>1, BeginsCancel
  <2>3. QED
    BY <1>1, <1>2, <1>3, <2>1, <2>2 DEF ReceiverState, ReceiverGoes
<1>9. CASE m.type = "complete" /\ completing' = [completing EXCEPT ![i] = "wait"] /\ UNCHANGED <<rcv, accepting, writes, verified, toS>>
  <2>1. i \in 1..used
    BY <1>4, <1>9 DEF OfTransfer
  <2>2. ~(i > used) /\ "wait" \in CompleteSteps /\ Idle(completing, CompleteSteps, used)
    BY <1>1, <2>1, Counted DEF CompleteSteps, ReceiverState
  <2>3. Idle([completing EXCEPT ![i] = "wait"], CompleteSteps, used)
    BY <2>2, StepChanges
  <2>4. QED
    BY <1>1, <1>2, <1>3, <1>9, <2>3 DEF ReceiverState, ReceiverGoes
<1>10. CASE UNCHANGED <<rcv, accepting, completing, writes, verified, toS>>
  BY <1>1, <1>2, <1>3, <1>10 DEF ReceiverState, ReceiverGoes
<1>11. QED
  <2>1. CASE m.type = "complete" \/ m.type = "cancel" \/ m.type \notin {"offer", "manifest", "listed", "items", "unavailable", "pause", "resume"}
    BY <1>8, <1>9, <1>10, <2>1 DEF ReceiverControl, m, memory
  <2>2. QED
    BY <1>5, <1>6, <1>7, <2>1

LEMMA AcceptGoes ==
    ASSUME Shape, NEW i \in Ids, AcceptPrepared(i) \/ AcceptListed(i) \/ AcceptFails(i)
    PROVE  ReceiverGoes
<1> DEFINE acc(t) == [t EXCEPT !.state = "accepted"]
           list(t) == [t EXCEPT !.known = TRUE, !.missing = MissingChunks(i), !.state = "transferring"]
           accepted == {acc(t) : t \in rcv[i]}
           listed == {list(t) : t \in rcv[i]}
<1>1. ReceiverState
  BY StateOfReceiver
<1>2. i \in 1..used /\ ~(i > used) /\ UNCHANGED <<setup, snd, used, reported, completing, writes, verified, toR, data>>
  <2>1. accepting[i] # "no"
    BY DEF AcceptPrepared, AcceptListed, AcceptFails
  <2>2. i \in 1..used
    BY <2>1, IsBusy
  <2>3. UNCHANGED <<setup, snd, used, reported>>
    BY DEF AcceptPrepared, AcceptListed, AcceptFails, sender
  <2>4. UNCHANGED <<completing, writes, verified, toR, data>>
    BY DEF AcceptPrepared, AcceptListed, AcceptFails, net
  <2>5. QED
    BY <1>1, <2>2, <2>3, <2>4 DEF ReceiverState
<1>3. rcv \in [Ids -> SUBSET Incoming] /\ MissingChunks(i) \in SUBSET Chunks
  BY <1>1 DEF ReceiverState, OnePerId, MissingChunks
<1>4. rcv' \in {rcv, [rcv EXCEPT ![i] = {}], [rcv EXCEPT ![i] = accepted], [rcv EXCEPT ![i] = listed]}
  BY DEF AcceptPrepared, AcceptListed, AcceptFails
<1>5. ASSUME NEW x \in Incoming, rcv[i] = {x}
      PROVE  (\E y \in Incoming : accepted = {y}) /\ \E y \in Incoming : listed = {y}
  <2>1. acc(x) \in Incoming /\ list(x) \in Incoming
    BY <1>3, IncomingChanges
  <2>2. accepted = {acc(x)} /\ listed = {list(x)}
    BY <1>5
  <2> HIDE DEF acc, list, accepted, listed
  <2>3. QED
    BY <2>1, <2>2
<1>6. rcv[i] = {} => accepted = {} /\ listed = {}
  OBVIOUS
<1> HIDE DEF accepted, listed
<1>7. /\ OnePerId([rcv EXCEPT ![i] = accepted], Incoming, used)
      /\ OnePerId([rcv EXCEPT ![i] = listed], Incoming, used)
      /\ OnePerId([rcv EXCEPT ![i] = {}], Incoming, used)
  <2>1. OnePerId(rcv, Incoming, used)
    BY <1>1 DEF ReceiverState
  <2>2. OnePerId([rcv EXCEPT ![i] = accepted], Incoming, used)
    BY <1>5, <1>6, <2>1, Rewritten
  <2>3. OnePerId([rcv EXCEPT ![i] = listed], Incoming, used)
    BY <1>5, <1>6, <2>1, Rewritten
  <2>4. QED
    BY <2>1, <2>2, <2>3, OneOfId
<1>8. OnePerId(rcv', Incoming, used)
  BY <1>1, <1>4, <1>7 DEF ReceiverState
<1>9. Idle(accepting', AcceptSteps, used)
  <2>1. PICK s \in AcceptSteps : accepting' = [accepting EXCEPT ![i] = s]
    BY DEF AcceptPrepared, AcceptListed, AcceptFails, AcceptSteps
  <2>2. QED
    BY <1>1, <1>2, <2>1, StepChanges DEF ReceiverState
<1>10. toS' \in Seq(Controls(used))
  <2>1. toS' = toS \/ SendToS(Message("reject", i)) \/ SendToS(Message("accept", i)) \/ SendToS(Need(i, MissingChunks(i)))
    BY DEF AcceptPrepared, AcceptListed, AcceptFails, net
  <2>2. Message("reject", i) \in Controls(used) /\ Message("accept", i) \in Controls(used) /\ Need(i, MissingChunks(i)) \in Controls(used)
    BY <1>1, <1>2, <1>3, Says DEF OfTransfer, ReceiverState
  <2>3. QED
    BY <1>1, <2>1, <2>2, Sends DEF ReceiverState
<1>11. QED
  BY <1>1, <1>2, <1>8, <1>9, <1>10 DEF ReceiverState, ReceiverGoes

\* A chunk, verified or written.
LEMMA WritesOf ==
    ASSUME Shape, NEW w \in writes
    PROVE  /\ w \in Writes(used) /\ w.id \in 1..used /\ w.id \in Ids /\ w.chunk \in Chunks
           /\ writes \ {w} \subseteq Writes(used) /\ [w EXCEPT !.step = "write"] \in Writes(used)
<1>1. writes \subseteq Writes(used) /\ used \in 0..MaxTransfers
  BY DEF Shape, ReceiverShape, SenderShape
<1>2. w \in Writes(used)
  BY <1>1
<1>3. w.id \in 1..used /\ w.chunk \in Chunks /\ [w EXCEPT !.step = "write"] \in Writes(used)
  BY <1>2 DEF Writes
<1>4. QED
  BY <1>1, <1>2, <1>3, Counted

LEMMA VerifiedGoes ==
    ASSUME Shape, NEW w \in writes, ChunkVerified(w)
    PROVE  ReceiverGoes
<1> DEFINE i == w.id
           t == [T(i) EXCEPT !.received = @ \cup {w.chunk}]
<1>1. ReceiverState
  BY StateOfReceiver
<1>2. i \in 1..used /\ i \in Ids /\ w.chunk \in Chunks /\ writes \ {w} \subseteq Writes(used) /\ [w EXCEPT !.step = "write"] \in Writes(used)
  BY WritesOf
<1>3. UNCHANGED <<setup, snd, used, reported, accepting, completing, verified, toR, data>>
  BY DEF ChunkVerified, sender
<1>4. writes' = writes \ {w} \/ writes' = (writes \ {w}) \cup {[w EXCEPT !.step = "write"]}
  BY DEF ChunkVerified
<1>5. writes' \subseteq Writes(used)
  BY <1>2, <1>4
<1>6. rcv' = rcv \/ (In(i) /\ Put(i, t))
  BY DEF ChunkVerified, IsReceiving
<1>7. OnePerId(rcv', Incoming, used)
  <2>1. CASE rcv' = rcv
    BY <1>1, <2>1 DEF ReceiverState
  <2>2. CASE In(i) /\ Put(i, t)
    <3>1. t \in Incoming
      BY <1>2, <2>2, InTransfer, IncomingChanges
    <3> HIDE DEF t
    <3>2. QED
      BY <1>2, <2>2, <3>1, Puts
  <2>3. QED
    BY <1>6, <2>1, <2>2
<1>8. toS' \in Seq(Controls(used))
  <2>1. toS' = toS \/ SendToS(Need(i, {w.chunk}))
    BY DEF ChunkVerified
  <2>2. Need(i, {w.chunk}) \in Controls(used)
    BY <1>1, <1>2, Says DEF ReceiverState
  <2>3. QED
    BY <1>1, <2>1, <2>2, Sends DEF ReceiverState
<1>9. QED
  BY <1>1, <1>3, <1>5, <1>7, <1>8 DEF ReceiverState, ReceiverGoes

LEMMA WrittenGoes ==
    ASSUME Shape, NEW w \in writes, ChunkWritten(w)
    PROVE  ReceiverGoes
<1> DEFINE i == w.id
           t == [T(i) EXCEPT !.received = @ \cup {w.chunk}, !.missing = @ \ {w.chunk}, !.state = StateAfterWrite(@)]
<1>1. ReceiverState
  BY StateOfReceiver
<1>2. i \in Ids /\ w.chunk \in Chunks /\ writes \ {w} \subseteq Writes(used)
  BY WritesOf
<1>3. /\ UNCHANGED <<setup, snd, used, reported, accepting, completing, verified, toR, toS, data>>
      /\ writes' = writes \ {w}
  BY DEF ChunkWritten, sender, net
<1>4. rcv' = rcv \/ (In(i) /\ Put(i, t))
  BY DEF ChunkWritten
<1>5. OnePerId(rcv', Incoming, used)
  <2>1. CASE rcv' = rcv
    BY <1>1, <2>1 DEF ReceiverState
  <2>2. CASE In(i) /\ Put(i, t)
    <3>1. T(i) \in Incoming
      BY <1>2, <2>2, InTransfer
    <3>2. t \in Incoming
      BY <1>2, <3>1, StocksIncoming
    <3> HIDE DEF t
    <3>3. QED
      BY <1>2, <2>2, <3>2, Puts
  <2>3. QED
    BY <1>4, <2>1, <2>2
<1>6. QED
  BY <1>1, <1>2, <1>3, <1>5 DEF ReceiverState, ReceiverGoes

LEMMA CompletingGoes ==
    ASSUME Shape, NEW i \in Ids, NEW s \in CompleteSteps, completing[i] # "no", completing' = [completing EXCEPT ![i] = s]
    PROVE  Idle(completing', CompleteSteps, used)
<1>1. i \in 1..used /\ used \in 0..MaxTransfers
  BY IsBusy DEF Shape, SenderShape
<1>2. ~(i > used)
  BY <1>1
<1>3. QED
  BY <1>2, StepChanges DEF Shape, ReceiverShape

LEMMA CheckedGoes ==
    ASSUME Shape, NEW i \in Ids, CompleteChecked(i)
    PROVE  ReceiverGoes
<1> DEFINE missing == IF T(i).known THEN T(i).missing ELSE MissingChunks(i)
           t == [T(i) EXCEPT !.known = TRUE, !.missing = missing]
           u == [T(i) EXCEPT !.known = TRUE, !.missing = {}, !.state = "verifying"]
<1>1. ReceiverState
  BY StateOfReceiver
<1>2. UNCHANGED <<setup, snd, used, reported, accepting, writes, verified, toR, data>> /\ completing[i] # "no"
  BY DEF CompleteChecked, sender
<1>3. /\ completing' = [completing EXCEPT ![i] = "no"] \/ completing' = [completing EXCEPT ![i] = "verify"]
      /\ rcv' = rcv \/ (In(i) /\ (Put(i, t) \/ Put(i, u)))
      /\ toS' = toS \/ (In(i) /\ SendToS(Need(i, missing)))
  BY DEF CompleteChecked, IsReceiving
<1>4. i \in 1..used
  BY <1>2, IsBusy
<1>5. In(i) => T(i) \in Incoming /\ missing \in SUBSET Chunks
  BY InTransfer, IncomingChanges DEF MissingChunks
<1> HIDE DEF missing
<1>6. In(i) => t \in Incoming /\ u \in Incoming
  BY <1>5, IncomingChanges
<1> HIDE DEF t, u
<1>7. OnePerId(rcv', Incoming, used)
  <2>1. CASE rcv' = rcv
    BY <1>1, <2>1 DEF ReceiverState
  <2>2. CASE In(i) /\ Put(i, t)
    BY <1>6, <2>2, Puts
  <2>3. CASE In(i) /\ Put(i, u)
    BY <1>6, <2>3, Puts
  <2>4. QED
    BY <1>3, <2>1, <2>2, <2>3
<1>8. toS' \in Seq(Controls(used))
  <2>1. In(i) => Need(i, missing) \in Controls(used)
    BY <1>1, <1>4, <1>5, Says DEF ReceiverState
  <2>2. QED
    BY <1>1, <1>3, <2>1, Sends DEF ReceiverState
<1>9. Idle(completing', CompleteSteps, used)
  BY <1>2, <1>3, CompletingGoes DEF CompleteSteps
<1>10. QED
  BY <1>1, <1>2, <1>7, <1>8, <1>9 DEF ReceiverState, ReceiverGoes

LEMMA FinalizeGoes ==
    ASSUME Shape, NEW i \in Ids, Finalize(i)
    PROVE  ReceiverGoes
<1>1. ReceiverState
  BY StateOfReceiver
<1>2. UNCHANGED <<setup, snd, used, reported, rcv, accepting, writes, verified, toR, toS, data>> /\ completing[i] # "no"
  BY DEF Finalize, sender, net
<1>3. PICK s \in {"intact", "mismatch", "error"} : completing' = [completing EXCEPT ![i] = s]
  BY DEF Finalize
<1>4. Idle(completing', CompleteSteps, used)
  BY <1>2, <1>3, CompletingGoes DEF CompleteSteps
<1>5. QED
  BY <1>1, <1>2, <1>4 DEF ReceiverState, ReceiverGoes

LEMMA FinalizedGoes ==
    ASSUME Shape, NEW i \in Ids, Finalized(i)
    PROVE  ReceiverGoes
<1> DEFINE t == [T(i) EXCEPT !.state = "failed"]
<1>1. ReceiverState
  BY StateOfReceiver
<1>2. UNCHANGED <<setup, snd, used, reported, accepting, writes, toR, data>> /\ completing[i] # "no"
      /\ completing' = [completing EXCEPT ![i] = "no"]
  BY DEF Finalized, sender
<1>3. /\ rcv' = rcv \/ rcv' = [rcv EXCEPT ![i] = {}] \/ (In(i) /\ Put(i, t))
      /\ verified' = verified \/ verified' = verified \cup {i}
      /\ toS' = toS \/ SendToS(Message("complete", i)) \/ SendToS(Message("error", i))
  BY DEF Finalized
<1>4. i \in 1..used
  BY <1>2, IsBusy
<1>5. In(i) => t \in Incoming
  BY InTransfer, IncomingChanges
<1> HIDE DEF t
<1>6. OnePerId(rcv', Incoming, used)
  <2>1. CASE rcv' = rcv
    BY <1>1, <2>1 DEF ReceiverState
  <2>2. CASE rcv' = [rcv EXCEPT ![i] = {}]
    BY <1>1, <2>2, OneOfId DEF ReceiverState
  <2>3. CASE In(i) /\ Put(i, t)
    BY <1>5, <2>3, Puts
  <2>4. QED
    BY <1>3, <2>1, <2>2, <2>3
<1>7. toS' \in Seq(Controls(used))
  <2>1. Message("complete", i) \in Controls(used) /\ Message("error", i) \in Controls(used)
    BY <1>1, <1>4, Says DEF OfTransfer, ReceiverState
  <2>2. QED
    BY <1>1, <1>3, <2>1, Sends DEF ReceiverState
<1>8. Idle(completing', CompleteSteps, used)
  BY <1>2, CompletingGoes DEF CompleteSteps
<1>9. verified' \subseteq Ids
  BY <1>1, <1>3 DEF ReceiverState
<1>10. QED
  BY <1>1, <1>2, <1>6, <1>7, <1>8, <1>9 DEF ReceiverState, ReceiverGoes

LEMMA CancelGoes ==
    ASSUME Shape, NEW i \in Ids, CancelEnds(i)
    PROVE  ReceiverGoes
<1>1. ReceiverState
  BY StateOfReceiver
<1>2. UNCHANGED <<setup, snd, used, reported, accepting, completing, writes, verified, toR, data>>
      /\ rcv' = [rcv EXCEPT ![i] = {}] /\ (toS' = toS \/ SendToS(Message("cancel", i))) /\ In(i)
  BY DEF CancelEnds, sender
<1>3. OnePerId(rcv', Incoming, used)
  BY <1>1, <1>2, OneOfId DEF ReceiverState
<1>4. toS' \in Seq(Controls(used))
  <2>1. i \in 1..used
    BY <1>2, IsBusy
  <2>2. Message("cancel", i) \in Controls(used)
    BY <1>1, <2>1, Says DEF OfTransfer, ReceiverState
  <2>3. QED
    BY <1>1, <1>2, <2>2, Sends DEF ReceiverState
<1>5. QED
  BY <1>1, <1>2, <1>3, <1>4 DEF ReceiverState, ReceiverGoes

LEMMA RequestGoes ==
    ASSUME Shape, NEW j \in DOMAIN records, Request(j)
    PROVE  ReceiverGoes
<1>1. ReceiverState
  BY StateOfReceiver
<1>2. UNCHANGED <<setup, snd, used, reported, rcv, completing, writes, verified, toR, data>>
  BY DEF Request, sender
<1>3. CASE j \in Ids /\ In(j) /\ accepting' = [accepting EXCEPT ![j] = "prepare"] /\ toS' = toS
  <2>1. j \in 1..used /\ used \in 0..MaxTransfers
    BY <1>1, <1>3, IsBusy DEF ReceiverState
  <2>2. ~(j > used)
    BY <2>1
  <2>3. Idle(accepting', AcceptSteps, used)
    BY <1>1, <1>3, <2>2, StepChanges DEF AcceptSteps, ReceiverState
  <2>4. QED
    BY <1>1, <1>2, <1>3, <2>3 DEF ReceiverState, ReceiverGoes
<1>4. CASE SendToS(Message("request", 0)) /\ accepting' = accepting
  <2>1. Message("request", 0) \in Controls(used)
    BY <1>1, SaysOfFile DEF OfFile, ReceiverState
  <2>2. toS' \in Seq(Controls(used))
    BY <1>1, <1>4, <2>1, Sends DEF ReceiverState
  <2>3. QED
    BY <1>1, <1>2, <1>4, <2>2 DEF ReceiverState, ReceiverGoes
<1>5. QED
  BY <1>3, <1>4 DEF Request

LEMMA ReceiverIsTold ==
    ASSUME Shape, NEW i \in Ids, PauseAtR(i) \/ ResumeAtR(i) \/ CancelAtR(i)
    PROVE  ReceiverGoes
<1>1. ReceiverState
  BY StateOfReceiver
<1>2. UNCHANGED <<setup, snd, used, reported, accepting, completing, writes, verified, toR, data>> /\ In(i)
  BY DEF PauseAtR, ResumeAtR, CancelAtR, sender, net
<1>3. OnePerId(rcv', Incoming, used)
  <2>1. UpdateState(i, "paused") \/ UpdateState(i, "transferring") \/ BeginCancel(i, TRUE)
    BY DEF PauseAtR, ResumeAtR, CancelAtR
  <2>2. QED
    BY <1>2, <2>1, Updates, BeginsCancel
<1>4. toS' \in Seq(Controls(used))
  <2>1. toS' = toS \/ SendToS(Message("pause", i)) \/ SendToS(Message("resume", i))
    BY DEF PauseAtR, ResumeAtR, CancelAtR, net
  <2>2. i \in 1..used
    BY <1>2, IsBusy
  <2>3. Message("pause", i) \in Controls(used) /\ Message("resume", i) \in Controls(used)
    BY <1>1, <2>2, Says DEF OfTransfer, ReceiverState
  <2>4. QED
    BY <1>1, <2>1, <2>3, Sends DEF ReceiverState
<1>5. QED
  BY <1>1, <1>2, <1>3, <1>4 DEF ReceiverState, ReceiverGoes

LEMMA RestartGoes ==
    ASSUME Shape, RestartR
    PROVE  ReceiverGoes
<1>1. ReceiverState
  BY StateOfReceiver
<1>2. /\ UNCHANGED <<setup, snd, used, reported, verified>> /\ toR' = <<>> /\ toS' = <<>> /\ data' = <<>> /\ writes' = {}
      /\ rcv' = [i \in Ids |-> {}] /\ accepting' = [i \in Ids |-> "no"] /\ completing' = [i \in Ids |-> "no"]
  BY DEF RestartR, Drop, sender
<1>3. /\ OnePerId([i \in Ids |-> {}], Incoming, used) /\ Idle([i \in Ids |-> "no"], AcceptSteps, used)
      /\ Idle([i \in Ids |-> "no"], CompleteSteps, used)
  BY DEF OnePerId, Idle, AcceptSteps, CompleteSteps
<1>4. QED
  BY <1>1, <1>2, <1>3 DEF ReceiverState, ReceiverGoes

---------------------------------------------------------------------------
\* A step of the receiver forgets at most the transfers in gone.
RecordsRemain(gone) ==
    /\ \A k \in (0..MaxTransfers) \ gone : records[k] # "none" => records'[k] # "none"
    /\ \A k \in Ids : k > used => records'[k] = "none"
    /\ DOMAIN records' = 0..MaxTransfers
EntriesRemain(gone) == \A k \in Ids \ gone : In(k) => rcv'[k] # {} \/ k \in final'
Going == UNCHANGED <<setup, used>> /\ final \subseteq final' /\ (calm = "restarted" => calm' = "restarted")
Covers == Covered' /\ \A k \in Ids : k > used => records'[k] = "none"

LEMMA ShapeOfDisk ==
    ASSUME Shape
    PROVE  /\ DOMAIN records = 0..MaxTransfers /\ records = [k \in 0..MaxTransfers |-> records[k]]
           /\ \A k \in Ids : k > used => records[k] = "none"
           /\ store \in [Ids -> [Chunks -> {"no", "good", "bad"}]] /\ rcv \in [Ids -> SUBSET Incoming]
           /\ used \in 0..MaxTransfers /\ Ids \subseteq 0..MaxTransfers
<1>1. records = [k \in 0..MaxTransfers |-> records[k]] /\ \A k \in Ids : k > used => records[k] = "none"
  BY DEF Shape, DiskShape
<1>2. store \in [Ids -> [Chunks -> {"no", "good", "bad"}]]
  BY DEF Shape, DiskShape
<1>3. rcv \in [Ids -> SUBSET Incoming]
  BY DEF Shape, ReceiverShape, OnePerId
<1>4. used \in 0..MaxTransfers /\ Ids \subseteq 0..MaxTransfers
  BY Counted DEF Shape, SenderShape
<1>5. DOMAIN records = 0..MaxTransfers
  BY <1>1
<1>6. QED
  BY <1>1, <1>2, <1>3, <1>4, <1>5

LEMMA RecordsStay ==
    ASSUME Shape, records' = records
    PROVE  RecordsRemain({})
BY ShapeOfDisk DEF RecordsRemain

LEMMA RecordChanges ==
    ASSUME Shape, NEW i, NEW x, records' = [records EXCEPT ![i] = x],
           records[i] = "none" => x = "none" \/ i = 0 \/ i \in 1..used
    PROVE  /\ RecordsRemain({i})
           /\ (records[i] # "none" => x # "none") => RecordsRemain({})
<1>1. /\ DOMAIN records = 0..MaxTransfers /\ \A k \in Ids : k > used => records[k] = "none"
      /\ used \in 0..MaxTransfers /\ Ids \subseteq 0..MaxTransfers
  BY ShapeOfDisk
<1>2. DOMAIN records' = 0..MaxTransfers /\ \A k \in 0..MaxTransfers : records'[k] = IF k = i THEN x ELSE records[k]
  BY <1>1
<1>3. ASSUME NEW k \in Ids, k > used PROVE records'[k] = "none"
  <2>1. k \in Nat /\ k # 0 /\ k \notin 1..used /\ records[k] = "none"
    BY <1>1, <1>3, Counted
  <2>2. QED
    BY <1>1, <1>2, <2>1
<1>4. QED
  BY <1>1, <1>2, <1>3 DEF RecordsRemain

LEMMA Notes ==
    ASSUME Shape, NEW i, NEW s, s # "none", Note(i, s)
    PROVE  RecordsRemain({})
<1> DEFINE x == IF records[i] = "none" THEN records[i] ELSE s
<1>1. records' = [records EXCEPT ![i] = x]
  BY DEF Note
<1>2. (records[i] = "none" => x = "none") /\ (records[i] # "none" => x # "none")
  OBVIOUS
<1> HIDE DEF x
<1>3. QED
  BY <1>1, <1>2, RecordChanges

LEMMA EntriesStay ==
    ASSUME Shape
    PROVE  /\ rcv' = rcv => EntriesRemain({})
           /\ \A i, t : Put(i, t) => EntriesRemain({})
           /\ \A i : rcv' = [rcv EXCEPT ![i] = {}] => EntriesRemain({i})
           /\ \A i, e : rcv' = [rcv EXCEPT ![i] = e] /\ (i \in Ids /\ In(i) => e # {}) => EntriesRemain({})
BY ShapeOfDisk DEF EntriesRemain, Put, In

LEMMA Kept ==
    ASSUME DiskInv, Going, RecordsRemain({}), EntriesRemain({}), store' = store
    PROVE  Covers
<1>1. Held(1)' = Held(1) /\ \A i \in Ids : Held(i)' = Held(i)
  BY DEF Going, Held, Key
<1>2. DOMAIN records = 0..MaxTransfers
  BY ShapeOfDisk DEF DiskInv
<1>3. Listed \subseteq Listed'
  BY <1>2 DEF RecordsRemain, Listed
<1>4. \A k \in Ids : In(k) \/ k \in final => In(k)' \/ k \in final'
  BY DEF EntriesRemain, Going, In
<1>5. Explained => Explained'
  BY <1>3, <1>4 DEF Explained, Going
<1>6. Covered'
  BY <1>1, <1>3, <1>4, <1>5 DEF DiskInv, Orphanless, Covered, Going
<1>7. QED
  BY <1>6 DEF Covers, RecordsRemain

LEMMA Forgotten ==
    ASSUME DiskInv, Going, NEW i \in 1..used, RecordsRemain({i}), EntriesRemain({i}), store' = Cleared(i)
    PROVE  Covers
<1>1. /\ DOMAIN records = 0..MaxTransfers /\ \A k \in Ids : k > used => records[k] = "none"
      /\ store \in [Ids -> [Chunks -> {"no", "good", "bad"}]]
      /\ used \in 0..MaxTransfers /\ Ids \subseteq 0..MaxTransfers /\ i \in Ids
  BY ShapeOfDisk, Counted DEF DiskInv
<1>2. \A k \in Ids \ {i} : In(k) \/ k \in final => In(k)' \/ k \in final'
  BY DEF EntriesRemain, Going, In
<1>3. CASE setup.desktop
  <2>1. store' = [store EXCEPT ![i] = NoChunks]
    BY <1>3 DEF Cleared, Key
  <2>2. \A k \in Ids : store'[k] = IF k = i THEN NoChunks ELSE store[k]
    BY <1>1, <2>1
  <2>3. Held(i)' = {} /\ \A k \in Ids \ {i} : Held(k)' = Held(k)
    BY <1>1, <1>3, <2>2 DEF Going, Held, Key, NoChunks
  <2>4. Covered'
    BY <1>2, <1>3, <2>3 DEF DiskInv, Orphanless, Covered, Going
  <2>5. QED
    BY <2>4 DEF Covers, RecordsRemain
<1>4. CASE ~setup.desktop /\ \A j \in DOMAIN records \ {i} : records[j] = "none"
  <2>1. store' = [store EXCEPT ![1] = NoChunks] /\ 1 \in Ids
    BY <1>1, <1>4, Counted DEF Cleared, Key
  <2>2. store'[1] = NoChunks
    BY <1>1, <2>1
  <2>3. \A k \in Ids : Held(k)' = {}
    BY <1>4, <2>2 DEF Going, Held, Key, NoChunks
  <2>4. Covered'
    BY <1>4, <2>3 DEF Covered, Going
  <2>5. QED
    BY <2>4 DEF Covers, RecordsRemain
<1>5. CASE ~setup.desktop /\ \E j \in DOMAIN records \ {i} : records[j] # "none"
  <2>1. PICK j \in (0..MaxTransfers) \ {i} : records[j] # "none"
    BY <1>1, <1>5
  <2>2. j \in Listed'
    BY <2>1 DEF RecordsRemain, Listed
  <2>3. j = 0 \/ used > 1
    <3>1. ASSUME j # 0 PROVE j \in 1..used
      <4>1. j \in Ids
        BY <2>1, <3>1, Counted
      <4>2. ~(j > used)
        BY <1>1, <2>1, <4>1
      <4>3. QED
        BY <1>1, <4>1, <4>2, Counted
    <3>2. QED
      BY <1>1, <2>1, <3>1
  <2>4. Explained'
    BY <2>2, <2>3 DEF Explained, Going
  <2>5. Covered'
    BY <1>5, <2>2, <2>4 DEF Covered, Going
  <2>6. QED
    BY <2>5 DEF Covers, RecordsRemain
<1>6. QED
  BY <1>3, <1>4, <1>5

LEMMA Discards ==
    ASSUME DiskInv, Going, NEW i \in 1..used, EntriesRemain({i}), Discard(i)
    PROVE  Covers
<1>1. CASE records[i] = "none" /\ ~setup.desktop
  <2>1. /\ DOMAIN records = 0..MaxTransfers /\ \A k \in Ids : k > used => records[k] = "none"
        /\ used \in 0..MaxTransfers /\ Ids \subseteq 0..MaxTransfers /\ i \in Ids
    BY ShapeOfDisk, Counted DEF DiskInv
  <2>2. UNCHANGED disk
    BY <1>1 DEF Discard
  <2>3. Listed' = Listed /\ \A k \in Ids : Held(k)' = Held(k)
    BY <2>2 DEF Listed, Held, Key, Going, disk
  <2>4. ASSUME Listed # {} PROVE Explained'
    <3>1. PICK j \in 0..MaxTransfers : records[j] # "none" /\ j # i
      BY <1>1, <2>1, <2>4 DEF Listed
    <3>2. j = 0 \/ used > 1
      <4>1. ASSUME j # 0 PROVE j \in 1..used
        <5>1. j \in Ids
          BY <3>1, <4>1, Counted
        <5>2. ~(j > used)
          BY <2>1, <3>1, <5>1
        <5>3. QED
          BY <2>1, <5>1, <5>2, Counted
      <4>2. QED
        BY <2>1, <3>1, <4>1
    <3>3. QED
      BY <2>1, <2>3, <3>1, <3>2 DEF Explained, Going, Listed
  <2>5. Covered'
    BY <1>1, <2>3, <2>4 DEF DiskInv, Orphanless, Covered, Going
  <2>6. QED
    BY <2>1, <2>2, <2>5 DEF Covers, disk
<1>2. CASE ~(records[i] = "none" /\ ~setup.desktop)
  <2>1. records' = [records EXCEPT ![i] = "none"] /\ store' = Cleared(i)
    BY <1>2 DEF Discard, Discarded
  <2>2. RecordsRemain({i})
    BY <2>1, RecordChanges DEF DiskInv
  <2>3. QED
    BY <2>1, <2>2, Forgotten
<1>3. QED
  BY <1>1, <1>2

LEMMA Stocks ==
    ASSUME DiskInv, Going, NEW w \in writes, In(w.id), records[w.id] # "none",
           RecordsRemain({}), EntriesRemain({}), store' = Stored(w)
    PROVE  Covers
<1> DEFINE i == w.id
<1>1. /\ DOMAIN records = 0..MaxTransfers /\ store \in [Ids -> [Chunks -> {"no", "good", "bad"}]]
      /\ Ids \subseteq 0..MaxTransfers /\ i \in Ids
  BY ShapeOfDisk, WritesOf DEF DiskInv
<1>2. \A k \in Ids : In(k) \/ k \in final => In(k)' \/ k \in final'
  BY DEF EntriesRemain, Going, In
<1>3. i \in Listed' /\ (In(i)' \/ i \in final')
  BY <1>1, <1>2 DEF Listed, RecordsRemain
<1>4. CASE setup.desktop
  <2>1. \A k \in Ids : k # i => store'[k] = store[k]
    BY <1>1, <1>4 DEF Stored, Key
  <2>2. \A k \in Ids : k # i => Held(k)' = Held(k)
    BY <1>4, <2>1 DEF Going, Held, Key
  <2>3. Covered'
    BY <1>2, <1>3, <1>4, <2>2 DEF DiskInv, Orphanless, Covered, Going
  <2>4. QED
    BY <2>3 DEF Covers, RecordsRemain
<1>5. CASE ~setup.desktop
  <2>1. Explained'
    BY <1>1, <1>3 DEF Explained
  <2>2. Covered'
    BY <1>3, <1>5, <2>1 DEF Covered, Going
  <2>3. QED
    BY <2>2 DEF Covers, RecordsRemain
<1>6. QED
  BY <1>4, <1>5

LEMMA MovesAway ==
    ASSUME DiskInv, Going, setup.desktop, NEW i \in Ids, RecordsRemain({}), EntriesRemain({}),
           store' = [store EXCEPT ![Key(i)] = NoChunks]
    PROVE  Covers
<1>1. store \in [Ids -> [Chunks -> {"no", "good", "bad"}]]
  BY ShapeOfDisk DEF DiskInv
<1>2. \A k \in Ids : In(k) \/ k \in final => In(k)' \/ k \in final'
  BY DEF EntriesRemain, Going, In
<1>3. \A k \in Ids : store'[k] = IF k = i THEN NoChunks ELSE store[k]
  BY <1>1 DEF Key
<1>4. Held(i)' = {} /\ \A k \in Ids \ {i} : Held(k)' = Held(k)
  BY <1>1, <1>3 DEF Going, Held, Key, NoChunks
<1>5. Covered'
  BY <1>2, <1>4 DEF DiskInv, Orphanless, Covered, Going
<1>6. QED
  BY <1>5 DEF Covers, RecordsRemain

LEMMA OfferCovers ==
    ASSUME DiskInv, Going, NEW i \in 1..used, ReceiveOffer(i)
    PROVE  Covers
<1> DEFINE Entered(out) == \E a : rcv' = [k \in Ids |-> IF k = i THEN {NewIncoming(a)} ELSE IF k \in out THEN {} ELSE rcv[k]]
           Evict(j) == Entered({j}) /\ records' = Recorded(Discarded(j), i) /\ store' = Cleared(j)
           pending == {j \in {k \in Ids : In(k)} : T(j).state = "offered"}
<1>1. ASSUME NEW out, Entered(out) PROVE EntriesRemain(out)
  BY <1>1, ShapeOfDisk DEF DiskInv, EntriesRemain, In
<1>2. CASE UNCHANGED <<memory, disk>>
  BY <1>2, EntriesStay, RecordsStay, Kept DEF DiskInv, memory, disk
<1>3. CASE Entered({}) /\ records' = Recorded(records, i) /\ store' = store
  <2> DEFINE x == IF records[i] = "none" THEN "waiting" ELSE records[i]
  <2>1. records' = [records EXCEPT ![i] = x] /\ x # "none"
    BY <1>3 DEF Recorded
  <2> HIDE DEF x, Entered
  <2>2. RecordsRemain({})
    BY <2>1, RecordChanges DEF DiskInv
  <2>3. EntriesRemain({})
    BY <1>1, <1>3
  <2>4. QED
    BY <1>3, <2>2, <2>3, Kept
<1>4. ASSUME NEW j \in Ids, In(j), ~In(i), Evict(j) PROVE Covers
  <2>1. EntriesRemain({j}) /\ store' = Cleared(j) /\ records' = Recorded(Discarded(j), i) /\ j # i
    BY <1>1, <1>4
  <2>2. j \in 1..used
    BY <1>4, IsBusy DEF DiskInv
  <2>3. /\ DOMAIN records = 0..MaxTransfers /\ \A k \in Ids : k > used => records[k] = "none"
        /\ used \in 0..MaxTransfers /\ Ids \subseteq 0..MaxTransfers /\ i \in Ids
    BY ShapeOfDisk, Counted DEF DiskInv
  <2>4. /\ DOMAIN records' = 0..MaxTransfers /\ \A k \in (0..MaxTransfers) \ {i, j} : records'[k] = records[k]
        /\ records'[i] # "none" /\ records'[j] = "none"
    BY <2>1, <2>2, <2>3 DEF Recorded, Discarded
  <2>5. RecordsRemain({j})
    <3>1. \A k \in Ids : k > used => k # i
      BY <2>3
    <3>2. \A k \in (0..MaxTransfers) \ {j} : records[k] # "none" => records'[k] # "none"
      BY <2>4
    <3>3. \A k \in Ids : k > used => records'[k] = "none"
      BY <2>3, <2>4, <3>1
    <3>4. QED
      BY <2>4, <3>2, <3>3 DEF RecordsRemain
  <2>6. QED
    BY <2>1, <2>2, <2>5, Forgotten
<1>5. CASE pending # {} /\ ~In(i) /\ Evict(CHOOSE j \in pending : \A k \in pending : j <= k)
  <2> DEFINE j == CHOOSE j \in pending : \A k \in pending : j <= k
  <2>1. j \in pending
    BY <1>5, OldestOffer
  <2>2. j \in Ids /\ In(j)
    BY <2>1
  <2>3. Evict(j)
    BY <1>5
  <2> HIDE DEF j, Evict
  <2>4. QED
    BY <1>4, <1>5, <2>2, <2>3
<1>6. QED
  BY <1>2, <1>3, <1>5 DEF ReceiveOffer

LEMMA UpdateCovers ==
    ASSUME DiskInv, Going, NEW i, NEW s, s # "none", UpdateState(i, s), store' = store
    PROVE  Covers
<1>1. EntriesRemain({}) /\ RecordsRemain({})
  <2>1. CASE In(i)
    BY <2>1, EntriesStay, Notes DEF UpdateState, DiskInv
  <2>2. CASE ~In(i)
    BY <2>2, EntriesStay, RecordsStay DEF UpdateState, DiskInv
  <2>3. QED
    BY <2>1, <2>2
<1>2. QED
  BY <1>1, Kept

LEMMA SameCovers ==
    ASSUME DiskInv, Going, UNCHANGED <<records, store>>, rcv' = rcv \/ \E i, t : Put(i, t)
    PROVE  Covers
BY EntriesStay, RecordsStay, Kept DEF DiskInv

LEMMA RecordCovers ==
    ASSUME DiskInv, Going, UNCHANGED <<rcv, store>>, NEW i, NEW x, x # "none", records' = [records EXCEPT ![i] = x],
           records[i] = "none" => i = 0 \/ i \in 1..used
    PROVE  Covers
<1>1. RecordsRemain({})
  BY RecordChanges DEF DiskInv
<1>2. QED
  BY <1>1, EntriesStay, Kept DEF DiskInv

LEMMA ControlCovers ==
    ASSUME DiskInv, Going, ReceiverControl
    PROVE  Covers
<1> DEFINE m == Head(toR)
           i == m.id
<1>1. CASE m.type \in {"offer", "manifest"}
  <2>1. toR # <<>> /\ ReceiveOffer(i)
    BY <1>1 DEF ReceiverControl
  <2>2. used \in 0..MaxTransfers /\ toR \in Seq(Controls(used))
    BY DEF DiskInv, Shape, SenderShape, NetShape
  <2>3. m \in Controls(used)
    BY <2>1, <2>2, HeadTail
  <2> HIDE DEF m
  <2>4. i \in 0..used /\ i # 0
    BY <1>1, <2>3 DEF Controls, OfTransfer
  <2>5. i \in 1..used
    BY <2>2, <2>4
  <2>6. QED
    BY <2>1, <2>5, OfferCovers
<1>2. CASE m.type \in {"pause", "resume"}
  BY <1>2, UpdateCovers DEF ReceiverControl
<1>3. CASE m.type = "items"
  <2>1. UNCHANGED <<rcv, store>> /\ AcceptSyncItems
    BY <1>3 DEF ReceiverControl, memory
  <2>2. CASE records' = records
    BY <2>1, <2>2, SameCovers
  <2>3. CASE records' = [records EXCEPT ![0] = "waiting"]
    BY <2>1, <2>3, RecordCovers
  <2>4. QED
    BY <2>1, <2>2, <2>3 DEF AcceptSyncItems
<1>4. CASE m.type = "unavailable"
  <2>1. UNCHANGED <<rcv, store>> /\ MarkRequestedError
    BY <1>4 DEF ReceiverControl
  <2>2. CASE records' = records
    BY <2>1, <2>2, SameCovers
  <2>3. ASSUME NEW j \in Listed, records' = [records EXCEPT ![j] = IF @ = "completed" THEN @ ELSE "failed"] PROVE Covers
    <3> DEFINE x == IF records[j] = "completed" THEN records[j] ELSE "failed"
    <3>1. records' = [records EXCEPT ![j] = x] /\ x # "none" /\ records[j] # "none"
      BY <2>3 DEF Listed
    <3> HIDE DEF x
    <3>2. QED
      BY <2>1, <3>1, RecordCovers
  <2>4. QED
    BY <2>1, <2>2, <2>3 DEF MarkRequestedError
<1>5. CASE m.type \notin {"offer", "manifest", "pause", "resume", "items", "unavailable"}
  <2>1. UNCHANGED <<records, store>> /\ (rcv' = rcv \/ \E t : Put(i, t))
    BY <1>5 DEF ReceiverControl, memory, disk, BeginCancel
  <2>2. QED
    BY <2>1, SameCovers
<1>6. QED
  BY <1>1, <1>2, <1>3, <1>4, <1>5

LEMMA AcceptCovers ==
    ASSUME DiskInv, Going, NEW i \in Ids, AcceptPrepared(i) \/ AcceptListed(i) \/ AcceptFails(i)
    PROVE  Covers
<1>1. i \in 1..used
  <2>1. accepting[i] # "no"
    BY DEF AcceptPrepared, AcceptListed, AcceptFails
  <2>2. QED
    BY <2>1, IsBusy DEF DiskInv
<1>2. CASE UNCHANGED <<rcv, disk>>
  BY <1>2, SameCovers DEF disk
<1>3. CASE rcv' = [rcv EXCEPT ![i] = {}] /\ Discard(i)
  BY <1>1, <1>3, EntriesStay, Discards DEF DiskInv
<1>4. CASE /\ rcv' = [rcv EXCEPT ![i] = {[t EXCEPT !.state = "accepted"] : t \in @}] /\ store' = store
           /\ records' = [records EXCEPT ![i] = IF @ = "none" THEN "accepted" ELSE @]
  <2> DEFINE x == IF records[i] = "none" THEN "accepted" ELSE records[i]
             e == {[t EXCEPT !.state = "accepted"] : t \in rcv[i]}
  <2>1. records' = [records EXCEPT ![i] = x] /\ x # "none"
    BY <1>4
  <2>2. rcv' = [rcv EXCEPT ![i] = e] /\ (In(i) => e # {})
    BY <1>4 DEF In
  <2> HIDE DEF x, e
  <2>3. RecordsRemain({}) /\ EntriesRemain({})
    BY <1>1, <2>1, <2>2, RecordChanges, EntriesStay DEF DiskInv
  <2>4. QED
    BY <1>4, <2>3, Kept
<1>5. CASE AcceptListed(i)
  <2> DEFINE e == {[t EXCEPT !.known = TRUE, !.missing = MissingChunks(i), !.state = "transferring"] : t \in rcv[i]}
  <2>1. rcv' = [rcv EXCEPT ![i] = e] /\ (In(i) => e # {})
    BY <1>5 DEF AcceptListed, In
  <2> HIDE DEF e
  <2>2. store' = store /\ (records' = records \/ Note(i, "transferring"))
    BY <1>5 DEF AcceptListed
  <2>3. RecordsRemain({}) /\ EntriesRemain({})
    BY <2>1, <2>2, RecordsStay, Notes, EntriesStay DEF DiskInv
  <2>4. QED
    BY <2>2, <2>3, Kept
<1>6. QED
  BY <1>2, <1>3, <1>4, <1>5 DEF AcceptPrepared, AcceptFails

LEMMA ChunkCovers ==
    ASSUME DiskInv, Going, NEW w \in writes, ChunkVerified(w) \/ ChunkWritten(w)
    PROVE  Covers
<1> DEFINE i == w.id
<1>1. i \in 1..used /\ i \in Ids
  BY WritesOf DEF DiskInv
<1>2. CASE UNCHANGED disk /\ (rcv' = rcv \/ \E t : Put(i, t))
  BY <1>2, SameCovers DEF disk
<1>3. CASE Discard(i) /\ rcv' = rcv
  <2>1. EntriesRemain({i})
    BY <1>3 DEF EntriesRemain, In
  <2>2. QED
    BY <1>1, <1>3, <2>1, Discards
<1>4. CASE /\ In(i) /\ records[i] # "none" /\ store' = Stored(w) /\ (rcv' = rcv \/ \E t : Put(i, t))
           /\ records' = records \/ \E s : s # "none" /\ Note(i, s)
  <2>1. RecordsRemain({}) /\ EntriesRemain({})
    BY <1>4, RecordsStay, Notes, EntriesStay DEF DiskInv
  <2>2. QED
    BY <1>4, <2>1, Stocks
<1>5. CASE ChunkVerified(w)
  <2>1. UNCHANGED disk /\ (rcv' = rcv \/ \E t : Put(i, t))
    BY <1>5 DEF ChunkVerified
  <2>2. QED
    BY <1>2, <2>1
<1>6. CASE ChunkWritten(w)
  <2> DEFINE t == [T(i) EXCEPT !.received = @ \cup {w.chunk}, !.missing = @ \ {w.chunk}, !.state = StateAfterWrite(@)]
  <2>1. In(i) => T(i) \in Incoming
    BY <1>1, InTransfer DEF DiskInv
  <2>2. In(i) => t.state # "none"
    BY <2>1 DEF StateAfterWrite, Incoming
  <2> HIDE DEF t
  <2>3. \/ UNCHANGED <<rcv, disk>>
        \/ Discard(i) /\ rcv' = rcv
        \/ In(i) /\ records[i] # "none" /\ store' = Stored(w) /\ UNCHANGED <<rcv, records>>
        \/ In(i) /\ records[i] # "none" /\ store' = Stored(w) /\ Put(i, t) /\ Note(i, t.state)
    BY <1>6 DEF ChunkWritten, t
  <2>4. QED
    BY <1>2, <1>3, <1>4, <2>2, <2>3
<1>7. QED
  BY <1>5, <1>6

LEMMA CompleteCovers ==
    ASSUME DiskInv, Going, NEW i \in Ids, CompleteChecked(i) \/ Finalize(i) \/ Finalized(i) \/ CancelEnds(i)
    PROVE  Covers
<1>1. i \in 1..used
  <2>1. completing[i] # "no" \/ In(i)
    BY DEF CompleteChecked, Finalize, Finalized, CancelEnds
  <2>2. QED
    BY <2>1, IsBusy DEF DiskInv
<1>2. CASE UNCHANGED <<records, store>> /\ (rcv' = rcv \/ \E t : Put(i, t))
  BY <1>2, SameCovers
<1>3. CASE store' = store /\ (\E t : Put(i, t)) /\ \E s : s # "none" /\ Note(i, s)
  <2>1. RecordsRemain({}) /\ EntriesRemain({})
    BY <1>3, Notes, EntriesStay DEF DiskInv
  <2>2. QED
    BY <1>3, <2>1, Kept
<1>4. CASE CompleteChecked(i)
  BY <1>2, <1>3, <1>4 DEF CompleteChecked
<1>5. CASE Finalize(i)
  <2>1. CASE UNCHANGED <<rcv, disk>>
    BY <1>2, <2>1 DEF disk
  <2>2. CASE rcv' = rcv /\ records' = [records EXCEPT ![i] = "completed"] /\ store' = store
    BY <1>1, <2>2, RecordCovers
  <2>3. CASE rcv' = rcv /\ records' = [records EXCEPT ![i] = "completed"] /\ setup.desktop /\ store' = [store EXCEPT ![Key(i)] = NoChunks]
    <3>1. RecordsRemain({}) /\ EntriesRemain({})
      <4>1. RecordsRemain({})
        <5>1. PICK x : x = "completed"
          OBVIOUS
        <5>2. records' = [records EXCEPT ![i] = x] /\ Shape /\ x # "none"
          BY <2>3, <5>1 DEF DiskInv
        <5>3. QED
          BY <1>1, <5>2, RecordChanges
      <4>2. EntriesRemain({})
        BY <2>3, EntriesStay DEF DiskInv
      <4>3. QED
        BY <4>1, <4>2
    <3>2. QED
      BY <2>3, <3>1, MovesAway
  <2>4. QED
    BY <1>5, <2>1, <2>2, <2>3 DEF Finalize
<1>6. CASE Finalized(i)
  <2>1. CASE UNCHANGED <<rcv, disk>>
    BY <1>2, <2>1 DEF disk
  <2>2. CASE Discard(i) /\ rcv' = rcv
    <3>1. EntriesRemain({i})
      BY <2>2 DEF EntriesRemain, In
    <3>2. QED
      BY <1>1, <2>2, <3>1, Discards
  <2>3. CASE completing[i] = "intact" /\ rcv' = [rcv EXCEPT ![i] = {}] /\ UNCHANGED disk
    <3>1. i \in final'
      BY <2>3 DEF DiskInv, Orphanless, Intact, Going
    <3>2. EntriesRemain({i})
      BY <2>3, EntriesStay DEF DiskInv
    <3>3. EntriesRemain({}) /\ RecordsRemain({}) /\ store' = store
      BY <2>3, <3>1, <3>2, RecordsStay DEF EntriesRemain, DiskInv, disk
    <3>4. QED
      BY <3>3, Kept
  <2>4. CASE Put(i, [T(i) EXCEPT !.state = "failed"]) /\ Note(i, "failed") /\ store' = store
    BY <1>3, <2>4
  <2>5. QED
    BY <1>6, <2>1, <2>2, <2>3, <2>4 DEF Finalized, Verdict
<1>7. CASE CancelEnds(i)
  <2>1. rcv' = [rcv EXCEPT ![i] = {}] /\ records' = [records EXCEPT ![i] = "cancelled"] /\ store' = Cleared(i)
    BY <1>7 DEF CancelEnds
  <2>2. RecordsRemain({i}) /\ EntriesRemain({i})
    BY <1>1, <2>1, RecordChanges, EntriesStay DEF DiskInv
  <2>3. QED
    BY <1>1, <2>1, <2>2, Forgotten
<1>8. QED
  BY <1>4, <1>5, <1>6, <1>7

LEMMA UserCovers ==
    ASSUME DiskInv, Going, (\E i \in Ids : PauseAtR(i) \/ ResumeAtR(i) \/ CancelAtR(i)) \/ \E j \in DOMAIN records : Request(j)
    PROVE  Covers
<1>1. ASSUME NEW i \in Ids, PauseAtR(i) \/ ResumeAtR(i) PROVE Covers
  BY <1>1, UpdateCovers DEF PauseAtR, ResumeAtR
<1>2. ASSUME NEW i \in Ids, CancelAtR(i) PROVE Covers
  BY <1>2, SameCovers DEF CancelAtR, BeginCancel, disk
<1>3. ASSUME NEW j \in DOMAIN records, Request(j) PROVE Covers
  <2>1. UNCHANGED <<rcv, store>> /\ records[j] # "none"
    BY <1>3 DEF Request
  <2>2. CASE records' = records
    BY <2>1, <2>2, SameCovers
  <2>3. CASE records' = [records EXCEPT ![j] = "waiting"]
    BY <2>1, <2>3, RecordCovers
  <2>4. QED
    BY <1>3, <2>2, <2>3 DEF Request
<1>4. QED
  BY <1>1, <1>2, <1>3

\* After a restart chunks may stay behind, in the browser under a record.
LEMMA RestartCovers ==
    ASSUME DiskInv, RestartR
    PROVE  Covers
<1>1. UNCHANGED <<setup, used, records, store, final>> /\ calm' = "restarted"
  BY DEF RestartR, sender, disk
<1>2. Listed' = Listed /\ \A i \in Ids : Held(i)' = Held(i)
  BY <1>1 DEF Listed, Held, Key
<1>3. Covered'
  BY <1>1, <1>2 DEF DiskInv, Orphanless, Covered, Explained
<1>4. QED
  BY <1>1, <1>3, ShapeOfDisk DEF Covers, DiskInv

ReceiverSide == ReceiverControl \/ ReceiveChunk \/ RestartR \/ (\E i \in Ids : ReceiverStep(i) \/ PauseAtR(i) \/ ResumeAtR(i) \/ CancelAtR(i))
                \/ (\E w \in writes : ChunkVerified(w) \/ ChunkWritten(w)) \/ \E j \in DOMAIN records : Request(j)

LEMMA ReceiverSideGoes ==
    ASSUME Shape, ReceiverSide
    PROVE  ReceiverGoes /\ (calm = "restarted" => calm' = "restarted")
<1>1. ASSUME NEW i \in Ids, ReceiverStep(i) PROVE ReceiverGoes
  BY <1>1, AcceptGoes, CheckedGoes, FinalizeGoes, FinalizedGoes, CancelGoes DEF ReceiverStep
<1>2. ASSUME NEW w \in writes, ChunkVerified(w) \/ ChunkWritten(w) PROVE ReceiverGoes
  BY <1>2, VerifiedGoes, WrittenGoes
<1>3. ReceiverGoes
  BY <1>1, <1>2, ReceiverHears, ChunkArrives, RestartGoes, ReceiverIsTold, RequestGoes DEF ReceiverSide
<1>4. calm' = calm \/ calm' = "restarted" \/ Disturb
  <2>1. ASSUME NEW i \in Ids, ReceiverStep(i) PROVE calm' = calm \/ Disturb
    BY <2>1 DEF ReceiverStep, AcceptPrepared, AcceptListed, AcceptFails, CompleteChecked, Finalize, Finalized, CancelEnds, Calm
  <2>2. ASSUME NEW i \in Ids, PauseAtR(i) \/ ResumeAtR(i) \/ CancelAtR(i) PROVE calm' = calm \/ Disturb
    BY <2>2 DEF PauseAtR, ResumeAtR, CancelAtR, Calm
  <2>3. ASSUME NEW w \in writes, ChunkVerified(w) \/ ChunkWritten(w) PROVE calm' = calm
    BY <2>3 DEF ChunkVerified, ChunkWritten, Calm
  <2>4. ASSUME NEW j \in DOMAIN records, Request(j) PROVE calm' = calm
    BY <2>4 DEF Request, Calm
  <2>5. ReceiverControl \/ ReceiveChunk => calm' = calm
    BY DEF ReceiverControl, ReceiveChunk, Calm
  <2>6. RestartR => calm' = "restarted"
    BY DEF RestartR
  <2>7. QED
    BY <2>1, <2>2, <2>3, <2>4, <2>5, <2>6 DEF ReceiverSide
<1>5. QED
  BY <1>3, <1>4 DEF Disturb

LEMMA ReceiverSideCovers ==
    ASSUME DiskInv, ReceiverSide, Going
    PROVE  Covers
<1>1. ASSUME NEW i \in Ids, ReceiverStep(i) PROVE Covers
  BY <1>1, AcceptCovers, CompleteCovers DEF ReceiverStep
<1>2. CASE ReceiveChunk
  BY <1>2, SameCovers DEF ReceiveChunk, disk
<1>3. QED
  BY <1>1, <1>2, ControlCovers, ChunkCovers, RestartCovers, UserCovers DEF ReceiverSide

AccountInv == ReceiverInv /\ ToldInv /\ DiskInv

LEMMA ReceiverKeepsDisk ==
    ASSUME AccountInv, [Next]_vars, ReceiverSide
    PROVE  DiskInv'
<1>1. ReceiverGoes /\ (calm = "restarted" => calm' = "restarted")
  BY ReceiverSideGoes DEF AccountInv, DiskInv
<1>2. final \subseteq final' /\ ReceiverInv'
  BY StockStep, ReceiverInvStep DEF AccountInv, Stock
<1>3. Going /\ used' = used
  BY <1>1, <1>2 DEF Going, ReceiverGoes
<1>4. Covered' /\ \A k \in Ids : k > used => records'[k] = "none"
  BY <1>3, ReceiverSideCovers DEF AccountInv, Covers
<1>5. SenderShape'
  BY <1>1 DEF ReceiverGoes, AccountInv, DiskInv, Shape, SenderShape
<1>6. ReceiverShape' /\ NetShape'
  BY <1>1, <1>3 DEF ReceiverGoes, ReceiverShape, NetShape
<1>7. DiskShape'
  BY <1>2, <1>3, <1>4 DEF DiskShape, ReceiverInv
<1>8. Intact'
  <2>1. ASSUME NEW k \in Ids, completing'[k] = "intact" PROVE k \in final'
    <3>1. CASE completing[k] = "intact"
      BY <1>2, <3>1 DEF AccountInv, DiskInv, Orphanless, Intact
    <3>2. CASE Finalize(k)
      <4>1. DOMAIN completing = Ids
        BY DEF AccountInv, ReceiverInv
      <4>2. QED
        BY <2>1, <3>2, <4>1 DEF Finalize
    <3>3. QED
      BY <2>1, <3>1, <3>2, CompletingStep DEF AccountInv
  <2>2. QED
    BY <2>1 DEF Intact
<1>9. QED
  BY <1>4, <1>5, <1>6, <1>7, <1>8 DEF DiskInv, Shape, Orphanless

LEMMA DiskStep ==
    ASSUME AccountInv, [Next]_vars
    PROVE  AccountInv'
<1>1. DiskInv'
  <2>1. CASE ReceiverSide
    BY <2>1, ReceiverKeepsDisk
  <2>2. CASE SenderSide
    BY <2>2, SenderSideGoes, SenderLeavesDisk DEF AccountInv, DiskInv
  <2>3. CASE UNCHANGED vars
    BY <2>3 DEF AccountInv, DiskInv, Shape, SenderShape, ReceiverShape, DiskShape, NetShape, Orphanless, Intact, Covered, Explained,
                Listed, Held, Key, In, vars, sender, memory, disk, net
  <2>4. QED
    BY <2>1, <2>2, <2>3 DEF Next, ReceiverSide, SenderSide, UserStep
<1>2. QED
  BY <1>1, ReceiverInvStep, ToldStep DEF AccountInv

LEMMA DiskStarts == Init => AccountInv
<1> SUFFICES ASSUME Init PROVE AccountInv
  OBVIOUS
<1>2. ReceiverInv /\ ToldInv
  BY ReceiverStarts
<1>4. used \in 0..MaxTransfers /\ used = 0
  BY Counted DEF Init
<1>5. SenderShape /\ ReceiverShape
  BY <1>4 DEF Init, SenderShape, ReceiverShape, OnePerId, Idle, AcceptSteps, CompleteSteps
<1>6. DiskShape
  <2>1. \A i \in Ids : records[i] = "none"
    BY Counted DEF Init
  <2>2. QED
    BY <1>2, <2>1 DEF ReceiverInv, DiskShape
<1>7. NetShape
  <2>1. Message("hello", 0) \in Controls(used)
    BY <1>4, SaysOfFile DEF OfFile
  <2>2. QED
    BY <2>1 DEF Init, NetShape
<1>8. Orphanless
  <2>1. ASSUME NEW i \in Ids PROVE Held(i) = {}
    <3>1. store[Key(i)] = NoChunks
      BY FirstId DEF Init
    <3>2. QED
      BY <3>1 DEF Held, NoChunks
  <2>2. QED
    BY <2>1 DEF Init, Orphanless, Intact, Covered
<1>9. QED
  BY <1>2, <1>5, <1>6, <1>7, <1>8 DEF AccountInv, DiskInv, Shape

LEMMA DiskInvSuffices == AccountInv => DiskIsAccountedFor
<1> SUFFICES ASSUME AccountInv PROVE DiskIsAccountedFor
  OBVIOUS
<1>1. OnePerId(snd, Queue, used) /\ OnePerId(rcv, Incoming, used) /\ used \in 0..MaxTransfers
  BY DEF AccountInv, DiskInv, Shape, SenderShape, ReceiverShape
<1>2. ASSUME NEW s, NEW Type, OnePerId(s, Type, used), NEW i \in Ids PROVE Cardinality(s[i]) <= 1 /\ s[i] \in SUBSET Type
  <2>1. s[i] = {} \/ \E x \in Type : s[i] = {x}
    BY <1>2 DEF OnePerId
  <2>2. \A x : Cardinality({x}) = 1
    BY FS_Singleton
  <2>3. Cardinality({}) = 0
    BY FS_EmptySet
  <2>4. CASE s[i] = {}
    BY <2>3, <2>4
  <2>5. ASSUME NEW x \in Type, s[i] = {x} PROVE Cardinality(s[i]) <= 1 /\ s[i] \in SUBSET Type
    <3>1. Cardinality(s[i]) = Cardinality({x})
      BY <2>5
    <3>2. Cardinality(s[i]) = 1
      BY <2>2, <3>1
    <3>3. QED
      BY <2>5, <3>2
  <2>6. QED
    BY <2>1, <2>4, <2>5
<1>3. ASSUME NEW i \in Ids
      PROVE  /\ Cardinality(snd[i]) <= 1 /\ Cardinality(rcv[i]) <= 1
             /\ \A t \in rcv[i] : t.state \in {"offered", "accepted", "transferring", "paused", "verifying", "cancelled", "failed"}
             /\ \A q \in snd[i] : q.run \in {"no", "chunks"} /\ q.missing \subseteq Chunks
  <2>1. Cardinality(snd[i]) <= 1 /\ Cardinality(rcv[i]) <= 1 /\ snd[i] \in SUBSET Queue /\ rcv[i] \in SUBSET Incoming
    BY <1>1, <1>2
  <2>2. QED
    BY <2>1 DEF Queue, Incoming
<1>4. TypeOK
  <2>1. /\ accepting \in [Ids -> {"no", "prepare", "list"}]
        /\ completing \in [Ids -> {"no", "wait", "verify", "intact", "mismatch", "error"}]
    BY DEF AccountInv, DiskInv, Shape, ReceiverShape, Idle, AcceptSteps, CompleteSteps
  <2>2. final \subseteq Ids /\ verified \subseteq Ids /\ reported \subseteq Ids /\ store \in [Ids -> [Chunks -> {"no", "good", "bad"}]]
    BY DEF AccountInv, DiskInv, Shape, SenderShape, ReceiverShape, DiskShape
  <2>3. QED
    BY <1>1, <1>3, <2>1, <2>2 DEF TypeOK
<1>5. NoOrphanChunks
  <2>1. ASSUME NEW i \in Ids, Held(i) # {}, calm # "restarted"
        PROVE  \/ \E j \in Ids : Key(j) = Key(i) /\ (In(j) \/ j \in final)
               \/ ~setup.desktop /\ Listed # {} /\ (used > 1 \/ 0 \in Listed)
    <3>1. CASE setup.desktop
      BY <2>1, <3>1 DEF AccountInv, DiskInv, Orphanless, Covered
    <3>2. CASE ~setup.desktop
      <4>1. \A j \in Ids : Key(j) = Key(i)
        BY <3>2 DEF Key
      <4>2. QED
        BY <2>1, <3>2, <4>1 DEF AccountInv, DiskInv, Orphanless, Covered, Explained
    <3>3. QED
      BY <3>1, <3>2
  <2>2. QED
    BY <2>1 DEF NoOrphanChunks
<1>6. QED
  BY <1>4, <1>5 DEF DiskIsAccountedFor

\* What is known of a transfer has its type, at most one entry for each peer, and the receiver's disk keeps no chunk that
\* nothing accounts for, through the discards of cancelled, rejected, failed and finalized transfers that share chunks.
THEOREM DiskStaysAccountedFor == Spec => []DiskIsAccountedFor
<1>1. Init => AccountInv
  BY DiskStarts
<1>2. AccountInv /\ [Next]_vars => AccountInv'
  BY DiskStep
<1>3. QED
  BY <1>1, <1>2, DiskInvSuffices, PTL DEF Spec

=============================================================================
