----------------------------- MODULE MediaProofs -----------------------------
(***************************************************************************)
(* What the media of a call rests on.  Of ScreenAudio, for any streams,    *)
(* requests, changes and faults: no loopback outlives its owner, and a mix *)
(* that excludes Risk does not carry Risk's audio as long as requests do   *)
(* not cross.  Of Mesh, for any number of faults and any peers that        *)
(* publish: media flows only over a connection that came up, and a broken  *)
(* connection has a repair scheduled.  Of Media, for any number of calls,  *)
(* requests and faults: nothing stays captured after a call, a share stops *)
(* only for a cause, and participants get what they are told they get.     *)
(***************************************************************************)
EXTENDS ScreenAudio, MeshState, MediaState, FiniteSetTheorems, SequenceTheorems, WellFoundedInduction, TLAPS

CONSTANTS Publishing, Serial

\* The steps of the pair of peers of a call, and of the local side of its media.
\* MaxFaults bounds the faults of each model.
Pair == INSTANCE Mesh
Loc == INSTANCE Media

USE DEF Ids

(* What the conjuncts of TypeOK say of the members of the sets.             *)
LEMMA Members ==
    ASSUME TypeOK
    PROVE  /\ MaxRequests \in Nat /\ count.requests \in 0..MaxRequests
           /\ \A r \in reqs : r \in Request /\ r.id \in Ids
           /\ \A t \in tasks : t \in Task /\ t.id \in Ids
           /\ slot \in Nat
BY ScreenAudioAssumption DEF TypeOK, Request, Task

(* A request that moves on, or a task that links other streams, keeps what  *)
(* it is otherwise.                                                         *)
LEMMA Moved ==
    ASSUME NEW r \in Request,
           NEW at \in {"stop", "spawn", "nodes", "read", "link", "slot"}, To(r, at)
    PROVE  \E n \in Request :
               /\ reqs' = (reqs \ {r}) \cup {n}
               /\ n.id = r.id /\ n.kind = r.kind /\ n.excl = r.excl /\ n.todo = r.todo
               /\ n.at = at
<1> DEFINE n == [r EXCEPT !.at = at]
<1>1. n \in Request /\ n.id = r.id /\ n.kind = r.kind /\ n.excl = r.excl /\ n.todo = r.todo
      /\ n.at = at
  BY DEF Request
<1>2. reqs' = (reqs \ {r}) \cup {n}
  BY DEF To
<1> HIDE DEF n
<1>3. QED
  BY <1>1, <1>2

LEMMA GivenTask ==
    ASSUME NEW t \in Task, NEW todo \in SUBSET (Apps \X Ids)
    PROVE  \E n \in Task : /\ n = [t EXCEPT !.todo = todo]
                           /\ n.id = t.id /\ n.excl = t.excl /\ n.todo = todo
<1> DEFINE n == [t EXCEPT !.todo = todo]
<1>1. n \in Task /\ n.id = t.id /\ n.excl = t.excl /\ n.todo = todo
      /\ n = [t EXCEPT !.todo = todo]
  BY DEF Task
<1> HIDE DEF n
<1>2. QED
  BY <1>1


(* Streams to be linked are those of the graph.                             *)
LEMMA WantedType ==
    ASSUME TypeOK, NEW i \in Ids, NEW excl \in BOOLEAN
    PROVE  /\ Wanted(i, excl) \in SUBSET (Apps \X Ids)
           /\ \A w \in Wanted(i, excl) : w[2] = i /\ (excl => w[1] \notin Risk)
BY DEF TypeOK, Wanted, IsRiskNode

(* Links end in the stream and the mix they were made for.                  *)
LEMMA LinkEnds ==
    ASSUME NEW w, NEW l \in LinksOf(w)
    PROVE  l[1] = w[1] /\ l[3] = w[2]
BY DEF LinksOf

LEMMA FaultCounts ==
    ASSUME TypeOK, Fault
    PROVE  /\ count' \in [requests : 0 .. MaxRequests, changes : 0 .. MaxChanges,
                          faults : 0 .. MaxFaults]
           /\ count'.requests = count.requests
<1>1. count \in [requests : 0 .. MaxRequests, changes : 0 .. MaxChanges, faults : 0 .. MaxFaults]
      /\ MaxFaults \in Nat
  BY ScreenAudioAssumption DEF TypeOK
<1>2. count.faults + 1 \in 0..MaxFaults
  BY <1>1 DEF Fault
<1>3. QED
  BY <1>1, <1>2 DEF Fault

-----------------------------------------------------------------------------
(* Typing.                                                                  *)

\* One request takes the place of another, and fewer mixes run.
LEMMA TypeFrame ==
    ASSUME TypeOK, reqs' \subseteq Request,
           \A r \in reqs' : r.kind = "stop" => r.at = "stop",
           tasks' \subseteq Task, \A t, u \in tasks' : t.id = u.id => t = u,
           mixes' \subseteq Ids, slot' \in Ids \cup {0}, nodes' \subseteq Apps,
           \A l \in links' : l[1] \in nodes' /\ l[3] \in mixes',
           excludes' \subseteq Ids, crossed' \in BOOLEAN,
           \/ count' = count
           \/ count' \in [requests : 0 .. MaxRequests, changes : 0 .. MaxChanges,
                          faults : 0 .. MaxFaults]
    PROVE  TypeOK'
BY DEF TypeOK

LEMMA TypeServes ==
    ASSUME TypeOK, OwnersInv, NEW r \in reqs, Serves(r) \/ PrepareFails(r) \/ ClientGone(r)
    PROVE  TypeOK'
<1>1. r \in Request /\ r.id \in Ids /\ reqs \subseteq Request /\ tasks \subseteq Task
      /\ r.excl \in BOOLEAN /\ (r.kind = "stop" => r.at = "stop")
      /\ r.todo \in SUBSET (Apps \X Ids)
  BY DEF TypeOK, Request
<1>2. /\ mixes \subseteq Ids /\ nodes \subseteq Apps /\ slot \in Ids \cup {0}
      /\ excludes \subseteq Ids /\ crossed \in BOOLEAN
      /\ \A q \in reqs : q.kind = "stop" => q.at = "stop"
      /\ \A t, u \in tasks : t.id = u.id => t = u
      /\ \A l \in links : l[1] \in nodes /\ l[3] \in mixes
  BY DEF TypeOK
<1>3. CASE StopPipewire(r)
  <2>1. CASE r.kind = "stop"
    BY <1>1, <1>2, <1>3, <2>1, TypeFrame DEF StopPipewire, Kill, Joining, Served
  <2>2. CASE r.kind # "stop"
    <3>1. PICK n \in Request : reqs' = (reqs \ {r}) \cup {n} /\ n.kind = r.kind
      BY <1>1, <1>3, <2>2, Moved DEF StopPipewire
    <3>2. QED
      BY <1>1, <1>2, <1>3, <2>2, <3>1, TypeFrame DEF StopPipewire, Kill, Joining
  <2>3. QED
    BY <2>1, <2>2
<1>4. CASE Spawn(r)
  <2>1. PICK n \in Request : reqs' = (reqs \ {r}) \cup {n} /\ n.kind = r.kind
    BY <1>1, <1>4, Moved DEF Spawn
  <2>2. QED
    BY <1>1, <1>2, <1>4, <2>1, TypeFrame DEF Spawn
<1>5. CASE PrepareFails(r)
  BY <1>1, <1>2, <1>5, TypeFrame, FaultCounts DEF PrepareFails, Kill, Joining, Served
<1>6. CASE NodesReady(r)
  <2>1. PICK n \in Request : reqs' = (reqs \ {r}) \cup {n} /\ n.kind = r.kind
    BY <1>1, <1>6, Moved DEF NodesReady
  <2>2. QED
    BY <1>1, <1>2, <1>6, <2>1, TypeFrame DEF NodesReady
<1>7. CASE FirstRead(r)
  <2>1. PICK i \in mixes :
          IF i \in ready
          THEN /\ reqs' = (reqs \ {r}) \cup {[r EXCEPT !.at = "link", !.todo = Wanted(i, r.excl)]}
               /\ UNCHANGED <<mixes, links>>
          ELSE Served(r) /\ Kill({r.id})
    BY <1>7 DEF FirstRead
  <2>2. Wanted(i, r.excl) \in SUBSET (Apps \X Ids)
    BY <1>1, <1>2, WantedType
  <2>3. CASE i \in ready
    <3>1. PICK n \in Request : reqs' = (reqs \ {r}) \cup {n} /\ n.kind = r.kind
      <4> DEFINE todo == Wanted(i, r.excl)
      <4>1. reqs' = (reqs \ {r}) \cup {[r EXCEPT !.at = "link", !.todo = todo]}
        BY <2>1, <2>3
      <4>2. todo \in SUBSET (Apps \X Ids)
        BY <2>2
      <4> HIDE DEF todo
      <4> DEFINE n == [r EXCEPT !.at = "link", !.todo = todo]
      <4>3. n \in Request /\ n.kind = r.kind /\ reqs' = (reqs \ {r}) \cup {n}
        BY <1>1, <4>1, <4>2 DEF Request
      <4> HIDE DEF n
      <4>4. QED
        BY <4>3
    <3>2. QED
      BY <1>1, <1>2, <1>7, <2>1, <2>3, <3>1, TypeFrame DEF FirstRead
  <2>4. CASE i \notin ready
    BY <1>1, <1>2, <1>7, <2>1, <2>4, TypeFrame DEF FirstRead, Kill, Joining, Served
  <2>5. QED
    BY <2>3, <2>4
<1>8. CASE FirstLink(r)
  <2>1. PICK w \in r.todo : Linked(w) /\ reqs' = (reqs \ {r}) \cup {[r EXCEPT !.todo = @ \ {w}]}
    BY <1>8 DEF FirstLink
  <2>2. [r EXCEPT !.todo = @ \ {w}] \in Request /\ [r EXCEPT !.todo = @ \ {w}].kind = r.kind
        /\ [r EXCEPT !.todo = @ \ {w}].at = r.at
    BY <1>1 DEF Request
  <2>3. QED
    BY <1>1, <1>2, <1>8, <2>1, <2>2, TypeFrame DEF FirstLink, Linked, Joining
<1>9. CASE SpawnTask(r)
  <2> DEFINE n == [id |-> r.id, excl |-> r.excl, todo |-> {}]
  <2>1. n \in Task /\ n.id = r.id /\ tasks' = tasks \cup {n}
    BY <1>1, <1>9 DEF SpawnTask, Task
  <2>2. \A t \in tasks : t.id # r.id
    BY <1>9 DEF SpawnTask, OwnersInv
  <2> HIDE DEF n
  <2>3. \A t, u \in tasks' : t.id = u.id => t = u
    BY <1>2, <2>1, <2>2
  <2>4. PICK q \in Request : reqs' = (reqs \ {r}) \cup {q} /\ q.kind = r.kind
    BY <1>1, <1>9, Moved DEF SpawnTask
  <2>5. QED
    BY <1>1, <1>2, <1>9, <2>1, <2>3, <2>4, TypeFrame DEF SpawnTask
<1>10. CASE StoreSession(r)
  BY <1>1, <1>2, <1>10, TypeFrame DEF StoreSession, Kill, Joining, Served
<1>11. CASE ClientGone(r)
  BY <1>1, <1>2, <1>11, TypeFrame, FaultCounts DEF ClientGone, Kill, Joining, Served
<1>12. QED
  BY <1>3, <1>4, <1>5, <1>6, <1>7, <1>8, <1>9, <1>10, <1>11 DEF Serves

LEMMA TypeOthers ==
    ASSUME TypeOK,
           \/ \E excl \in BOOLEAN : Arrives("prepare", excl)
           \/ Arrives("stop", FALSE)
           \/ \E t \in tasks : Reconciles(t)
           \/ \E i \in Ids : NodesAppear(i) \/ LoopbackDies(i)
           \/ \E a \in Apps : AppChanges(a)
           \/ BackendDies
    PROVE  TypeOK'
<1>1. reqs \subseteq Request /\ tasks \subseteq Task
      /\ count \in [requests : 0 .. MaxRequests, changes : 0 .. MaxChanges, faults : 0 .. MaxFaults]
  BY DEF TypeOK
<1>2. /\ mixes \subseteq Ids /\ nodes \subseteq Apps /\ slot \in Ids \cup {0}
      /\ excludes \subseteq Ids /\ crossed \in BOOLEAN
      /\ \A q \in reqs : q.kind = "stop" => q.at = "stop"
      /\ \A t, u \in tasks : t.id = u.id => t = u
      /\ \A l \in links : l[1] \in nodes /\ l[3] \in mixes
  BY DEF TypeOK
<1>3. ASSUME NEW kind \in {"prepare", "stop"}, NEW excl \in BOOLEAN, Arrives(kind, excl)
      PROVE  TypeOK'
  <2> DEFINE n == [id |-> count.requests + 1, kind |-> kind, excl |-> excl, at |-> "stop", todo |-> {}]
  <2>1. count.requests + 1 \in Ids /\ count.requests + 1 \in 0 .. MaxRequests
    BY <1>1, <1>3, Members DEF Arrives
  <2>2. n \in Request /\ n.at = "stop"
    BY <2>1 DEF Request
  <2>3. count' \in [requests : 0 .. MaxRequests, changes : 0 .. MaxChanges, faults : 0 .. MaxFaults]
    BY <1>1, <1>3, <2>1 DEF Arrives
  <2>4. reqs' = reqs \cup {n}
    BY <1>3 DEF Arrives
  <2> HIDE DEF n
  <2>5. QED
    BY <1>1, <1>2, <1>3, <2>2, <2>3, <2>4, TypeFrame DEF Arrives
<1>4. ASSUME NEW t \in tasks, Reconciles(t) PROVE TypeOK'
  <2>1. t \in Task /\ t.excl \in BOOLEAN
    BY <1>1 DEF Task
  <2>2. PICK n : n \in Task /\ n.id = t.id /\ tasks' = (tasks \ {t}) \cup {n}
    <3>1. CASE TaskReads(t)
      <4>1. PICK i \in mixes \cap ready :
              tasks' = (tasks \ {t}) \cup {[t EXCEPT !.todo = Wanted(i, t.excl)]}
        BY <3>1 DEF TaskReads
      <4>2. Wanted(i, t.excl) \in SUBSET (Apps \X Ids)
        BY <1>2, <2>1, WantedType
      <4>3. QED
        BY <2>1, <4>1, <4>2, GivenTask
    <3>2. CASE TaskLinks(t)
      <4>1. PICK w \in t.todo : tasks' = (tasks \ {t}) \cup {[t EXCEPT !.todo = @ \ {w}]}
        BY <3>2 DEF TaskLinks
      <4>2. [t EXCEPT !.todo = @ \ {w}] \in Task /\ [t EXCEPT !.todo = @ \ {w}].id = t.id
        BY <2>1 DEF Task
      <4>3. QED
        BY <4>1, <4>2
    <3>3. QED
      BY <1>4, <3>1, <3>2 DEF Reconciles
  <2>3. \A a, b \in tasks' : a.id = b.id => a = b
    BY <1>2, <2>2
  <2>4. UNCHANGED <<count, reqs, mixes, slot, nodes, excludes, crossed>>
        /\ \A l \in links' : l[1] \in nodes /\ l[3] \in mixes
    BY <1>2, <1>4 DEF Reconciles, TaskReads, TaskLinks, Linked, Joining
  <2>5. QED
    BY <1>1, <1>2, <2>2, <2>3, <2>4, TypeFrame
<1>5. CASE \E i \in Ids : NodesAppear(i)
  BY <1>1, <1>2, <1>5, TypeFrame DEF NodesAppear
<1>6. CASE \E i \in Ids : LoopbackDies(i)
  BY <1>1, <1>2, <1>6, TypeFrame, FaultCounts DEF LoopbackDies, Kill, Joining
<1>7. ASSUME NEW a \in Apps, AppChanges(a) PROVE TypeOK'
  <2>1. count' \in [requests : 0 .. MaxRequests, changes : 0 .. MaxChanges, faults : 0 .. MaxFaults]
    <3>1. MaxChanges \in Nat /\ count.changes + 1 \in 0..MaxChanges
      BY <1>1, <1>7, ScreenAudioAssumption DEF AppChanges
    <3>2. QED
      BY <1>1, <1>7, <3>1 DEF AppChanges
  <2>2. QED
    BY <1>1, <1>2, <1>7, <2>1, TypeFrame DEF AppChanges, Joining
<1>8. CASE BackendDies
  BY <1>1, <1>2, <1>8, TypeFrame, FaultCounts DEF BackendDies, Kill, Joining
<1>9. QED
  BY <1>3, <1>4, <1>5, <1>6, <1>7, <1>8

-----------------------------------------------------------------------------
(* The owners of loopbacks.                                                 *)

\* The end of a request that kills its loopback.
LEMMA OwnersServed ==
    ASSUME TypeOK, OwnersInv, NEW r \in reqs, Served(r), mixes' = mixes \ {r.id},
           count'.requests = count.requests, UNCHANGED <<slot, tasks, excludes>>
    PROVE  OwnersInv'
BY DEF OwnersInv, NoStrayLoopback, Served

\* A request that moves on, past the point where its loopback runs.
LEMMA OwnersMoved ==
    ASSUME TypeOK, OwnersInv, NEW r \in reqs, r.at \notin {"stop", "spawn"},
           NEW n \in Request, reqs' = (reqs \ {r}) \cup {n}, n.id = r.id,
           n.at \in {r.at, "slot"} \/ (n.at \in {"read", "link"} /\ r.at # "slot"),
           count'.requests = count.requests, UNCHANGED <<mixes, slot, excludes>>,
           \A t \in tasks' : \/ \E u \in tasks : u.id = t.id
                             \/ t.id = r.id /\ n.at = "slot"
    PROVE  OwnersInv'
<1>1. \A q \in reqs' : q = n \/ (q \in reqs /\ q.id # r.id)
  BY DEF OwnersInv
<1>2. n.at \notin {"stop", "spawn"}
  OBVIOUS
<1>3. \A q \in reqs' : \A t \in tasks' : t.id = q.id => q.at = "slot"
  <2> SUFFICES ASSUME NEW q \in reqs', NEW t \in tasks', t.id = q.id PROVE q.at = "slot"
    OBVIOUS
  <2>1. CASE q = n
    BY <2>1 DEF OwnersInv
  <2>2. CASE q # n
    BY <1>1, <2>2 DEF OwnersInv
  <2>3. QED
    BY <2>1, <2>2
<1>4. \A t \in tasks' : t.id <= count.requests
  BY DEF OwnersInv
<1>5. NoStrayLoopback'
  BY DEF OwnersInv, NoStrayLoopback
<1>6. QED
  BY <1>1, <1>2, <1>3, <1>4, <1>5 DEF OwnersInv

LEMMA OwnersServes ==
    ASSUME TypeOK, OwnersInv, NEW r \in reqs, Serves(r) \/ PrepareFails(r) \/ ClientGone(r)
    PROVE  OwnersInv'
<1>1. r \in Request /\ r.id \in Ids /\ reqs \subseteq Request /\ tasks \subseteq Task
      /\ (r.kind = "stop" => r.at = "stop") /\ slot \in Ids \cup {0}
      /\ r.todo \in SUBSET (Apps \X Ids) /\ r.excl \in BOOLEAN /\ mixes \subseteq Ids
  BY DEF TypeOK, Request
<1>2. \A q \in reqs : q # r => q.id # r.id
  BY DEF OwnersInv
<1>3. CASE StopPipewire(r)
  <2>1. /\ slot' = 0 /\ mixes' = mixes \ {slot} /\ tasks' \subseteq tasks
        /\ UNCHANGED <<count, excludes>> /\ r.at = "stop" /\ r.id \notin mixes /\ r.id # 0
    BY <1>1, <1>3 DEF StopPipewire, Kill, OwnersInv
  <2> DEFINE new == IF r.kind = "stop" THEN {} ELSE {[r EXCEPT !.at = "spawn"]}
  <2>2. /\ reqs' = (reqs \ {r}) \cup new
        /\ \A n \in new : n.id = r.id /\ n.at = "spawn"
        /\ \A n, m \in new : n = m
    <3>1. CASE r.kind = "stop"
      BY <1>3, <3>1 DEF StopPipewire, Served
    <3>2. CASE r.kind # "stop"
      <4>1. [r EXCEPT !.at = "spawn"].id = r.id /\ [r EXCEPT !.at = "spawn"].at = "spawn"
        BY <1>1 DEF Request
      <4>2. QED
        BY <1>3, <3>2, <4>1 DEF StopPipewire, To
    <3>3. QED
      BY <3>1, <3>2
  <2> HIDE DEF new
  <2>3. \A q \in reqs' : \/ q \in reqs /\ q.id # r.id
                         \/ q \in new /\ q.id = r.id /\ q.at = "spawn"
    BY <1>2, <2>2
  <2>4. \A q, p \in reqs' : q.id = p.id => q = p
    BY <2>2, <2>3 DEF OwnersInv
  <2>5. \A q \in reqs' :
          /\ q.id <= count.requests /\ q.id # 0
          /\ q.at \in {"stop", "spawn"} => q.id \notin mixes' /\ q.id \notin excludes
          /\ \A t \in tasks' : t.id = q.id => q.at = "slot"
    <3>1. \A t \in tasks : t.id # r.id
      BY <2>1 DEF OwnersInv
    <3>2. r.id \notin excludes /\ r.id <= count.requests
      BY <2>1 DEF OwnersInv
    <3>3. QED
      BY <1>1, <2>1, <2>3, <3>1, <3>2, Members DEF OwnersInv
  <2>6. NoStrayLoopback'
    BY <2>1, <2>2 DEF OwnersInv, NoStrayLoopback
  <2>7. QED
    BY <2>1, <2>4, <2>5, <2>6, Members DEF OwnersInv
<1>4. CASE Spawn(r)
  <2>1. PICK n \in Request : reqs' = (reqs \ {r}) \cup {n} /\ n.id = r.id /\ n.at = "nodes"
    BY <1>1, <1>4, Moved DEF Spawn
  <2>2. mixes' = mixes \cup {r.id} /\ excludes' \subseteq excludes \cup {r.id}
        /\ UNCHANGED <<count, slot, tasks>> /\ r.at = "spawn"
    BY <1>4 DEF Spawn
  <2>3. \A q \in reqs' : q = n \/ (q \in reqs /\ q.id # r.id)
    BY <1>2, <2>1
  <2>4. NoStrayLoopback'
    BY <2>1, <2>2 DEF OwnersInv, NoStrayLoopback
  <2>5. r.id <= count.requests /\ r.id # slot /\ \A t \in tasks : t.id # r.id
    BY <2>2 DEF OwnersInv
  <2>6. QED
    BY <2>1, <2>2, <2>3, <2>4, <2>5 DEF OwnersInv
<1>5. CASE PrepareFails(r)
  BY <1>5, OwnersServed, FaultCounts DEF PrepareFails, Kill
<1>6. CASE NodesReady(r)
  <2>1. PICK n \in Request : reqs' = (reqs \ {r}) \cup {n} /\ n.id = r.id /\ n.at = "read"
    BY <1>1, <1>6, Moved DEF NodesReady
  <2>2. QED
    BY <1>6, <2>1, OwnersMoved DEF NodesReady
<1>7. CASE FirstRead(r)
  <2>1. PICK i \in mixes :
          IF i \in ready
          THEN /\ reqs' = (reqs \ {r}) \cup {[r EXCEPT !.at = "link", !.todo = Wanted(i, r.excl)]}
               /\ UNCHANGED <<mixes, links>>
          ELSE Served(r) /\ Kill({r.id})
    BY <1>7 DEF FirstRead
  <2>2. CASE i \in ready
    <3> DEFINE todo == Wanted(i, r.excl)
               n == [r EXCEPT !.at = "link", !.todo = todo]
    <3>1. todo \in SUBSET (Apps \X Ids) /\ reqs' = (reqs \ {r}) \cup {n}
      BY <1>1, <2>1, <2>2, WantedType
    <3> HIDE DEF todo
    <3>2. n \in Request /\ n.id = r.id /\ n.at = "link"
      BY <1>1, <3>1 DEF Request
    <3> HIDE DEF n
    <3>3. QED
      BY <1>7, <2>1, <2>2, <3>1, <3>2, OwnersMoved DEF FirstRead
  <2>3. CASE i \notin ready
    BY <1>7, <2>1, <2>3, OwnersServed DEF FirstRead, Kill
  <2>4. QED
    BY <2>2, <2>3
<1>8. CASE FirstLink(r)
  <2>1. PICK w \in r.todo : Linked(w) /\ reqs' = (reqs \ {r}) \cup {[r EXCEPT !.todo = @ \ {w}]}
    BY <1>8 DEF FirstLink
  <2> DEFINE n == [r EXCEPT !.todo = @ \ {w}]
  <2>2. n \in Request /\ n.id = r.id /\ n.at = r.at
    BY <1>1 DEF Request
  <2> HIDE DEF n
  <2>3. reqs' = (reqs \ {r}) \cup {n}
    BY <2>1 DEF n
  <2>4. QED
    BY <1>8, <2>2, <2>3, OwnersMoved DEF FirstLink
<1>9. CASE SpawnTask(r)
  <2>1. PICK n \in Request : reqs' = (reqs \ {r}) \cup {n} /\ n.id = r.id /\ n.at = "slot"
    BY <1>1, <1>9, Moved DEF SpawnTask
  <2>2. QED
    BY <1>9, <2>1, OwnersMoved DEF SpawnTask
<1>10. CASE StoreSession(r)
  <2>1. r.at = "slot" /\ slot' = r.id /\ mixes' = mixes \ {slot} /\ reqs' = reqs \ {r}
        /\ UNCHANGED <<count, tasks, excludes>>
    BY <1>10 DEF StoreSession, Kill, Served
  <2>2. NoStrayLoopback'
    BY <2>1 DEF OwnersInv, NoStrayLoopback
  <2>3. QED
    BY <1>2, <2>1, <2>2 DEF OwnersInv
<1>11. CASE ClientGone(r)
  BY <1>11, OwnersServed, FaultCounts DEF ClientGone, Kill
<1>12. QED
  BY <1>3, <1>4, <1>5, <1>6, <1>7, <1>8, <1>9, <1>10, <1>11 DEF Serves

LEMMA OwnersOthers ==
    ASSUME TypeOK, OwnersInv,
           \/ \E excl \in BOOLEAN : Arrives("prepare", excl)
           \/ Arrives("stop", FALSE)
           \/ \E t \in tasks : Reconciles(t)
           \/ \E i \in Ids : NodesAppear(i) \/ LoopbackDies(i)
           \/ \E a \in Apps : AppChanges(a)
           \/ BackendDies
    PROVE  OwnersInv'
<1>1. count \in [requests : 0 .. MaxRequests, changes : 0 .. MaxChanges, faults : 0 .. MaxFaults]
      /\ count.requests \in Nat /\ tasks \subseteq Task /\ slot \in Nat /\ mixes \subseteq Ids
      /\ excludes \subseteq Ids /\ \A r \in reqs : r.id \in Ids
  BY Members DEF TypeOK
<1>2. ASSUME NEW kind \in {"prepare", "stop"}, NEW excl \in BOOLEAN, Arrives(kind, excl)
      PROVE  OwnersInv'
  <2> DEFINE n == [id |-> count.requests + 1, kind |-> kind, excl |-> excl, at |-> "stop", todo |-> {}]
  <2>1. reqs' = reqs \cup {n} /\ count'.requests = count.requests + 1
        /\ UNCHANGED <<mixes, slot, tasks, excludes>>
    BY <1>1, <1>2 DEF Arrives
  <2>2. n.id = count.requests + 1 /\ n.at = "stop"
    OBVIOUS
  <2> HIDE DEF n
  <2>3. \A q \in reqs : q.id < n.id
    BY <1>1, <2>2 DEF OwnersInv
  <2>4. \A i \in mixes \cup excludes : i < n.id
    BY <1>1, <2>2 DEF OwnersInv
  <2>5. (\A t \in tasks : t.id < n.id) /\ slot < n.id
    BY <1>1, <2>2 DEF OwnersInv, Task
  <2>6. \A q, p \in reqs' : q.id = p.id => q = p
    BY <1>1, <2>1, <2>2, <2>3 DEF OwnersInv
  <2>7. NoStrayLoopback'
    BY <2>1 DEF OwnersInv, NoStrayLoopback
  <2>8. \A r \in reqs' :
          /\ r.id <= n.id /\ r.id # slot
          /\ r.at \in {"stop", "spawn"} => r.id \notin mixes /\ r.id \notin excludes
          /\ \A t \in tasks : t.id = r.id => r.at = "slot"
    <3>1. CASE reqs = {}
      BY <1>1, <2>1, <2>2, <2>4, <2>5, <3>1 DEF Task
    <3>2. \A r \in reqs : /\ r.id <= n.id /\ r.id # slot
                          /\ r.at \in {"stop", "spawn"} => r.id \notin mixes /\ r.id \notin excludes
                          /\ \A t \in tasks : t.id = r.id => r.at = "slot"
      BY <1>1, <2>2, <2>3 DEF OwnersInv
    <3>3. n.id <= n.id /\ n.id # slot /\ n.id \notin mixes /\ n.id \notin excludes
          /\ \A t \in tasks : t.id # n.id
      BY <1>1, <2>2, <2>4, <2>5 DEF Task
    <3>4. QED
      BY <2>1, <3>2, <3>3
  <2>9. QED
    BY <1>1, <2>1, <2>2, <2>4, <2>5, <2>6, <2>7, <2>8 DEF OwnersInv, Task
<1>3. ASSUME NEW t \in tasks, Reconciles(t) PROVE OwnersInv'
  <2>1. UNCHANGED <<count, reqs, mixes, slot, excludes>>
    BY <1>3 DEF Reconciles, TaskReads, TaskLinks
  <2>2. \A u \in tasks' : u \in tasks \/ u.id = t.id
    <3>1. CASE TaskReads(t)
      <4>1. \A i : [t EXCEPT !.todo = Wanted(i, t.excl)].id = t.id
        BY <1>1 DEF Task
      <4>2. QED
        BY <3>1, <4>1 DEF TaskReads
    <3>2. CASE TaskLinks(t)
      <4>1. \A w : [t EXCEPT !.todo = @ \ {w}].id = t.id
        BY <1>1 DEF Task
      <4>2. QED
        BY <3>2, <4>1 DEF TaskLinks
    <3>3. QED
      BY <1>3, <3>1, <3>2 DEF Reconciles
  <2>3. NoStrayLoopback'
    BY <2>1 DEF OwnersInv, NoStrayLoopback
  <2>4. QED
    BY <2>1, <2>2, <2>3 DEF OwnersInv
<1>4. CASE \E i \in Ids : NodesAppear(i) \/ LoopbackDies(i)
  <2>1. mixes' \subseteq mixes /\ count'.requests = count.requests
        /\ UNCHANGED <<reqs, slot, tasks, excludes>>
    BY <1>4, FaultCounts DEF NodesAppear, LoopbackDies, Kill
  <2>2. QED
    BY <2>1 DEF OwnersInv, NoStrayLoopback
<1>5. CASE \E a \in Apps : AppChanges(a)
  <2>1. count'.requests = count.requests /\ UNCHANGED <<reqs, mixes, slot, tasks, excludes>>
    BY <1>1, <1>5 DEF AppChanges
  <2>2. QED
    BY <2>1 DEF OwnersInv, NoStrayLoopback
<1>6. CASE BackendDies
  <2>1. count'.requests = count.requests /\ reqs' = {} /\ slot' = 0 /\ tasks' = {}
        /\ mixes' = {} /\ excludes' = excludes
    BY <1>1, <1>6, FaultCounts DEF BackendDies, Kill
  <2>2. NoStrayLoopback'
    BY <2>1 DEF NoStrayLoopback
  <2>3. \A i \in excludes : i <= count.requests
    BY DEF OwnersInv
  <2>4. slot' <= count'.requests
    BY <1>1, <2>1
  <2>5. \A i \in mixes' \cup excludes' : i <= count'.requests
    BY <2>1, <2>3
  <2>6. QED
    BY <2>1, <2>2, <2>4, <2>5 DEF OwnersInv
<1>7. QED
  BY <1>2, <1>3, <1>4, <1>5, <1>6

-----------------------------------------------------------------------------
LEMMA OwnersInit ==
    ASSUME Init
    PROVE  TypeOK /\ OwnersInv
<1>1. 0 \in 0..MaxRequests /\ 0 \in 0..MaxChanges /\ 0 \in 0..MaxFaults
  BY ScreenAudioAssumption
<1>2. TypeOK
  BY <1>1 DEF Init, TypeOK
<1>3. OwnersInv
  BY DEF Init, OwnersInv, NoStrayLoopback
<1>4. QED
  BY <1>2, <1>3

LEMMA OwnersStep ==
    ASSUME TypeOK, OwnersInv, [Next]_vars
    PROVE  TypeOK' /\ OwnersInv'
<1>1. CASE UNCHANGED vars
  BY <1>1 DEF vars, TypeOK, OwnersInv, NoStrayLoopback
<1>2. CASE \E r \in reqs : Serves(r) \/ PrepareFails(r) \/ ClientGone(r)
  BY <1>2, TypeServes, OwnersServes
<1>3. CASE ~(\E r \in reqs : Serves(r) \/ PrepareFails(r) \/ ClientGone(r)) /\ Next
  <2>1. \/ \E excl \in BOOLEAN : Arrives("prepare", excl)
        \/ Arrives("stop", FALSE)
        \/ \E t \in tasks : Reconciles(t)
        \/ \E i \in Ids : NodesAppear(i) \/ LoopbackDies(i)
        \/ \E a \in Apps : AppChanges(a)
        \/ BackendDies
    BY <1>3 DEF Next
  <2>2. QED
    BY <2>1, TypeOthers, OwnersOthers
<1>4. QED
  BY <1>1, <1>2, <1>3

(* No loopback outlives the session or the prepare that owns it, whatever   *)
(* failed, was overtaken or went away (start_pipewire, stop_pipewire and    *)
(* the drop of a request in screen_audio.rs).                               *)
THEOREM Owners == Spec => []NoStrayLoopback
<1>1. OwnersInv => NoStrayLoopback
  BY DEF OwnersInv
<1>2. QED
  BY <1>1, OwnersInit, OwnersStep, PTL DEF Spec

-----------------------------------------------------------------------------
(* What is linked into a mix that excludes Risk.                            *)

\* The links after the pw-links of one stream: those that were there, and its own.
LEMMA LinkedEnds ==
    ASSUME NEW w, Linked(w)
    PROVE  \A l \in links' : l \in links \/ (l[1] = w[1] /\ l[3] = w[2])
BY LinkEnds DEF Linked, Joining

\* A request that ends, with its loopback, before a task is its only trace.
LEMMA EchoServed ==
    ASSUME TypeOK, OwnersInv, EchoInv, NEW r \in reqs, Served(r), Kill({r.id}),
           UNCHANGED <<slot, tasks, excludes>>, crossed => crossed',
           r.at = "slot" => crossed'
    PROVE  EchoInv'
BY DEF EchoInv, NoEchoOfRisk, Served, Kill, Joining

\* A request that moves on.
LEMMA EchoMoved ==
    ASSUME TypeOK, OwnersInv, EchoInv, NEW r \in reqs, r.at \notin {"stop", "spawn"},
           NEW n \in Request, reqs' = (reqs \ {r}) \cup {n}, n.id = r.id, n.excl = r.excl,
           n.at # "stop", r.at = "slot" => n.at = "slot",
           ~crossed => \A w \in n.todo : w[2] = r.id /\ (r.excl => w[1] \notin Risk),
           ~crossed /\ r.excl => \A l \in links' : l \in links \/ (l[1] \notin Risk),
           ~crossed /\ ~r.excl => \A l \in links' : l \in links \/ l[3] = r.id,
           UNCHANGED <<slot, tasks, excludes, crossed>>
    PROVE  EchoInv'
<1> SUFFICES ASSUME ~crossed
             PROVE  EchoInv'
  BY DEF EchoInv
<1>1. reqs' = {n} /\ slot = 0 /\ (r.excl <=> r.id \in excludes)
  BY DEF EchoInv
<1>2. NoEchoOfRisk'
  BY <1>1 DEF EchoInv, NoEchoOfRisk
<1>3. \A t \in tasks : t.id = slot \/ \E q \in reqs' : q.at = "slot" /\ q.id = t.id
  BY <1>1 DEF EchoInv
<1>4. QED
  BY <1>1, <1>2, <1>3 DEF EchoInv

LEMMA EchoServes ==
    ASSUME TypeOK, OwnersInv, EchoInv, NEW r \in reqs,
           Serves(r) \/ PrepareFails(r) \/ ClientGone(r)
    PROVE  EchoInv'
<1>1. r \in Request /\ r.id \in Ids /\ reqs \subseteq Request /\ tasks \subseteq Task
      /\ r.todo \in SUBSET (Apps \X Ids) /\ r.excl \in BOOLEAN /\ mixes \subseteq Ids
      /\ slot \in Ids \cup {0} /\ \A l \in links : l[1] \in nodes /\ l[3] \in mixes
  BY DEF TypeOK, Request
<1>2. CASE StopPipewire(r)
  <2> SUFFICES ASSUME ~crossed PROVE EchoInv'
    BY <1>2 DEF EchoInv, StopPipewire
  <2>1. /\ slot' = 0 /\ links' \subseteq links /\ tasks' = {t \in tasks : t.id # slot}
        /\ UNCHANGED <<excludes, crossed>> /\ r.at = "stop"
    BY <1>2 DEF StopPipewire, Kill, Joining
  <2>2. tasks' = {}
    BY <2>1 DEF EchoInv
  <2>3. \A q \in reqs' : q.at = "spawn" /\ q.todo = r.todo /\ q.id = r.id /\ q.excl = r.excl
                         /\ \A p \in reqs' : p = q
    <3>1. CASE r.kind = "stop"
      BY <1>2, <3>1 DEF StopPipewire, Served, EchoInv
    <3>2. CASE r.kind # "stop"
      <4>1. PICK n \in Request : /\ reqs' = (reqs \ {r}) \cup {n} /\ n.at = "spawn"
                                 /\ n.todo = r.todo /\ n.id = r.id /\ n.excl = r.excl
        BY <1>1, <1>2, <3>2, Moved DEF StopPipewire
      <4>2. QED
        BY <4>1 DEF EchoInv
    <3>3. QED
      BY <3>1, <3>2
  <2>4. NoEchoOfRisk'
    BY <2>1 DEF EchoInv, NoEchoOfRisk
  <2>5. QED
    BY <2>1, <2>2, <2>3, <2>4 DEF EchoInv
<1>3. CASE Spawn(r)
  <2> SUFFICES ASSUME ~crossed PROVE EchoInv'
    BY <1>3 DEF EchoInv, Spawn
  <2>1. PICK n \in Request : /\ reqs' = (reqs \ {r}) \cup {n} /\ n.at = "nodes"
                             /\ n.todo = r.todo /\ n.id = r.id /\ n.excl = r.excl
    BY <1>1, <1>3, Moved DEF Spawn
  <2>2. /\ reqs' = {n} /\ slot = 0 /\ r.at = "spawn"
        /\ excludes' = (IF r.excl THEN excludes \cup {r.id} ELSE excludes)
        /\ UNCHANGED <<slot, tasks, links, crossed>>
    BY <1>3, <2>1 DEF Spawn, EchoInv
  <2>3. r.id \notin excludes /\ r.id \notin mixes /\ \A t \in tasks : t.id # r.id
    BY <2>2 DEF OwnersInv
  <2>4. NoEchoOfRisk'
    BY <1>1, <2>2, <2>3 DEF EchoInv, NoEchoOfRisk
  <2>5. tasks = {}
    BY <1>1, <2>2 DEF EchoInv, Task
  <2>6. r.excl <=> r.id \in excludes'
    BY <1>1, <2>2, <2>3
  <2>7. QED
    BY <2>1, <2>2, <2>4, <2>5, <2>6 DEF EchoInv
<1>4. CASE PrepareFails(r)
  BY <1>4, EchoServed DEF PrepareFails
<1>5. CASE NodesReady(r)
  <2>1. PICK n \in Request : /\ reqs' = (reqs \ {r}) \cup {n} /\ n.at = "read"
                             /\ n.todo = r.todo /\ n.id = r.id /\ n.excl = r.excl
    BY <1>1, <1>5, Moved DEF NodesReady
  <2>2. ~crossed => \A w \in n.todo : w[2] = r.id /\ (r.excl => w[1] \notin Risk)
    BY <2>1 DEF EchoInv
  <2>3. QED
    BY <1>5, <2>1, <2>2, EchoMoved DEF NodesReady
<1>6. CASE FirstRead(r)
  <2>1. PICK i \in mixes :
          IF i \in ready
          THEN /\ reqs' = (reqs \ {r}) \cup {[r EXCEPT !.at = "link", !.todo = Wanted(i, r.excl)]}
               /\ UNCHANGED <<mixes, links>>
          ELSE Served(r) /\ Kill({r.id})
    BY <1>6 DEF FirstRead
  <2>2. CASE i \in ready
    <3> DEFINE todo == Wanted(i, r.excl)
               n == [r EXCEPT !.at = "link", !.todo = todo]
    <3>1. todo \in SUBSET (Apps \X Ids) /\ reqs' = (reqs \ {r}) \cup {n}
          /\ \A w \in todo : w[2] = i /\ (r.excl => w[1] \notin Risk)
      BY <1>1, <2>1, <2>2, WantedType
    <3> HIDE DEF todo
    <3>2. n \in Request /\ n.id = r.id /\ n.at = "link" /\ n.excl = r.excl /\ n.todo = todo
      BY <1>1, <3>1 DEF Request
    <3> HIDE DEF n
    <3>3. r.at = "read" /\ UNCHANGED <<slot, tasks, excludes, crossed, links>>
      BY <1>6, <2>1, <2>2 DEF FirstRead
    <3>4. ~crossed => i = r.id
      BY <1>1, <3>3 DEF EchoInv, OwnersInv, NoStrayLoopback
    <3>5. ~crossed => \A w \in n.todo : w[2] = r.id /\ (r.excl => w[1] \notin Risk)
      BY <3>1, <3>2, <3>4
    <3>6. QED
      BY <3>1, <3>2, <3>3, <3>5, EchoMoved
  <2>3. CASE i \notin ready
    BY <1>6, <2>1, <2>3, EchoServed DEF FirstRead
  <2>4. QED
    BY <2>2, <2>3
<1>7. CASE FirstLink(r)
  <2>1. PICK w \in r.todo : Linked(w) /\ reqs' = (reqs \ {r}) \cup {[r EXCEPT !.todo = @ \ {w}]}
    BY <1>7 DEF FirstLink
  <2> DEFINE n == [r EXCEPT !.todo = @ \ {w}]
  <2>2. n \in Request /\ n.id = r.id /\ n.at = r.at /\ n.excl = r.excl /\ n.todo \subseteq r.todo
    BY <1>1 DEF Request
  <2> HIDE DEF n
  <2>3. reqs' = (reqs \ {r}) \cup {n}
    BY <2>1 DEF n
  <2>4. ~crossed => \A v \in r.todo : v[2] = r.id /\ (r.excl => v[1] \notin Risk)
    BY DEF EchoInv
  <2>5. r.at = "link" /\ UNCHANGED <<slot, tasks, excludes, crossed>>
    BY <1>7 DEF FirstLink
  <2>6. ~crossed => \A l \in links' : \/ l \in links
                                      \/ l[3] = r.id /\ (r.excl => l[1] \notin Risk)
    BY <2>1, <2>4, LinkedEnds
  <2>7. QED
    BY <2>2, <2>3, <2>4, <2>5, <2>6, EchoMoved
<1>8. CASE SpawnTask(r)
  <2> SUFFICES ASSUME ~crossed PROVE EchoInv'
    BY <1>8 DEF EchoInv, SpawnTask
  <2>1. PICK n \in Request : /\ reqs' = (reqs \ {r}) \cup {n} /\ n.at = "slot"
                             /\ n.todo = r.todo /\ n.id = r.id /\ n.excl = r.excl
    BY <1>1, <1>8, Moved DEF SpawnTask
  <2> DEFINE t == [id |-> r.id, excl |-> r.excl, todo |-> {}]
  <2>2. /\ tasks' = tasks \cup {t} /\ t.id = r.id /\ t.excl = r.excl /\ t.todo = {}
        /\ r.at = "link" /\ UNCHANGED <<slot, links, excludes, crossed>>
    BY <1>8 DEF SpawnTask
  <2> HIDE DEF t
  <2>3. reqs = {r} /\ reqs' = {n} /\ slot = 0 /\ (r.excl <=> r.id \in excludes)
    BY <2>1, <2>2 DEF EchoInv
  <2>4. tasks = {}
    BY <1>1, <2>2, <2>3 DEF EchoInv, Task
  <2>5. NoEchoOfRisk'
    BY <2>2 DEF EchoInv, NoEchoOfRisk
  <2>6. \A w \in n.todo : w[2] = n.id /\ (n.excl => w[1] \notin Risk)
    BY <2>1 DEF EchoInv
  <2>7. QED
    BY <2>1, <2>2, <2>3, <2>4, <2>5, <2>6 DEF EchoInv
<1>9. CASE StoreSession(r)
  <2> SUFFICES ASSUME ~crossed PROVE EchoInv'
    BY <1>9 DEF EchoInv, StoreSession
  <2>1. /\ r.at = "slot" /\ slot' = r.id /\ reqs' = {} /\ links' \subseteq links
        /\ UNCHANGED <<tasks, excludes, crossed>> /\ slot = 0 /\ reqs = {r}
    BY <1>9 DEF StoreSession, Served, Kill, Joining, EchoInv
  <2>2. \A t \in tasks : t.id = r.id
    BY <1>1, <2>1 DEF EchoInv, Task
  <2>3. NoEchoOfRisk'
    BY <2>1 DEF EchoInv, NoEchoOfRisk
  <2>4. QED
    BY <2>1, <2>2, <2>3 DEF EchoInv
<1>10. CASE ClientGone(r)
  BY <1>10, EchoServed DEF ClientGone
<1>11. QED
  BY <1>2, <1>3, <1>4, <1>5, <1>6, <1>7, <1>8, <1>9, <1>10 DEF Serves

\* A task that reads the graph, or links a stream.
LEMMA EchoReconciles ==
    ASSUME TypeOK, OwnersInv, EchoInv, NEW t \in tasks, Reconciles(t)
    PROVE  EchoInv'
<1> SUFFICES ASSUME ~crossed PROVE EchoInv'
  BY DEF EchoInv, Reconciles, TaskReads, TaskLinks
<1>1. t \in Task /\ t.id \in Ids /\ t.excl \in BOOLEAN /\ tasks \subseteq Task /\ mixes \subseteq Ids
      /\ UNCHANGED <<reqs, slot, excludes, crossed>>
  BY DEF TypeOK, Task, Reconciles, TaskReads, TaskLinks
<1>2. (t.excl <=> t.id \in excludes) /\ (\A w \in t.todo : w[2] = t.id /\ (t.excl => w[1] \notin Risk))
      /\ (t.id = slot \/ \E r \in reqs : r.at = "slot" /\ r.id = t.id)
  BY DEF EchoInv
<1>3. \A i \in mixes : i = t.id
  <2>1. CASE t.id = slot
    BY <1>1, <2>1 DEF EchoInv, OwnersInv, NoStrayLoopback
  <2>2. CASE \E r \in reqs : r.at = "slot" /\ r.id = t.id
    <3>1. slot = 0 /\ \A r \in reqs : r.id = t.id
      BY <2>2 DEF EchoInv
    <3>2. QED
      BY <1>1, <3>1 DEF OwnersInv, NoStrayLoopback
  <2>3. QED
    BY <1>2, <2>1, <2>2
<1>4. PICK n \in Task : /\ tasks' = (tasks \ {t}) \cup {n} /\ n.id = t.id /\ n.excl = t.excl
                        /\ \A w \in n.todo : w[2] = t.id /\ (t.excl => w[1] \notin Risk)
  <2>1. CASE TaskReads(t)
    <3>1. PICK i \in mixes \cap ready :
            tasks' = (tasks \ {t}) \cup {[t EXCEPT !.todo = Wanted(i, t.excl)]}
      BY <2>1 DEF TaskReads
    <3> DEFINE todo == Wanted(i, t.excl)
               n == [t EXCEPT !.todo = todo]
    <3>2. todo \in SUBSET (Apps \X Ids) /\ tasks' = (tasks \ {t}) \cup {n}
          /\ \A w \in todo : w[2] = i /\ (t.excl => w[1] \notin Risk)
      BY <1>1, <3>1, WantedType
    <3> HIDE DEF todo
    <3>3. n \in Task /\ n.id = t.id /\ n.excl = t.excl /\ n.todo = todo
      BY <1>1, <3>2 DEF Task
    <3> HIDE DEF n
    <3>4. QED
      BY <1>3, <3>2, <3>3
  <2>2. CASE TaskLinks(t)
    <3>1. PICK w \in t.todo : tasks' = (tasks \ {t}) \cup {[t EXCEPT !.todo = @ \ {w}]}
      BY <2>2 DEF TaskLinks
    <3> DEFINE n == [t EXCEPT !.todo = @ \ {w}]
    <3>2. n \in Task /\ n.id = t.id /\ n.excl = t.excl /\ n.todo \subseteq t.todo
      BY <1>1 DEF Task
    <3> HIDE DEF n
    <3>3. tasks' = (tasks \ {t}) \cup {n}
      BY <3>1 DEF n
    <3>4. QED
      BY <1>2, <3>2, <3>3
  <2>3. QED
    BY <2>1, <2>2 DEF Reconciles
<1>5. NoEchoOfRisk'
  <2>1. CASE TaskReads(t)
    BY <1>1, <2>1 DEF EchoInv, NoEchoOfRisk, TaskReads
  <2>2. CASE TaskLinks(t)
    <3>1. PICK w \in t.todo : Linked(w)
      BY <2>2 DEF TaskLinks
    <3>2. \A l \in links' : l \in links \/ (l[3] = t.id /\ (t.excl => l[1] \notin Risk))
      BY <1>2, <3>1, LinkedEnds
    <3>3. QED
      BY <1>1, <1>2, <3>2 DEF EchoInv, NoEchoOfRisk
  <2>3. QED
    BY <2>1, <2>2 DEF Reconciles
<1>6. QED
  BY <1>1, <1>2, <1>4, <1>5 DEF EchoInv

LEMMA EchoOthers ==
    ASSUME TypeOK, OwnersInv, EchoInv,
           \/ \E excl \in BOOLEAN : Arrives("prepare", excl)
           \/ Arrives("stop", FALSE)
           \/ \E i \in Ids : NodesAppear(i) \/ LoopbackDies(i)
           \/ \E a \in Apps : AppChanges(a)
           \/ BackendDies
    PROVE  EchoInv'
<1>1. ASSUME NEW kind \in {"prepare", "stop"}, NEW excl \in BOOLEAN, Arrives(kind, excl)
      PROVE  EchoInv'
  <2> SUFFICES ASSUME ~crossed, reqs = {} PROVE EchoInv'
    BY <1>1 DEF Arrives, EchoInv
  <2> DEFINE n == [id |-> count.requests + 1, kind |-> kind, excl |-> excl, at |-> "stop", todo |-> {}]
  <2>1. reqs' = {n} /\ n.at = "stop" /\ n.todo = {}
        /\ UNCHANGED <<slot, tasks, links, excludes>>
    BY <1>1 DEF Arrives
  <2> HIDE DEF n
  <2>2. NoEchoOfRisk'
    BY <2>1 DEF EchoInv, NoEchoOfRisk
  <2>3. \A t \in tasks : t.id = slot
    BY DEF EchoInv
  <2>4. QED
    BY <2>1, <2>2, <2>3 DEF EchoInv
<1>2. CASE \/ \E i \in Ids : NodesAppear(i) \/ LoopbackDies(i)
           \/ \E a \in Apps : AppChanges(a)
  <2>1. links' \subseteq links /\ UNCHANGED <<reqs, slot, tasks, excludes, crossed>>
    BY <1>2 DEF NodesAppear, LoopbackDies, AppChanges, Kill, Joining
  <2>2. QED
    BY <2>1 DEF EchoInv, NoEchoOfRisk
<1>3. CASE BackendDies
  <2>1. links' \subseteq links /\ reqs' = {} /\ tasks' = {} /\ UNCHANGED <<excludes, crossed>>
    BY <1>3 DEF BackendDies, Kill, Joining
  <2>2. QED
    BY <2>1 DEF EchoInv, NoEchoOfRisk
<1>4. QED
  BY <1>1, <1>2, <1>3

(* A share that excludes Risk does not send Risk's own audio back into the  *)
(* call, whichever task or request links streams at the time (is_risk_node, *)
(* reconcile_links and the lock of SESSION), and links join what exists.    *)
THEOREM CleanMix == Spec => []MixIsClean
<1>1. Init => EchoInv
  BY DEF Init, EchoInv, NoEchoOfRisk
<1>2. TypeOK /\ OwnersInv /\ EchoInv /\ [Next]_vars => EchoInv'
  <2> SUFFICES ASSUME TypeOK, OwnersInv, EchoInv, [Next]_vars PROVE EchoInv'
    OBVIOUS
  <2>1. CASE UNCHANGED vars
    BY <2>1 DEF vars, EchoInv, NoEchoOfRisk
  <2>2. CASE \E r \in reqs : Serves(r) \/ PrepareFails(r) \/ ClientGone(r)
    BY <2>2, EchoServes
  <2>3. CASE \E t \in tasks : Reconciles(t)
    BY <2>3, EchoReconciles
  <2>4. CASE Next /\ ~(\E t \in tasks : Reconciles(t))
               /\ ~(\E r \in reqs : Serves(r) \/ PrepareFails(r) \/ ClientGone(r))
    <3>1. \/ \E excl \in BOOLEAN : Arrives("prepare", excl)
          \/ Arrives("stop", FALSE)
          \/ \E i \in Ids : NodesAppear(i) \/ LoopbackDies(i)
          \/ \E a \in Apps : AppChanges(a)
          \/ BackendDies
      BY <2>4 DEF Next
    <3>2. QED
      BY <3>1, EchoOthers
  <2>5. QED
    BY <2>1, <2>2, <2>3, <2>4
<1>3. TypeOK /\ EchoInv => MixIsClean
  BY DEF EchoInv, NoEchoOfRisk, MixIsClean
<1>4. QED
  BY <1>1, <1>2, <1>3, OwnersInit, OwnersStep, PTL DEF Spec

---------------------------------------------------------------------------
(* Sets and numbers.                                                       *)

LEMMA Joined == \A S, T : IsFiniteSet(S) /\ IsFiniteSet(T) => IsFiniteSet(S \cup T)
BY FS_Union

LEMMA Single == \A x : IsFiniteSet({x})
BY FS_Singleton

LEMMA UpTo == \A n \in Nat : IsFiniteSet(1..n) /\ Cardinality(1..n) = n
<1> SUFFICES ASSUME NEW n \in Nat PROVE IsFiniteSet(1..n) /\ Cardinality(1..n) = n
  OBVIOUS
<1>1. 1 \in Int /\ n \in Int
  OBVIOUS
<1>2. IsFiniteSet(1..n) /\ Cardinality(1..n) = IF 1 > n THEN 0 ELSE n - 1 + 1
  BY <1>1, FS_Interval
<1>3. QED
  BY <1>2

\* A set of numbers has a least one.
LEMMA Least ==
    ASSUME NEW S \in SUBSET Nat, S # {}
    PROVE  \E x \in S : \A y \in S : x <= y
<1> DEFINE R == {ss \in Nat \X Nat : ss[1] < ss[2]}
<1>1. OpToRel(<, Nat) = R
  BY DEF OpToRel
<1>2. IsWellFoundedOn(R, Nat)
  BY <1>1, NatLessThanWellFounded
<1>3. PICK x \in S : \A y \in S : <<y, x>> \notin R
  BY <1>2, WFMin
<1>4. ASSUME NEW y \in S PROVE x <= y
  <2>1. x \in Nat /\ y \in Nat
    OBVIOUS
  <2>2. ~(y < x)
    BY <1>3, <2>1
  <2> QED
    BY <2>1, <2>2
<1> QED
  BY <1>4

LEMMA PairCardinality == \A S : Pair!Cardinality(S) = Cardinality(S)
BY DEF Pair!Cardinality, Cardinality

---------------------------------------------------------------------------
(* Mesh: what holds of both ends in every reachable state.                 *)

(* A connection's fields.                                                  *)
Connection ==
    [canNegotiate : BOOLEAN, making : BOOLEAN, needN : BOOLEAN, needI : BOOLEAN, wantN : BOOLEAN, wantI : BOOLEAN,
     signaling : {"stable", "local", "remote"}, stage : {"idle", "remote", "answer"}, accepting : Pair!Descriptions,
     behind : BOOLEAN, current : Pair!Descriptions, ice : Nat, connection : {"new", "connected", "down"}, up : BOOLEAN,
     channel : BOOLEAN, restart : BOOLEAN, attached : BOOLEAN, media : BOOLEAN, offered : BOOLEAN, sending : BOOLEAN,
     receiving : BOOLEAN, needed : {"no", "queued", "fired"}]

(* Every variable has its type, and each peer at most one entry.           *)
PairShape ==
    /\ entry \in [{1, 2} -> SUBSET Connection]
    /\ \A p \in {1, 2} : entry[p] = {} \/ \E e \in Connection : entry[p] = {e}
    /\ has \in [{1, 2} -> BOOLEAN] /\ authorized \in [{1, 2} -> BOOLEAN] /\ banned \in [{1, 2} -> BOOLEAN]
    /\ timer \in [{1, 2} -> BOOLEAN] /\ recovering \in [{1, 2} -> BOOLEAN] /\ attempts \in [{1, 2} -> 0..2]
    /\ stream \in [{1, 2} -> {"none", "pending", "active", "muted"}]
    /\ net \in [{1, 2} -> Seq(Pair!Descriptions)] /\ dead \in Nat /\ faults \in 0..MaxFaults

(* What a peer's end keeps true: media only over a connection that came up, *)
(* which a connection that is or was connected did, and a repair for a      *)
(* broken one.                                                              *)
SoundEnd(p) ==
    /\ authorized[p] => \E e \in entry[p] : e.up
    /\ stream[p] = "active" => authorized[p]
    /\ \A e \in entry[p] : /\ e.attached => authorized[p] /\ has[p]
                           /\ e.connection # "new" => e.up
                           /\ p = 1 /\ e.connection = "down" => timer[1] \/ recovering[1]

PairInv == PairShape /\ \A p \in {1, 2} : SoundEnd(p)

\* What a negotiation leaves alone: whether the connection came up, is connected and sends the track.
Same(e, f) == f.attached = e.attached /\ f.connection = e.connection /\ f.up = e.up

LEMMA Negotiates ==
    ASSUME NEW e \in Connection
    PROVE  LET f == Pair!NegotiateIfNeeded(e) IN f \in Connection /\ Same(e, f)
<1> DEFINE g == [e EXCEPT !.making = TRUE, !.wantN = e.needN, !.wantI = e.needI, !.needN = FALSE, !.needI = FALSE]
<1>1. g \in Connection /\ Same(e, g)
  BY DEF Connection, Same
<1>2. Pair!NegotiateIfNeeded(e) \in {e, g}
  BY DEF Pair!NegotiateIfNeeded
<1> HIDE DEF g
<1>3. QED
  BY <1>1, <1>2 DEF Same

LEMMA Checks ==
    ASSUME NEW e \in Connection
    PROVE  /\ Pair!Checked(e) \in Connection /\ Same(e, Pair!Checked(e))
           /\ Pair!Noticed(e) \in Connection /\ Same(e, Pair!Noticed(e))
           /\ Pair!Stabilized(e) \in Connection /\ Same(e, Pair!Stabilized(e))
<1>1. ASSUME NEW g \in Connection PROVE Pair!Checked(g) \in Connection /\ Same(g, Pair!Checked(g))
  BY DEF Pair!Checked, Connection, Same
<1>2. Pair!Noticed(e) \in Connection /\ Same(e, Pair!Noticed(e))
  <2>1. Pair!Noticed(e) \in {e, Pair!Checked(e)}
    BY DEF Pair!Noticed
  <2>2. QED
    BY <1>1, <2>1 DEF Same
<1>3. Pair!Stabilized(e) \in Connection /\ Same(e, Pair!Stabilized(e))
  <2> DEFINE g == [e EXCEPT !.signaling = "stable", !.needed = "no"]
  <2>1. g \in Connection /\ Same(e, g)
    BY DEF Connection, Same
  <2>2. Pair!Stabilized(e) = Pair!Checked(g)
    BY DEF Pair!Stabilized
  <2> HIDE DEF g
  <2>3. QED
    BY <1>1, <2>1, <2>2 DEF Same
<1>4. QED
  BY <1>1, <1>2, <1>3

LEMMA Attaches ==
    ASSUME NEW e \in Connection, NEW b \in BOOLEAN
    PROVE  LET f == Pair!Attach(e, b)
           IN f \in Connection /\ f.attached = b /\ f.connection = e.connection /\ f.up = e.up
<1> DEFINE g == [e EXCEPT !.attached = b, !.media = @ \/ b]
<1>1. g \in Connection /\ g.attached = b /\ g.connection = e.connection /\ g.up = e.up
  BY DEF Connection
<1>2. Pair!Attach(e, b) = Pair!Noticed(g)
  BY DEF Pair!Attach
<1> HIDE DEF g
<1>3. QED
  BY <1>1, <1>2, Checks DEF Same

LEMMA FreshEntry == Pair!NewEntry \in Connection /\ Pair!NewEntry.up = FALSE /\ Pair!NewEntry.connection = "new"
                    /\ Pair!NewEntry.attached = FALSE
BY DEF Pair!NewEntry, Connection, Pair!NoDescription, Pair!Descriptions

\* A new connection sends the track only to a peer that is authorized, and has not come up.
LEMMA Creates ==
    ASSUME PairShape, NEW p \in {1, 2}, NEW auth \in BOOLEAN
    PROVE  LET e == Pair!CreatePeer(p, auth)
           IN e \in Connection /\ e.connection = "new" /\ ~e.up /\ (e.attached => has[p] /\ auth)
<1>1. has[p] \in BOOLEAN
  BY DEF PairShape
<1>2. CASE has[p] /\ auth
  BY <1>2, FreshEntry, Attaches DEF Pair!CreatePeer
<1>3. CASE ~(has[p] /\ auth)
  BY <1>3, FreshEntry DEF Pair!CreatePeer
<1>4. QED
  BY <1>1, <1>2, <1>3

LEMMA Restarts ==
    ASSUME NEW e \in Connection
    PROVE  /\ Pair!RestartIce(e) \in Connection /\ Same(e, Pair!RestartIce(e))
           /\ Pair!Initiate(e) \in Connection /\ Same(e, Pair!Initiate(e))
<1> DEFINE r == [e EXCEPT !.needI = TRUE, !.restart = TRUE]
           i == [e EXCEPT !.canNegotiate = TRUE, !.channel = TRUE, !.needN = TRUE]
<1>1. r \in Connection /\ Same(e, r) /\ i \in Connection /\ Same(e, i)
  BY DEF Connection, Same
<1>2. Pair!RestartIce(e) = Pair!NegotiateIfNeeded(Pair!Noticed(r)) /\ Pair!Initiate(e) = Pair!NegotiateIfNeeded(Pair!Noticed(i))
  BY DEF Pair!RestartIce, Pair!Initiate
<1> HIDE DEF r, i
<1>3. QED
  BY <1>1, <1>2, Checks, Negotiates DEF Same

LEMMA Replaces ==
    ASSUME PairShape, NEW p \in {1, 2}
    PROVE  LET e == Pair!Replacement(p, FALSE) IN e \in Connection /\ e.connection = "new" /\ ~e.up /\ ~e.attached
<1> DEFINE c == Pair!CreatePeer(p, FALSE)
           e == [c EXCEPT !.canNegotiate = TRUE, !.channel = TRUE]
<1>1. c \in Connection /\ c.connection = "new" /\ ~c.up /\ ~c.attached
  BY Creates
<1>2. e \in Connection /\ e.connection = "new" /\ ~e.up /\ ~e.attached
  BY <1>1 DEF Connection
<1>3. Pair!Replacement(p, FALSE) = Pair!RestartIce(e)
  BY DEF Pair!Replacement
<1> HIDE DEF e
<1>4. QED
  BY <1>2, <1>3, Restarts DEF Same

\* The entry of a peer that has one.
LEMMA Entry ==
    ASSUME PairShape, NEW p \in {1, 2}, Pair!Up(p)
    PROVE  Pair!E(p) \in Connection /\ entry[p] = {Pair!E(p)}
<1>1. PICK e \in Connection : entry[p] = {e}
  BY DEF PairShape, Pair!Up
<1>2. QED
  BY <1>1 DEF Pair!E

\* Applying an offer touches neither what came up, nor what is connected, nor what is sent.
LEMMA Applies ==
    ASSUME NEW e \in Connection, NEW d \in Pair!Descriptions
    PROVE  LET f == Pair!Applied(e, d) IN f \in Connection /\ Same(e, f)
<1> DEFINE g == [e EXCEPT !.signaling = "remote", !.current = d, !.receiving = d.track]
           m == g.media \/ d.media
           h == [g EXCEPT !.media = m]
           i == [h EXCEPT !.stage = "answer", !.behind = FALSE]
           j == [i EXCEPT !.canNegotiate = TRUE, !.needN = FALSE, !.offered = FALSE]
<1>1. d.track \in BOOLEAN /\ d.media \in BOOLEAN
  BY DEF Pair!Descriptions
<1>2. Pair!Applied(e, d) = j
  BY DEF Pair!Applied
<1>3. g \in Connection /\ Same(e, g)
  BY <1>1 DEF Connection, Same
<1> HIDE DEF g
<1>4. m \in BOOLEAN
  BY <1>1, <1>3 DEF Connection
<1> HIDE DEF m
<1>5. h \in Connection /\ Same(g, h)
  BY <1>3, <1>4 DEF Connection, Same
<1> HIDE DEF h
<1>6. i \in Connection /\ Same(h, i)
  BY <1>5 DEF Connection, Same
<1> HIDE DEF i
<1>7. j \in Connection /\ Same(i, j)
  BY <1>6 DEF Connection, Same
<1> HIDE DEF j
<1>8. QED
  BY <1>2, <1>3, <1>5, <1>6, <1>7 DEF Same

\* So does agreeing on an ICE session.
LEMMA Agrees ==
    ASSUME NEW e \in Connection, NEW ice \in Nat, NEW sending \in BOOLEAN, NEW restart \in BOOLEAN
    PROVE  LET f == [e EXCEPT !.ice = ice, !.sending = sending, !.current = Pair!NoDescription, !.restart = restart]
           IN f \in Connection /\ Same(e, f)
<1> DEFINE g == [e EXCEPT !.ice = ice, !.sending = sending]
           f == [g EXCEPT !.current = Pair!NoDescription, !.restart = restart]
<1>1. Pair!NoDescription \in Pair!Descriptions
  BY DEF Pair!NoDescription, Pair!Descriptions
<1>2. g \in Connection /\ Same(e, g)
  BY DEF Connection, Same
<1> HIDE DEF g
<1>3. f \in Connection /\ Same(g, f)
  BY <1>1, <1>2 DEF Connection, Same
<1>4. f = [e EXCEPT !.ice = ice, !.sending = sending, !.current = Pair!NoDescription, !.restart = restart]
  BY DEF g
<1> HIDE DEF f
<1>5. QED
  BY <1>2, <1>3, <1>4 DEF Same

\* There is an unused session: of one more number than there are used ones, one is unused, and there is a least one.
LEMMA FiniteUse ==
    ASSUME PairShape
    PROVE  IsFiniteSet(Pair!InUse) /\ Pair!InUse \subseteq Nat
<1> DEFINE ends == {{e.ice, e.current.ice, e.accepting.ice} : e \in entry[1] \cup entry[2]}
           sent(p) == {net[p][i].ice : i \in DOMAIN net[p]}
           nets == {sent(p) : p \in {1, 2}}
<1>1. Pair!InUse = (UNION ends) \cup (UNION nets) \cup {0, dead}
  BY DEF Pair!InUse, Pair!Peers
<1>2. \A e \in entry[1] \cup entry[2] : e \in Connection
  BY DEF PairShape
<1>3. IsFiniteSet(UNION ends) /\ UNION ends \subseteq Nat
  <2>1. \A t \in ends : IsFiniteSet(t) /\ t \subseteq Nat
    <3>1. SUFFICES ASSUME NEW e \in entry[1] \cup entry[2]
                   PROVE  LET t == {e.ice, e.current.ice, e.accepting.ice} IN IsFiniteSet(t) /\ t \subseteq Nat
      OBVIOUS
    <3>2. e.ice \in Nat /\ e.current.ice \in Nat /\ e.accepting.ice \in Nat
      BY <1>2 DEF Connection, Pair!Descriptions
    <3>3. IsFiniteSet({e.ice} \cup {e.current.ice} \cup {e.accepting.ice})
      BY Single, Joined
    <3>4. {e.ice} \cup {e.current.ice} \cup {e.accepting.ice} = {e.ice, e.current.ice, e.accepting.ice}
      OBVIOUS
    <3>5. QED
      BY <3>2, <3>3, <3>4
  <2>2. IsFiniteSet(ends)
    <3> DEFINE of(p) == {{e.ice, e.current.ice, e.accepting.ice} : e \in entry[p]}
    <3>1. ASSUME NEW p \in {1, 2} PROVE IsFiniteSet(of(p))
      <4>1. CASE entry[p] = {}
        BY <4>1, FS_EmptySet
      <4>2. CASE \E e \in Connection : entry[p] = {e}
        <5>1. PICK e \in Connection : entry[p] = {e}
          BY <4>2
        <5>2. of(p) = {{e.ice, e.current.ice, e.accepting.ice}}
          BY <5>1
        <5>3. QED
          BY <5>2, Single
      <4>3. QED
        BY <4>1, <4>2 DEF PairShape
    <3>2. ends = of(1) \cup of(2)
      OBVIOUS
    <3> HIDE DEF of, ends
    <3>3. QED
      BY <3>1, <3>2, Joined
  <2>3. QED
    BY <2>1, <2>2, FS_UNION
<1>4. IsFiniteSet(UNION nets) /\ UNION nets \subseteq Nat
  <2>1. ASSUME NEW p \in {1, 2} PROVE IsFiniteSet(sent(p)) /\ sent(p) \subseteq Nat
    <3>1. net[p] \in Seq(Pair!Descriptions)
      BY DEF PairShape
    <3>2. Len(net[p]) \in Nat /\ DOMAIN net[p] = 1..Len(net[p])
      BY <3>1
    <3>3. ASSUME NEW i \in 1..Len(net[p]) PROVE net[p][i].ice \in Nat
      <4>1. net[p][i] \in Pair!Descriptions
        BY <3>1, <3>3
      <4>2. QED
        BY <4>1 DEF Pair!Descriptions
    <3> DEFINE f == [i \in 1..Len(net[p]) |-> net[p][i].ice]
    <3>4. f \in Surjection(1..Len(net[p]), sent(p))
      BY <3>2 DEF Surjection
    <3>5. IsFiniteSet(1..Len(net[p]))
      BY <3>2, UpTo
    <3> HIDE DEF f
    <3>6. IsFiniteSet(sent(p))
      BY <3>4, <3>5, FS_Surjection
    <3>7. QED
      BY <3>2, <3>3, <3>6
  <2>2. nets = {sent(1)} \cup {sent(2)}
    OBVIOUS
  <2>3. IsFiniteSet({sent(1)} \cup {sent(2)})
    <3> HIDE DEF sent
    <3>1. IsFiniteSet({sent(1)}) /\ IsFiniteSet({sent(2)})
      BY Single
    <3>2. QED
      BY <3>1, Joined
  <2>4. \A t \in nets : IsFiniteSet(t) /\ t \subseteq Nat
    BY <2>1
  <2> HIDE DEF nets
  <2>5. QED
    BY <2>2, <2>3, <2>4, FS_UNION
<1>5. IsFiniteSet({0, dead}) /\ {0, dead} \subseteq Nat
  <2>1. dead \in Nat
    BY DEF PairShape
  <2>2. IsFiniteSet({0} \cup {dead})
    BY Single, Joined
  <2>3. {0} \cup {dead} = {0, dead}
    OBVIOUS
  <2>4. QED
    BY <2>1, <2>2, <2>3
<1> DEFINE U == UNION ends
           V == UNION nets
           W == {0, dead}
<1>6. U = UNION ends /\ V = UNION nets /\ W = {0, dead}
  OBVIOUS
<1>7. IsFiniteSet(U) /\ IsFiniteSet(V) /\ IsFiniteSet(W) /\ U \subseteq Nat /\ V \subseteq Nat /\ W \subseteq Nat
  BY <1>3, <1>4, <1>5
<1> HIDE DEF ends, nets, U, V, W
<1>8. Pair!InUse = U \cup V \cup W
  BY <1>1, <1>6
<1>9. IsFiniteSet(U \cup V)
  BY <1>7, Joined
<1>10. QED
  BY <1>7, <1>8, <1>9, Joined

LEMMA FreshSession ==
    ASSUME PairShape
    PROVE  Pair!FreshIce \in Nat
<1> DEFINE last == Cardinality(Pair!InUse) + 1
           free == {n \in 1..last : n \notin Pair!InUse}
<1>1. IsFiniteSet(Pair!InUse)
  BY FiniteUse
<1>2. last \in Nat
  BY <1>1, FS_CardinalityType
<1>3. free # {}
  <2>1. SUFFICES ASSUME 1..last \subseteq Pair!InUse PROVE FALSE
    OBVIOUS
  <2>2. Cardinality(1..last) <= Cardinality(Pair!InUse)
    BY <1>1, <2>1, FS_Subset
  <2>3. Cardinality(1..last) = last
    BY <1>2, UpTo
  <2>4. Cardinality(Pair!InUse) \in Nat
    BY <1>1, FS_CardinalityType
  <2>5. QED
    BY <2>2, <2>3, <2>4
<1>4. free \in SUBSET Nat
  BY <1>2
<1>5. \E n \in free : \A k \in free : n <= k
  <2> HIDE DEF free
  <2>1. QED
    BY <1>3, <1>4, Least
<1>6. \E n \in 1..last : n \notin Pair!InUse /\ \A k \in 1..(n - 1) : k \in Pair!InUse
  BY <1>2, <1>5
<1>7. Pair!FreshIce \in 1..last
  BY <1>6, PairCardinality DEF Pair!FreshIce
<1>8. QED
  BY <1>2, <1>7

---------------------------------------------------------------------------
\* Only the end of p changed.
Elsewhere(p) ==
    \A q \in {1, 2} \ {p} :
        /\ entry'[q] = entry[q] /\ has'[q] = has[q] /\ authorized'[q] = authorized[q] /\ stream'[q] = stream[q]
        /\ timer'[q] = timer[q] /\ recovering'[q] = recovering[q]

LEMMA AtOneEnd ==
    ASSUME PairInv, NEW p \in {1, 2}, Elsewhere(p), PairShape', SoundEnd(p)'
    PROVE  PairInv'
<1>1. ASSUME NEW q \in {1, 2}, q # p PROVE SoundEnd(q)'
  <2>1. SoundEnd(q) /\ q \in {1, 2} \ {p}
    BY <1>1 DEF PairInv
  <2>2. q = 1 => timer'[1] = timer[1] /\ recovering'[1] = recovering[1]
    BY <2>1 DEF Elsewhere
  <2>3. QED
    BY <2>1, <2>2 DEF Elsewhere, SoundEnd
<1>2. QED
  BY <1>1 DEF PairInv

\* An entry that replaces or changes the one of p.
LEMMA SetsEntry ==
    ASSUME PairShape, NEW p \in {1, 2}, NEW e \in Connection, Pair!Set(p, e)
    PROVE  /\ entry' \in [{1, 2} -> SUBSET Connection] /\ entry'[p] = {e}
           /\ \A q \in {1, 2} : entry'[q] = {} \/ \E f \in Connection : entry'[q] = {f}
           /\ \A q \in {1, 2} \ {p} : entry'[q] = entry[q]
BY DEF PairShape, Pair!Set

\* A description is delivered, lost or repeated; the ends are left alone.
LEMMA Delivers ==
    ASSUME PairShape, NEW p \in {1, 2}, NEW d \in Pair!Descriptions, Pair!Deliver(p, d)
    PROVE  net' \in [{1, 2} -> Seq(Pair!Descriptions)] /\ faults' \in 0..MaxFaults
<1> DEFINE s == net[3 - p]
<1>1. 3 - p \in {1, 2} /\ Pair!Other(p) = 3 - p
  BY DEF Pair!Other
<1>2. s \in Seq(Pair!Descriptions) /\ Append(s, d) \in Seq(Pair!Descriptions) /\ s \o <<d, d>> \in Seq(Pair!Descriptions)
  BY <1>1 DEF PairShape
<1>3. faults' \in 0..MaxFaults
  BY ScreenAudioAssumption DEF Pair!Deliver, Pair!Fault, PairShape
<1>4. net' \in {net, [net EXCEPT ![3 - p] = Append(s, d)], [net EXCEPT ![3 - p] = s \o <<d, d>>]}
  BY <1>1 DEF Pair!Deliver
<1> HIDE DEF s
<1>5. net \in [{1, 2} -> Seq(Pair!Descriptions)]
  BY DEF PairShape
<1>6. net' \in [{1, 2} -> Seq(Pair!Descriptions)]
  BY <1>1, <1>2, <1>4, <1>5
<1>7. QED
  BY <1>3, <1>6

\* What is forgotten with a connection.
LEMMA Disposes ==
    ASSUME PairShape, NEW p \in {1, 2}, Pair!Dispose(p)
    PROVE  /\ authorized' \in [{1, 2} -> BOOLEAN] /\ authorized'[p] = FALSE
           /\ stream' \in [{1, 2} -> {"none", "pending", "active", "muted"}] /\ stream'[p] = "none"
           /\ net' \in [{1, 2} -> Seq(Pair!Descriptions)]
           /\ \A q \in {1, 2} \ {p} : authorized'[q] = authorized[q] /\ stream'[q] = stream[q]
<1>1. PICK k \in 0..Len(net[p]) : net' = [net EXCEPT ![p] = SubSeq(@, k + 1, Len(@))]
  BY DEF Pair!Dispose
<1>2. net[p] \in Seq(Pair!Descriptions)
  BY DEF PairShape
<1>3. SubSeq(net[p], k + 1, Len(net[p])) \in Seq(Pair!Descriptions)
  BY <1>1, <1>2
<1>4. net' \in [{1, 2} -> Seq(Pair!Descriptions)]
  BY <1>1, <1>3 DEF PairShape
<1>5. QED
  BY <1>4 DEF Pair!Dispose, PairShape

---------------------------------------------------------------------------
\* One lemma for each action.
LEMMA Connects ==
    ASSUME PairInv, NEW p \in {1, 2}, Pair!Connect(p)
    PROVE  PairInv'
<1> DEFINE c == Pair!CreatePeer(p, authorized[p])
           e == IF p < Pair!Other(p) THEN Pair!Initiate(c) ELSE c
<1>1. PairShape /\ SoundEnd(p) /\ entry[p] = {} /\ authorized[p] \in BOOLEAN
  BY DEF PairInv, PairShape, Pair!Connect, Pair!Up
<1>2. ~authorized[p] /\ stream[p] # "active"
  BY <1>1 DEF SoundEnd
<1>3. c \in Connection /\ c.connection = "new" /\ ~c.up /\ ~c.attached
  BY <1>1, <1>2, Creates
<1>4. e \in Connection /\ e.connection = "new" /\ ~e.up /\ ~e.attached
  <2> HIDE DEF c
  <2>1. QED
    BY <1>3, Restarts DEF Same
<1>5. Pair!Set(p, e) /\ UNCHANGED <<has, authorized, banned, stream, timer, attempts, recovering, net, dead, faults, lost>>
  BY DEF Pair!Connect
<1> HIDE DEF e
<1>6. PairShape' /\ Elsewhere(p) /\ entry'[p] = {e}
  BY <1>1, <1>4, <1>5, SetsEntry DEF PairShape, Elsewhere
<1>7. SoundEnd(p)'
  BY <1>1, <1>2, <1>4, <1>5, <1>6 DEF SoundEnd
<1>8. QED
  BY <1>6, <1>7, AtOneEnd

LEMMA Disconnects ==
    ASSUME PairInv, NEW p \in {1, 2}, Pair!Disconnect(p)
    PROVE  PairInv'
<1>1. PairShape /\ Pair!Dispose(p) /\ entry' = [entry EXCEPT ![p] = {}]
  BY DEF PairInv, Pair!Disconnect
<1>2. PairShape' /\ Elsewhere(p) /\ entry'[p] = {} /\ ~authorized'[p] /\ stream'[p] = "none"
  <2>1. faults' \in 0..MaxFaults
    BY <1>1, ScreenAudioAssumption DEF Pair!Disconnect, Pair!Fault, PairShape
  <2>2. /\ entry' \in [{1, 2} -> SUBSET Connection] /\ entry'[p] = {}
        /\ \A q \in {1, 2} : entry'[q] = {} \/ \E f \in Connection : entry'[q] = {f}
        /\ \A q \in {1, 2} \ {p} : entry'[q] = entry[q]
    BY <1>1 DEF PairShape
  <2>3. /\ timer' = [timer EXCEPT ![p] = FALSE] /\ attempts' = [attempts EXCEPT ![p] = 0]
        /\ recovering' = [recovering EXCEPT ![p] = FALSE] /\ UNCHANGED <<has, banned, dead>>
    BY DEF Pair!Disconnect
  <2>4. /\ authorized' \in [{1, 2} -> BOOLEAN] /\ authorized'[p] = FALSE
        /\ stream' \in [{1, 2} -> {"none", "pending", "active", "muted"}] /\ stream'[p] = "none"
        /\ net' \in [{1, 2} -> Seq(Pair!Descriptions)]
        /\ \A q \in {1, 2} \ {p} : authorized'[q] = authorized[q] /\ stream'[q] = stream[q]
    BY <1>1, Disposes
  <2>5. PairShape'
    BY <1>1, <2>1, <2>2, <2>3, <2>4 DEF PairShape
  <2>6. Elsewhere(p)
    BY <1>1, <2>2, <2>3, <2>4 DEF Elsewhere, PairShape
  <2>7. QED
    BY <2>2, <2>4, <2>5, <2>6
<1>3. SoundEnd(p)'
  BY <1>2 DEF SoundEnd
<1>4. QED
  BY <1>2, <1>3, AtOneEnd

\* The entry of p changes, with nothing of p that SoundEnd is about.
LEMMA Goes ==
    ASSUME PairInv, NEW p \in {1, 2}, Pair!Up(p), NEW e \in Connection, Same(Pair!E(p), e), Pair!Set(p, e),
           UNCHANGED <<has, authorized, banned, timer, attempts, recovering, dead>>,
           stream' \in [{1, 2} -> {"none", "pending", "active", "muted"}],
           \A q \in {1, 2} \ {p} : stream'[q] = stream[q],
           stream'[p] = "active" => authorized[p],
           net' \in [{1, 2} -> Seq(Pair!Descriptions)], faults' \in 0..MaxFaults
    PROVE  PairInv'
<1>1. PairShape /\ SoundEnd(p) /\ entry[p] = {Pair!E(p)} /\ Pair!E(p) \in Connection
  BY Entry DEF PairInv
<1> HIDE DEF Same
<1>a. /\ entry' \in [{1, 2} -> SUBSET Connection] /\ entry'[p] = {e}
      /\ \A q \in {1, 2} : entry'[q] = {} \/ \E f \in Connection : entry'[q] = {f}
      /\ \A q \in {1, 2} \ {p} : entry'[q] = entry[q]
  BY <1>1, SetsEntry
<1>b. PairShape'
  BY <1>1, <1>a DEF PairShape
<1>c. Elsewhere(p)
  BY <1>a DEF Elsewhere
<1>2. PairShape' /\ Elsewhere(p) /\ entry'[p] = {e}
  BY <1>a, <1>b, <1>c
<1>3. SoundEnd(p)'
  BY <1>1, <1>2 DEF SoundEnd, Same
<1>4. QED
  BY <1>2, <1>3, AtOneEnd

LEMMA Authorizes ==
    ASSUME PairInv, NEW p \in {1, 2}, Pair!Authorize(p)
    PROVE  PairInv'
<1> DEFINE o == Pair!E(p)
           f == Pair!SendTracks(p, o)
           g == [f EXCEPT !.needN = TRUE]
           e == Pair!NegotiateIfNeeded(g)
<1>1. PairShape /\ SoundEnd(p) /\ entry[p] = {o} /\ o \in Connection /\ o.connection = "connected" /\ has[p] \in BOOLEAN
  BY Entry DEF PairInv, Pair!Authorize, PairShape
<1>2. o.up /\ (o.attached => has[p])
  BY <1>1 DEF SoundEnd
<1>3. f \in Connection /\ f.up /\ f.connection = "connected" /\ (f.attached => has[p])
  <2> HIDE DEF o
  <2>1. CASE has[p]
    BY <1>1, <1>2, <2>1, Attaches DEF Pair!SendTracks
  <2>2. CASE ~has[p]
    BY <1>1, <1>2, <2>2 DEF Pair!SendTracks
  <2>3. QED
    BY <2>1, <2>2
<1> HIDE DEF f
<1>4. g \in Connection /\ g.up /\ g.connection = "connected" /\ (g.attached => has[p])
  BY <1>3 DEF Connection
<1> HIDE DEF g
<1>5. e \in Connection /\ e.up /\ e.connection = "connected" /\ (e.attached => has[p])
  BY <1>4, Negotiates DEF Same
<1>6. Pair!Set(p, e)
  BY DEF Pair!Authorize, f, g
<1> HIDE DEF e, o
<1>7. /\ authorized' = [authorized EXCEPT ![p] = TRUE]
      /\ stream' = [stream EXCEPT ![p] = IF @ = "pending" THEN "active" ELSE @]
      /\ UNCHANGED <<has, banned, timer, attempts, recovering, net, dead, faults, lost>>
  BY DEF Pair!Authorize
<1>8. PairShape' /\ Elsewhere(p) /\ entry'[p] = {e} /\ authorized'[p]
  <2>1. /\ entry' \in [{1, 2} -> SUBSET Connection] /\ entry'[p] = {e}
        /\ \A q \in {1, 2} : entry'[q] = {} \/ \E h \in Connection : entry'[q] = {h}
        /\ \A q \in {1, 2} \ {p} : entry'[q] = entry[q]
    BY <1>1, <1>5, <1>6, SetsEntry
  <2>2. PairShape'
    BY <1>1, <1>7, <2>1 DEF PairShape
  <2>3. Elsewhere(p) /\ authorized'[p]
    BY <1>1, <1>7, <2>1 DEF Elsewhere, PairShape
  <2>4. QED
    BY <2>1, <2>2, <2>3
<1>9. SoundEnd(p)'
  BY <1>5, <1>7, <1>8 DEF SoundEnd
<1>10. QED
  BY <1>8, <1>9, AtOneEnd

LEMMA Revokes ==
    ASSUME PairInv, NEW p \in {1, 2}, Pair!Revoke(p)
    PROVE  PairInv'
<1>1. PairShape /\ SoundEnd(p)
  BY DEF PairInv
<1>2. /\ banned' = [banned EXCEPT ![p] = TRUE] /\ authorized' = [authorized EXCEPT ![p] = FALSE]
      /\ stream' = [stream EXCEPT ![p] = IF @ = "active" THEN "muted" ELSE IF @ = "pending" THEN "none" ELSE @]
      /\ entry' = [entry EXCEPT ![p] = {Pair!Attach(e, FALSE) : e \in @}]
      /\ UNCHANGED <<has, timer, attempts, recovering, net, dead>>
  BY DEF Pair!Revoke
<1>3. faults' \in 0..MaxFaults
  BY <1>1, ScreenAudioAssumption DEF Pair!Revoke, Pair!Fault, PairShape
<1>4. ASSUME NEW f \in entry'[p]
      PROVE  /\ f \in Connection /\ ~f.attached /\ entry'[p] = {f}
             /\ \E e \in entry[p] : f.connection = e.connection /\ f.up = e.up
  <2>1. entry'[p] = {Pair!Attach(e, FALSE) : e \in entry[p]}
    BY <1>1, <1>2 DEF PairShape
  <2>2. PICK e \in Connection : entry[p] = {e}
    BY <1>1, <1>4, <2>1 DEF PairShape
  <2>3. f = Pair!Attach(e, FALSE) /\ entry'[p] = {f}
    BY <1>4, <2>1, <2>2
  <2>4. QED
    BY <2>2, <2>3, Attaches
<1>5. /\ entry' \in [{1, 2} -> SUBSET Connection]
      /\ \A q \in {1, 2} : entry'[q] = {} \/ \E f \in Connection : entry'[q] = {f}
      /\ \A q \in {1, 2} \ {p} : entry'[q] = entry[q]
  BY <1>1, <1>2, <1>4 DEF PairShape
<1>6. PairShape'
  BY <1>1, <1>2, <1>3, <1>5 DEF PairShape
<1>7. Elsewhere(p)
  BY <1>1, <1>2, <1>5 DEF Elsewhere, PairShape
<1>8. ~authorized'[p] /\ stream'[p] # "active"
  BY <1>1, <1>2 DEF PairShape
<1>9. SoundEnd(p)'
  <2>1. ASSUME NEW f \in entry'[p]
        PROVE  /\ ~f.attached /\ f.connection # "new" => f.up
               /\ p = 1 /\ f.connection = "down" => timer'[1] \/ recovering'[1]
    <3>1. PICK e \in entry[p] : f.connection = e.connection /\ f.up = e.up
      BY <1>4
    <3>2. e.connection # "new" => e.up
      BY <1>1, <3>1 DEF SoundEnd
    <3>3. p = 1 /\ e.connection = "down" => timer[1] \/ recovering[1]
      BY <1>1, <3>1 DEF SoundEnd
    <3>4. QED
      BY <1>2, <1>4, <3>1, <3>2, <3>3
  <2>2. \A f \in entry'[p] : ~f.attached
    BY <1>4
  <2>3. QED
    BY <1>8, <2>1, <2>2 DEF SoundEnd
<1>10. QED
  BY <1>6, <1>7, <1>9, AtOneEnd

LEMMA Toggles ==
    ASSUME PairInv, NEW p \in {1, 2}, Pair!Toggle(p)
    PROVE  PairInv'
<1> DEFINE F(e) == IF has'[p] = e.attached \/ (has'[p] /\ ~authorized[p]) THEN e
                   ELSE Pair!NegotiateIfNeeded([Pair!Attach(e, has'[p]) EXCEPT !.needN = TRUE])
<1>1. PairShape /\ SoundEnd(p) /\ authorized[p] \in BOOLEAN
  BY DEF PairInv, PairShape
<1>2. /\ has' = [has EXCEPT ![p] = ~@] /\ entry' = [entry EXCEPT ![p] = {F(e) : e \in @}]
      /\ UNCHANGED <<authorized, banned, stream, timer, attempts, recovering, net, dead>>
  BY DEF Pair!Toggle
<1>3. faults' \in 0..MaxFaults
  BY <1>1, ScreenAudioAssumption DEF Pair!Toggle, Pair!Fault, PairShape
<1>4. has' \in [{1, 2} -> BOOLEAN] /\ \A q \in {1, 2} \ {p} : has'[q] = has[q]
  BY <1>1, <1>2 DEF PairShape
<1>5. ASSUME NEW e \in Connection, e.attached => authorized[p]
      PROVE  /\ F(e) \in Connection /\ (F(e).attached => authorized[p] /\ has'[p])
             /\ F(e).connection = e.connection /\ F(e).up = e.up
  <2> DEFINE b == Pair!Attach(e, has'[p])
             g == [b EXCEPT !.needN = TRUE]
  <2>1. has'[p] \in BOOLEAN /\ e.attached \in BOOLEAN
    BY <1>4 DEF Connection
  <2>2. b \in Connection /\ b.attached = has'[p] /\ b.connection = e.connection /\ b.up = e.up
    BY <2>1, Attaches
  <2> HIDE DEF b
  <2>3. g \in Connection /\ g.attached = has'[p] /\ g.connection = e.connection /\ g.up = e.up
    BY <2>2 DEF Connection
  <2> HIDE DEF g
  <2>4. LET f == Pair!NegotiateIfNeeded(g)
        IN f \in Connection /\ f.attached = has'[p] /\ f.connection = e.connection /\ f.up = e.up
    BY <2>3, Negotiates DEF Same
  <2>5. CASE has'[p] = e.attached \/ (has'[p] /\ ~authorized[p])
    BY <1>5, <2>1, <2>5
  <2>6. CASE ~(has'[p] = e.attached \/ (has'[p] /\ ~authorized[p]))
    BY <1>1, <2>1, <2>4, <2>6 DEF g, b
  <2>7. QED
    BY <2>5, <2>6
<1> HIDE DEF F
<1>6. ASSUME NEW f \in entry'[p]
      PROVE  /\ f \in Connection /\ (f.attached => authorized[p] /\ has'[p]) /\ entry'[p] = {f}
             /\ \E e \in entry[p] : f.connection = e.connection /\ f.up = e.up
  <2>1. entry'[p] = {F(e) : e \in entry[p]}
    BY <1>1, <1>2 DEF PairShape
  <2>2. PICK e \in Connection : entry[p] = {e}
    BY <1>1, <1>6, <2>1 DEF PairShape
  <2>3. f = F(e) /\ entry'[p] = {f}
    BY <1>6, <2>1, <2>2
  <2>4. e.attached => authorized[p]
    BY <1>1, <2>2 DEF SoundEnd
  <2>5. QED
    BY <1>5, <2>2, <2>3, <2>4
<1>7. /\ entry' \in [{1, 2} -> SUBSET Connection]
      /\ \A q \in {1, 2} : entry'[q] = {} \/ \E f \in Connection : entry'[q] = {f}
      /\ \A q \in {1, 2} \ {p} : entry'[q] = entry[q]
  BY <1>1, <1>2, <1>6 DEF PairShape
<1>8. PairShape' /\ Elsewhere(p)
  <2>1. PairShape'
    BY <1>1, <1>2, <1>3, <1>4, <1>7 DEF PairShape
  <2>2. Elsewhere(p)
    BY <1>2, <1>4, <1>7 DEF Elsewhere
  <2>3. QED
    BY <2>1, <2>2
<1>9. authorized[p] => entry'[p] # {}
  <2>1. SUFFICES ASSUME authorized[p] PROVE entry'[p] # {}
    OBVIOUS
  <2>2. PICK e \in entry[p] : e.up
    BY <1>1, <2>1 DEF SoundEnd
  <2>3. F(e) \in entry'[p]
    BY <1>1, <1>2, <2>2 DEF PairShape
  <2>4. QED
    BY <2>3
<1>10. SoundEnd(p)'
  <2>1. ASSUME NEW f \in entry'[p]
        PROVE  /\ f.attached => authorized'[p] /\ has'[p]
               /\ f.connection # "new" => f.up
               /\ p = 1 /\ f.connection = "down" => timer'[1] \/ recovering'[1]
    BY <1>1, <1>2, <1>6, <2>1 DEF SoundEnd
  <2>2. authorized[p] => \A f \in entry'[p] : f.up
    <3>1. SUFFICES ASSUME authorized[p], NEW f \in entry'[p] PROVE f.up
      OBVIOUS
    <3>2. PICK e \in entry[p] : f.connection = e.connection /\ f.up = e.up
      BY <1>6
    <3>3. PICK g \in entry[p] : g.up
      BY <1>1, <3>1 DEF SoundEnd
    <3>4. e = g
      BY <1>1, <3>2, <3>3 DEF PairShape
    <3>5. QED
      BY <3>2, <3>3, <3>4
  <2>3. (authorized[p] => \E f \in entry'[p] : f.up) /\ (stream[p] = "active" => authorized[p])
    BY <1>1, <1>9, <2>2 DEF SoundEnd
  <2>4. QED
    BY <1>2, <2>1, <2>3 DEF SoundEnd
<1>11. QED
  BY <1>8, <1>10, AtOneEnd

\* A step that leaves the streams and messages alone.
LEMMA GoesQuietly ==
    ASSUME PairInv, NEW p \in {1, 2}, Pair!Up(p), NEW e \in Connection, Same(Pair!E(p), e), Pair!Set(p, e),
           UNCHANGED <<has, authorized, banned, stream, timer, attempts, recovering, dead>>,
           net' \in [{1, 2} -> Seq(Pair!Descriptions)], faults' \in 0..MaxFaults
    PROVE  PairInv'
<1>1. stream \in [{1, 2} -> {"none", "pending", "active", "muted"}] /\ (stream[p] = "active" => authorized[p])
  BY DEF PairInv, PairShape, SoundEnd
<1>2. QED
  BY <1>1, Goes

LEMMA IsNeeded ==
    ASSUME PairInv, NEW p \in {1, 2}, Pair!NegotiationNeeded(p)
    PROVE  PairInv'
<1> DEFINE o == Pair!E(p)
           g == [o EXCEPT !.needed = "fired", !.needN = TRUE]
<1>1. PairShape /\ Pair!Up(p) /\ o \in Connection
  BY Entry DEF PairInv, Pair!NegotiationNeeded
<1>2. Pair!Set(p, Pair!NegotiateIfNeeded(g)) /\ UNCHANGED <<has, authorized, banned, stream, timer, attempts, recovering, net, dead, faults, lost>>
  BY DEF Pair!NegotiationNeeded
<1> HIDE DEF o
<1>3. g \in Connection /\ Same(o, g)
  BY <1>1 DEF Connection, Same
<1> HIDE DEF g
<1>4. Pair!NegotiateIfNeeded(g) \in Connection /\ Same(o, Pair!NegotiateIfNeeded(g))
  BY <1>3, Negotiates DEF Same
<1>5. net' \in [{1, 2} -> Seq(Pair!Descriptions)] /\ faults' \in 0..MaxFaults
  BY <1>1, <1>2 DEF PairShape
<1>6. QED
  BY <1>1, <1>2, <1>4, <1>5, GoesQuietly DEF o

LEMMA OfferIsCreated ==
    ASSUME PairInv, NEW p \in {1, 2}, Pair!OfferCreated(p)
    PROVE  PairInv'
<1> DEFINE o == Pair!E(p)
           e == [o EXCEPT !.making = FALSE, !.wantN = FALSE, !.wantI = FALSE]
           r == [e EXCEPT !.needN = @ \/ o.wantN, !.needI = @ \/ o.wantI]
           d == [type |-> "offer", ice |-> IF e.restart \/ o.wantI \/ e.ice = 0 THEN Pair!FreshIce ELSE e.ice,
                 first |-> e.ice = 0, media |-> e.media, track |-> e.attached]
           offering == [e EXCEPT !.signaling = "local", !.offered = e.attached, !.current = d]
           failed == [r EXCEPT !.signaling = "local", !.offered = e.attached, !.current = d]
<1>1. PairShape /\ Pair!Up(p) /\ o \in Connection
  BY Entry DEF PairInv, Pair!OfferCreated
<1>2. /\ UNCHANGED <<has, authorized, banned, stream, timer, attempts, recovering, dead>>
      /\ \/ Pair!Set(p, r) /\ UNCHANGED <<net, faults, lost>>
         \/ Pair!Set(p, offering) /\ Pair!Deliver(p, d)
         \/ Pair!Fault /\ Pair!Set(p, failed) /\ UNCHANGED net
  BY DEF Pair!OfferCreated
<1> HIDE DEF o
<1>3. e \in Connection /\ Same(o, e) /\ e.attached \in BOOLEAN
  BY <1>1 DEF Connection, Same
<1>4. r \in Connection /\ Same(o, r)
  <2>1. e \in Connection /\ Same(o, e) /\ (e.needN \/ o.wantN) \in BOOLEAN /\ (e.needI \/ o.wantI) \in BOOLEAN
    BY <1>3
  <2> HIDE DEF e
  <2>2. QED
    BY <2>1 DEF Connection, Same
<1>5. d \in Pair!Descriptions
  <2>1. e.ice \in Nat /\ e.media \in BOOLEAN /\ e.attached \in BOOLEAN
    BY <1>3 DEF Connection
  <2> HIDE DEF e
  <2>2. QED
    BY <1>1, <2>1, FreshSession DEF Pair!Descriptions
<1> HIDE DEF e, d
<1>6. offering \in Connection /\ Same(o, offering)
  BY <1>3, <1>5 DEF Connection, Same
<1> HIDE DEF r
<1>7. failed \in Connection /\ Same(o, failed)
  BY <1>3, <1>4, <1>5 DEF Connection, Same
<1> HIDE DEF offering, failed
<1>8. net \in [{1, 2} -> Seq(Pair!Descriptions)] /\ faults \in 0..MaxFaults
  BY <1>1 DEF PairShape
<1>9. CASE Pair!Set(p, r) /\ UNCHANGED <<net, faults, lost>>
  BY <1>1, <1>2, <1>4, <1>8, <1>9, GoesQuietly DEF o
<1>10. CASE Pair!Set(p, offering) /\ Pair!Deliver(p, d)
  BY <1>1, <1>2, <1>5, <1>6, <1>10, Delivers, GoesQuietly DEF o
<1>11. CASE Pair!Fault /\ Pair!Set(p, failed) /\ UNCHANGED net
  <2>1. faults' \in 0..MaxFaults
    BY <1>8, <1>11, ScreenAudioAssumption DEF Pair!Fault
  <2>2. QED
    BY <1>1, <1>2, <1>7, <1>8, <1>11, <2>1, GoesQuietly DEF o
<1>12. QED
  BY <1>2, <1>9, <1>10, <1>11

LEMMA AcceptStarts ==
    ASSUME PairInv, NEW p \in {1, 2}, Pair!AcceptStart(p)
    PROVE  PairInv'
<1> DEFINE e == IF Pair!Up(p) THEN Pair!E(p) ELSE Pair!CreatePeer(p, authorized[p])
           d == Head(net[p])
           f == [e EXCEPT !.stage = "remote", !.accepting = d, !.behind = e.making]
<1>1. PairShape /\ SoundEnd(p) /\ authorized[p] \in BOOLEAN /\ net[p] \in Seq(Pair!Descriptions) /\ net[p] # <<>>
  BY DEF PairInv, PairShape, Pair!AcceptStart
<1>2. /\ Pair!Set(p, e) \/ Pair!Set(p, f)
      /\ net' = [net EXCEPT ![p] = Tail(@)]
      /\ UNCHANGED <<has, authorized, banned, stream, timer, attempts, recovering, dead, faults, lost>>
  BY DEF Pair!AcceptStart
<1>3. d \in Pair!Descriptions /\ Tail(net[p]) \in Seq(Pair!Descriptions)
  BY <1>1
<1>4. net' \in [{1, 2} -> Seq(Pair!Descriptions)] /\ faults' \in 0..MaxFaults
  BY <1>1, <1>2, <1>3 DEF PairShape
<1>5. CASE Pair!Up(p)
  <2>1. e \in Connection /\ e = Pair!E(p)
    BY <1>1, <1>5, Entry
  <2> HIDE DEF e, d
  <2>2. f \in Connection /\ Same(e, f) /\ Same(e, e)
    BY <1>3, <2>1 DEF Connection, Same
  <2> HIDE DEF f
  <2>3. QED
    BY <1>2, <1>4, <1>5, <2>1, <2>2, GoesQuietly
<1>6. CASE ~Pair!Up(p)
  <2>1. entry[p] = {} /\ ~authorized[p] /\ stream[p] # "active"
    BY <1>1, <1>6 DEF SoundEnd, Pair!Up
  <2>2. e \in Connection /\ e.connection = "new" /\ ~e.up /\ ~e.attached
    BY <1>1, <1>6, <2>1, Creates
  <2> HIDE DEF e, d
  <2>3. f \in Connection /\ f.connection = "new" /\ ~f.up /\ ~f.attached
    BY <1>3, <2>2 DEF Connection
  <2> HIDE DEF f
  <2>4. PICK g \in {e, f} : Pair!Set(p, g)
    BY <1>2
  <2>5. g \in Connection /\ g.connection = "new" /\ ~g.up /\ ~g.attached
    BY <2>2, <2>3, <2>4
  <2>6. /\ entry' \in [{1, 2} -> SUBSET Connection] /\ entry'[p] = {g}
        /\ \A q \in {1, 2} : entry'[q] = {} \/ \E h \in Connection : entry'[q] = {h}
        /\ \A q \in {1, 2} \ {p} : entry'[q] = entry[q]
    BY <1>1, <2>4, <2>5, SetsEntry
  <2>7. PairShape'
    BY <1>1, <1>2, <1>4, <2>6 DEF PairShape
  <2>8. Elsewhere(p)
    BY <1>2, <2>6 DEF Elsewhere
  <2>9. SoundEnd(p)'
    BY <1>2, <2>1, <2>5, <2>6 DEF SoundEnd
  <2>10. QED
    BY <2>7, <2>8, <2>9, AtOneEnd
<1>7. QED
  BY <1>5, <1>6

\* A stream plays only if its peer is authorized.
LEMMA Tracks ==
    ASSUME PairInv, NEW p \in {1, 2}, NEW e, NEW d, Pair!OnTrack(p, e, d, authorized[p])
    PROVE  /\ stream' \in [{1, 2} -> {"none", "pending", "active", "muted"}]
           /\ \A q \in {1, 2} \ {p} : stream'[q] = stream[q]
           /\ stream'[p] = "active" => authorized[p]
<1>1. PairShape /\ SoundEnd(p)
  BY DEF PairInv
<1>2. stream \in [{1, 2} -> {"none", "pending", "active", "muted"}] /\ (stream[p] = "active" => authorized[p])
  BY <1>1 DEF PairShape, SoundEnd
<1>3. PICK x \in {stream[p], "pending", "active"} :
          stream' = [stream EXCEPT ![p] = x] /\ (x = "active" => x = stream[p] \/ authorized[p])
  BY DEF Pair!OnTrack
<1>4. QED
  BY <1>2, <1>3

LEMMA OfferIsApplied ==
    ASSUME PairInv, NEW p \in {1, 2}, Pair!OfferApplied(p)
    PROVE  PairInv'
<1> DEFINE o == Pair!E(p)
           f == Pair!Applied(o, o.accepting)
<1>1. PairShape /\ Pair!Up(p) /\ o \in Connection
  BY Entry DEF PairInv, Pair!OfferApplied
<1>2. /\ Pair!Set(p, f) /\ Pair!OnTrack(p, o, o.accepting, authorized[p])
      /\ UNCHANGED <<has, authorized, banned, timer, attempts, recovering, net, dead, faults, lost>>
  BY DEF Pair!OfferApplied
<1>3. f \in Connection /\ Same(o, f)
  <2> HIDE DEF o
  <2>1. o.accepting \in Pair!Descriptions
    BY <1>1 DEF Connection
  <2>2. QED
    BY <1>1, <2>1, Applies
<1> HIDE DEF f
<1>4. net' \in [{1, 2} -> Seq(Pair!Descriptions)] /\ faults' \in 0..MaxFaults
  BY <1>1, <1>2 DEF PairShape
<1>5. /\ stream' \in [{1, 2} -> {"none", "pending", "active", "muted"}]
      /\ \A q \in {1, 2} \ {p} : stream'[q] = stream[q]
      /\ stream'[p] = "active" => authorized[p]
  BY <1>2, Tracks
<1>6. QED
  BY <1>1, <1>2, <1>3, <1>4, <1>5, Goes

LEMMA ResetsForOffer ==
    ASSUME PairInv, NEW p \in {1, 2}, Pair!ResetForOffer(p)
    PROVE  PairInv'
<1> DEFINE o == Pair!E(p)
           d == o.accepting
           c == Pair!CreatePeer(p, FALSE)
           e == [c EXCEPT !.canNegotiate = TRUE, !.channel = TRUE, !.accepting = d]
           f == Pair!Applied(e, d)
<1>1. PairShape /\ o \in Connection
  BY Entry DEF PairInv, Pair!ResetForOffer
<1>2. /\ Pair!Set(p, f) /\ stream' = [stream EXCEPT ![p] = IF d.track THEN "pending" ELSE "none"]
      /\ authorized' = [authorized EXCEPT ![p] = FALSE] /\ timer' = [timer EXCEPT ![p] = FALSE]
      /\ attempts' = [attempts EXCEPT ![p] = 0] /\ recovering' = [recovering EXCEPT ![p] = FALSE]
      /\ UNCHANGED <<has, banned, net, dead, faults, lost>>
  BY DEF Pair!ResetForOffer
<1>3. d \in Pair!Descriptions
  BY <1>1 DEF Connection
<1>4. c \in Connection /\ c.connection = "new" /\ ~c.attached
  BY <1>1, Creates
<1> HIDE DEF c, d
<1>5. e \in Connection /\ e.connection = "new" /\ ~e.attached
  BY <1>3, <1>4 DEF Connection
<1> HIDE DEF e
<1>6. f \in Connection /\ Same(e, f)
  BY <1>3, <1>5, Applies
<1> HIDE DEF f
<1>7. /\ entry' \in [{1, 2} -> SUBSET Connection] /\ entry'[p] = {f}
      /\ \A q \in {1, 2} : entry'[q] = {} \/ \E h \in Connection : entry'[q] = {h}
      /\ \A q \in {1, 2} \ {p} : entry'[q] = entry[q]
  BY <1>1, <1>2, <1>6, SetsEntry
<1>8. PairShape'
  BY <1>1, <1>2, <1>7 DEF PairShape
<1>9. Elsewhere(p) /\ ~authorized'[p] /\ stream'[p] # "active"
  BY <1>1, <1>2, <1>7 DEF Elsewhere, PairShape
<1>10. SoundEnd(p)'
  BY <1>5, <1>6, <1>7, <1>9 DEF SoundEnd, Same
<1>11. QED
  BY <1>8, <1>9, <1>10, AtOneEnd

LEMMA Answers ==
    ASSUME PairInv, NEW p \in {1, 2}, Pair!Answered(p)
    PROVE  PairInv'
<1> DEFINE o == Pair!E(p)
           d == o.current
           sending == o.attached /\ o.media
           f == [o EXCEPT !.stage = "idle", !.accepting = Pair!NoDescription, !.ice = d.ice, !.sending = sending,
                          !.current = Pair!NoDescription, !.restart = @ /\ d.ice = o.ice]
           a == [d EXCEPT !.type = "answer", !.track = sending, !.media = o.media]
<1>1. PairShape /\ Pair!Up(p) /\ o \in Connection
  BY Entry DEF PairInv, Pair!Answered
<1>2. /\ Pair!Set(p, Pair!Stabilized(f)) /\ Pair!Deliver(p, a)
      /\ UNCHANGED <<has, authorized, banned, stream, timer, attempts, recovering, dead>>
  BY DEF Pair!Answered
<1> HIDE DEF o
<1>3. d \in Pair!Descriptions /\ d.ice \in Nat /\ sending \in BOOLEAN /\ o.media \in BOOLEAN /\ o.restart \in BOOLEAN
  BY <1>1 DEF Connection, Pair!Descriptions
<1> HIDE DEF d, sending
<1>4. a \in Pair!Descriptions
  BY <1>3 DEF Pair!Descriptions
<1>5. Pair!NoDescription \in Pair!Descriptions
  BY DEF Pair!NoDescription, Pair!Descriptions
<1>6. f \in Connection /\ Same(o, f)
  <2> DEFINE b == o.restart /\ d.ice = o.ice
             g == [o EXCEPT !.ice = d.ice, !.sending = sending, !.current = Pair!NoDescription, !.restart = b]
  <2>1. b \in BOOLEAN
    BY <1>3
  <2>2. f = [g EXCEPT !.stage = "idle", !.accepting = Pair!NoDescription]
    BY <1>1 DEF Connection
  <2> HIDE DEF b, f
  <2>3. g \in Connection /\ Same(o, g)
    BY <1>1, <1>3, <2>1, Agrees
  <2> HIDE DEF g
  <2>4. QED
    BY <1>5, <2>2, <2>3 DEF Connection, Same
<1> HIDE DEF f, a
<1>7. Pair!Stabilized(f) \in Connection /\ Same(o, Pair!Stabilized(f))
  BY <1>6, Checks DEF Same
<1>8. net' \in [{1, 2} -> Seq(Pair!Descriptions)] /\ faults' \in 0..MaxFaults
  BY <1>1, <1>2, <1>4, Delivers
<1>9. QED
  BY <1>1, <1>2, <1>7, <1>8, GoesQuietly DEF o

LEMMA AnswerIsApplied ==
    ASSUME PairInv, NEW p \in {1, 2}, Pair!AnswerApplied(p)
    PROVE  PairInv'
<1> DEFINE o == Pair!E(p)
           d == o.accepting
           e == [o EXCEPT !.stage = "idle", !.accepting = Pair!NoDescription, !.behind = FALSE]
           f == [e EXCEPT !.ice = d.ice, !.sending = e.offered, !.receiving = d.track, !.media = @ \/ d.media,
                          !.restart = @ /\ d.ice = e.ice, !.canNegotiate = TRUE, !.current = Pair!NoDescription, !.offered = FALSE]
           g == Pair!NegotiateIfNeeded(Pair!Stabilized(f))
<1>1. PairShape /\ Pair!Up(p) /\ o \in Connection
  BY Entry DEF PairInv, Pair!AnswerApplied
<1>2. /\ UNCHANGED <<has, authorized, banned, timer, attempts, recovering, net, dead, faults, lost>>
      /\ \/ Pair!Set(p, g) /\ Pair!OnTrack(p, e, d, authorized[p])
         \/ Pair!Set(p, e) /\ UNCHANGED stream
  BY DEF Pair!AnswerApplied
<1>3. Pair!NoDescription \in Pair!Descriptions
  BY DEF Pair!NoDescription, Pair!Descriptions
<1> HIDE DEF o
<1>4. d \in Pair!Descriptions /\ d.ice \in Nat /\ d.track \in BOOLEAN /\ d.media \in BOOLEAN
  BY <1>1 DEF Connection, Pair!Descriptions
<1>5. e \in Connection /\ Same(o, e)
  BY <1>1, <1>3 DEF Connection, Same
<1> HIDE DEF e, d
<1>6. f \in Connection /\ Same(e, f)
  <2> DEFINE m == e.media \/ d.media
             b == e.restart /\ d.ice = e.ice
             h == [e EXCEPT !.ice = d.ice, !.sending = e.offered, !.current = Pair!NoDescription, !.restart = b]
             i == [h EXCEPT !.receiving = d.track, !.media = m]
  <2>1. m \in BOOLEAN /\ b \in BOOLEAN /\ e.offered \in BOOLEAN
    BY <1>4, <1>5 DEF Connection
  <2>2. f = [i EXCEPT !.canNegotiate = TRUE, !.offered = FALSE]
    BY <1>5 DEF Connection
  <2> HIDE DEF f, m, b
  <2>3. h \in Connection /\ Same(e, h)
    BY <1>4, <1>5, <2>1, Agrees
  <2> HIDE DEF h
  <2>4. i \in Connection /\ Same(h, i)
    BY <1>4, <2>1, <2>3 DEF Connection, Same
  <2> HIDE DEF i
  <2>5. QED
    BY <2>2, <2>3, <2>4 DEF Connection, Same
<1> HIDE DEF f
<1>7. g \in Connection /\ Same(o, g)
  BY <1>5, <1>6, Checks, Negotiates DEF Same
<1> HIDE DEF g
<1>8. net' \in [{1, 2} -> Seq(Pair!Descriptions)] /\ faults' \in 0..MaxFaults
  BY <1>1, <1>2 DEF PairShape
<1>9. CASE Pair!Set(p, g) /\ Pair!OnTrack(p, e, d, authorized[p])
  <2>1. /\ stream' \in [{1, 2} -> {"none", "pending", "active", "muted"}]
        /\ \A q \in {1, 2} \ {p} : stream'[q] = stream[q]
        /\ stream'[p] = "active" => authorized[p]
    BY <1>9, Tracks
  <2>2. QED
    BY <1>1, <1>2, <1>7, <1>8, <1>9, <2>1, Goes DEF o
<1>10. CASE Pair!Set(p, e) /\ UNCHANGED stream
  BY <1>1, <1>2, <1>5, <1>8, <1>10, GoesQuietly DEF o
<1>11. QED
  BY <1>2, <1>9, <1>10

LEMMA ComesUp ==
    ASSUME PairInv, NEW p \in {1, 2}, Pair!ConnectionUp(p)
    PROVE  PairInv'
<1> DEFINE o == Pair!E(p)
           e == [o EXCEPT !.connection = "connected", !.up = TRUE]
<1>1. PairShape /\ SoundEnd(p) /\ o \in Connection /\ entry[p] = {o}
  BY Entry DEF PairInv, Pair!ConnectionUp, Pair!Linked
<1>2. /\ Pair!Set(p, e) /\ timer' = [timer EXCEPT ![p] = FALSE] /\ attempts' = [attempts EXCEPT ![p] = 0]
      /\ UNCHANGED <<has, authorized, banned, stream, recovering, net, dead, faults, lost>>
  BY DEF Pair!ConnectionUp
<1> HIDE DEF o
<1>3. e \in Connection /\ e.up /\ e.connection = "connected" /\ e.attached = o.attached
  BY <1>1 DEF Connection
<1> HIDE DEF e
<1>4. /\ entry' \in [{1, 2} -> SUBSET Connection] /\ entry'[p] = {e}
      /\ \A q \in {1, 2} : entry'[q] = {} \/ \E h \in Connection : entry'[q] = {h}
      /\ \A q \in {1, 2} \ {p} : entry'[q] = entry[q]
  BY <1>1, <1>2, <1>3, SetsEntry
<1>5. PairShape'
  BY <1>1, <1>2, <1>4 DEF PairShape
<1>6. Elsewhere(p)
  BY <1>1, <1>2, <1>4 DEF Elsewhere, PairShape
<1>7. SoundEnd(p)'
  BY <1>1, <1>2, <1>3, <1>4 DEF SoundEnd
<1>8. QED
  BY <1>5, <1>6, <1>7, AtOneEnd

\* Only the peer with the smaller identifier recovers; the other waits.
LEMMA Schedules ==
    ASSUME PairShape, NEW p \in {1, 2}, Pair!Schedule(p)
    PROVE  timer' \in [{1, 2} -> BOOLEAN] /\ (p = 1 => timer'[p]) /\ \A q \in {1, 2} \ {p} : timer'[q] = timer[q]
<1>1. (p < Pair!Other(p)) = (p = 1) /\ timer \in [{1, 2} -> BOOLEAN]
  BY DEF Pair!Other, PairShape
<1>2. timer' = [timer EXCEPT ![p] = @ \/ p = 1]
  BY <1>1 DEF Pair!Schedule
<1>3. QED
  BY <1>1, <1>2

LEMMA GoesDown ==
    ASSUME PairInv, NEW p \in {1, 2}, Pair!ConnectionDown(p)
    PROVE  PairInv'
<1> DEFINE o == Pair!E(p)
           e == [o EXCEPT !.connection = "down"]
<1>1. PairShape /\ SoundEnd(p) /\ o \in Connection /\ entry[p] = {o} /\ o.connection = "connected"
  BY Entry DEF PairInv, Pair!ConnectionDown
<1>2. /\ Pair!Set(p, e) /\ Pair!Schedule(p)
      /\ UNCHANGED <<has, authorized, banned, stream, attempts, recovering, net, dead, faults, lost>>
  BY DEF Pair!ConnectionDown
<1> HIDE DEF o
<1>3. e \in Connection /\ e.up /\ e.attached = o.attached
  <2>1. o.up
    BY <1>1 DEF SoundEnd
  <2>2. QED
    BY <1>1, <2>1 DEF Connection
<1> HIDE DEF e
<1>4. /\ entry' \in [{1, 2} -> SUBSET Connection] /\ entry'[p] = {e}
      /\ \A q \in {1, 2} : entry'[q] = {} \/ \E h \in Connection : entry'[q] = {h}
      /\ \A q \in {1, 2} \ {p} : entry'[q] = entry[q]
  BY <1>1, <1>2, <1>3, SetsEntry
<1>5. timer' \in [{1, 2} -> BOOLEAN] /\ (p = 1 => timer'[p]) /\ \A q \in {1, 2} \ {p} : timer'[q] = timer[q]
  BY <1>1, <1>2, Schedules
<1>6. PairShape'
  BY <1>1, <1>2, <1>4, <1>5 DEF PairShape
<1>7. Elsewhere(p)
  BY <1>2, <1>4, <1>5 DEF Elsewhere
<1>8. SoundEnd(p)'
  BY <1>1, <1>2, <1>3, <1>4, <1>5 DEF SoundEnd
<1>9. QED
  BY <1>6, <1>7, <1>8, AtOneEnd

\* A connection that replaces one: nothing is authorized over it yet.
LEMMA Recreates ==
    ASSUME PairInv, NEW p \in {1, 2}, Pair!Recreate(p), attempts' \in [{1, 2} -> 0..2],
           recovering' \in [{1, 2} -> BOOLEAN], \A q \in {1, 2} \ {p} : recovering'[q] = recovering[q],
           UNCHANGED <<has, banned, dead, faults>>
    PROVE  PairInv'
<1> DEFINE e == Pair!Replacement(p, authorized'[p])
<1>1. PairShape
  BY DEF PairInv
<1>2. /\ authorized' \in [{1, 2} -> BOOLEAN] /\ authorized'[p] = FALSE
      /\ stream' \in [{1, 2} -> {"none", "pending", "active", "muted"}] /\ stream'[p] = "none"
      /\ net' \in [{1, 2} -> Seq(Pair!Descriptions)]
      /\ \A q \in {1, 2} \ {p} : authorized'[q] = authorized[q] /\ stream'[q] = stream[q]
  BY <1>1, Disposes DEF Pair!Recreate
<1>3. Pair!Set(p, e) /\ timer' = [timer EXCEPT ![p] = FALSE]
  BY DEF Pair!Recreate
<1>4. e \in Connection /\ e.connection = "new" /\ ~e.up /\ ~e.attached
  BY <1>1, <1>2, Replaces
<1> HIDE DEF e
<1>5. /\ entry' \in [{1, 2} -> SUBSET Connection] /\ entry'[p] = {e}
      /\ \A q \in {1, 2} : entry'[q] = {} \/ \E h \in Connection : entry'[q] = {h}
      /\ \A q \in {1, 2} \ {p} : entry'[q] = entry[q]
  BY <1>1, <1>3, <1>4, SetsEntry
<1>6. PairShape'
  BY <1>1, <1>2, <1>3, <1>5 DEF PairShape
<1>7. Elsewhere(p)
  BY <1>1, <1>2, <1>3, <1>5 DEF Elsewhere, PairShape
<1>8. SoundEnd(p)'
  BY <1>2, <1>4, <1>5 DEF SoundEnd
<1>9. QED
  BY <1>6, <1>7, <1>8, AtOneEnd

LEMMA Attempts == \A n \in 0..2 : Pair!NextAttempt(n) \in 0..2
BY DEF Pair!NextAttempt

LEMMA Fires ==
    ASSUME PairInv, NEW p \in {1, 2}, Pair!TimerFires(p)
    PROVE  PairInv'
<1> DEFINE n == Pair!NextAttempt(attempts[p])
           e == Pair!RestartIce(Pair!E(p))
<1>1. PairShape /\ SoundEnd(p) /\ Pair!E(p) \in Connection /\ entry[p] = {Pair!E(p)}
  BY Entry DEF PairInv, Pair!TimerFires
<1>2. /\ attempts' = [attempts EXCEPT ![p] = n] /\ recovering' = [recovering EXCEPT ![p] = TRUE]
      /\ UNCHANGED <<has, banned, dead, faults, lost>>
      /\ \/ Pair!Recreate(p)
         \/ Pair!Set(p, e) /\ timer' = [timer EXCEPT ![p] = FALSE] /\ UNCHANGED <<authorized, stream, net>>
  BY DEF Pair!TimerFires
<1>3. n \in 0..2
  BY <1>1, Attempts DEF PairShape
<1> HIDE DEF n
<1>4. attempts' \in [{1, 2} -> 0..2] /\ recovering' \in [{1, 2} -> BOOLEAN] /\ recovering'[p]
      /\ \A q \in {1, 2} \ {p} : recovering'[q] = recovering[q]
  BY <1>1, <1>2, <1>3 DEF PairShape
<1>5. CASE Pair!Recreate(p)
  BY <1>2, <1>4, <1>5, Recreates
<1>6. CASE Pair!Set(p, e) /\ timer' = [timer EXCEPT ![p] = FALSE] /\ UNCHANGED <<authorized, stream, net>>
  <2>1. e \in Connection /\ Same(Pair!E(p), e)
    BY <1>1, Restarts
  <2> HIDE DEF e
  <2>2. /\ entry' \in [{1, 2} -> SUBSET Connection] /\ entry'[p] = {e}
        /\ \A q \in {1, 2} : entry'[q] = {} \/ \E h \in Connection : entry'[q] = {h}
        /\ \A q \in {1, 2} \ {p} : entry'[q] = entry[q]
    BY <1>1, <1>6, <2>1, SetsEntry
  <2>3. PairShape'
    BY <1>1, <1>2, <1>4, <1>6, <2>2 DEF PairShape
  <2>4. Elsewhere(p)
    BY <1>1, <1>2, <1>4, <1>6, <2>2 DEF Elsewhere, PairShape
  <2>5. SoundEnd(p)'
    BY <1>1, <1>2, <1>4, <1>6, <2>1, <2>2 DEF SoundEnd, Same
  <2>6. QED
    BY <2>3, <2>4, <2>5, AtOneEnd
<1>7. QED
  BY <1>2, <1>5, <1>6

\* The attempt that ends over a broken connection leaves the next one scheduled.
LEMMA Ends ==
    ASSUME PairInv, NEW p \in {1, 2}, Pair!RecoveryEnds(p)
    PROVE  PairInv'
<1>1. PairShape /\ SoundEnd(p) /\ Pair!E(p) \in Connection /\ entry[p] = {Pair!E(p)}
  BY Entry DEF PairInv, Pair!RecoveryEnds
<1>2. /\ recovering' = [recovering EXCEPT ![p] = FALSE]
      /\ UNCHANGED <<entry, has, authorized, banned, stream, attempts, net, dead, faults, lost>>
      /\ (Pair!E(p).connection = "connected" /\ UNCHANGED timer) \/ Pair!Schedule(p)
  BY DEF Pair!RecoveryEnds
<1>3. timer' \in [{1, 2} -> BOOLEAN] /\ (Pair!E(p).connection = "connected" \/ (p = 1 => timer'[p]))
      /\ \A q \in {1, 2} \ {p} : timer'[q] = timer[q]
  <2>1. CASE Pair!Schedule(p)
    BY <1>1, <2>1, Schedules
  <2>2. CASE Pair!E(p).connection = "connected" /\ UNCHANGED timer
    BY <1>1, <2>2 DEF PairShape
  <2>3. QED
    BY <1>2, <2>1, <2>2
<1>4. PairShape'
  BY <1>1, <1>2, <1>3 DEF PairShape
<1>5. Elsewhere(p)
  BY <1>1, <1>2, <1>3 DEF Elsewhere, PairShape
<1>6. SoundEnd(p)'
  BY <1>1, <1>2, <1>3 DEF SoundEnd
<1>7. QED
  BY <1>4, <1>5, <1>6, AtOneEnd

LEMMA Recovers ==
    ASSUME PairInv, NEW p \in {1, 2}, Pair!RecoverPeer(p)
    PROVE  PairInv'
<1>1. PairShape
  BY DEF PairInv
<1>2. /\ Pair!Recreate(p) /\ recovering' = [recovering EXCEPT ![p] = FALSE] /\ UNCHANGED <<has, banned, dead, faults>>
      /\ attempts' = [attempts EXCEPT ![p] = IF p < Pair!Other(p) THEN Pair!NextAttempt(@) ELSE 0]
  BY DEF Pair!RecoverPeer
<1>3. attempts' \in [{1, 2} -> 0..2]
  <2>1. attempts[p] \in 0..2 /\ Pair!NextAttempt(attempts[p]) \in 0..2
    BY <1>1, Attempts DEF PairShape
  <2>2. QED
    BY <1>1, <1>2, <2>1 DEF PairShape
<1>4. recovering' \in [{1, 2} -> BOOLEAN] /\ \A q \in {1, 2} \ {p} : recovering'[q] = recovering[q]
  BY <1>1, <1>2 DEF PairShape
<1>5. QED
  BY <1>2, <1>3, <1>4, Recreates

LEMMA Breaks ==
    ASSUME PairInv, Pair!PathBreaks \/ Pair!PathHeals
    PROVE  PairInv'
<1>1. PairShape /\ SoundEnd(1) /\ SoundEnd(2)
  BY DEF PairInv
<1>2. UNCHANGED <<entry, has, authorized, banned, stream, timer, attempts, recovering, net>>
  BY DEF Pair!PathBreaks, Pair!PathHeals
<1>3. dead' \in Nat /\ faults' \in 0..MaxFaults
  <2>1. CASE Pair!PathBreaks
    <3>1. Pair!E(1) \in Connection
      BY <1>1, <2>1, Entry DEF Pair!PathBreaks, Pair!Linked
    <3>2. Pair!E(1).ice \in Nat
      BY <3>1 DEF Connection
    <3>3. QED
      BY <1>1, <2>1, <3>2, ScreenAudioAssumption DEF Pair!PathBreaks, Pair!Fault, PairShape
  <2>2. CASE Pair!PathHeals
    BY <1>1, <2>2 DEF Pair!PathHeals, PairShape
  <2>3. QED
    BY <2>1, <2>2
<1>4. PairShape'
  BY <1>1, <1>2, <1>3 DEF PairShape
<1>5. SoundEnd(1)' /\ SoundEnd(2)'
  BY <1>1, <1>2 DEF SoundEnd
<1>6. QED
  BY <1>4, <1>5 DEF PairInv

LEMMA PairStarts == Pair!Init => PairInv
<1> SUFFICES ASSUME Pair!Init PROVE PairInv
  OBVIOUS
<1>1. PairShape
  BY ScreenAudioAssumption DEF Pair!Init, Pair!Peers, PairShape
<1>2. QED
  BY <1>1 DEF PairInv, SoundEnd, Pair!Init, Pair!Peers

LEMMA PairSteps == PairInv /\ [Pair!Next]_(Pair!vars) => PairInv'
<1> SUFFICES ASSUME PairInv, [Pair!Next]_(Pair!vars) PROVE PairInv'
  OBVIOUS
<1>1. ASSUME NEW p \in {1, 2},
             \/ Pair!Connect(p) \/ Pair!Disconnect(p) \/ Pair!Authorize(p) \/ Pair!Revoke(p) \/ Pair!Toggle(p)
             \/ Pair!ConnectionUp(p) \/ Pair!ConnectionDown(p) \/ Pair!TimerFires(p) \/ Pair!RecoveryEnds(p) \/ Pair!RecoverPeer(p)
      PROVE  PairInv'
  BY <1>1, Connects, Disconnects, Authorizes, Revokes, Toggles, ComesUp, GoesDown, Fires, Ends, Recovers
<1>2. ASSUME NEW p \in {1, 2}, Pair!Handlers(p) PROVE PairInv'
  BY <1>2, IsNeeded, OfferIsCreated, AcceptStarts, OfferIsApplied, ResetsForOffer, Answers, AnswerIsApplied DEF Pair!Handlers
<1>3. CASE UNCHANGED Pair!vars
  <2>1. PairShape' /\ SoundEnd(1)' /\ SoundEnd(2)'
    BY <1>3 DEF Pair!vars, PairInv, PairShape, SoundEnd
  <2>2. QED
    BY <2>1 DEF PairInv
<1>4. QED
  BY <1>1, <1>2, <1>3, Breaks DEF Pair!Next, Pair!Peers

LEMMA PairIsSound == PairInv => ConnectionsAreSound
<1> SUFFICES ASSUME PairInv PROVE ConnectionsAreSound
  OBVIOUS
<1>1. PairShape /\ SoundEnd(1) /\ SoundEnd(2)
  BY DEF PairInv
<1>2. ASSUME NEW p \in {1, 2} PROVE Cardinality(entry[p]) <= 1
  <2>1. CASE entry[p] = {}
    BY <2>1, FS_EmptySet
  <2>2. CASE \E e \in Connection : entry[p] = {e}
    <3>1. PICK e \in Connection : entry[p] = {e}
      BY <2>2
    <3>2. Cardinality({e}) = 1
      BY FS_Singleton
    <3>3. QED
      BY <3>1, <3>2
  <2>3. QED
    BY <1>1, <2>1, <2>2 DEF PairShape
<1>3. PairTyped
  BY <1>1, <1>2 DEF PairTyped, Peers, PairShape, Connection, Descriptions, Pair!Descriptions
<1>4. MediaNeedsProvenConnection
  <2>1. ASSUME NEW p \in {1, 2}, authorized[p] PROVE Up(p) /\ E(p).up
    <3>1. PICK e \in entry[p] : e.up
      BY <1>1, <2>1 DEF SoundEnd
    <3>2. entry[p] = {E(p)}
      BY <1>1, <3>1, Entry DEF Pair!Up, Pair!E, E
    <3>3. QED
      BY <3>1, <3>2 DEF Up
  <2>2. QED
    BY <1>1, <2>1 DEF MediaNeedsProvenConnection, Peers, SoundEnd
<1>5. RecoveryIsArmed
  BY <1>1 DEF RecoveryIsArmed, SoundEnd
<1>6. QED
  BY <1>3, <1>4, <1>5 DEF ConnectionsAreSound

(* Whatever is lost, repeated, broken, revoked or published, and however    *)
(* negotiations, recoveries and recreations interleave: no media before    *)
(* the proof that went over the same connection (mesh.ts disposePeerEntry, *)
(* recreatePeerForRecovery), and no broken connection without a repair     *)
(* under way (schedulePeerRecovery).                                       *)
THEOREM PairStaysSound == Pair!Spec => []ConnectionsAreSound
<1>1. Pair!Init => PairInv
  BY PairStarts
<1>2. PairInv /\ [Pair!Next]_(Pair!vars) => PairInv'
  BY PairSteps
<1>3. PairInv => ConnectionsAreSound
  BY PairIsSound
<1>4. QED
  BY <1>1, <1>2, <1>3, PTL DEF Pair!Spec

---------------------------------------------------------------------------
(* Media: what every reachable state holds.                                *)

Captures == {"mic", "cam", "scr", "aud"} \X Nat
Maybe == Captures \cup {Loc!None}

Kinds == {"init", "voice", "share", "camon", "camoff", "unshare", "attach", "quality"}
Waits == {"open", "publish", "replace", "unpublish", "capture", "quality", "repair", "republish",
          "prepare", "wait", "apply"}

Operation ==
    [id : Int, kind : Kinds, call : Nat, at : Waits, cap : Maybe, prev : Maybe, rev : Nat,
     audio : {"none", "display", "pipewire"}]

Said == [mic : BOOLEAN, cam : BOOLEAN, scr : BOOLEAN, aud : BOOLEAN]
Fields == [mic : Maybe, cam : Maybe, scr : Maybe, local : SUBSET Captures, q : Nat, says : Said]
Devices == [live : SUBSET Captures, on : SUBSET Maybe, pub : SUBSET Maybe,
            aud : SUBSET (Maybe \X Captures), prov : Maybe, missed : SUBSET Captures,
            applied : [Loc!Numbers -> Nat], sent : [Loc!Numbers -> Nat]]

LocalShape ==
    /\ call \in Nat /\ spent \in [calls : Nat, asked : Nat, faults : Nat, opened : Nat]
    /\ mm \in Fields /\ dev \in Devices /\ ended \subseteq Captures /\ ops \subseteq Operation

(* What the helpers do to the devices.                                     *)
LEMMA DeviceHelpers ==
    ASSUME NEW d \in Devices, NEW T \in SUBSET Maybe
    PROVE  /\ Loc!Publish(d, T) \in Devices /\ Loc!Unpublish(d, T) \in Devices
           /\ Loc!Stop(d, T) \in Devices
           /\ Loc!Publish(d, T) = [d EXCEPT !.pub = d.pub \cup T]
           /\ Loc!Unpublish(d, T) = [d EXCEPT !.pub = d.pub \ T]
           /\ Loc!Stop(d, T) = [d EXCEPT !.live = d.live \ T]
           /\ Loc!Publish(d, T).live = d.live /\ Loc!Unpublish(d, T).live = d.live
           /\ Loc!Stop(d, T).live = d.live \ T
           /\ Loc!Publish(d, T).aud = d.aud /\ Loc!Unpublish(d, T).aud = d.aud
           /\ Loc!Stop(d, T).aud = d.aud
BY DEF Devices, Loc!Publish, Loc!Unpublish, Loc!Stop

LEMMA EnabledHelper ==
    ASSUME NEW d \in Devices, NEW k \in Maybe, NEW yes
    PROVE  /\ Loc!Enabled(d, k, yes) \in Devices
           /\ Loc!Enabled(d, k, yes).live = d.live /\ Loc!Enabled(d, k, yes).aud = d.aud
           /\ Loc!Enabled(d, k, yes).pub = d.pub
BY DEF Devices, Loc!Enabled

(* The tracks of a screen capture.                                         *)
LEMMA StreamShape ==
    ASSUME dev \in Devices, NEW k \in Maybe
    PROVE  Loc!Stream(k) \in SUBSET Maybe
BY DEF Devices, Loc!Stream, Captures, Maybe

(* A new operation, and one that has come further.                         *)
LEMMA OpShape ==
    ASSUME LocalShape, NEW kind \in Kinds, NEW at \in Waits, NEW cap \in Maybe
    PROVE  Loc!Op(kind, at, cap) \in Operation
BY DEF LocalShape, Loc!Op, Operation, Maybe

LEMMA NewShape ==
    ASSUME LocalShape, NEW kind \in {"mic", "cam", "scr", "aud"}
    PROVE  Loc!New(kind) \in Captures /\ Loc!New(kind)[2] = spent.opened + 1
BY DEF LocalShape, Loc!New, Captures

LEMMA FreshShape ==
    ASSUME LocalShape
    PROVE  Loc!Fresh(mm.q) \in Fields /\ Loc!Fresh(mm.q).local = {} /\ Loc!Fresh(mm.q).scr = Loc!None
BY DEF LocalShape, Loc!Fresh, Fields, Said, Maybe

Begun(o) == ops' = ops \cup {o}
Moved2(o, u) == ops' = (ops \ {o}) \cup {u}

(* The steps of the user, of the call and of the devices keep the shape.   *)
LEMMA ShapeCleanup ==
    ASSUME LocalShape, Loc!Cleanup
    PROVE  call' \in Nat /\ mm' \in Fields /\ dev' \in Devices
<1> DEFINE T == mm.local \cup {mm.mic, dev.prov} \cup Loc!Stream(mm.scr)
<1>1. mm.scr \in Maybe /\ mm.mic \in Maybe /\ dev.prov \in Maybe /\ mm.local \in SUBSET Maybe
  BY DEF LocalShape, Fields, Devices, Maybe
<1>2. T \in SUBSET Maybe
  BY <1>1, StreamShape DEF LocalShape
<1> HIDE DEF T
<1>3. Loc!Stop(dev, T) \in Devices
  BY <1>2, DeviceHelpers DEF LocalShape
<1>4. dev' = [Loc!Stop(dev, T) EXCEPT !.pub = {}, !.prov = Loc!None]
  BY DEF Loc!Cleanup, T
<1>5. dev' \in Devices
  BY <1>3, <1>4 DEF Devices, Maybe
<1> QED
  BY <1>5, FreshShape DEF Loc!Cleanup

LEMMA ShapeStop ==
    ASSUME LocalShape, NEW o \in Operation, NEW k \in Maybe, NEW d \in Devices,
           Loc!StopsScreen(o, k, d)
    PROVE  mm' \in Fields /\ dev' \in Devices /\ ops' \subseteq Operation
<1>1. dev' \in Devices
  BY StreamShape, DeviceHelpers DEF LocalShape, Loc!StopsScreen
<1>2. mm' \in Fields
  BY DEF LocalShape, Loc!StopsScreen, Fields, Said, Maybe
<1>3. [o EXCEPT !.kind = "unshare", !.at = "unpublish", !.cap = k, !.call = call] \in Operation
  BY DEF Operation, LocalShape, Kinds, Waits
<1> QED
  BY <1>1, <1>2, <1>3 DEF Loc!StopsScreen, LocalShape

LEMMA ShapeShared ==
    ASSUME LocalShape, NEW o \in ops, Loc!Shared(o)
    PROVE  ops' \subseteq Operation
<1>1. [o EXCEPT !.kind = "attach", !.at = "prepare", !.prev = Loc!None] \in Operation
  BY DEF Operation, LocalShape, Kinds, Waits, Maybe
<1> QED
  BY <1>1 DEF Loc!Shared, Loc!Done, LocalShape

LEMMA ShapeFailed ==
    ASSUME LocalShape, NEW o \in ops, NEW d \in Devices,
           Loc!ShareFailed(o, d) \/ Loc!VoiceFailed(o, d)
    PROVE  mm' \in Fields /\ dev' \in Devices /\ ops' \subseteq Operation
<1>1. o \in Operation /\ o.cap \in Maybe
  BY DEF LocalShape, Operation
<1>2. CASE Loc!StopsScreen(o, o.cap, d)
  BY <1>1, <1>2, ShapeStop
<1>3. CASE ~Loc!StopsScreen(o, o.cap, d)
  <2>1. dev' = d /\ mm' = mm /\ ops' = ops \ {o}
    BY <1>3 DEF Loc!ShareFailed, Loc!VoiceFailed, Loc!Done
  <2> QED
    BY <2>1 DEF LocalShape
<1> QED
  BY <1>2, <1>3

LEMMA ShapeUser ==
    ASSUME LocalShape,
           \/ Loc!StartCall \/ Loc!EndCall \/ Loc!ToggleMicrophone \/ Loc!UpdateVoiceInput
           \/ Loc!ToggleCamera \/ Loc!ToggleScreen \/ Loc!UpdateScreenQuality \/ Loc!SourceGone
           \/ \E k \in ended : Loc!EndedEvent(k)
           \/ UNCHANGED Loc!vars
    PROVE  LocalShape'
<1>0. /\ mm \in Fields /\ dev \in Devices /\ ended \subseteq Captures /\ ops \subseteq Operation
      /\ call \in Nat /\ spent \in [calls : Nat, asked : Nat, faults : Nat, opened : Nat]
      /\ Loc!None \in Maybe /\ mm.scr \in Maybe /\ mm.mic \in Maybe /\ mm.cam \in Maybe
  BY DEF LocalShape, Fields, Maybe
<1>a. ASSUME Loc!Asked PROVE spent' \in [calls : Nat, asked : Nat, faults : Nat, opened : Nat]
  BY <1>0, <1>a DEF Loc!Asked
<1>1. CASE Loc!StartCall
  <2>1. Loc!Op("init", "open", Loc!None) \in Operation
    BY <1>0, OpShape DEF Kinds, Waits
  <2>2. [Loc!Op("init", "open", Loc!None) EXCEPT !.id = 0, !.call = spent.calls + 1] \in Operation
    <3>1. spent.calls + 1 \in Nat /\ 0 \in Int
      BY <1>0
    <3> QED
      BY <2>1, <3>1 DEF Operation
  <2>3. [dev EXCEPT !.pub = {}] \in Devices
    BY <1>0 DEF Devices
  <2>4. ops' \subseteq Operation /\ mm' \in Fields /\ dev' \in Devices
    BY <1>0, <1>1, <2>2, <2>3, FreshShape DEF Loc!StartCall
  <2> QED
    BY <1>0, <1>1, <2>4 DEF Loc!StartCall, LocalShape
<1>2. CASE Loc!EndCall
  BY <1>0, <1>2, ShapeCleanup DEF Loc!EndCall, LocalShape
<1>3. CASE Loc!ToggleMicrophone
  <2>1. dev' \in Devices /\ mm' \in Fields
    BY <1>0, <1>3, EnabledHelper DEF Loc!ToggleMicrophone, Fields, Said
  <2> QED
    BY <1>0, <1>a, <1>3, <2>1 DEF Loc!ToggleMicrophone, LocalShape
<1>4. CASE Loc!UpdateVoiceInput
  <2>1. Loc!Op("voice", "open", Loc!None) \in Operation
    BY <1>0, OpShape DEF Kinds, Waits
  <2>2. [Loc!Op("voice", "open", Loc!None) EXCEPT !.prev = mm.mic] \in Operation
    BY <1>0, <2>1 DEF Operation
  <2> QED
    BY <1>0, <1>a, <1>4, <2>2 DEF Loc!UpdateVoiceInput, Loc!Begin, LocalShape
<1>5. CASE Loc!ToggleCamera
  <2>1. Loc!Op("camoff", "unpublish", mm.cam) \in Operation /\ Loc!Op("camon", "open", Loc!None) \in Operation
    BY <1>0, OpShape DEF Kinds, Waits
  <2>2. ops' \subseteq Operation
    BY <1>0, <1>5, <2>1 DEF Loc!ToggleCamera, Loc!Begin
  <2>3. Loc!Unpublish(dev, {mm.cam}) \in Devices
    BY <1>0, DeviceHelpers
  <2>4. mm' \in Fields /\ dev' \in Devices
    <3>1. [mm EXCEPT !.cam = Loc!None, !.says.cam = FALSE] \in Fields
      BY <1>0 DEF Fields, Said
    <3> QED
      BY <1>0, <1>5, <2>3, <3>1 DEF Loc!ToggleCamera
  <2> QED
    BY <1>0, <1>a, <1>5, <2>2, <2>4 DEF Loc!ToggleCamera, LocalShape
<1>6. CASE Loc!ToggleScreen
  <2>1. CASE mm.scr # Loc!None
    <3>1. Loc!Op("unshare", "unpublish", mm.scr) \in Operation
      BY <1>0, OpShape DEF Kinds, Waits
    <3> QED
      BY <1>0, <1>a, <1>6, <2>1, <3>1, ShapeStop DEF Loc!ToggleScreen, LocalShape
  <2>2. CASE mm.scr = Loc!None
    <3>1. Loc!Op("share", "capture", Loc!None) \in Operation
      BY <1>0, OpShape DEF Kinds, Waits
    <3>2. \A audio \in {"none", "display", "pipewire"} :
             [Loc!Op("share", "capture", Loc!None) EXCEPT !.audio = audio] \in Operation
      BY <3>1 DEF Operation
    <3>3. ops' \subseteq Operation /\ mm' \in Fields
      BY <1>0, <1>6, <2>2, <3>2 DEF Loc!ToggleScreen, Loc!Begin, Fields
    <3> QED
      BY <1>0, <1>a, <1>6, <2>2, <3>3 DEF Loc!ToggleScreen, LocalShape
  <2> QED
    BY <2>1, <2>2
<1>7. CASE Loc!UpdateScreenQuality
  <2>1. Loc!Op("quality", "apply", mm.scr) \in Operation
    BY <1>0, OpShape DEF Kinds, Waits
  <2>2. mm.q + 1 \in Nat
    BY <1>0 DEF Fields
  <2>3. [Loc!Op("quality", "apply", mm.scr) EXCEPT !.rev = mm.q + 1] \in Operation
    BY <2>1, <2>2 DEF Operation
  <2>4. mm' \in Fields /\ ops' \subseteq Operation
    BY <1>0, <1>7, <2>3 DEF Loc!UpdateScreenQuality, Loc!Begin, Fields
  <2> QED
    BY <1>0, <1>a, <1>7, <2>4 DEF Loc!UpdateScreenQuality, LocalShape
<1>8. CASE Loc!SourceGone
  <2>1. PICK k \in dev.live : /\ dev' = Loc!Stop(dev, {k}) /\ ended' = ended \cup {k}
                              /\ spent' = [spent EXCEPT !.faults = @ + 1]
    BY <1>8 DEF Loc!SourceGone
  <2>2. k \in Captures
    BY <1>0 DEF Devices
  <2>3. dev' \in Devices
    BY <1>0, <2>1, <2>2, DeviceHelpers DEF Maybe
  <2> QED
    BY <1>0, <1>8, <2>1, <2>2, <2>3 DEF Loc!SourceGone, LocalShape
<1>9. ASSUME NEW k \in ended, Loc!EndedEvent(k) PROVE LocalShape'
  <2>1. k \in Captures /\ k \in Maybe /\ -k[2] \in Int
    BY <1>0 DEF Captures, Maybe
  <2>2. Loc!Op("unshare", "unpublish", k) \in Operation
    BY <2>1, OpShape DEF Kinds, Waits
  <2>3. [Loc!Op("unshare", "unpublish", k) EXCEPT !.id = -k[2]] \in Operation
    BY <2>1, <2>2 DEF Operation
  <2>4. CASE Loc!NotListening(k)
    <3>1. dev' = [dev EXCEPT !.missed = @ \cup {k}]
      BY <1>9, <2>4 DEF Loc!EndedEvent, Loc!Missed
    <3>2. dev' \in Devices
      BY <1>0, <2>1, <3>1 DEF Devices
    <3> QED
      BY <1>0, <1>9, <2>4, <3>2 DEF Loc!EndedEvent, Loc!Missed, LocalShape
  <2>5. CASE ~Loc!NotListening(k)
    BY <1>0, <1>9, <2>1, <2>3, <2>5, ShapeStop DEF Loc!EndedEvent, LocalShape
  <2> QED
    BY <2>4, <2>5
<1>10. CASE UNCHANGED Loc!vars
  BY <1>10 DEF Loc!vars, LocalShape
<1> QED
  BY <1>1, <1>2, <1>3, <1>4, <1>5, <1>6, <1>7, <1>8, <1>9, <1>10

(* The continuations of an operation keep the shape.                       *)
LEMMA ShapeContinues ==
    ASSUME LocalShape, NEW o \in ops, Loc!Continues(o)
    PROVE  LocalShape'
<1>0. /\ mm \in Fields /\ dev \in Devices /\ ended \subseteq Captures /\ ops \subseteq Operation
      /\ call \in Nat /\ spent \in [calls : Nat, asked : Nat, faults : Nat, opened : Nat]
      /\ Loc!None \in Maybe /\ mm.scr \in Maybe /\ mm.mic \in Maybe /\ mm.cam \in Maybe
      /\ mm.q \in Nat /\ mm.local \in SUBSET Captures /\ dev.prov \in Maybe
  BY DEF LocalShape, Fields, Maybe, Devices
<1>o. o \in Operation /\ o.cap \in Maybe /\ o.prev \in Maybe /\ o.rev \in Nat
  BY <1>0 DEF Operation
<1>r. Loc!Replacement(o) \in Captures
  BY <1>o DEF Loc!Replacement, Captures
<1>s. Loc!Stream(o.cap) \in SUBSET Maybe
  BY <1>0, <1>o, StreamShape
<1>d. Loc!Done(o) => ops' \subseteq Operation
  BY <1>0 DEF Loc!Done
<1>t. \A at \in Waits : Loc!To(o, at) => ops' \subseteq Operation
  BY <1>0, <1>o DEF Loc!To, Operation
<1>f. Loc!Fault => spent' \in [calls : Nat, asked : Nat, faults : Nat, opened : Nat]
  BY <1>0 DEF Loc!Fault
<1>n. \A n \in Nat : Loc!Opened(n) => spent' \in [calls : Nat, asked : Nat, faults : Nat, opened : Nat]
  BY <1>0 DEF Loc!Opened
<1>k. \A kind \in {"mic", "cam", "scr", "aud"} : Loc!New(kind) \in Captures /\ Loc!New(kind) \in Maybe
  BY NewShape DEF Maybe
<1>1. CASE Loc!InitOpened(o)
  <2> DEFINE k == Loc!New("mic")
             d == [dev EXCEPT !.live = @ \cup {k}, !.on = @ \cup {k}]
  <2>1. k \in Captures /\ k \in Maybe
    BY <1>k
  <2> HIDE DEF k
  <2>2. d \in Devices
    BY <1>0, <2>1 DEF Devices
  <2> HIDE DEF d
  <2>3. Loc!Publish(d, {k}) \in Devices
    BY <2>1, <2>2, DeviceHelpers
  <2>4. [mm EXCEPT !.mic = k, !.local = @ \cup {k}] \in Fields
    BY <1>0, <2>1 DEF Fields
  <2>5. mm' \in Fields /\ dev' \in Devices
    BY <1>0, <1>1, <2>3, <2>4 DEF Loc!InitOpened, k, d
  <2>6. ops' \subseteq Operation
    BY <1>1, <1>d, <1>t DEF Loc!InitOpened, Waits
  <2> QED
    BY <1>0, <1>1, <1>n, <2>5, <2>6 DEF Loc!InitOpened, LocalShape
<1>2. CASE Loc!InitPublished(o)
  BY <1>0, <1>2, <1>d DEF Loc!InitPublished, LocalShape
<1>3. CASE Loc!InitFails(o)
  BY <1>0, <1>3, <1>d, <1>f, ShapeCleanup DEF Loc!InitFails, LocalShape
<1>4. CASE Loc!VoiceOpened(o)
  <2> DEFINE k == Loc!New("mic")
             d == [dev EXCEPT !.live = @ \cup {k}]
             u == [o EXCEPT !.at = "replace", !.rev = k[2]]
  <2>1. k \in Captures /\ k \in Maybe /\ k[2] \in Nat
    BY <1>k DEF Captures
  <2> HIDE DEF k
  <2>2. d \in Devices
    BY <1>0, <2>1 DEF Devices
  <2>3. u \in Operation
    BY <1>o, <2>1 DEF Operation, Waits
  <2> HIDE DEF d, u
  <2>4. Loc!Enabled(d, k, mm.says.mic) \in Devices
    BY <2>1, <2>2, EnabledHelper
  <2>5. \/ /\ spent' \in [calls : Nat, asked : Nat, faults : Nat, opened : Nat]
           /\ dev' = Loc!Enabled(d, k, mm.says.mic) /\ ops' = (ops \ {o}) \cup {u} /\ mm' = mm
        \/ Loc!VoiceFailed(o, dev) /\ spent' = spent
    BY <1>4, <1>n DEF Loc!VoiceOpened, k, d, u
  <2>6. mm' \in Fields /\ dev' \in Devices /\ ops' \subseteq Operation
    BY <1>0, <2>3, <2>4, <2>5, ShapeFailed
  <2> QED
    BY <1>0, <1>4, <2>5, <2>6 DEF Loc!VoiceOpened, LocalShape
<1>5. CASE Loc!VoiceReplaced(o)
  <2> DEFINE k == Loc!Replacement(o)
             d == Loc!Stop(Loc!Publish(Loc!Unpublish(dev, {o.prev}), {k}), {o.prev})
  <2>1. k \in Captures /\ k \in Maybe /\ o.prev \in Maybe
    BY <1>o, <1>r DEF Maybe
  <2> HIDE DEF k
  <2>2. Loc!Unpublish(dev, {o.prev}) \in Devices
    BY <1>0, <2>1, DeviceHelpers
  <2>3. Loc!Publish(Loc!Unpublish(dev, {o.prev}), {k}) \in Devices
    BY <2>1, <2>2, DeviceHelpers
  <2>4. d \in Devices
    BY <2>1, <2>3, DeviceHelpers
  <2> HIDE DEF d
  <2>5. Loc!Enabled(d, k, mm.says.mic) \in Devices /\ Loc!Stop(dev, {k}) \in Devices
    BY <1>0, <2>1, <2>4, EnabledHelper, DeviceHelpers
  <2>6. [mm EXCEPT !.mic = k, !.local = (@ \ {o.prev}) \cup {k}] \in Fields
    BY <1>0, <2>1 DEF Fields
  <2>7. mm' \in Fields /\ dev' \in Devices
    BY <1>0, <1>5, <2>5, <2>6 DEF Loc!VoiceReplaced, k, d
  <2>8. ops' \subseteq Operation
    BY <1>5, <1>d, ShapeShared DEF Loc!VoiceReplaced
  <2> QED
    BY <1>0, <1>5, <2>7, <2>8 DEF Loc!VoiceReplaced, LocalShape
<1>6. CASE Loc!VoiceFails(o)
  <2>1. Loc!Stop(dev, {Loc!Replacement(o)}) \in Devices
    BY <1>0, <1>r, DeviceHelpers DEF Maybe
  <2>2. mm' \in Fields /\ dev' \in Devices /\ ops' \subseteq Operation
    BY <1>0, <1>6, <2>1, ShapeFailed DEF Loc!VoiceFails
  <2> QED
    BY <1>0, <1>6, <1>f, <2>2 DEF Loc!VoiceFails, LocalShape
<1>7. CASE Loc!CameraOpened(o)
  <2> DEFINE k == Loc!New("cam")
             d == [dev EXCEPT !.live = @ \cup {k}]
             u == [o EXCEPT !.at = "publish", !.cap = k]
  <2>1. k \in Captures /\ k \in Maybe
    BY <1>k
  <2> HIDE DEF k
  <2>2. d \in Devices /\ u \in Operation
    BY <1>0, <1>o, <2>1 DEF Devices, Operation, Waits
  <2> HIDE DEF d, u
  <2>3. Loc!Publish(d, {k}) \in Devices
    BY <2>1, <2>2, DeviceHelpers
  <2>4. [mm EXCEPT !.cam = k, !.local = @ \cup {k}, !.says.cam = TRUE] \in Fields
    BY <1>0, <2>1 DEF Fields, Said
  <2>5. mm' \in Fields /\ dev' \in Devices
    BY <1>0, <1>7, <2>3, <2>4 DEF Loc!CameraOpened, k, d
  <2>6. ops' \subseteq Operation
    BY <1>0, <1>7, <1>d, <2>2 DEF Loc!CameraOpened, u, k
  <2> QED
    BY <1>0, <1>7, <1>n, <2>5, <2>6 DEF Loc!CameraOpened, LocalShape
<1>8. CASE Loc!CameraPublished(o)
  <2>1. dev' \in Devices
    BY <1>0, <1>o, <1>8, DeviceHelpers DEF Loc!CameraPublished
  <2> QED
    BY <1>0, <1>8, <1>d, <2>1 DEF Loc!CameraPublished, LocalShape
<1>9. CASE Loc!CameraUnpublished(o)
  <2>1. dev' \in Devices
    BY <1>0, <1>o, <1>9, DeviceHelpers DEF Loc!CameraUnpublished
  <2>2. mm' \in Fields
    BY <1>0, <1>9 DEF Loc!CameraUnpublished, Fields
  <2> QED
    BY <1>0, <1>9, <1>d, <2>1, <2>2 DEF Loc!CameraUnpublished, LocalShape
<1>10. CASE Loc!CameraFails(o)
  <2>1. dev' \in Devices
    BY <1>0, <1>o, <1>10, DeviceHelpers DEF Loc!CameraFails
  <2>2. \A c \in Maybe : [mm EXCEPT !.local = @ \ {o.cap}, !.says.cam = FALSE, !.cam = c] \in Fields
    BY <1>0 DEF Fields, Said
  <2>3. mm' = mm \/ \E c \in Maybe : mm' = [mm EXCEPT !.local = @ \ {o.cap}, !.says.cam = FALSE, !.cam = c]
    <3>1. (IF mm.cam = o.cap THEN Loc!None ELSE mm.cam) \in Maybe
      BY <1>0
    <3> QED
      BY <1>0, <1>10, <3>1 DEF Loc!CameraFails, Fields
  <2>4. mm' \in Fields
    BY <1>0, <2>2, <2>3
  <2> QED
    BY <1>0, <1>10, <1>d, <1>f, <2>1, <2>4 DEF Loc!CameraFails, LocalShape
<1>11. CASE Loc!ScreenCaptured(o)
  <2> DEFINE k == Loc!New("scr")
             a == IF o.audio = "display" THEN {<<"aud", k[2] + 1>>} ELSE {}
             u == [o EXCEPT !.at = "quality", !.cap = k, !.rev = mm.q]
             v == IF o.audio = "pipewire" THEN dev.prov ELSE k
  <2>1. k \in Captures /\ k \in Maybe /\ k[2] \in Nat
    BY <1>k DEF Captures
  <2>2. a \in SUBSET Captures /\ Cardinality(a) \in Nat
    <3>1. a = {} \/ a = {<<"aud", k[2] + 1>>}
      OBVIOUS
    <3>2. Cardinality(a) \in Nat
      <4>1. Cardinality({}) = 0
        BY FS_EmptySet
      <4>2. Cardinality({<<"aud", k[2] + 1>>}) = 1
        BY FS_Singleton
      <4>3. CASE a = {}
        BY <4>1, <4>3
      <4>4. CASE a = {<<"aud", k[2] + 1>>}
        BY <4>2, <4>4
      <4> QED
        BY <3>1, <4>3, <4>4
    <3>3. <<"aud", k[2] + 1>> \in Captures
      BY <2>1 DEF Captures
    <3> QED
      BY <3>1, <3>2, <3>3
  <2>3. u \in Operation /\ v \in Maybe
    BY <1>0, <1>o, <2>1 DEF Operation, Waits
  <2>9. 1 + Loc!Cardinality(a) \in Nat
    BY <2>2 DEF Loc!Cardinality, Cardinality
  <2>4. /\ dev' = [dev EXCEPT !.live = @ \cup {k} \cup a, !.aud = @ \cup {<<k, t>> : t \in a}, !.prov = v]
        /\ ops' = (ops \ {o}) \cup {u} /\ Loc!Opened(1 + Loc!Cardinality(a))
    BY <1>0, <1>11 DEF Loc!ScreenCaptured, Devices
  <2> HIDE DEF k, a, u, v
  <2>5. {<<k, t>> : t \in a} \subseteq Maybe \X Captures
    BY <2>1, <2>2
  <2>6. dev' \in Devices
    BY <1>0, <2>1, <2>2, <2>3, <2>4, <2>5 DEF Devices
  <2> QED
    BY <1>0, <1>11, <1>n, <2>3, <2>4, <2>6, <2>9 DEF Loc!ScreenCaptured, LocalShape
<1>12. CASE Loc!ScreenRefused(o)
  BY <1>0, <1>12, <1>d DEF Loc!ScreenRefused, LocalShape
<1>a. Loc!Applied(o) \in Devices
  BY <1>0, <1>o DEF Loc!Applied, Devices
<1>e. \A d \in Devices : Loc!Sent(d, o) \in Devices
  BY <1>o DEF Loc!Sent, Devices
<1>g. Loc!AppliedAgain(o) => dev' \in Devices /\ ops' \subseteq Operation /\ mm' \in Fields
  BY <1>0, <1>o, <1>a DEF Loc!AppliedAgain, Operation
<1>13. CASE Loc!ScreenReady(o)
  <2>1. Loc!Publish(Loc!Applied(o), Loc!Stream(o.cap)) \in Devices /\ Loc!Stop(dev, Loc!Stream(o.cap)) \in Devices
    BY <1>0, <1>a, <1>s, DeviceHelpers
  <2>2. [mm EXCEPT !.scr = o.cap, !.says.scr = TRUE, !.says.aud = o.audio = "display"] \in Fields
    BY <1>0, <1>o DEF Fields, Said
  <2>3. mm' \in Fields /\ dev' \in Devices
    BY <1>0, <1>13, <1>e, <1>g, <2>1, <2>2 DEF Loc!ScreenReady
  <2>4. ops' \subseteq Operation
    BY <1>13, <1>d, <1>g, <1>t DEF Loc!ScreenReady, Waits
  <2> QED
    BY <1>0, <1>13, <2>3, <2>4 DEF Loc!ScreenReady, LocalShape
<1>14. CASE Loc!ScreenPublished(o)
  <2>1. Loc!Enabled(dev, mm.mic, mm.says.mic) \in Devices /\ Loc!Stop(dev, Loc!Stream(o.cap)) \in Devices
    BY <1>0, <1>s, DeviceHelpers, EnabledHelper
  <2>2. [o EXCEPT !.at = "repair", !.prev = mm.mic] \in Operation
    BY <1>0, <1>o DEF Operation, Waits
  <2>3. ops' \subseteq Operation /\ dev' \in Devices
    BY <1>0, <1>14, <1>d, <2>1, <2>2 DEF Loc!ScreenPublished
  <2> QED
    BY <1>0, <1>14, <2>3 DEF Loc!ScreenPublished, LocalShape
<1>15. CASE Loc!MicrophoneUsable(o)
  <2>1. Loc!Publish(dev, {mm.mic}) \in Devices
    BY <1>0, DeviceHelpers
  <2>2. ops' \subseteq Operation /\ dev' \in Devices
    BY <1>0, <1>15, <1>t, <2>1, ShapeShared DEF Loc!MicrophoneUsable, Waits
  <2> QED
    BY <1>0, <1>15, <2>2 DEF Loc!MicrophoneUsable, LocalShape
<1>16. CASE Loc!MicrophoneSuspended(o)
  <2>1. ops' \subseteq Operation
    BY <1>16, <1>t DEF Loc!MicrophoneSuspended, Waits
  <2> QED
    BY <1>0, <1>16, <1>f, <2>1 DEF Loc!MicrophoneSuspended, LocalShape
<1>17. CASE Loc!MicrophoneRepublished(o)
  BY <1>0, <1>17, ShapeShared DEF Loc!MicrophoneRepublished, LocalShape
<1>18. CASE Loc!ScreenFails(o)
  BY <1>0, <1>18, <1>f, ShapeFailed DEF Loc!ScreenFails, LocalShape
<1>19. CASE Loc!ScreenUnpublished(o)
  <2>1. Loc!Stream(o.cap) \cup {dev.prov} \in SUBSET Maybe
    BY <1>0, <1>s
  <2>2. Loc!Stop(dev, Loc!Stream(o.cap) \cup {dev.prov}) \in Devices
    BY <1>0, <2>1, DeviceHelpers
  <2>3. dev' \in Devices
    BY <1>0, <1>19, <2>2 DEF Loc!ScreenUnpublished, Devices
  <2> QED
    BY <1>0, <1>19, <1>d, <2>3 DEF Loc!ScreenUnpublished, LocalShape
<1>20. CASE Loc!AudioPrepared(o)
  <2>1. ops' \subseteq Operation
    BY <1>20, <1>d, <1>t DEF Loc!AudioPrepared, Waits
  <2> QED
    BY <1>0, <1>20, <2>1 DEF Loc!AudioPrepared, LocalShape
<1>21. CASE Loc!AudioOpened(o)
  <2>1. PICK t \in Loc!PipeWireTrack :
          IF Loc!StillShares(o) /\ t # Loc!None
          THEN /\ Loc!Opened(1)
               /\ mm' = [mm EXCEPT !.says.aud = TRUE]
               /\ dev' = Loc!Publish([dev EXCEPT !.live = @ \cup {t}, !.aud = @ \cup {<<o.cap, t>>}], {t})
               /\ ops' = (ops \ {o}) \cup {[o EXCEPT !.at = "publish", !.prev = t]}
          ELSE Loc!Done(o) /\ UNCHANGED <<spent, mm, dev>>
    BY <1>21 DEF Loc!AudioOpened
  <2>2. CASE Loc!StillShares(o) /\ t # Loc!None
    <3> DEFINE d == [dev EXCEPT !.live = @ \cup {t}, !.aud = @ \cup {<<o.cap, t>>}]
               u == [o EXCEPT !.at = "publish", !.prev = t]
    <3>1. t \in Captures /\ t \in Maybe
      BY <1>k, <2>2 DEF Loc!PipeWireTrack
    <3>3. <<o.cap, t>> \in Maybe \X Captures
      BY <1>o, <3>1
    <3>4. d \in Devices
      BY <1>0, <3>1, <3>3 DEF Devices
    <3>8. u \in Operation
      BY <1>o, <3>1 DEF Operation, Waits
    <3> HIDE DEF d, u
    <3>5. Loc!Publish(d, {t}) \in Devices
      BY <3>1, <3>4, DeviceHelpers
    <3>6. [mm EXCEPT !.says.aud = TRUE] \in Fields
      BY <1>0 DEF Fields, Said
    <3>7. dev' \in Devices /\ mm' \in Fields /\ ops' \subseteq Operation /\ Loc!Opened(1)
      BY <1>0, <2>1, <2>2, <3>8, <3>5, <3>6 DEF d, u
    <3> QED
      BY <1>0, <1>21, <1>n, <3>7 DEF Loc!AudioOpened, LocalShape
  <2>3. CASE ~(Loc!StillShares(o) /\ t # Loc!None)
    BY <1>0, <1>21, <1>d, <2>1, <2>3 DEF Loc!AudioOpened, LocalShape
  <2> QED
    BY <2>2, <2>3
<1>22. CASE Loc!AudioPublished(o)
  <2>1. dev' \in Devices
    BY <1>0, <1>22, DeviceHelpers DEF Loc!AudioPublished
  <2> QED
    BY <1>0, <1>22, <1>d, <2>1 DEF Loc!AudioPublished, LocalShape
<1>23. CASE Loc!AudioFails(o)
  <2>1. Loc!Stop(dev, {o.prev}) \in Devices
    BY <1>0, <1>o, DeviceHelpers
  <2>2. dev' \in Devices
    BY <1>0, <1>23, <2>1 DEF Loc!AudioFails, Devices
  <2>3. mm' \in Fields
    BY <1>0, <1>23 DEF Loc!AudioFails, Fields, Said
  <2> QED
    BY <1>0, <1>23, <1>d, <1>f, <2>2, <2>3 DEF Loc!AudioFails, LocalShape
<1>24. CASE Loc!QualityApplied(o)
  <2>1. dev' \in Devices /\ mm' \in Fields /\ ops' \subseteq Operation
    BY <1>0, <1>24, <1>a, <1>d, <1>e, <1>g DEF Loc!QualityApplied
  <2> QED
    BY <1>0, <1>24, <2>1 DEF Loc!QualityApplied, LocalShape
<1> QED
  BY <1>1, <1>2, <1>3, <1>4, <1>5, <1>6, <1>7, <1>8, <1>9, <1>10, <1>11, <1>12, <1>13, <1>14,
     <1>15, <1>16, <1>17, <1>18, <1>19, <1>20, <1>21, <1>22, <1>23, <1>24 DEF Loc!Continues

(* What every track that is captured belongs to: the local stream, the     *)
(* share on the screen, or an operation that stops it when it continues.   *)
TracksOf(aud, k) == {k} \cup {p[2] : p \in {x \in aud : x[1] = k}}

Held(aud, o) ==
    IF o.kind \in {"voice", "share"} /\ o.at = "replace" THEN {Loc!Replacement(o)}
    ELSE IF (o.kind = "share" /\ o.at = "quality") \/ o.kind = "unshare" THEN TracksOf(aud, o.cap)
    ELSE {}

Mine(x) ==
    \/ x \in mm.local
    \/ x \in TracksOf(dev.aud, mm.scr)
    \/ \E q \in ops : x \in Held(dev.aud, q)

Owned == \A x \in dev.live : Mine(x)

LEMMA StreamTracks ==
    ASSUME NEW k
    PROVE  Loc!Stream(k) = TracksOf(dev.aud, k)
BY DEF Loc!Stream, TracksOf

(* A step keeps every track owned when it stops what the operation o and   *)
(* the manager let go of.                                                  *)
LEMMA StaysOwned ==
    ASSUME Owned, NEW o, ops \ {o} \subseteq ops',
           \A p \in dev.aud : p \in dev'.aud \/ p[2] \notin dev'.live,
           \A x \in dev'.live : x \in dev.live \/ Mine(x)',
           \A x \in mm.local : x \notin dev'.live \/ Mine(x)',
           \A x \in TracksOf(dev'.aud, mm.scr) : x \notin dev'.live \/ Mine(x)',
           o \in ops => \A x \in Held(dev'.aud, o) : x \notin dev'.live \/ Mine(x)'
    PROVE  Owned'
<1> SUFFICES ASSUME NEW x \in dev'.live PROVE Mine(x)'
  BY DEF Owned
<1>1. CASE Mine(x)'
  BY <1>1
<1>2. CASE ~Mine(x)'
  <2>1. x \in dev.live
    BY <1>2
  <2>2. ASSUME NEW k, x \in TracksOf(dev.aud, k) PROVE x \in TracksOf(dev'.aud, k)
    BY <2>2 DEF TracksOf
  <2>3. CASE x \in mm.local
    BY <2>3
  <2>4. CASE x \in TracksOf(dev.aud, mm.scr)
    BY <2>2, <2>4
  <2>5. ASSUME NEW q \in ops, x \in Held(dev.aud, q) PROVE Mine(x)'
    <3>1. x \in Held(dev'.aud, q)
      BY <2>2, <2>5 DEF Held
    <3>2. CASE q = o
      BY <3>1, <3>2
    <3>3. CASE q # o
      <4>1. q \in ops'
        BY <3>3
      <4> QED
        BY <3>1, <4>1 DEF Mine
    <3> QED
      BY <3>2, <3>3
  <2> QED
    BY <2>1, <2>3, <2>4, <2>5 DEF Owned, Mine
<1> QED
  BY <1>1, <1>2

(* Where captures and operations stand.                                    *)
Placed ==
    /\ call = 0 => mm.local = {} /\ mm.scr = Loc!None
    /\ \A x \in dev.aud : x[1] # Loc!None
    /\ \A o \in ops : o.call # 0
    /\ \A o \in ops : o.kind = "attach" \/ (o.kind = "share" /\ o.at # "capture") => o.cap # Loc!None
    /\ \A o \in ops : o.kind = "share" /\ o.at \in {"capture", "quality"} => mm.scr = Loc!None
    /\ \A o, u \in ops : o.kind = "share" /\ u.kind = "share" => o = u

(* A capture whose end is announced is silent, and numbers are not reused. *)
Numbered ==
    /\ dev.live \cap ended = {}
    /\ \A k \in dev.live \cup ended : k[2] <= spent.opened

(* What a step adds to the operations.                                     *)
Proper(u, scr) ==
    /\ u.call # 0
    /\ u.kind = "attach" \/ (u.kind = "share" /\ u.at # "capture") => u.cap # Loc!None
    /\ u.kind = "share" /\ u.at \in {"capture", "quality"} => scr = Loc!None

LEMMA StaysPlaced ==
    ASSUME Placed, NEW o, NEW u,
           ops' \subseteq (ops \ {o}) \cup {u},
           u \in ops' => Proper(u, mm'.scr),
           u \in ops' /\ u.kind = "share" => (o \in ops /\ o.kind = "share") \/ (\A q \in ops : q.kind # "share"),
           call' = 0 => mm'.local = {} /\ mm'.scr = Loc!None,
           \A x \in dev'.aud : x \in dev.aud \/ x[1] # Loc!None,
           \/ mm'.scr \in {mm.scr, Loc!None}
           \/ o \in ops /\ o.kind = "share"
    PROVE  Placed'
<1>1. \A q \in ops' : (q \in ops /\ q # o) \/ q = u
  OBVIOUS
<1>2. \A x \in dev'.aud : x[1] # Loc!None
  BY DEF Placed
<1>3. \A q \in ops' : q.call # 0
  BY <1>1 DEF Placed, Proper
<1>4. \A q \in ops' : q.kind = "attach" \/ (q.kind = "share" /\ q.at # "capture") => q.cap # Loc!None
  BY <1>1 DEF Placed, Proper
<1>5. ASSUME NEW q \in ops', q.kind = "share", q.at \in {"capture", "quality"} PROVE mm'.scr = Loc!None
  <2>1. CASE q = u
    BY <1>5, <2>1 DEF Proper
  <2>2. CASE q \in ops /\ q # o
    <3>1. mm.scr = Loc!None /\ ~(o \in ops /\ o.kind = "share")
      BY <1>5, <2>2 DEF Placed
    <3> QED
      BY <3>1
  <2> QED
    BY <1>1, <2>1, <2>2
<1>6. ASSUME NEW q \in ops', NEW r \in ops', q.kind = "share", r.kind = "share" PROVE q = r
  BY <1>1, <1>6 DEF Placed
<1> QED
  BY <1>2, <1>3, <1>4, <1>5, <1>6 DEF Placed

LocalInv == LocalShape /\ Owned /\ Placed /\ Numbered

LEMMA StaysNumbered ==
    ASSUME LocalShape, LocalShape', Numbered, spent'.opened >= spent.opened,
           \A x \in dev'.live : x \in dev.live \/ (x[2] > spent.opened /\ x[2] <= spent'.opened),
           ended' \subseteq ended \cup (dev.live \ dev'.live)
    PROVE  Numbered'
<1>1. /\ spent.opened \in Nat /\ spent'.opened \in Nat
      /\ \A x \in dev.live \cup ended \cup dev'.live : x[2] \in Nat
  BY DEF LocalShape, Devices, Captures
<1>2. \A x \in dev'.live \cup ended' : x[2] <= spent'.opened
  <2> SUFFICES ASSUME NEW x \in dev'.live \cup ended' PROVE x[2] <= spent'.opened
    OBVIOUS
  <2>1. x \in dev.live \cup ended => x[2] <= spent.opened
    BY DEF Numbered
  <2> QED
    BY <1>1, <2>1
<1>3. ASSUME NEW x \in dev'.live, x \in ended' PROVE FALSE
  <2>1. x \in ended
    BY <1>3
  <2>2. x \notin dev.live /\ x[2] <= spent.opened
    BY <2>1 DEF Numbered
  <2> QED
    BY <1>1, <1>3, <2>1, <2>2
<1> QED
  BY <1>2, <1>3 DEF Numbered

(* The end of the call stops everything but what operations hold.          *)
LEMMA CleanupKeeps ==
    ASSUME LocalInv, Loc!Cleanup, NEW o, ops' = ops \ {o}, o \in ops => o.kind = "init"
    PROVE  Owned' /\ Placed' /\ dev'.live \subseteq dev.live
<1> DEFINE T == mm.local \cup {mm.mic, dev.prov} \cup Loc!Stream(mm.scr)
<1>1. mm.scr \in Maybe /\ mm.mic \in Maybe /\ dev.prov \in Maybe /\ mm.local \in SUBSET Maybe
  BY DEF LocalInv, LocalShape, Fields, Devices, Maybe
<1>2. T \in SUBSET Maybe
  BY <1>1, StreamShape DEF LocalInv, LocalShape
<1>3. mm.local \subseteq T /\ TracksOf(dev.aud, mm.scr) \subseteq T
  BY StreamTracks
<1> HIDE DEF T
<1>4. Loc!Stop(dev, T) \in Devices /\ Loc!Stop(dev, T).live = dev.live \ T /\ Loc!Stop(dev, T).aud = dev.aud
  BY <1>2, DeviceHelpers DEF LocalInv, LocalShape
<1>5. dev' = [Loc!Stop(dev, T) EXCEPT !.pub = {}, !.prov = Loc!None] /\ mm' = Loc!Fresh(mm.q) /\ call' = 0
  BY DEF Loc!Cleanup, T
<1>6. dev'.live = dev.live \ T /\ dev'.aud = dev.aud
  BY <1>4, <1>5 DEF Devices
<1>7. mm'.local = {} /\ mm'.scr = Loc!None
  BY <1>5, FreshShape DEF LocalInv
<1>8. Owned'
  <2>1. o \in ops => Held(dev'.aud, o) = {}
    BY DEF Held
  <2> QED
    BY <1>3, <1>6, <2>1, StaysOwned DEF LocalInv
<1>9. Placed'
  <2>1. ops' \subseteq (ops \ {o}) \cup {o} /\ o \notin ops'
    OBVIOUS
  <2> QED
    BY <1>6, <1>7, <2>1, StaysPlaced DEF LocalInv
<1> QED
  BY <1>6, <1>8, <1>9

(* The share that stops is held by the operation that stops its tracks.    *)
LEMMA StopKeeps ==
    ASSUME LocalInv, NEW o \in Operation, NEW d \in Devices,
           mm.scr # Loc!None, Loc!StopsScreen(o, mm.scr, d), call' = call,
           d.live \subseteq dev.live, d.aud = dev.aud,
           o \in ops => \A x \in Held(dev.aud, o) : x \notin d.live \/ x \in TracksOf(dev.aud, mm.scr)
    PROVE  Owned' /\ Placed' /\ dev'.live = d.live
<1> DEFINE u == [o EXCEPT !.kind = "unshare", !.at = "unpublish", !.cap = mm.scr, !.call = call]
<1>1. u.kind = "unshare" /\ u.cap = mm.scr /\ u.call = call
  BY DEF Operation
<1>2. ops' = (ops \ {o}) \cup {u}
  BY DEF Loc!StopsScreen
<1> HIDE DEF u
<1>3. mm.scr \in Maybe /\ Loc!Stream(mm.scr) \in SUBSET Maybe
  BY StreamShape DEF LocalInv, LocalShape, Fields
<1>4. dev'.live = d.live /\ dev'.aud = d.aud
  BY <1>3, DeviceHelpers DEF Loc!StopsScreen
<1>5. mm'.local = mm.local /\ mm'.scr = Loc!None
  BY DEF Loc!StopsScreen, LocalInv, LocalShape, Fields
<1>6. Owned'
  <2>1. \A x \in TracksOf(dev'.aud, mm.scr) : Mine(x)'
    <3>1. Held(dev'.aud, u) = TracksOf(dev'.aud, mm.scr)
      BY <1>1 DEF Held
    <3> QED
      BY <1>2, <3>1 DEF Mine
  <2>2. \A x \in mm.local : Mine(x)'
    BY <1>5 DEF Mine
  <2> QED
    BY <1>2, <1>4, <2>1, <2>2, StaysOwned DEF LocalInv
<1>7. Placed'
  <2>1. call # 0
    BY DEF LocalInv, Placed
  <2>2. Proper(u, mm'.scr)
    BY <1>1, <2>1 DEF Proper
  <2>3. u.kind # "share"
    BY <1>1
  <2>4. ops' \subseteq (ops \ {o}) \cup {u}
    BY <1>2
  <2>7. \A x \in dev'.aud : x \in dev.aud \/ x[1] # Loc!None
    BY <1>4
  <2>8. mm'.scr \in {mm.scr, Loc!None}
    BY <1>5
  <2>9. (call' = 0 => mm'.local = {} /\ mm'.scr = Loc!None) /\ Placed
    BY <2>1 DEF LocalInv
  <2> QED
    BY <2>2, <2>3, <2>4, <2>7, <2>8, <2>9, StaysPlaced
<1> QED
  BY <1>4, <1>6, <1>7

(* A request only adds its operation.                                      *)
LEMMA RequestKeeps ==
    ASSUME LocalInv, NEW u, ops' = ops \cup {u}, call' = call,
           mm'.local = mm.local, mm'.scr = mm.scr, dev'.aud = dev.aud, dev'.live \subseteq dev.live,
           Proper(u, mm'.scr), u.kind = "share" => \A q \in ops : q.kind # "share"
    PROVE  Owned' /\ Placed'
<1> DEFINE o == [kind |-> "none"]
<1>1. o.kind = "none"
  OBVIOUS
<1> HIDE DEF o
<1>2. Owned'
  <2>1. Held(dev.aud, o) = {}
    BY <1>1 DEF Held
  <2>2. \A x : x \in mm.local \/ x \in TracksOf(dev'.aud, mm.scr) => Mine(x)'
    BY DEF Mine
  <2> QED
    BY <2>1, <2>2, StaysOwned DEF LocalInv
<1>3. Placed'
  <2>0. ops' \subseteq (ops \ {u}) \cup {u}
    OBVIOUS
  <2>2. call' = 0 => mm'.local = {} /\ mm'.scr = Loc!None
    BY DEF LocalInv, Placed
  <2>4. (\A x \in dev'.aud : x \in dev.aud \/ x[1] # Loc!None) /\ mm'.scr \in {mm.scr, Loc!None} /\ Placed
    BY DEF LocalInv
  <2> QED
    BY <2>0, <2>2, <2>4, StaysPlaced
<1> QED
  BY <1>2, <1>3

(* A step that touches no operation.                                       *)
LEMMA NoOperation ==
    ASSUME LocalInv, ops' = ops, call' = call,
           mm'.local = mm.local, mm'.scr = mm.scr, dev'.aud = dev.aud, dev'.live \subseteq dev.live
    PROVE  Owned' /\ Placed'
BY DEF LocalInv, Owned, Mine, Placed

(* The user, the beginning and the end of the call and the source of a     *)
(* share keep every capture owned, if requests of a kind wait for another. *)
LEMMA UserKeeps ==
    ASSUME Serial, LocalInv, LocalShape',
           \/ Loc!StartCall \/ Loc!EndCall \/ Loc!ToggleMicrophone \/ Loc!UpdateVoiceInput
           \/ Loc!ToggleCamera \/ Loc!ToggleScreen \/ Loc!UpdateScreenQuality \/ Loc!SourceGone
           \/ \E k \in ended : Loc!EndedEvent(k)
           \/ UNCHANGED Loc!vars
    PROVE  LocalInv'
<1>0. /\ mm \in Fields /\ dev \in Devices /\ ended \subseteq Captures /\ ops \subseteq Operation
      /\ call \in Nat /\ spent \in [calls : Nat, asked : Nat, faults : Nat, opened : Nat]
      /\ mm.scr \in Maybe /\ mm.mic \in Maybe /\ mm.cam \in Maybe /\ LocalShape
      /\ Owned /\ Placed /\ Numbered
  BY DEF LocalInv, LocalShape, Fields
<1>q. ASSUME spent'.opened = spent.opened, dev'.live \subseteq dev.live,
             ended' \subseteq ended \cup (dev.live \ dev'.live)
      PROVE  Numbered'
  BY <1>0, <1>q, StaysNumbered DEF LocalShape
<1>a. ASSUME Loc!Asked PROVE spent'.opened = spent.opened
  BY <1>0, <1>a DEF Loc!Asked
<1>u. \A kind \in Kinds, at \in Waits, cap \in Maybe :
         /\ Loc!Op(kind, at, cap) \in Operation /\ Loc!Op(kind, at, cap).kind = kind
         /\ Loc!Op(kind, at, cap).at = at /\ Loc!Op(kind, at, cap).call = call
         /\ Loc!Op(kind, at, cap).cap = cap
  BY <1>0, OpShape DEF Loc!Op
<1>1. CASE Loc!StartCall
  <2> DEFINE u == [Loc!Op("init", "open", Loc!None) EXCEPT !.id = 0, !.call = spent.calls + 1]
  <2>1. u.kind = "init" /\ u.call = spent.calls + 1
    BY <1>u DEF Operation, Kinds, Waits, Maybe
  <2>2. ops' = ops \cup {u} /\ mm' = Loc!Fresh(mm.q) /\ dev' = [dev EXCEPT !.pub = {}]
    BY <1>1 DEF Loc!StartCall
  <2> HIDE DEF u
  <2>3. /\ call = 0 /\ call' = spent.calls + 1 /\ spent' = [spent EXCEPT !.calls = @ + 1] /\ ended' = ended
    BY <1>1 DEF Loc!StartCall
  <2>4. call' # 0 /\ spent'.opened = spent.opened
    BY <1>0, <2>3
  <2>5. mm'.local = mm.local /\ mm'.scr = mm.scr
    BY <1>0, <2>2, <2>3, FreshShape DEF Placed
  <2>6. dev'.live = dev.live /\ dev'.aud = dev.aud
    BY <1>0, <2>2 DEF Devices
  <2>7. Owned'
    BY <1>0, <2>2, <2>5, <2>6 DEF Owned, Mine
  <2>8. Placed'
    <3>1. Proper(u, mm'.scr)
      BY <2>1, <2>3, <2>4 DEF Proper
    <3>2. ops' \subseteq (ops \ {u}) \cup {u}
      BY <2>2
    <3> QED
      BY <1>0, <2>1, <2>4, <2>5, <2>6, <3>1, <3>2, StaysPlaced
  <2> QED
    BY <1>q, <2>3, <2>4, <2>6, <2>7, <2>8 DEF LocalInv
<1>2. CASE Loc!EndCall
  <2> DEFINE o == [kind |-> "init"]
  <2>0. o.kind = "init"
    OBVIOUS
  <2> HIDE DEF o
  <2> DEFINE T == mm.local \cup {mm.mic, dev.prov} \cup Loc!Stream(mm.scr)
  <2>1. Loc!Cleanup /\ ops' = ops /\ spent' = spent /\ ended' = ended
    BY <1>2 DEF Loc!EndCall
  <2>2. o \notin ops
    <3> SUFFICES ASSUME o \in ops PROVE FALSE
      OBVIOUS
    <3>1. DOMAIN o = {"id", "kind", "call", "at", "cap", "prev", "rev", "audio"}
      BY <1>0 DEF Operation
    <3>2. DOMAIN o = {"kind"}
      BY DEF o
    <3> QED
      BY <3>1, <3>2
  <2>3. Owned' /\ Placed' /\ dev'.live \subseteq dev.live
    BY <2>0, <2>1, <2>2, CleanupKeeps
  <2> QED
    BY <1>q, <2>1, <2>3 DEF LocalInv
<1>3. CASE Loc!ToggleMicrophone
  <2>1. dev'.live = dev.live /\ dev'.aud = dev.aud
    BY <1>0, <1>3, EnabledHelper DEF Loc!ToggleMicrophone
  <2>2. mm'.local = mm.local /\ mm'.scr = mm.scr /\ Loc!Asked /\ ops' = ops /\ call' = call /\ ended' = ended
    BY <1>0, <1>3 DEF Loc!ToggleMicrophone, Fields
  <2> QED
    BY <1>a, <1>q, <2>1, <2>2, NoOperation DEF LocalInv
<1>4. CASE Loc!UpdateVoiceInput
  <2> DEFINE u == [Loc!Op("voice", "open", Loc!None) EXCEPT !.prev = mm.mic]
  <2>1. u.kind = "voice" /\ u.call = call
    BY <1>u DEF Operation, Kinds, Waits, Maybe
  <2>2. ops' = ops \cup {u} /\ call' = call /\ mm' = mm /\ dev' = dev /\ ended' = ended /\ Loc!Asked /\ call # 0
    BY <1>4 DEF Loc!UpdateVoiceInput, Loc!Begin, Loc!Asks
  <2> HIDE DEF u
  <2>3. Proper(u, mm'.scr)
    BY <2>1, <2>2 DEF Proper
  <2> QED
    BY <1>a, <1>q, <2>1, <2>2, <2>3, RequestKeeps DEF LocalInv
<1>5. CASE Loc!ToggleCamera
  <2>1. PICK u \in Operation : ops' = ops \cup {u} /\ u.kind \in {"camoff", "camon"} /\ u.call = call
    <3>1. \/ ops' = ops \cup {Loc!Op("camoff", "unpublish", mm.cam)}
          \/ ops' = ops \cup {Loc!Op("camon", "open", Loc!None)}
      BY <1>5 DEF Loc!ToggleCamera, Loc!Begin
    <3>2. /\ "camoff" \in Kinds /\ "camon" \in Kinds /\ "unpublish" \in Waits /\ "open" \in Waits
          /\ mm.cam \in Maybe /\ Loc!None \in Maybe
      BY <1>0 DEF Kinds, Waits, Maybe
    <3> QED
      BY <1>u, <3>1, <3>2
  <2>2. mm'.local = mm.local /\ mm'.scr = mm.scr
    BY <1>0, <1>5 DEF Loc!ToggleCamera, Fields
  <2>3. dev'.live = dev.live /\ dev'.aud = dev.aud
    BY <1>0, <1>5, DeviceHelpers DEF Loc!ToggleCamera
  <2>4. call' = call /\ call # 0 /\ ended' = ended /\ Loc!Asked
    BY <1>5 DEF Loc!ToggleCamera, Loc!Asks
  <2>5. Proper(u, mm'.scr)
    BY <2>1, <2>4 DEF Proper
  <2> QED
    BY <1>a, <1>q, <2>1, <2>2, <2>3, <2>4, <2>5, RequestKeeps DEF LocalInv
<1>6. CASE Loc!ToggleScreen
  <2>0. /\ call' = call /\ call # 0 /\ ended' = ended /\ Loc!Asked
        /\ \A q \in ops : q.kind # "share"
    BY <1>6 DEF Loc!ToggleScreen, Loc!Asks, Loc!Screen, Loc!Voice
  <2>1. CASE mm.scr # Loc!None
    <3> DEFINE o == Loc!Op("unshare", "unpublish", mm.scr)
    <3>1. o \in Operation /\ o.kind = "unshare" /\ o.cap = mm.scr
      BY <1>0, <1>u DEF Kinds, Waits
    <3>2. Loc!StopsScreen(o, mm.scr, dev)
      BY <1>6, <2>1 DEF Loc!ToggleScreen
    <3> HIDE DEF o
    <3>3. o \in ops => Held(dev.aud, o) = TracksOf(dev.aud, mm.scr)
      BY <3>1 DEF Held
    <3>4. Owned' /\ Placed' /\ dev'.live = dev.live
      BY <1>0, <2>0, <2>1, <3>1, <3>2, <3>3, StopKeeps
    <3> QED
      BY <1>a, <1>q, <2>0, <3>4 DEF LocalInv
  <2>2. CASE mm.scr = Loc!None
    <3>1. PICK audio \in {"none", "display", "pipewire"} :
            ops' = ops \cup {[Loc!Op("share", "capture", Loc!None) EXCEPT !.audio = audio]}
      BY <1>6, <2>2 DEF Loc!ToggleScreen, Loc!Begin
    <3> DEFINE u == [Loc!Op("share", "capture", Loc!None) EXCEPT !.audio = audio]
    <3>2. u.kind = "share" /\ u.at = "capture" /\ u.call = call
      BY <1>u DEF Operation, Kinds, Waits, Maybe
    <3>3. ops' = ops \cup {u}
      BY <3>1
    <3> HIDE DEF u
    <3>4. mm'.local = mm.local /\ mm'.scr = mm.scr /\ dev' = dev
      BY <1>0, <1>6, <2>2 DEF Loc!ToggleScreen, Fields
    <3>5. Proper(u, mm'.scr)
      BY <2>0, <2>2, <3>2, <3>4 DEF Proper
    <3> QED
      BY <1>a, <1>q, <2>0, <3>2, <3>3, <3>4, <3>5, RequestKeeps DEF LocalInv
  <2> QED
    BY <2>1, <2>2
<1>7. CASE Loc!UpdateScreenQuality
  <2>1. mm'.local = mm.local /\ mm'.scr = mm.scr /\ dev' = dev /\ call' = call /\ call # 0 /\ ended' = ended /\ Loc!Asked
    BY <1>0, <1>7 DEF Loc!UpdateScreenQuality, Loc!Asks, Fields
  <2>2. CASE ops' = ops
    BY <1>a, <1>q, <2>1, <2>2, NoOperation DEF LocalInv
  <2>3. CASE ops' # ops
    <3> DEFINE u == [Loc!Op("quality", "apply", mm.scr) EXCEPT !.rev = mm.q + 1]
    <3>1. u.kind = "quality" /\ u.call = call
      BY <1>0, <1>u DEF Operation, Kinds, Waits
    <3>2. ops' = ops \cup {u}
      BY <1>7, <2>3 DEF Loc!UpdateScreenQuality, Loc!Begin
    <3> HIDE DEF u
    <3>3. Proper(u, mm'.scr)
      BY <2>1, <3>1 DEF Proper
    <3> QED
      BY <1>a, <1>q, <2>1, <3>1, <3>2, <3>3, RequestKeeps DEF LocalInv
  <2> QED
    BY <2>2, <2>3
<1>8. CASE Loc!SourceGone
  <2>1. PICK k \in dev.live : /\ dev' = Loc!Stop(dev, {k}) /\ ended' = ended \cup {k}
                              /\ spent' = [spent EXCEPT !.faults = @ + 1]
    BY <1>8 DEF Loc!SourceGone
  <2>2. {k} \in SUBSET Maybe
    BY <1>0 DEF Devices, Maybe
  <2>3. dev'.live = dev.live \ {k} /\ dev'.aud = dev.aud
    BY <1>0, <2>1, <2>2, DeviceHelpers
  <2>4. spent'.opened = spent.opened /\ call' = call /\ mm' = mm /\ ops' = ops
    BY <1>0, <1>8, <2>1 DEF Loc!SourceGone
  <2> QED
    BY <1>q, <2>1, <2>3, <2>4, NoOperation DEF LocalInv
<1>9. ASSUME NEW k \in ended, Loc!EndedEvent(k) PROVE LocalInv'
  <2>0. ended' \subseteq ended /\ call' = call /\ spent' = spent
    BY <1>9 DEF Loc!EndedEvent, Loc!Missed
  <2>1. CASE mm.scr # k \/ Loc!NotListening(k)
    <3>1. mm' = mm /\ ops' = ops /\ dev'.live = dev.live /\ dev'.aud = dev.aud
      BY <1>0, <1>9, <2>1 DEF Loc!EndedEvent, Loc!Missed, Devices
    <3> QED
      BY <1>q, <2>0, <3>1, NoOperation DEF LocalInv
  <2>2. CASE mm.scr = k /\ ~Loc!NotListening(k)
    <3> DEFINE o == [Loc!Op("unshare", "unpublish", k) EXCEPT !.id = -k[2]]
    <3>1. k \in Captures /\ k \in Maybe /\ -k[2] \in Int /\ k # Loc!None
      BY <1>0 DEF Captures, Maybe, Loc!None
    <3>2. o \in Operation /\ o.kind = "unshare" /\ o.cap = mm.scr
      BY <1>u, <2>2, <3>1 DEF Operation, Kinds, Waits
    <3>3. Loc!StopsScreen(o, mm.scr, dev)
      BY <1>9, <2>2 DEF Loc!EndedEvent
    <3> HIDE DEF o
    <3>6. o \in ops => Held(dev.aud, o) = TracksOf(dev.aud, mm.scr)
      BY <3>2 DEF Held
    <3>4. Owned' /\ Placed' /\ dev'.live = dev.live
      BY <1>0, <2>0, <2>2, <3>1, <3>2, <3>3, <3>6, StopKeeps
    <3> QED
      BY <1>q, <2>0, <3>4 DEF LocalInv
  <2> QED
    BY <2>1, <2>2
<1>10. CASE UNCHANGED Loc!vars
  BY <1>0, <1>10 DEF Loc!vars, LocalInv, LocalShape, Owned, Mine, Placed, Numbered
<1> QED
  BY <1>1, <1>2, <1>3, <1>4, <1>5, <1>6, <1>7, <1>8, <1>9, <1>10

(* An operation ends, or goes on as u.                                     *)
GoesOn(o, u) ==
    /\ ops' \subseteq (ops \ {o}) \cup {u}
    /\ ops \ {o} \subseteq ops'
    /\ u \in ops' => Proper(u, mm.scr)
    /\ u \in ops' /\ u.kind = "share" => o.kind = "share"

LEMMA DoneGoes ==
    ASSUME NEW o \in ops, Loc!Done(o)
    PROVE  GoesOn(o, o) /\ o \notin ops'
BY DEF Loc!Done, GoesOn

LEMMA ToGoes ==
    ASSUME LocalInv, NEW o \in ops, NEW u \in Operation, ops' = (ops \ {o}) \cup {u},
           u.kind = o.kind, u.call = o.call,
           o.kind = "attach" => u.cap = o.cap,
           o.kind = "share" => u.at \notin {"capture", "quality"} /\ o.at # "capture" /\ u.cap = o.cap
    PROVE  GoesOn(o, u)
<1>1. o.call # 0
  BY DEF LocalInv, Placed
<1>2. o.kind = "attach" \/ o.kind = "share" => u.cap # Loc!None
  BY DEF LocalInv, Placed
<1>3. Proper(u, mm.scr)
  BY <1>1, <1>2 DEF Proper
<1> QED
  BY <1>3 DEF GoesOn

LEMMA SharedGoes ==
    ASSUME LocalInv, NEW o \in ops, o.kind = "share", o.at # "capture", Loc!Shared(o)
    PROVE  \E u : GoesOn(o, u)
<1>1. CASE Loc!Done(o)
  BY <1>1, DoneGoes
<1>2. CASE ~Loc!Done(o)
  <2> DEFINE u == [o EXCEPT !.kind = "attach", !.at = "prepare", !.prev = Loc!None]
  <2>1. u.kind = "attach" /\ u.call = o.call /\ u.cap = o.cap
    BY DEF LocalInv, LocalShape, Operation
  <2>2. ops' = (ops \ {o}) \cup {u}
    BY <1>2 DEF Loc!Shared
  <2> HIDE DEF u
  <2>3. Proper(u, mm.scr)
    BY <2>1 DEF Proper, LocalInv, Placed
  <2>4. GoesOn(o, u)
    BY <2>1, <2>2, <2>3 DEF GoesOn
  <2> QED
    BY <2>4
<1> QED
  BY <1>1, <1>2

(* The continuation of an operation that leaves the screen as it is.       *)
LEMMA StepKeeps ==
    ASSUME LocalInv, NEW o \in ops, NEW u, GoesOn(o, u), call' = call, mm'.scr = mm.scr,
           call = 0 => mm'.local = {},
           \A x \in dev'.live : x \in dev.live \/ Mine(x)',
           \A x \in mm.local : x \in mm'.local \/ x \notin dev'.live,
           \A p \in dev.aud : p \in dev'.aud \/ p[2] \notin dev'.live,
           \A p \in dev'.aud : p \in dev.aud \/ p[1] # Loc!None,
           \A x \in Held(dev'.aud, o) : x \notin dev'.live \/ Mine(x)'
    PROVE  Owned' /\ Placed'
<1>1. Owned'
  <2>1. ops \ {o} \subseteq ops'
    BY DEF GoesOn
  <2>2. \A x \in TracksOf(dev'.aud, mm.scr) : Mine(x)'
    BY DEF Mine
  <2>3. \A x \in mm'.local : Mine(x)'
    BY DEF Mine
  <2> QED
    BY <2>1, <2>2, <2>3, StaysOwned DEF LocalInv
<1>2. Placed'
  <2>1. Placed /\ (call' = 0 => mm'.local = {} /\ mm'.scr = Loc!None)
    BY DEF LocalInv, Placed
  <2>2. /\ ops' \subseteq (ops \ {o}) \cup {u}
        /\ u \in ops' => Proper(u, mm'.scr)
        /\ u \in ops' /\ u.kind = "share" => (o \in ops /\ o.kind = "share") \/ (\A q \in ops : q.kind # "share")
    BY DEF GoesOn
  <2> QED
    BY <2>1, <2>2, StaysPlaced
<1> QED
  BY <1>1, <1>2

(* One that only stops tracks, or nothing.                                 *)
LEMMA QuietKeeps ==
    ASSUME LocalInv, NEW o \in ops, NEW u, GoesOn(o, u), call' = call, mm'.scr = mm.scr,
           mm'.local = mm.local, dev'.aud = dev.aud, dev'.live \subseteq dev.live,
           \A x \in Held(dev.aud, o) : x \notin dev'.live
    PROVE  Owned' /\ Placed'
<1>1. call = 0 => mm'.local = {}
  BY DEF LocalInv, Placed
<1> QED
  BY <1>1, StepKeeps

LEMMA FailedKeeps ==
    ASSUME LocalInv, NEW o \in ops, NEW d \in Devices,
           Loc!ShareFailed(o, d), o.kind = "share", o.at \notin {"capture", "quality"}, call' = call,
           d.live \subseteq dev.live, d.aud = dev.aud, \A x \in Held(dev.aud, o) : x \notin d.live
    PROVE  Owned' /\ Placed' /\ dev'.live \subseteq d.live
<1>1. CASE mm.scr = o.cap
  <2>1. o.cap # Loc!None /\ o \in Operation
    BY DEF LocalInv, LocalShape, Placed
  <2>2. Loc!StopsScreen(o, mm.scr, d)
    BY <1>1 DEF Loc!ShareFailed
  <2> QED
    BY <1>1, <2>1, <2>2, StopKeeps
<1>2. CASE mm.scr # o.cap
  <2>1. dev' = d /\ mm' = mm /\ Loc!Done(o)
    BY <1>2 DEF Loc!ShareFailed
  <2> QED
    BY <2>1, DoneGoes, QuietKeeps
<1> QED
  BY <1>1, <1>2

LEMMA VoiceFailedKeeps ==
    ASSUME LocalInv, NEW o \in ops, NEW d \in Devices,
           Loc!VoiceFailed(o, d), o.at \notin {"capture", "quality"}, call' = call,
           d.live \subseteq dev.live, d.aud = dev.aud, \A x \in Held(dev.aud, o) : x \notin d.live
    PROVE  Owned' /\ Placed' /\ dev'.live \subseteq d.live
<1>1. CASE o.kind = "share"
  BY <1>1, FailedKeeps DEF Loc!VoiceFailed
<1>2. CASE o.kind # "share"
  <2>1. dev' = d /\ mm' = mm /\ Loc!Done(o)
    BY <1>2 DEF Loc!VoiceFailed
  <2> QED
    BY <2>1, DoneGoes, QuietKeeps
<1> QED
  BY <1>1, <1>2

(* The continuations keep every capture owned.                             *)
LEMMA ContinuationKeeps ==
    ASSUME LocalInv, LocalShape', NEW o \in ops, Loc!Continues(o)
    PROVE  LocalInv'
<1>0. /\ mm \in Fields /\ dev \in Devices /\ ended \subseteq Captures /\ ops \subseteq Operation
      /\ call \in Nat /\ spent \in [calls : Nat, asked : Nat, faults : Nat, opened : Nat]
      /\ mm.scr \in Maybe /\ mm.mic \in Maybe /\ mm.cam \in Maybe /\ LocalShape /\ Loc!None \in Maybe
      /\ Owned /\ Placed /\ Numbered
  BY DEF LocalInv, LocalShape, Fields, Maybe
<1>o. /\ o \in Operation /\ o.cap \in Maybe /\ o.prev \in Maybe /\ o.rev \in Nat /\ o.call # 0
      /\ o.kind = "attach" => o.cap # Loc!None
  BY <1>0 DEF Operation, Placed
<1>i. Loc!IsActive(o) => call # 0
  BY <1>o DEF Loc!IsActive
<1>h. /\ o.kind \notin {"voice", "share", "unshare"} => \A a : Held(a, o) = {}
      /\ o.kind = "share" /\ o.at \notin {"replace", "quality"} => \A a : Held(a, o) = {}
      /\ o.kind = "voice" /\ o.at # "replace" => \A a : Held(a, o) = {}
      /\ o.kind \in {"voice", "share"} /\ o.at = "replace" => \A a : Held(a, o) = {Loc!Replacement(o)}
      /\ o.kind = "share" /\ o.at = "quality" => \A a : Held(a, o) = TracksOf(a, o.cap)
      /\ o.kind = "unshare" => \A a : Held(a, o) = TracksOf(a, o.cap)
  BY DEF Held
<1>q. ASSUME spent'.opened = spent.opened, dev'.live \subseteq dev.live, ended' = ended
      PROVE  Numbered'
  BY <1>0, <1>q, StaysNumbered DEF LocalShape
<1>f. ASSUME Loc!Fault PROVE spent'.opened = spent.opened
  BY <1>0, <1>f DEF Loc!Fault
<1>n. ASSUME NEW n \in Nat, Loc!Opened(n) PROVE spent'.opened = spent.opened + n
  BY <1>0, <1>n DEF Loc!Opened
<1>k. ASSUME NEW kind \in {"mic", "cam", "scr", "aud"}
      PROVE  Loc!New(kind) \in Captures /\ Loc!New(kind) \in Maybe /\ Loc!New(kind)[2] = spent.opened + 1
  BY <1>k, NewShape, <1>0 DEF Maybe
<1>p. ASSUME NEW k, k[2] = spent.opened + 1, Loc!Opened(1), ended' = ended,
             dev'.live \subseteq dev.live \cup {k}
      PROVE  Numbered'
  <2>1. spent'.opened = spent.opened + 1 /\ spent.opened \in Nat
    BY <1>0, <1>n, <1>p
  <2>2. spent'.opened >= spent.opened /\ spent.opened + 1 > spent.opened /\ spent.opened + 1 <= spent'.opened
    BY <2>1
  <2>3. \A x \in dev'.live : x \in dev.live \/ (x[2] > spent.opened /\ x[2] <= spent'.opened)
    BY <1>p, <2>2
  <2> QED
    BY <1>0, <1>p, <2>2, <2>3, StaysNumbered
<1>d. ASSUME Loc!Done(o), call' = call, mm'.scr = mm.scr, mm'.local = mm.local, dev'.aud = dev.aud,
             dev'.live \subseteq dev.live, spent'.opened = spent.opened, ended' = ended,
             \A x \in Held(dev.aud, o) : x \notin dev'.live
      PROVE  LocalInv'
  <2>1. Owned' /\ Placed'
    BY <1>d, DoneGoes, QuietKeeps
  <2> QED
    BY <1>d, <1>q, <2>1 DEF LocalInv
<1>t. ASSUME NEW u \in Operation, ops' = (ops \ {o}) \cup {u},
             u.kind = o.kind, u.call = o.call,
             o.kind \in {"share", "attach"} => u.cap = o.cap,
             o.kind = "share" => u.at \notin {"capture", "quality"} /\ o.at # "capture",
             call' = call, mm'.scr = mm.scr, mm'.local = mm.local, dev'.aud = dev.aud,
             dev'.live \subseteq dev.live, spent'.opened = spent.opened, ended' = ended,
             \A x \in Held(dev.aud, o) : x \notin dev'.live
      PROVE  LocalInv'
  <2>1. GoesOn(o, u)
    BY <1>t, ToGoes
  <2>2. Owned' /\ Placed'
    BY <1>t, <2>1, QuietKeeps
  <2> QED
    BY <1>t, <1>q, <2>2 DEF LocalInv
<1>to. ASSUME NEW at \in Waits, Loc!To(o, at)
       PROVE  \E u \in Operation : /\ ops' = (ops \ {o}) \cup {u} /\ u.kind = o.kind /\ u.call = o.call
                                   /\ u.cap = o.cap /\ u.at = at
  <2> DEFINE u == [o EXCEPT !.at = at]
  <2>1. u \in Operation /\ u.kind = o.kind /\ u.call = o.call /\ u.cap = o.cap /\ u.at = at
    BY <1>o DEF Operation
  <2>2. ops' = (ops \ {o}) \cup {u}
    BY <1>to DEF Loc!To
  <2> HIDE DEF u
  <2> QED
    BY <2>1, <2>2
<1>1. CASE Loc!InitOpened(o)
  <2>1. o.kind = "init" /\ call' = call /\ ended' = ended
    BY <1>1 DEF Loc!InitOpened
  <2>2. CASE ~Loc!IsActive(o)
    BY <1>1, <1>d, <1>h, <2>1, <2>2 DEF Loc!InitOpened
  <2>3. CASE Loc!IsActive(o)
    <3> DEFINE k == Loc!New("mic")
               d == [dev EXCEPT !.live = @ \cup {k}, !.on = @ \cup {k}]
    <3>1. k \in Captures /\ k \in Maybe /\ k[2] = spent.opened + 1
      BY <1>k
    <3>2. /\ Loc!Opened(1) /\ mm' = [mm EXCEPT !.mic = k, !.local = @ \cup {k}]
          /\ dev' = Loc!Publish(d, {k}) /\ Loc!To(o, "publish")
      BY <1>1, <2>3 DEF Loc!InitOpened
    <3> HIDE DEF k
    <3>3. d \in Devices /\ d.live = dev.live \cup {k} /\ d.aud = dev.aud
      BY <1>0, <3>1 DEF Devices
    <3> HIDE DEF d
    <3>4. dev'.live = dev.live \cup {k} /\ dev'.aud = dev.aud
      BY <3>1, <3>2, <3>3, DeviceHelpers
    <3>5. mm'.scr = mm.scr /\ mm'.local = mm.local \cup {k}
      BY <1>0, <3>2 DEF Fields
    <3>6. PICK u \in Operation : ops' = (ops \ {o}) \cup {u} /\ u.kind = o.kind /\ u.call = o.call
      BY <1>to, <3>2 DEF Waits
    <3>7. GoesOn(o, u)
      BY <2>1, <3>6, ToGoes
    <3>8. \A x \in dev'.live : x \in dev.live \/ Mine(x)'
      BY <3>4, <3>5 DEF Mine
    <3>9. Owned' /\ Placed'
      BY <1>h, <1>i, <2>1, <2>3, <3>4, <3>5, <3>7, <3>8, StepKeeps
    <3> QED
      BY <1>p, <2>1, <3>1, <3>2, <3>4, <3>9 DEF LocalInv
  <2> QED
    BY <2>2, <2>3
<1>2. CASE Loc!InitPublished(o)
  BY <1>2, <1>d, <1>h DEF Loc!InitPublished
<1>3. CASE Loc!InitFails(o)
  <2>1. o.kind = "init" /\ Loc!Fault /\ Loc!Done(o) /\ ended' = ended
    BY <1>3 DEF Loc!InitFails
  <2>2. CASE Loc!IsActive(o)
    <3>1. Loc!Cleanup /\ ops' = ops \ {o}
      BY <1>3, <2>1, <2>2 DEF Loc!InitFails, Loc!Done
    <3>2. Owned' /\ Placed' /\ dev'.live \subseteq dev.live
      BY <2>1, <3>1, CleanupKeeps
    <3> QED
      BY <1>f, <1>q, <2>1, <3>2 DEF LocalInv
  <2>3. CASE ~Loc!IsActive(o)
    BY <1>3, <1>d, <1>f, <1>h, <2>1, <2>3 DEF Loc!InitFails
  <2> QED
    BY <2>2, <2>3
<1>4. CASE Loc!VoiceOpened(o)
  <2>1. o.kind \in {"voice", "share"} /\ o.at = "open" /\ call' = call /\ ended' = ended
    BY <1>4 DEF Loc!VoiceOpened
  <2>2. CASE Loc!VoiceFailed(o, dev) /\ spent' = spent
    <3>1. Owned' /\ Placed' /\ dev'.live \subseteq dev.live
      BY <1>0, <1>h, <2>1, <2>2, VoiceFailedKeeps
    <3> QED
      BY <1>q, <2>1, <2>2, <3>1 DEF LocalInv
  <2>3. CASE ~(Loc!VoiceFailed(o, dev) /\ spent' = spent)
    <3> DEFINE k == Loc!New("mic")
               d == [dev EXCEPT !.live = @ \cup {k}]
               u == [o EXCEPT !.at = "replace", !.rev = k[2]]
    <3>1. k \in Captures /\ k \in Maybe /\ k[2] = spent.opened + 1 /\ k = <<"mic", k[2]>>
      BY <1>k DEF Loc!New
    <3>2. /\ Loc!Opened(1) /\ mm' = mm /\ Loc!IsActive(o)
          /\ dev' = Loc!Enabled(d, k, mm.says.mic) /\ ops' = (ops \ {o}) \cup {u}
      BY <1>4, <2>3 DEF Loc!VoiceOpened
    <3> HIDE DEF k
    <3>3. d \in Devices /\ d.live = dev.live \cup {k} /\ d.aud = dev.aud
      BY <1>0, <3>1 DEF Devices
    <3>4. u.kind = o.kind /\ u.call = o.call /\ u.cap = o.cap /\ u.at = "replace" /\ u.rev = k[2]
      BY <1>o DEF Operation
    <3>5. u \in Operation
      BY <1>o, <3>1 DEF Operation, Waits, Captures
    <3> HIDE DEF d, u
    <3>6. dev'.live = dev.live \cup {k} /\ dev'.aud = dev.aud
      BY <3>1, <3>2, <3>3, EnabledHelper
    <3>7. GoesOn(o, u)
      BY <2>1, <3>2, <3>4, <3>5, ToGoes
    <3>8. k \in Held(dev'.aud, u)
      BY <2>1, <3>1, <3>4 DEF Held, Loc!Replacement
    <3>9. \A x \in dev'.live : x \in dev.live \/ Mine(x)'
      BY <3>2, <3>6, <3>8 DEF Mine
    <3>10. Owned' /\ Placed'
      BY <1>h, <1>i, <2>1, <3>2, <3>6, <3>7, <3>9, StepKeeps
    <3> QED
      BY <1>p, <2>1, <3>1, <3>2, <3>6, <3>10 DEF LocalInv
  <2> QED
    BY <2>2, <2>3
<1>5. CASE Loc!VoiceReplaced(o)
  <2> DEFINE k == Loc!Replacement(o)
             d == Loc!Stop(Loc!Publish(Loc!Unpublish(dev, {o.prev}), {k}), {o.prev})
  <2>1. /\ o.kind \in {"voice", "share"} /\ o.at = "replace"
        /\ call' = call /\ spent' = spent /\ ended' = ended
    BY <1>5 DEF Loc!VoiceReplaced
  <2>2. k \in Captures /\ k \in Maybe
    BY <1>o DEF Captures, Maybe, Loc!Replacement
  <2>3. PICK u : GoesOn(o, u)
    BY <1>5, <2>1, DoneGoes, SharedGoes DEF Loc!VoiceReplaced
  <2>4. Held(dev'.aud, o) = {k}
    BY <1>h, <2>1
  <2>5. CASE Loc!IsActive(o)
    <3>1. /\ mm' = [mm EXCEPT !.mic = k, !.local = (@ \ {o.prev}) \cup {k}]
          /\ dev' = Loc!Enabled(d, k, mm.says.mic)
      BY <1>5, <2>5 DEF Loc!VoiceReplaced
    <3> HIDE DEF k
    <3>2. /\ Loc!Unpublish(dev, {o.prev}) \in Devices
          /\ Loc!Unpublish(dev, {o.prev}).live = dev.live /\ Loc!Unpublish(dev, {o.prev}).aud = dev.aud
      BY <1>0, <1>o, DeviceHelpers
    <3>3. /\ Loc!Publish(Loc!Unpublish(dev, {o.prev}), {k}) \in Devices
          /\ Loc!Publish(Loc!Unpublish(dev, {o.prev}), {k}).live = dev.live
          /\ Loc!Publish(Loc!Unpublish(dev, {o.prev}), {k}).aud = dev.aud
      BY <2>2, <3>2, DeviceHelpers
    <3> DEFINE e == Loc!Publish(Loc!Unpublish(dev, {o.prev}), {k})
    <3>9. e \in Devices /\ e.live = dev.live /\ e.aud = dev.aud /\ {o.prev} \in SUBSET Maybe
      BY <1>o, <3>3
    <3>10. d = Loc!Stop(e, {o.prev})
      OBVIOUS
    <3> HIDE DEF d, e
    <3>4. d \in Devices /\ d.live = dev.live \ {o.prev} /\ d.aud = dev.aud
      BY <3>9, <3>10, DeviceHelpers
    <3> HIDE DEF d
    <3>5. dev'.live = dev.live \ {o.prev} /\ dev'.aud = dev.aud
      BY <2>2, <3>1, <3>4, EnabledHelper
    <3>6. mm'.scr = mm.scr /\ mm'.local = (mm.local \ {o.prev}) \cup {k}
      BY <1>0, <3>1 DEF Fields
    <3>7. Mine(k)'
      BY <3>6 DEF Mine
    <3>8. Owned' /\ Placed'
      BY <1>i, <2>1, <2>3, <2>4, <2>5, <3>5, <3>6, <3>7, StepKeeps
    <3> QED
      BY <1>q, <2>1, <3>5, <3>8 DEF LocalInv
  <2>6. CASE ~Loc!IsActive(o)
    <3>1. dev' = Loc!Stop(dev, {k}) /\ mm' = mm
      BY <1>5, <2>6 DEF Loc!VoiceReplaced
    <3> HIDE DEF k
    <3>2. dev'.live = dev.live \ {k} /\ dev'.aud = dev.aud
      BY <1>0, <2>2, <3>1, DeviceHelpers
    <3>3. Owned' /\ Placed'
      BY <2>1, <2>3, <2>4, <3>1, <3>2, QuietKeeps
    <3> QED
      BY <1>q, <2>1, <3>2, <3>3 DEF LocalInv
  <2> QED
    BY <2>5, <2>6
<1>6. CASE Loc!VoiceFails(o)
  <2> DEFINE d == IF o.at = "replace" THEN Loc!Stop(dev, {Loc!Replacement(o)}) ELSE dev
  <2>1. /\ o.kind \in {"voice", "share"} /\ o.at \in {"open", "replace"} /\ Loc!Fault
        /\ Loc!VoiceFailed(o, d) /\ call' = call /\ ended' = ended
    BY <1>6 DEF Loc!VoiceFails
  <2>2. {Loc!Replacement(o)} \in SUBSET Maybe
    BY <1>o DEF Loc!Replacement, Captures, Maybe
  <2>3. /\ d \in Devices /\ d.live \subseteq dev.live /\ d.aud = dev.aud
        /\ o.at = "replace" => Loc!Replacement(o) \notin d.live
    BY <1>0, <2>2, DeviceHelpers
  <2> HIDE DEF d
  <2>4. Owned' /\ Placed' /\ dev'.live \subseteq d.live
    BY <1>h, <2>1, <2>3, VoiceFailedKeeps
  <2> QED
    BY <1>f, <1>q, <2>1, <2>3, <2>4 DEF LocalInv
<1>7. CASE Loc!CameraOpened(o)
  <2>1. o.kind = "camon" /\ call' = call /\ ended' = ended
    BY <1>7 DEF Loc!CameraOpened
  <2>2. CASE ~Loc!IsActive(o)
    BY <1>7, <1>d, <1>h, <2>1, <2>2 DEF Loc!CameraOpened
  <2>3. CASE Loc!IsActive(o)
    <3> DEFINE k == Loc!New("cam")
               d == [dev EXCEPT !.live = @ \cup {k}]
               u == [o EXCEPT !.at = "publish", !.cap = k]
    <3>1. k \in Captures /\ k \in Maybe /\ k[2] = spent.opened + 1
      BY <1>k
    <3>2. /\ Loc!Opened(1) /\ mm' = [mm EXCEPT !.cam = k, !.local = @ \cup {k}, !.says.cam = TRUE]
          /\ dev' = Loc!Publish(d, {k}) /\ ops' = (ops \ {o}) \cup {u}
      BY <1>7, <2>3 DEF Loc!CameraOpened
    <3> HIDE DEF k
    <3>3. d \in Devices /\ d.live = dev.live \cup {k} /\ d.aud = dev.aud
      BY <1>0, <3>1 DEF Devices
    <3>4. u \in Operation /\ u.kind = o.kind /\ u.call = o.call
      BY <1>o, <3>1 DEF Operation, Waits
    <3> HIDE DEF d, u
    <3>5. dev'.live = dev.live \cup {k} /\ dev'.aud = dev.aud
      BY <3>1, <3>2, <3>3, DeviceHelpers
    <3>6. mm'.scr = mm.scr /\ mm'.local = mm.local \cup {k}
      BY <1>0, <3>2 DEF Fields
    <3>7. GoesOn(o, u)
      BY <2>1, <3>2, <3>4, ToGoes
    <3>8. \A x \in dev'.live : x \in dev.live \/ Mine(x)'
      BY <3>5, <3>6 DEF Mine
    <3>9. Owned' /\ Placed'
      BY <1>h, <1>i, <2>1, <2>3, <3>5, <3>6, <3>7, <3>8, StepKeeps
    <3> QED
      BY <1>p, <2>1, <3>1, <3>2, <3>5, <3>9 DEF LocalInv
  <2> QED
    BY <2>2, <2>3
<1>c. Loc!Stop(dev, {o.cap}).live = dev.live \ {o.cap} /\ Loc!Stop(dev, {o.cap}).aud = dev.aud
  BY <1>0, <1>o, DeviceHelpers
<1>8. CASE Loc!CameraPublished(o)
  BY <1>8, <1>c, <1>d, <1>h DEF Loc!CameraPublished
<1>m. ASSUME Loc!Done(o), call' = call, mm'.scr = mm.scr, mm'.local = mm.local \ {o.cap},
             dev' = Loc!Stop(dev, {o.cap}), spent'.opened = spent.opened, ended' = ended,
             o.kind \in {"camon", "camoff"}
      PROVE  LocalInv'
  <2>1. GoesOn(o, o) /\ Held(dev'.aud, o) = {} /\ (call = 0 => mm'.local = {})
    BY <1>0, <1>m, <1>h, DoneGoes DEF Placed
  <2>2. Owned' /\ Placed'
    BY <1>c, <1>m, <2>1, StepKeeps
  <2> QED
    BY <1>c, <1>m, <1>q, <2>2 DEF LocalInv
<1>9. CASE Loc!CameraUnpublished(o)
  <2>1. o.kind = "camoff" /\ Loc!Done(o) /\ call' = call /\ spent' = spent /\ ended' = ended
    BY <1>9 DEF Loc!CameraUnpublished
  <2>2. CASE Loc!IsActive(o)
    <3>1. mm' = [mm EXCEPT !.local = @ \ {o.cap}] /\ dev' = Loc!Stop(dev, {o.cap})
      BY <1>9, <2>2 DEF Loc!CameraUnpublished
    <3>2. mm'.scr = mm.scr /\ mm'.local = mm.local \ {o.cap}
      BY <1>0, <3>1 DEF Fields
    <3> QED
      BY <1>m, <2>1, <3>1, <3>2
  <2>3. CASE ~Loc!IsActive(o)
    BY <1>9, <1>d, <1>h, <2>1, <2>3 DEF Loc!CameraUnpublished
  <2> QED
    BY <2>2, <2>3
<1>10. CASE Loc!CameraFails(o)
  <2>1. o.kind \in {"camon", "camoff"} /\ Loc!Fault /\ Loc!Done(o) /\ call' = call /\ ended' = ended
    BY <1>10 DEF Loc!CameraFails, Loc!Camera
  <2>2. CASE o.at = "publish"
    <3>1. /\ mm' = [mm EXCEPT !.local = @ \ {o.cap}, !.says.cam = FALSE,
                              !.cam = IF @ = o.cap THEN Loc!None ELSE @]
          /\ dev' = Loc!Stop(dev, {o.cap})
      BY <1>10, <2>2 DEF Loc!CameraFails
    <3>2. mm'.scr = mm.scr /\ mm'.local = mm.local \ {o.cap}
      BY <1>0, <3>1 DEF Fields
    <3> QED
      BY <1>f, <1>m, <2>1, <3>1, <3>2
  <2>3. CASE o.at # "publish"
    BY <1>10, <1>d, <1>f, <1>h, <2>1, <2>3 DEF Loc!CameraFails
  <2> QED
    BY <2>2, <2>3
<1>11. CASE Loc!ScreenCaptured(o)
  <2> DEFINE k == Loc!New("scr")
             a == IF o.audio = "display" THEN {<<"aud", k[2] + 1>>} ELSE {}
             u == [o EXCEPT !.at = "quality", !.cap = k, !.rev = mm.q]
             v == IF o.audio = "pipewire" THEN dev.prov ELSE k
  <2>0. o.kind = "share" /\ o.at = "capture" /\ call' = call /\ ended' = ended /\ mm' = mm
    BY <1>11 DEF Loc!ScreenCaptured
  <2>1. k \in Captures /\ k \in Maybe /\ k[2] = spent.opened + 1 /\ k # Loc!None
    BY <1>k DEF Loc!New, Loc!None
  <2>2. \/ a = {} /\ Cardinality(a) = 0
        \/ a = {<<"aud", k[2] + 1>>} /\ Cardinality(a) = 1
    <3>1. Cardinality({}) = 0
      BY FS_EmptySet
    <3>2. Cardinality({<<"aud", k[2] + 1>>}) = 1
      BY FS_Singleton
    <3>3. CASE o.audio = "display"
      BY <3>2, <3>3
    <3>4. CASE o.audio # "display"
      BY <3>1, <3>4
    <3> QED
      BY <3>3, <3>4
  <2>3. u.kind = "share" /\ u.call = o.call /\ u.cap = k /\ u.at = "quality"
    BY <1>o, <2>0 DEF Operation
  <2>4. /\ dev' = [dev EXCEPT !.live = @ \cup {k} \cup a, !.aud = @ \cup {<<k, t>> : t \in a}, !.prov = v]
        /\ ops' = (ops \ {o}) \cup {u} /\ Loc!Opened(1 + Loc!Cardinality(a))
    BY <1>0, <1>11 DEF Loc!ScreenCaptured, Devices
  <2> HIDE DEF k, a, u, v
  <2>5. /\ dev'.live = dev.live \cup {k} \cup a
        /\ dev'.aud = dev.aud \cup {<<k, t>> : t \in a}
    BY <1>0, <2>4 DEF Devices
  <2>6. mm.scr = Loc!None
    BY <1>0, <2>0 DEF Placed
  <2>7. GoesOn(o, u)
    <3>1. Proper(u, mm.scr)
      BY <1>o, <2>1, <2>3, <2>6 DEF Proper
    <3> QED
      BY <2>0, <2>4, <3>1 DEF GoesOn
  <2>8. Held(dev'.aud, u) = TracksOf(dev'.aud, k)
    BY <2>3 DEF Held
  <2>9. \A t \in a : t \in TracksOf(dev'.aud, k)
    <3> SUFFICES ASSUME NEW t \in a PROVE t \in TracksOf(dev'.aud, k)
      OBVIOUS
    <3>1. <<k, t>> \in dev'.aud /\ <<k, t>>[1] = k /\ <<k, t>>[2] = t
      BY <2>5
    <3> QED
      BY <3>1 DEF TracksOf
  <2>10. k \in TracksOf(dev'.aud, k)
    BY DEF TracksOf
  <2>11. \A x \in dev'.live : x \in dev.live \/ Mine(x)'
    BY <2>4, <2>5, <2>8, <2>9, <2>10 DEF Mine
  <2>12. \A p \in dev'.aud : p \in dev.aud \/ p[1] # Loc!None
    BY <2>1, <2>5
  <2>13. call = 0 => mm'.local = {}
    BY <1>0, <2>0 DEF Placed
  <2>14. Owned' /\ Placed'
    BY <1>h, <2>0, <2>5, <2>7, <2>11, <2>12, <2>13, StepKeeps
  <2>15. Numbered'
    <3>1. /\ spent.opened \in Nat /\ Loc!Cardinality(a) = Cardinality(a)
      BY <1>0 DEF Loc!Cardinality, Cardinality
    <3>2. 1 + Cardinality(a) \in Nat
      BY <2>2
    <3>3. spent'.opened = spent.opened + (1 + Cardinality(a))
      BY <1>n, <2>4, <3>1, <3>2
    <3>4. spent'.opened >= spent.opened /\ k[2] > spent.opened /\ k[2] <= spent'.opened
      BY <2>1, <2>2, <3>1, <3>3
    <3>5. \A x \in a : x[2] > spent.opened /\ x[2] <= spent'.opened
      <4>1. CASE a = {}
        BY <4>1
      <4>2. CASE a = {<<"aud", k[2] + 1>>} /\ Cardinality(a) = 1
        <5>1. k[2] + 1 > spent.opened /\ k[2] + 1 <= spent'.opened
          BY <2>1, <3>1, <3>3, <4>2
        <5>2. <<"aud", k[2] + 1>>[2] = k[2] + 1
          OBVIOUS
        <5> QED
          BY <4>2, <5>1, <5>2
      <4> QED
        BY <2>2, <4>1, <4>2
    <3>6. \A x \in dev'.live : x \in dev.live \/ (x[2] > spent.opened /\ x[2] <= spent'.opened)
      BY <2>5, <3>4, <3>5
    <3> QED
      BY <1>0, <2>0, <3>4, <3>6, StaysNumbered
  <2> QED
    BY <2>14, <2>15 DEF LocalInv
<1>12. CASE Loc!ScreenRefused(o)
  BY <1>12, <1>d, <1>h DEF Loc!ScreenRefused
<1>a. Loc!Applied(o).live = dev.live /\ Loc!Applied(o).aud = dev.aud /\ Loc!Applied(o) \in Devices
  BY <1>0, <1>o DEF Loc!Applied, Devices
<1>s. \A d \in Devices : Loc!Sent(d, o).live = d.live /\ Loc!Sent(d, o).aud = d.aud
  BY DEF Loc!Sent, Devices
<1>v. Loc!Stream(o.cap) = TracksOf(dev.aud, o.cap) /\ TracksOf(dev.aud, o.cap) \in SUBSET Maybe
  BY <1>0, <1>o, StreamTracks, StreamShape
<1>w. /\ Loc!Stop(dev, Loc!Stream(o.cap)).live = dev.live \ TracksOf(dev.aud, o.cap)
      /\ Loc!Stop(dev, Loc!Stream(o.cap)).aud = dev.aud
      /\ Loc!Stop(dev, Loc!Stream(o.cap)) \in Devices
  BY <1>0, <1>v, DeviceHelpers
<1>g. ASSUME Loc!AppliedAgain(o), o.kind \in {"share", "quality"}, o.kind = "share" => o.at = "quality",
             call' = call, spent' = spent, ended' = ended
      PROVE  LocalInv'
  <2> DEFINE u == [o EXCEPT !.rev = mm.q]
  <2>1. u.kind = o.kind /\ u.call = o.call /\ u.cap = o.cap /\ u.at = o.at
    BY <1>o DEF Operation
  <2>2. dev' = Loc!Applied(o) /\ ops' = (ops \ {o}) \cup {u} /\ mm' = mm
    BY <1>g DEF Loc!AppliedAgain
  <2> HIDE DEF u
  <2>3. Proper(u, mm.scr)
    BY <1>0, <1>g, <1>o, <2>1 DEF Proper, Placed
  <2>4. GoesOn(o, u)
    BY <2>1, <2>2, <2>3 DEF GoesOn
  <2>5. Held(dev'.aud, u) = Held(dev'.aud, o)
    BY <1>g, <2>1 DEF Held
  <2>6. \A x \in Held(dev'.aud, o) : Mine(x)'
    BY <2>2, <2>5 DEF Mine
  <2>7. call = 0 => mm'.local = {}
    BY <1>0, <2>2 DEF Placed
  <2>8. Owned' /\ Placed'
    BY <1>a, <1>g, <2>2, <2>4, <2>6, <2>7, StepKeeps
  <2> QED
    BY <1>a, <1>g, <1>q, <2>2, <2>8 DEF LocalInv
<1>13. CASE Loc!ScreenReady(o)
  <2>0. o.kind = "share" /\ o.at = "quality" /\ call' = call /\ spent' = spent /\ ended' = ended
    BY <1>13 DEF Loc!ScreenReady
  <2>1. CASE Loc!AppliedAgain(o)
    BY <1>g, <2>0, <2>1
  <2>2. CASE Loc!IsActive(o) /\ ~Loc!AppliedAgain(o)
    <3>1. /\ mm' = [mm EXCEPT !.scr = o.cap, !.says.scr = TRUE, !.says.aud = o.audio = "display"]
          /\ dev' = Loc!Sent(Loc!Publish(Loc!Applied(o), Loc!Stream(o.cap)), o)
          /\ Loc!To(o, "publish")
      BY <1>13, <2>2 DEF Loc!ScreenReady
    <3>2. mm'.scr = o.cap /\ mm'.local = mm.local
      BY <1>0, <3>1 DEF Fields
    <3>3. dev'.live = dev.live /\ dev'.aud = dev.aud
      BY <1>a, <1>s, <1>v, <3>1, DeviceHelpers
    <3>4. PICK u \in Operation : /\ ops' = (ops \ {o}) \cup {u} /\ u.kind = o.kind /\ u.call = o.call
                                 /\ u.cap = o.cap /\ u.at = "publish"
      BY <1>to, <3>1 DEF Waits
    <3>5. mm.scr = Loc!None /\ o.cap # Loc!None
      BY <1>0, <2>0 DEF Placed
    <3>6. Owned'
      <4>1. \A x \in dev.live : x # Loc!None
        BY <1>0 DEF Devices, Captures, Loc!None
      <4>2. \A x \in TracksOf(dev'.aud, mm.scr) : x \notin dev'.live \/ Mine(x)'
        BY <1>0, <3>3, <3>5, <4>1 DEF Placed, TracksOf
      <4>3. \A x \in Held(dev'.aud, o) : Mine(x)'
        BY <1>h, <2>0, <3>2 DEF Mine
      <4>4. \A x \in mm.local : Mine(x)'
        BY <3>2 DEF Mine
      <4>5. ops \ {o} \subseteq ops'
        BY <3>4
      <4> QED
        BY <1>0, <3>3, <4>2, <4>3, <4>4, <4>5, StaysOwned
    <3>7. Placed'
      <4>1. Proper(u, mm'.scr)
        BY <1>o, <3>4, <3>5 DEF Proper
      <4>2. ops' \subseteq (ops \ {o}) \cup {u}
        BY <3>4
      <4>3. call' # 0
        BY <1>i, <2>0, <2>2
      <4> QED
        BY <1>0, <2>0, <3>3, <4>1, <4>2, <4>3, StaysPlaced
    <3> QED
      BY <1>q, <2>0, <3>3, <3>6, <3>7 DEF LocalInv
  <2>3. CASE ~Loc!IsActive(o) /\ ~Loc!AppliedAgain(o)
    <3>1. dev' = Loc!Stop(dev, Loc!Stream(o.cap)) /\ Loc!Done(o) /\ mm' = mm
      BY <1>13, <2>3 DEF Loc!ScreenReady
    <3> QED
      BY <1>d, <1>h, <1>w, <2>0, <3>1
  <2> QED
    BY <2>1, <2>2, <2>3
<1>14. CASE Loc!ScreenPublished(o)
  <2>0. /\ o.kind = "share" /\ o.at = "publish" /\ call' = call /\ spent' = spent /\ mm' = mm /\ ended' = ended
    BY <1>14 DEF Loc!ScreenPublished
  <2>1. CASE Loc!IsActive(o)
    <3> DEFINE u == [o EXCEPT !.at = "repair", !.prev = mm.mic]
    <3>1. u \in Operation /\ u.kind = o.kind /\ u.call = o.call /\ u.cap = o.cap /\ u.at = "repair"
      BY <1>0, <1>o DEF Operation, Waits
    <3>2. dev' = Loc!Enabled(dev, mm.mic, mm.says.mic) /\ ops' = (ops \ {o}) \cup {u}
      BY <1>14, <2>1 DEF Loc!ScreenPublished
    <3> HIDE DEF u
    <3>3. dev'.live = dev.live /\ dev'.aud = dev.aud
      BY <1>0, <3>2, EnabledHelper
    <3> QED
      BY <1>h, <1>t, <2>0, <3>1, <3>2, <3>3
  <2>2. CASE ~Loc!IsActive(o)
    <3>1. dev' = Loc!Stop(dev, Loc!Stream(o.cap)) /\ Loc!Done(o)
      BY <1>14, <2>2 DEF Loc!ScreenPublished
    <3> QED
      BY <1>d, <1>h, <1>w, <2>0, <3>1
  <2> QED
    BY <2>1, <2>2
<1>x. ASSUME NEW u, GoesOn(o, u), call' = call, mm' = mm, dev'.aud = dev.aud, dev'.live = dev.live,
             spent'.opened = spent.opened, ended' = ended, Held(dev.aud, o) = {}
      PROVE  LocalInv'
  <2>1. Owned' /\ Placed'
    BY <1>x, QuietKeeps
  <2> QED
    BY <1>q, <1>x, <2>1 DEF LocalInv
<1>15. CASE Loc!MicrophoneUsable(o)
  <2>0. /\ o.kind = "share" /\ o.at = "repair" /\ call' = call /\ spent' = spent /\ mm' = mm /\ ended' = ended
    BY <1>15 DEF Loc!MicrophoneUsable
  <2>1. CASE dev' = Loc!Publish(dev, {mm.mic}) /\ Loc!To(o, "republish")
    <3>1. dev'.live = dev.live /\ dev'.aud = dev.aud
      BY <1>0, <2>1, DeviceHelpers
    <3>2. PICK u \in Operation : /\ ops' = (ops \ {o}) \cup {u} /\ u.kind = o.kind /\ u.call = o.call
                                 /\ u.cap = o.cap /\ u.at = "republish"
      BY <1>to, <2>1 DEF Waits
    <3> QED
      BY <1>h, <1>t, <2>0, <3>1, <3>2
  <2>2. CASE Loc!Shared(o) /\ dev' = dev
    <3>1. PICK u : GoesOn(o, u)
      BY <2>0, <2>2, SharedGoes
    <3> QED
      BY <1>h, <1>x, <2>0, <2>2, <3>1
  <2> QED
    BY <1>15, <2>1, <2>2 DEF Loc!MicrophoneUsable
<1>16. CASE Loc!MicrophoneSuspended(o)
  <2>0. /\ o.kind = "share" /\ o.at = "repair" /\ call' = call /\ Loc!Fault /\ mm' = mm /\ ended' = ended
        /\ Loc!To(o, "open") /\ dev' = dev
    BY <1>16 DEF Loc!MicrophoneSuspended
  <2>1. PICK u \in Operation : /\ ops' = (ops \ {o}) \cup {u} /\ u.kind = o.kind /\ u.call = o.call
                               /\ u.cap = o.cap /\ u.at = "open"
    BY <1>to, <2>0 DEF Waits
  <2> QED
    BY <1>f, <1>h, <1>t, <2>0, <2>1
<1>17. CASE Loc!MicrophoneRepublished(o)
  <2>0. /\ o.kind = "share" /\ o.at = "republish" /\ call' = call /\ spent' = spent /\ mm' = mm /\ ended' = ended
        /\ Loc!Shared(o) /\ dev' = dev
    BY <1>17 DEF Loc!MicrophoneRepublished
  <2>1. PICK u : GoesOn(o, u)
    BY <2>0, SharedGoes
  <2> QED
    BY <1>h, <1>x, <2>0, <2>1
<1>18. CASE Loc!ScreenFails(o)
  <2>0. /\ o.kind = "share" /\ o.at \in {"publish", "republish"} /\ Loc!Fault
        /\ Loc!ShareFailed(o, dev) /\ call' = call /\ ended' = ended
    BY <1>18 DEF Loc!ScreenFails
  <2>1. Owned' /\ Placed' /\ dev'.live \subseteq dev.live
    BY <1>0, <1>h, <2>0, FailedKeeps
  <2> QED
    BY <1>f, <1>q, <2>0, <2>1 DEF LocalInv
<1>19. CASE Loc!ScreenUnpublished(o)
  <2> DEFINE T == Loc!Stream(o.cap) \cup {dev.prov}
  <2>0. /\ o.kind = "unshare" /\ Loc!Done(o) /\ call' = call /\ spent' = spent /\ mm' = mm /\ ended' = ended
        /\ dev' = [Loc!Stop(dev, T) EXCEPT !.prov = Loc!None]
    BY <1>19 DEF Loc!ScreenUnpublished
  <2>1. T \in SUBSET Maybe /\ TracksOf(dev.aud, o.cap) \subseteq T
    BY <1>0, <1>v DEF Devices
  <2> HIDE DEF T
  <2>2. Loc!Stop(dev, T) \in Devices /\ Loc!Stop(dev, T).live = dev.live \ T /\ Loc!Stop(dev, T).aud = dev.aud
    BY <1>0, <2>1, DeviceHelpers
  <2>3. dev'.live = dev.live \ T /\ dev'.aud = dev.aud
    BY <2>0, <2>2 DEF Devices
  <2> QED
    BY <1>d, <1>h, <2>0, <2>1, <2>3
<1>20. CASE Loc!AudioPrepared(o)
  <2>0. /\ o.kind = "attach" /\ call' = call /\ spent' = spent /\ mm' = mm /\ ended' = ended /\ dev' = dev
    BY <1>20 DEF Loc!AudioPrepared
  <2>1. CASE Loc!Done(o)
    BY <1>d, <1>h, <2>0, <2>1
  <2>2. CASE Loc!To(o, "wait")
    <3>1. PICK u \in Operation : /\ ops' = (ops \ {o}) \cup {u} /\ u.kind = o.kind /\ u.call = o.call
                                 /\ u.cap = o.cap
      BY <1>to, <2>2 DEF Waits
    <3> QED
      BY <1>h, <1>t, <2>0, <3>1
  <2> QED
    BY <1>20, <2>1, <2>2 DEF Loc!AudioPrepared
<1>21. CASE Loc!AudioOpened(o)
  <2>0. /\ o.kind = "attach" /\ call' = call /\ ended' = ended
    BY <1>21 DEF Loc!AudioOpened
  <2>1. PICK t \in Loc!PipeWireTrack :
          IF Loc!StillShares(o) /\ t # Loc!None
          THEN /\ Loc!Opened(1)
               /\ mm' = [mm EXCEPT !.says.aud = TRUE]
               /\ dev' = Loc!Publish([dev EXCEPT !.live = @ \cup {t}, !.aud = @ \cup {<<o.cap, t>>}], {t})
               /\ ops' = (ops \ {o}) \cup {[o EXCEPT !.at = "publish", !.prev = t]}
          ELSE Loc!Done(o) /\ UNCHANGED <<spent, mm, dev>>
    BY <1>21 DEF Loc!AudioOpened
  <2>2. CASE Loc!StillShares(o) /\ t # Loc!None
    <3> DEFINE d == [dev EXCEPT !.live = @ \cup {t}, !.aud = @ \cup {<<o.cap, t>>}]
               u == [o EXCEPT !.at = "publish", !.prev = t]
    <3>1. t \in Captures /\ t \in Maybe /\ t[2] = spent.opened + 1
      BY <1>k, <2>2 DEF Loc!PipeWireTrack
    <3>2. <<o.cap, t>> \in Maybe \X Captures
      BY <1>o, <3>1
    <3>3. d \in Devices /\ d.live = dev.live \cup {t} /\ d.aud = dev.aud \cup {<<o.cap, t>>}
      BY <1>0, <3>1, <3>2 DEF Devices
    <3>4. u \in Operation /\ u.kind = o.kind /\ u.call = o.call /\ u.cap = o.cap
      BY <1>o, <3>1 DEF Operation, Waits
    <3>5. /\ Loc!Opened(1) /\ mm' = [mm EXCEPT !.says.aud = TRUE]
          /\ dev' = Loc!Publish(d, {t}) /\ ops' = (ops \ {o}) \cup {u}
      BY <2>1, <2>2
    <3> HIDE DEF d, u
    <3>6. dev'.live = dev.live \cup {t} /\ dev'.aud = dev.aud \cup {<<o.cap, t>>}
      BY <3>1, <3>3, <3>5, DeviceHelpers
    <3>7. mm'.scr = mm.scr /\ mm'.local = mm.local
      BY <1>0, <3>5 DEF Fields
    <3>8. t \in TracksOf(dev'.aud, mm'.scr)
      <4>1. <<o.cap, t>> \in dev'.aud /\ <<o.cap, t>>[1] = mm'.scr /\ <<o.cap, t>>[2] = t
        BY <2>2, <3>6, <3>7 DEF Loc!StillShares
      <4> QED
        BY <4>1 DEF TracksOf
    <3>9. \A x \in dev'.live : x \in dev.live \/ Mine(x)'
      BY <3>6, <3>8 DEF Mine
    <3>10. GoesOn(o, u)
      BY <2>0, <3>4, <3>5, ToGoes
    <3>11. \A p \in dev'.aud : p \in dev.aud \/ p[1] # Loc!None
      BY <1>o, <2>0, <3>6
    <3>12. Owned' /\ Placed'
      BY <1>0, <1>h, <2>0, <3>6, <3>7, <3>9, <3>10, <3>11, StepKeeps DEF Placed
    <3> QED
      BY <1>p, <2>0, <3>1, <3>5, <3>6, <3>12 DEF LocalInv
  <2>3. CASE ~(Loc!StillShares(o) /\ t # Loc!None)
    BY <1>d, <1>h, <2>0, <2>1, <2>3
  <2> QED
    BY <2>2, <2>3
<1>22. CASE Loc!AudioPublished(o)
  <2>0. /\ o.kind = "attach" /\ Loc!Done(o) /\ call' = call /\ spent' = spent /\ mm' = mm /\ ended' = ended
    BY <1>22 DEF Loc!AudioPublished
  <2>1. dev'.live = dev.live /\ dev'.aud = dev.aud
    BY <1>0, <1>22, DeviceHelpers DEF Loc!AudioPublished
  <2> QED
    BY <1>d, <1>h, <2>0, <2>1
<1>23. CASE Loc!AudioFails(o)
  <2>0. /\ o.kind = "attach" /\ Loc!Done(o) /\ Loc!Fault /\ call' = call /\ ended' = ended
        /\ mm' = [mm EXCEPT !.says.aud = FALSE]
        /\ dev' = [Loc!Stop(dev, {o.prev}) EXCEPT !.aud = @ \ {<<o.cap, o.prev>>}]
    BY <1>23 DEF Loc!AudioFails
  <2>1. /\ Loc!Stop(dev, {o.prev}) \in Devices /\ Loc!Stop(dev, {o.prev}).live = dev.live \ {o.prev}
        /\ Loc!Stop(dev, {o.prev}).aud = dev.aud
    BY <1>0, <1>o, DeviceHelpers
  <2>2. dev'.live = dev.live \ {o.prev} /\ dev'.aud = dev.aud \ {<<o.cap, o.prev>>}
    BY <2>0, <2>1 DEF Devices
  <2>3. mm'.scr = mm.scr /\ mm'.local = mm.local
    BY <1>0, <2>0 DEF Fields
  <2>4. \A p \in dev.aud : p \in dev'.aud \/ p[2] \notin dev'.live
    <3>1. <<o.cap, o.prev>>[2] = o.prev
      OBVIOUS
    <3> QED
      BY <2>2, <3>1
  <2>5. Owned' /\ Placed'
    BY <1>0, <1>h, <2>0, <2>2, <2>3, <2>4, DoneGoes, StepKeeps DEF Placed
  <2> QED
    BY <1>f, <1>q, <2>0, <2>2, <2>5 DEF LocalInv
<1>24. CASE Loc!QualityApplied(o)
  <2>0. o.kind = "quality" /\ call' = call /\ spent' = spent /\ ended' = ended
    BY <1>24 DEF Loc!QualityApplied
  <2>1. CASE Loc!AppliedAgain(o)
    BY <1>g, <2>0, <2>1
  <2>2. CASE ~Loc!AppliedAgain(o)
    <3>1. Loc!Done(o) /\ mm' = mm /\ dev' \in {Loc!Applied(o), Loc!Sent(Loc!Applied(o), o)}
      BY <1>24, <2>2 DEF Loc!QualityApplied
    <3>2. dev'.live = dev.live /\ dev'.aud = dev.aud
      BY <1>a, <1>s, <3>1
    <3> QED
      BY <1>d, <1>h, <2>0, <3>1, <3>2
  <2> QED
    BY <2>1, <2>2
<1> QED
  BY <1>1, <1>2, <1>3, <1>4, <1>5, <1>6, <1>7, <1>8, <1>9, <1>10, <1>11, <1>12, <1>13, <1>14,
     <1>15, <1>16, <1>17, <1>18, <1>19, <1>20, <1>21, <1>22, <1>23, <1>24 DEF Loc!Continues


LEMMA LocalInit ==
    ASSUME Loc!Init
    PROVE  LocalInv
<1>1. mm = Loc!Fresh(0) /\ call = 0 /\ ended = {} /\ ops = {}
      /\ spent = [calls |-> 0, asked |-> 0, faults |-> 0, opened |-> 0]
      /\ dev = [live |-> {}, on |-> {}, pub |-> {}, aud |-> {}, prov |-> Loc!None, missed |-> {},
                applied |-> [n \in Loc!Numbers |-> 0], sent |-> [n \in Loc!Numbers |-> 0]]
  BY DEF Loc!Init
<1>2. mm \in Fields /\ mm.local = {} /\ mm.scr = Loc!None
  BY <1>1 DEF Loc!Fresh, Fields, Said, Maybe
<1>3. dev.applied \in [Loc!Numbers -> Nat] /\ dev.sent \in [Loc!Numbers -> Nat]
  BY <1>1
<1>4. dev \in Devices /\ dev.live = {} /\ dev.aud = {}
  BY <1>1, <1>3 DEF Devices, Maybe
<1> QED
  BY <1>1, <1>2, <1>4 DEF LocalInv, LocalShape, Owned, Placed, Numbered

LEMMA LocalStep ==
    ASSUME Serial, LocalInv, [Loc!Next]_Loc!vars
    PROVE  LocalInv'
<1>1. CASE \E o \in ops : Loc!Continues(o)
  BY <1>1, ShapeContinues, ContinuationKeeps DEF LocalInv
<1>2. CASE ~\E o \in ops : Loc!Continues(o)
  <2>1. \/ Loc!StartCall \/ Loc!EndCall \/ Loc!ToggleMicrophone \/ Loc!UpdateVoiceInput
        \/ Loc!ToggleCamera \/ Loc!ToggleScreen \/ Loc!UpdateScreenQuality \/ Loc!SourceGone
        \/ \E k \in ended : Loc!EndedEvent(k)
        \/ UNCHANGED Loc!vars
    BY <1>2 DEF Loc!Next
  <2>2. LocalShape'
    BY <2>1, ShapeUser DEF LocalInv
  <2> QED
    BY <2>1, <2>2, UserKeeps
<1> QED
  BY <1>1, <1>2

(* Whichever wait the end of a call overtakes and whichever step fails,    *)
(* when the last operation has returned no microphone, camera or screen is *)
(* still captured, for any number of calls, requests and faults of users   *)
(* who wait for a request before they repeat it (MediaManager.ts, cleanup  *)
(* and the isActive checks after every await).                             *)
THEOREM NothingStaysCaptured ==
    ASSUME Serial
    PROVE  Loc!Spec => []NothingLeftRunning
<1>1. Loc!Init => LocalInv
  BY LocalInit
<1>2. LocalInv /\ [Loc!Next]_Loc!vars => LocalInv'
  BY LocalStep
<1>3. LocalInv => NothingLeftRunning
  <2> SUFFICES ASSUME LocalInv, call = 0, ops = {}, NEW x \in dev.live PROVE FALSE
    BY DEF NothingLeftRunning
  <2>1. x # Loc!None
    BY DEF LocalInv, LocalShape, Devices, Captures, Loc!None
  <2>2. x \in TracksOf(dev.aud, Loc!None)
    BY DEF LocalInv, Owned, Mine, Placed
  <2>3. \A p \in dev.aud : p[1] # Loc!None
    BY DEF LocalInv, Placed
  <2> QED
    BY <2>1, <2>2, <2>3 DEF TracksOf
<1> QED
  BY <1>1, <1>2, <1>3, PTL DEF Loc!Spec

(* Only a share that fails takes itself off the screen.                    *)
LEMMA ShareKeptOrDropped ==
    ASSUME NEW o, NEW d, Loc!VoiceFailed(o, d)
    PROVE  mm'.scr = mm.scr \/ o.kind = "share"
BY DEF Loc!VoiceFailed

(* A share on the screen ends because someone asked, its own source went   *)
(* away, a step of it failed or the call ended, never because of the late  *)
(* "ended" event of an earlier capture (MediaManager.ts:251-253).          *)
THEOREM ShareEndsForCause ==
    ASSUME Serial
    PROVE  Loc!Spec => ShareStopsForCause
<1> DEFINE Cause == \/ call' = 0 \/ spent'.asked # spent.asked \/ spent'.faults # spent.faults
                    \/ mm.scr \notin dev.live \/ \E o \in ops : o.kind = "share" /\ o.at = "open"
<1>1. ASSUME LocalInv, Loc!Next, mm.scr # Loc!None, mm'.scr # mm.scr PROVE Cause
  <2>0. /\ mm \in Fields /\ spent \in [calls : Nat, asked : Nat, faults : Nat, opened : Nat]
        /\ ops \subseteq Operation /\ call # 0
    BY <1>1 DEF LocalInv, LocalShape, Placed
  <2>f. Loc!Fault => spent'.faults # spent.faults
    BY <2>0 DEF Loc!Fault
  <2>a. Loc!Asked => spent'.asked # spent.asked
    BY <2>0 DEF Loc!Asked
  <2>1. CASE Loc!StartCall \/ Loc!EndCall
    BY <2>0, <2>1 DEF Loc!StartCall, Loc!EndCall, Loc!Cleanup
  <2>2. CASE Loc!ToggleMicrophone \/ Loc!UpdateVoiceInput \/ Loc!ToggleCamera \/ Loc!ToggleScreen \/ Loc!UpdateScreenQuality
    BY <2>a, <2>2 DEF Loc!ToggleMicrophone, Loc!UpdateVoiceInput, Loc!ToggleCamera, Loc!ToggleScreen, Loc!UpdateScreenQuality
  <2>3. CASE Loc!SourceGone
    BY <1>1, <2>3 DEF Loc!SourceGone
  <2>4. ASSUME NEW k \in ended, Loc!EndedEvent(k) PROVE Cause
    <3>1. mm.scr = k
      BY <1>1, <2>4 DEF Loc!EndedEvent, Loc!Missed
    <3>2. k \notin dev.live
      BY <1>1 DEF LocalInv, Numbered
    <3> QED
      BY <3>1, <3>2
  <2>5. ASSUME NEW o \in ops, Loc!Continues(o) PROVE Cause
    <3>1. CASE \/ Loc!InitFails(o) \/ Loc!VoiceFails(o) \/ Loc!ScreenFails(o) \/ Loc!CameraFails(o)
               \/ Loc!AudioFails(o) \/ Loc!MicrophoneSuspended(o)
      BY <2>f, <3>1 DEF Loc!InitFails, Loc!VoiceFails, Loc!ScreenFails, Loc!CameraFails, Loc!AudioFails,
                        Loc!MicrophoneSuspended
    <3>2. CASE Loc!VoiceOpened(o)
      <4>1. mm' # mm
        BY <1>1
      <4>2. Loc!VoiceFailed(o, dev) /\ o.at = "open"
        BY <3>2, <4>1 DEF Loc!VoiceOpened
      <4>3. o.kind = "share"
        BY <1>1, <4>2, ShareKeptOrDropped
      <4> QED
        BY <4>2, <4>3
    <3>3. CASE Loc!ScreenReady(o)
      <4>1. mm.scr = Loc!None
        BY <1>1, <3>3 DEF Loc!ScreenReady, LocalInv, Placed
      <4> QED
        BY <1>1, <4>1
    <3>4. CASE Loc!InitOpened(o) \/ Loc!VoiceReplaced(o) \/ Loc!CameraOpened(o) \/ Loc!CameraUnpublished(o)
      BY <1>1, <2>0, <3>4 DEF Loc!InitOpened, Loc!VoiceReplaced, Loc!CameraOpened, Loc!CameraUnpublished, Fields
    <3>5. CASE Loc!AudioOpened(o)
      BY <1>1, <2>0, <3>5 DEF Loc!AudioOpened, Fields
    <3>6. CASE Loc!QualityApplied(o)
      BY <1>1, <3>6 DEF Loc!QualityApplied, Loc!AppliedAgain
    <3>7. CASE \/ Loc!InitPublished(o) \/ Loc!CameraPublished(o) \/ Loc!ScreenCaptured(o) \/ Loc!ScreenRefused(o)
               \/ Loc!ScreenPublished(o) \/ Loc!MicrophoneUsable(o) \/ Loc!MicrophoneRepublished(o)
               \/ Loc!ScreenUnpublished(o) \/ Loc!AudioPrepared(o) \/ Loc!AudioPublished(o)
      <4>1. mm' = mm
        BY <3>7 DEF Loc!InitPublished, Loc!CameraPublished, Loc!ScreenCaptured, Loc!ScreenRefused,
                    Loc!ScreenPublished, Loc!MicrophoneUsable, Loc!MicrophoneRepublished,
                    Loc!ScreenUnpublished, Loc!AudioPrepared, Loc!AudioPublished
      <4> QED
        BY <1>1, <4>1
    <3> HIDE DEF Cause
    <3> QED
      BY <2>5, <3>1, <3>2, <3>3, <3>4, <3>5, <3>6, <3>7 DEF Loc!Continues
  <2> HIDE DEF Cause
  <2> QED
    BY <1>1, <2>1, <2>2, <2>3, <2>4, <2>5 DEF Loc!Next
<1>n. Loc!None = None
  BY DEF Loc!None, None
<1>2. LocalInv /\ [Loc!Next]_Loc!vars
        => [mm.scr # None /\ mm'.scr # mm.scr => Cause]_mm
  <2> HIDE DEF Cause
  <2> QED
    BY <1>1, <1>n DEF Loc!vars
<1>3. Loc!Init => LocalInv
  BY LocalInit
<1>4. LocalInv /\ [Loc!Next]_Loc!vars => LocalInv'
  BY LocalStep
<1> QED
  BY <1>2, <1>3, <1>4, PTL DEF Loc!Spec, ShareStopsForCause, Cause


---------------------------------------------------------------------------
(* Media: what the other participants were told.                           *)

Known(kind, n) == {kind} \X (1 .. n)
SomeOf(kind, n) == Known(kind, n) \cup {Loc!None}
Spoken == {"voice", "share"}
Cameras == {"camon", "camoff"}

(* Where an operation waits, and which captures it refers to.              *)
InOrder(q, n) ==
    \/ /\ q.kind = "init" /\ q.at \in {"open", "publish"} /\ q.cap = Loc!None
    \/ /\ q.kind = "voice" /\ q.at \in {"open", "replace"} /\ q.cap = Loc!None
       /\ q.prev \in Known("mic", n) /\ (q.at = "replace" => q.rev \in 1 .. n)
    \/ /\ q.kind = "camon" /\ q.at = "open" /\ q.cap = Loc!None
    \/ /\ q.kind = "camon" /\ q.at = "publish" /\ q.cap \in Known("cam", n)
    \/ /\ q.kind = "camoff" /\ q.at = "unpublish" /\ q.cap \in Known("cam", n)
    \/ /\ q.kind = "share" /\ q.at = "capture" /\ q.cap = Loc!None
    \/ /\ q.kind = "share" /\ q.at \in {"quality", "publish", "republish"} /\ q.cap \in Known("scr", n)
    \/ /\ q.kind = "share" /\ q.at \in {"repair", "open", "replace"} /\ q.cap \in Known("scr", n)
       /\ q.prev \in Known("mic", n) /\ (q.at = "replace" => q.rev \in 1 .. n)
    \/ /\ q.kind = "unshare" /\ q.cap \in Known("scr", n)
    \/ /\ q.kind = "attach" /\ q.at \in {"prepare", "wait"} /\ q.cap \in Known("scr", n)
    \/ /\ q.kind = "attach" /\ q.at = "publish" /\ q.cap \in Known("scr", n) /\ q.prev \in Known("aud", n)
    \/ /\ q.kind = "quality" /\ q.cap \in Known("scr", n)

(* The captures of the manager, and those of the devices.                  *)
Fitting ==
    /\ mm.mic \in SomeOf("mic", spent.opened) /\ mm.cam \in SomeOf("cam", spent.opened)
    /\ mm.scr \in SomeOf("scr", spent.opened)
    /\ mm.local \subseteq Known("mic", spent.opened) \cup Known("cam", spent.opened)

Any(n) == Known("mic", n) \cup Known("cam", n) \cup Known("scr", n) \cup Known("aud", n)

Running ==
    /\ dev.live \subseteq Any(spent.opened) /\ dev.pub \subseteq Any(spent.opened)
    /\ dev.on \subseteq Known("mic", spent.opened) /\ ended \subseteq Known("scr", spent.opened)
    /\ dev.aud \subseteq Known("scr", spent.opened) \X Known("aud", spent.opened)
    /\ dev.prov \in SomeOf("scr", spent.opened)

(* Which operations are never under way together.                          *)
Early(q) == q.kind = "share" /\ q.at \in {"capture", "quality"}

Apart(q, u) ==
    /\ ~(q.kind \in Spoken /\ u.kind \in Spoken)
    /\ ~(q.kind \in Cameras /\ u.kind \in Cameras)
    /\ ~(q.kind = "attach" /\ u.kind \in {"attach", "share"})
    /\ ~(q.kind = "share" /\ u.kind = "attach")
    /\ ~(q.kind = "init" /\ u.kind = "init" /\ q.call = u.call)
    /\ ~(Early(q) /\ u.kind = "unshare") /\ ~(q.kind = "unshare" /\ Early(u))
    /\ ~(q.kind = "share" /\ q.at = "quality" /\ u.kind = "quality" /\ u.cap = q.cap)
    /\ ~(u.kind = "share" /\ u.at = "quality" /\ q.kind = "quality" /\ u.cap = q.cap)

Alone == \A q, u \in ops : q = u \/ Apart(q, u)

(* How many captures an operation may still open.                          *)
Credit(q, c) ==
    IF q.kind = "init" /\ q.at = "open" /\ q.call = c THEN 1
    ELSE IF q.kind \in {"voice", "camon"} /\ q.at = "open" THEN 1
    ELSE IF q.kind = "attach" /\ q.at \in {"prepare", "wait"} THEN 1
    ELSE IF q.kind = "share" /\ q.at = "capture" THEN 4
    ELSE IF q.kind = "share" /\ q.at \in {"replace", "republish"} THEN 1
    ELSE IF q.kind = "share" THEN 2
    ELSE 0

(* The operations among which at most one may open captures.               *)
Group(q, c) ==
    IF q.kind = "init" /\ q.call = c THEN "init"
    ELSE IF q.kind \in Spoken THEN "spoken"
    ELSE IF q.kind \in Cameras THEN "camera"
    ELSE IF q.kind = "attach" THEN "attach"
    ELSE "none"

Owes(S, c, g) ==
    IF \E q \in S : Group(q, c) = g THEN Credit(CHOOSE q \in S : Group(q, c) = g, c) ELSE 0

Funded ==
    spent.opened + Owes(ops, call, "init") + Owes(ops, call, "spoken") + Owes(ops, call, "camera")
      + Owes(ops, call, "attach") <= spent.calls + 4 * spent.asked

Counted ==
    /\ spent.calls <= MaxCalls /\ spent.asked <= MaxAsked /\ spent.faults <= MaxFaults
    /\ call <= spent.calls
    /\ \A q \in ops : q.call <= spent.calls

(* What an operation relies on the microphone, the camera, the screen, its *)
(* audio and its quality being.                                            *)
MicRelied(q, c, mic) ==
    /\ q.call = c /\ q.kind # "init" => mic # Loc!None
    /\ q.call = c /\ q.kind = "init" /\ q.at = "open" => mic = Loc!None
    /\ q.kind \in Spoken /\ q.at = "replace" /\ q.call = c => q.prev = mic

CamRelied(q, c, cam) ==
    q.kind \in Cameras =>
      /\ q.kind = "camoff" \/ q.at = "open" \/ q.call # c => cam = Loc!None
      /\ q.kind = "camon" /\ q.at = "publish" /\ q.call = c => cam = q.cap

ScrRelied(q, c, scr) ==
    /\ q.kind = "unshare" => scr = Loc!None
    /\ q.kind \in {"share", "attach"} => scr \in {Loc!None, q.cap} /\ (q.call # c => scr = Loc!None)

AudRelied(q, c, aud, live, gone) ==
    /\ q.kind = "share" /\ q.audio # "display" => \A p \in aud : p[1] # q.cap
    /\ q.kind = "share" /\ q.at = "quality" /\ q.call = c =>
         q.cap \in live \cup gone /\ \A p \in aud : p[1] = q.cap => p[2] \in live
    /\ q.kind = "share" /\ q.at = "quality" /\ q.audio = "display" => \E p \in aud : p[1] = q.cap
    /\ q.kind = "attach" => \A p \in aud : p[1] = q.cap => q.at = "publish" /\ p[2] = q.prev

QualityRelied(q, c, scr) == q.kind = "quality" /\ q.cap = scr => q.call = c

MicTold ==
    /\ call = 0 => dev.pub = {} /\ mm.mic = Loc!None
    /\ \A k \in dev.pub : k[1] = "mic" => k = mm.mic
    /\ mm.mic # Loc!None => (mm.mic \in dev.on <=> mm.says.mic)
    /\ mm.mic = Loc!None => mm.says.mic
    /\ mm.scr # Loc!None \/ mm.cam # Loc!None => mm.mic # Loc!None
    /\ \A q \in ops : MicRelied(q, call, mm.mic)

CamTold ==
    /\ \A k \in dev.live \cap dev.pub : k[1] = "cam" => k = mm.cam
    /\ mm.cam # Loc!None => mm.cam \in dev.live /\ mm.cam \in dev.pub
    /\ mm.says.cam <=> mm.cam # Loc!None
    /\ \A q \in ops : CamRelied(q, call, mm.cam)

ScrTold ==
    /\ \A k \in dev.live \cap dev.pub : k[1] = "scr" => k = mm.scr
    /\ mm.scr # Loc!None => mm.scr \in dev.pub /\ mm.scr \in dev.live \cup ended
    /\ mm.says.scr <=> mm.scr # Loc!None
    /\ \A q \in ops : ScrRelied(q, call, mm.scr)

AudTold ==
    /\ \A k \in dev.live \cap dev.pub : k[1] = "aud" => <<mm.scr, k>> \in dev.aud
    /\ mm.says.aud <=> \E k \in dev.live \cap dev.pub : k[1] = "aud"
    /\ \A q \in ops : AudRelied(q, call, dev.aud, dev.live, ended)

Settled ==
    /\ mm.scr # Loc!None /\ mm.scr \in dev.live =>
         \/ dev.applied[mm.scr[2]] = mm.q /\ dev.sent[mm.scr[2]] = mm.q
         \/ \E q \in ops : q.kind = "quality" /\ q.cap = mm.scr
    /\ \A q \in ops : QualityRelied(q, call, mm.scr)

OpsTold == (\A q \in ops : InOrder(q, spent.opened)) /\ Alone /\ Funded /\ Counted

Told == Fitting /\ Running /\ MicTold /\ CamTold /\ ScrTold /\ AudTold /\ Settled

Bounds == {MaxCalls, MaxAsked, MaxFaults} \subseteq Nat

ToldInv == Bounds /\ LocalInv /\ OpsTold /\ Told

LEMMA KnownGrows ==
    ASSUME NEW n \in Nat, NEW m \in Nat, n <= m
    PROVE  /\ \A kind : Known(kind, n) \subseteq Known(kind, m) /\ SomeOf(kind, n) \subseteq SomeOf(kind, m)
           /\ Any(n) \subseteq Any(m)
           /\ \A q : InOrder(q, n) => InOrder(q, m)
<1>1. 1 .. n \subseteq 1 .. m
  OBVIOUS
<1>2. \A kind : Known(kind, n) \subseteq Known(kind, m) /\ SomeOf(kind, n) \subseteq SomeOf(kind, m)
  BY <1>1 DEF Known, SomeOf
<1>3. \A q : InOrder(q, n) => InOrder(q, m)
  <2> SUFFICES ASSUME NEW q, InOrder(q, n) PROVE InOrder(q, m)
    OBVIOUS
  <2> DEFINE K(kind) == Known(kind, n)
  <2> QED
    BY <1>1, <1>2 DEF InOrder
<1> QED
  BY <1>2, <1>3 DEF Any

(* What an operation holds that is in order.                               *)
LEMMA KnownKind ==
    ASSUME NEW n \in Nat, NEW kind, NEW k \in Known(kind, n)
    PROVE  k[1] = kind /\ k[2] \in 1 .. n /\ k = <<kind, k[2]>>
BY DEF Known

LEMMA NoneKind ==
    ASSUME NEW n \in Nat
    PROVE  /\ Loc!None \notin Any(n) /\ Loc!None[1] = "none"
           /\ \A kind \in {"mic", "cam", "scr", "aud"} : Loc!None \notin Known(kind, n)
BY DEF Any, Known, Loc!None

LEMMA TypedOps ==
    ASSUME ToldInv
    PROVE  /\ mm \in Fields /\ dev \in Devices /\ ops \subseteq Operation /\ ended \subseteq Captures
           /\ call \in Nat /\ spent \in [calls : Nat, asked : Nat, faults : Nat, opened : Nat]
           /\ spent.opened \in Nat /\ spent.calls \in Nat /\ spent.asked \in Nat /\ mm.q \in Nat
           /\ mm.scr \in Maybe /\ mm.mic \in Maybe /\ mm.cam \in Maybe /\ Loc!None \in Maybe
           /\ LocalShape /\ \A q \in ops : q.call # 0 /\ q.call \in Nat
BY DEF ToldInv, LocalInv, LocalShape, Fields, Maybe, Placed, Operation

(* The frames: what a step may leave of each part of the invariant.        *)
Became(o, u) == ops' \subseteq (ops \ {o}) \cup {u}

LEMMA StaysOrdered ==
    ASSUME ToldInv, spent'.opened \in Nat, spent.opened <= spent'.opened, NEW o, NEW u, Became(o, u),
           u \in ops' => InOrder(u, spent'.opened)
    PROVE  \A q \in ops' : InOrder(q, spent'.opened)
BY KnownGrows, TypedOps DEF ToldInv, Told, OpsTold, Became

LEMMA StaysAlone ==
    ASSUME Alone, NEW o, NEW u, Became(o, u),
           u \in ops' => \A q \in ops : q = o \/ Apart(q, u)
    PROVE  Alone'
<1>1. \A q, r : Apart(q, r) => Apart(r, q)
  BY DEF Apart
<1>2. \A q, r \in ops' : q = r \/ Apart(q, r)
  BY <1>1 DEF Alone, Became
<1> QED
  BY <1>2 DEF Alone

(* What moves on without becoming something else stays apart from others.  *)
LEMMA ApartKept ==
    ASSUME NEW q, NEW o, NEW u, Apart(q, o), u.kind = o.kind, u.call = o.call,
           Early(u) => Early(o), u.kind = "share" /\ u.at = "quality" => o.at = "quality" /\ u.cap = o.cap,
           u.kind = "quality" => u.cap = o.cap
    PROVE  Apart(q, u)
BY DEF Apart, Early

(* A share that leaves the screen or waits for its audio.                  *)
LEMMA ApartLeft ==
    ASSUME NEW q, NEW o, NEW u, Apart(q, o), o.kind = "share", u.kind \in {"unshare", "attach"}
    PROVE  Apart(q, u)
<1>1. q.kind \notin Spoken /\ q.kind # "attach"
  BY DEF Apart, Spoken
<1>2. q.kind # "share"
  BY <1>1 DEF Spoken
<1> QED
  BY <1>1, <1>2 DEF Apart, Early, Cameras

(* The operation that stops a share that was on the screen.                *)
LEMMA ApartStop ==
    ASSUME NEW q, NEW u, u.kind = "unshare", ~Early(q)
    PROVE  Apart(q, u)
BY DEF Apart, Early, Spoken, Cameras

Groups == {"init", "spoken", "camera", "attach"}

LEMMA OwesSome ==
    ASSUME NEW S, NEW c, NEW g
    PROVE  /\ Owes(S, c, g) \in 0 .. 4
           /\ (\A q \in S : Group(q, c) # g) => Owes(S, c, g) = 0
BY DEF Owes, Credit

LEMMA OwesOne ==
    ASSUME NEW S, NEW c, NEW q \in S, Group(q, c) # "none",
           \A r \in S : r = q \/ Apart(q, r)
    PROVE  Owes(S, c, Group(q, c)) = Credit(q, c)
<1>1. \A r \in S : Group(r, c) = Group(q, c) => r = q
  <2> SUFFICES ASSUME NEW r \in S, Group(r, c) = Group(q, c), Apart(q, r) PROVE FALSE
    OBVIOUS
  <2> QED
    BY DEF Apart, Group, Spoken, Cameras
<1> DEFINE w == CHOOSE r \in S : Group(r, c) = Group(q, c)
<1>2. w = q
  BY <1>1
<1> QED
  BY <1>2 DEF Owes

(* Another group owes no more after the step than before it.               *)
LEMMA OwesRest ==
    ASSUME Alone, NEW o, NEW u, Became(o, u), NEW g \in Groups, u \in ops' => Group(u, call) # g
    PROVE  /\ Owes(ops', call, g) <= Owes(ops, call, g)
           /\ o \in ops /\ Group(o, call) = g => Owes(ops', call, g) = 0
<1>0. Owes(ops, call, g) \in 0 .. 4 /\ g # "none"
  BY OwesSome DEF Groups
<1>1. CASE \A q \in ops' : Group(q, call) # g
  BY <1>0, <1>1, OwesSome
<1>2. ASSUME NEW q \in ops', Group(q, call) = g
      PROVE  /\ Owes(ops', call, g) <= Owes(ops, call, g)
             /\ ~(o \in ops /\ Group(o, call) = g)
  <2>1. q \in ops /\ q # o
    BY <1>2 DEF Became
  <2>2. \A r \in ops : Group(r, call) = g => r = q
    <3> SUFFICES ASSUME NEW r \in ops, Group(r, call) = g, Apart(q, r) PROVE FALSE
      BY <2>1 DEF Alone
    <3> QED
      BY <1>0, <1>2 DEF Apart, Group, Spoken, Cameras
  <2>3. Owes(ops, call, g) = Credit(q, call)
    BY <1>0, <1>2, <2>1, OwesOne DEF Alone
  <2>4. \A r \in ops' : r = q \/ Group(r, call) # g
    BY <2>2 DEF Became
  <2>5. Owes(ops', call, g) = Credit(q, call)
    <3> DEFINE w == CHOOSE r \in ops' : Group(r, call) = g
    <3>1. w = q
      BY <1>2, <2>4
    <3> QED
      BY <1>2, <3>1 DEF Owes
  <2> QED
    BY <1>0, <2>1, <2>2, <2>3, <2>5
<1> QED
  BY <1>1, <1>2

(* The bound on captures: an operation pays for what it opens, a request   *)
(* brings what its operation will need.                                    *)
LEMMA StaysFunded ==
    ASSUME Funded, Alone, NEW o, NEW u, Became(o, u), call' = call,
           spent.opened \in Nat, spent.calls \in Nat, spent.asked \in Nat,
           spent'.opened \in Nat, spent'.calls = spent.calls, spent'.asked \in Nat,
           u \in ops' => \A q \in ops : q = o \/ Apart(q, u),
           NEW paid \in 0 .. 4, NEW due \in 0 .. 4,
           paid = 0 \/ (o \in ops /\ paid = Credit(o, call) /\ Group(o, call) # "none"),
           u \in ops' /\ Group(u, call) # "none" => due = Credit(u, call),
           (u \in ops' /\ paid # 0) =>
               (Group(u, call) = Group(o, call)
                \/ (Group(o, call) = "spoken" /\ Group(u, call) \in {"attach", "none"})),
           spent'.opened + due + 4 * spent.asked <= spent.opened + paid + 4 * spent'.asked
    PROVE  Funded'
<1> DEFINE A(g) == Owes(ops, call, g)
           B(g) == Owes(ops', call, g)
<1>0. \A g \in Groups : A(g) \in 0 .. 4 /\ B(g) \in 0 .. 4
  BY OwesSome
<1>1. ASSUME NEW g \in Groups PROVE (u \in ops' /\ Group(u, call) = g) \/ B(g) <= A(g)
  BY <1>1, OwesRest
<1>2. ASSUME NEW g \in Groups, u \in ops', Group(u, call) = g PROVE B(g) = due
  <2>1. g # "none"
    BY DEF Groups
  <2>2. \A r \in ops' : r = u \/ Apart(u, r)
    <3>1. \A q, r : Apart(q, r) => Apart(r, q)
      BY DEF Apart
    <3> QED
      BY <1>2, <3>1 DEF Became
  <2> QED
    BY <1>2, <2>1, <2>2, OwesOne
<1>3. paid # 0 => A(Group(o, call)) = paid
  BY OwesOne DEF Alone
<1>4. paid # 0 /\ (u \in ops' => Group(u, call) # Group(o, call)) => B(Group(o, call)) = 0
  <2>1. Group(o, call) \in Groups \cup {"none"}
    BY DEF Group, Groups
  <2> QED
    BY <2>1, OwesRest
<1>5. Group(o, call) \in Groups \cup {"none"} /\ Group(u, call) \in Groups \cup {"none"}
  BY DEF Group, Groups
<1> HIDE DEF A, B
<1> DEFINE p(g) == IF paid # 0 /\ g = Group(o, call) THEN paid ELSE 0
           d(g) == IF u \in ops' /\ g = Group(u, call) THEN due ELSE 0
<1>6. ASSUME NEW g \in Groups PROVE B(g) + p(g) <= A(g) + d(g)
  <2>0. A(g) \in Nat /\ B(g) \in Nat /\ paid \in Nat /\ due \in Nat
    BY <1>0
  <2>1. CASE u \in ops' /\ g = Group(u, call)
    <3>1. B(g) = due /\ p(g) <= A(g)
      BY <1>2, <1>3, <2>0, <2>1
    <3> QED
      BY <2>0, <2>1, <3>1
  <2>2. CASE ~(u \in ops' /\ g = Group(u, call)) /\ paid # 0 /\ g = Group(o, call)
    <3>1. B(g) = 0 /\ A(g) = paid
      BY <1>3, <1>4, <2>2
    <3> QED
      BY <2>0, <2>2, <3>1
  <2>3. CASE ~(u \in ops' /\ g = Group(u, call)) /\ ~(paid # 0 /\ g = Group(o, call))
    BY <1>1, <2>0, <2>3
  <2> QED
    BY <2>1, <2>2, <2>3
<1>7. /\ p("init") \in Nat /\ p("spoken") \in Nat /\ p("camera") \in Nat /\ p("attach") \in Nat
      /\ d("init") \in Nat /\ d("spoken") \in Nat /\ d("camera") \in Nat /\ d("attach") \in Nat
  OBVIOUS
<1>8. p("init") + p("spoken") + p("camera") + p("attach") = paid
  <2>1. paid # 0 => Group(o, call) \in Groups
    BY <1>5
  <2> QED
    BY <2>1 DEF Groups
<1>9. d("init") + d("spoken") + d("camera") + d("attach") <= due
  OBVIOUS
<1> HIDE DEF p, d
<1>10. /\ B("init") + p("init") <= A("init") + d("init")
       /\ B("spoken") + p("spoken") <= A("spoken") + d("spoken")
       /\ B("camera") + p("camera") <= A("camera") + d("camera")
       /\ B("attach") + p("attach") <= A("attach") + d("attach")
  BY <1>6 DEF Groups
<1>11. /\ A("init") \in Nat /\ A("spoken") \in Nat /\ A("camera") \in Nat /\ A("attach") \in Nat
       /\ B("init") \in Nat /\ B("spoken") \in Nat /\ B("camera") \in Nat /\ B("attach") \in Nat
  BY <1>0 DEF Groups
<1>12. B("init") + B("spoken") + B("camera") + B("attach") + paid
        <= A("init") + A("spoken") + A("camera") + A("attach") + due
  BY <1>7, <1>8, <1>9, <1>10, <1>11
<1>13. spent.opened + A("init") + A("spoken") + A("camera") + A("attach") <= spent.calls + 4 * spent.asked
  BY DEF Funded, A
<1>14. spent'.opened + B("init") + B("spoken") + B("camera") + B("attach") <= spent'.calls + 4 * spent'.asked
  BY <1>11, <1>12, <1>13
<1> QED
  BY <1>14 DEF Funded, B

(* Tracks of a kind that a step does not touch.                            *)
Untouched(kind) ==
    \A k : k[1] = kind => (k \in dev'.live <=> k \in dev.live) /\ (k \in dev'.pub <=> k \in dev.pub)

(* No kind but kinds: what an operation of another kind relies on.         *)
Relies(q, c) ==
    /\ CamRelied(q, c, mm.cam) /\ ScrRelied(q, c, mm.scr) /\ QualityRelied(q, c, mm.scr)
    /\ \A L, X : AudRelied(q, c, dev.aud, L, X)

LEMMA MicStays ==
    ASSUME ToldInv, NEW o, NEW u, Became(o, u), call' = call, mm'.mic = mm.mic,
           mm'.says.mic = mm.says.mic,
           mm'.scr # Loc!None \/ mm'.cam # Loc!None => mm.mic # Loc!None,
           \A k \in dev'.pub : k \in dev.pub \/ (call # 0 /\ (k[1] = "mic" => k = mm.mic)),
           mm.mic # Loc!None => (mm.mic \in dev'.on <=> mm.mic \in dev.on),
           u \in ops' => MicRelied(u, call, mm.mic)
    PROVE  MicTold'
<1>1. MicTold
  BY DEF ToldInv, Told, OpsTold
<1>2. \A q \in ops' : MicRelied(q, call', mm'.mic)
  BY <1>1 DEF MicTold, Became
<1>3. call' = 0 => dev'.pub = {} /\ mm'.mic = Loc!None
  BY <1>1 DEF MicTold
<1>4. \A k \in dev'.pub : k[1] = "mic" => k = mm'.mic
  BY <1>1 DEF MicTold
<1>5. /\ mm'.mic # Loc!None => (mm'.mic \in dev'.on <=> mm'.says.mic)
      /\ mm'.mic = Loc!None => mm'.says.mic
  BY <1>1 DEF MicTold
<1> QED
  BY <1>2, <1>3, <1>4, <1>5 DEF MicTold

LEMMA CamStays ==
    ASSUME ToldInv, NEW o, NEW u, Became(o, u), call' = call, mm'.cam = mm.cam,
           mm'.says.cam = mm.says.cam, Untouched("cam"),
           u \in ops' => CamRelied(u, call, mm.cam)
    PROVE  CamTold'
<1>1. CamTold /\ mm.cam \in SomeOf("cam", spent.opened)
  BY DEF ToldInv, Told, OpsTold, Fitting
<1>2. \A q \in ops' : CamRelied(q, call', mm'.cam)
  BY <1>1 DEF CamTold, Became
<1>3. mm.cam # Loc!None => mm.cam[1] = "cam"
  BY <1>1 DEF SomeOf, Known
<1>4. mm'.cam # Loc!None => mm'.cam \in dev'.live /\ mm'.cam \in dev'.pub
  BY <1>1, <1>3 DEF CamTold, Untouched
<1>5. \A k \in dev'.live \cap dev'.pub : k[1] = "cam" => k = mm'.cam
  BY <1>1 DEF CamTold, Untouched
<1>6. mm'.says.cam <=> mm'.cam # Loc!None
  BY <1>1 DEF CamTold
<1> QED
  BY <1>2, <1>4, <1>5, <1>6 DEF CamTold

LEMMA ScrStays ==
    ASSUME ToldInv, NEW o, NEW u, Became(o, u), call' = call, mm'.scr = mm.scr,
           mm'.says.scr = mm.says.scr, Untouched("scr"), ended' = ended,
           u \in ops' => ScrRelied(u, call, mm.scr)
    PROVE  ScrTold'
<1>1. ScrTold /\ mm.scr \in SomeOf("scr", spent.opened)
  BY DEF ToldInv, Told, OpsTold, Fitting
<1>2. \A q \in ops' : ScrRelied(q, call', mm'.scr)
  BY <1>1 DEF ScrTold, Became
<1>3. mm.scr # Loc!None => mm.scr[1] = "scr"
  BY <1>1 DEF SomeOf, Known
<1>4. mm'.scr # Loc!None => mm'.scr \in dev'.pub /\ mm'.scr \in dev'.live \cup ended'
  BY <1>1, <1>3 DEF ScrTold, Untouched
<1>5. \A k \in dev'.live \cap dev'.pub : k[1] = "scr" => k = mm'.scr
  BY <1>1 DEF ScrTold, Untouched
<1>6. mm'.says.scr <=> mm'.scr # Loc!None
  BY <1>1 DEF ScrTold
<1> QED
  BY <1>2, <1>4, <1>5, <1>6 DEF ScrTold

LEMMA AudStays ==
    ASSUME ToldInv, NEW o, NEW u, Became(o, u), call' = call, mm'.scr = mm.scr,
           mm'.says.aud = mm.says.aud, Untouched("aud"), dev'.aud = dev.aud,
           \A k \in dev.live \cup ended : k[1] = "scr" =>
               \/ k \in dev'.live \cup ended'
               \/ \A q \in ops : q.cap = k => ~Early(q) \/ q.call # call,
           u \in ops' => AudRelied(u, call, dev.aud, dev'.live, ended')
    PROVE  AudTold'
<1>1. AudTold /\ Running /\ \A q \in ops : InOrder(q, spent.opened)
  BY DEF ToldInv, Told, OpsTold
<1>2. ASSUME NEW q \in ops, AudRelied(q, call, dev.aud, dev.live, ended)
      PROVE AudRelied(q, call, dev.aud, dev'.live, ended')
  <2>1. CASE q.kind = "share" /\ q.at = "quality" /\ q.call = call
    <3>1. q.cap \in Known("scr", spent.opened) /\ q.cap \in dev.live \cup ended
      BY <1>1, <1>2, <2>1 DEF InOrder, AudRelied
    <3>2. q.cap \in dev'.live \cup ended'
      BY <2>1, <3>1 DEF Known, Early
    <3>3. (\A p \in dev.aud : p[2][1] = "aud") /\ (\A k \in ended : k[1] = "scr")
      BY <1>1 DEF Running, Known
    <3>4. \A p \in dev.aud : p[1] = q.cap => p[2] \in dev'.live
      BY <1>2, <2>1, <3>3 DEF AudRelied, Untouched
    <3> QED
      BY <1>2, <2>1, <3>2, <3>4 DEF AudRelied
  <2>2. CASE ~(q.kind = "share" /\ q.at = "quality" /\ q.call = call)
    BY <1>2, <2>2 DEF AudRelied
  <2> QED
    BY <2>1, <2>2
<1>3. \A q \in ops' : AudRelied(q, call', dev'.aud, dev'.live, ended')
  BY <1>1, <1>2 DEF AudTold, Became
<1>4. \A k \in dev'.live \cap dev'.pub : k[1] = "aud" => <<mm'.scr, k>> \in dev'.aud
  BY <1>1 DEF AudTold, Untouched
<1>5. mm'.says.aud <=> \E k \in dev'.live \cap dev'.pub : k[1] = "aud"
  BY <1>1 DEF AudTold, Untouched
<1> QED
  BY <1>3, <1>4, <1>5 DEF AudTold

LEMMA SettledStays ==
    ASSUME ToldInv, NEW o, NEW u, Became(o, u), ops \ {o} \subseteq ops', call' = call, mm'.scr = mm.scr,
           mm'.q = mm.q \/ mm.scr = Loc!None,
           mm.scr # Loc!None /\ mm.scr \in dev'.live => mm.scr \in dev.live,
           dev'.applied = dev.applied, dev'.sent = dev.sent,
           o \in ops => o.kind # "quality",
           u \in ops' => QualityRelied(u, call, mm.scr)
    PROVE  Settled'
<1>1. Settled
  BY DEF ToldInv, Told, OpsTold
<1>2. \A q \in ops' : QualityRelied(q, call', mm'.scr)
  BY <1>1 DEF Settled, Became
<1>3. \A q \in ops : q.kind = "quality" => q \in ops'
  OBVIOUS
<1>4. mm'.scr # Loc!None /\ mm'.scr \in dev'.live =>
         \/ dev'.applied[mm'.scr[2]] = mm'.q /\ dev'.sent[mm'.scr[2]] = mm'.q
         \/ \E q \in ops' : q.kind = "quality" /\ q.cap = mm'.scr
  BY <1>1, <1>3 DEF Settled
<1> QED
  BY <1>2, <1>4 DEF Settled

(* A step that touches no more than the microphone.                        *)
LEMMA OthersTold ==
    ASSUME ToldInv, NEW o, NEW u, Became(o, u), ops \ {o} \subseteq ops', call' = call,
           mm'.cam = mm.cam, mm'.scr = mm.scr, mm'.q = mm.q \/ mm.scr = Loc!None,
           mm'.says.cam = mm.says.cam, mm'.says.scr = mm.says.scr, mm'.says.aud = mm.says.aud,
           dev'.aud = dev.aud, dev'.applied = dev.applied, dev'.sent = dev.sent, ended' = ended,
           Untouched("cam"), Untouched("scr"), Untouched("aud"),
           o \in ops => o.kind # "quality",
           u \in ops' => Relies(u, call)
    PROVE  CamTold' /\ ScrTold' /\ AudTold' /\ Settled'
<1>0. u \in ops' => /\ CamRelied(u, call, mm.cam) /\ ScrRelied(u, call, mm.scr)
                    /\ QualityRelied(u, call, mm.scr) /\ AudRelied(u, call, dev.aud, dev'.live, ended')
  BY DEF Relies
<1>1. CamTold'
  BY <1>0, CamStays
<1>2. ScrTold'
  BY <1>0, ScrStays
<1>3. AudTold'
  <2>1. \A k \in dev.live : k[1] = "scr" => k \in dev'.live
    BY DEF Untouched
  <2> QED
    BY <1>0, <2>1, AudStays
<1>4. Settled'
  <2>1. mm.scr # Loc!None => mm.scr[1] = "scr"
    BY DEF ToldInv, Told, OpsTold, Fitting, SomeOf, Known
  <2>2. mm.scr # Loc!None /\ mm.scr \in dev'.live => mm.scr \in dev.live
    BY <2>1 DEF Untouched
  <2> QED
    BY <1>0, <2>2, SettledStays
<1> QED
  BY <1>1, <1>2, <1>3, <1>4

(* An operation of the microphone or of a beginning call relies on nothing *)
(* else; a share that goes on, or waits for its audio, on what it did.     *)
LEMMA ReliesLittle ==
    ASSUME NEW u, u.kind \in {"init", "voice"}, NEW c
    PROVE  Relies(u, c)
BY DEF Relies, CamRelied, ScrRelied, QualityRelied, AudRelied, Cameras

LEMMA ShareRelies ==
    ASSUME ToldInv, NEW o \in ops, o.kind \in {"share", "attach"}, NEW u,
           u.call = o.call, u.cap = o.cap,
           \/ u.kind = o.kind /\ u.audio = o.audio /\ u.at \notin {"capture", "quality", "publish"} /\ o.at # "publish"
           \/ u.kind = "share" /\ o.kind = "share" /\ u.audio = o.audio /\ u.at # "quality"
           \/ o.kind = "share" /\ o.audio = "pipewire" /\ u.kind = "attach"
    PROVE  Relies(u, call)
<1>1. ScrRelied(o, call, mm.scr) /\ AudRelied(o, call, dev.aud, dev.live, ended)
  BY DEF ToldInv, Told, OpsTold, ScrTold, AudTold
<1>2. CamRelied(u, call, mm.cam) /\ ScrRelied(u, call, mm.scr) /\ QualityRelied(u, call, mm.scr)
  BY <1>1 DEF CamRelied, ScrRelied, QualityRelied, Cameras
<1>3. ASSUME NEW L, NEW X PROVE AudRelied(u, call, dev.aud, L, X)
  BY <1>1 DEF AudRelied
<1> QED
  BY <1>2, <1>3 DEF Relies

(* The captures stay of their kinds.                                       *)
LEMMA StaysFitting ==
    ASSUME ToldInv, NEW n \in Nat, spent'.opened = n, spent.opened <= n,
           mm'.mic \in {mm.mic} \cup SomeOf("mic", n), mm'.cam \in {mm.cam} \cup SomeOf("cam", n),
           mm'.scr \in {mm.scr} \cup SomeOf("scr", n),
           mm'.local \subseteq mm.local \cup Known("mic", n) \cup Known("cam", n),
           dev'.live \subseteq dev.live \cup Any(n), dev'.pub \subseteq dev.pub \cup Any(n),
           dev'.on \subseteq dev.on \cup Known("mic", n), ended' \subseteq ended \cup Known("scr", n),
           dev'.aud \subseteq dev.aud \cup (Known("scr", n) \X Known("aud", n)),
           dev'.prov \in {dev.prov} \cup SomeOf("scr", n)
    PROVE  Fitting' /\ Running'
<1>1. spent.opened \in Nat /\ Fitting /\ Running
  BY TypedOps DEF ToldInv, Told
<1> DEFINE m == spent.opened
<1>2. /\ \A kind : Known(kind, m) \subseteq Known(kind, n) /\ SomeOf(kind, m) \subseteq SomeOf(kind, n)
      /\ Any(m) \subseteq Any(n)
  BY <1>1, KnownGrows
<1>3. /\ mm.mic \in SomeOf("mic", m) /\ mm.cam \in SomeOf("cam", m) /\ mm.scr \in SomeOf("scr", m)
      /\ mm.local \subseteq Known("mic", m) \cup Known("cam", m)
  BY <1>1 DEF Fitting
<1>4. /\ dev.live \subseteq Any(m) /\ dev.pub \subseteq Any(m) /\ dev.on \subseteq Known("mic", m)
      /\ ended \subseteq Known("scr", m) /\ dev.prov \in SomeOf("scr", m)
      /\ dev.aud \subseteq Known("scr", m) \X Known("aud", m)
  BY <1>1 DEF Running
<1> HIDE DEF m
<1>5. Fitting'
  BY <1>2, <1>3 DEF Fitting
<1>6. dev'.aud \subseteq Known("scr", n) \X Known("aud", n)
  BY <1>2, <1>4
<1>7. Running'
  BY <1>2, <1>4, <1>6 DEF Running
<1> QED
  BY <1>5, <1>7

Paid(o) == IF o \in ops THEN Credit(o, call) ELSE 0

(* How the operations go on, in a call that goes on: o becomes u or ends,  *)
(* or u begins.                                                            *)
LEMMA OpsGo ==
    ASSUME ToldInv, LocalShape', call' = call, spent'.calls = spent.calls, spent'.asked <= MaxAsked,
           spent'.faults <= MaxFaults, spent.opened <= spent'.opened, NEW o, NEW u, Became(o, u),
           u \in ops' => /\ InOrder(u, spent'.opened) /\ u.call <= spent.calls
                         /\ \A q \in ops : q = o \/ Apart(q, u),
           (u \in ops' /\ Paid(o) # 0) =>
               (Group(u, call) = Group(o, call)
                \/ (Group(o, call) = "spoken" /\ Group(u, call) \in {"attach", "none"})),
           NEW due \in 0 .. 4, u \in ops' => due = Credit(u, call),
           spent'.opened + due + 4 * spent.asked <= spent.opened + Paid(o) + 4 * spent'.asked
    PROVE  OpsTold'
<1>1. /\ spent' \in [calls : Nat, asked : Nat, faults : Nat, opened : Nat] /\ spent'.opened \in Nat /\ spent'.asked \in Nat
      /\ spent.opened \in Nat /\ spent.calls \in Nat /\ spent.asked \in Nat
  BY TypedOps DEF LocalShape
<1>2. \A q \in ops' : InOrder(q, spent'.opened)
  BY <1>1, StaysOrdered
<1>3. Alone /\ Funded /\ Counted
  BY DEF ToldInv, OpsTold
<1>4. Alone'
  BY <1>3, StaysAlone
<1>5. Funded'
  <2> DEFINE paid == Paid(o)
  <2>1. paid \in 0 .. 4
    BY DEF Paid, Credit
  <2>2. paid = 0 \/ (o \in ops /\ paid = Credit(o, call) /\ Group(o, call) # "none")
    BY DEF Paid, Credit, Group, Spoken, Cameras
  <2>3. u \in ops' => \A q \in ops : q = o \/ Apart(q, u)
    OBVIOUS
  <2>4. (u \in ops' /\ Group(u, call) # "none") => due = Credit(u, call)
    OBVIOUS
  <2>5. (u \in ops' /\ paid # 0) =>
               (Group(u, call) = Group(o, call)
                \/ (Group(o, call) = "spoken" /\ Group(u, call) \in {"attach", "none"}))
    OBVIOUS
  <2>6. spent'.opened + due + 4 * spent.asked <= spent.opened + paid + 4 * spent'.asked
    OBVIOUS
  <2> HIDE DEF paid
  <2> QED
    BY <1>1, <1>3, <2>1, <2>2, <2>3, <2>4, <2>5, <2>6, StaysFunded
<1>6. Counted'
  BY <1>1, <1>3 DEF Counted, Became
<1> QED
  BY <1>2, <1>4, <1>5, <1>6 DEF OpsTold

(* An operation ends.                                                      *)
LEMMA OpsEnd ==
    ASSUME ToldInv, LocalShape', call' = call, NEW o, ops' = ops \ {o}, spent' = spent \/ Loc!Fault
    PROVE  OpsTold'
<1>1. /\ spent \in [calls : Nat, asked : Nat, faults : Nat, opened : Nat]
      /\ spent.faults \in Nat /\ MaxFaults \in Nat /\ Counted
  BY TypedOps DEF ToldInv, Bounds, OpsTold
<1>2. /\ spent'.calls = spent.calls /\ spent'.asked = spent.asked /\ spent'.opened = spent.opened
      /\ spent'.faults <= MaxFaults
  BY <1>1 DEF Loc!Fault, Counted
<1>3. Became(o, o) /\ o \notin ops'
  BY DEF Became
<1>4. Paid(o) \in 0 .. 4 /\ spent.opened \in Nat /\ spent.asked \in Nat
  BY <1>1 DEF Paid, Credit
<1>5. spent'.opened + 0 + 4 * spent.asked <= spent.opened + Paid(o) + 4 * spent'.asked
  BY <1>2, <1>4
<1> QED
  BY <1>1, <1>2, <1>3, <1>4, <1>5, OpsGo DEF Counted

(* An operation goes on without opening anything.                          *)
LEMMA OpsMove ==
    ASSUME ToldInv, LocalShape', call' = call, NEW o \in ops, NEW u, ops' = (ops \ {o}) \cup {u},
           spent' = spent \/ Loc!Fault, InOrder(u, spent.opened), u.call = o.call,
           \A q \in ops : q = o \/ Apart(q, u),
           \/ Group(u, call) = Group(o, call)
           \/ Group(o, call) = "spoken" /\ Group(u, call) \in {"attach", "none"}
           \/ Credit(o, call) = 0,
           Credit(u, call) <= Credit(o, call)
    PROVE  OpsTold'
<1>1. /\ spent \in [calls : Nat, asked : Nat, faults : Nat, opened : Nat]
      /\ spent.faults \in Nat /\ MaxFaults \in Nat /\ Counted
  BY TypedOps DEF ToldInv, Bounds, OpsTold
<1>2. /\ spent'.calls = spent.calls /\ spent'.asked = spent.asked /\ spent'.opened = spent.opened
      /\ spent'.faults <= MaxFaults
  BY <1>1 DEF Loc!Fault, Counted
<1>3. Became(o, u) /\ u.call <= spent.calls
  BY <1>1 DEF Became, Counted
<1>4. /\ Paid(o) \in 0 .. 4 /\ spent.opened \in Nat /\ spent.asked \in Nat /\ Credit(u, call) \in 0 .. 4
      /\ Paid(o) = Credit(o, call)
  BY <1>1 DEF Paid, Credit
<1>5. spent'.opened + Credit(u, call) + 4 * spent.asked <= spent.opened + Paid(o) + 4 * spent'.asked
  BY <1>2, <1>4
<1> QED
  BY <1>1, <1>2, <1>3, <1>4, <1>5, OpsGo DEF Counted

(* A step of an operation that touches no capture.                         *)
LEMMA ToldKept ==
    ASSUME ToldInv, call' = call, mm' = mm, dev' = dev, ended' = ended,
           spent'.opened \in Nat, spent.opened <= spent'.opened,
           NEW o, NEW u, Became(o, u), ops \ {o} \subseteq ops', o \in ops => o.kind # "quality",
           u \in ops' => MicRelied(u, call, mm.mic) /\ Relies(u, call)
    PROVE  Told'
<1>1. Fitting' /\ Running'
  BY StaysFitting
<1>2. MicTold'
  <2>1. MicTold
    BY DEF ToldInv, Told
  <2>2. mm.scr # Loc!None \/ mm.cam # Loc!None => mm.mic # Loc!None
    BY <2>1 DEF MicTold
  <2>3. \A k \in dev.pub : k \in dev.pub \/ (call # 0 /\ (k[1] = "mic" => k = mm.mic))
    OBVIOUS
  <2> QED
    BY <2>2, <2>3, MicStays
<1>3. Untouched("cam") /\ Untouched("scr") /\ Untouched("aud")
  BY DEF Untouched
<1>4. CamTold' /\ ScrTold' /\ AudTold' /\ Settled'
  BY <1>3, OthersTold
<1> QED
  BY <1>1, <1>2, <1>4 DEF Told

LEMMA Becomes ==
    ASSUME NEW o, NEW u, ops' = (ops \ {o}) \cup {u}
    PROVE  Became(o, u) /\ ops \ {o} \subseteq ops' /\ u \in ops'
BY DEF Became

LEMMA Ceases ==
    ASSUME NEW o, ops' = ops \ {o}
    PROVE  Became(o, o) /\ ops \ {o} \subseteq ops' /\ o \notin ops'
BY DEF Became

(* An operation that only ends.                                            *)
LEMMA EndTold ==
    ASSUME ToldInv, LocalShape', call' = call, mm' = mm, dev' = dev, ended' = ended,
           NEW o \in ops, o.kind # "quality", ops' = ops \ {o}, spent' = spent \/ Loc!Fault
    PROVE  OpsTold' /\ Told'
<1>1. spent'.opened = spent.opened /\ spent.opened \in Nat
  BY TypedOps DEF Loc!Fault
<1>2. Became(o, o) /\ ops \ {o} \subseteq ops' /\ o \notin ops'
  BY Ceases
<1>3. Told'
  BY <1>1, <1>2, ToldKept
<1> QED
  BY <1>3, OpsEnd

(* An operation that comes further.                                        *)
LEMMA MovedOp ==
    ASSUME NEW o \in Operation, NEW at
    PROVE  LET u == [o EXCEPT !.at = at]
           IN  /\ u.kind = o.kind /\ u.call = o.call /\ u.cap = o.cap /\ u.prev = o.prev /\ u.rev = o.rev
               /\ u.audio = o.audio /\ u.at = at /\ u.id = o.id
BY DEF Operation

LEMMA AttachOp ==
    ASSUME NEW o \in Operation
    PROVE  LET u == [o EXCEPT !.kind = "attach", !.at = "prepare", !.prev = Loc!None]
           IN  /\ u.kind = "attach" /\ u.call = o.call /\ u.cap = o.cap /\ u.at = "prepare" /\ u.prev = Loc!None
BY DEF Operation

(* The end of a share: nothing, or an operation that attaches its audio.   *)
LEMMA ShareLeft ==
    ASSUME ToldInv, NEW o \in ops, o.kind = "share", o.at \in {"repair", "republish", "replace"}, Loc!Shared(o)
    PROVE  \/ ops' = ops \ {o}
           \/ \E u : /\ ops' = (ops \ {o}) \cup {u} /\ u.kind = "attach" /\ u.at = "prepare"
                     /\ u.call = o.call /\ u.cap = o.cap /\ o.audio = "pipewire"
                     /\ InOrder(u, spent.opened) /\ Relies(u, call)
<1>0. o \in Operation /\ InOrder(o, spent.opened)
  BY TypedOps DEF ToldInv, OpsTold
<1>1. CASE o.audio # "pipewire"
  BY <1>1 DEF Loc!Shared, Loc!Done
<1>2. CASE o.audio = "pipewire"
  <2> DEFINE u == [o EXCEPT !.kind = "attach", !.at = "prepare", !.prev = Loc!None]
  <2>1. u.kind = "attach" /\ u.call = o.call /\ u.cap = o.cap /\ u.at = "prepare"
    BY <1>0, AttachOp
  <2>2. ops' = (ops \ {o}) \cup {u}
    BY <1>2 DEF Loc!Shared
  <2> HIDE DEF u
  <2>3. InOrder(u, spent.opened)
    BY <1>0, <2>1 DEF InOrder
  <2>4. Relies(u, call)
    BY <1>2, <2>1, ShareRelies
  <2> QED
    BY <1>2, <2>1, <2>2, <2>3, <2>4
<1> QED
  BY <1>1, <1>2

LEMMA SharedOps ==
    ASSUME ToldInv, LocalShape', call' = call, spent' = spent, NEW o \in ops, o.kind = "share",
           o.at \in {"repair", "republish", "replace"}, Loc!Shared(o)
    PROVE  OpsTold'
<1>1. CASE ops' = ops \ {o}
  BY <1>1, OpsEnd
<1>2. ASSUME NEW u, ops' = (ops \ {o}) \cup {u}, u.kind = "attach", u.at = "prepare",
             u.call = o.call, InOrder(u, spent.opened)
      PROVE  OpsTold'
  <2>1. \A q \in ops : q = o \/ Apart(q, o)
    BY DEF ToldInv, OpsTold, Alone
  <2>2. \A q \in ops : q = o \/ Apart(q, u)
    BY <1>2, <2>1, ApartLeft
  <2>3. Group(o, call) = "spoken" /\ Group(u, call) = "attach"
    BY <1>2 DEF Group, Spoken, Cameras
  <2>4. Credit(u, call) = 1 /\ Credit(o, call) \in {1, 2}
    BY <1>2 DEF Credit
  <2>5. Credit(u, call) <= Credit(o, call)
    BY <2>4
  <2> QED
    BY <1>2, <2>2, <2>3, <2>5, OpsMove
<1> QED
  BY <1>1, <1>2, ShareLeft

LEMMA NoOne == \E o : o \notin Operation
<1> DEFINE o == [kind |-> "init"]
<1>1. o \notin Operation
  <2> SUFFICES ASSUME o \in Operation PROVE FALSE
    OBVIOUS
  <2>1. DOMAIN o = {"id", "kind", "call", "at", "cap", "prev", "rev", "audio"}
    BY DEF Operation
  <2>2. DOMAIN o = {"kind"}
    OBVIOUS
  <2> HIDE DEF o
  <2> QED
    BY <2>1, <2>2
<1> QED
  BY <1>1

(* A request begins an operation, or none.                                 *)
LEMMA OpsBegin ==
    ASSUME ToldInv, LocalShape', call' = call, Loc!Asked, spent.asked < MaxAsked, call \in Nat,
           NEW u, u \notin ops, ops' \subseteq ops \cup {u},
           u \in ops' => InOrder(u, spent.opened) /\ u.call = call /\ (\A q \in ops : Apart(q, u))
    PROVE  OpsTold'
<1>1. /\ spent \in [calls : Nat, asked : Nat, faults : Nat, opened : Nat]
      /\ spent.asked \in Nat /\ spent.opened \in Nat /\ MaxAsked \in Nat /\ Counted
  BY TypedOps DEF ToldInv, Bounds, OpsTold
<1>2. /\ spent'.calls = spent.calls /\ spent'.asked = spent.asked + 1 /\ spent'.opened = spent.opened
      /\ spent'.faults = spent.faults
  BY <1>1 DEF Loc!Asked
<1>3. Became(u, u)
  BY DEF Became
<1>4. Paid(u) = 0 /\ Credit(u, call) \in 0 .. 4
  BY DEF Paid, Credit
<1>5. spent'.opened + Credit(u, call) + 4 * spent.asked <= spent.opened + Paid(u) + 4 * spent'.asked
  BY <1>1, <1>2, <1>4
<1>6. spent'.asked <= MaxAsked /\ spent'.faults <= MaxFaults /\ spent.opened <= spent'.opened
  BY <1>1, <1>2 DEF Counted
<1>7. u \in ops' => /\ InOrder(u, spent'.opened) /\ u.call <= spent.calls
                    /\ \A q \in ops : q = u \/ Apart(q, u)
  BY <1>1, <1>2 DEF Counted
<1> QED
  BY <1>2, <1>3, <1>4, <1>5, <1>6, <1>7, OpsGo

LEMMA NewOp ==
    ASSUME LocalShape, NEW kind \in Kinds, NEW at \in Waits, NEW cap \in Maybe
    PROVE  LET u == Loc!Op(kind, at, cap)
           IN  u \in Operation /\ u.kind = kind /\ u.at = at /\ u.cap = cap /\ u.call = call /\ u.prev = Loc!None
BY OpShape DEF Loc!Op

(* Operations that wait and do nothing to the captures.                    *)
LEMMA QuietTold ==
    ASSUME ToldInv, LocalShape', NEW o \in ops,
           \/ Loc!InitPublished(o) \/ Loc!ScreenRefused(o) \/ Loc!MicrophoneSuspended(o)
           \/ Loc!MicrophoneRepublished(o) \/ Loc!AudioPrepared(o)
    PROVE  OpsTold' /\ Told'
<1>0. /\ o \in Operation /\ InOrder(o, spent.opened) /\ MicRelied(o, call, mm.mic)
      /\ (\A q \in ops : q = o \/ Apart(q, o)) /\ spent.opened \in Nat
      /\ spent \in [calls : Nat, asked : Nat, faults : Nat, opened : Nat]
  BY TypedOps DEF ToldInv, Told, OpsTold, Alone, MicTold
<1>1. mm' = mm /\ dev' = dev /\ ended' = ended /\ call' = call
  BY DEF Loc!InitPublished, Loc!ScreenRefused, Loc!MicrophoneSuspended, Loc!MicrophoneRepublished, Loc!AudioPrepared
<1>2. CASE ops' = ops \ {o} /\ spent' = spent /\ o.kind # "quality"
  BY <1>1, <1>2, EndTold
<1>3. ASSUME NEW at, ops' = (ops \ {o}) \cup {[o EXCEPT !.at = at]}, spent' = spent \/ Loc!Fault,
             \/ o.kind = "share" /\ o.at = "repair" /\ at = "open"
             \/ o.kind = "attach" /\ o.at = "prepare" /\ at = "wait"
      PROVE  OpsTold' /\ Told'
  <2> DEFINE u == [o EXCEPT !.at = at]
  <2>1. /\ u.kind = o.kind /\ u.call = o.call /\ u.cap = o.cap /\ u.prev = o.prev /\ u.rev = o.rev
        /\ u.audio = o.audio /\ u.at = at
    BY <1>0, MovedOp
  <2>2. ops' = (ops \ {o}) \cup {u}
    BY <1>3
  <2> HIDE DEF u
  <2>3. InOrder(u, spent.opened)
    BY <1>0, <1>3, <2>1 DEF InOrder
  <2>4. \A q \in ops : q = o \/ Apart(q, u)
    <3>1. Early(u) => Early(o)
      BY <1>3, <2>1 DEF Early
    <3> QED
      BY <1>0, <1>3, <2>1, <3>1, ApartKept
  <2>5. Group(u, call) = Group(o, call) /\ Credit(u, call) = Credit(o, call) /\ Credit(o, call) \in 0 .. 4
    BY <1>3, <2>1 DEF Group, Credit
  <2>6. OpsTold'
    BY <1>1, <1>3, <2>1, <2>2, <2>3, <2>4, <2>5, OpsMove
  <2>7. MicRelied(u, call, mm.mic)
    BY <1>0, <1>3, <2>1 DEF MicRelied, Spoken
  <2>8. Relies(u, call)
    BY <1>3, <2>1, ShareRelies
  <2>9. spent'.opened = spent.opened
    BY <1>0, <1>3 DEF Loc!Fault
  <2>10. Became(o, u) /\ ops \ {o} \subseteq ops' /\ o.kind # "quality"
    BY <1>3, <2>2, Becomes
  <2>11. Told'
    BY <1>0, <1>1, <2>7, <2>8, <2>9, <2>10, ToldKept
  <2> QED
    BY <2>6, <2>11
<1>4. CASE Loc!MicrophoneRepublished(o)
  <2>1. o.kind = "share" /\ o.at = "republish" /\ Loc!Shared(o) /\ spent' = spent
    BY <1>4 DEF Loc!MicrophoneRepublished
  <2>2. OpsTold'
    BY <1>1, <2>1, SharedOps
  <2>3. CASE ops' = ops \ {o}
    BY <1>2, <2>1, <2>3
  <2>4. ASSUME NEW u, ops' = (ops \ {o}) \cup {u}, u.kind = "attach", u.call = o.call, Relies(u, call)
        PROVE  Told'
    <3>1. MicRelied(u, call, mm.mic)
      BY <1>0, <2>1, <2>4 DEF MicRelied, Spoken
    <3>2. Became(o, u) /\ ops \ {o} \subseteq ops'
      BY <2>4, Becomes
    <3> QED
      BY <1>0, <1>1, <2>1, <2>4, <3>1, <3>2, ToldKept
  <2> QED
    BY <2>1, <2>2, <2>3, <2>4, ShareLeft
<1>5. CASE Loc!InitPublished(o) \/ Loc!ScreenRefused(o)
  BY <1>2, <1>5 DEF Loc!InitPublished, Loc!ScreenRefused, Loc!Done
<1>6. CASE Loc!MicrophoneSuspended(o)
  BY <1>3, <1>6 DEF Loc!MicrophoneSuspended, Loc!To
<1>7. CASE Loc!AudioPrepared(o)
  BY <1>2, <1>3, <1>7 DEF Loc!AudioPrepared, Loc!To, Loc!Done
<1> QED
  BY <1>4, <1>5, <1>6, <1>7

(* A step that touches the microphone only.                                *)
LEMMA MicOnly ==
    ASSUME ToldInv, call' = call, NEW n \in Nat, spent'.opened = n, spent.opened <= n,
           NEW o, NEW u, Became(o, u), ops \ {o} \subseteq ops', o \in ops => o.kind # "quality",
           u \in ops' => Relies(u, call),
           mm'.cam = mm.cam, mm'.scr = mm.scr, mm'.q = mm.q, mm'.says.cam = mm.says.cam,
           mm'.says.scr = mm.says.scr, mm'.says.aud = mm.says.aud,
           dev'.aud = dev.aud, dev'.applied = dev.applied, dev'.sent = dev.sent, dev'.prov = dev.prov,
           ended' = ended,
           NEW M \in SUBSET Known("mic", n),
           dev'.live \cup M = dev.live \cup M, dev'.pub \cup M = dev.pub \cup M,
           dev'.on \subseteq dev.on \cup M, mm'.mic \in {mm.mic} \cup M, mm'.local \subseteq mm.local \cup M,
           MicTold'
    PROVE  Told'
<1>1. \A k \in M : k[1] = "mic"
  BY KnownKind
<1>2. Untouched("cam") /\ Untouched("scr") /\ Untouched("aud")
  BY <1>1 DEF Untouched
<1>3. CamTold' /\ ScrTold' /\ AudTold' /\ Settled'
  BY <1>2, OthersTold
<1>4. Fitting' /\ Running'
  <2>1. M \subseteq Any(n) /\ M \subseteq SomeOf("mic", n)
    BY DEF Any, SomeOf
  <2> QED
    BY <2>1, StaysFitting
<1> QED
  BY <1>3, <1>4 DEF Told

(* The microphone and its operations, as the invariant knows them.         *)
LEMMA MicFacts ==
    ASSUME ToldInv
    PROVE  /\ MicTold /\ mm.mic \in SomeOf("mic", spent.opened) /\ mm.local \subseteq Captures
           /\ \A k \in dev.pub : k # Loc!None
           /\ dev.on \subseteq Known("mic", spent.opened)
           /\ Loc!None[1] = "none" /\ spent.opened \in Nat
<1>1. spent.opened \in Nat /\ Running /\ Fitting /\ MicTold /\ mm \in Fields
  BY TypedOps DEF ToldInv, Told
<1>2. Loc!None \notin Any(spent.opened) /\ Loc!None[1] = "none"
  BY <1>1, NoneKind
<1> QED
  BY <1>1, <1>2 DEF Running, Fitting, Fields

LEMMA NewMic ==
    ASSUME ToldInv, NEW kind, NEW k, k = <<kind, spent.opened + 1>>
    PROVE  /\ k \in Known(kind, spent.opened + 1) /\ k[1] = kind /\ k[2] = spent.opened + 1
           /\ \A g : k \notin Known(g, spent.opened)
           /\ k \notin Any(spent.opened) /\ spent.opened \in Nat /\ spent.opened + 1 \in Nat
BY TypedOps DEF Known, Any

LEMMA OpensOne ==
    ASSUME ToldInv, Loc!Opened(1)
    PROVE  /\ spent'.opened = spent.opened + 1 /\ spent'.calls = spent.calls
           /\ spent'.asked = spent.asked /\ spent'.faults = spent.faults
BY TypedOps DEF Loc!Opened

(* An operation goes on and pays for the capture it opens.                 *)
LEMMA OpsOpen ==
    ASSUME ToldInv, LocalShape', call' = call, NEW n \in Nat, NEW o \in ops, NEW u,
           ops' = (ops \ {o}) \cup {u}, u.call = o.call,
           spent'.opened = spent.opened + n, spent'.calls = spent.calls,
           spent'.asked = spent.asked, spent'.faults = spent.faults,
           InOrder(u, spent.opened + n), \A q \in ops : q = o \/ Apart(q, u),
           Group(u, call) = Group(o, call), Credit(u, call) + n <= Credit(o, call)
    PROVE  OpsTold'
<1>1. spent.opened \in Nat /\ spent.asked \in Nat /\ Counted
  BY TypedOps DEF ToldInv, OpsTold
<1>2. /\ Paid(o) \in 0 .. 4 /\ Credit(u, call) \in 0 .. 4 /\ Paid(o) = Credit(o, call)
  BY DEF Paid, Credit
<1>3. spent'.opened + Credit(u, call) + 4 * spent.asked <= spent.opened + Paid(o) + 4 * spent'.asked
  BY <1>1, <1>2
<1>4. Became(o, u) /\ u.call <= spent.calls
  BY <1>1 DEF Became, Counted
<1>5. spent.opened <= spent'.opened
  BY <1>1
<1> QED
  BY <1>1, <1>2, <1>3, <1>4, <1>5, OpsGo DEF Counted

LEMMA InitOpenedTold ==
    ASSUME ToldInv, LocalShape', NEW o \in ops, Loc!InitOpened(o)
    PROVE  OpsTold' /\ Told'
<1>0. /\ o \in Operation /\ InOrder(o, spent.opened) /\ MicRelied(o, call, mm.mic)
      /\ (\A q \in ops : q = o \/ Apart(q, o)) /\ spent.opened \in Nat
      /\ mm \in Fields /\ dev \in Devices /\ ops \subseteq Operation
      /\ o.kind = "init" /\ o.at = "open" /\ call' = call /\ ended' = ended /\ o.call # 0
  BY TypedOps DEF ToldInv, Told, OpsTold, Alone, MicTold, Loc!InitOpened
<1>1. CASE o.call # call
  <2>1. ops' = ops \ {o} /\ spent' = spent /\ mm' = mm /\ dev' = dev
    BY <1>1 DEF Loc!InitOpened, Loc!IsActive, Loc!Done
  <2> QED
    BY <1>0, <2>1, EndTold
<1>2. CASE o.call = call
  <2> DEFINE k == Loc!New("mic")
             u == [o EXCEPT !.at = "publish"]
             n == spent.opened + 1
  <2>1. /\ k = <<"mic", spent.opened + 1>> /\ Loc!Opened(1)
        /\ mm' = [mm EXCEPT !.mic = k, !.local = @ \cup {k}]
        /\ dev' = Loc!Publish([dev EXCEPT !.live = @ \cup {k}, !.on = @ \cup {k}], {k})
        /\ ops' = (ops \ {o}) \cup {u}
    BY <1>2 DEF Loc!InitOpened, Loc!IsActive, Loc!New, Loc!To
  <2>2. /\ u.kind = "init" /\ u.call = o.call /\ u.cap = o.cap /\ u.at = "publish"
    BY <1>0, MovedOp
  <2> HIDE DEF k, u
  <2>3. /\ mm'.mic = k /\ mm'.local = mm.local \cup {k} /\ mm'.cam = mm.cam /\ mm'.scr = mm.scr
        /\ mm'.q = mm.q /\ mm'.says = mm.says
    BY <1>0, <2>1 DEF Fields
  <2>4. /\ dev'.live = dev.live \cup {k} /\ dev'.on = dev.on \cup {k} /\ dev'.pub = dev.pub \cup {k}
        /\ dev'.aud = dev.aud /\ dev'.applied = dev.applied /\ dev'.sent = dev.sent /\ dev'.prov = dev.prov
    BY <1>0, <2>1 DEF Devices, Loc!Publish
  <2>5. /\ k \in Known("mic", n) /\ k[1] = "mic" /\ n \in Nat /\ k # Loc!None
    BY <2>1, NewMic, MicFacts
  <2>6. /\ spent'.opened = n /\ spent'.calls = spent.calls /\ spent'.asked = spent.asked
        /\ spent'.faults = spent.faults
    BY <2>1, OpensOne
  <2>7. OpsTold'
    <3>1. InOrder(u, n)
      BY <1>0, <2>2 DEF InOrder
    <3>2. \A q \in ops : q = o \/ Apart(q, u)
      <4>1. ~Early(u)
        BY <2>2 DEF Early
      <4> QED
        BY <1>0, <2>2, <4>1, ApartKept
    <3>3. Group(u, call) = Group(o, call) /\ Credit(u, call) = 0 /\ Credit(o, call) = 1
      BY <1>0, <1>2, <2>2 DEF Group, Credit
    <3>4. spent'.opened = spent.opened + 1 /\ Credit(u, call) + 1 <= Credit(o, call) /\ 1 \in Nat
      BY <2>6, <3>3
    <3> QED
      BY <1>0, <2>1, <2>2, <2>6, <3>1, <3>2, <3>3, <3>4, OpsOpen
  <2>8. MicTold'
    <3>1. mm.mic = Loc!None
      BY <1>0, <1>2 DEF MicRelied
    <3>2. MicTold /\ \A j \in dev.pub : j # Loc!None
      BY MicFacts
    <3>3. \A j \in dev'.pub : j[1] = "mic" => j = mm'.mic
      BY <2>3, <2>4, <3>1, <3>2 DEF MicTold
    <3>4. ASSUME NEW q \in ops' PROVE MicRelied(q, call', mm'.mic)
      <4>1. CASE q = u
        BY <2>2, <4>1 DEF MicRelied, Spoken
      <4>2. CASE q \in ops /\ q # o
        <5>1. ~(q.kind = "init" /\ q.call = o.call) /\ MicRelied(q, call, Loc!None)
          BY <1>0, <3>1, <3>2, <4>2 DEF Apart, MicTold
        <5> QED
          BY <1>0, <1>2, <2>3, <2>5, <5>1 DEF MicRelied, Spoken
      <4> QED
        BY <2>1, <4>1, <4>2
    <3>5. mm'.mic # Loc!None /\ (mm'.mic \in dev'.on <=> mm'.says.mic)
      BY <2>3, <2>4, <2>5, <3>1, <3>2 DEF MicTold
    <3>6. call' # 0
      BY <1>0, <1>2
    <3> QED
      BY <3>3, <3>4, <3>5, <3>6 DEF MicTold
  <2>9. Told'
    <3>1. Became(o, u) /\ ops \ {o} \subseteq ops'
      BY <2>1, Becomes
    <3>2. Relies(u, call)
      BY <2>2, ReliesLittle
    <3> DEFINE M == {k}
    <3>3. M \in SUBSET Known("mic", n) /\ dev'.live \cup M = dev.live \cup M /\ dev'.pub \cup M = dev.pub \cup M
          /\ dev'.on \subseteq dev.on \cup M /\ mm'.mic \in {mm.mic} \cup M /\ mm'.local \subseteq mm.local \cup M
      BY <2>3, <2>4, <2>5
    <3>4. n \in Nat /\ spent.opened <= n
      BY <1>0
    <3> HIDE DEF M, n
    <3> QED
      BY <1>0, <2>3, <2>4, <2>6, <2>8, <3>1, <3>2, <3>3, <3>4, MicOnly
  <2> QED
    BY <2>7, <2>9
<1> QED
  BY <1>1, <1>2

LEMMA ToggleMicrophoneTold ==
    ASSUME ToldInv, LocalShape', Loc!ToggleMicrophone
    PROVE  OpsTold' /\ Told'
<1>0. /\ mm \in Fields /\ dev \in Devices /\ ops \subseteq Operation /\ spent.opened \in Nat /\ call \in Nat
      /\ spent \in [calls : Nat, asked : Nat, faults : Nat, opened : Nat]
      /\ call' = call /\ ended' = ended /\ ops' = ops /\ call # 0 /\ mm.mic # Loc!None
      /\ Loc!Asked /\ spent.asked < MaxAsked
  BY TypedOps DEF Loc!ToggleMicrophone, Loc!Asks
<1> DEFINE yes == mm.mic \notin dev.on
<1>1. /\ mm' = [mm EXCEPT !.says.mic = yes] /\ dev' = Loc!Enabled(dev, mm.mic, yes)
  BY DEF Loc!ToggleMicrophone
<1>2. /\ mm'.mic = mm.mic /\ mm'.local = mm.local /\ mm'.cam = mm.cam /\ mm'.scr = mm.scr /\ mm'.q = mm.q
      /\ mm'.says.cam = mm.says.cam /\ mm'.says.scr = mm.says.scr /\ mm'.says.aud = mm.says.aud
      /\ mm'.says.mic = yes
  BY <1>0, <1>1 DEF Fields, Said
<1>3. /\ dev'.live = dev.live /\ dev'.pub = dev.pub /\ dev'.aud = dev.aud /\ dev'.applied = dev.applied
      /\ dev'.sent = dev.sent /\ dev'.prov = dev.prov
      /\ dev'.on \subseteq dev.on \cup {mm.mic} /\ (mm.mic \in dev'.on <=> yes)
  BY <1>0, <1>1 DEF Devices, Loc!Enabled
<1>4. spent'.opened = spent.opened
  BY <1>0 DEF Loc!Asked
<1>5. PICK o : o \notin Operation
  BY NoOne
<1>6. o \notin ops /\ o \notin ops' /\ Became(o, o) /\ ops \ {o} \subseteq ops'
  BY <1>0, <1>5 DEF Became
<1>7. OpsTold'
  BY <1>0, <1>6, OpsBegin
<1>8. MicTold'
  <2>1. MicTold
    BY MicFacts
  <2> QED
    BY <1>0, <1>2, <1>3, <2>1 DEF MicTold
<1>9. Told'
  <2> DEFINE M == {mm.mic}
  <2>1. M \in SUBSET Known("mic", spent.opened)
    BY <1>0, MicFacts DEF SomeOf
  <2>2. dev'.live \cup M = dev.live \cup M /\ dev'.pub \cup M = dev.pub \cup M
        /\ dev'.on \subseteq dev.on \cup M /\ mm'.mic \in {mm.mic} \cup M /\ mm'.local \subseteq mm.local \cup M
    BY <1>2, <1>3
  <2> HIDE DEF M
  <2> QED
    BY <1>0, <1>2, <1>3, <1>4, <1>6, <1>8, <2>1, <2>2, MicOnly
<1> QED
  BY <1>7, <1>9

LEMMA UpdateVoiceInputTold ==
    ASSUME Serial, ToldInv, LocalShape', Loc!UpdateVoiceInput
    PROVE  OpsTold' /\ Told'
<1>0. /\ mm \in Fields /\ dev \in Devices /\ ops \subseteq Operation /\ spent.opened \in Nat /\ call \in Nat
      /\ spent \in [calls : Nat, asked : Nat, faults : Nat, opened : Nat] /\ LocalShape /\ Loc!None \in Maybe
      /\ call' = call /\ ended' = ended /\ mm' = mm /\ dev' = dev /\ call # 0 /\ mm.mic # Loc!None
      /\ Loc!Asked /\ spent.asked < MaxAsked /\ mm.mic \in Maybe
      /\ \A q \in ops : q.kind \notin {"init", "voice", "share"}
  BY TypedOps DEF Loc!UpdateVoiceInput, Loc!Asks, Loc!Voice
<1> DEFINE w == Loc!Op("voice", "open", Loc!None)
           u == [w EXCEPT !.prev = mm.mic]
<1>1. w \in Operation /\ w.kind = "voice" /\ w.at = "open" /\ w.cap = Loc!None /\ w.call = call
  BY <1>0, NewOp DEF Kinds, Waits
<1>2. ops' = ops \cup {u}
  BY DEF Loc!UpdateVoiceInput, Loc!Begin
<1> HIDE DEF w
<1>3. u.kind = "voice" /\ u.at = "open" /\ u.cap = Loc!None /\ u.call = call /\ u.prev = mm.mic
  BY <1>1 DEF Operation
<1> HIDE DEF u
<1>4. u \notin ops /\ \A q \in ops : Apart(q, u)
  BY <1>0, <1>3 DEF Apart, Spoken, Cameras, Early
<1>5. InOrder(u, spent.opened)
  <2>1. mm.mic \in Known("mic", spent.opened)
    BY <1>0, MicFacts DEF SomeOf
  <2> QED
    BY <1>3, <2>1 DEF InOrder
<1>6. OpsTold'
  BY <1>0, <1>2, <1>3, <1>4, <1>5, OpsBegin
<1>7. MicRelied(u, call, mm.mic) /\ Relies(u, call)
  BY <1>0, <1>3, ReliesLittle DEF MicRelied
<1>8. Became(u, u) /\ ops \ {u} \subseteq ops' /\ spent'.opened = spent.opened
  BY <1>0, <1>2 DEF Became, Loc!Asked
<1> QED
  BY <1>0, <1>4, <1>6, <1>7, <1>8, ToldKept

(* A microphone is opened for the one in use.                              *)
LEMMA VoiceOpenedTold ==
    ASSUME ToldInv, LocalShape', NEW o \in ops, Loc!VoiceOpened(o),
           o.call = call, mm.mic = o.prev, o.prev \in dev.pub
    PROVE  OpsTold' /\ Told'
<1>0. /\ o \in Operation /\ InOrder(o, spent.opened) /\ MicRelied(o, call, mm.mic)
      /\ (\A q \in ops : q = o \/ Apart(q, o)) /\ spent.opened \in Nat
      /\ mm \in Fields /\ dev \in Devices /\ ops \subseteq Operation
      /\ o.kind \in {"voice", "share"} /\ o.at = "open" /\ call' = call /\ ended' = ended /\ mm' = mm
  BY TypedOps DEF ToldInv, Told, OpsTold, Alone, MicTold, Loc!VoiceOpened, Loc!IsActive
<1> DEFINE k == Loc!New("mic")
           u == [o EXCEPT !.at = "replace", !.rev = k[2]]
           n == spent.opened + 1
<1>1. /\ k = <<"mic", spent.opened + 1>> /\ Loc!Opened(1)
      /\ dev' = Loc!Enabled([dev EXCEPT !.live = @ \cup {k}], k, mm.says.mic)
      /\ ops' = (ops \ {o}) \cup {u}
  BY DEF Loc!VoiceOpened, Loc!IsActive, Loc!New
<1>2. /\ k \in Known("mic", n) /\ k[1] = "mic" /\ k[2] = n /\ n \in Nat /\ k # mm.mic
  <2>1. k \in Known("mic", n) /\ k[1] = "mic" /\ k[2] = n /\ n \in Nat /\ k \notin Known("mic", spent.opened)
    BY <1>1, NewMic
  <2> QED
    BY <2>1, MicFacts DEF SomeOf
<1>3. u.kind = o.kind /\ u.call = o.call /\ u.cap = o.cap /\ u.prev = o.prev /\ u.at = "replace"
      /\ u.rev = n /\ u.audio = o.audio
  BY <1>0, <1>2 DEF Operation
<1> HIDE DEF k, u
<1>4. /\ dev'.live = dev.live \cup {k} /\ dev'.pub = dev.pub /\ dev'.on \subseteq dev.on \cup {k}
      /\ \A j : j # k => (j \in dev'.on <=> j \in dev.on)
      /\ dev'.aud = dev.aud /\ dev'.applied = dev.applied /\ dev'.sent = dev.sent /\ dev'.prov = dev.prov
  BY <1>0, <1>1 DEF Devices, Loc!Enabled
<1>5. /\ spent'.opened = n /\ spent'.calls = spent.calls /\ spent'.asked = spent.asked
      /\ spent'.faults = spent.faults
  BY <1>1, OpensOne
<1>6. OpsTold'
  <2>1. InOrder(u, n)
    <3>1. n \in 1 .. n /\ InOrder(o, n)
      BY <1>0, <1>2, KnownGrows
    <3> HIDE DEF n
    <3> QED
      BY <1>0, <1>3, <3>1 DEF InOrder
  <2>2. \A q \in ops : q = o \/ Apart(q, u)
    <3>1. ~Early(u)
      BY <1>3 DEF Early
    <3> QED
      BY <1>0, <1>3, <3>1, ApartKept
  <2>3. Group(u, call) = Group(o, call) /\ Credit(u, call) + 1 <= Credit(o, call)
    BY <1>0, <1>3 DEF Group, Credit
  <2>4. spent'.opened = spent.opened + 1 /\ 1 \in Nat
    BY <1>5
  <2> QED
    BY <1>0, <1>1, <1>3, <1>5, <2>1, <2>2, <2>3, <2>4, OpsOpen
<1>7. Became(o, u) /\ ops \ {o} \subseteq ops'
  BY <1>1, Becomes
<1>8. MicTold'
  <2>1. MicRelied(u, call, mm.mic)
    BY <1>0, <1>3 DEF MicRelied, Spoken
  <2>2. \A j \in dev'.pub : j \in dev.pub \/ (call # 0 /\ (j[1] = "mic" => j = mm.mic))
    BY <1>4
  <2>3. mm'.scr # Loc!None \/ mm'.cam # Loc!None => mm.mic # Loc!None
    BY <1>0, MicFacts DEF MicTold
  <2>4. mm.mic # Loc!None => (mm.mic \in dev'.on <=> mm.mic \in dev.on)
    BY <1>2, <1>4
  <2> QED
    BY <1>0, <1>7, <2>1, <2>2, <2>3, <2>4, MicStays
<1>9. Told'
  <2>1. Relies(u, call)
    BY <1>0, <1>3, ReliesLittle, ShareRelies
  <2> DEFINE M == {k}
  <2>2. M \in SUBSET Known("mic", n) /\ dev'.live \cup M = dev.live \cup M /\ dev'.pub \cup M = dev.pub \cup M
        /\ dev'.on \subseteq dev.on \cup M /\ mm'.mic \in {mm.mic} \cup M /\ mm'.local \subseteq mm.local \cup M
    BY <1>0, <1>2, <1>4
  <2>3. spent.opened <= n
    BY <1>0
  <2> HIDE DEF M, n
  <2> QED
    BY <1>0, <1>2, <1>4, <1>5, <1>7, <1>8, <2>1, <2>2, <2>3, MicOnly
<1> QED
  BY <1>6, <1>9

(* The end of an operation that replaced the microphone or shared.         *)
LEMMA VoiceLeft ==
    ASSUME ToldInv, LocalShape', NEW o \in ops, call' = call, spent' = spent,
           o.kind \in {"voice", "share"}, o.at \in {"repair", "republish", "replace"},
           IF o.kind = "share" THEN Loc!Shared(o) ELSE Loc!Done(o)
    PROVE  /\ OpsTold'
           /\ \E u : /\ Became(o, u) /\ ops \ {o} \subseteq ops'
                     /\ u \in ops' => u.kind = "attach" /\ u.call = o.call /\ Relies(u, call)
<1>1. CASE ops' = ops \ {o}
  <2>1. OpsTold'
    BY <1>1, OpsEnd
  <2> QED
    BY <1>1, <2>1, Ceases
<1>2. CASE o.kind = "share" /\ Loc!Shared(o)
  <2>1. OpsTold'
    BY <1>2, SharedOps
  <2>2. ASSUME NEW u, ops' = (ops \ {o}) \cup {u}, u.kind = "attach", u.call = o.call, Relies(u, call)
        PROVE  \E w : /\ Became(o, w) /\ ops \ {o} \subseteq ops'
                      /\ w \in ops' => w.kind = "attach" /\ w.call = o.call /\ Relies(w, call)
    BY <2>2, Becomes
  <2> QED
    BY <1>1, <1>2, <2>1, <2>2, ShareLeft
<1> QED
  BY <1>1, <1>2 DEF Loc!Done

LEMMA VoiceReplacedTold ==
    ASSUME ToldInv, LocalShape', NEW o \in ops, Loc!VoiceReplaced(o)
    PROVE  OpsTold' /\ Told'
<1>0. /\ o \in Operation /\ InOrder(o, spent.opened) /\ MicRelied(o, call, mm.mic)
      /\ (\A q \in ops : q = o \/ Apart(q, o)) /\ spent.opened \in Nat /\ spent.opened <= spent.opened
      /\ mm \in Fields /\ dev \in Devices /\ ops \subseteq Operation
      /\ o.kind \in {"voice", "share"} /\ o.at = "replace" /\ call' = call /\ ended' = ended /\ spent' = spent
      /\ o.call # 0
      /\ IF o.kind = "share" THEN Loc!Shared(o) ELSE Loc!Done(o)
  BY TypedOps DEF ToldInv, Told, OpsTold, Alone, MicTold, Loc!VoiceReplaced
<1> DEFINE n == spent.opened
           k == Loc!Replacement(o)
<1>1. k \in Known("mic", n) /\ k[1] = "mic" /\ k # Loc!None /\ k \in Maybe /\ o.prev \in Known("mic", n)
      /\ o.prev \in Maybe /\ o.prev # Loc!None
  <2>1. o.prev \in Known("mic", n) /\ o.rev \in 1 .. n
    BY <1>0 DEF InOrder
  <2>2. k = <<"mic", o.rev>>
    BY DEF Loc!Replacement
  <2>3. k \in Known("mic", n) /\ k[1] = "mic"
    BY <2>1, <2>2 DEF Known
  <2>4. Known("mic", n) \subseteq Maybe
    BY <1>0 DEF Known, Maybe, Captures
  <2> QED
    BY <1>0, <2>1, <2>3, <2>4, MicFacts, NoneKind
<1>2. /\ OpsTold'
      /\ \E u : /\ Became(o, u) /\ ops \ {o} \subseteq ops'
                /\ u \in ops' => u.kind = "attach" /\ u.call = o.call /\ Relies(u, call)
  BY <1>0, VoiceLeft
<1>3. PICK u : /\ Became(o, u) /\ ops \ {o} \subseteq ops'
               /\ u \in ops' => u.kind = "attach" /\ u.call = o.call /\ Relies(u, call)
  BY <1>2
<1> DEFINE M == {k, o.prev}
<1>4. M \in SUBSET Known("mic", n)
  BY <1>1
<1>5. o.kind # "quality"
  BY <1>0
<1>6. CASE o.call = call
  <2> DEFINE d == Loc!Stop(Loc!Publish(Loc!Unpublish(dev, {o.prev}), {k}), {o.prev})
  <2>1. /\ mm' = [mm EXCEPT !.mic = k, !.local = (@ \ {o.prev}) \cup {k}]
        /\ dev' = Loc!Enabled(d, k, mm.says.mic)
    BY <1>6 DEF Loc!VoiceReplaced, Loc!IsActive
  <2> HIDE DEF k, n
  <2>2. /\ d \in Devices /\ d.live = dev.live \ {o.prev} /\ d.pub = (dev.pub \ {o.prev}) \cup {k}
        /\ d.on = dev.on /\ d.aud = dev.aud /\ d.applied = dev.applied /\ d.sent = dev.sent /\ d.prov = dev.prov
    BY <1>0, <1>1 DEF Devices, Loc!Stop, Loc!Publish, Loc!Unpublish
  <2> HIDE DEF d
  <2>3. /\ dev'.live = dev.live \ {o.prev} /\ dev'.pub = (dev.pub \ {o.prev}) \cup {k}
        /\ dev'.on \subseteq dev.on \cup {k} /\ (k \in dev'.on <=> mm.says.mic)
        /\ dev'.aud = dev.aud /\ dev'.applied = dev.applied /\ dev'.sent = dev.sent /\ dev'.prov = dev.prov
    BY <2>1, <2>2, <1>0 DEF Devices, Fields, Said, Loc!Enabled
  <2>4. /\ mm'.mic = k /\ mm'.local = (mm.local \ {o.prev}) \cup {k} /\ mm'.cam = mm.cam /\ mm'.scr = mm.scr
        /\ mm'.q = mm.q /\ mm'.says = mm.says
    BY <1>0, <2>1 DEF Fields
  <2>5. MicTold'
    <3>1. MicTold /\ mm.mic = o.prev /\ \A j \in dev.pub : j # Loc!None
      BY <1>0, <1>6, MicFacts DEF MicRelied, Spoken
    <3>2. \A j \in dev'.pub : j[1] = "mic" => j = mm'.mic
      BY <2>3, <2>4, <3>1 DEF MicTold
    <3>3. ASSUME NEW q \in ops' PROVE MicRelied(q, call', mm'.mic)
      <4>1. CASE q = u
        BY <1>1, <1>3, <2>4, <3>3, <4>1 DEF MicRelied, Spoken
      <4>2. CASE q \in ops /\ q # o
        <5>1. q.kind \notin Spoken
          BY <1>0, <4>2 DEF Apart, Spoken
        <5>2. MicRelied(q, call, o.prev)
          BY <3>1, <4>2 DEF MicTold
        <5> QED
          BY <1>0, <1>1, <2>4, <5>1, <5>2 DEF MicRelied, Spoken
      <4> QED
        BY <1>3, <4>1, <4>2 DEF Became
    <3>4. mm'.mic # Loc!None /\ (mm'.mic \in dev'.on <=> mm'.says.mic)
      BY <1>1, <2>3, <2>4
    <3>5. call' # 0
      BY <1>0, <1>6
    <3> QED
      BY <3>2, <3>3, <3>4, <3>5 DEF MicTold
  <2>6. /\ dev'.live \cup M = dev.live \cup M /\ dev'.pub \cup M = dev.pub \cup M
        /\ dev'.on \subseteq dev.on \cup M /\ mm'.mic \in {mm.mic} \cup M /\ mm'.local \subseteq mm.local \cup M
    BY <2>3, <2>4
  <2>7. n \in Nat /\ spent.opened <= n /\ spent'.opened = n
    BY <1>0 DEF n
  <2> HIDE DEF M
  <2>8. Told'
    BY <1>0, <1>3, <1>4, <1>5, <2>3, <2>4, <2>5, <2>6, <2>7, MicOnly
  <2> QED
    BY <1>2, <2>8
<1>7. CASE o.call # call
  <2>1. mm' = mm /\ dev' = Loc!Stop(dev, {k})
    BY <1>7 DEF Loc!VoiceReplaced, Loc!IsActive
  <2>2. /\ dev'.live = dev.live \ {k} /\ dev'.pub = dev.pub /\ dev'.on = dev.on
        /\ dev'.aud = dev.aud /\ dev'.applied = dev.applied /\ dev'.sent = dev.sent /\ dev'.prov = dev.prov
    BY <1>0, <2>1 DEF Devices, Loc!Stop
  <2> HIDE DEF k
  <2>3. MicTold'
    <3>1. u \in ops' => MicRelied(u, call, mm.mic)
      BY <1>3, <1>7 DEF MicRelied, Spoken
    <3>2. mm'.scr # Loc!None \/ mm'.cam # Loc!None => mm.mic # Loc!None
      BY <2>1, MicFacts DEF MicTold
    <3>3. \A j \in dev'.pub : j \in dev.pub \/ (call # 0 /\ (j[1] = "mic" => j = mm.mic))
      BY <2>2
    <3> QED
      BY <1>0, <1>3, <2>1, <2>2, <3>1, <3>2, <3>3, MicStays
  <2>4. /\ dev'.live \cup M = dev.live \cup M /\ dev'.pub \cup M = dev.pub \cup M
        /\ dev'.on \subseteq dev.on \cup M /\ mm'.mic \in {mm.mic} \cup M /\ mm'.local \subseteq mm.local \cup M
    BY <2>1, <2>2
  <2>5. n \in Nat /\ spent.opened <= n /\ spent'.opened = n
    BY <1>0
  <2> HIDE DEF M, n
  <2>6. Told'
    BY <1>0, <1>3, <1>4, <1>5, <2>1, <2>2, <2>3, <2>4, <2>5, MicOnly
  <2> QED
    BY <1>2, <2>6
<1> QED
  BY <1>6, <1>7

LEMMA MicrophoneUsableTold ==
    ASSUME ToldInv, LocalShape', NEW o \in ops, Loc!MicrophoneUsable(o)
    PROVE  OpsTold' /\ Told'
<1>0. /\ o \in Operation /\ InOrder(o, spent.opened) /\ MicRelied(o, call, mm.mic)
      /\ (\A q \in ops : q = o \/ Apart(q, o)) /\ spent.opened \in Nat /\ spent.opened <= spent.opened
      /\ mm \in Fields /\ dev \in Devices /\ ops \subseteq Operation
      /\ o.kind = "share" /\ o.at = "repair" /\ call' = call /\ ended' = ended /\ spent' = spent
      /\ mm' = mm /\ o.call # 0
  BY TypedOps DEF ToldInv, Told, OpsTold, Alone, MicTold, Loc!MicrophoneUsable
<1>1. CASE ~(o.call = call /\ mm.mic = o.prev)
  <2>1. Loc!Shared(o) /\ dev' = dev
    BY <1>1 DEF Loc!MicrophoneUsable, Loc!IsActive
  <2>2. /\ OpsTold'
        /\ \E u : /\ Became(o, u) /\ ops \ {o} \subseteq ops'
                  /\ u \in ops' => u.kind = "attach" /\ u.call = o.call /\ Relies(u, call)
    BY <1>0, <2>1, VoiceLeft
  <2>3. ASSUME NEW u, Became(o, u), ops \ {o} \subseteq ops',
               u \in ops' => u.kind = "attach" /\ u.call = o.call /\ Relies(u, call)
        PROVE  Told'
    <3>1. u \in ops' => MicRelied(u, call, mm.mic)
      BY <1>0, <2>3 DEF MicRelied, Spoken
    <3> QED
      BY <1>0, <2>1, <2>3, <3>1, ToldKept
  <2> QED
    BY <2>2, <2>3
<1>2. CASE o.call = call /\ mm.mic = o.prev
  <2> DEFINE u == [o EXCEPT !.at = "republish"]
  <2>1. u.kind = o.kind /\ u.call = o.call /\ u.cap = o.cap /\ u.prev = o.prev /\ u.at = "republish"
        /\ u.audio = o.audio
    BY <1>0, MovedOp
  <2>2. ops' = (ops \ {o}) \cup {u} /\ dev' = Loc!Publish(dev, {mm.mic})
    BY <1>2 DEF Loc!MicrophoneUsable, Loc!IsActive, Loc!To
  <2> HIDE DEF u
  <2>3. /\ dev'.live = dev.live /\ dev'.pub = dev.pub \cup {mm.mic} /\ dev'.on = dev.on
        /\ dev'.aud = dev.aud /\ dev'.applied = dev.applied /\ dev'.sent = dev.sent /\ dev'.prov = dev.prov
    BY <1>0, <2>2 DEF Devices, Loc!Publish
  <2>4. Became(o, u) /\ ops \ {o} \subseteq ops'
    BY <2>2, Becomes
  <2>5. OpsTold'
    <3>1. InOrder(u, spent.opened)
      BY <1>0, <2>1 DEF InOrder
    <3>2. \A q \in ops : q = o \/ Apart(q, u)
      <4>1. ~Early(u)
        BY <2>1 DEF Early
      <4> QED
        BY <1>0, <2>1, <4>1, ApartKept
    <3>3. Group(u, call) = Group(o, call) /\ Credit(u, call) = 1 /\ Credit(o, call) = 2
      BY <1>0, <2>1 DEF Group, Credit
    <3>4. Credit(u, call) <= Credit(o, call)
      BY <3>3
    <3> QED
      BY <1>0, <2>1, <2>2, <3>1, <3>2, <3>3, <3>4, OpsMove
  <2>6. MicTold'
    <3>1. MicRelied(u, call, mm.mic)
      BY <1>0, <2>1 DEF MicRelied, Spoken
    <3>2. mm'.scr # Loc!None \/ mm'.cam # Loc!None => mm.mic # Loc!None
      BY <1>0, MicFacts DEF MicTold
    <3>3. \A j \in dev'.pub : j \in dev.pub \/ (call # 0 /\ (j[1] = "mic" => j = mm.mic))
      BY <1>0, <1>2, <2>3
    <3> QED
      BY <1>0, <2>3, <2>4, <3>1, <3>2, <3>3, MicStays
  <2>7. Told'
    <3> DEFINE M == {mm.mic}
    <3>1. M \in SUBSET Known("mic", spent.opened)
      BY <1>0, <1>2, MicFacts DEF SomeOf, MicRelied
    <3>2. dev'.live \cup M = dev.live \cup M /\ dev'.pub \cup M = dev.pub \cup M
          /\ dev'.on \subseteq dev.on \cup M /\ mm'.mic \in {mm.mic} \cup M /\ mm'.local \subseteq mm.local \cup M
      BY <1>0, <2>3
    <3>3. Relies(u, call) /\ o.kind # "quality"
      BY <1>0, <2>1, ShareRelies
    <3> HIDE DEF M
    <3> QED
      BY <1>0, <2>3, <2>4, <2>6, <3>1, <3>2, <3>3, MicOnly
  <2> QED
    BY <2>5, <2>7
<1> QED
  BY <1>1, <1>2

(* The share is published: the microphone is looked after.                 *)
LEMMA ScreenPublishedTold ==
    ASSUME ToldInv, LocalShape', NEW o \in ops, Loc!ScreenPublished(o), o.call = call
    PROVE  OpsTold' /\ Told'
<1>0. /\ o \in Operation /\ InOrder(o, spent.opened) /\ MicRelied(o, call, mm.mic)
      /\ (\A q \in ops : q = o \/ Apart(q, o)) /\ spent.opened \in Nat /\ spent.opened <= spent.opened
      /\ mm \in Fields /\ dev \in Devices /\ ops \subseteq Operation /\ mm.mic \in Maybe
      /\ o.kind = "share" /\ o.at = "publish" /\ call' = call /\ ended' = ended /\ spent' = spent
      /\ mm' = mm /\ o.call # 0
  BY TypedOps DEF ToldInv, Told, OpsTold, Alone, MicTold, Loc!ScreenPublished
<1> DEFINE u == [o EXCEPT !.at = "repair", !.prev = mm.mic]
<1>1. u.kind = o.kind /\ u.call = o.call /\ u.cap = o.cap /\ u.prev = mm.mic /\ u.at = "repair"
      /\ u.audio = o.audio
  BY <1>0 DEF Operation
<1>2. ops' = (ops \ {o}) \cup {u} /\ dev' = Loc!Enabled(dev, mm.mic, mm.says.mic)
  BY DEF Loc!ScreenPublished, Loc!IsActive
<1> HIDE DEF u
<1>3. /\ dev'.live = dev.live /\ dev'.pub = dev.pub /\ dev'.on \subseteq dev.on \cup {mm.mic}
      /\ dev'.aud = dev.aud /\ dev'.applied = dev.applied /\ dev'.sent = dev.sent /\ dev'.prov = dev.prov
      /\ (mm.mic \in dev'.on <=> mm.says.mic)
  BY <1>0, <1>2 DEF Devices, Fields, Said, Loc!Enabled
<1>4. Became(o, u) /\ ops \ {o} \subseteq ops'
  BY <1>2, Becomes
<1>5. mm.mic # Loc!None /\ mm.mic \in Known("mic", spent.opened)
  BY <1>0, MicFacts DEF SomeOf, MicRelied
<1>6. OpsTold'
  <2>1. InOrder(u, spent.opened)
    BY <1>0, <1>1, <1>5 DEF InOrder
  <2>2. \A q \in ops : q = o \/ Apart(q, u)
    <3>1. ~Early(u)
      BY <1>1 DEF Early
    <3> QED
      BY <1>0, <1>1, <3>1, ApartKept
  <2>3. Group(u, call) = Group(o, call) /\ Credit(u, call) = 2 /\ Credit(o, call) = 2
    BY <1>0, <1>1 DEF Group, Credit
  <2>4. Credit(u, call) <= Credit(o, call)
    BY <2>3
  <2> QED
    BY <1>0, <1>1, <1>2, <2>1, <2>2, <2>3, <2>4, OpsMove
<1>7. MicTold'
  <2>1. MicRelied(u, call, mm.mic)
    BY <1>0, <1>1 DEF MicRelied, Spoken
  <2>2. mm'.scr # Loc!None \/ mm'.cam # Loc!None => mm.mic # Loc!None
    BY <1>5
  <2>3. \A j \in dev'.pub : j \in dev.pub \/ (call # 0 /\ (j[1] = "mic" => j = mm.mic))
    BY <1>3
  <2>4. mm.mic # Loc!None => (mm.mic \in dev'.on <=> mm.mic \in dev.on)
    BY <1>3, MicFacts DEF MicTold
  <2> QED
    BY <1>0, <1>4, <2>1, <2>2, <2>3, <2>4, MicStays
<1>8. Told'
  <2> DEFINE M == {mm.mic}
  <2>1. M \in SUBSET Known("mic", spent.opened)
    BY <1>5
  <2>2. dev'.live \cup M = dev.live \cup M /\ dev'.pub \cup M = dev.pub \cup M
        /\ dev'.on \subseteq dev.on \cup M /\ mm'.mic \in {mm.mic} \cup M /\ mm'.local \subseteq mm.local \cup M
    BY <1>0, <1>3
  <2>3. Relies(u, call) /\ o.kind # "quality"
    BY <1>0, <1>1, ShareRelies
  <2> HIDE DEF M
  <2> QED
    BY <1>0, <1>3, <1>4, <1>7, <2>1, <2>2, <2>3, MicOnly
<1> QED
  BY <1>6, <1>8

LEMMA AudioPublishedTold ==
    ASSUME ToldInv, LocalShape', NEW o \in ops, Loc!AudioPublished(o)
    PROVE  OpsTold' /\ Told'
<1>0. /\ mm \in Fields /\ dev \in Devices /\ spent.opened \in Nat /\ spent.opened <= spent.opened
      /\ o.kind = "attach" /\ call' = call /\ ended' = ended /\ spent' = spent /\ mm' = mm
      /\ ops' = ops \ {o} /\ MicRelied(o, call, mm.mic) /\ o.call # 0
  BY TypedOps DEF ToldInv, Told, MicTold, Loc!AudioPublished, Loc!Done
<1>1. OpsTold' /\ Became(o, o) /\ ops \ {o} \subseteq ops' /\ o \notin ops' /\ o.kind # "quality"
  BY <1>0, OpsEnd, Ceases
<1>2. CASE dev' = dev
  <2>1. Told'
    BY <1>0, <1>1, <1>2, ToldKept
  <2> QED
    BY <1>1, <2>1
<1>3. CASE o.call = call /\ dev' = Loc!Publish(dev, {mm.mic})
  <2>1. /\ dev'.live = dev.live /\ dev'.pub = dev.pub \cup {mm.mic} /\ dev'.on = dev.on
        /\ dev'.aud = dev.aud /\ dev'.applied = dev.applied /\ dev'.sent = dev.sent /\ dev'.prov = dev.prov
    BY <1>0, <1>3 DEF Devices, Loc!Publish
  <2>2. mm.mic # Loc!None /\ mm.mic \in Known("mic", spent.opened)
    BY <1>0, <1>3, MicFacts DEF SomeOf, MicRelied
  <2>3. MicTold'
    <3>1. mm'.scr # Loc!None \/ mm'.cam # Loc!None => mm.mic # Loc!None
      BY <2>2
    <3>2. \A j \in dev'.pub : j \in dev.pub \/ (call # 0 /\ (j[1] = "mic" => j = mm.mic))
      BY <1>0, <1>3, <2>1
    <3> QED
      BY <1>0, <1>1, <2>1, <3>1, <3>2, MicStays
  <2> DEFINE M == {mm.mic}
  <2>4. M \in SUBSET Known("mic", spent.opened)
    BY <2>2
  <2>5. dev'.live \cup M = dev.live \cup M /\ dev'.pub \cup M = dev.pub \cup M
        /\ dev'.on \subseteq dev.on \cup M /\ mm'.mic \in {mm.mic} \cup M /\ mm'.local \subseteq mm.local \cup M
    BY <1>0, <2>1
  <2> HIDE DEF M
  <2>6. Told'
    BY <1>0, <1>1, <2>1, <2>3, <2>4, <2>5, MicOnly
  <2> QED
    BY <1>1, <2>6
<1> QED
  BY <1>2, <1>3 DEF Loc!AudioPublished, Loc!IsActive

(* The share on the screen stops, because its user, its source or a step   *)
(* of it asked for it.                                                     *)
LEMMA Faulted ==
    ASSUME ToldInv, spent' = spent \/ Loc!Fault
    PROVE  /\ spent'.opened = spent.opened /\ spent'.calls = spent.calls /\ spent'.asked = spent.asked
           /\ spent'.asked <= MaxAsked /\ spent'.faults <= MaxFaults /\ spent.asked <= spent'.asked
<1>1. /\ spent \in [calls : Nat, asked : Nat, faults : Nat, opened : Nat]
      /\ spent.faults \in Nat /\ spent.asked \in Nat /\ MaxFaults \in Nat /\ Counted
  BY TypedOps DEF ToldInv, Bounds, OpsTold
<1> QED
  BY <1>1 DEF Loc!Fault, Counted

LEMMA StopTold ==
    ASSUME ToldInv, LocalShape', call' = call, NEW o \in Operation, o.kind \in {"share", "unshare"},
           NEW d \in Devices, NEW M \in SUBSET Known("mic", spent.opened), d.live = dev.live \ M,
           d.pub = dev.pub, d.on = dev.on, d.aud = dev.aud, d.prov = dev.prov,
           mm.scr # Loc!None, Loc!StopsScreen(o, mm.scr, d), ended' \subseteq ended,
           spent'.opened = spent.opened, spent'.calls = spent.calls, spent.asked <= spent'.asked,
           spent'.asked <= MaxAsked, spent'.faults <= MaxFaults
    PROVE  OpsTold' /\ Told'
<1>0. /\ mm \in Fields /\ dev \in Devices /\ ops \subseteq Operation /\ spent.opened \in Nat /\ call \in Nat
      /\ mm.scr \in Known("scr", spent.opened) /\ mm.scr[1] = "scr" /\ Running /\ Alone /\ Placed
      /\ MicTold /\ CamTold /\ ScrTold /\ AudTold /\ Settled /\ Fitting /\ Counted
      /\ \A q \in ops : InOrder(q, spent.opened)
      /\ spent.asked \in Nat /\ spent'.asked \in Nat
  BY TypedOps DEF ToldInv, LocalInv, Told, OpsTold, Fitting, SomeOf, Known, LocalShape
<1> DEFINE u == [o EXCEPT !.kind = "unshare", !.at = "unpublish", !.cap = mm.scr, !.call = call]
           T == Loc!Stream(mm.scr)
<1>1. /\ mm' = [mm EXCEPT !.scr = Loc!None, !.says.scr = FALSE, !.says.aud = FALSE]
      /\ dev' = Loc!Unpublish(d, T) /\ ops' = (ops \ {o}) \cup {u}
  BY DEF Loc!StopsScreen
<1>2. u.kind = "unshare" /\ u.cap = mm.scr /\ u.call = call /\ u.at = "unpublish"
  BY DEF Operation
<1>3. /\ \A k \in T : k[1] \in {"scr", "aud"}
      /\ mm.scr \in T /\ \A k : <<mm.scr, k>> \in dev.aud => k \in T
  <2>1. \A p \in dev.aud : p[2][1] = "aud"
    BY <1>0 DEF Running, Known
  <2> QED
    BY <1>0, <2>1 DEF Loc!Stream
<1> HIDE DEF u, T
<1>4. /\ dev'.live = dev.live \ M /\ dev'.pub = dev.pub \ T /\ dev'.on = dev.on /\ dev'.aud = dev.aud
      /\ dev'.prov = dev.prov
  BY <1>1 DEF Devices, Loc!Unpublish
<1>5. /\ mm'.mic = mm.mic /\ mm'.cam = mm.cam /\ mm'.local = mm.local /\ mm'.scr = Loc!None /\ mm'.q = mm.q
      /\ mm'.says.mic = mm.says.mic /\ mm'.says.cam = mm.says.cam /\ ~mm'.says.scr /\ ~mm'.says.aud
  BY <1>0, <1>1 DEF Fields, Said
<1>6. Became(o, u) /\ u \in ops' /\ ops \ {o} \subseteq ops'
  BY <1>1, Becomes
<1>7. o \in ops => o.kind = "share"
  BY <1>0 DEF ScrTold, ScrRelied
<1>8. OpsTold'
  <2>1. InOrder(u, spent'.opened) /\ u.call <= spent.calls
    BY <1>0, <1>2 DEF InOrder, Counted
  <2>2. \A q \in ops : ~Early(q)
    BY <1>0 DEF Placed, Early
  <2>3. \A q \in ops : q = o \/ Apart(q, u)
    BY <1>2, <2>2, ApartStop
  <2>4. Paid(o) # 0 => (Group(o, call) = "spoken" /\ Group(u, call) = "none")
    BY <1>2, <1>7 DEF Paid, Group, Spoken, Cameras
  <2>5. Credit(u, call) = 0 /\ Paid(o) \in 0 .. 4
    BY <1>2 DEF Credit, Paid
  <2>6. spent'.opened + 0 + 4 * spent.asked <= spent.opened + Paid(o) + 4 * spent'.asked
    BY <1>0, <2>5
  <2>7. spent.opened <= spent'.opened
    BY <1>0
  <2> QED
    BY <1>6, <2>1, <2>3, <2>4, <2>5, <2>6, <2>7, OpsGo
<1>9. Fitting' /\ Running'
  BY <1>0, <1>4, <1>5, StaysFitting DEF SomeOf
<1>10. MicTold'
  <2>1. MicRelied(u, call, mm.mic)
    BY <1>0, <1>2 DEF MicRelied, MicTold, Spoken
  <2>2. mm'.scr # Loc!None \/ mm'.cam # Loc!None => mm.mic # Loc!None
    BY <1>0 DEF MicTold
  <2>3. \A k \in dev'.pub : k \in dev.pub \/ (call # 0 /\ (k[1] = "mic" => k = mm.mic))
    BY <1>4
  <2> QED
    BY <1>4, <1>5, <1>6, <2>1, <2>2, <2>3, MicStays
<1>11. \A k \in M : k[1] = "mic"
  BY KnownKind, <1>0
<1>12. CamTold'
  <2>1. Untouched("cam")
    BY <1>3, <1>4, <1>11 DEF Untouched
  <2>2. CamRelied(u, call, mm.cam)
    BY <1>2 DEF CamRelied, Cameras
  <2> QED
    BY <1>5, <1>6, <2>1, <2>2, CamStays
<1>13. ScrTold'
  <2>1. \A k \in dev'.live \cap dev'.pub : k[1] # "scr"
    BY <1>0, <1>3, <1>4 DEF ScrTold
  <2>2. \A q \in ops' : ScrRelied(q, call', mm'.scr)
    BY <1>5 DEF ScrRelied
  <2> QED
    BY <1>5, <2>1, <2>2 DEF ScrTold
<1>14. AudTold'
  <2>1. \A k \in dev'.live \cap dev'.pub : k[1] # "aud"
    BY <1>0, <1>3, <1>4 DEF AudTold
  <2>2. ASSUME NEW q \in ops' PROVE AudRelied(q, call', dev'.aud, dev'.live, ended')
    <3>1. CASE q = u
      BY <1>2, <3>1 DEF AudRelied
    <3>2. CASE q \in ops
      <4>1. AudRelied(q, call, dev.aud, dev.live, ended) /\ ~Early(q)
        BY <1>0, <3>2 DEF AudTold, Placed, Early
      <4> QED
        BY <1>4, <4>1 DEF AudRelied, Early
    <3> QED
      BY <1>6, <3>1, <3>2 DEF Became
  <2> QED
    BY <1>5, <2>1, <2>2 DEF AudTold
<1>15. Settled'
  <2>1. ASSUME NEW q \in ops' PROVE QualityRelied(q, call', mm'.scr)
    <3>1. CASE q = u
      BY <1>2, <3>1 DEF QualityRelied
    <3>2. CASE q \in ops
      <4>1. q.kind = "quality" => q.cap \in Known("scr", spent.opened)
        BY <1>0, <3>2 DEF InOrder
      <4>2. q.kind = "quality" => q.cap # Loc!None
        BY <1>0, <4>1, NoneKind
      <4> QED
        BY <1>5, <4>2 DEF QualityRelied
    <3> QED
      BY <1>6, <3>1, <3>2 DEF Became
  <2> QED
    BY <1>5, <2>1 DEF Settled
<1> QED
  BY <1>8, <1>9, <1>10, <1>12, <1>13, <1>14, <1>15 DEF Told

(* An operation ends, and a microphone it opened is stopped.               *)
LEMMA MicDropped ==
    ASSUME ToldInv, LocalShape', call' = call, mm' = mm, ended' = ended, NEW o \in ops, o.kind # "quality",
           ops' = ops \ {o}, spent' = spent \/ Loc!Fault,
           NEW M \in SUBSET Known("mic", spent.opened), dev' = Loc!Stop(dev, M)
    PROVE  OpsTold' /\ Told'
<1>0. dev \in Devices /\ mm \in Fields /\ spent.opened \in Nat
  BY TypedOps
<1>1. Became(o, o) /\ ops \ {o} \subseteq ops' /\ o \notin ops' /\ spent'.opened = spent.opened
  BY Ceases, Faulted
<1>2. /\ dev'.live = dev.live \ M /\ dev'.pub = dev.pub /\ dev'.on = dev.on
      /\ dev'.aud = dev.aud /\ dev'.applied = dev.applied /\ dev'.sent = dev.sent /\ dev'.prov = dev.prov
  BY <1>0 DEF Devices, Loc!Stop
<1>3. MicTold'
  <2>1. mm'.scr # Loc!None \/ mm'.cam # Loc!None => mm.mic # Loc!None
    BY MicFacts DEF MicTold
  <2>2. \A j \in dev'.pub : j \in dev.pub \/ (call # 0 /\ (j[1] = "mic" => j = mm.mic))
    BY <1>2
  <2> QED
    BY <1>1, <1>2, <2>1, <2>2, MicStays
<1>4. /\ dev'.live \cup M = dev.live \cup M /\ dev'.pub \cup M = dev.pub \cup M
      /\ dev'.on \subseteq dev.on \cup M /\ mm'.mic \in {mm.mic} \cup M /\ mm'.local \subseteq mm.local \cup M
  BY <1>2
<1>5. spent.opened <= spent.opened
  BY <1>0
<1>6. Told'
  BY <1>0, <1>1, <1>2, <1>3, <1>4, <1>5, MicOnly
<1> QED
  BY <1>6, OpsEnd

(* A share that fails where it is on the screen stops.                     *)
LEMMA ShareFailedTold ==
    ASSUME ToldInv, LocalShape', call' = call, ended' = ended, NEW o \in ops, o.kind = "share",
           o.at \in {"publish", "republish", "open", "replace"}, spent' = spent \/ Loc!Fault,
           NEW M \in SUBSET Known("mic", spent.opened), NEW d,
           (d = dev /\ M = {}) \/ d = Loc!Stop(dev, M), Loc!ShareFailed(o, d)
    PROVE  OpsTold' /\ Told'
<1>0. /\ dev \in Devices /\ mm \in Fields /\ spent.opened \in Nat /\ o \in Operation
      /\ InOrder(o, spent.opened)
  BY TypedOps DEF ToldInv, OpsTold
<1>1. CASE mm.scr = o.cap
  <2>1. o.cap # Loc!None
    <3>1. o.cap \in Known("scr", spent.opened)
      BY <1>0 DEF InOrder
    <3> QED
      BY <1>0, <3>1, NoneKind
  <2>2. /\ d \in Devices /\ d.live = dev.live \ M /\ d.pub = dev.pub /\ d.on = dev.on /\ d.aud = dev.aud
        /\ d.prov = dev.prov
    <3>1. CASE d = dev /\ M = {}
      BY <1>0, <3>1
    <3>2. CASE d = Loc!Stop(dev, M)
      BY <1>0, <3>2 DEF Devices, Loc!Stop
    <3> QED
      BY <3>1, <3>2
  <2>3. Loc!StopsScreen(o, mm.scr, d)
    BY <1>1 DEF Loc!ShareFailed
  <2> QED
    BY <1>0, <1>1, <2>1, <2>2, <2>3, Faulted, StopTold
<1>2. CASE mm.scr # o.cap
  <2>1. dev' = d /\ ops' = ops \ {o} /\ mm' = mm /\ o.kind # "quality"
    BY <1>2 DEF Loc!ShareFailed, Loc!Done
  <2>2. CASE d = dev
    BY <2>1, <2>2, EndTold
  <2>3. CASE d = Loc!Stop(dev, M)
    BY <2>1, <2>3, MicDropped
  <2> QED
    BY <2>2, <2>3
<1> QED
  BY <1>1, <1>2

LEMMA VoiceFailedTold ==
    ASSUME ToldInv, LocalShape', call' = call, ended' = ended, NEW o \in ops, o.kind \in {"voice", "share"},
           o.at \in {"open", "replace"}, spent' = spent \/ Loc!Fault,
           NEW M \in SUBSET Known("mic", spent.opened), NEW d,
           (d = dev /\ M = {}) \/ d = Loc!Stop(dev, M), Loc!VoiceFailed(o, d)
    PROVE  OpsTold' /\ Told'
<1>1. CASE o.kind = "share"
  BY <1>1, ShareFailedTold DEF Loc!VoiceFailed
<1>2. CASE o.kind = "voice"
  <2>1. dev' = d /\ ops' = ops \ {o} /\ mm' = mm /\ o.kind # "quality"
    BY <1>2 DEF Loc!VoiceFailed, Loc!Done
  <2>2. CASE d = dev
    BY <2>1, <2>2, EndTold
  <2>3. CASE d = Loc!Stop(dev, M)
    BY <2>1, <2>3, MicDropped
  <2> QED
    BY <2>2, <2>3
<1> QED
  BY <1>1, <1>2

LEMMA VoiceContinuesTold ==
    ASSUME ToldInv, LocalShape', NEW o \in ops, Loc!VoiceOpened(o) \/ Loc!VoiceFails(o)
    PROVE  OpsTold' /\ Told'
<1>0. {} \in SUBSET Known("mic", spent.opened)
  OBVIOUS
<1>1. CASE Loc!VoiceOpened(o)
  <2>1. CASE o.call = call /\ mm.mic = o.prev /\ o.prev \in dev.pub
    BY <1>1, <2>1, VoiceOpenedTold
  <2>2. CASE ~(o.call = call /\ mm.mic = o.prev /\ o.prev \in dev.pub)
    <3>1. /\ Loc!VoiceFailed(o, dev) /\ spent' = spent /\ call' = call /\ ended' = ended
          /\ o.kind \in {"voice", "share"} /\ o.at \in {"open", "replace"}
      BY <1>1, <2>2 DEF Loc!VoiceOpened, Loc!IsActive
    <3> QED
      BY <1>0, <3>1, VoiceFailedTold
  <2> QED
    BY <2>1, <2>2
<1>2. CASE Loc!VoiceFails(o)
  <2>1. /\ Loc!Fault /\ call' = call /\ ended' = ended
        /\ o.kind \in {"voice", "share"} /\ o.at \in {"open", "replace"}
    BY <1>2 DEF Loc!VoiceFails
  <2>2. CASE o.at = "open"
    <3>1. Loc!VoiceFailed(o, dev)
      BY <1>2, <2>2 DEF Loc!VoiceFails
    <3> QED
      BY <1>0, <2>1, <3>1, VoiceFailedTold
  <2>3. CASE o.at = "replace"
    <3> DEFINE M == {Loc!Replacement(o)}
               d == Loc!Stop(dev, M)
    <3>1. Loc!VoiceFailed(o, d)
      BY <1>2, <2>3 DEF Loc!VoiceFails
    <3>2. M \in SUBSET Known("mic", spent.opened)
      <4>1. InOrder(o, spent.opened)
        BY DEF ToldInv, OpsTold
      <4>2. o.rev \in 1 .. spent.opened
        BY <2>1, <2>3, <4>1 DEF InOrder
      <4> QED
        BY <4>2 DEF Known, Loc!Replacement
    <3>3. d = Loc!Stop(dev, M)
      OBVIOUS
    <3> HIDE DEF M, d
    <3> QED
      BY <2>1, <3>1, <3>2, <3>3, VoiceFailedTold
  <2> QED
    BY <2>1, <2>2, <2>3
<1> QED
  BY <1>1, <1>2

LEMMA ScreenFailsTold ==
    ASSUME ToldInv, LocalShape', NEW o \in ops, Loc!ScreenFails(o)
    PROVE  OpsTold' /\ Told'
<1>1. {} \in SUBSET Known("mic", spent.opened)
  OBVIOUS
<1>2. /\ Loc!Fault /\ call' = call /\ ended' = ended /\ Loc!ShareFailed(o, dev)
      /\ o.kind = "share" /\ o.at \in {"publish", "republish", "open", "replace"}
  BY DEF Loc!ScreenFails
<1> QED
  BY <1>1, <1>2, ShareFailedTold

(* A step that touches the camera only.                                    *)
LEMMA CamOnly ==
    ASSUME ToldInv, call' = call, NEW n \in Nat, spent'.opened = n, spent.opened <= n,
           NEW o, NEW u, Became(o, u), ops \ {o} \subseteq ops', o \in ops => o.kind # "quality",
           u \in ops' => u.kind \in Cameras /\ MicRelied(u, call, mm.mic),
           mm'.mic = mm.mic, mm'.scr = mm.scr, mm'.q = mm.q, mm'.says.mic = mm.says.mic,
           mm'.says.scr = mm.says.scr, mm'.says.aud = mm.says.aud,
           dev'.aud = dev.aud, dev'.applied = dev.applied, dev'.sent = dev.sent, dev'.prov = dev.prov,
           dev'.on = dev.on, ended' = ended,
           NEW M \in SUBSET Known("cam", n),
           dev'.live \cup M = dev.live \cup M, dev'.pub \cup M = dev.pub \cup M,
           call # 0 \/ dev'.pub \subseteq dev.pub,
           mm'.cam \in {mm.cam, Loc!None} \cup M, mm'.local \subseteq mm.local \cup M,
           mm'.cam = Loc!None \/ mm.mic # Loc!None,
           CamTold'
    PROVE  Told'
<1>1. \A k \in M : k[1] = "cam"
  BY KnownKind
<1>2. Untouched("mic") /\ Untouched("scr") /\ Untouched("aud")
  BY <1>1 DEF Untouched
<1>3. MicTold'
  <2>1. mm'.scr # Loc!None \/ mm'.cam # Loc!None => mm.mic # Loc!None
    BY MicFacts DEF MicTold
  <2>2. \A k \in dev'.pub : k \in dev.pub \/ (call # 0 /\ (k[1] = "mic" => k = mm.mic))
    BY <1>1
  <2> QED
    BY <2>1, <2>2, MicStays
<1>4. u \in ops' => /\ ScrRelied(u, call, mm.scr) /\ QualityRelied(u, call, mm.scr)
                    /\ AudRelied(u, call, dev.aud, dev'.live, ended')
  BY DEF ScrRelied, QualityRelied, AudRelied, Cameras
<1>5. ScrTold'
  BY <1>2, <1>4, ScrStays
<1>6. AudTold'
  <2>1. \A k \in dev.live : k[1] = "scr" => k \in dev'.live
    BY <1>2 DEF Untouched
  <2> QED
    BY <1>2, <1>4, <2>1, AudStays
<1>7. Settled'
  <2>1. mm.scr # Loc!None => mm.scr[1] = "scr"
    BY DEF ToldInv, Told, Fitting, SomeOf, Known
  <2>2. mm.scr # Loc!None /\ mm.scr \in dev'.live => mm.scr \in dev.live
    BY <1>2, <2>1 DEF Untouched
  <2> QED
    BY <1>4, <2>2, SettledStays
<1>8. Fitting' /\ Running'
  <2>1. M \subseteq Any(n) /\ M \subseteq SomeOf("cam", n) /\ Loc!None \in SomeOf("cam", n)
    BY DEF Any, SomeOf
  <2> QED
    BY <2>1, StaysFitting
<1> QED
  BY <1>3, <1>5, <1>6, <1>7, <1>8 DEF Told

(* The camera and the operations on it, as the invariant knows them.       *)
LEMMA CamFacts ==
    ASSUME ToldInv, NEW o \in ops, o.kind \in Cameras
    PROVE  /\ CamTold /\ CamRelied(o, call, mm.cam) /\ MicRelied(o, call, mm.mic)
           /\ InOrder(o, spent.opened) /\ o \in Operation
           /\ (\A q \in ops : q = o \/ Apart(q, o))
           /\ (\A q \in ops : q = o \/ q.kind \notin Cameras)
           /\ mm \in Fields /\ dev \in Devices /\ ops \subseteq Operation /\ spent.opened \in Nat
           /\ o.call # 0 /\ (\A k \in dev.pub : k # Loc!None) /\ Loc!None[1] = "none"
<1>1. /\ CamTold /\ MicTold /\ (\A q \in ops : InOrder(q, spent.opened)) /\ o \in Operation /\ Alone
      /\ mm \in Fields /\ dev \in Devices /\ ops \subseteq Operation /\ spent.opened \in Nat /\ o.call # 0
  BY TypedOps DEF ToldInv, Told, OpsTold
<1>2. \A q \in ops : q = o \/ Apart(q, o)
  BY <1>1 DEF Alone
<1>3. \A q \in ops : q = o \/ q.kind \notin Cameras
  BY <1>2 DEF Apart
<1> QED
  BY <1>1, <1>2, <1>3, MicFacts DEF CamTold, MicTold

(* The camera of an operation that ends is stopped.                        *)
LEMMA CamStopped ==
    ASSUME ToldInv, LocalShape', NEW o \in ops, o.kind \in Cameras, o.cap \in Known("cam", spent.opened),
           call' = call, ended' = ended, spent' = spent \/ Loc!Fault, ops' = ops \ {o},
           dev' = Loc!Stop(dev, {o.cap}), mm.cam \in {o.cap, Loc!None},
           mm'.mic = mm.mic, mm'.scr = mm.scr, mm'.q = mm.q, mm'.says.mic = mm.says.mic,
           mm'.says.scr = mm.says.scr, mm'.says.aud = mm.says.aud,
           mm'.cam = Loc!None, ~mm'.says.cam, mm'.local \subseteq mm.local
    PROVE  OpsTold' /\ Told'
<1>0. CamTold /\ dev \in Devices /\ spent.opened \in Nat /\ \A q \in ops : q = o \/ q.kind \notin Cameras
  BY CamFacts
<1>1. Became(o, o) /\ ops \ {o} \subseteq ops' /\ o \notin ops' /\ spent'.opened = spent.opened
      /\ o.kind # "quality"
  BY Ceases, Faulted DEF Cameras
<1>2. /\ dev'.live = dev.live \ {o.cap} /\ dev'.pub = dev.pub /\ dev'.on = dev.on
      /\ dev'.aud = dev.aud /\ dev'.applied = dev.applied /\ dev'.sent = dev.sent /\ dev'.prov = dev.prov
  BY <1>0 DEF Devices, Loc!Stop
<1>3. CamTold'
  <2>1. \A k \in dev'.live \cap dev'.pub : k[1] # "cam"
    BY <1>0, <1>2, CamFacts DEF CamTold
  <2>2. \A q \in ops' : CamRelied(q, call', mm'.cam)
    BY <1>0 DEF CamRelied
  <2> QED
    BY <2>1, <2>2 DEF CamTold
<1> DEFINE M == {o.cap}
<1>4. /\ M \in SUBSET Known("cam", spent.opened) /\ dev'.live \cup M = dev.live \cup M
      /\ dev'.pub \cup M = dev.pub \cup M /\ mm'.local \subseteq mm.local \cup M
      /\ mm'.cam \in {mm.cam, Loc!None} \cup M
  BY <1>2
<1>5. spent.opened <= spent.opened /\ (call # 0 \/ dev'.pub \subseteq dev.pub)
  BY <1>0, <1>2
<1> HIDE DEF M
<1>6. Told'
  BY <1>0, <1>1, <1>2, <1>3, <1>4, <1>5, CamOnly
<1> QED
  BY <1>6, OpsEnd

LEMMA CameraOpenedTold ==
    ASSUME ToldInv, LocalShape', NEW o \in ops, Loc!CameraOpened(o)
    PROVE  OpsTold' /\ Told'
<1>0. /\ o.kind = "camon" /\ o.at = "open" /\ o.kind \in Cameras /\ call' = call /\ ended' = ended
      /\ o.kind # "quality"
  BY DEF Loc!CameraOpened, Cameras
<1>1. CASE o.call # call
  <2>1. ops' = ops \ {o} /\ spent' = spent /\ mm' = mm /\ dev' = dev
    BY <1>1 DEF Loc!CameraOpened, Loc!IsActive, Loc!Done
  <2> QED
    BY <1>0, <2>1, EndTold
<1>2. CASE o.call = call
  <2>0. /\ CamTold /\ CamRelied(o, call, mm.cam) /\ MicRelied(o, call, mm.mic) /\ InOrder(o, spent.opened)
        /\ o \in Operation /\ (\A q \in ops : q = o \/ Apart(q, o))
        /\ (\A q \in ops : q = o \/ q.kind \notin Cameras)
        /\ mm \in Fields /\ dev \in Devices /\ spent.opened \in Nat /\ o.call # 0
        /\ (\A j \in dev.pub : j # Loc!None)
    BY <1>0, CamFacts
  <2> DEFINE k == Loc!New("cam")
             u == [o EXCEPT !.at = "publish", !.cap = k]
             n == spent.opened + 1
  <2>1. /\ k = <<"cam", spent.opened + 1>> /\ Loc!Opened(1)
        /\ mm' = [mm EXCEPT !.cam = k, !.local = @ \cup {k}, !.says.cam = TRUE]
        /\ dev' = Loc!Publish([dev EXCEPT !.live = @ \cup {k}], {k})
        /\ ops' = (ops \ {o}) \cup {u}
    BY <1>2 DEF Loc!CameraOpened, Loc!IsActive, Loc!New
  <2>2. u.kind = "camon" /\ u.call = o.call /\ u.cap = k /\ u.at = "publish"
    BY <1>0, <2>0 DEF Operation
  <2> HIDE DEF k, u
  <2>3. /\ mm'.cam = k /\ mm'.local = mm.local \cup {k} /\ mm'.mic = mm.mic /\ mm'.scr = mm.scr
        /\ mm'.q = mm.q /\ mm'.says.cam /\ mm'.says.mic = mm.says.mic /\ mm'.says.scr = mm.says.scr
        /\ mm'.says.aud = mm.says.aud
    BY <2>0, <2>1 DEF Fields, Said
  <2>4. /\ dev'.live = dev.live \cup {k} /\ dev'.on = dev.on /\ dev'.pub = dev.pub \cup {k}
        /\ dev'.aud = dev.aud /\ dev'.applied = dev.applied /\ dev'.sent = dev.sent /\ dev'.prov = dev.prov
    BY <2>0, <2>1 DEF Devices, Loc!Publish
  <2>5. k \in Known("cam", n) /\ k[1] = "cam" /\ n \in Nat /\ k # Loc!None
    BY <2>1, NewMic, MicFacts
  <2>6. /\ spent'.opened = n /\ spent'.calls = spent.calls /\ spent'.asked = spent.asked
        /\ spent'.faults = spent.faults
    BY <2>1, OpensOne
  <2>7. OpsTold'
    <3>1. InOrder(u, n)
      BY <2>2, <2>5 DEF InOrder
    <3>2. \A q \in ops : q = o \/ Apart(q, u)
      <4>1. ~Early(u)
        BY <2>2 DEF Early
      <4> QED
        BY <1>0, <2>0, <2>2, <4>1, ApartKept
    <3>3. Group(u, call) = Group(o, call) /\ Credit(u, call) = 0 /\ Credit(o, call) = 1
      BY <1>0, <2>2 DEF Group, Credit
    <3>4. spent'.opened = spent.opened + 1 /\ Credit(u, call) + 1 <= Credit(o, call) /\ 1 \in Nat
      BY <2>6, <3>3
    <3> QED
      BY <1>0, <2>0, <2>1, <2>2, <2>6, <3>1, <3>2, <3>3, <3>4, OpsOpen
  <2>8. CamTold'
    <3>1. mm.cam = Loc!None
      BY <1>0, <2>0 DEF CamRelied
    <3>2. \A j \in dev'.live \cap dev'.pub : j[1] = "cam" => j = mm'.cam
      BY <2>0, <2>3, <2>4, <3>1 DEF CamTold
    <3>3. ASSUME NEW q \in ops' PROVE CamRelied(q, call', mm'.cam)
      <4>1. CASE q = u
        BY <1>0, <1>2, <2>2, <2>3, <4>1 DEF CamRelied
      <4>2. CASE q \in ops /\ q # o
        BY <2>0, <4>2 DEF CamRelied
      <4> QED
        BY <2>1, <4>1, <4>2
    <3> QED
      BY <2>3, <2>4, <2>5, <3>2, <3>3 DEF CamTold
  <2>9. Told'
    <3>1. Became(o, u) /\ ops \ {o} \subseteq ops'
      BY <2>1, Becomes
    <3>2. mm.mic # Loc!None
      BY <1>0, <1>2, <2>0 DEF MicRelied
    <3>3. u.kind \in Cameras /\ MicRelied(u, call, mm.mic)
      BY <2>2, <3>2 DEF MicRelied, Cameras, Spoken
    <3> DEFINE M == {k}
    <3>4. /\ M \in SUBSET Known("cam", n) /\ dev'.live \cup M = dev.live \cup M
          /\ dev'.pub \cup M = dev.pub \cup M /\ mm'.local \subseteq mm.local \cup M
          /\ mm'.cam \in {mm.cam, Loc!None} \cup M
      BY <2>3, <2>4, <2>5
    <3>5. n \in Nat /\ spent.opened <= n /\ call # 0
      BY <1>2, <2>0
    <3> HIDE DEF M, n
    <3> QED
      BY <1>0, <2>3, <2>4, <2>6, <2>8, <3>1, <3>2, <3>3, <3>4, <3>5, CamOnly
  <2> QED
    BY <2>7, <2>9
<1> QED
  BY <1>1, <1>2

LEMMA CameraEndsTold ==
    ASSUME ToldInv, LocalShape', NEW o \in ops,
           Loc!CameraPublished(o) \/ Loc!CameraUnpublished(o) \/ Loc!CameraFails(o)
    PROVE  OpsTold' /\ Told'
<1>0. /\ o.kind \in Cameras /\ o.kind # "quality" /\ call' = call /\ ended' = ended
      /\ (spent' = spent \/ Loc!Fault) /\ ops' = ops \ {o}
  BY DEF Loc!CameraPublished, Loc!CameraUnpublished, Loc!CameraFails, Cameras, Loc!Camera, Loc!Done
<1>1. CASE mm' = mm /\ dev' = dev
  BY <1>0, <1>1, EndTold
<1>2. /\ CamTold /\ CamRelied(o, call, mm.cam) /\ InOrder(o, spent.opened)
      /\ mm \in Fields /\ dev \in Devices /\ spent.opened \in Nat
  BY <1>0, CamFacts
<1>3. CASE Loc!CameraPublished(o) /\ o.call # call
  <2>1. o.kind = "camon" /\ o.at = "publish" /\ dev' = Loc!Stop(dev, {o.cap}) /\ mm' = mm
    BY <1>3 DEF Loc!CameraPublished, Loc!IsActive
  <2>2. mm.cam = Loc!None /\ o.cap \in Known("cam", spent.opened) /\ ~mm.says.cam
    BY <1>0, <1>2, <1>3, <2>1 DEF CamRelied, InOrder, CamTold
  <2> QED
    BY <1>0, <2>1, <2>2, CamStopped
<1>4. CASE Loc!CameraUnpublished(o) /\ o.call = call
  <2>1. /\ o.kind = "camoff" /\ dev' = Loc!Stop(dev, {o.cap})
        /\ mm' = [mm EXCEPT !.local = @ \ {o.cap}]
    BY <1>4 DEF Loc!CameraUnpublished, Loc!IsActive
  <2>2. mm.cam = Loc!None /\ o.cap \in Known("cam", spent.opened) /\ ~mm.says.cam
    BY <1>0, <1>2, <2>1 DEF CamRelied, InOrder, CamTold
  <2>3. /\ mm'.mic = mm.mic /\ mm'.scr = mm.scr /\ mm'.q = mm.q /\ mm'.says = mm.says
        /\ mm'.cam = mm.cam /\ mm'.local \subseteq mm.local
    BY <1>2, <2>1 DEF Fields
  <2> QED
    BY <1>0, <2>1, <2>2, <2>3, CamStopped
<1>5. CASE Loc!CameraFails(o) /\ o.at = "publish"
  <2>1. /\ dev' = Loc!Stop(dev, {o.cap})
        /\ mm' = [mm EXCEPT !.local = @ \ {o.cap}, !.says.cam = FALSE,
                            !.cam = IF @ = o.cap THEN Loc!None ELSE @]
    BY <1>5 DEF Loc!CameraFails
  <2>2. o.kind = "camon" /\ mm.cam \in {o.cap, Loc!None} /\ o.cap \in Known("cam", spent.opened)
    BY <1>0, <1>2, <1>5 DEF CamRelied, InOrder, Cameras
  <2>3. /\ mm'.mic = mm.mic /\ mm'.scr = mm.scr /\ mm'.q = mm.q /\ mm'.says.mic = mm.says.mic
        /\ mm'.says.scr = mm.says.scr /\ mm'.says.aud = mm.says.aud /\ ~mm'.says.cam
        /\ mm'.cam = Loc!None /\ mm'.local \subseteq mm.local
    BY <1>2, <2>1, <2>2 DEF Fields, Said
  <2> QED
    BY <1>0, <2>1, <2>2, <2>3, CamStopped
<1> QED
  BY <1>1, <1>3, <1>4, <1>5 DEF Loc!CameraPublished, Loc!CameraUnpublished, Loc!CameraFails, Loc!IsActive

LEMMA ToggleCameraTold ==
    ASSUME Serial, ToldInv, LocalShape', Loc!ToggleCamera
    PROVE  OpsTold' /\ Told'
<1>0. /\ mm \in Fields /\ dev \in Devices /\ ops \subseteq Operation /\ spent.opened \in Nat /\ call \in Nat
      /\ spent \in [calls : Nat, asked : Nat, faults : Nat, opened : Nat] /\ LocalShape /\ Loc!None \in Maybe
      /\ call' = call /\ ended' = ended /\ call # 0 /\ mm.mic # Loc!None
      /\ Loc!Asked /\ spent.asked < MaxAsked /\ mm.cam \in Maybe /\ spent.opened <= spent.opened
      /\ (\A q \in ops : q.kind \notin Cameras) /\ CamTold /\ Fitting
  BY TypedOps DEF Loc!ToggleCamera, Loc!Asks, Loc!Camera, Cameras, ToldInv, Told
<1>1. spent'.opened = spent.opened
  BY <1>0 DEF Loc!Asked
<1>2. CASE mm.cam = Loc!None
  <2> DEFINE u == Loc!Op("camon", "open", Loc!None)
  <2>1. u.kind = "camon" /\ u.at = "open" /\ u.cap = Loc!None /\ u.call = call
    BY <1>0, NewOp DEF Kinds, Waits
  <2>2. ops' = ops \cup {u} /\ mm' = mm /\ dev' = dev
    BY <1>2 DEF Loc!ToggleCamera, Loc!Begin
  <2> HIDE DEF u
  <2>3. u \notin ops /\ \A q \in ops : Apart(q, u)
    BY <1>0, <2>1 DEF Apart, Spoken, Cameras, Early
  <2>4. InOrder(u, spent.opened)
    BY <2>1 DEF InOrder
  <2>5. OpsTold'
    BY <1>0, <2>1, <2>2, <2>3, <2>4, OpsBegin
  <2>6. MicRelied(u, call, mm.mic) /\ Relies(u, call)
    BY <1>0, <1>2, <2>1 DEF MicRelied, Relies, CamRelied, ScrRelied, QualityRelied, AudRelied, Spoken, Cameras
  <2>7. Became(u, u) /\ ops \ {u} \subseteq ops'
    BY <2>2 DEF Became
  <2> QED
    BY <1>0, <1>1, <2>2, <2>3, <2>5, <2>6, <2>7, ToldKept
<1>3. CASE mm.cam # Loc!None
  <2> DEFINE u == Loc!Op("camoff", "unpublish", mm.cam)
  <2>1. u.kind = "camoff" /\ u.at = "unpublish" /\ u.cap = mm.cam /\ u.call = call
    BY <1>0, NewOp DEF Kinds, Waits
  <2>2. ops' = ops \cup {u} /\ mm' = [mm EXCEPT !.cam = Loc!None, !.says.cam = FALSE]
        /\ dev' = Loc!Unpublish(dev, {mm.cam})
    BY <1>3 DEF Loc!ToggleCamera, Loc!Begin
  <2> HIDE DEF u
  <2>3. u \notin ops /\ \A q \in ops : Apart(q, u)
    BY <1>0, <2>1 DEF Apart, Spoken, Cameras, Early
  <2>4. mm.cam \in Known("cam", spent.opened)
    BY <1>0, <1>3 DEF Fitting, SomeOf
  <2>5. OpsTold'
    <3>1. InOrder(u, spent.opened)
      BY <2>1, <2>4 DEF InOrder
    <3> QED
      BY <1>0, <2>1, <2>2, <2>3, <3>1, OpsBegin
  <2>6. /\ mm'.cam = Loc!None /\ mm'.local = mm.local /\ mm'.mic = mm.mic /\ mm'.scr = mm.scr
        /\ mm'.q = mm.q /\ ~mm'.says.cam /\ mm'.says.mic = mm.says.mic /\ mm'.says.scr = mm.says.scr
        /\ mm'.says.aud = mm.says.aud
    BY <1>0, <2>2 DEF Fields, Said
  <2>7. /\ dev'.live = dev.live /\ dev'.on = dev.on /\ dev'.pub = dev.pub \ {mm.cam}
        /\ dev'.aud = dev.aud /\ dev'.applied = dev.applied /\ dev'.sent = dev.sent /\ dev'.prov = dev.prov
    BY <1>0, <2>2 DEF Devices, Loc!Unpublish
  <2>8. CamTold'
    <3>1. \A q \in ops' : CamRelied(q, call', mm'.cam)
      BY <1>0, <2>1, <2>2, <2>6 DEF CamRelied
    <3> QED
      BY <1>0, <2>6, <2>7, <3>1 DEF CamTold
  <2>9. MicRelied(u, call, mm.mic) /\ u.kind \in Cameras
    BY <1>0, <2>1 DEF MicRelied, Spoken, Cameras
  <2>10. Became(u, u) /\ ops \ {u} \subseteq ops'
    BY <2>2 DEF Became
  <2> DEFINE M == {mm.cam}
  <2>11. /\ M \in SUBSET Known("cam", spent.opened) /\ dev'.live \cup M = dev.live \cup M
         /\ dev'.pub \cup M = dev.pub \cup M /\ mm'.local \subseteq mm.local \cup M
         /\ mm'.cam \in {mm.cam, Loc!None} \cup M
    BY <2>4, <2>6, <2>7
  <2> HIDE DEF M
  <2>12. Told'
    BY <1>0, <1>1, <2>3, <2>6, <2>7, <2>8, <2>9, <2>10, <2>11, CamOnly
  <2> QED
    BY <2>5, <2>12
<1> QED
  BY <1>2, <1>3

(* No capture has a number beyond those the bounds allow.                  *)
LEMMA FundedNumbers ==
    ASSUME ToldInv
    PROVE  1 .. spent.opened \subseteq Loc!Numbers /\ spent.opened <= MaxCalls + 4 * MaxAsked
<1>1. /\ spent.opened \in Nat /\ spent.calls \in Nat /\ spent.asked \in Nat /\ MaxCalls \in Nat /\ MaxAsked \in Nat
      /\ spent.calls <= MaxCalls /\ spent.asked <= MaxAsked
  BY TypedOps DEF ToldInv, Bounds, OpsTold, Counted
<1>2. /\ Owes(ops, call, "init") \in Nat /\ Owes(ops, call, "spoken") \in Nat
      /\ Owes(ops, call, "camera") \in Nat /\ Owes(ops, call, "attach") \in Nat
  BY OwesSome
<1>3. spent.opened <= spent.calls + 4 * spent.asked
  BY <1>1, <1>2 DEF ToldInv, OpsTold, Funded
<1>4. spent.opened <= MaxCalls + 4 * MaxAsked
  BY <1>1, <1>3
<1> QED
  BY <1>1, <1>4 DEF Loc!Numbers

(* The screen and the operations on it, as the invariant knows them.       *)
LEMMA ScrFacts ==
    ASSUME ToldInv
    PROVE  /\ ScrTold /\ AudTold /\ Settled /\ MicTold /\ CamTold /\ Placed
           /\ mm.scr \in SomeOf("scr", spent.opened)
           /\ (\A p \in dev.aud : /\ p[1] \in Known("scr", spent.opened) /\ p[2] \in Known("aud", spent.opened)
                                  /\ p[1][1] = "scr" /\ p[2][1] = "aud" /\ p[1] # Loc!None /\ p[2] # Loc!None)
           /\ (\A k \in dev.pub \cup dev.live : k \in Any(spent.opened) /\ k # Loc!None)
           /\ (\A q \in ops : q.kind = "quality" => q.cap \in Known("scr", spent.opened) /\ q.cap # Loc!None)
           /\ spent.opened \in Nat /\ Loc!None[1] = "none"
<1>1. /\ spent.opened \in Nat /\ Running /\ Fitting /\ (\A q \in ops : InOrder(q, spent.opened))
      /\ ScrTold /\ AudTold /\ Settled /\ MicTold /\ CamTold /\ Placed
  BY TypedOps DEF ToldInv, Told, OpsTold, LocalInv
<1>2. /\ Loc!None \notin Any(spent.opened) /\ Loc!None[1] = "none"
      /\ Loc!None \notin Known("scr", spent.opened) /\ Loc!None \notin Known("aud", spent.opened)
  BY <1>1, NoneKind
<1>3. \A q \in ops : q.kind = "quality" => q.cap \in Known("scr", spent.opened)
  BY <1>1 DEF InOrder
<1>4. \A p \in dev.aud : p[1] \in Known("scr", spent.opened) /\ p[2] \in Known("aud", spent.opened)
  BY <1>1 DEF Running
<1>5. \A p \in dev.aud : p[1][1] = "scr" /\ p[2][1] = "aud"
  BY <1>1, <1>4, KnownKind
<1> QED
  BY <1>1, <1>2, <1>3, <1>4, <1>5 DEF Running, Fitting

LEMMA ShareFacts ==
    ASSUME ToldInv, NEW o \in ops
    PROVE  /\ o \in Operation /\ InOrder(o, spent.opened) /\ MicRelied(o, call, mm.mic)
           /\ ScrRelied(o, call, mm.scr) /\ AudRelied(o, call, dev.aud, dev.live, ended)
           /\ QualityRelied(o, call, mm.scr)
           /\ (\A q \in ops : q = o \/ Apart(q, o))
           /\ (o.kind = "share" => \A q \in ops : q = o \/ q.kind \notin {"voice", "share", "attach"})
           /\ (o.kind = "attach" => \A q \in ops : q = o \/ q.kind \notin {"share", "attach"})
           /\ (Early(o) => mm.scr = Loc!None /\ \A q \in ops : q.kind # "unshare")
           /\ (o.kind = "unshare" => \A q \in ops : ~Early(q))
           /\ mm \in Fields /\ dev \in Devices /\ ops \subseteq Operation /\ o.call # 0 /\ o.call <= spent.calls
<1>1. /\ ScrTold /\ AudTold /\ Settled /\ MicTold /\ Alone /\ (\A q \in ops : InOrder(q, spent.opened)) /\ Counted
      /\ mm \in Fields /\ dev \in Devices /\ ops \subseteq Operation /\ o.call # 0 /\ o \in Operation /\ Placed
  BY TypedOps DEF ToldInv, Told, OpsTold, LocalInv
<1>2. \A q \in ops : q = o \/ Apart(q, o)
  BY <1>1 DEF Alone
<1>3. Early(o) => mm.scr = Loc!None
  BY <1>1 DEF Placed, Early
<1>4. Early(o) => \A q \in ops : q.kind # "unshare"
  BY <1>2 DEF Apart, Early
<1>5. o.kind = "unshare" => \A q \in ops : ~Early(q)
  BY <1>2 DEF Apart, Early
<1>6. o.kind = "attach" => \A q \in ops : q = o \/ q.kind \notin {"share", "attach"}
  BY <1>2 DEF Apart
<1>7. o.kind = "share" => \A q \in ops : q = o \/ q.kind \notin {"voice", "share", "attach"}
  BY <1>2 DEF Apart, Spoken
<1> QED
  BY <1>1, <1>2, <1>3, <1>4, <1>5, <1>6, <1>7 DEF ScrTold, AudTold, Settled, MicTold, Counted

(* A step with no share on the screen, before or after it.                 *)
LEMMA DarkTold ==
    ASSUME ToldInv, call' = call, NEW n \in Nat, spent'.opened = n, spent.opened <= n,
           NEW o, NEW u, Became(o, u),
           mm.scr = Loc!None, mm'.scr = Loc!None, mm'.mic = mm.mic, mm'.cam = mm.cam, mm'.local = mm.local,
           mm'.says.mic = mm.says.mic, mm'.says.cam = mm.says.cam, ~mm'.says.scr, ~mm'.says.aud,
           dev'.on = dev.on, dev'.pub = dev.pub, ended' \subseteq ended,
           NEW S \in SUBSET (Known("scr", n) \cup Known("aud", n)),
           dev'.live \cup S = dev.live \cup S,
           \A k \in dev'.live : k \in dev.live \/ k \notin Any(spent.opened),
           dev'.aud \subseteq dev.aud \cup (Known("scr", n) \X Known("aud", n)),
           dev'.prov \in {dev.prov} \cup SomeOf("scr", n),
           u \in ops' => /\ MicRelied(u, call, mm.mic) /\ CamRelied(u, call, mm.cam)
                         /\ (u.kind = "quality" => u.cap # Loc!None),
           \A q \in ops' : AudRelied(q, call, dev'.aud, dev'.live, ended')
    PROVE  Told'
<1>0. /\ ScrTold /\ AudTold /\ MicTold
      /\ (\A p \in dev.aud : p[1] # Loc!None) /\ (\A k \in dev.pub \cup dev.live : k \in Any(spent.opened) /\ k # Loc!None)
      /\ (\A q \in ops : q.kind = "quality" => q.cap # Loc!None) /\ Loc!None[1] = "none"
  BY ScrFacts
<1>1. \A k \in S : k[1] \in {"scr", "aud"}
  BY KnownKind
<1>2. Fitting' /\ Running'
  <2>1. S \subseteq Any(n)
    BY DEF Any
  <2> QED
    BY <2>1, StaysFitting
<1>3. MicTold'
  <2>1. \A k \in dev'.pub : k \in dev.pub \/ (call # 0 /\ (k[1] = "mic" => k = mm.mic))
    OBVIOUS
  <2>2. mm'.scr # Loc!None \/ mm'.cam # Loc!None => mm.mic # Loc!None
    BY <1>0 DEF MicTold
  <2> QED
    BY <2>1, <2>2, MicStays
<1>4. CamTold'
  <2>1. Untouched("cam")
    BY <1>1 DEF Untouched
  <2> QED
    BY <2>1, CamStays
<1>5. dev'.live \cap dev'.pub \subseteq dev.live \cap dev.pub
  BY <1>0
<1>6. ScrTold'
  <2>1. \A k \in dev'.live \cap dev'.pub : k[1] # "scr"
    BY <1>0, <1>5 DEF ScrTold
  <2>2. \A q \in ops' : ScrRelied(q, call', mm'.scr)
    BY DEF ScrRelied
  <2> QED
    BY <2>1, <2>2 DEF ScrTold
<1>7. AudTold'
  <2>1. \A k \in dev'.live \cap dev'.pub : k[1] # "aud"
    BY <1>0, <1>5 DEF AudTold
  <2> QED
    BY <2>1 DEF AudTold
<1>8. Settled'
  <2>1. \A q \in ops' : QualityRelied(q, call', mm'.scr)
    BY <1>0 DEF QualityRelied, Became
  <2> QED
    BY <2>1 DEF Settled
<1> QED
  BY <1>2, <1>3, <1>4, <1>6, <1>7, <1>8 DEF Told

(* Nothing is said of a screen when none is shared.                        *)
LEMMA DarkSays ==
    ASSUME ToldInv, mm.scr = Loc!None
    PROVE  ~mm.says.scr /\ ~mm.says.aud
<1>1. ~mm.says.scr
  BY ScrFacts DEF ScrTold
<1>2. ~mm.says.aud
  BY ScrFacts DEF AudTold
<1> QED
  BY <1>1, <1>2

(* What the stream of a share consists of.                                 *)
LEMMA StreamKnown ==
    ASSUME ToldInv, NEW k \in Known("scr", spent.opened)
    PROVE  /\ Loc!Stream(k) \in SUBSET (Known("scr", spent.opened) \cup Known("aud", spent.opened))
           /\ k \in Loc!Stream(k) /\ \A t \in Loc!Stream(k) : t = k \/ <<k, t>> \in dev.aud
           /\ \A t : <<k, t>> \in dev.aud => t \in Loc!Stream(k)
<1>1. \A p \in dev.aud : p[2] \in Known("aud", spent.opened) /\ p = <<p[1], p[2]>>
  BY ScrFacts DEF ToldInv, Told, Running
<1> QED
  BY <1>1 DEF Loc!Stream

(* An operation ends where no share is on the screen, and stops captures.  *)
LEMMA DarkEnds ==
    ASSUME ToldInv, LocalShape', NEW o \in ops, call' = call, spent' = spent, ended' = ended, mm' = mm,
           ops' = ops \ {o}, mm.scr = Loc!None,
           NEW S \in SUBSET (Known("scr", spent.opened) \cup Known("aud", spent.opened)),
           dev'.live = dev.live \ S, dev'.pub = dev.pub, dev'.on = dev.on, dev'.aud = dev.aud,
           dev'.prov \in {dev.prov, Loc!None},
           \A q \in ops : q = o \/ ~(q.kind = "share" /\ q.at = "quality")
    PROVE  OpsTold' /\ Told'
<1>0. spent.opened \in Nat /\ spent.opened <= spent.opened /\ ~mm.says.scr /\ ~mm.says.aud /\ AudTold
  BY DarkSays, ScrFacts
<1>1. Became(o, o) /\ o \notin ops'
  BY Ceases
<1>2. \A q \in ops' : AudRelied(q, call, dev'.aud, dev'.live, ended')
  <2> SUFFICES ASSUME NEW q \in ops' PROVE AudRelied(q, call, dev'.aud, dev'.live, ended')
    OBVIOUS
  <2>1. AudRelied(q, call, dev.aud, dev.live, ended) /\ ~(q.kind = "share" /\ q.at = "quality")
    BY <1>0 DEF AudTold
  <2> QED
    BY <2>1 DEF AudRelied
<1>3. dev'.live \cup S = dev.live \cup S /\ \A k \in dev'.live : k \in dev.live
  OBVIOUS
<1>4. dev'.prov \in {dev.prov} \cup SomeOf("scr", spent.opened)
  BY DEF SomeOf
<1>5. Told'
  BY <1>0, <1>1, <1>2, <1>3, <1>4, DarkTold
<1> QED
  BY <1>5, OpsEnd

LEMMA ScreenUnpublishedTold ==
    ASSUME ToldInv, LocalShape', NEW o \in ops, Loc!ScreenUnpublished(o)
    PROVE  OpsTold' /\ Told'
<1>0. /\ o.kind = "unshare" /\ ops' = ops \ {o} /\ call' = call /\ ended' = ended /\ spent' = spent /\ mm' = mm
      /\ dev' = [Loc!Stop(dev, Loc!Stream(o.cap) \cup {dev.prov}) EXCEPT !.prov = Loc!None]
  BY DEF Loc!ScreenUnpublished, Loc!Done
<1>1. dev \in Devices /\ mm.scr = Loc!None /\ o.cap \in Known("scr", spent.opened)
      /\ \A q \in ops : q = o \/ ~(q.kind = "share" /\ q.at = "quality")
  BY <1>0, ShareFacts DEF ScrRelied, InOrder, Early
<1> DEFINE S == (Loc!Stream(o.cap) \cup {dev.prov}) \ {Loc!None}
<1>2. S \in SUBSET (Known("scr", spent.opened) \cup Known("aud", spent.opened))
  <2>1. dev.prov \in SomeOf("scr", spent.opened)
    BY DEF ToldInv, Told, Running
  <2>2. Loc!Stream(o.cap) \in SUBSET (Known("scr", spent.opened) \cup Known("aud", spent.opened))
    BY <1>1, StreamKnown
  <2> QED
    BY <2>1, <2>2 DEF SomeOf
<1>3. /\ dev'.live = dev.live \ S /\ dev'.pub = dev.pub /\ dev'.on = dev.on /\ dev'.aud = dev.aud
      /\ dev'.prov = Loc!None
  <2>1. Loc!None \notin dev.live
    BY ScrFacts
  <2> QED
    BY <1>0, <1>1, <2>1 DEF Devices, Loc!Stop
<1> HIDE DEF S
<1> QED
  BY <1>0, <1>1, <1>2, <1>3, DarkEnds

(* The call of a share is over: what it captured is stopped.               *)
LEMMA ShareOverTold ==
    ASSUME ToldInv, LocalShape', NEW o \in ops, o.kind = "share", o.at \in {"quality", "publish"},
           o.call # call, call' = call, spent' = spent, ended' = ended, mm' = mm, ops' = ops \ {o},
           dev' = Loc!Stop(dev, Loc!Stream(o.cap))
    PROVE  OpsTold' /\ Told'
<1>1. dev \in Devices /\ mm.scr = Loc!None /\ o.cap \in Known("scr", spent.opened)
      /\ \A q \in ops : q = o \/ ~(q.kind = "share" /\ q.at = "quality")
  BY ShareFacts DEF ScrRelied, InOrder
<1> DEFINE S == Loc!Stream(o.cap)
<1>2. S \in SUBSET (Known("scr", spent.opened) \cup Known("aud", spent.opened))
  BY <1>1, StreamKnown
<1>3. /\ dev'.live = dev.live \ S /\ dev'.pub = dev.pub /\ dev'.on = dev.on /\ dev'.aud = dev.aud
      /\ dev'.prov \in {dev.prov, Loc!None}
  BY <1>1 DEF Devices, Loc!Stop
<1> HIDE DEF S
<1> QED
  BY <1>1, <1>2, <1>3, DarkEnds

LEMMA ScreenPublishedEitherTold ==
    ASSUME ToldInv, LocalShape', NEW o \in ops, Loc!ScreenPublished(o)
    PROVE  OpsTold' /\ Told'
<1>1. CASE o.call = call
  BY <1>1, ScreenPublishedTold
<1>2. CASE o.call # call
  BY <1>2, ShareOverTold DEF Loc!ScreenPublished, Loc!IsActive, Loc!Done
<1> QED
  BY <1>1, <1>2

LEMMA ToggleScreenTold ==
    ASSUME Serial, ToldInv, LocalShape', Loc!ToggleScreen
    PROVE  OpsTold' /\ Told'
<1>0. /\ mm \in Fields /\ dev \in Devices /\ ops \subseteq Operation /\ spent.opened \in Nat /\ call \in Nat
      /\ spent \in [calls : Nat, asked : Nat, faults : Nat, opened : Nat] /\ LocalShape /\ Loc!None \in Maybe
      /\ call' = call /\ ended' = ended /\ call # 0 /\ mm.mic # Loc!None
      /\ Loc!Asked /\ spent.asked < MaxAsked /\ mm.scr \in Maybe /\ spent.opened <= spent.opened
      /\ (\A q \in ops : q.kind \notin {"share", "unshare", "attach", "init", "voice"})
      /\ spent.asked \in Nat /\ MaxAsked \in Nat /\ spent.faults <= MaxFaults
  BY TypedOps DEF Loc!ToggleScreen, Loc!Asks, Loc!Screen, Loc!Voice, ToldInv, Bounds, OpsTold, Counted
<1>1. spent'.opened = spent.opened /\ spent'.calls = spent.calls /\ spent'.faults = spent.faults
      /\ spent'.asked = spent.asked + 1
  BY <1>0 DEF Loc!Asked
<1>2. CASE mm.scr # Loc!None
  <2> DEFINE o == Loc!Op("unshare", "unpublish", mm.scr)
             M == {}
  <2>1. o \in Operation /\ o.kind = "unshare"
    BY <1>0, NewOp DEF Kinds, Waits
  <2>2. Loc!StopsScreen(o, mm.scr, dev)
    BY <1>2 DEF Loc!ToggleScreen
  <2>3. M \in SUBSET Known("mic", spent.opened) /\ dev.live = dev.live \ M
    OBVIOUS
  <2>4. spent.asked <= spent'.asked /\ spent'.asked <= MaxAsked /\ spent'.faults <= MaxFaults
    BY <1>0, <1>1
  <2> HIDE DEF o, M
  <2> QED
    BY <1>0, <1>1, <1>2, <2>1, <2>2, <2>3, <2>4, StopTold
<1>3. CASE mm.scr = Loc!None
  <2>1. PICK audio \in {"none", "display", "pipewire"} :
          ops' = ops \cup {[Loc!Op("share", "capture", Loc!None) EXCEPT !.audio = audio]}
    BY <1>3 DEF Loc!ToggleScreen, Loc!Begin
  <2> DEFINE w == Loc!Op("share", "capture", Loc!None)
             u == [w EXCEPT !.audio = audio]
  <2>2. w \in Operation /\ w.kind = "share" /\ w.at = "capture" /\ w.cap = Loc!None /\ w.call = call
    BY <1>0, NewOp DEF Kinds, Waits
  <2> HIDE DEF w
  <2>3. u.kind = "share" /\ u.at = "capture" /\ u.cap = Loc!None /\ u.call = call
    BY <2>2 DEF Operation
  <2>4. ops' = ops \cup {u}
    BY <2>1 DEF w
  <2> HIDE DEF u
  <2>5. mm' = [mm EXCEPT !.q = @ + 1] /\ dev' = dev
    BY <1>3 DEF Loc!ToggleScreen
  <2>6. /\ mm'.scr = Loc!None /\ mm'.mic = mm.mic /\ mm'.cam = mm.cam /\ mm'.local = mm.local
        /\ mm'.says = mm.says
    BY <1>0, <1>3, <2>5 DEF Fields
  <2>7. u \notin ops /\ \A q \in ops : Apart(q, u)
    BY <1>0, <2>3 DEF Apart, Spoken, Cameras, Early
  <2>8. OpsTold'
    <3>1. InOrder(u, spent.opened)
      BY <2>3 DEF InOrder
    <3> QED
      BY <1>0, <2>3, <2>4, <2>7, <3>1, OpsBegin
  <2>9. Became(u, u)
    BY <2>4 DEF Became
  <2>10. MicRelied(u, call, mm.mic) /\ CamRelied(u, call, mm.cam) /\ u.kind # "quality"
    BY <1>0, <2>3 DEF MicRelied, CamRelied, Cameras, Spoken
  <2>11. \A q \in ops' : AudRelied(q, call, dev'.aud, dev'.live, ended')
    <3>1. AudRelied(u, call, dev.aud, dev.live, ended)
      BY <2>3, ScrFacts DEF AudRelied
    <3>2. AudTold
      BY ScrFacts
    <3> QED
      BY <1>0, <2>4, <2>5, <3>1, <3>2 DEF AudTold
  <2>12. ~mm.says.scr /\ ~mm.says.aud
    BY <1>3, DarkSays
  <2> DEFINE S == {}
  <2>13. S \in SUBSET (Known("scr", spent.opened) \cup Known("aud", spent.opened))
         /\ dev'.live \cup S = dev.live \cup S /\ (\A k \in dev'.live : k \in dev.live)
    BY <2>5
  <2> HIDE DEF S
  <2>14. Told'
    BY <1>0, <1>1, <1>3, <2>5, <2>6, <2>9, <2>10, <2>11, <2>12, <2>13, DarkTold
  <2> QED
    BY <2>8, <2>14
<1> QED
  BY <1>2, <1>3

LEMMA EndedEventTold ==
    ASSUME ToldInv, LocalShape', NEW k \in ended, Loc!EndedEvent(k)
    PROVE  OpsTold' /\ Told'
<1>0. /\ mm \in Fields /\ dev \in Devices /\ ops \subseteq Operation /\ spent.opened \in Nat /\ call \in Nat
      /\ LocalShape /\ k \in Captures /\ call' = call /\ ended' \subseteq ended /\ spent' = spent
      /\ spent.asked \in Nat
  BY TypedOps DEF Loc!EndedEvent, Loc!Missed
<1>1. CASE mm.scr = k /\ ~Loc!NotListening(k)
  <2> DEFINE w == Loc!Op("unshare", "unpublish", k)
             o == [w EXCEPT !.id = -k[2]]
             M == {}
  <2>1. w \in Operation /\ w.kind = "unshare"
    BY <1>0, NewOp DEF Kinds, Waits, Maybe
  <2>2. o \in Operation /\ o.kind = "unshare"
    <3>1. -k[2] \in Int
      BY <1>0 DEF Captures
    <3> HIDE DEF w
    <3> QED
      BY <2>1, <3>1 DEF Operation
  <2>3. Loc!StopsScreen(o, mm.scr, dev)
    BY <1>1 DEF Loc!EndedEvent
  <2>4. M \in SUBSET Known("mic", spent.opened) /\ dev.live = dev.live \ M /\ ended' \subseteq ended
    BY <1>0
  <2>5. mm.scr # Loc!None
    <3>1. k \in Known("scr", spent.opened)
      BY DEF ToldInv, Told, Running
    <3> QED
      BY <1>0, <1>1, <3>1, NoneKind
  <2>6. spent.asked <= spent'.asked /\ spent'.asked <= MaxAsked /\ spent'.faults <= MaxFaults
    BY <1>0 DEF ToldInv, OpsTold, Counted
  <2> HIDE DEF o, M, w
  <2> QED
    BY <1>0, <2>2, <2>3, <2>4, <2>5, <2>6, StopTold
<1>2. CASE mm.scr # k \/ Loc!NotListening(k)
  <2>1. /\ mm' = mm /\ ops' = ops /\ dev'.live = dev.live /\ dev'.on = dev.on /\ dev'.pub = dev.pub
        /\ dev'.aud = dev.aud /\ dev'.prov = dev.prov
        /\ dev'.applied = dev.applied /\ dev'.sent = dev.sent
    BY <1>0, <1>2 DEF Loc!EndedEvent, Loc!Missed, Devices
  <2>2. PICK o : o \notin Operation
    BY NoOne
  <2>3. ops' = ops \ {o} /\ o \notin ops /\ Became(o, o) /\ ops \ {o} \subseteq ops' /\ o \notin ops'
    BY <1>0, <2>1, <2>2 DEF Became
  <2>4. OpsTold'
    BY <1>0, <2>3, OpsEnd
  <2>5. Fitting' /\ Running'
    BY <1>0, <2>1 DEF Fitting, Running, ToldInv, Told
  <2>6. MicTold' /\ CamTold' /\ Settled'
    BY <1>0, <2>1, ScrFacts DEF MicTold, CamTold, Settled
  <2>7. mm'.scr = k \/ (\E q \in ops : q.kind = "share" /\ q.at = "quality" /\ q.cap = k) => ended' = ended
    BY <1>2, <2>1 DEF Loc!EndedEvent, Loc!Missed, Loc!NotListening
  <2>8. ScrTold'
    BY <1>0, <1>2, <2>1, <2>7, ScrFacts DEF ScrTold, Loc!EndedEvent, Loc!Missed
  <2>9. ended' = ended \/ ended' = ended \ {k}
    BY DEF Loc!EndedEvent, Loc!Missed
  <2>10. \A q \in ops : AudRelied(q, call, dev.aud, dev.live, ended) =>
                        AudRelied(q, call, dev.aud, dev.live, ended')
    <3>1. k[1] = "scr" /\ \A p \in dev.aud : p[2][1] = "aud"
      BY ScrFacts DEF ToldInv, Told, Running, Known
    <3> QED
      BY <2>7, <2>9, <3>1 DEF AudRelied
  <2>11. AudTold'
    BY <1>0, <2>1, <2>10, ScrFacts DEF AudTold
  <2> QED
    BY <2>4, <2>5, <2>6, <2>8, <2>11 DEF Told
<1> QED
  BY <1>1, <1>2

LEMMA SourceGoneTold ==
    ASSUME ToldInv, LocalShape', Loc!SourceGone
    PROVE  OpsTold' /\ Told'
<1>0. /\ mm \in Fields /\ dev \in Devices /\ ops \subseteq Operation /\ spent.opened \in Nat
      /\ call' = call /\ mm' = mm /\ ops' = ops /\ Loc!Fault
  BY TypedOps DEF Loc!SourceGone, Loc!Fault
<1>1. PICK k \in dev.live :
         /\ k[1] = "scr"
         /\ dev' = Loc!Stop(dev, {k}) /\ ended' = ended \cup {k}
  BY DEF Loc!SourceGone
<1>2. /\ dev'.live = dev.live \ {k} /\ dev'.pub = dev.pub /\ dev'.on = dev.on /\ dev'.aud = dev.aud
      /\ dev'.applied = dev.applied /\ dev'.sent = dev.sent /\ dev'.prov = dev.prov
  BY <1>0, <1>1 DEF Devices, Loc!Stop
<1>3. k \in Known("scr", spent.opened) /\ k # Loc!None
  <2>1. k \in Any(spent.opened) /\ k # Loc!None
    BY ScrFacts
  <2> QED
    BY <1>1, <2>1 DEF Any, Known
<1>4. spent'.opened = spent.opened /\ spent.opened <= spent'.opened
  BY <1>0, Faulted
<1>5. PICK o : o \notin Operation
  BY NoOne
<1>6. ops' = ops \ {o} /\ o \notin ops /\ Became(o, o) /\ ops \ {o} \subseteq ops' /\ o \notin ops'
  BY <1>0, <1>5 DEF Became
<1>7. OpsTold'
  BY <1>0, <1>6, OpsEnd
<1>8. Fitting' /\ Running'
  <2>1. dev'.live \subseteq dev.live /\ ended' \subseteq ended \cup Known("scr", spent.opened)
    BY <1>1, <1>2, <1>3
  <2> QED
    BY <1>0, <1>2, <1>4, <2>1, StaysFitting
<1>9. MicTold'
  BY <1>0, <1>2, ScrFacts DEF MicTold
<1>10. CamTold'
  <2>1. Untouched("cam")
    BY <1>1, <1>2 DEF Untouched
  <2> QED
    BY <1>0, <1>6, <2>1, CamStays
<1>11. ScrTold'
  BY <1>0, <1>1, <1>2, ScrFacts DEF ScrTold
<1>13. AudTold'
  <2>1. Untouched("aud")
    BY <1>1, <1>2 DEF Untouched
  <2>2. dev.live \cup ended \subseteq dev'.live \cup ended'
    BY <1>1, <1>2
  <2> QED
    BY <1>0, <1>2, <1>6, <2>1, <2>2, AudStays
<1>14. Settled'
  BY <1>0, <1>2, <1>6, SettledStays
<1> QED
  BY <1>7, <1>8, <1>9, <1>10, <1>11, <1>13, <1>14 DEF Told

(* A capture of the screen is there, with the audio of its stream or not.  *)
LEMMA ScreenCapturedTold ==
    ASSUME ToldInv, LocalShape', NEW o \in ops, Loc!ScreenCaptured(o)
    PROVE  OpsTold' /\ Told'
<1>0. /\ o \in Operation /\ InOrder(o, spent.opened) /\ MicRelied(o, call, mm.mic)
      /\ (\A q \in ops : q = o \/ Apart(q, o))
      /\ (\A q \in ops : q = o \/ q.kind \notin {"voice", "share", "attach"})
      /\ mm.scr = Loc!None /\ (\A q \in ops : q.kind # "unshare")
      /\ mm \in Fields /\ dev \in Devices /\ ops \subseteq Operation /\ spent.opened \in Nat /\ mm.q \in Nat
      /\ o.kind = "share" /\ o.at = "capture" /\ call' = call /\ ended' = ended /\ mm' = mm
      /\ spent \in [calls : Nat, asked : Nat, faults : Nat, opened : Nat]
  BY ShareFacts, TypedOps DEF Loc!ScreenCaptured, Early
<1> DEFINE m == spent.opened
           k == Loc!New("scr")
           a == IF o.audio = "display" THEN {<<"aud", k[2] + 1>>} ELSE {}
           b == Loc!Cardinality(a)
           n == m + (1 + b)
           u == [o EXCEPT !.at = "quality", !.cap = k, !.rev = mm.q]
<1>1. /\ Loc!Opened(1 + b) /\ ops' = (ops \ {o}) \cup {u}
      /\ dev' = [dev EXCEPT !.live = @ \cup {k} \cup a, !.aud = @ \cup {<<k, t>> : t \in a},
                            !.prov = IF o.audio = "pipewire" THEN @ ELSE k]
  BY DEF Loc!ScreenCaptured
<1>2. k = <<"scr", m + 1>> /\ k[1] = "scr" /\ k[2] = m + 1
  BY DEF Loc!New
<1>3. b \in {0, 1} /\ (a # {} => b = 1) /\ (o.audio # "display" => a = {}) /\ (o.audio = "display" => a # {})
  <2>1. Cardinality({}) = 0 /\ \A x : Cardinality({x}) = 1
    BY FS_EmptySet, FS_Singleton
  <2>2. b = Cardinality(a)
    BY PairCardinality DEF Loc!Cardinality, Pair!Cardinality
  <2> QED
    BY <2>1, <2>2
<1>4. \A t \in a : t = <<"aud", m + 2>> /\ t[1] = "aud" /\ t[2] = m + 2
  BY <1>0, <1>2
<1> HIDE DEF k, a, b, u
<1>5. u.kind = "share" /\ u.call = o.call /\ u.cap = k /\ u.audio = o.audio /\ u.at = "quality"
  BY <1>0 DEF Operation, u
<1>6. /\ dev'.live = dev.live \cup {k} \cup a /\ dev'.aud = dev.aud \cup {<<k, t>> : t \in a}
      /\ dev'.prov \in {dev.prov, k} /\ dev'.pub = dev.pub /\ dev'.on = dev.on
  BY <1>0, <1>1 DEF Devices
<1>7. /\ n \in Nat /\ m <= n /\ m + 1 \in 1 .. n /\ (b = 1 => m + 2 \in 1 .. n)
  BY <1>0, <1>3
<1>8. k \in Known("scr", n) /\ a \subseteq Known("aud", n)
  BY <1>2, <1>3, <1>4, <1>7 DEF Known
<1>9. k \notin Any(m) /\ (\A t \in a : t \notin Any(m)) /\ (\A g : k \notin Known(g, m))
  <2>1. ~(m + 1 \in 1 .. m) /\ ~(m + 2 \in 1 .. m)
    BY <1>0
  <2>2. \A j : j \in Any(m) => j[2] \in 1 .. m
    BY <1>0 DEF Any, Known
  <2>3. \A g : \A j : j \in Known(g, m) => j[2] \in 1 .. m
    BY <1>0 DEF Known
  <2> QED
    BY <1>2, <1>4, <2>1, <2>2, <2>3
<1>10. /\ spent'.opened = n /\ spent'.calls = spent.calls /\ spent'.asked = spent.asked
       /\ spent'.faults = spent.faults
  BY <1>0, <1>1 DEF Loc!Opened
<1>11. Became(o, u) /\ ops \ {o} \subseteq ops' /\ u \in ops'
  BY <1>1, Becomes
<1>12. OpsTold'
  <2>1. InOrder(u, n)
    BY <1>5, <1>8 DEF InOrder
  <2>2. \A q \in ops : q = o \/ Apart(q, u)
    <3> SUFFICES ASSUME NEW q \in ops, q # o PROVE Apart(q, u)
      OBVIOUS
    <3>1. Apart(q, o) /\ Early(o)
      BY <1>0 DEF Early
    <3>2. q.kind = "quality" => q.cap # k
      BY <1>9, ScrFacts
    <3>3. q.kind # "share"
      BY <1>0
    <3> HIDE DEF n
    <3> QED
      BY <1>0, <1>5, <3>1, <3>2, <3>3 DEF Apart, Early
  <2>3. Group(u, call) = Group(o, call) /\ Credit(u, call) = 2 /\ Credit(o, call) = 4
    BY <1>0, <1>5 DEF Group, Credit
  <2> DEFINE c == 1 + b
  <2>4. spent'.opened = spent.opened + c /\ c \in Nat /\ Credit(u, call) + c <= Credit(o, call)
    BY <1>3, <1>10, <2>3
  <2>5. InOrder(u, spent.opened + c)
    BY <2>1
  <2> HIDE DEF c, n, m
  <2> QED
    BY <1>0, <1>1, <1>5, <1>10, <2>2, <2>3, <2>4, <2>5, OpsOpen
<1>13. \A q \in ops' : AudRelied(q, call, dev'.aud, dev'.live, ended')
  <2>1. AudRelied(u, call, dev'.aud, dev'.live, ended')
    <3>1. \A p \in dev.aud : p[1] # k
      BY <1>9, ScrFacts
    <3>2. \A p \in dev'.aud : p[1] = k => p[2] \in a
      BY <1>6, <3>1
    <3>3. a # {} => \E p \in dev'.aud : p[1] = k
      <4> SUFFICES ASSUME NEW t \in a PROVE \E p \in dev'.aud : p[1] = k
        OBVIOUS
      <4>1. <<k, t>> \in dev'.aud /\ <<k, t>>[1] = k
        BY <1>6
      <4> QED
        BY <4>1
    <3> HIDE DEF n, m
    <3> QED
      BY <1>3, <1>5, <1>6, <3>2, <3>3 DEF AudRelied
  <2>2. \A q \in ops : q # o => AudRelied(q, call, dev'.aud, dev'.live, ended')
    BY <1>0 DEF AudRelied
  <2> QED
    BY <1>1, <2>1, <2>2
<1>14. Told'
  <2> DEFINE S == {k} \cup a
  <2>1. S \in SUBSET (Known("scr", n) \cup Known("aud", n)) /\ dev'.live \cup S = dev.live \cup S
    BY <1>6, <1>8
  <2>2. \A j \in dev'.live : j \in dev.live \/ j \notin Any(spent.opened)
    BY <1>6, <1>9
  <2>3. dev'.aud \subseteq dev.aud \cup (Known("scr", n) \X Known("aud", n))
    BY <1>6, <1>8
  <2>4. dev'.prov \in {dev.prov} \cup SomeOf("scr", n)
    BY <1>6, <1>8 DEF SomeOf
  <2>5. MicRelied(u, call, mm.mic) /\ CamRelied(u, call, mm.cam) /\ u.kind # "quality"
    BY <1>0, <1>5 DEF MicRelied, CamRelied, Cameras, Spoken
  <2>6. ~mm.says.scr /\ ~mm.says.aud
    BY <1>0, DarkSays
  <2>7. n \in Nat /\ spent.opened <= n
    BY <1>7
  <2> HIDE DEF n, S, m
  <2> QED
    BY <1>0, <1>6, <1>10, <1>11, <1>13, <2>1, <2>2, <2>3, <2>4, <2>5, <2>6, <2>7, DarkTold
<1> QED
  BY <1>12, <1>14

(* The quality is applied: another round, the screen, or too late.         *)
LEMMA AgainOp ==
    ASSUME ToldInv, NEW o \in ops, o.kind = "quality" \/ (o.kind = "share" /\ o.at = "quality"),
           Loc!AppliedAgain(o)
    PROVE  \E u : /\ ops' = (ops \ {o}) \cup {u} /\ u.kind = o.kind /\ u.call = o.call /\ u.at = o.at
                  /\ u.cap = o.cap /\ u.audio = o.audio /\ u.prev = o.prev /\ u.rev = mm.q
                  /\ mm' = mm /\ dev' = [dev EXCEPT !.applied[o.cap[2]] = o.rev]
<1> DEFINE u == [o EXCEPT !.rev = mm.q]
<1>1. o \in Operation
  BY TypedOps
<1>2. /\ u.kind = o.kind /\ u.call = o.call /\ u.at = o.at
      /\ u.cap = o.cap /\ u.audio = o.audio /\ u.prev = o.prev /\ u.rev = mm.q
  BY <1>1 DEF Operation
<1>3. ops' = (ops \ {o}) \cup {u} /\ mm' = mm /\ dev' = [dev EXCEPT !.applied[o.cap[2]] = o.rev]
  BY DEF Loc!AppliedAgain, Loc!Applied
<1> QED
  BY <1>2, <1>3

LEMMA AgainOps ==
    ASSUME ToldInv, LocalShape', call' = call, spent' = spent, NEW o \in ops, NEW u,
           o.kind = "quality" \/ (o.kind = "share" /\ o.at = "quality"),
           ops' = (ops \ {o}) \cup {u}, u.kind = o.kind, u.call = o.call, u.at = o.at, u.cap = o.cap
    PROVE  OpsTold'
<1>0. InOrder(o, spent.opened) /\ \A q \in ops : q = o \/ Apart(q, o)
  BY ShareFacts
<1>1. InOrder(u, spent.opened)
  BY <1>0 DEF InOrder
<1>2. \A q \in ops : q = o \/ Apart(q, u)
  <2>1. Early(u) => Early(o)
    BY DEF Early
  <2> QED
    BY <1>0, <2>1, ApartKept
<1>3. Group(u, call) = Group(o, call) /\ Credit(u, call) = Credit(o, call) /\ Credit(o, call) \in 0 .. 4
  BY DEF Group, Credit
<1> QED
  BY <1>1, <1>2, <1>3, OpsMove

(* The share comes to the screen.                                          *)
LEMMA ScreenShownTold ==
    ASSUME ToldInv, LocalShape', NEW o \in ops, o.kind = "share", o.at = "quality", o.rev = mm.q,
           o.call = call, call' = call, spent' = spent, ended' = ended,
           mm' = [mm EXCEPT !.scr = o.cap, !.says.scr = TRUE, !.says.aud = o.audio = "display"],
           dev' = Loc!Sent(Loc!Publish(Loc!Applied(o), Loc!Stream(o.cap)), o), Loc!To(o, "publish")
    PROVE  OpsTold' /\ Told'
<1>0. /\ o \in Operation /\ InOrder(o, spent.opened) /\ MicRelied(o, call, mm.mic)
      /\ AudRelied(o, call, dev.aud, dev.live, ended)
      /\ (\A q \in ops : q = o \/ Apart(q, o))
      /\ (\A q \in ops : q = o \/ q.kind \notin {"voice", "share", "attach"})
      /\ mm.scr = Loc!None /\ (\A q \in ops : q.kind # "unshare")
      /\ mm \in Fields /\ dev \in Devices /\ ops \subseteq Operation /\ spent.opened \in Nat /\ mm.q \in Nat
      /\ spent.opened <= spent.opened /\ o.call # 0
  BY ShareFacts, TypedOps DEF Early
<1> DEFINE k == o.cap
           T == Loc!Stream(o.cap)
           u == [o EXCEPT !.at = "publish"]
<1>1. /\ u.kind = "share" /\ u.call = o.call /\ u.cap = k /\ u.audio = o.audio /\ u.at = "publish"
      /\ ops' = (ops \ {o}) \cup {u}
  BY <1>0, MovedOp DEF Loc!To
<1>2. /\ k \in Known("scr", spent.opened) /\ k[1] = "scr" /\ k[2] \in Loc!Numbers /\ k # Loc!None
  <2>1. k \in Known("scr", spent.opened)
    BY <1>0 DEF InOrder
  <2>2. k[1] = "scr" /\ k[2] \in 1 .. spent.opened
    BY <1>0, <2>1, KnownKind
  <2> QED
    BY <1>0, <2>1, <2>2, FundedNumbers, NoneKind
<1>3. /\ T \in SUBSET (Known("scr", spent.opened) \cup Known("aud", spent.opened))
      /\ k \in T /\ (\A t \in T : t = k \/ <<k, t>> \in dev.aud) /\ (\A t : <<k, t>> \in dev.aud => t \in T)
  BY <1>2, StreamKnown
<1> HIDE DEF u, T, k
<1>4. /\ dev'.live = dev.live /\ dev'.pub = dev.pub \cup T /\ dev'.on = dev.on /\ dev'.aud = dev.aud
      /\ dev'.prov = dev.prov /\ dev'.applied[k[2]] = o.rev /\ dev'.sent[k[2]] = o.rev
  BY <1>0, <1>2 DEF Devices, Loc!Sent, Loc!Publish, Loc!Applied, k, T
<1>5. /\ mm'.scr = k /\ mm'.mic = mm.mic /\ mm'.cam = mm.cam /\ mm'.local = mm.local /\ mm'.q = mm.q
      /\ mm'.says.scr /\ (mm'.says.aud <=> o.audio = "display") /\ mm'.says.mic = mm.says.mic
      /\ mm'.says.cam = mm.says.cam
  BY <1>0 DEF Fields, Said, k
<1>6. \A t \in T : t[1] \in {"scr", "aud"}
  BY <1>0, <1>3, KnownKind
<1>7. Became(o, u) /\ ops \ {o} \subseteq ops' /\ u \in ops'
  BY <1>1, Becomes
<1>8. OpsTold'
  <2>1. InOrder(u, spent.opened)
    BY <1>1, <1>2 DEF InOrder
  <2>2. \A q \in ops : q = o \/ Apart(q, u)
    <3>1. ~Early(u)
      BY <1>1 DEF Early
    <3> QED
      BY <1>0, <1>1, <3>1, ApartKept
  <2>3. Group(u, call) = Group(o, call) /\ Credit(u, call) = 2 /\ Credit(o, call) = 2
    BY <1>0, <1>1 DEF Group, Credit
  <2>4. Credit(u, call) <= Credit(o, call)
    BY <2>3
  <2> QED
    BY <1>0, <1>1, <2>1, <2>2, <2>3, <2>4, OpsMove
<1>9. Fitting' /\ Running'
  <2>1. T \subseteq Any(spent.opened) /\ k \in SomeOf("scr", spent.opened)
    BY <1>2, <1>3 DEF Any, SomeOf
  <2> QED
    BY <1>0, <1>4, <1>5, <2>1, StaysFitting
<1>10. mm.mic # Loc!None
  BY <1>0 DEF MicRelied
<1>11. MicTold'
  <2>1. MicRelied(u, call, mm.mic)
    BY <1>1, <1>10 DEF MicRelied, Spoken
  <2>2. \A j \in dev'.pub : j \in dev.pub \/ (call # 0 /\ (j[1] = "mic" => j = mm.mic))
    BY <1>0, <1>4, <1>6
  <2> QED
    BY <1>4, <1>5, <1>7, <1>10, <2>1, <2>2, MicStays
<1>12. CamTold'
  <2>1. Untouched("cam")
    BY <1>4, <1>6 DEF Untouched
  <2>2. CamRelied(u, call, mm.cam)
    BY <1>1 DEF CamRelied, Cameras
  <2> QED
    BY <1>5, <1>7, <2>1, <2>2, CamStays
<1>13. ScrTold'
  <2>1. \A j \in dev'.live \cap dev'.pub : j[1] = "scr" => j = k
    <3> SUFFICES ASSUME NEW j \in dev'.live \cap dev'.pub, j[1] = "scr" PROVE j = k
      OBVIOUS
    <3>1. CASE j \in dev.pub
      BY <1>0, <1>4, <3>1, ScrFacts DEF ScrTold
    <3>2. CASE j \in T
      <4>1. <<k, j>> \notin dev.aud
        BY ScrFacts
      <4> QED
        BY <1>3, <3>2, <4>1
    <3> QED
      BY <1>4, <3>1, <3>2
  <2>2. k \in dev.live \cup ended
    BY <1>0 DEF AudRelied, k
  <2>3. \A q \in ops' : ScrRelied(q, call', mm'.scr)
    BY <1>0, <1>1, <1>5 DEF ScrRelied
  <2> QED
    BY <1>2, <1>3, <1>4, <1>5, <2>1, <2>2, <2>3 DEF ScrTold
<1>14. AudTold'
  <2>1. \A j \in dev.live \cap dev.pub : j[1] # "aud"
    BY <1>0, ScrFacts DEF AudTold
  <2>2. \A j \in dev'.live \cap dev'.pub : j[1] = "aud" => <<k, j>> \in dev.aud
    BY <1>2, <1>3, <1>4, <2>1
  <2>3. o.audio = "display" => \E j \in dev'.live \cap dev'.pub : j[1] = "aud"
    <3> SUFFICES ASSUME o.audio = "display" PROVE \E j \in dev'.live \cap dev'.pub : j[1] = "aud"
      OBVIOUS
    <3>1. PICK p \in dev.aud : p[1] = k
      BY <1>0 DEF AudRelied, k
    <3>2. p[2] \in dev.live /\ p[2][1] = "aud"
      BY <1>0, <3>1, ScrFacts DEF AudRelied, k
    <3>3. p = <<k, p[2]>>
      BY <3>1 DEF ToldInv, Told, Running
    <3>4. p[2] \in T
      BY <1>3, <3>3
    <3> QED
      BY <1>4, <3>2, <3>4
  <2>4. o.audio # "display" => \A j \in dev'.live \cap dev'.pub : j[1] # "aud"
    <3> SUFFICES ASSUME o.audio # "display", NEW j \in dev'.live \cap dev'.pub, j[1] = "aud" PROVE FALSE
      OBVIOUS
    <3>1. <<k, j>> \in dev.aud /\ <<k, j>>[1] = k
      BY <2>2
    <3> QED
      BY <1>0, <3>1 DEF AudRelied, k
  <2>5. \A q \in ops' : AudRelied(q, call', dev'.aud, dev'.live, ended')
    <3>1. AudRelied(u, call, dev.aud, dev.live, ended)
      BY <1>0, <1>1 DEF AudRelied, k
    <3>2. \A q \in ops : q # o => AudRelied(q, call, dev.aud, dev.live, ended)
      BY <1>0 DEF AudRelied
    <3> QED
      BY <1>1, <1>4, <3>1, <3>2
  <2> QED
    BY <1>4, <1>5, <2>2, <2>3, <2>4, <2>5 DEF AudTold
<1>15. Settled'
  <2>1. \A q \in ops : ~(q.kind = "quality" /\ q.cap = k)
    BY <1>0 DEF Apart, k
  <2>2. \A q \in ops' : QualityRelied(q, call', mm'.scr)
    BY <1>1, <1>5, <2>1 DEF QualityRelied
  <2> QED
    BY <1>4, <1>5, <2>2 DEF Settled
<1> QED
  BY <1>8, <1>9, <1>11, <1>12, <1>13, <1>14, <1>15 DEF Told

LEMMA ScreenReadyTold ==
    ASSUME ToldInv, LocalShape', NEW o \in ops, Loc!ScreenReady(o)
    PROVE  OpsTold' /\ Told'
<1>0. /\ o.kind = "share" /\ o.at = "quality" /\ call' = call /\ spent' = spent /\ ended' = ended /\ Early(o)
  BY DEF Loc!ScreenReady, Early
<1>1. CASE Loc!AppliedAgain(o)
  <2>1. PICK u : /\ ops' = (ops \ {o}) \cup {u} /\ u.kind = o.kind /\ u.call = o.call /\ u.at = o.at
                 /\ u.cap = o.cap /\ u.audio = o.audio /\ u.prev = o.prev /\ u.rev = mm.q
                 /\ mm' = mm /\ dev' = [dev EXCEPT !.applied[o.cap[2]] = o.rev]
    BY <1>0, <1>1, AgainOp
  <2>2. OpsTold'
    BY <1>0, <2>1, AgainOps
  <2>3. /\ dev \in Devices /\ mm.scr = Loc!None /\ MicRelied(o, call, mm.mic) /\ spent.opened \in Nat
        /\ spent.opened <= spent.opened /\ (\A q \in ops : AudRelied(q, call, dev.aud, dev.live, ended))
    BY <1>0, ShareFacts, TypedOps
  <2>4. /\ dev'.live = dev.live /\ dev'.pub = dev.pub /\ dev'.on = dev.on /\ dev'.aud = dev.aud
        /\ dev'.prov = dev.prov
    BY <2>1, <2>3 DEF Devices
  <2>5. \A q \in ops' : AudRelied(q, call, dev'.aud, dev'.live, ended')
    <3>1. AudRelied(u, call, dev.aud, dev.live, ended)
      BY <2>1, <2>3 DEF AudRelied
    <3> QED
      BY <1>0, <2>1, <2>3, <2>4, <3>1
  <2>6. MicRelied(u, call, mm.mic) /\ CamRelied(u, call, mm.cam) /\ u.kind # "quality"
    BY <1>0, <2>1, <2>3 DEF MicRelied, CamRelied, Cameras, Spoken
  <2>7. Became(o, u)
    BY <2>1, Becomes
  <2> DEFINE S == {}
  <2>8. S \in SUBSET (Known("scr", spent.opened) \cup Known("aud", spent.opened))
        /\ dev'.live \cup S = dev.live \cup S /\ (\A k \in dev'.live : k \in dev.live)
    BY <2>4
  <2>9. ~mm.says.scr /\ ~mm.says.aud
    BY <2>3, DarkSays
  <2>10. mm' = mm /\ spent'.opened = spent.opened /\ dev'.prov \in {dev.prov} \cup SomeOf("scr", spent.opened)
    BY <1>0, <2>1, <2>4
  <2> HIDE DEF S
  <2>11. Told'
    BY <1>0, <2>3, <2>4, <2>5, <2>6, <2>7, <2>8, <2>9, <2>10, DarkTold
  <2> QED
    BY <2>2, <2>11
<1>2. CASE ~Loc!Again(o) /\ o.call = call /\ ~Loc!AppliedAgain(o)
  BY <1>0, <1>2, ScreenShownTold DEF Loc!ScreenReady, Loc!Again, Loc!IsActive
<1>3. CASE o.call # call /\ ~Loc!AppliedAgain(o)
  BY <1>0, <1>3, ShareOverTold DEF Loc!ScreenReady, Loc!IsActive, Loc!Done
<1> QED
  BY <1>1, <1>2, <1>3 DEF Loc!ScreenReady, Loc!IsActive

(* The audio of a share is there: it is published and announced.           *)
LEMMA AudioAttachedTold ==
    ASSUME ToldInv, LocalShape', NEW o \in ops, o.kind = "attach", o.at = "wait", o.call = call,
           mm.scr = o.cap, call' = call, ended' = ended, Loc!Opened(1), NEW t, t = <<"aud", spent.opened + 1>>,
           mm' = [mm EXCEPT !.says.aud = TRUE],
           dev' = Loc!Publish([dev EXCEPT !.live = @ \cup {t}, !.aud = @ \cup {<<o.cap, t>>}], {t}),
           ops' = (ops \ {o}) \cup {[o EXCEPT !.at = "publish", !.prev = t]}
    PROVE  OpsTold' /\ Told'
<1>0. /\ o \in Operation /\ InOrder(o, spent.opened) /\ MicRelied(o, call, mm.mic)
      /\ AudRelied(o, call, dev.aud, dev.live, ended) /\ ScrRelied(o, call, mm.scr)
      /\ (\A q \in ops : q = o \/ Apart(q, o)) /\ (\A q \in ops : q = o \/ q.kind \notin {"share", "attach"})
      /\ mm \in Fields /\ dev \in Devices /\ ops \subseteq Operation /\ spent.opened \in Nat /\ o.call # 0
  BY ShareFacts, TypedOps
<1> DEFINE u == [o EXCEPT !.at = "publish", !.prev = t]
           n == spent.opened + 1
<1>1. /\ u.kind = "attach" /\ u.call = o.call /\ u.cap = o.cap /\ u.at = "publish" /\ u.prev = t
      /\ ops' = (ops \ {o}) \cup {u}
  BY <1>0 DEF Operation
<1> HIDE DEF u
<1>2. t \in Known("aud", n) /\ t[1] = "aud" /\ n \in Nat /\ t \notin Any(spent.opened) /\ spent.opened <= n
  BY <1>0, NewMic
<1>3. o.cap \in Known("scr", n) /\ o.cap \in Known("scr", spent.opened)
  <2>1. o.cap \in Known("scr", spent.opened)
    BY <1>0 DEF InOrder
  <2> QED
    BY <1>0, <1>2, <2>1, KnownGrows
<1>4. /\ dev'.live = dev.live \cup {t} /\ dev'.pub = dev.pub \cup {t} /\ dev'.on = dev.on
      /\ dev'.aud = dev.aud \cup {<<o.cap, t>>} /\ dev'.prov = dev.prov /\ dev'.applied = dev.applied
      /\ dev'.sent = dev.sent
  BY <1>0 DEF Devices, Loc!Publish
<1>5. /\ mm'.scr = mm.scr /\ mm'.mic = mm.mic /\ mm'.cam = mm.cam /\ mm'.local = mm.local /\ mm'.q = mm.q
      /\ mm'.says.scr = mm.says.scr /\ mm'.says.aud /\ mm'.says.mic = mm.says.mic
      /\ mm'.says.cam = mm.says.cam
  BY <1>0 DEF Fields, Said
<1>6. /\ spent'.opened = n /\ spent'.calls = spent.calls /\ spent'.asked = spent.asked
      /\ spent'.faults = spent.faults
  BY OpensOne
<1>7. Became(o, u) /\ ops \ {o} \subseteq ops' /\ u \in ops' /\ o.kind # "quality"
  BY <1>1, Becomes
<1>8. OpsTold'
  <2>1. InOrder(u, n)
    BY <1>1, <1>2, <1>3 DEF InOrder
  <2>2. \A q \in ops : q = o \/ Apart(q, u)
    <3>1. ~Early(u)
      BY <1>1 DEF Early
    <3> QED
      BY <1>0, <1>1, <3>1, ApartKept
  <2>3. Group(u, call) = Group(o, call) /\ Credit(u, call) = 0 /\ Credit(o, call) = 1
    BY <1>0, <1>1 DEF Group, Credit, Spoken, Cameras
  <2>4. spent'.opened = spent.opened + 1 /\ Credit(u, call) + 1 <= Credit(o, call) /\ 1 \in Nat
    BY <1>6, <2>3
  <2> QED
    BY <1>0, <1>1, <1>6, <2>1, <2>2, <2>3, <2>4, OpsOpen
<1>9. Fitting' /\ Running'
  <2>1. t \in Any(n) /\ dev'.live \subseteq dev.live \cup Any(n) /\ dev'.pub \subseteq dev.pub \cup Any(n)
    BY <1>2, <1>4 DEF Any
  <2>2. dev'.aud \subseteq dev.aud \cup (Known("scr", n) \X Known("aud", n))
    <3>1. <<o.cap, t>> \in Known("scr", n) \X Known("aud", n)
      BY <1>2, <1>3
    <3> QED
      BY <1>4, <3>1
  <2> HIDE DEF n
  <2> QED
    BY <1>2, <1>4, <1>5, <1>6, <2>1, <2>2, StaysFitting
<1>10. mm.mic # Loc!None
  BY <1>0 DEF MicRelied
<1>11. MicTold'
  <2>1. MicRelied(u, call, mm.mic)
    BY <1>1, <1>10 DEF MicRelied, Spoken
  <2>2. \A j \in dev'.pub : j \in dev.pub \/ (call # 0 /\ (j[1] = "mic" => j = mm.mic))
    BY <1>0, <1>2, <1>4
  <2> QED
    BY <1>4, <1>5, <1>7, <1>10, <2>1, <2>2, MicStays
<1>12. Untouched("cam") /\ Untouched("scr")
  BY <1>2, <1>4 DEF Untouched
<1>13. CamTold' /\ ScrTold'
  <2>1. CamRelied(u, call, mm.cam) /\ ScrRelied(u, call, mm.scr)
    BY <1>0, <1>1 DEF CamRelied, Cameras, ScrRelied
  <2> QED
    BY <1>5, <1>7, <1>12, <2>1, CamStays, ScrStays
<1>14. AudTold'
  <2>1. \A k \in dev'.live \cap dev'.pub : k[1] = "aud" => <<mm'.scr, k>> \in dev'.aud
    <3>1. \A k \in dev.live \cap dev.pub : k[1] = "aud" => <<mm.scr, k>> \in dev.aud
      BY ScrFacts DEF AudTold
    <3>2. \A k \in dev'.live \cap dev'.pub : k = t \/ k \in dev.live \cap dev.pub
      BY <1>4
    <3> QED
      BY <1>4, <1>5, <3>1, <3>2
  <2>2. t \in dev'.live \cap dev'.pub /\ t[1] = "aud"
    BY <1>2, <1>4
  <2>3. AudRelied(u, call, dev'.aud, dev'.live, ended')
    <3>1. \A p \in dev.aud : p[1] # o.cap
      BY <1>0 DEF AudRelied
    <3>2. \A p \in dev'.aud : p[1] = o.cap => p[2] = t
      <4>1. <<o.cap, t>>[2] = t
        OBVIOUS
      <4> QED
        BY <1>4, <3>1, <4>1
    <3> QED
      BY <1>1, <3>2 DEF AudRelied
  <2>4. \A q \in ops : q # o => AudRelied(q, call, dev'.aud, dev'.live, ended')
    BY <1>0 DEF AudRelied
  <2>5. \A q \in ops' : AudRelied(q, call', dev'.aud, dev'.live, ended')
    BY <1>1, <2>3, <2>4
  <2> QED
    BY <1>5, <2>1, <2>2, <2>5 DEF AudTold
<1>15. Settled'
  <2>1. QualityRelied(u, call, mm.scr)
    BY <1>1 DEF QualityRelied
  <2>2. mm.scr # t
    BY <1>2, <1>3, ScrFacts, KnownKind
  <2>3. mm.scr # Loc!None /\ mm.scr \in dev'.live => mm.scr \in dev.live
    BY <1>4, <2>2
  <2> QED
    BY <1>4, <1>5, <1>7, <2>1, <2>3, SettledStays
<1> QED
  BY <1>8, <1>9, <1>11, <1>13, <1>14, <1>15 DEF Told

LEMMA AudioOpenedTold ==
    ASSUME ToldInv, LocalShape', NEW o \in ops, Loc!AudioOpened(o)
    PROVE  OpsTold' /\ Told'
<1>0. o.kind = "attach" /\ o.at = "wait" /\ call' = call /\ ended' = ended /\ o.kind # "quality"
  BY DEF Loc!AudioOpened
<1>1. PICK t \in Loc!PipeWireTrack :
         IF Loc!StillShares(o) /\ t # Loc!None
         THEN /\ Loc!Opened(1)
              /\ mm' = [mm EXCEPT !.says.aud = TRUE]
              /\ dev' = Loc!Publish([dev EXCEPT !.live = @ \cup {t}, !.aud = @ \cup {<<o.cap, t>>}], {t})
              /\ ops' = (ops \ {o}) \cup {[o EXCEPT !.at = "publish", !.prev = t]}
         ELSE Loc!Done(o) /\ UNCHANGED <<spent, mm, dev>>
  BY DEF Loc!AudioOpened
<1>2. CASE Loc!StillShares(o) /\ t # Loc!None
  <2>1. t = <<"aud", spent.opened + 1>> /\ o.call = call /\ mm.scr = o.cap
    BY <1>2 DEF Loc!PipeWireTrack, Loc!New, Loc!StillShares, Loc!IsActive
  <2> QED
    BY <1>0, <1>1, <1>2, <2>1, AudioAttachedTold
<1>3. CASE ~(Loc!StillShares(o) /\ t # Loc!None)
  <2>1. ops' = ops \ {o} /\ spent' = spent /\ mm' = mm /\ dev' = dev
    BY <1>1, <1>3 DEF Loc!Done
  <2> QED
    BY <1>0, <2>1, EndTold
<1> QED
  BY <1>2, <1>3

LEMMA AudioFailsTold ==
    ASSUME ToldInv, LocalShape', NEW o \in ops, Loc!AudioFails(o)
    PROVE  OpsTold' /\ Told'
<1>0. /\ o.kind = "attach" /\ o.at = "publish" /\ call' = call /\ ended' = ended /\ Loc!Fault
      /\ ops' = ops \ {o} /\ o.kind # "quality"
      /\ mm' = [mm EXCEPT !.says.aud = FALSE]
      /\ dev' = [Loc!Stop(dev, {o.prev}) EXCEPT !.aud = @ \ {<<o.cap, o.prev>>}]
  BY DEF Loc!AudioFails, Loc!Done
<1>1. /\ InOrder(o, spent.opened) /\ AudRelied(o, call, dev.aud, dev.live, ended) /\ ScrRelied(o, call, mm.scr)
      /\ (\A q \in ops : q = o \/ q.kind \notin {"share", "attach"})
      /\ mm \in Fields /\ dev \in Devices /\ spent.opened \in Nat /\ spent.opened <= spent.opened
  BY <1>0, ShareFacts, TypedOps
<1>2. o.prev \in Known("aud", spent.opened) /\ o.prev[1] = "aud"
  <2>1. o.prev \in Known("aud", spent.opened)
    BY <1>0, <1>1 DEF InOrder
  <2> QED
    BY <1>1, <2>1, KnownKind
<1>3. /\ dev'.live = dev.live \ {o.prev} /\ dev'.pub = dev.pub /\ dev'.on = dev.on
      /\ dev'.aud = dev.aud \ {<<o.cap, o.prev>>} /\ dev'.prov = dev.prov /\ dev'.applied = dev.applied
      /\ dev'.sent = dev.sent
  BY <1>0, <1>1 DEF Devices, Loc!Stop
<1>4. /\ mm'.scr = mm.scr /\ mm'.mic = mm.mic /\ mm'.cam = mm.cam /\ mm'.local = mm.local /\ mm'.q = mm.q
      /\ mm'.says.scr = mm.says.scr /\ ~mm'.says.aud /\ mm'.says.mic = mm.says.mic
      /\ mm'.says.cam = mm.says.cam
  BY <1>0, <1>1 DEF Fields, Said
<1>5. Became(o, o) /\ ops \ {o} \subseteq ops' /\ o \notin ops' /\ spent'.opened = spent.opened
  BY <1>0, Ceases, Faulted
<1>6. OpsTold'
  BY <1>0, OpsEnd
<1>7. Fitting' /\ Running'
  BY <1>0, <1>1, <1>3, <1>4, <1>5, StaysFitting
<1>8. MicTold'
  <2>1. \A j \in dev'.pub : j \in dev.pub \/ (call # 0 /\ (j[1] = "mic" => j = mm.mic))
    BY <1>3
  <2>2. mm'.scr # Loc!None \/ mm'.cam # Loc!None => mm.mic # Loc!None
    BY <1>4, MicFacts DEF MicTold
  <2> QED
    BY <1>0, <1>3, <1>4, <1>5, <2>1, <2>2, MicStays
<1>9. Untouched("cam") /\ Untouched("scr")
  BY <1>2, <1>3 DEF Untouched
<1>10. CamTold' /\ ScrTold'
  BY <1>0, <1>4, <1>5, <1>9, CamStays, ScrStays
<1>11. AudTold'
  <2>1. ASSUME NEW k \in dev'.live \cap dev'.pub, k[1] = "aud" PROVE FALSE
    <3>1. <<mm.scr, k>> \in dev.aud /\ k # o.prev
      BY <1>3, <2>1, ScrFacts DEF AudTold
    <3>2. mm.scr # Loc!None
      BY <3>1, ScrFacts
    <3>3. mm.scr = o.cap
      BY <1>0, <1>1, <3>2 DEF ScrRelied
    <3>4. <<mm.scr, k>>[1] = o.cap /\ <<mm.scr, k>>[2] = k
      BY <3>3
    <3> QED
      BY <1>0, <1>1, <3>1, <3>4 DEF AudRelied
  <2>2. \A q \in ops' : AudRelied(q, call', dev'.aud, dev'.live, ended')
    BY <1>0, <1>1 DEF AudRelied
  <2> QED
    BY <1>4, <2>1, <2>2 DEF AudTold
<1>12. Settled'
  BY <1>0, <1>3, <1>4, <1>5, SettledStays
<1> QED
  BY <1>6, <1>7, <1>8, <1>10, <1>11, <1>12 DEF Told

(* The quality of the screen is asked for, and applied.                    *)
LEMMA UpdateScreenQualityTold ==
    ASSUME ToldInv, LocalShape', Loc!UpdateScreenQuality
    PROVE  OpsTold' /\ Told'
<1>0. /\ mm \in Fields /\ dev \in Devices /\ ops \subseteq Operation /\ spent.opened \in Nat /\ call \in Nat
      /\ spent \in [calls : Nat, asked : Nat, faults : Nat, opened : Nat] /\ LocalShape /\ Loc!None \in Maybe
      /\ call' = call /\ ended' = ended /\ call # 0 /\ mm.mic # Loc!None /\ dev' = dev
      /\ mm' = [mm EXCEPT !.q = @ + 1] /\ mm.q \in Nat
      /\ Loc!Asked /\ spent.asked < MaxAsked /\ mm.scr \in Maybe /\ spent.opened <= spent.opened
  BY TypedOps DEF Loc!UpdateScreenQuality, Loc!Asks
<1>1. spent'.opened = spent.opened
  BY <1>0 DEF Loc!Asked
<1>2. /\ mm'.scr = mm.scr /\ mm'.mic = mm.mic /\ mm'.cam = mm.cam /\ mm'.local = mm.local
      /\ mm'.says = mm.says /\ mm'.q = mm.q + 1
  BY <1>0 DEF Fields
<1>3. Fitting' /\ Running'
  BY <1>0, <1>1, <1>2, StaysFitting
<1>4. Untouched("cam") /\ Untouched("scr") /\ Untouched("aud")
  BY <1>0 DEF Untouched
<1>5. mm'.scr # Loc!None \/ mm'.cam # Loc!None => mm.mic # Loc!None
  BY <1>0
<1>6. \A k \in dev'.pub : k \in dev.pub \/ (call # 0 /\ (k[1] = "mic" => k = mm.mic))
  BY <1>0
<1>7. CASE mm.scr = Loc!None
  <2>1. ops' = ops
    BY <1>7 DEF Loc!UpdateScreenQuality
  <2>2. PICK o : o \notin Operation
    BY NoOne
  <2>3. o \notin ops /\ o \notin ops' /\ Became(o, o) /\ ops \ {o} \subseteq ops' /\ ops' \subseteq ops \cup {o}
    BY <1>0, <2>1, <2>2 DEF Became
  <2>4. OpsTold'
    BY <1>0, <2>3, OpsBegin
  <2>5. MicTold'
    BY <1>0, <1>2, <1>5, <1>6, <2>3, MicStays
  <2>6. CamTold' /\ ScrTold' /\ AudTold' /\ Settled'
    BY <1>0, <1>2, <1>4, <1>7, <2>3, OthersTold
  <2> QED
    BY <1>3, <2>4, <2>5, <2>6 DEF Told
<1>8. CASE mm.scr # Loc!None
  <2> DEFINE w == Loc!Op("quality", "apply", mm.scr)
             u == [w EXCEPT !.rev = mm.q + 1]
  <2>1. w \in Operation /\ w.kind = "quality" /\ w.at = "apply" /\ w.cap = mm.scr /\ w.call = call
    BY <1>0, NewOp DEF Kinds, Waits
  <2>2. ops' = ops \cup {u}
    BY <1>8 DEF Loc!UpdateScreenQuality, Loc!Begin
  <2> HIDE DEF w
  <2>3. u.kind = "quality" /\ u.cap = mm.scr /\ u.call = call /\ u.rev = mm.q + 1
    BY <2>1 DEF Operation
  <2> HIDE DEF u
  <2>4. OpsTold'
    <3>1. CASE u \notin ops
      <4>1. \A q \in ops : ~Early(q)
        BY <1>8, ShareFacts
      <4>2. \A q \in ops : Apart(q, u)
        BY <2>3, <4>1 DEF Apart, Early, Spoken, Cameras
      <4>3. InOrder(u, spent.opened)
        BY <1>8, <2>3, ScrFacts DEF InOrder, SomeOf
      <4> QED
        BY <1>0, <2>2, <2>3, <3>1, <4>2, <4>3, OpsBegin
    <3>2. CASE u \in ops
      <4>1. PICK o : o \notin Operation
        BY NoOne
      <4>2. o \notin ops /\ o \notin ops' /\ ops' \subseteq ops \cup {o}
        BY <1>0, <2>2, <3>2, <4>1
      <4> QED
        BY <1>0, <4>2, OpsBegin
    <3> QED
      BY <3>1, <3>2
  <2>5. Became(u, u)
    BY <2>2 DEF Became
  <2>6. /\ MicRelied(u, call, mm.mic) /\ CamRelied(u, call, mm.cam) /\ ScrRelied(u, call, mm.scr)
        /\ AudRelied(u, call, dev.aud, dev'.live, ended')
    BY <1>0, <2>3 DEF MicRelied, CamRelied, ScrRelied, AudRelied, Cameras, Spoken
  <2>7. MicTold'
    BY <1>0, <1>2, <1>5, <1>6, <2>5, <2>6, MicStays
  <2>8. CamTold' /\ ScrTold' /\ AudTold'
    BY <1>0, <1>2, <1>4, <2>5, <2>6, CamStays, ScrStays, AudStays
  <2>9. Settled'
    <3>1. \A q \in ops' : QualityRelied(q, call', mm'.scr)
      BY <1>0, <1>2, <2>2, <2>3, ScrFacts DEF Settled, QualityRelied
    <3>2. u \in ops'
      BY <2>2
    <3> QED
      BY <1>2, <2>3, <3>1, <3>2 DEF Settled
  <2> QED
    BY <1>3, <2>4, <2>7, <2>8, <2>9 DEF Told
<1> QED
  BY <1>7, <1>8

(* A round of the quality, or its end.                                     *)
LEMMA QualityStays ==
    ASSUME ToldInv, LocalShape', NEW o \in ops, o.kind = "quality", call' = call, spent' = spent,
           ended' = ended, mm' = mm, NEW u, Became(o, u),
           u \in ops' => u.kind = "quality" /\ u.call = o.call /\ u.cap = o.cap,
           dev'.live = dev.live, dev'.pub = dev.pub, dev'.on = dev.on, dev'.aud = dev.aud,
           dev'.prov = dev.prov, Settled'
    PROVE  Told'
<1>0. MicRelied(o, call, mm.mic) /\ spent.opened \in Nat /\ spent.opened <= spent.opened
      /\ mm.scr \in SomeOf("scr", spent.opened)
  BY ShareFacts, ScrFacts
<1>1. Fitting' /\ Running'
  BY <1>0, StaysFitting
<1>2. Untouched("cam") /\ Untouched("scr") /\ Untouched("aud")
  BY DEF Untouched
<1>3. u \in ops' => /\ MicRelied(u, call, mm.mic) /\ CamRelied(u, call, mm.cam) /\ ScrRelied(u, call, mm.scr)
                    /\ AudRelied(u, call, dev.aud, dev'.live, ended')
  BY <1>0 DEF MicRelied, CamRelied, ScrRelied, AudRelied, Cameras, Spoken
<1>4. MicTold'
  <2>1. \A k \in dev'.pub : k \in dev.pub \/ (call # 0 /\ (k[1] = "mic" => k = mm.mic))
    OBVIOUS
  <2>2. mm'.scr # Loc!None \/ mm'.cam # Loc!None => mm.mic # Loc!None
    BY MicFacts DEF MicTold
  <2> QED
    BY <1>3, <2>1, <2>2, MicStays
<1>5. CamTold' /\ ScrTold' /\ AudTold'
  BY <1>2, <1>3, CamStays, ScrStays, AudStays
<1> QED
  BY <1>1, <1>4, <1>5 DEF Told

(* Another capture's quality does not touch that of the screen.            *)
LEMMA OtherNumber ==
    ASSUME ToldInv, NEW k \in Known("scr", spent.opened), mm.scr # Loc!None, mm.scr # k
    PROVE  mm.scr[2] # k[2]
BY ScrFacts, KnownKind DEF SomeOf

LEMMA QualityAppliedTold ==
    ASSUME ToldInv, LocalShape', NEW o \in ops, Loc!QualityApplied(o)
    PROVE  OpsTold' /\ Told'
<1>0. /\ o.kind = "quality" /\ call' = call /\ ended' = ended /\ spent' = spent
      /\ mm \in Fields /\ dev \in Devices /\ mm.q \in Nat /\ spent.opened \in Nat
      /\ Settled /\ QualityRelied(o, call, mm.scr) /\ o.cap \in Known("scr", spent.opened)
      /\ InOrder(o, spent.opened)
  BY ShareFacts, ScrFacts, TypedOps DEF Loc!QualityApplied
<1>1. o.cap[2] \in Loc!Numbers /\ o.cap # Loc!None
  BY <1>0, KnownKind, FundedNumbers, ScrFacts
<1>2. CASE Loc!AppliedAgain(o)
  <2>1. PICK u : /\ ops' = (ops \ {o}) \cup {u} /\ u.kind = o.kind /\ u.call = o.call /\ u.at = o.at
                 /\ u.cap = o.cap /\ u.audio = o.audio /\ u.prev = o.prev /\ u.rev = mm.q
                 /\ mm' = mm /\ dev' = [dev EXCEPT !.applied[o.cap[2]] = o.rev]
    BY <1>0, <1>2, AgainOp
  <2>2. OpsTold'
    BY <1>0, <2>1, AgainOps
  <2>3. /\ dev'.live = dev.live /\ dev'.pub = dev.pub /\ dev'.on = dev.on /\ dev'.aud = dev.aud
        /\ dev'.prov = dev.prov /\ dev'.sent = dev.sent
        /\ \A n : n # o.cap[2] => dev'.applied[n] = dev.applied[n]
    BY <1>0, <1>1, <2>1 DEF Devices
  <2>4. Became(o, u) /\ ops \ {o} \subseteq ops' /\ u \in ops' /\ mm' = mm
    BY <2>1, Becomes
  <2>5. u.kind = "quality" /\ u.call = o.call /\ u.cap = o.cap
    BY <1>0, <2>1
  <2>6. Settled'
    <3>1. \A q \in ops' : QualityRelied(q, call', mm'.scr)
      BY <1>0, <2>4, <2>5 DEF Settled, QualityRelied, Became
    <3>2. ASSUME mm.scr # Loc!None, mm.scr \in dev.live, mm.scr # o.cap
          PROVE  \/ dev'.applied[mm.scr[2]] = mm.q /\ dev'.sent[mm.scr[2]] = mm.q
                 \/ \E q \in ops' : q.kind = "quality" /\ q.cap = mm.scr
      <4>1. mm.scr[2] # o.cap[2]
        BY <1>0, <3>2, OtherNumber
      <4>2. CASE \E q \in ops : q.kind = "quality" /\ q.cap = mm.scr
        BY <2>4, <3>2, <4>2
      <4> QED
        BY <1>0, <2>3, <3>2, <4>1, <4>2 DEF Settled
    <3> QED
      BY <2>3, <2>4, <2>5, <3>1, <3>2 DEF Settled
  <2>7. Told'
    BY <1>0, <2>3, <2>4, <2>5, <2>6, QualityStays
  <2> QED
    BY <2>2, <2>7
<1>3. CASE ~Loc!AppliedAgain(o)
  <2>1. /\ o.rev = mm.q /\ ops' = ops \ {o} /\ mm' = mm
        /\ dev' = IF Loc!StillShares(o) /\ o.cap \in dev.live THEN Loc!Sent(Loc!Applied(o), o) ELSE Loc!Applied(o)
    BY <1>3 DEF Loc!QualityApplied, Loc!Again, Loc!Done
  <2>2. OpsTold'
    BY <1>0, <2>1, OpsEnd
  <2>3. /\ dev'.live = dev.live /\ dev'.pub = dev.pub /\ dev'.on = dev.on /\ dev'.aud = dev.aud
        /\ dev'.prov = dev.prov
        /\ \A n : n # o.cap[2] => dev'.applied[n] = dev.applied[n] /\ dev'.sent[n] = dev.sent[n]
        /\ Loc!StillShares(o) /\ o.cap \in dev.live =>
             dev'.applied[o.cap[2]] = mm.q /\ dev'.sent[o.cap[2]] = mm.q
    <3> DEFINE d == Loc!Applied(o)
    <3>1. /\ d \in Devices /\ d.live = dev.live /\ d.pub = dev.pub /\ d.on = dev.on /\ d.aud = dev.aud
          /\ d.prov = dev.prov /\ d.sent = dev.sent /\ d.applied[o.cap[2]] = mm.q
          /\ \A n : n # o.cap[2] => d.applied[n] = dev.applied[n]
      BY <1>0, <1>1, <2>1 DEF Devices, Loc!Applied
    <3> HIDE DEF d
    <3>2. CASE dev' = d /\ ~(Loc!StillShares(o) /\ o.cap \in dev.live)
      BY <3>1, <3>2
    <3>3. CASE dev' = Loc!Sent(d, o)
      <4>1. dev' = [d EXCEPT !.sent = [d.sent EXCEPT ![o.cap[2]] = mm.q]]
        BY <2>1, <3>1, <3>3 DEF Devices, Loc!Sent
      <4>2. d.sent \in [Loc!Numbers -> Nat]
        BY <3>1 DEF Devices
      <4>3. /\ dev'.live = d.live /\ dev'.pub = d.pub /\ dev'.on = d.on /\ dev'.aud = d.aud
            /\ dev'.prov = d.prov /\ dev'.applied = d.applied
            /\ dev'.sent = [d.sent EXCEPT ![o.cap[2]] = mm.q]
        BY <3>1, <4>1 DEF Devices
      <4>4. dev'.sent[o.cap[2]] = mm.q /\ \A n : n # o.cap[2] => dev'.sent[n] = dev.sent[n]
        BY <1>1, <3>1, <4>2, <4>3
      <4> QED
        BY <3>1, <4>3, <4>4
    <3> QED
      BY <2>1, <3>2, <3>3 DEF d
  <2>4. Became(o, o) /\ ops \ {o} \subseteq ops' /\ o \notin ops'
    BY <2>1, Ceases
  <2>5. Settled'
    <3>1. \A q \in ops' : QualityRelied(q, call', mm'.scr)
      BY <1>0, <2>1 DEF Settled
    <3>2. ASSUME mm.scr # Loc!None, mm.scr \in dev.live, mm.scr # o.cap
          PROVE  \/ dev'.applied[mm.scr[2]] = mm.q /\ dev'.sent[mm.scr[2]] = mm.q
                 \/ \E q \in ops' : q.kind = "quality" /\ q.cap = mm.scr
      <4>1. mm.scr[2] # o.cap[2]
        BY <1>0, <3>2, OtherNumber
      <4>2. CASE \E q \in ops : q.kind = "quality" /\ q.cap = mm.scr
        BY <2>4, <3>2, <4>2
      <4> QED
        BY <1>0, <2>3, <3>2, <4>1, <4>2 DEF Settled
    <3>3. mm.scr = o.cap => Loc!StillShares(o)
      BY <1>0 DEF QualityRelied, Loc!StillShares, Loc!IsActive
    <3> QED
      BY <2>1, <2>3, <3>1, <3>2, <3>3 DEF Settled
  <2>6. Told'
    BY <1>0, <2>1, <2>3, <2>4, <2>5, QualityStays
  <2> QED
    BY <2>2, <2>6
<1> QED
  BY <1>2, <1>3

(* A call begins or ends: whatever was said or shared is over, and no      *)
(* operation that is left belongs to the call that is on.                  *)
LEMMA CallTold ==
    ASSUME ToldInv, LocalShape', mm' = Loc!Fresh(mm.q), dev'.pub = {}, dev'.live \subseteq dev.live,
           dev'.on = dev.on, dev'.aud = dev.aud, dev'.prov \in {dev.prov, Loc!None}, ended' = ended,
           spent'.opened = spent.opened,
           \A q \in ops' : (q \in ops /\ q.call # call') \/ (q.kind = "init" /\ q.at = "open")
    PROVE  Told'
<1>0. AudTold /\ spent.opened \in Nat /\ spent.opened <= spent.opened
      /\ (\A q \in ops : q.kind = "quality" => q.cap # Loc!None)
  BY ScrFacts
<1>1. /\ mm'.mic = Loc!None /\ mm'.cam = Loc!None /\ mm'.scr = Loc!None /\ mm'.local = {}
      /\ mm'.says.mic /\ ~mm'.says.cam /\ ~mm'.says.scr /\ ~mm'.says.aud
  BY DEF Loc!Fresh
<1>2. Fitting' /\ Running'
  <2>1. /\ \A kind : Loc!None \in SomeOf(kind, spent.opened)
        /\ dev'.prov \in {dev.prov} \cup SomeOf("scr", spent.opened)
    BY DEF SomeOf
  <2>2. /\ dev'.live \subseteq dev.live \cup Any(spent.opened) /\ dev'.pub \subseteq dev.pub \cup Any(spent.opened)
        /\ mm'.mic \in {mm.mic} \cup SomeOf("mic", spent.opened)
        /\ mm'.cam \in {mm.cam} \cup SomeOf("cam", spent.opened)
        /\ mm'.scr \in {mm.scr} \cup SomeOf("scr", spent.opened)
        /\ mm'.local \subseteq mm.local \cup Known("mic", spent.opened) \cup Known("cam", spent.opened)
    BY <1>1, <2>1
  <2> QED
    BY <1>0, <2>1, <2>2, StaysFitting
<1>3. MicTold'
  <2>1. \A q \in ops' : MicRelied(q, call', mm'.mic)
    BY <1>1 DEF MicRelied, Spoken
  <2> QED
    BY <1>1, <2>1 DEF MicTold
<1>4. CamTold'
  <2>1. \A q \in ops' : CamRelied(q, call', mm'.cam)
    BY <1>1 DEF CamRelied, Cameras
  <2> QED
    BY <1>1, <2>1 DEF CamTold
<1>5. ScrTold'
  <2>1. \A q \in ops' : ScrRelied(q, call', mm'.scr)
    BY <1>1 DEF ScrRelied
  <2> QED
    BY <1>1, <2>1 DEF ScrTold
<1>6. AudTold'
  <2>1. ASSUME NEW q \in ops' PROVE AudRelied(q, call', dev'.aud, dev'.live, ended')
    <3>1. CASE q.kind = "init"
      BY <3>1 DEF AudRelied
    <3>2. CASE q \in ops /\ q.call # call'
      <4>1. AudRelied(q, call, dev.aud, dev.live, ended)
        BY <1>0, <3>2 DEF AudTold
      <4> QED
        BY <3>2, <4>1 DEF AudRelied
    <3> QED
      BY <3>1, <3>2
  <2> QED
    BY <1>1, <2>1 DEF AudTold
<1>7. Settled'
  <2>1. \A q \in ops' : QualityRelied(q, call', mm'.scr)
    BY <1>0, <1>1 DEF QualityRelied
  <2> QED
    BY <1>1, <2>1 DEF Settled
<1> QED
  BY <1>2, <1>3, <1>4, <1>5, <1>6, <1>7 DEF Told

(* What an operation still owes does not depend on the call, but for the   *)
(* one that begins it.                                                     *)
LEMMA OwesAcross ==
    ASSUME Alone, Alone', NEW g \in {"spoken", "camera", "attach"},
           \A q \in ops' : q \in ops \/ q.kind = "init"
    PROVE  Owes(ops', call', g) <= Owes(ops, call, g)
<1>0. Owes(ops, call, g) \in 0 .. 4 /\ g # "none" /\ g # "init"
  BY OwesSome
<1>1. CASE \A q \in ops' : Group(q, call') # g
  BY <1>0, <1>1, OwesSome
<1>2. ASSUME NEW q \in ops', Group(q, call') = g PROVE Owes(ops', call', g) = Owes(ops, call, g)
  <2>1. q.kind # "init" /\ q \in ops
    BY <1>0, <1>2 DEF Group, Spoken, Cameras
  <2>2. Group(q, call) = g /\ Credit(q, call') = Credit(q, call)
    BY <1>2, <2>1 DEF Group, Credit
  <2>3. Owes(ops', call', g) = Credit(q, call')
    BY <1>0, <1>2, OwesOne DEF Alone
  <2>4. Owes(ops, call, g) = Credit(q, call)
    BY <1>0, <2>1, <2>2, OwesOne DEF Alone
  <2> QED
    BY <2>2, <2>3, <2>4
<1> QED
  BY <1>0, <1>1, <1>2

LEMMA StartCallTold ==
    ASSUME ToldInv, LocalShape', Loc!StartCall
    PROVE  OpsTold' /\ Told'
<1>0. /\ mm \in Fields /\ dev \in Devices /\ ops \subseteq Operation /\ LocalShape /\ Loc!None \in Maybe
      /\ spent \in [calls : Nat, asked : Nat, faults : Nat, opened : Nat]
      /\ spent.opened \in Nat /\ spent.calls \in Nat /\ spent.asked \in Nat /\ MaxCalls \in Nat
      /\ Alone /\ Funded /\ Counted /\ (\A q \in ops : InOrder(q, spent.opened))
  BY TypedOps DEF ToldInv, Bounds, OpsTold
<1> DEFINE w == Loc!Op("init", "open", Loc!None)
           u == [w EXCEPT !.id = 0, !.call = spent.calls + 1]
<1>1. /\ call = 0 /\ spent.calls < MaxCalls /\ call' = spent.calls + 1
      /\ spent' = [spent EXCEPT !.calls = @ + 1] /\ mm' = Loc!Fresh(mm.q)
      /\ dev' = [dev EXCEPT !.pub = {}] /\ ops' = ops \cup {u} /\ ended' = ended
  BY DEF Loc!StartCall
<1>2. w \in Operation /\ w.kind = "init" /\ w.at = "open" /\ w.cap = Loc!None
  BY <1>0, NewOp DEF Kinds, Waits
<1> HIDE DEF w
<1>3. u.kind = "init" /\ u.at = "open" /\ u.cap = Loc!None /\ u.call = spent.calls + 1
  BY <1>2 DEF Operation
<1> HIDE DEF u
<1>4. /\ spent'.calls = spent.calls + 1 /\ spent'.opened = spent.opened /\ spent'.asked = spent.asked
      /\ spent'.faults = spent.faults
  BY <1>0, <1>1
<1>5. /\ dev'.live = dev.live /\ dev'.pub = {} /\ dev'.on = dev.on /\ dev'.aud = dev.aud
      /\ dev'.prov = dev.prov
  BY <1>0, <1>1 DEF Devices
<1>6. \A q \in ops : q.call \in Nat /\ q.call <= spent.calls /\ q.call # call'
  BY <1>0, <1>1, TypedOps DEF Counted
<1>7. Told'
  BY <1>1, <1>3, <1>4, <1>5, <1>6, CallTold
<1>8. \A q \in ops' : InOrder(q, spent'.opened)
  BY <1>0, <1>1, <1>3, <1>4 DEF InOrder
<1>9. Alone'
  <2>1. \A q \in ops : Apart(q, u) /\ Apart(u, q)
    BY <1>1, <1>3, <1>6 DEF Apart, Early, Spoken, Cameras
  <2> QED
    BY <1>0, <1>1, <2>1 DEF Alone
<1>10. Counted'
  BY <1>0, <1>1, <1>3, <1>4, <1>6 DEF Counted
<1>11. Funded'
  <2> DEFINE A(g) == Owes(ops, call, g)
             B(g) == Owes(ops', call', g)
  <2>1. \A g : A(g) \in 0 .. 4 /\ B(g) \in 0 .. 4
    BY OwesSome
  <2>2. \A g \in {"spoken", "camera", "attach"} : B(g) <= A(g)
    BY <1>0, <1>1, <1>3, <1>9, OwesAcross
  <2>3. B("init") = 1
    <3>1. Group(u, call') = "init" /\ Credit(u, call') = 1
      BY <1>1, <1>3 DEF Group, Credit
    <3>2. u \in ops' /\ \A r \in ops' : r = u \/ Apart(u, r)
      BY <1>1, <1>9 DEF Alone
    <3> QED
      BY <3>1, <3>2, OwesOne
  <2>4. spent.opened + A("init") + A("spoken") + A("camera") + A("attach") <= spent.calls + 4 * spent.asked
    BY <1>0 DEF Funded
  <2> HIDE DEF A, B
  <2>5. /\ A("init") \in Nat /\ A("spoken") \in Nat /\ A("camera") \in Nat /\ A("attach") \in Nat
        /\ B("init") \in Nat /\ B("spoken") \in Nat /\ B("camera") \in Nat /\ B("attach") \in Nat
        /\ B("spoken") <= A("spoken") /\ B("camera") <= A("camera") /\ B("attach") <= A("attach")
    BY <2>1, <2>2
  <2>6. spent'.opened + B("init") + B("spoken") + B("camera") + B("attach")
          <= spent'.calls + 4 * spent'.asked
    BY <1>0, <1>4, <2>3, <2>4, <2>5
  <2> QED
    BY <2>6 DEF Funded, B
<1> QED
  BY <1>7, <1>8, <1>9, <1>10, <1>11 DEF OpsTold

(* The call ends, and with it perhaps the operation that began it.         *)
LEMMA CleanupTold ==
    ASSUME ToldInv, LocalShape', Loc!Cleanup, NEW o, ops' = ops \ {o}, spent' = spent \/ Loc!Fault,
           ended' = ended
    PROVE  OpsTold' /\ Told'
<1>0. /\ mm \in Fields /\ dev \in Devices /\ ops \subseteq Operation
      /\ spent.opened \in Nat /\ spent.calls \in Nat /\ spent.asked \in Nat
      /\ Alone /\ Funded /\ Counted /\ (\A q \in ops : InOrder(q, spent.opened) /\ q.call # 0)
  BY TypedOps DEF ToldInv, OpsTold
<1> DEFINE S == mm.local \cup {mm.mic, dev.prov} \cup Loc!Stream(mm.scr)
<1>1. /\ call' = 0 /\ mm' = Loc!Fresh(mm.q)
      /\ dev' = [Loc!Stop(dev, S) EXCEPT !.pub = {}, !.prov = Loc!None]
  BY DEF Loc!Cleanup
<1> HIDE DEF S
<1>2. /\ dev'.live = dev.live \ S /\ dev'.pub = {} /\ dev'.on = dev.on /\ dev'.aud = dev.aud
      /\ dev'.prov = Loc!None
  BY <1>0, <1>1 DEF Devices, Loc!Stop
<1>3. /\ spent'.opened = spent.opened /\ spent'.calls = spent.calls /\ spent'.asked = spent.asked
      /\ spent'.asked <= MaxAsked /\ spent'.faults <= MaxFaults
  BY Faulted
<1>4. Told'
  BY <1>0, <1>1, <1>2, <1>3, CallTold
<1>5. Alone' /\ (\A q \in ops' : InOrder(q, spent'.opened)) /\ Counted'
  BY <1>0, <1>1, <1>3 DEF Alone, Counted
<1>6. Funded'
  <2> DEFINE A(g) == Owes(ops, call, g)
             B(g) == Owes(ops', call', g)
  <2>1. \A g : A(g) \in 0 .. 4 /\ B(g) \in 0 .. 4
    BY OwesSome
  <2>2. \A g \in {"spoken", "camera", "attach"} : B(g) <= A(g)
    BY <1>0, <1>5, OwesAcross
  <2>3. B("init") = 0
    <3>1. \A q \in ops' : Group(q, call') # "init"
      BY <1>0, <1>1 DEF Group
    <3> QED
      BY <3>1, OwesSome
  <2>4. spent.opened + A("init") + A("spoken") + A("camera") + A("attach") <= spent.calls + 4 * spent.asked
    BY <1>0 DEF Funded
  <2> HIDE DEF A, B
  <2>5. /\ A("init") \in Nat /\ A("spoken") \in Nat /\ A("camera") \in Nat /\ A("attach") \in Nat
        /\ B("init") \in Nat /\ B("spoken") \in Nat /\ B("camera") \in Nat /\ B("attach") \in Nat
        /\ B("spoken") <= A("spoken") /\ B("camera") <= A("camera") /\ B("attach") <= A("attach")
    BY <2>1, <2>2
  <2>6. spent'.opened + B("init") + B("spoken") + B("camera") + B("attach")
          <= spent'.calls + 4 * spent'.asked
    BY <1>0, <1>3, <2>3, <2>4, <2>5
  <2> QED
    BY <2>6 DEF Funded, B
<1> QED
  BY <1>4, <1>5, <1>6 DEF OpsTold

LEMMA EndCallTold ==
    ASSUME ToldInv, LocalShape', Loc!EndCall
    PROVE  OpsTold' /\ Told'
<1>1. PICK o : o \notin Operation
  BY NoOne
<1>2. Loc!Cleanup /\ spent' = spent /\ ended' = ended /\ ops' = ops \ {o}
  BY <1>1, TypedOps DEF Loc!EndCall
<1> QED
  BY <1>2, CleanupTold

LEMMA InitFailsTold ==
    ASSUME ToldInv, LocalShape', NEW o \in ops, Loc!InitFails(o)
    PROVE  OpsTold' /\ Told'
<1>1. Loc!Fault /\ ops' = ops \ {o} /\ ended' = ended /\ o.kind # "quality"
  BY DEF Loc!InitFails, Loc!Done
<1>2. CASE o.call = call
  BY <1>1, <1>2, CleanupTold DEF Loc!InitFails, Loc!IsActive
<1>3. CASE o.call # call
  BY <1>1, <1>3, EndTold DEF Loc!InitFails, Loc!IsActive
<1> QED
  BY <1>2, <1>3

LEMMA ToldInit ==
    ASSUME Bounds, Loc!Init
    PROVE  ToldInv
<1>1. mm = Loc!Fresh(0) /\ call = 0 /\ ended = {} /\ ops = {}
      /\ spent = [calls |-> 0, asked |-> 0, faults |-> 0, opened |-> 0]
      /\ dev = [live |-> {}, on |-> {}, pub |-> {}, aud |-> {}, prov |-> Loc!None, missed |-> {},
                applied |-> [n \in Loc!Numbers |-> 0], sent |-> [n \in Loc!Numbers |-> 0]]
  BY DEF Loc!Init
<1>2. /\ mm.mic = Loc!None /\ mm.cam = Loc!None /\ mm.scr = Loc!None /\ mm.local = {}
      /\ mm.says.mic /\ ~mm.says.cam /\ ~mm.says.scr /\ ~mm.says.aud
  BY <1>1 DEF Loc!Fresh
<1>3. dev.live = {} /\ dev.on = {} /\ dev.pub = {} /\ dev.aud = {} /\ dev.prov = Loc!None
  BY <1>1
<1>4. Fitting /\ Running
  BY <1>1, <1>2, <1>3 DEF Fitting, Running, SomeOf
<1>5. MicTold /\ CamTold /\ ScrTold /\ AudTold /\ Settled
  BY <1>1, <1>2, <1>3 DEF MicTold, CamTold, ScrTold, AudTold, Settled
<1>6. Funded
  <2>1. \A g : Owes(ops, call, g) = 0
    BY <1>1, OwesSome
  <2> QED
    BY <1>1, <2>1 DEF Funded
<1>7. OpsTold
  BY <1>1, <1>6 DEF OpsTold, Alone, Counted, Bounds
<1> QED
  BY <1>4, <1>5, <1>7, LocalInit DEF ToldInv, Told

LEMMA ToldStep ==
    ASSUME Serial, ToldInv, [Loc!Next]_Loc!vars
    PROVE  ToldInv'
<1>1. LocalInv'
  BY LocalStep DEF ToldInv
<1>2. LocalShape'
  BY <1>1 DEF LocalInv
<1>3. CASE \E o \in ops : Loc!Continues(o)
  <2>1. PICK o \in ops : Loc!Continues(o)
    BY <1>3
  <2>2. OpsTold' /\ Told'
    <3>1. CASE Loc!InitOpened(o) \/ Loc!InitPublished(o) \/ Loc!InitFails(o)
      BY <1>2, <2>1, <3>1, InitOpenedTold, QuietTold, InitFailsTold
    <3>2. CASE Loc!VoiceOpened(o) \/ Loc!VoiceReplaced(o) \/ Loc!VoiceFails(o)
      BY <1>2, <2>1, <3>2, VoiceContinuesTold, VoiceReplacedTold
    <3>3. CASE Loc!CameraOpened(o) \/ Loc!CameraPublished(o) \/ Loc!CameraUnpublished(o) \/ Loc!CameraFails(o)
      BY <1>2, <2>1, <3>3, CameraOpenedTold, CameraEndsTold
    <3>4. CASE Loc!ScreenCaptured(o) \/ Loc!ScreenRefused(o) \/ Loc!ScreenReady(o) \/ Loc!ScreenPublished(o)
      BY <1>2, <2>1, <3>4, ScreenCapturedTold, QuietTold, ScreenReadyTold, ScreenPublishedEitherTold
    <3>5. CASE Loc!MicrophoneUsable(o) \/ Loc!MicrophoneSuspended(o) \/ Loc!MicrophoneRepublished(o)
      BY <1>2, <2>1, <3>5, MicrophoneUsableTold, QuietTold
    <3>6. CASE Loc!ScreenFails(o) \/ Loc!ScreenUnpublished(o)
      BY <1>2, <2>1, <3>6, ScreenFailsTold, ScreenUnpublishedTold
    <3>7. CASE Loc!AudioPrepared(o) \/ Loc!AudioOpened(o) \/ Loc!AudioPublished(o) \/ Loc!AudioFails(o)
      BY <1>2, <2>1, <3>7, QuietTold, AudioOpenedTold, AudioPublishedTold, AudioFailsTold
    <3>8. CASE Loc!QualityApplied(o)
      BY <1>2, <2>1, <3>8, QualityAppliedTold
    <3> QED
      BY <2>1, <3>1, <3>2, <3>3, <3>4, <3>5, <3>6, <3>7, <3>8 DEF Loc!Continues
  <2> QED
    BY <1>1, <2>2 DEF ToldInv, Bounds
<1>4. CASE \/ Loc!StartCall \/ Loc!EndCall \/ Loc!ToggleMicrophone \/ Loc!UpdateVoiceInput
           \/ Loc!ToggleCamera \/ Loc!ToggleScreen \/ Loc!UpdateScreenQuality \/ Loc!SourceGone
           \/ \E k \in ended : Loc!EndedEvent(k)
  <2>1. OpsTold' /\ Told'
    BY <1>2, <1>4, StartCallTold, EndCallTold, ToggleMicrophoneTold, UpdateVoiceInputTold, ToggleCameraTold,
       ToggleScreenTold, UpdateScreenQualityTold, SourceGoneTold, EndedEventTold
  <2> QED
    BY <1>1, <2>1 DEF ToldInv, Bounds
<1>5. CASE UNCHANGED Loc!vars
  <2>1. /\ call' = call /\ spent' = spent /\ mm' = mm /\ dev' = dev /\ ended' = ended /\ ops' = ops
    BY <1>5 DEF Loc!vars
  <2>2. OpsTold'
    BY <2>1 DEF ToldInv, OpsTold, Alone, Funded, Counted
  <2>3. Told'
    BY <2>1 DEF ToldInv, Told, Fitting, Running, MicTold, CamTold, ScrTold, AudTold, Settled
  <2> QED
    BY <1>1, <2>2, <2>3 DEF ToldInv, Bounds
<1> QED
  BY <1>3, <1>4, <1>5 DEF Loc!Next

LEMMA ToldTyped ==
    ASSUME ToldInv
    PROVE  LocalTyped
<1>0. /\ mm \in Fields /\ dev \in Devices /\ ops \subseteq Operation /\ call \in Nat
      /\ spent \in [calls : Nat, asked : Nat, faults : Nat, opened : Nat]
      /\ MaxCalls \in Nat /\ MaxAsked \in Nat /\ MaxFaults \in Nat
      /\ Fitting /\ Running /\ Counted /\ \A q \in ops : InOrder(q, spent.opened)
  BY TypedOps DEF ToldInv, Bounds, Told, OpsTold
<1>1. spent.opened <= MaxCalls + 4 * MaxAsked /\ 1 .. spent.opened \subseteq Loc!Numbers
  BY FundedNumbers
<1>2. \A kind \in {"mic", "cam", "scr", "aud"} : Known(kind, spent.opened) \subseteq Loc!Track
  BY <1>1 DEF Known, Loc!Track
<1>3. call \in 0 .. MaxCalls
  BY <1>0 DEF Counted
<1>4. spent \in [calls : 0 .. MaxCalls, asked : 0 .. MaxAsked, faults : 0 .. MaxFaults,
                 opened : 0 .. MaxCalls + 4 * MaxAsked]
  BY <1>0, <1>1 DEF Counted
<1>5. {mm.mic, mm.cam, mm.scr} \subseteq Loc!Track \cup {Loc!None} /\ mm.local \subseteq Loc!Track
  BY <1>0, <1>2 DEF Fitting, SomeOf
<1>6. mm.says \in [mic : BOOLEAN, cam : BOOLEAN, scr : BOOLEAN, aud : BOOLEAN]
  BY <1>0 DEF Fields, Said
<1>7. Any(spent.opened) \subseteq Loc!Track
  BY <1>2 DEF Any
<1>8. dev.live \cup dev.on \cup dev.pub \cup ended \subseteq Loc!Track
  BY <1>0, <1>2, <1>7 DEF Running
<1>9. dev.aud \subseteq Loc!Track \X Loc!Track
  BY <1>0, <1>2 DEF Running
<1>10. ASSUME NEW o \in ops
       PROVE  /\ o.call \in 0 .. MaxCalls /\ o.cap \in Loc!Track \cup {Loc!None}
              /\ o.kind \in {"camoff", "unshare", "attach"} => o.cap # Loc!None
  <2>1. o.call \in 0 .. MaxCalls
    BY <1>0, TypedOps DEF Counted
  <2>2. o.cap \in Known("cam", spent.opened) \cup Known("scr", spent.opened) \cup {Loc!None}
    BY <1>0 DEF InOrder
  <2>3. o.kind \in {"camoff", "unshare", "attach"} => o.cap \in Known("cam", spent.opened) \cup Known("scr", spent.opened)
    BY <1>0 DEF InOrder
  <2> QED
    BY <1>0, <1>2, <2>1, <2>2, <2>3, NoneKind
<1> QED
  BY <1>3, <1>4, <1>5, <1>6, <1>8, <1>9, <1>10 DEF LocalTyped, Track, Loc!Track, Numbers, Loc!Numbers, None, Loc!None

LEMMA ToldMeans ==
    ASSUME ToldInv
    PROVE  PeersGetWhatIsTold
<1>0. /\ MicTold /\ CamTold /\ ScrTold /\ AudTold /\ Settled /\ Loc!None[1] = "none"
      /\ Loc!None \notin dev.live /\ mm \in Fields /\ mm.cam \in SomeOf("cam", spent.opened)
      /\ mm.scr \in SomeOf("scr", spent.opened) /\ spent.opened \in Nat
  BY ScrFacts, TypedOps DEF ToldInv, Told, Fitting
<1>1. /\ mm.cam # Loc!None => mm.cam[1] = "cam"
      /\ mm.scr # Loc!None => mm.scr[1] = "scr"
  BY <1>0, KnownKind DEF SomeOf
<1>2. MutedIsSilent
  <2> SUFFICES ASSUME ~mm.says.mic, NEW k \in Heard("mic"), k \in dev.on PROVE FALSE
    BY DEF MutedIsSilent
  <2>1. k \in dev.pub /\ k[1] = "mic"
    BY DEF Heard
  <2> QED
    BY <1>0, <2>1 DEF MicTold
<1>3. mm.says.cam = (Heard("cam") # {})
  <2>1. mm.says.cam \in BOOLEAN
    BY <1>0 DEF Fields, Said
  <2>2. mm.cam # Loc!None => mm.cam \in Heard("cam")
    BY <1>0, <1>1 DEF CamTold, Heard
  <2>3. mm.cam = Loc!None => Heard("cam") = {}
    BY <1>0 DEF CamTold, Heard
  <2> QED
    BY <1>0, <2>1, <2>2, <2>3 DEF CamTold
<1>4. mm.scr \notin ended => mm.says.scr = (Heard("scr") # {})
  <2>1. mm.says.scr \in BOOLEAN
    BY <1>0 DEF Fields, Said
  <2>2. mm.scr \notin ended /\ mm.scr # Loc!None => mm.scr \in Heard("scr")
    BY <1>0, <1>1 DEF ScrTold, Heard
  <2>3. mm.scr = Loc!None => Heard("scr") = {}
    BY <1>0 DEF ScrTold, Heard
  <2> QED
    BY <1>0, <2>1, <2>2, <2>3 DEF ScrTold
<1>5. mm.says.aud = (Heard("aud") # {})
  <2>1. mm.says.aud \in BOOLEAN
    BY <1>0 DEF Fields, Said
  <2>2. mm.says.aud <=> \E k : k \in Heard("aud")
    BY <1>0 DEF AudTold, Heard
  <2> QED
    BY <2>1, <2>2
<1>6. ToldTruth
  BY <1>3, <1>4, <1>5 DEF ToldTruth
<1>7. QualitySettles
  BY <1>0 DEF Settled, QualitySettles, InFlight
<1> QED
  BY <1>2, <1>6, <1>7, ToldTyped DEF PeersGetWhatIsTold

(* What the other participants hear and see is what the user chose and     *)
(* they were told, for any number of calls, requests and faults of users   *)
(* who wait for a request before they repeat it: silence while muted, the  *)
(* announced camera and screen, in the quality last asked for (setMicro-   *)
(* phone, updateVoiceInput, toggleCamera, startScreen and                  *)
(* applyLatestScreenCaptureQuality of MediaManager.ts).                    *)
THEOREM PeersAreToldTheTruth ==
    ASSUME Serial, {MaxCalls, MaxAsked, MaxFaults} \subseteq Nat
    PROVE  Loc!Spec => []PeersGetWhatIsTold
<1>1. Loc!Init => ToldInv
  BY ToldInit DEF Bounds
<1>2. ToldInv /\ [Loc!Next]_Loc!vars => ToldInv'
  BY ToldStep
<1>3. ToldInv => PeersGetWhatIsTold
  BY ToldMeans
<1> QED
  BY <1>1, <1>2, <1>3, PTL DEF Loc!Spec

=============================================================================
