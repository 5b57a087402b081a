---------------------------- MODULE ScreenAudio ----------------------------
(***************************************************************************)
(* The PipeWire session of the local backend on Linux                      *)
(* (desktop-backend/src/p2p/screen_audio.rs): POST /screen-audio/prepare   *)
(* starts a pw-loopback whose sink is the mix that a screen share sends,   *)
(* links the playback streams of the desktop to it, except Risk's own when *)
(* asked, and keeps a task that links the streams that start later; POST   *)
(* /screen-audio/stop ends it.  Requests are served concurrently; every    *)
(* command they run (pw-dump, pw-link) is a wait.                          *)
(*                                                                         *)
(* The loopback of prepare request r is numbered r.id, and so are the mix  *)
(* and the reconcile task that belong to it.                               *)
(***************************************************************************)
EXTENDS Integers, Sequences, FiniteSets

CONSTANTS
    Apps,          \* playback streams of the desktop
    Risk,          \* the ones of Risk's own process tree
    Channels,      \* Channels[a]: the channel of each output port of a
    MaxRequests,   \* requests in a behaviour
    MaxChanges,    \* playback streams that start or end
    MaxFaults      \* commands that fail, clients and processes that go away

ASSUME ScreenAudioAssumption ==
    /\ Risk \subseteq Apps
    /\ Channels \in [Apps -> Seq({"MONO", "FL", "FR", "LFE"})]
    /\ {MaxRequests, MaxChanges, MaxFaults} \subseteq Nat

VARIABLES
    count,     \* what the bounds cap: [requests, changes, faults]
    reqs,      \* requests being served
    ready,     \* loopbacks whose nodes and ports are in the graph
    mixes,     \* running loopbacks
    slot,      \* the loopback of SESSION, 0 for None
    tasks,     \* running reconcile tasks
    nodes,     \* playback streams in the graph
    links,     \* <<stream, output port, mix, input port>>
    excludes,  \* the mixes whose prepare excluded Risk
    crossed    \* history: a request came, or its client went, while a prepare was
               \* served or its session stored

vars == <<count, reqs, ready, mixes, slot, tasks, nodes, links, excludes, crossed>>

Ids == 1 .. MaxRequests

SinkChannels == <<"FL", "FR">>

Init ==
    /\ count = [requests |-> 0, changes |-> 0, faults |-> 0]
    /\ reqs = {} /\ mixes = {} /\ slot = 0 /\ tasks = {} /\ links = {}
    /\ ready = {}
    /\ nodes \in SUBSET Apps
    /\ excludes = {} /\ crossed = FALSE

Fault ==
    /\ count.faults < MaxFaults
    /\ count' = [count EXCEPT !.faults = @ + 1]

To(r, at) == reqs' = (reqs \ {r}) \cup {[r EXCEPT !.at = at]}
Served(r) == reqs' = reqs \ {r}

(* Links die with the streams and the loopbacks they join. *)
Joining(ls, ns, ms) == {l \in ls : l[1] \in ns /\ l[3] \in ms}

Kill(is) ==
    /\ mixes' = mixes \ is
    /\ links' = Joining(links, nodes, mixes \ is)

-----------------------------------------------------------------------------
(* Which links a reconciliation asks for. *)

\* Mutant: ports are matched by their position only.
TargetsByIndex(channel, index, n) ==
    IF channel = "MONO" THEN 1 .. n
    ELSE LET named == {j \in 1 .. n : SinkChannels[j] = channel} IN
         IF named # {} THEN named ELSE {j \in 1 .. n : j = index}

(* matching_sink_ports, for a sink of n ports: a mono stream feeds both, a
   channel the sink has feeds its port, any other the port of its rank or the
   last one. *)
Targets(channel, index, n) ==
    IF channel = "MONO" THEN 1 .. n
    ELSE LET named == {j \in 1 .. n : SinkChannels[j] = channel} IN
         IF named # {} THEN named ELSE {IF index < n THEN index ELSE n}

(* is_risk_node: by application, by name or by process tree. *)
IsRiskNode(a) == a \in Risk

(* reconcile_links up to the first pw-link: the graph is read once and the mix
   is the first sink with Risk's name, whichever session it belongs to.  A
   stream to be linked is <<stream, mix>>. *)
Wanted(i, excl) == {<<a, i>> : a \in {x \in nodes : ~(excl /\ IsRiskNode(x))}}

(* The pw-links of one stream.  A command fails when one of its ends is gone;
   the failure is ignored. *)
LinksOf(w) ==
    UNION {{<<w[1], p, w[2], j>> : j \in Targets(Channels[w[1]][p], p, Len(SinkChannels))}
             : p \in DOMAIN Channels[w[1]]}

Linked(w) == links' = Joining(links \cup LinksOf(w), nodes, mixes)

-----------------------------------------------------------------------------
(* Requests. *)

Arrives(kind, excl) ==
    /\ count.requests < MaxRequests
    /\ count' = [count EXCEPT !.requests = @ + 1]
    /\ reqs' = reqs \cup {[id |-> count.requests + 1, kind |-> kind, excl |-> excl,
                           at |-> "stop", todo |-> {}]}
    /\ crossed' = (crossed \/ reqs # {})
    /\ UNCHANGED <<ready, mixes, slot, tasks, nodes, links, excludes>>

\* Mutant: the task of the session is not aborted.
StopPipewire_KeepingTask(r) ==
    /\ r.at = "stop"
    /\ slot' = 0
    /\ Kill({slot})
    /\ IF r.kind = "stop" THEN Served(r) ELSE To(r, "spawn")
    /\ UNCHANGED <<count, ready, tasks, nodes, excludes, crossed>>

(* stop_pipewire: takes the session, aborts its task, kills its loopback.  It is
   also the first thing start_pipewire does. *)
StopPipewire(r) ==
    /\ r.at = "stop"
    /\ slot' = 0
    /\ tasks' = {t \in tasks : t.id # slot}
    /\ Kill({slot})
    /\ IF r.kind = "stop" THEN Served(r) ELSE To(r, "spawn")
    /\ UNCHANGED <<count, ready, nodes, excludes, crossed>>

Spawn(r) ==
    /\ r.at = "spawn"
    /\ mixes' = mixes \cup {r.id}
    /\ excludes' = IF r.excl THEN excludes \cup {r.id} ELSE excludes
    /\ To(r, "nodes")
    /\ UNCHANGED <<count, ready, slot, tasks, nodes, links, crossed>>

(* A missing command, a loopback that ends or publishes nothing in time, an
   unreadable graph: the loopback is killed and the answer is "unavailable". *)
PrepareFails(r) ==
    /\ r.at \in {"spawn", "nodes", "read"}
    /\ Fault /\ Served(r) /\ Kill({r.id})
    /\ UNCHANGED <<ready, slot, tasks, nodes, excludes, crossed>>

(* wait_for_mix_nodes finds a sink of Risk's with ports. *)
NodesReady(r) ==
    /\ r.at = "nodes"
    /\ mixes \cap ready # {}
    /\ To(r, "read")
    /\ UNCHANGED <<count, ready, mixes, slot, tasks, nodes, links, excludes, crossed>>

FirstRead(r) ==
    /\ r.at = "read"
    /\ \E i \in mixes :
         IF i \in ready
         THEN /\ reqs' = (reqs \ {r}) \cup {[r EXCEPT !.at = "link", !.todo = Wanted(i, r.excl)]}
              /\ UNCHANGED <<mixes, links>>
         ELSE Served(r) /\ Kill({r.id})
    /\ UNCHANGED <<count, ready, slot, tasks, nodes, excludes, crossed>>

FirstLink(r) ==
    /\ r.at = "link"
    /\ \E w \in r.todo :
         /\ Linked(w)
         /\ reqs' = (reqs \ {r}) \cup {[r EXCEPT !.todo = @ \ {w}]}
    /\ UNCHANGED <<count, ready, mixes, slot, tasks, nodes, excludes, crossed>>

(* The reconcile task is spawned; the lock of SESSION is awaited after it. *)
SpawnTask(r) ==
    /\ r.at = "link" /\ r.todo = {}
    /\ tasks' = tasks \cup {[id |-> r.id, excl |-> r.excl, todo |-> {}]}
    /\ To(r, "slot")
    /\ UNCHANGED <<count, ready, mixes, slot, nodes, links, excludes, crossed>>

\* Mutant: the session that was there is overwritten.
StoreSession_KeepingLoopback(r) ==
    /\ r.at = "slot"
    /\ slot' = r.id
    /\ Served(r)
    /\ UNCHANGED <<count, ready, mixes, links, tasks, nodes, excludes, crossed>>

(* A session another request stored meanwhile is dropped: its loopback is
   killed on drop, its task is detached and goes on. *)
StoreSession(r) ==
    /\ r.at = "slot"
    /\ slot' = r.id
    /\ Kill({slot})
    /\ Served(r)
    /\ UNCHANGED <<count, ready, tasks, nodes, excludes, crossed>>

(* The client goes away: the request is dropped at the wait it is in, with
   the loopback it owns. *)
ClientGone(r) ==
    /\ Fault /\ Served(r) /\ Kill({r.id})
    /\ crossed' = (crossed \/ r.at = "slot")
    /\ UNCHANGED <<ready, slot, tasks, nodes, excludes>>

-----------------------------------------------------------------------------
(* The reconcile task: every 750 ms, the whole of reconcile_links. *)

TaskReads(t) ==
    /\ t.todo = {}
    /\ \E i \in mixes \cap ready :
            tasks' = (tasks \ {t}) \cup {[t EXCEPT !.todo = Wanted(i, t.excl)]}
    /\ UNCHANGED <<count, reqs, ready, mixes, slot, nodes, links, excludes, crossed>>

TaskLinks(t) ==
    /\ \E w \in t.todo :
         /\ Linked(w)
         /\ tasks' = (tasks \ {t}) \cup {[t EXCEPT !.todo = @ \ {w}]}
    /\ UNCHANGED <<count, reqs, ready, mixes, slot, nodes, excludes, crossed>>

-----------------------------------------------------------------------------
(* The desktop and the processes. *)

NodesAppear(i) ==
    /\ i \in mixes \ ready
    /\ ready' = ready \cup {i}
    /\ UNCHANGED <<count, reqs, mixes, slot, tasks, nodes, links, excludes, crossed>>

AppChanges(a) ==
    /\ count.changes < MaxChanges
    /\ count' = [count EXCEPT !.changes = @ + 1]
    /\ nodes' = IF a \in nodes THEN nodes \ {a} ELSE nodes \cup {a}
    /\ links' = Joining(links, nodes', mixes)
    /\ UNCHANGED <<reqs, ready, mixes, slot, tasks, excludes, crossed>>

LoopbackDies(i) ==
    /\ i \in mixes
    /\ Fault /\ Kill({i})
    /\ UNCHANGED <<reqs, ready, slot, tasks, nodes, excludes, crossed>>

(* The backend dies; the kernel ends its loopbacks (PR_SET_PDEATHSIG) and the
   shell starts another backend. *)
BackendDies ==
    /\ Fault
    /\ reqs' = {} /\ slot' = 0 /\ tasks' = {}
    /\ Kill(Ids)
    /\ UNCHANGED <<ready, nodes, excludes, crossed>>

-----------------------------------------------------------------------------

Serves(r) ==
    \/ StopPipewire(r) \/ Spawn(r) \/ NodesReady(r) \/ FirstRead(r) \/ FirstLink(r)
    \/ SpawnTask(r) \/ StoreSession(r)

Reconciles(t) == TaskReads(t) \/ TaskLinks(t)

Next ==
    \/ \E excl \in BOOLEAN : Arrives("prepare", excl)
    \/ Arrives("stop", FALSE)
    \/ \E r \in reqs : Serves(r) \/ PrepareFails(r) \/ ClientGone(r)
    \/ \E t \in tasks : Reconciles(t)
    \/ \E i \in Ids : NodesAppear(i) \/ LoopbackDies(i)
    \/ \E a \in Apps : AppChanges(a)
    \/ BackendDies

Spec == Init /\ [][Next]_vars

(* Spawned processes publish their ports, and the runtime polls every request
   and every task. *)
FairSpec ==
    /\ Spec
    /\ \A i \in Ids :
         /\ WF_vars(NodesAppear(i))
         /\ WF_vars(\E r \in reqs : r.id = i /\ Serves(r))
         /\ WF_vars(\E t \in tasks : t.id = i /\ Reconciles(t))

-----------------------------------------------------------------------------

Request == [id : Ids, kind : {"prepare", "stop"}, excl : BOOLEAN,
            at : {"stop", "spawn", "nodes", "read", "link", "slot"},
            todo : SUBSET (Apps \X Ids)]

Task == [id : Ids, excl : BOOLEAN, todo : SUBSET (Apps \X Ids)]

TypeOK ==
    /\ count \in [requests : 0 .. MaxRequests, changes : 0 .. MaxChanges, faults : 0 .. MaxFaults]
    /\ mixes \subseteq Ids /\ slot \in Ids \cup {0} /\ nodes \subseteq Apps
    /\ \A l \in links : l[1] \in nodes /\ l[3] \in mixes
    /\ reqs \subseteq Request /\ tasks \subseteq Task
    /\ \A r \in reqs : r.kind = "stop" => r.at = "stop"
    /\ \A t, u \in tasks : t.id = u.id => t = u
    /\ excludes \subseteq Ids /\ crossed \in BOOLEAN

(* No loopback outlives what owns it: each is the session's or that of a prepare
   still being served, whatever failed, was overtaken or went away. *)
NoStrayLoopback == \A i \in mixes : i = slot \/ \E r \in reqs : r.id = i

(* The strengthening of NoStrayLoopback that is inductive: loopbacks are numbered by
   the requests that came, one by each, and a request owns its loopback from
   its spawning until the session does; its task is spawned last. *)
OwnersInv ==
    /\ \A r, q \in reqs : r.id = q.id => r = q
    /\ \A r \in reqs :
         /\ r.id <= count.requests /\ r.id # slot
         /\ r.at \in {"stop", "spawn"} => r.id \notin mixes /\ r.id \notin excludes
         /\ \A t \in tasks : t.id = r.id => r.at = "slot"
    /\ slot <= count.requests
    /\ \A i \in mixes \cup excludes : i <= count.requests
    /\ \A t \in tasks : t.id <= count.requests
    /\ NoStrayLoopback

(* A mix whose prepare excluded Risk never carries Risk's own audio back into
   the call, as long as no request arrived while a prepare was being served and
   no client left while its session was being stored (either may leave a task
   behind that has no session). *)
NoEchoOfRisk ==
    ~crossed => \A l \in links : l[3] \in excludes => l[1] \notin Risk

(* The strengthening of NoEchoOfRisk that is inductive: one request is served at a time,
   it stores its session after the one before it was taken, each task has its session
   or its request, and whoever links streams has them for its own mix only. *)
EchoInv ==
    ~crossed =>
        /\ \A r, q \in reqs : r = q
        /\ \A r \in reqs : r.at # "stop" => slot = 0
        /\ \A t \in tasks : t.id = slot \/ \E r \in reqs : r.at = "slot" /\ r.id = t.id
        /\ \A r \in reqs : r.at \notin {"stop", "spawn"} => (r.excl <=> r.id \in excludes)
        /\ \A t \in tasks : t.excl <=> t.id \in excludes
        /\ \A r \in reqs : \A w \in r.todo : w[2] = r.id /\ (r.excl => w[1] \notin Risk)
        /\ \A t \in tasks : \A w \in t.todo : w[2] = t.id /\ (t.excl => w[1] \notin Risk)
        /\ NoEchoOfRisk

(* The stream a is heard in mix i: each of its ports feeds it, a mono one on
   both sides. *)
Mixed(a, i) ==
    \A p \in DOMAIN Channels[a] :
        /\ \E j \in 1 .. 2 : <<a, p, i, j>> \in links
        /\ Channels[a][p] = "MONO" => \A j \in 1 .. 2 : <<a, p, i, j>> \in links

(* Every stream that keeps playing while a session is kept is heard in its
   mix sooner or later, also one that started after the share. *)
EveryAppIsMixed ==
    \A a \in Apps \ Risk :
        (slot \in mixes /\ a \in nodes)
            ~> (slot \notin mixes \/ a \notin nodes \/ Mixed(a, slot))

(* The links that reconcile_links makes join existing streams to existing mixes,
   one task serves a session, and Risk is not heard in a mix without it. *)
MixIsClean == TypeOK /\ NoEchoOfRisk
=============================================================================
