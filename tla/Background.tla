---------------------------- MODULE Background -----------------------------
(***************************************************************************)
(* BackgroundChatManager: the chat controllers that run without a window.  *)
(* One per text channel and one per group's membership, kept by sync,      *)
(* release and disconnect, which run one at a time through a queue and     *)
(* with retries; and one per private conversation, which are not queued    *)
(* and are evicted in least-recently-used order.                           *)
(*                                                                         *)
(* Channels, groups and friends are numbers in the order the application   *)
(* lists them.  A controller is an identifier that is free again once it is*)
(* closed; what it does meanwhile is ChatSession's subject.                *)
(***************************************************************************)
EXTENDS BackgroundState, SequencesExt

CONSTANTS
    MaxFaults,      \* connects, identities and sessions that fail
    SerialPrivate   \* no private conversation is opened while another makes room

Limits ==
    /\ Channels \subseteq Nat \ {0} /\ Groups \subseteq Nat \ {0} /\ Channels \cap Groups = {}
    /\ Friends \subseteq Nat \ (Channels \cup Groups \cup {0})
    /\ IsFiniteSet(Channels) /\ IsFiniteSet(Groups) /\ IsFiniteSet(Friends)
    /\ {MaxChannels, MaxGroups, MaxPrivate} \subseteq Nat \ {0}
    /\ Slots \subseteq Nat \ {0}
    /\ {MaxCalls, MaxFaults} \subseteq Nat
    /\ SerialPrivate \in BOOLEAN

ASSUME BackgroundConstants == Limits

vars == <<sess, private, lru, ctl, room, queue, running, opening, last, retry, released, spent>>

Free == {i \in Slots : ctl[i] = "free"}

Init ==
    /\ sess = [k \in Keys |-> 0]
    /\ private = [f \in Friends |-> 0]
    /\ lru = <<>>
    /\ ctl = [i \in Slots |-> "free"]
    /\ room = [i \in Slots |-> 0]
    /\ queue = <<>> /\ running = {} /\ opening = {}
    /\ last = NoArgs /\ retry = FALSE /\ released = {}
    /\ spent = [calls |-> 0, faults |-> 0]

\* slice(0, max) of the keys in the order they are listed.
First(keys, max) == {k \in keys : Cardinality({j \in keys : j < k}) < max}

DesiredGroups(args) == First(args.groups, MaxGroups)
DesiredChannels(args) == First(args.chans, MaxChannels)

\* A free controller for each of the keys.
NewControllers(keys) == {f \in [keys -> Free] : \A k, l \in keys : f[k] = f[l] => k = l}

-----------------------------------------------------------------------------
(***************************************************************************)
(* The queue.                                                              *)
(***************************************************************************)
Op(kind, args, ch) == [kind |-> kind, args |-> args, ch |-> ch, at |-> "start", waits |-> {}]

Call == spent.calls < MaxCalls /\ spent' = [spent EXCEPT !.calls = @ + 1]

Sync(args) ==
    /\ Call
    /\ last' = args
    /\ released' = {}
    /\ queue' = Append(queue, Op("sync", args, 0))
    /\ UNCHANGED <<sess, private, lru, ctl, room, running, opening, retry>>

Release(ch) ==
    /\ Call
    /\ released' = released \cup {ch}
    /\ queue' = Append(queue, Op("release", NoArgs, ch))
    /\ UNCHANGED <<sess, private, lru, ctl, room, running, opening, last, retry>>

Disconnect ==
    /\ Call
    /\ SerialPrivate => \A o \in opening : o.at = "connect"
    /\ last' = NoArgs
    /\ retry' = FALSE
    /\ queue' = Append(queue, Op("disconnect", NoArgs, 0))
    /\ UNCHANGED <<sess, private, lru, ctl, room, running, opening, released>>

MayStart == queue # <<>> /\ running = {}

Begins ==
    /\ MayStart
    /\ running' = running \cup {Head(queue)}
    /\ queue' = Tail(queue)
    /\ UNCHANGED <<sess, private, lru, ctl, room, opening, last, retry, released, spent>>

\* controller.disconnect() for the controllers in ids.
Closing(c, ids) == [i \in Slots |-> IF i \in ids THEN "closing" ELSE c[i]]

Without(keys) == [k \in Keys |-> IF k \in keys THEN 0 ELSE sess[k]]
Held(keys) == {sess[k] : k \in keys} \ {0}

Goes(op, at, waits) == running' = (running \ {op}) \cup {[op EXCEPT !.at = at, !.waits = waits]}
Ends(op) == running' = running \ {op}

\* The sessions of `all` that are not wanted leave the map and are closed.
CloseUnwanted(op, all, wanted, at) ==
    /\ sess' = Without(all \ wanted)
    /\ ctl' = Closing(ctl, Held(all \ wanted))
    /\ Goes(op, at, Held(all \ wanted))
    /\ UNCHANGED room

\* The wanted keys without a session get a controller, which connects.
OpenWanted(op, wanted, at) ==
    LET missing == {k \in wanted : sess[k] = 0}
        new == CHOOSE f \in NewControllers(missing) : TRUE
        for(i) == {k \in missing : new[k] = i}
    IN /\ NewControllers(missing) # {}
       /\ sess' = [k \in Keys |-> IF k \in missing THEN new[k] ELSE sess[k]]
       /\ ctl' = [i \in Slots |-> IF for(i) # {} THEN "connecting" ELSE ctl[i]]
       /\ room' = [i \in Slots |-> IF for(i) # {} THEN CHOOSE k \in for(i) : TRUE ELSE room[i]]
       /\ Goes(op, at, {new[k] : k \in missing})

Done(op) == op.waits = {}

\* scheduleRetry: only while there is something to retry.
Armed == retry \/ ~last.none

\* Mutant: only the channels are counted.
Incomplete_ChannelsOnly(args) == \E k \in DesiredChannels(args) : sess[k] = 0

Incomplete(args) == \E k \in DesiredChannels(args) \cup DesiredGroups(args) : sess[k] = 0

Same == UNCHANGED <<private, lru, queue, opening, last, released, spent>>

SyncGroups(op) ==
    /\ op.kind = "sync" /\ op.at = "start"
    /\ CloseUnwanted(op, Groups, DesiredGroups(op.args), "identity")
    /\ Same /\ UNCHANGED retry

\* getOrCreateLocalIdentity; without a group there is nothing to identify for.
SyncIdentity(op) ==
    /\ op.kind = "sync" /\ op.at = "identity" /\ Done(op)
    /\ OpenWanted(op, DesiredGroups(op.args), "groups")
    /\ Same /\ UNCHANGED retry

IdentityFails(op) ==
    /\ op.kind = "sync" /\ op.at = "identity" /\ Done(op) /\ DesiredGroups(op.args) # {}
    /\ spent.faults < MaxFaults
    /\ spent' = [spent EXCEPT !.faults = @ + 1]
    /\ Ends(op)
    /\ retry' = Armed
    /\ UNCHANGED <<sess, private, lru, ctl, room, queue, opening, last, released>>

SyncChannels(op) ==
    /\ op.kind = "sync" /\ op.at = "groups" /\ Done(op)
    /\ CloseUnwanted(op, Channels, DesiredChannels(op.args), "close")
    /\ Same /\ UNCHANGED retry

SyncOpens(op) ==
    /\ op.kind = "sync" /\ op.at = "close" /\ Done(op)
    /\ OpenWanted(op, DesiredChannels(op.args), "channels")
    /\ Same /\ UNCHANGED retry

\* What is missing in the end is retried; the rest resets the retry.
SyncEnds(op) ==
    /\ op.kind = "sync" /\ op.at = "channels" /\ Done(op)
    /\ Ends(op)
    /\ retry' = (Incomplete(op.args) /\ Armed)
    /\ UNCHANGED <<sess, ctl, room>> /\ Same

ReleaseRuns(op) ==
    /\ op.kind = "release" /\ op.at = "start"
    /\ sess' = Without({op.ch})
    /\ ctl' = Closing(ctl, Held({op.ch}))
    /\ Goes(op, "close", Held({op.ch}))
    /\ Same /\ UNCHANGED <<room, retry>>

\* Mutant: the private conversations are dropped and not disconnected.
AllHeld_ButPrivate == Held(Keys)

AllHeld == Held(Keys) \cup ({private[f] : f \in Friends} \ {0})

DisconnectRuns(op) ==
    /\ op.kind = "disconnect" /\ op.at = "start"
    /\ LET all == AllHeld IN
       /\ ctl' = Closing(ctl, all)
       /\ Goes(op, "close", all)
    /\ sess' = [k \in Keys |-> 0]
    /\ private' = [f \in Friends |-> 0]
    /\ lru' = <<>>
    /\ UNCHANGED <<room, queue, opening, last, retry, released, spent>>

Returns(op) ==
    /\ op.kind # "sync" /\ op.at = "close" /\ Done(op)
    /\ Ends(op)
    /\ UNCHANGED <<sess, ctl, room, retry>> /\ Same

RetryFires ==
    /\ retry
    /\ retry' = FALSE
    /\ queue' = IF last.none THEN queue ELSE Append(queue, Op("sync", last, 0))
    /\ UNCHANGED <<sess, private, lru, ctl, room, running, opening, last, released, spent>>

-----------------------------------------------------------------------------
(***************************************************************************)
(* Private conversations.                                                  *)
(***************************************************************************)
\* The order of use without f.
Unlisted(f) == IF f \in ToSet(lru) THEN RemoveAt(lru, CHOOSE k \in DOMAIN lru : lru[k] = f) ELSE lru

Forget(f) ==
    /\ private' = [private EXCEPT ![f] = 0]
    /\ lru' = Unlisted(f)

MayOpen(f) ==
    /\ Call
    /\ \A o \in opening : o.f # f /\ (SerialPrivate => o.at = "connect")
    /\ UNCHANGED <<sess, queue, running, last, retry, released>>

\* A session in a good state is used again.
OpenExisting(f) ==
    /\ private[f] # 0 /\ ctl[private[f]] # "error"
    /\ MayOpen(f)
    /\ lru' = Append(Unlisted(f), f)
    /\ UNCHANGED <<private, ctl, room, opening>>

\* disconnectPrivate for the session in error, which the new one then replaces.
OpenAgain(f) ==
    /\ private[f] # 0 /\ ctl[private[f]] = "error"
    /\ MayOpen(f)
    /\ Forget(f)
    /\ ctl' = Closing(ctl, {private[f]})
    /\ opening' = opening \cup {[f |-> f, at |-> "room", waits |-> {private[f]}]}
    /\ UNCHANGED room

OpenNew(f) ==
    /\ private[f] = 0
    /\ MayOpen(f)
    /\ opening' = opening \cup {[f |-> f, at |-> "room", waits |-> {}]}
    /\ UNCHANGED <<private, lru, ctl, room>>

MustEvict == Size >= MaxPrivate

\* evictPrivateSessionIfNeeded.
MakesRoom(o) ==
    /\ o.at = "room" /\ Done(o)
    /\ IF MustEvict
       THEN LET oldest == Head(lru) IN
            /\ Forget(oldest)
            /\ ctl' = Closing(ctl, {private[oldest]})
            /\ opening' = (opening \ {o}) \cup {[o EXCEPT !.at = "create", !.waits = {private[oldest]}]}
       ELSE /\ opening' = (opening \ {o}) \cup {[o EXCEPT !.at = "create"]}
            /\ UNCHANGED <<private, lru, ctl>>
    /\ UNCHANGED <<sess, room, queue, running, last, retry, released, spent>>

CreatesPrivate(o) ==
    /\ o.at = "create" /\ Done(o) /\ Free # {}
    /\ LET i == CHOOSE i \in Free : \A j \in Free : i <= j IN
       /\ private' = [private EXCEPT ![o.f] = i]
       /\ ctl' = [ctl EXCEPT ![i] = "connecting"]
       /\ room' = [room EXCEPT ![i] = o.f]
       /\ opening' = (opening \ {o}) \cup {[o EXCEPT !.at = "connect", !.waits = {i}]}
    /\ lru' = Append(Unlisted(o.f), o.f)
    /\ UNCHANGED <<sess, queue, running, last, retry, released, spent>>

ConnectPrivateReturns(o) ==
    /\ o.at = "connect" /\ Done(o)
    /\ opening' = opening \ {o}
    /\ UNCHANGED <<sess, private, lru, ctl, room, queue, running, last, retry, released, spent>>

DisconnectPrivate(f) ==
    /\ Call
    /\ private[f] # 0
    /\ Forget(f)
    /\ ctl' = Closing(ctl, {private[f]})
    /\ UNCHANGED <<sess, room, queue, running, opening, last, retry, released>>

-----------------------------------------------------------------------------
(***************************************************************************)
(* The controllers.  Whoever waits for one goes on when it is done.        *)
(***************************************************************************)
Settles(i) ==
    /\ running' = {[op EXCEPT !.waits = @ \ {i}] : op \in running}
    /\ opening' = {[o EXCEPT !.waits = @ \ {i}] : o \in opening}

Connected(i) ==
    /\ ctl[i] = "connecting"
    /\ ctl' = [ctl EXCEPT ![i] = "on"]
    /\ Settles(i)
    /\ UNCHANGED <<room, sess, private, lru, queue, last, retry, released, spent>>

\* The catch of each connect: the entry goes if it is still this controller's.
Dropped(i) == [k \in Keys |-> IF sess[k] = i THEN 0 ELSE sess[k]]

ConnectFails(i) ==
    /\ ctl[i] = "connecting" /\ spent.faults < MaxFaults
    /\ spent' = [spent EXCEPT !.faults = @ + 1]
    /\ sess' = Dropped(i)
    /\ private' = [f \in Friends |-> IF private[f] = i THEN 0 ELSE private[f]]
    /\ lru' = IF room[i] \in Friends /\ private[room[i]] = i THEN Unlisted(room[i]) ELSE lru
    /\ ctl' = [ctl EXCEPT ![i] = "closing"]
    /\ UNCHANGED <<room, queue, running, opening, last, retry, released>>

\* A private session that connected reports an error later on.
SessionErrs(f) ==
    /\ private[f] # 0 /\ ctl[private[f]] = "on" /\ spent.faults < MaxFaults
    /\ spent' = [spent EXCEPT !.faults = @ + 1]
    /\ ctl' = [ctl EXCEPT ![private[f]] = "error"]
    /\ UNCHANGED <<room, sess, private, lru, queue, running, opening, last, retry, released>>

Closed(i) ==
    /\ ctl[i] = "closing"
    /\ ctl' = [ctl EXCEPT ![i] = "free"]
    /\ room' = [room EXCEPT ![i] = 0]
    /\ Settles(i)
    /\ UNCHANGED <<sess, private, lru, queue, last, retry, released, spent>>

-----------------------------------------------------------------------------
Runs(op) ==
    \/ SyncGroups(op) \/ SyncIdentity(op) \/ SyncChannels(op) \/ SyncOpens(op) \/ SyncEnds(op)
    \/ ReleaseRuns(op) \/ DisconnectRuns(op) \/ Returns(op)

Opens(o) == MakesRoom(o) \/ CreatesPrivate(o) \/ ConnectPrivateReturns(o)

Next ==
    \/ \E args \in Args : Sync(args)
    \/ \E ch \in Channels : Release(ch)
    \/ Disconnect
    \/ Begins \/ RetryFires
    \/ \E op \in running : Runs(op) \/ IdentityFails(op)
    \/ \E f \in Friends : \/ OpenExisting(f) \/ OpenAgain(f) \/ OpenNew(f)
                          \/ DisconnectPrivate(f) \/ SessionErrs(f)
    \/ \E o \in opening : Opens(o)
    \/ \E i \in Slots : Connected(i) \/ ConnectFails(i) \/ Closed(i)

Spec == Init /\ [][Next]_vars

\* The queue, the timer and the controllers go on; nothing is assumed of the
\* application's calls.
FairSpec ==
    /\ Spec
    /\ WF_vars(Begins)
    /\ WF_vars(RetryFires)
    /\ WF_vars(\E op \in running : Runs(op))
    /\ \A f \in Friends : WF_vars(\E o \in opening : o.f = f /\ Opens(o))
    /\ \A i \in Slots : WF_vars(Connected(i)) /\ WF_vars(Closed(i))

-----------------------------------------------------------------------------
\* The maps hold controllers that connect or are connected, each held once,
\* and the order of use lists exactly the private sessions.
\* Once the application stops asking and failures stop, the sessions become
\* those of its last sync (without the channels released after it), or none
\* after disconnect: a failed attempt is retried until it succeeds.
Converges ==
    <>[](/\ \A k \in DesiredGroups(last) \cup (DesiredChannels(last) \ released) : sess[k] # 0
         /\ \A k \in Keys \ (DesiredGroups(last) \cup DesiredChannels(last)) : sess[k] = 0)
=============================================================================
