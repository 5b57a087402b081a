-------------------------- MODULE BackgroundState --------------------------
(***************************************************************************)
(* What BackgroundChatManager (apps/web/src/services/chat/                 *)
(* background-manager.ts) keeps of the chat controllers that run without a *)
(* window, and what must hold of it between any two steps of what it does. *)
(* Background has the steps.                                               *)
(***************************************************************************)
EXTENDS Naturals, FiniteSets, Sequences

CONSTANTS
    Channels, Groups, Friends,
    MaxChannels, MaxGroups, MaxPrivate,     \* MAX_BACKGROUND_*
    Slots,          \* identifiers of controllers
    MaxCalls        \* calls of the application

VARIABLES
    sess,       \* sessions and membershipSessions: key -> controller or 0
    private,    \* privateSessions: friend -> controller or 0
    lru,        \* the friends of `private`, least recently used first
    ctl,        \* controllers: what each is doing
    room,       \* controllers: the channel, group or friend each was created for
    queue,      \* operationQueue: what waits
    running,    \* the queued operations that run
    opening,    \* the calls of connectPrivate in flight
    last,       \* lastSync
    retry,      \* retryTimer is armed
    released,   \* channels released since the last sync was asked for
    spent

Keys == Channels \cup Groups
NoArgs == [chans |-> {}, groups |-> {}, none |-> TRUE]
Args == [chans : SUBSET Channels, groups : SUBSET Groups, none : {FALSE}]

Size == Cardinality({f \in Friends : private[f] # 0})

\* The entries name controllers that run, and the order of use names the private ones.
SessionsTyped ==
    /\ sess \in [Keys -> Slots \cup {0}]
    /\ private \in [Friends -> Slots \cup {0}]
    /\ room \in [Slots -> Keys \cup Friends \cup {0}]
    /\ ctl \in [Slots -> {"free", "connecting", "on", "error", "closing"}]
    /\ \A k \in Keys : sess[k] # 0 => ctl[sess[k]] \in {"connecting", "on"}
    /\ \A f \in Friends : private[f] # 0 => ctl[private[f]] \in {"connecting", "on", "error"}
    /\ {lru[n] : n \in DOMAIN lru} = {f \in Friends : private[f] # 0} /\ Len(lru) = Size
    /\ last \in Args \cup {NoArgs} /\ retry \in BOOLEAN
    /\ spent \in [calls : 0..MaxCalls, faults : Nat]

Users(i) == {k \in Keys : sess[k] = i} \cup {f \in Friends : private[f] = i}

\* A controller that is connected or connecting is held by exactly one entry of
\* the maps: none is left running that release, sync or disconnect cannot reach.
NoOrphan == \A i \in Slots : ctl[i] \in {"connecting", "on", "error"} => Cardinality(Users(i)) = 1

\* A channel or a group never has two controllers at once, not even one that
\* is being closed and its successor: both would join the same room as the
\* same peer.  This is what the queue of operations is for.
NoTwins == \A i, j \in Slots : room[i] = room[j] /\ room[i] \in Keys => i = j

\* The limits of background sessions hold at every moment, also between the
\* steps of an operation and while conversations are opened and evicted.
WithinCapacity ==
    /\ Cardinality({k \in Channels : sess[k] # 0}) <= MaxChannels
    /\ Cardinality({k \in Groups : sess[k] # 0}) <= MaxGroups
    /\ Size <= MaxPrivate

\* Every controller that runs is accounted for: one holder, one per room, and
\* no more than the limits allow, between any two steps of the queue, of the
\* private conversations and of the retry (sync, release, connectPrivate).
SessionsAccountedFor == SessionsTyped /\ NoOrphan /\ NoTwins /\ WithinCapacity
============================================================================
