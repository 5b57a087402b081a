-------------------------- MODULE GroupReplication --------------------------
(***************************************************************************)
(* The replicas of one group and the messages that keep them together.     *)
(* Every peer stores its own copy; the owner and the administrators edit   *)
(* theirs and send signed snapshots over the chat's DataChannels, and a    *)
(* peer that was removed is sent the certificate of its removal.           *)
(*                                                                         *)
(* Sources: apps/web/src/services/offline/social-storage.ts,               *)
(* apps/web/src/chat/GroupChatService.ts and the membership part of        *)
(* apps/web/src/chat/ChatController.ts.                                    *)
(*                                                                         *)
(* An operation loads the copy, awaits signatures and checks, and saves a  *)
(* whole new copy; nothing locks the copy in between.  At the peers of     *)
(* Overlapping an operation may hold what it loaded while others run;      *)
(* elsewhere nothing comes between a load and the save that follows it.    *)
(* The merge of a snapshot loads twice, once to check the snapshot and     *)
(* once to merge it, and at every peer other operations may run between    *)
(* the two.  Sending is never forced: a peer may be offline for as long as *)
(* it likes.  Channels of Churn close, and two peers meet again only under *)
(* the same rendezvous secret.                                             *)
(***************************************************************************)
EXTENDS GroupManifest

CONSTANTS
    InitialMembers,  \* members that hold a copy at the start
    InitialAdmins,   \* administrators among them
    Aliases,         \* peers that carry the owner's display name
    MayLeave,        \* peers whose user may delete the local copy
    Rejoin,          \* TRUE: invites are also used by peers that hold a copy
    Overlapping,     \* peers whose operations overlap on their replica
    Delayed,         \* peers where others run between the two loads of a merge
    Churn,           \* pairs of peers whose channel may close
    Idle,            \* no operation in progress
    MaxNet           \* BOUND: messages in flight

ASSUME InitialAssumption ==
    /\ IsFiniteSet(InitialMembers)
    /\ Owner \in InitialMembers /\ InitialMembers \subseteq Peers
    /\ InitialAdmins \subseteq InitialMembers \ {Owner}
    /\ Aliases \subseteq Peers \ {Owner}
    /\ MayLeave \subseteq Peers
    /\ Rejoin \in BOOLEAN /\ Overlapping \subseteq Delayed /\ Delayed \subseteq Peers
    /\ Churn \subseteq Peers \X Peers /\ MaxNet \in Nat

VARIABLES
    db,         \* db[p]: the copy in the store of p, or NoGroup
    held,       \* held[p]: what an operation in progress at p works on
    net,        \* messages in flight
    links,      \* pairs of peers with an open DataChannel
    used,       \* identifiers already drawn
    delegated   \* history: <<e, p>> when the owner made p administrator in epoch e

vars == <<db, held, net, links, used, delegated>>

Snapshot == [kind : {"snapshot"}, from : Peers, to : Peers, group : Replica]
Revocation == [kind : {"revocation"}, from : Peers, to : Peers, cert : Certificate]

\* An edit in progress, a snapshot that was checked, or its merge in progress.
Edit == [doing : {"edit"}, base : Replica]
Check == [doing : {"check"}, group : Replica, from : Peers]
Merge == [doing : {"merge"}, base : Replica, group : Replica, from : Peers]
InProgress == Edit \cup Check \cup Merge \cup {Idle}

ASSUME IdleAssumption == Idle \notin Edit \cup Check \cup Merge

TypeOK ==
    /\ db \in [Peers -> Replica \cup {NoGroup}]
    /\ held \in [Peers -> InProgress]
    /\ net \subseteq Snapshot \cup Revocation
    /\ links \subseteq Peers \X Peers
    /\ used \subseteq Ids
    /\ delegated \subseteq Nat \X Peers

(* The group the owner created, after it invited the initial members,      *)
(* appointed the administrators one by one and everyone is up to date.     *)
InitialReplica ==
    LET n == Cardinality(InitialMembers)
        a == Cardinality(InitialAdmins)
    IN  [members |-> InitialMembers, admins |-> InitialAdmins, grants |-> InitialAdmins,
         removed |-> {}, certs |-> {}, mver |-> n, ver |-> n + a, actor |-> Owner,
         op |-> 0, epoch |-> 1 + a, rver |-> 1, secret |-> 0, meta |-> 0]

Init ==
    /\ db = [p \in Peers |-> IF p \in InitialMembers THEN InitialReplica ELSE NoGroup]
    /\ held = [p \in Peers |-> Idle]
    /\ net = {}
    /\ links = {l \in InitialMembers \X InitialMembers : l[1] < l[2]}
    /\ used = {0}
    /\ delegated = {InitialReplica.epoch} \X InitialAdmins

----------------------------------------------------------------------------
Linked(p, q) == <<p, q>> \in links \/ <<q, p>> \in links

\* loadLocalGroups of an edit, whose save comes later.
BeginEdit(p) ==
    /\ p \in Overlapping /\ held[p] = Idle /\ db[p] # NoGroup
    /\ held' = [held EXCEPT ![p] = [doing |-> "edit", base |-> Loaded(db[p], p)]]
    /\ UNCHANGED <<db, net, links, used, delegated>>

Saves(p, g, rest, id) ==
    /\ db' = [db EXCEPT ![p] = g]
    /\ held' = rest
    /\ used' = used \cup {id}
    /\ UNCHANGED <<net, links>>

\* What an edit of p can work on: the copy it loads, or one it loaded before,
\* each with the operations in progress once the edit has saved.
Bases(p) == (IF db[p] = NoGroup THEN {} ELSE {<<Loaded(db[p], p), held>>})
            \cup (IF held[p] \in Edit
                    THEN {<<held[p].base, [held EXCEPT ![p] = Idle]>>} ELSE {})

(* updateLocalGroupProfile, addLocalGroupChannel, renameLocalGroupChannel, *)
(* deleteLocalGroupChannel.                                                *)
UpdateGroup(p) ==
    \E b \in Bases(p), id \in Ids \ used :
        /\ canManageLocalGroup(b[1], p)
        /\ Saves(p, Profiled(b[1], p, id), b[2], id)
        /\ UNCHANGED delegated

SetAdministrator(target) ==
    \E b \in Bases(Owner), id \in Ids \ used, administrator \in BOOLEAN :
        LET g == Appointed(b[1], target, administrator, id) IN
        /\ CanAppoint(b[1], Owner, target)
        /\ Saves(Owner, g, b[2], id)
        /\ delegated' = delegated \cup ({g.epoch} \X g.admins)

RemoveMember(p, target) ==
    \E b \in Bases(p), id \in Ids \ used :
        LET g == Removed(b[1], p, target, id) IN
        /\ CanRemove(b[1], p, target)
        /\ Saves(p, g, b[2], id)
        /\ delegated' = IF p = Owner /\ target \in b[1].admins
                          THEN delegated \cup ({g.epoch} \X g.admins) ELSE delegated

RepairAliases ==
    \E b \in Bases(Owner), id \in Ids \ used :
        /\ b[1].members \cap Aliases # {}
        /\ Saves(Owner, AliasesRemoved(b[1], b[1].members \cap Aliases, id), b[2], id)
        /\ UNCHANGED delegated

(* A group invite of creator c that joiner j accepts: the creator adds the *)
(* member and sends its copy, the joiner stores it or merges it into the   *)
(* one it has (sendDecision and receive of the invite service).            *)
Join(c, j) ==
    \E b \in Bases(c), id \in Ids \ used :
        LET g == Added(b[1], c, j, id)
            s == [g EXCEPT !.members = @ \cup {Owner, c, j}]
        IN  /\ c # j /\ (db[j] = NoGroup \/ Rejoin) /\ CanAdd(b[1], c, j)
            /\ db' = [db EXCEPT ![c] = g,
                                ![j] = IF db[j] = NoGroup THEN s
                                       ELSE mergeLocalGroupManifest(Loaded(db[j], j), s, c, j)]
            /\ held' = b[2]
            /\ used' = used \cup {id}
            /\ UNCHANGED <<net, links, delegated>>

\* deleteLocalGroup, called by the user.
Leave(p) ==
    /\ p \in MayLeave /\ db[p] # NoGroup
    /\ db' = [db EXCEPT ![p] = NoGroup]
    /\ UNCHANGED <<held, net, links, used, delegated>>

----------------------------------------------------------------------------
Send(m) ==
    /\ Cardinality(net) < MaxNet
    /\ net' = net \cup {m}
    /\ UNCHANGED <<db, held, links, used, delegated>>

(* sendGroupMembership: on a new connection, after a change, on a history  *)
(* request and as the reply to a snapshot.                                 *)
SendGroupMembership(p, q) ==
    /\ db[p] # NoGroup /\ p # q /\ Linked(p, q)
    /\ LET g == Loaded(db[p], p) IN
       /\ canManageLocalGroup(g, p) /\ q \in g.members
       /\ Send([kind |-> "snapshot", from |-> p, to |-> q, group |-> g])

(* sendRevocations: whoever knows that a connected peer was removed sends  *)
(* it the certificates that name it, and nothing else.                     *)
SendRevocations(p, q) ==
    /\ db[p] # NoGroup /\ p # q /\ Linked(p, q)
    /\ \E c \in db[p].certs :
        /\ c.target = q
        /\ Send([kind |-> "revocation", from |-> p, to |-> q, cert |-> c])

(* acceptMembership that meets no other operation between its two loads.   *)
ReceiveMembership(m) ==
    /\ m \in Snapshot /\ db[m.to] # NoGroup
    /\ net' = net \ {m}
    /\ db' = [db EXCEPT ![m.to] = acceptMembership(Loaded(@, m.to), m.group, m.from, m.to)]
    /\ UNCHANGED <<held, links, used, delegated>>

\* acceptMembership up to the call of mergeLocalGroupManifest: the checks ...
CheckMembership(m) ==
    /\ m.to \in Delayed /\ m \in Snapshot /\ held[m.to] = Idle /\ db[m.to] # NoGroup
    /\ AcceptsMembership(Loaded(db[m.to], m.to), m.group, m.from)
    /\ held' = [held EXCEPT ![m.to] = [doing |-> "check", group |-> m.group, from |-> m.from]]
    /\ net' = net \ {m}
    /\ UNCHANGED <<db, links, used, delegated>>

\* ... then the second load, of whatever is stored by now ...
BeginMerge(p) ==
    /\ p \in Overlapping /\ held[p] \in Check /\ db[p] # NoGroup
    /\ held' = [held EXCEPT ![p] = [doing |-> "merge", base |-> Loaded(db[p], p),
                                    group |-> held[p].group, from |-> held[p].from]]
    /\ UNCHANGED <<db, net, links, used, delegated>>

\* What the second load of a merge at p finds, or has found.
MergeBases(p) ==
    IF held[p] \in Merge THEN {held[p].base}
    ELSE IF held[p] \in Check /\ db[p] # NoGroup THEN {Loaded(db[p], p)} ELSE {}

\* ... and the save that follows, whatever happened to the copy meanwhile.
EndMerge(p) ==
    /\ \E b \in MergeBases(p) :
          db' = [db EXCEPT ![p] = mergeLocalGroupManifest(b, held[p].group, held[p].from, p)]
    /\ held' = [held EXCEPT ![p] = Idle]
    /\ UNCHANGED <<net, links, used, delegated>>

\* mergeLocalGroupManifest throws: the copy was deleted after the checks.
AbandonMerge(p) ==
    /\ held[p] \in Check /\ db[p] = NoGroup
    /\ held' = [held EXCEPT ![p] = Idle]
    /\ UNCHANGED <<db, net, links, used, delegated>>

(* applyGroupRevocationCertificate.  A certificate is only ever sent to    *)
(* its target, which deletes its copy.                                     *)
ReceiveRevocation(m) ==
    /\ m \in Revocation /\ db[m.to] # NoGroup
    /\ net' = net \ {m}
    /\ db' = [db EXCEPT ![m.to] =
                IF verifyGroupRevocationCertificate(m.cert, Loaded(@, m.to), FALSE)
                  THEN NoGroup ELSE @]
    /\ UNCHANGED <<held, links, used, delegated>>

\* A message that arrives where there is no copy, or never.
Lose(m) ==
    /\ net' = net \ {m}
    /\ UNCHANGED <<db, held, links, used, delegated>>

(* The channel of p and q closes, with what it carried.                    *)
Disconnect(p, q) ==
    /\ <<p, q>> \in Churn \cap links
    /\ links' = links \ {<<p, q>>}
    /\ net' = {m \in net : {m.from, m.to} # {p, q}}
    /\ UNCHANGED <<db, held, used, delegated>>

(* groupRendezvousId and isTrustedRemote: two peers find each other under  *)
(* the same secret, when each lists the other as a member or as removed.   *)
CanMeet(p, q) ==
    /\ db[p] # NoGroup /\ db[q] # NoGroup
    /\ db[p].secret = db[q].secret
    /\ p \in db[q].members \cup db[q].removed
    /\ q \in db[p].members \cup db[p].removed

Connect(p, q) ==
    /\ p < q /\ <<p, q>> \notin links /\ CanMeet(p, q)
    /\ links' = links \cup {<<p, q>>}
    /\ UNCHANGED <<db, held, net, used, delegated>>

----------------------------------------------------------------------------
LocalEdit(p) ==
    \/ BeginEdit(p)
    \/ UpdateGroup(p)
    \/ \E t \in Peers : RemoveMember(p, t)
    \/ \E j \in Peers : Join(p, j)
    \/ Leave(p)

MergeStep(p) ==
    \/ BeginMerge(p)
    \/ EndMerge(p)
    \/ AbandonMerge(p)

OwnerEdit ==
    \/ \E t \in Peers : SetAdministrator(t)
    \/ RepairAliases

Exchange(p, q) ==
    \/ SendGroupMembership(p, q)
    \/ SendRevocations(p, q)
    \/ Disconnect(p, q)
    \/ Connect(p, q)

Receive(m) ==
    \/ ReceiveMembership(m)
    \/ CheckMembership(m)
    \/ ReceiveRevocation(m)
    \/ Lose(m)

Next ==
    \/ \E p \in Peers : LocalEdit(p) \/ MergeStep(p)
    \/ OwnerEdit
    \/ \E p, q \in Peers : Exchange(p, q)
    \/ \E m \in net : Receive(m)

Spec == Init /\ [][Next]_vars

----------------------------------------------------------------------------
(* Properties.                                                             *)

Copies == {p \in Peers : db[p] # NoGroup}

(* A removal is final: no snapshot, older or concurrent, no invite and no  *)
(* edit takes a tombstone out of a stored copy or lists the removed peer   *)
(* as a member again (remove-wins of resolveLocalGroupManifest).           *)
TombstonesStay(P) ==
    \A p \in P : db[p] # NoGroup /\ db'[p] # NoGroup =>
        /\ db[p].removed \subseteq db'[p].removed
        /\ db'[p].members \cap db[p].removed = {}

(* It is final on every replica whose own operations do not overlap,       *)
(* whatever happens on the others.                                         *)
RemoveWins == [][TombstonesStay(Peers \ Overlapping)]_vars

(* The inductive invariant behind RemoveWins.  Nothing that is stored or   *)
(* being worked on names the owner as removed, because loading a replica   *)
(* would forget such a tombstone; no member carries one; and whoever edits *)
(* as an administrator is a member.                                        *)
Sound(g) ==
    /\ Owner \notin g.removed \cup Targets(g.certs)
    /\ g.members \cap g.removed = {}

HeldSound(h) ==
    \A p \in Peers : h[p] \in Edit \cup Merge =>
        /\ p \in Overlapping
        /\ Sound(h[p].base)
        /\ h[p].base.admins \subseteq h[p].base.members

RemovalInv ==
    /\ HeldSound(held)
    /\ \A p \in Copies : Sound(db[p])

(* Whoever a replica takes for an administrator in some epoch was          *)
(* appointed by the owner in that very epoch, however snapshots of several *)
(* epochs were merged; and the owner is never listed.                      *)
OnlyOwnerDelegates ==
    \A p \in Copies :
        /\ Owner \notin db[p].admins
        /\ \A a \in db[p].admins : <<db[p].epoch, a>> \in delegated

(* Every tombstone in a replica has its certificate, the certificate was   *)
(* issued with authority - by the owner, or by an administrator of its     *)
(* epoch against somebody who was none - and it never names the owner.     *)
Authorized(c) ==
    /\ c.target # Owner
    /\ c.issuer # Owner => /\ <<c.epoch, c.issuer>> \in delegated
                           /\ <<c.epoch, c.target>> \notin delegated

CertifiedRemovals ==
    \A p \in Copies :
        /\ db[p].removed = Targets(db[p].certs)
        /\ \A c \in db[p].certs : Authorized(c)

(* Two copies at one revision of the owner show the same name and          *)
(* channels, in whatever epochs they are.  A revision of an administrator  *)
(* may stand for two contents: when its snapshot is checked in one epoch   *)
(* and merged in a later one, resolveLocalGroupManifest keeps the local    *)
(* metadata but takes the revision.  What must not happen is that a late   *)
(* snapshot relabels what the owner said, so that peers take two contents  *)
(* for one and never repair it.                                            *)
Revision(g) == <<g.ver, g.actor, g.op>>

SameContent(g, h) == g.actor = Owner /\ Revision(g) = Revision(h) => g.meta = h.meta

OwnersRevisionNamesContent == \A p, q \in Copies : SameContent(db[p], db[q])

----------------------------------------------------------------------------
(* What makes these invariants inductive: the same holds of every replica  *)
(* that an operation works on or that is in flight, and of every           *)
(* certificate in one of them or on its way to its target.                 *)

Replicas ==
    {db[p] : p \in Copies}
    \cup {held[p].base : p \in {q \in Peers : held[q] \in Edit \cup Merge}}
    \cup {held[p].group : p \in {q \in Peers : held[q] \in Check \cup Merge}}
    \cup {m.group : m \in net \cap Snapshot}

Issued == (UNION {g.certs : g \in Replicas}) \cup {m.cert : m \in net \cap Revocation}

(* Behind OnlyOwnerDelegates.                                              *)
RolesDelegated(g) ==
    /\ Owner \notin g.admins
    /\ {g.epoch} \X g.admins \subseteq delegated

RoleInv == \A g \in Replicas : RolesDelegated(g)

(* The owner's own copy, when the owner keeps it and its operations do not *)
(* overlap, knows every epoch that was ever named.                         *)
SteadyOwner == Owner \notin Overlapping \cup MayLeave

EpochInv ==
    /\ db[Owner] # NoGroup
    /\ \A g \in Replicas : g.epoch <= db[Owner].epoch
    /\ \A c \in Issued : c.epoch <= db[Owner].epoch
    /\ \A d \in delegated : d[1] <= db[Owner].epoch /\ d[2] # Owner

(* An administrator of the replica's epoch is listed, or was removed: so   *)
(* whoever is a member and not listed was not appointed in that epoch.     *)
Enrolled(g) ==
    \A a \in Peers : <<g.epoch, a>> \in delegated =>
        a \in g.removed \/ a \in g.members \cap g.admins

(* A replica has one certificate for each of its tombstones.               *)
Certified(g) ==
    /\ g.removed = Targets(g.certs)
    /\ \A c, d \in g.certs : c.target = d.target => c = d

(* A removal is issued once, and its certificate goes to its target only.  *)
CertificateInv ==
    /\ \A g \in Replicas : Enrolled(g) /\ Certified(g)
    /\ \A c \in Issued :
          /\ Authorized(c) /\ c.id \in used
          /\ \A d \in Issued : c.target = d.target /\ c.id = d.id => c = d
    /\ \A m \in net \cap Revocation : m.cert.target = m.to

(* The owner's copy is never behind a revision it drew, and whoever is in  *)
(* a later epoch than a replica with such a revision has a newer one: so a *)
(* manifest of an older epoch that wins against a replica, and is then     *)
(* stored under a revision that is not that of its content, has a revision *)
(* of an administrator.                                                    *)
ContentInv ==
    /\ \A g, h \in Replicas : SameContent(g, h)
    /\ \A g \in Replicas : g.op \in used
    /\ \A g \in Replicas : g.actor = Owner =>
          /\ g.ver <= db[Owner].ver
          /\ \A h \in Replicas : h.epoch > g.epoch => h.ver > g.ver

=============================================================================
