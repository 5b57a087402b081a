--------------------------- MODULE GroupManifest ---------------------------
(***************************************************************************)
(* The group manifest of apps/web/src/services/offline/social-storage.ts   *)
(* and the checks of apps/web/src/chat/GroupChatService.ts: what a replica *)
(* of a group is, how revisions and revocation certificates are ordered    *)
(* and merged, when a manifest or a certificate of another peer is         *)
(* believed, and what each local edit makes of a replica.                  *)
(*                                                                         *)
(* A peer identifier is a number, so that localeCompare on identifiers is  *)
(* "<".  Name, avatar and channels are one value, meta: the identifier of  *)
(* the operation that last changed them.  An operation has one identifier  *)
(* that stands for the random UUIDs it draws (manifestOperationId, the     *)
(* messageId of its certificate, the rendezvous secret).  Signatures are   *)
(* those of honest peers and always verify; what is modelled is which      *)
(* signer is believed.  removed stands for removedPeerIds and              *)
(* removedMembers, which every operation changes together.  grants holds   *)
(* the administrators whose delegation of the replica's own epoch is       *)
(* stored: delegations of other epochs are dropped by every write.         *)
(***************************************************************************)
EXTENDS Naturals, FiniteSets

CONSTANTS
    Peers,           \* identifiers of the peers
    Owner,           \* the peer that created the group
    NoGroup,         \* a peer without a copy of the group
    MaxOps,          \* BOUND: identifiers of operations, hence local edits
    MaxMembers,      \* MAX_GROUP_MEMBERS
    MaxRevocations   \* MAX_GROUP_REVOCATIONS

ASSUME PeersAssumption == Peers \subseteq Nat /\ Owner \in Peers
ASSUME BoundsAssumption == /\ MaxOps \in Nat
                           /\ MaxMembers \in Nat \ {0}
                           /\ MaxRevocations \in Nat \ {0}

\* 0 is the identifier of everything done before the first edit.
Ids == 0..MaxOps

Certificate == [target : Peers, issuer : Peers, mver : Nat, epoch : Nat, id : Ids]

Replica == [members : SUBSET Peers, admins : SUBSET Peers, grants : SUBSET Peers,
            removed : SUBSET Peers, certs : SUBSET Certificate,
            mver : Nat, ver : Nat, actor : Peers, op : Ids, epoch : Nat,
            rver : Nat, secret : Ids, meta : Ids]

ASSUME NoGroupAssumption == NoGroup \notin Replica

----------------------------------------------------------------------------
(* Orders and merges.                                                      *)

Larger(a, b) == IF a > b THEN a ELSE b

OwnerPriority(g) == IF g.actor = Owner THEN 1 ELSE 0

\* Mutant: the version of the manifest is not compared.
RevisionByIdentifier(l, r) ==
    \/ OwnerPriority(l) > OwnerPriority(r)
    \/ OwnerPriority(l) = OwnerPriority(r) /\ l.op > r.op

(* compareGroupManifestRevisions(l, r) > 0.  The owner wins a tie.         *)
NewerRevision(l, r) ==
    \/ l.ver > r.ver
    \/ /\ l.ver = r.ver
       /\ \/ OwnerPriority(l) > OwnerPriority(r)
          \/ /\ OwnerPriority(l) = OwnerPriority(r)
             /\ l.actor > r.actor \/ (l.actor = r.actor /\ l.op > r.op)

NewerCertificate(c, d) == c.mver > d.mver \/ (c.mver = d.mver /\ c.id > d.id)

Targets(certs) == {c.target : c \in certs}

(* mergeGroupRevocations: the newest certificate of each target, and of    *)
(* those the first MaxRevocations in the order of the targets.             *)
mergeGroupRevocations(left, right) ==
    LET newest == {c \in left \cup right :
                      \A d \in left \cup right :
                          d.target = c.target /\ d # c => NewerCertificate(c, d)}
    IN  {c \in newest :
            Cardinality({d \in newest : d.target < c.target}) < MaxRevocations}

(* reconcileIdentityMembership, which every load runs: the owner is never  *)
(* removed, every other tombstone hides its member, and the local identity *)
(* p belongs to the group unless it was removed.                           *)
Loaded(g, p) ==
    LET removed == (g.removed \cup Targets(g.certs)) \ {Owner}
        members == g.members \ removed
        admins  == (g.admins \ {Owner}) \cap members
    IN  [g EXCEPT !.removed = removed,
                  !.admins  = admins,
                  !.grants  = @ \cap admins,
                  !.members = IF p \in removed THEN members ELSE members \cup {p}]

----------------------------------------------------------------------------
(* What a peer believes.                                                   *)

canManageLocalGroup(g, p) == p = Owner \/ p \in g.admins

(* verifyGroupRevocationCertificate.  A certificate of an administrator    *)
(* carries the delegation of its own epoch; when that is the epoch of the  *)
(* replica, the replica must also list the issuer.                         *)
verifyGroupRevocationCertificate(c, g, allowHistorical) ==
    /\ c.target # Owner
    /\ c.issuer # Owner =>
          /\ c.target \notin g.admins
          /\ allowHistorical \/ g.epoch <= c.epoch
          /\ g.epoch = c.epoch => c.issuer \in g.admins

(* validateRemovalAuthority: a certificate is already known or verifies,   *)
(* and every new tombstone has one.                                        *)
validateRemovalAuthority(g, s) ==
    /\ Owner \in s.members
    /\ \A c \in s.certs : c \in g.certs \/ verifyGroupRevocationCertificate(c, g, TRUE)
    /\ Owner \notin s.removed
    /\ s.removed \subseteq g.removed \cup Targets(s.certs)

(* validateMergedManifestRevocations, run again on the way to the merge.   *)
validateMergedManifestRevocations(g, s, sender) ==
    /\ canManageLocalGroup(g, sender)
    /\ \A c \in s.certs :
          /\ c.target # Owner
          /\ c \in g.certs \/ verifyGroupRevocationCertificate(c, g, TRUE)
          /\ c.issuer # Owner => c.target \notin g.admins
    /\ s.removed \subseteq g.removed \cup Targets(g.certs) \cup Targets(s.certs)

(* The early returns of resolveLocalGroupManifest that keep the replica.   *)
Resolvable(g, s, sender) ==
    LET incoming == s.removed \cup Targets(s.certs)
        previous == g.removed \cup Targets(g.certs)
    IN  /\ canManageLocalGroup(g, sender)
        /\ Owner \in g.members /\ Owner \in s.members
        /\ s.epoch > g.epoch => sender = Owner
        /\ incoming \subseteq previous \cup Targets(s.certs)
        /\ Owner \notin incoming
        /\ sender # Owner => g.admins \cap incoming = {}

\* Mutant: the tombstones of the incoming manifest replace the local ones.
IncomingTombstones(g, s, certs) == s.removed

\* Tombstones are only ever collected.
MergedTombstones(g, s, certs) == g.removed \cup s.removed \cup Targets(certs)

\* The newer epoch decides who is listed; within an epoch additions add up.
MergedMembers(g, s) ==
    IF s.epoch > g.epoch THEN s.members
    ELSE IF s.epoch < g.epoch THEN g.members
    ELSE g.members \cup s.members

\* Mutant: roles are merged like members.
AllRoles(g, s, winner) == g.admins \cup s.admins

\* The newer epoch decides the roles, and within an epoch the newer revision.
MergedRoles(g, s, winner) ==
    IF s.epoch > g.epoch THEN s.admins
    ELSE IF s.epoch < g.epoch THEN g.admins
    ELSE winner.admins

(* The rest of resolveLocalGroupManifest.  A manifest of an older epoch    *)
(* sent by an administrator keeps the local metadata and roles, although   *)
(* its revision may win.                                                   *)
Merged(g, s0, sender) ==
    LET s == IF s0.epoch < g.epoch /\ sender # Owner
               THEN [s0 EXCEPT !.meta = g.meta, !.admins = g.admins]
               ELSE s0
        winner  == IF NewerRevision(s, g) \/ s.epoch > g.epoch THEN s ELSE g
        certs   == mergeGroupRevocations(g.certs, s.certs)
        removed == MergedTombstones(g, s, certs)
        members == MergedMembers(g, s) \ removed
        epoch   == Larger(g.epoch, s.epoch)
        admins  == (MergedRoles(g, s, winner) \cap members) \ {Owner}
        grants  == {a \in admins : \/ g.epoch = epoch /\ a \in g.grants
                                   \/ s.epoch = epoch /\ a \in s.grants}
        rendezvous == IF s.rver > g.rver THEN s ELSE IF s.rver < g.rver THEN g ELSE winner
    IN  [members |-> members, admins |-> admins, grants |-> grants,
         removed |-> removed, certs |-> certs,
         mver |-> Larger(g.mver, s.mver), ver |-> winner.ver,
         actor |-> winner.actor, op |-> winner.op, epoch |-> epoch,
         rver |-> Larger(g.rver, s.rver), secret |-> rendezvous.secret,
         meta |-> winner.meta]

resolveLocalGroupManifest(g, s, sender) ==
    IF Resolvable(g, s, sender) THEN Merged(g, s, sender) ELSE g

(* mergeLocalGroupManifest at peer p: a merge that leaves p out of the     *)
(* group deletes the local copy.                                           *)
mergeLocalGroupManifest(g, s, sender, p) ==
    LET merged == resolveLocalGroupManifest(g, s, sender)
    IN  IF ~validateMergedManifestRevocations(g, s, sender) THEN g
        ELSE IF p \in merged.members THEN merged
        ELSE NoGroup

(* What acceptMembership asks of a snapshot before it is merged: an        *)
(* administrator may only speak within the epoch and the roles the replica *)
(* knows.                                                                  *)
AcceptsMembership(g, s, sender) ==
    /\ canManageLocalGroup(g, sender)
    /\ sender # Owner => s.epoch = g.epoch /\ s.admins = g.admins
    /\ validateRemovalAuthority(g, s)

acceptMembership(g, s, sender, p) ==
    IF AcceptsMembership(g, s, sender) THEN mergeLocalGroupManifest(g, s, sender, p) ELSE g

----------------------------------------------------------------------------
(* The local edits: what identity p makes of the replica g it loaded with  *)
(* an operation named id, and when the operation does not throw.           *)

\* Mutant: the revision is named by an identifier that was never drawn.
RevisionOffByOne(g, p, id) ==
    [g EXCEPT !.ver = Larger(1, @) + 1, !.actor = p, !.op = id + 1]

nextGroupManifestRevision(g, p, id) ==
    [g EXCEPT !.ver = Larger(1, @) + 1, !.actor = p, !.op = id]

(* updateLocalGroupProfile and the channel operations.                     *)
Profiled(g, p, id) == [nextGroupManifestRevision(g, p, id) EXCEPT !.meta = id]

CanAdd(g, p, member) ==
    /\ canManageLocalGroup(g, p)
    /\ member \notin g.removed
    /\ member \in g.members \/ Cardinality(g.members) < MaxMembers

(* addLocalGroupMember.                                                    *)
Added(g, p, member, id) ==
    [nextGroupManifestRevision(g, p, id) EXCEPT !.members = @ \cup {member}, !.mver = @ + 1]

CanAppoint(g, p, target) ==
    p = Owner /\ target # Owner /\ target \in g.members /\ g.admins \subseteq g.members

(* setLocalGroupAdministrator: the epoch moves on and every remaining      *)
(* administrator gets a delegation of the new epoch.                       *)
Appointed(g, target, administrator, id) ==
    LET admins == IF administrator THEN g.admins \cup {target} ELSE g.admins \ {target}
    IN  [nextGroupManifestRevision(g, Owner, id) EXCEPT
            !.admins = admins, !.grants = admins, !.epoch = @ + 1]

\* Mutant: an administrator may remove another one.
CanRemoveAnyone(g, p, target) ==
    canManageLocalGroup(g, p) /\ target # Owner /\ target \in g.members

CanRemove(g, p, target) ==
    /\ canManageLocalGroup(g, p)
    /\ target # Owner /\ target \in g.members
    /\ p # Owner => target \notin g.admins /\ p \in g.grants
    /\ target \in Targets(g.certs) \/ Cardinality(g.certs) < MaxRevocations

(* removeLocalGroupMember, with createGroupRevocationCertificate: removing *)
(* an administrator moves the epoch on; every removal rotates the secret.  *)
Removed(g, p, target, id) ==
    LET demotes == target \in g.admins
        epoch   == IF demotes THEN g.epoch + 1 ELSE g.epoch
        admins  == g.admins \ {target}
        cert    == [target |-> target, issuer |-> p, mver |-> g.mver + 1,
                    epoch |-> epoch, id |-> id]
    IN  [nextGroupManifestRevision(g, p, id) EXCEPT
            !.members = @ \ {target}, !.admins = admins,
            !.grants  = IF demotes THEN admins ELSE @ \ {target},
            !.removed = @ \cup {target},
            !.certs   = mergeGroupRevocations(@, {cert}),
            !.mver    = @ + 1, !.epoch = epoch, !.rver = @ + 1, !.secret = id]

(* repairLocalIdentityAliases, by the owner: members that carry its name   *)
(* are removed together, without a new epoch or a new secret.              *)
AliasesRemoved(g, aliases, id) ==
    [nextGroupManifestRevision(g, Owner, id) EXCEPT
        !.members = @ \ aliases,
        !.removed = @ \cup aliases,
        !.mver    = @ + 1,
        !.certs   = mergeGroupRevocations(@,
                        {[target |-> a, issuer |-> Owner, mver |-> g.mver + 1,
                          epoch |-> g.epoch, id |-> id] : a \in aliases})]
=============================================================================
