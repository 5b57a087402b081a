---------------------------- MODULE GroupProofs ----------------------------
(***************************************************************************)
(* What holds of GroupReplication for any peers and any bounds: the state  *)
(* keeps its type; on a replica whose operations do not overlap a removal  *)
(* is final; roles come from the owner; removals are certified; and a      *)
(* revision of the owner names one content.                                *)
(***************************************************************************)
EXTENDS GroupReplication, FiniteSetTheorems, TLAPS

(* The merge of two sets of certificates adds none.                        *)
LEMMA MergeAddsNothing ==
    ASSUME NEW left, NEW right
    PROVE  mergeGroupRevocations(left, right) \subseteq left \cup right
BY DEF mergeGroupRevocations

(* Loading keeps a replica well formed.                                    *)
LEMMA LoadedType ==
    ASSUME NEW g \in Replica, NEW p \in Peers
    PROVE  Loaded(g, p) \in Replica
<1>1. Targets(g.certs) \subseteq Peers
  BY DEF Targets, Replica, Certificate
<1> QED
  BY <1>1 DEF Loaded, Replica

(* The edits of a well formed replica make a well formed replica.          *)
LEMMA RevisionType ==
    ASSUME NEW g \in Replica, NEW p \in Peers, NEW id \in Ids
    PROVE  nextGroupManifestRevision(g, p, id) \in Replica
<1>1. Larger(1, g.ver) + 1 \in Nat
  BY DEF Replica, Larger
<1> QED
  BY <1>1 DEF nextGroupManifestRevision, Replica

\* updateLocalGroupProfile and the channel operations make a replica.
LEMMA ProfiledType ==
    ASSUME NEW g \in Replica, NEW p \in Peers, NEW id \in Ids
    PROVE  Profiled(g, p, id) \in Replica
BY RevisionType DEF Profiled, Replica

\* addLocalGroupMember makes a replica.
LEMMA AddedType ==
    ASSUME NEW g \in Replica, NEW p \in Peers, NEW j \in Peers, NEW id \in Ids
    PROVE  Added(g, p, j, id) \in Replica
<1> DEFINE h == nextGroupManifestRevision(g, p, id)
           m == h.members \cup {j}
           v == h.mver + 1
<1>1. h \in Replica
  BY RevisionType
<1>2. m \subseteq Peers /\ v \in Nat
  BY <1>1 DEF Replica
<1> HIDE DEF h, m, v
<1>3. [h EXCEPT !.members = m, !.mver = v] \in Replica
  BY <1>1, <1>2 DEF Replica
<1> QED
  BY <1>3 DEF Added, h, m, v

\* setLocalGroupAdministrator makes a replica.
LEMMA AppointedType ==
    ASSUME NEW g \in Replica, NEW t \in Peers, NEW b \in BOOLEAN, NEW id \in Ids
    PROVE  Appointed(g, t, b, id) \in Replica
<1> DEFINE h == nextGroupManifestRevision(g, Owner, id)
           admins == IF b THEN g.admins \cup {t} ELSE g.admins \ {t}
<1>1. h \in Replica
  BY RevisionType, PeersAssumption
<1>2. admins \subseteq Peers
  BY DEF Replica
<1> HIDE DEF h, admins
<1> DEFINE e == h.epoch + 1
           h1 == [h EXCEPT !.admins = admins, !.grants = admins]
<1>3. e \in Nat
  BY <1>1 DEF Replica
<1>4. h1 \in Replica
  BY <1>1, <1>2 DEF Replica
<1> HIDE DEF e, h1
<1>5. [h1 EXCEPT !.epoch = e] \in Replica
  BY <1>3, <1>4 DEF Replica
<1> QED
  BY <1>5 DEF Appointed, h, admins, e, h1

\* removeLocalGroupMember makes a replica.
LEMMA RemovedType ==
    ASSUME NEW g \in Replica, NEW p \in Peers, NEW t \in Peers, NEW id \in Ids
    PROVE  Removed(g, p, t, id) \in Replica
<1> DEFINE h == nextGroupManifestRevision(g, p, id)
           demotes == t \in g.admins
           epoch == IF demotes THEN g.epoch + 1 ELSE g.epoch
           admins == g.admins \ {t}
           cert == [target |-> t, issuer |-> p, mver |-> g.mver + 1,
                    epoch |-> epoch, id |-> id]
           grants == IF demotes THEN admins ELSE h.grants \ {t}
           certs == mergeGroupRevocations(h.certs, {cert})
<1>1. h \in Replica
  BY RevisionType
<1>2. admins \subseteq Peers /\ epoch \in Nat /\ cert \in Certificate
  BY DEF Replica, Certificate
<1>3. grants \subseteq Peers
  BY <1>1, <1>2 DEF Replica
<1>4. certs \subseteq Certificate
  BY <1>1, <1>2, MergeAddsNothing DEF Replica
<1> HIDE DEF h, demotes, epoch, admins, cert, grants, certs
<1> DEFINE m == h.members \ {t}
           r == h.removed \cup {t}
           v == h.mver + 1
           w == h.rver + 1
           h1 == [h EXCEPT !.members = m, !.admins = admins]
           h2 == [h1 EXCEPT !.grants = grants, !.removed = r]
           h3 == [h2 EXCEPT !.certs = certs, !.mver = v]
           h4 == [h3 EXCEPT !.epoch = epoch, !.rver = w]
<1>5. m \subseteq Peers /\ r \subseteq Peers /\ v \in Nat /\ w \in Nat
  BY <1>1 DEF Replica
<1> HIDE DEF m, r, v, w
<1>6. h1 \in Replica
  BY <1>1, <1>2, <1>5 DEF Replica
<1> HIDE DEF h1
<1>7. h2 \in Replica
  BY <1>3, <1>5, <1>6 DEF Replica
<1> HIDE DEF h2
<1>8. h3 \in Replica
  BY <1>4, <1>5, <1>7 DEF Replica
<1> HIDE DEF h3
<1>9. h4 \in Replica
  BY <1>2, <1>5, <1>8 DEF Replica
<1> HIDE DEF h4
<1>10. [h4 EXCEPT !.secret = id] \in Replica
  BY <1>9 DEF Replica
<1> QED
  BY <1>10 DEF Removed, h, demotes, epoch, admins, cert, grants, certs,
               m, r, v, w, h1, h2, h3, h4

\* repairLocalIdentityAliases makes a replica.
LEMMA AliasesRemovedType ==
    ASSUME NEW g \in Replica, NEW aliases \in SUBSET Peers, NEW id \in Ids
    PROVE  AliasesRemoved(g, aliases, id) \in Replica
<1> DEFINE h == nextGroupManifestRevision(g, Owner, id)
           new == {[target |-> a, issuer |-> Owner, mver |-> g.mver + 1,
                    epoch |-> g.epoch, id |-> id] : a \in aliases}
           certs == mergeGroupRevocations(h.certs, new)
<1>1. h \in Replica
  BY RevisionType, PeersAssumption
<1>2. new \subseteq Certificate
  BY PeersAssumption DEF Replica, Certificate
<1>3. certs \subseteq Certificate
  BY <1>1, <1>2, MergeAddsNothing DEF Replica
<1> HIDE DEF h, new, certs
<1> DEFINE m == h.members \ aliases
           r == h.removed \cup aliases
           v == h.mver + 1
           h1 == [h EXCEPT !.members = m, !.removed = r]
<1>4. m \subseteq Peers /\ r \subseteq Peers /\ v \in Nat
  BY <1>1 DEF Replica
<1> HIDE DEF m, r, v
<1>5. h1 \in Replica
  BY <1>1, <1>4 DEF Replica
<1> HIDE DEF h1
<1>6. [h1 EXCEPT !.mver = v, !.certs = certs] \in Replica
  BY <1>3, <1>4, <1>5 DEF Replica
<1> QED
  BY <1>6 DEF AliasesRemoved, h, new, certs, m, r, v, h1

(* A merge of two well formed replicas is well formed.                     *)
LEMMA MergedType ==
    ASSUME NEW g \in Replica, NEW s0 \in Replica, NEW sender \in Peers
    PROVE  Merged(g, s0, sender) \in Replica
<1> DEFINE s == IF s0.epoch < g.epoch /\ sender # Owner
                  THEN [s0 EXCEPT !.meta = g.meta, !.admins = g.admins]
                  ELSE s0
           winner == IF NewerRevision(s, g) \/ s.epoch > g.epoch THEN s ELSE g
           certs == mergeGroupRevocations(g.certs, s.certs)
           removed == MergedTombstones(g, s, certs)
           members == MergedMembers(g, s) \ removed
           epoch == Larger(g.epoch, s.epoch)
           admins == (MergedRoles(g, s, winner) \cap members) \ {Owner}
           grants == {a \in admins : \/ g.epoch = epoch /\ a \in g.grants
                                     \/ s.epoch = epoch /\ a \in s.grants}
           rendezvous == IF s.rver > g.rver THEN s ELSE IF s.rver < g.rver THEN g ELSE winner
<1>1. s \in Replica
  BY DEF Replica
<1> HIDE DEF s
<1>2. winner \in Replica
  BY <1>1
<1> HIDE DEF winner
<1>3. rendezvous \in Replica
  BY <1>1, <1>2
<1> HIDE DEF rendezvous
<1>4. certs \subseteq Certificate
  BY <1>1, MergeAddsNothing DEF Replica
<1> HIDE DEF certs
<1>5. removed \subseteq Peers
  BY <1>1, <1>4 DEF Replica, MergedTombstones, Targets, Certificate
<1> HIDE DEF removed
<1>6. members \subseteq Peers
  BY <1>1 DEF Replica, MergedMembers
<1> HIDE DEF members
<1>7. admins \subseteq Peers /\ grants \subseteq Peers
  BY <1>6
<1> HIDE DEF admins, grants
<1>8. /\ epoch \in Nat
      /\ Larger(g.mver, s.mver) \in Nat
      /\ Larger(g.rver, s.rver) \in Nat
  BY <1>1 DEF Larger, Replica
<1> HIDE DEF epoch
<1>9. [members |-> members, admins |-> admins, grants |-> grants,
       removed |-> removed, certs |-> certs,
       mver |-> Larger(g.mver, s.mver), ver |-> winner.ver,
       actor |-> winner.actor, op |-> winner.op, epoch |-> epoch,
       rver |-> Larger(g.rver, s.rver), secret |-> rendezvous.secret,
       meta |-> winner.meta] \in Replica
  BY <1>1, <1>2, <1>3, <1>4, <1>5, <1>6, <1>7, <1>8 DEF Replica
<1> QED
  BY <1>9 DEF Merged, s, winner, certs, removed, members, epoch, admins, grants, rendezvous

(* So is whatever a peer stores after it was sent a manifest.              *)
LEMMA StoredType ==
    ASSUME NEW g \in Replica, NEW s \in Replica, NEW sender \in Peers, NEW p \in Peers
    PROVE  /\ mergeLocalGroupManifest(g, s, sender, p) \in Replica \cup {NoGroup}
           /\ acceptMembership(g, s, sender, p) \in Replica \cup {NoGroup}
BY MergedType DEF mergeLocalGroupManifest, resolveLocalGroupManifest, acceptMembership

----------------------------------------------------------------------------
(* Type correctness.                                                       *)

(* What an edit works on is a replica, and what stays in progress too.     *)
LEMMA BasesType ==
    ASSUME TypeOK, NEW p \in Peers, NEW b \in Bases(p)
    PROVE  b[1] \in Replica /\ b[2] \in [Peers -> InProgress]
<1>1. CASE db[p] # NoGroup /\ b = <<Loaded(db[p], p), held>>
  BY <1>1, LoadedType DEF TypeOK
<1>2. CASE held[p] \in Edit /\ b = <<held[p].base, [held EXCEPT ![p] = Idle]>>
  BY <1>2 DEF TypeOK, Edit, InProgress
<1> QED
  BY <1>1, <1>2 DEF Bases

(* The initial replica is one, and has its bookkeeping right.              *)
LEMMA InitialType == InitialReplica \in Replica
<1>1. IsFiniteSet(InitialAdmins)
  BY InitialAssumption, FS_Subset
<1>2. Cardinality(InitialMembers) \in Nat /\ Cardinality(InitialAdmins) \in Nat
  BY <1>1, InitialAssumption, FS_CardinalityType
<1>3. 0 \in Ids /\ InitialMembers \subseteq Peers /\ InitialAdmins \subseteq Peers
  BY InitialAssumption, BoundsAssumption DEF Ids
<1> QED
  BY <1>2, <1>3, PeersAssumption DEF InitialReplica, Replica

(* The initial state is well typed.                                        *)
LEMMA GroupTypingInit == Init => TypeOK
<1> SUFFICES ASSUME Init PROVE TypeOK
  OBVIOUS
<1>1. db \in [Peers -> Replica \cup {NoGroup}]
  BY InitialType DEF Init
<1>2. held \in [Peers -> InProgress]
  BY DEF Init, InProgress
<1>3. net \subseteq Snapshot \cup Revocation /\ used \subseteq Ids
  BY BoundsAssumption DEF Init, Ids
<1>4. links \subseteq Peers \X Peers
  BY InitialAssumption DEF Init
<1>5. delegated \subseteq Nat \X Peers
  BY InitialType, InitialAssumption DEF Init, Replica
<1> QED
  BY <1>1, <1>2, <1>3, <1>4, <1>5 DEF TypeOK

(* The save of a well formed replica keeps the types.                      *)
LEMMA SavesType ==
    ASSUME TypeOK, NEW p \in Peers, NEW g \in Replica, NEW id \in Ids,
           NEW rest \in [Peers -> InProgress], Saves(p, g, rest, id),
           delegated' \subseteq Nat \X Peers
    PROVE  TypeOK'
<1>1. db' \in [Peers -> Replica \cup {NoGroup}]
  BY DEF TypeOK, Saves
<1> QED
  BY <1>1 DEF TypeOK, Saves

(* Every local edit keeps the types.                                       *)
LEMMA EditsType ==
    ASSUME TypeOK, NEW p \in Peers, NEW t \in Peers,
           UpdateGroup(p) \/ RemoveMember(p, t) \/ SetAdministrator(t) \/ RepairAliases
    PROVE  TypeOK'
<1>1. CASE UpdateGroup(p)
  <2>1. PICK b \in Bases(p), id \in Ids \ used :
          Saves(p, Profiled(b[1], p, id), b[2], id) /\ UNCHANGED delegated
    BY <1>1 DEF UpdateGroup
  <2> QED
    BY <2>1, BasesType, ProfiledType, SavesType DEF TypeOK
<1>2. CASE RemoveMember(p, t)
  <2>1. PICK b \in Bases(p), id \in Ids \ used :
          /\ Saves(p, Removed(b[1], p, t, id), b[2], id)
          /\ \/ delegated' = delegated
             \/ delegated' = delegated \cup ({Removed(b[1], p, t, id).epoch}
                                               \X Removed(b[1], p, t, id).admins)
    BY <1>2 DEF RemoveMember
  <2>2. Removed(b[1], p, t, id) \in Replica
    BY BasesType, RemovedType
  <2>3. delegated' \subseteq Nat \X Peers
    BY <2>1, <2>2 DEF TypeOK, Replica
  <2> QED
    BY <2>1, <2>2, <2>3, BasesType, SavesType
<1>3. CASE SetAdministrator(t)
  <2>1. PICK b \in Bases(Owner), id \in Ids \ used, a \in BOOLEAN :
          /\ Saves(Owner, Appointed(b[1], t, a, id), b[2], id)
          /\ delegated' = delegated \cup ({Appointed(b[1], t, a, id).epoch}
                                            \X Appointed(b[1], t, a, id).admins)
    BY <1>3 DEF SetAdministrator
  <2>2. Appointed(b[1], t, a, id) \in Replica
    BY BasesType, AppointedType, PeersAssumption
  <2>3. delegated' \subseteq Nat \X Peers
    BY <2>1, <2>2 DEF TypeOK, Replica
  <2> QED
    BY <2>1, <2>2, <2>3, BasesType, SavesType, PeersAssumption
<1>4. CASE RepairAliases
  <2>1. PICK b \in Bases(Owner), id \in Ids \ used :
          /\ Saves(Owner, AliasesRemoved(b[1], b[1].members \cap Aliases, id), b[2], id)
          /\ UNCHANGED delegated
    BY <1>4 DEF RepairAliases
  <2>2. b[1] \in Replica /\ b[1].members \cap Aliases \in SUBSET Peers
    BY BasesType, PeersAssumption DEF Replica
  <2>3. AliasesRemoved(b[1], b[1].members \cap Aliases, id) \in Replica
    BY <2>2, AliasesRemovedType
  <2> QED
    BY <2>1, <2>3, BasesType, SavesType, PeersAssumption DEF TypeOK
<1> QED
  BY <1>1, <1>2, <1>3, <1>4

(* An accepted invite keeps the types.                                     *)
LEMMA JoinType ==
    ASSUME TypeOK, NEW c \in Peers, NEW j \in Peers, Join(c, j)
    PROVE  TypeOK'
<1>1. PICK b \in Bases(c), id \in Ids \ used :
        LET g == Added(b[1], c, j, id)
            s == [g EXCEPT !.members = @ \cup {Owner, c, j}]
        IN  /\ db' = [db EXCEPT ![c] = g,
                                ![j] = IF db[j] = NoGroup THEN s
                                       ELSE mergeLocalGroupManifest(Loaded(db[j], j), s, c, j)]
            /\ held' = b[2]
            /\ used' = used \cup {id}
            /\ UNCHANGED <<net, links, delegated>>
  BY DEF Join
<1> DEFINE g == Added(b[1], c, j, id)
           s == [g EXCEPT !.members = @ \cup {Owner, c, j}]
           x == IF db[j] = NoGroup THEN s
                ELSE mergeLocalGroupManifest(Loaded(db[j], j), s, c, j)
<1>2. g \in Replica
  BY BasesType, AddedType
<1>3. s \in Replica
  BY <1>2, PeersAssumption DEF Replica
<1>4. x \in Replica \cup {NoGroup}
  BY <1>3, LoadedType, StoredType DEF TypeOK
<1>5. db' = [db EXCEPT ![c] = g, ![j] = x]
  BY <1>1
<1> HIDE DEF g, s, x
<1>6. db' \in [Peers -> Replica \cup {NoGroup}]
  BY <1>2, <1>4, <1>5 DEF TypeOK
<1> QED
  BY <1>1, <1>6, BasesType DEF TypeOK

(* What is loaded, left, deleted or forgotten keeps the types.             *)
LEMMA OpenType ==
    ASSUME TypeOK, NEW p \in Peers, BeginEdit(p) \/ Leave(p) \/ MergeStep(p)
    PROVE  TypeOK'
<1>1. CASE BeginEdit(p)
  <2>1. [doing |-> "edit", base |-> Loaded(db[p], p)] \in InProgress
    BY <1>1, LoadedType DEF TypeOK, BeginEdit, Edit, InProgress
  <2> QED
    BY <1>1, <2>1 DEF TypeOK, BeginEdit
<1>2. CASE Leave(p)
  BY <1>2 DEF TypeOK, Leave
<1>3. CASE BeginMerge(p)
  <2>1. /\ held[p].group \in Replica /\ held[p].from \in Peers
        /\ Loaded(db[p], p) \in Replica
    BY <1>3, LoadedType DEF TypeOK, BeginMerge, Check
  <2>2. [doing |-> "merge", base |-> Loaded(db[p], p), group |-> held[p].group,
         from |-> held[p].from] \in InProgress
    BY <2>1 DEF Merge, InProgress
  <2> QED
    BY <1>3, <2>2 DEF TypeOK, BeginMerge
<1>4. CASE EndMerge(p)
  <2>1. PICK b \in MergeBases(p) :
          db' = [db EXCEPT ![p] = mergeLocalGroupManifest(b, held[p].group, held[p].from, p)]
    BY <1>4 DEF EndMerge
  <2>2. b \in Replica /\ held[p].group \in Replica /\ held[p].from \in Peers
    BY LoadedType DEF TypeOK, MergeBases, Check, Merge
  <2>3. mergeLocalGroupManifest(b, held[p].group, held[p].from, p) \in Replica \cup {NoGroup}
    BY <2>2, StoredType
  <2>4. db' \in [Peers -> Replica \cup {NoGroup}]
    BY <2>1, <2>3 DEF TypeOK
  <2>5. held' \in [Peers -> InProgress]
    BY <1>4 DEF TypeOK, EndMerge, InProgress
  <2> QED
    BY <1>4, <2>4, <2>5 DEF TypeOK, EndMerge
<1>5. CASE AbandonMerge(p)
  BY <1>5 DEF TypeOK, AbandonMerge, InProgress
<1> QED
  BY <1>1, <1>2, <1>3, <1>4, <1>5 DEF MergeStep

(* Sending and connecting keep the types.                                  *)
LEMMA ExchangeType ==
    ASSUME TypeOK, NEW p \in Peers, NEW q \in Peers, Exchange(p, q)
    PROVE  TypeOK'
<1>1. CASE SendGroupMembership(p, q)
  <2>1. [kind |-> "snapshot", from |-> p, to |-> q, group |-> Loaded(db[p], p)] \in Snapshot
    BY <1>1, LoadedType DEF TypeOK, SendGroupMembership, Snapshot
  <2> QED
    BY <1>1, <2>1 DEF TypeOK, SendGroupMembership, Send
<1>2. CASE SendRevocations(p, q)
  <2>1. PICK c \in db[p].certs :
          Send([kind |-> "revocation", from |-> p, to |-> q, cert |-> c])
    BY <1>2 DEF SendRevocations
  <2>2. c \in Certificate
    BY <1>2 DEF TypeOK, SendRevocations, Replica
  <2>3. [kind |-> "revocation", from |-> p, to |-> q, cert |-> c] \in Revocation
    BY <2>2 DEF Revocation
  <2> QED
    BY <2>1, <2>3 DEF TypeOK, Send
<1>3. CASE Disconnect(p, q)
  BY <1>3 DEF TypeOK, Disconnect
<1>4. CASE Connect(p, q)
  BY <1>4 DEF TypeOK, Connect
<1> QED
  BY <1>1, <1>2, <1>3, <1>4 DEF Exchange

(* Receiving keeps the types.                                              *)
LEMMA ReceiveType ==
    ASSUME TypeOK, NEW m \in net, Receive(m)
    PROVE  TypeOK'
<1>1. CASE ReceiveMembership(m)
  <2>1. m.to \in Peers /\ m.from \in Peers /\ m.group \in Replica
    BY <1>1 DEF ReceiveMembership, Snapshot
  <2>2. acceptMembership(Loaded(db[m.to], m.to), m.group, m.from, m.to)
          \in Replica \cup {NoGroup}
    BY <1>1, <2>1, LoadedType, StoredType DEF TypeOK, ReceiveMembership
  <2>3. db' \in [Peers -> Replica \cup {NoGroup}]
    BY <1>1, <2>1, <2>2 DEF TypeOK, ReceiveMembership
  <2> QED
    BY <1>1, <2>3 DEF TypeOK, ReceiveMembership
<1>2. CASE CheckMembership(m)
  <2>1. m.to \in Peers /\ m.from \in Peers /\ m.group \in Replica
    BY <1>2 DEF CheckMembership, Snapshot
  <2>2. [doing |-> "check", group |-> m.group, from |-> m.from] \in InProgress
    BY <2>1 DEF Check, InProgress
  <2>3. held' \in [Peers -> InProgress]
    BY <1>2, <2>1, <2>2 DEF TypeOK, CheckMembership
  <2> QED
    BY <1>2, <2>3 DEF TypeOK, CheckMembership
<1>3. CASE ReceiveRevocation(m)
  <2>1. m.to \in Peers
    BY <1>3 DEF ReceiveRevocation, Revocation
  <2>2. db' \in [Peers -> Replica \cup {NoGroup}]
    BY <1>3, <2>1 DEF TypeOK, ReceiveRevocation
  <2> QED
    BY <1>3, <2>2 DEF TypeOK, ReceiveRevocation
<1>4. CASE Lose(m)
  BY <1>4 DEF TypeOK, Lose
<1> QED
  BY <1>1, <1>2, <1>3, <1>4 DEF Receive

(* Every step keeps the types.                                             *)
LEMMA GroupTypingStep == TypeOK /\ [Next]_vars => TypeOK'
<1> SUFFICES ASSUME TypeOK, [Next]_vars PROVE TypeOK'
  OBVIOUS
<1>1. CASE \E p \in Peers : LocalEdit(p) \/ MergeStep(p)
  BY <1>1, EditsType, JoinType, OpenType DEF LocalEdit
<1>2. CASE OwnerEdit
  BY <1>2, EditsType, PeersAssumption DEF OwnerEdit
<1>3. CASE \E p, q \in Peers : Exchange(p, q)
  BY <1>3, ExchangeType
<1>4. CASE \E m \in net : Receive(m)
  BY <1>4, ReceiveType
<1>5. CASE UNCHANGED vars
  BY <1>5 DEF TypeOK, vars
<1> QED
  BY <1>1, <1>2, <1>3, <1>4, <1>5 DEF Next

(* Type correctness of the replicas, the messages and the operations in    *)
(* progress, for any peers, bounds and overlap: in particular every merge  *)
(* stores either a whole replica or none.                                  *)
THEOREM GroupTyping == Spec => []TypeOK
BY GroupTypingInit, GroupTypingStep, PTL DEF Spec

----------------------------------------------------------------------------
(* Removals are final.                                                     *)

\* The replica h keeps the tombstones of g and is sound.
Keeps(g, h) == Sound(h) /\ g.removed \subseteq h.removed

(* Loading keeps them, still hides every removed member, and leaves only   *)
(* members in the administrators' list.                                    *)
LEMMA LoadedKeeps ==
    ASSUME NEW g \in Replica, Sound(g), NEW p \in Peers
    PROVE  /\ Keeps(g, Loaded(g, p))
           /\ Loaded(g, p).admins \subseteq Loaded(g, p).members
<1> DEFINE h == Loaded(g, p)
<1>1. /\ h.removed = (g.removed \cup Targets(g.certs)) \ {Owner}
      /\ h.certs = g.certs
      /\ h.members = IF p \in h.removed THEN g.members \ h.removed
                     ELSE (g.members \ h.removed) \cup {p}
      /\ h.admins = (g.admins \ {Owner}) \cap (g.members \ h.removed)
  BY DEF Loaded, Replica
<1> QED
  BY <1>1 DEF Keeps, Sound

(* Every edit keeps them, given its own checks.                            *)
LEMMA ProfiledKeeps ==
    ASSUME NEW g \in Replica, Sound(g), NEW p \in Peers, NEW id \in Ids
    PROVE  Keeps(g, Profiled(g, p, id))
<1>1. /\ Profiled(g, p, id).removed = g.removed
      /\ Profiled(g, p, id).certs = g.certs
      /\ Profiled(g, p, id).members = g.members
  BY DEF Profiled, nextGroupManifestRevision, Replica
<1> QED
  BY <1>1 DEF Keeps, Sound

\* A member is added only when it carries no tombstone.
LEMMA AddedKeeps ==
    ASSUME NEW g \in Replica, Sound(g), NEW p \in Peers, NEW j \in Peers, NEW id \in Ids,
           CanAdd(g, p, j)
    PROVE  Keeps(g, Added(g, p, j, id))
<1>1. /\ Added(g, p, j, id).removed = g.removed
      /\ Added(g, p, j, id).certs = g.certs
      /\ Added(g, p, j, id).members = g.members \cup {j}
  BY DEF Added, nextGroupManifestRevision, Replica
<1> QED
  BY <1>1 DEF Keeps, Sound, CanAdd

\* A change of roles touches no tombstone.
LEMMA AppointedKeeps ==
    ASSUME NEW g \in Replica, Sound(g), NEW t \in Peers, NEW b \in BOOLEAN, NEW id \in Ids
    PROVE  Keeps(g, Appointed(g, t, b, id))
<1>1. /\ Appointed(g, t, b, id).removed = g.removed
      /\ Appointed(g, t, b, id).certs = g.certs
      /\ Appointed(g, t, b, id).members = g.members
  BY DEF Appointed, nextGroupManifestRevision, Replica
<1> QED
  BY <1>1 DEF Keeps, Sound

\* A removal adds one tombstone, never the owner's.
LEMMA RemovedKeeps ==
    ASSUME NEW g \in Replica, Sound(g), NEW p \in Peers, NEW t \in Peers, NEW id \in Ids,
           CanRemove(g, p, t)
    PROVE  Keeps(g, Removed(g, p, t, id))
<1> DEFINE h == Removed(g, p, t, id)
           cert == [target |-> t, issuer |-> p, mver |-> g.mver + 1,
                    epoch |-> IF t \in g.admins THEN g.epoch + 1 ELSE g.epoch, id |-> id]
<1>1. h.removed = g.removed \cup {t} /\ h.members = g.members \ {t}
  BY DEF Removed, nextGroupManifestRevision, Replica
<1>2. h.certs = mergeGroupRevocations(g.certs, {cert})
  BY DEF Removed, nextGroupManifestRevision, Replica
<1>3. cert.target = t
  OBVIOUS
<1> HIDE DEF h, cert
<1>4. Targets(h.certs) \subseteq Targets(g.certs) \cup {t}
  BY <1>2, <1>3, MergeAddsNothing DEF Targets
<1> QED
  BY <1>1, <1>4 DEF Keeps, Sound, CanRemove, h

\* The removal of aliases adds tombstones, never the owner's.
LEMMA AliasesRemovedKeeps ==
    ASSUME NEW g \in Replica, Sound(g), NEW aliases \in SUBSET Peers, NEW id \in Ids,
           Owner \notin aliases
    PROVE  Keeps(g, AliasesRemoved(g, aliases, id))
<1> DEFINE h == AliasesRemoved(g, aliases, id)
           new == {[target |-> a, issuer |-> Owner, mver |-> g.mver + 1,
                    epoch |-> g.epoch, id |-> id] : a \in aliases}
<1>1. h.removed = g.removed \cup aliases /\ h.members = g.members \ aliases
  BY DEF AliasesRemoved, nextGroupManifestRevision, Replica
<1>2. h.certs = mergeGroupRevocations(g.certs, new)
  BY DEF AliasesRemoved, nextGroupManifestRevision, Replica
<1>3. Targets(new) \subseteq aliases
  BY DEF Targets
<1> HIDE DEF h, new
<1>4. Targets(h.certs) \subseteq Targets(g.certs) \cup aliases
  BY <1>2, <1>3, MergeAddsNothing DEF Targets
<1> QED
  BY <1>1, <1>4 DEF Keeps, Sound, h

(* A merge keeps them: it collects the tombstones of both sides, and       *)
(* nothing is merged that names the owner.                                 *)
LEMMA MergedKeeps ==
    ASSUME NEW g \in Replica, Sound(g), NEW s0 \in Replica, NEW sender \in Peers,
           Resolvable(g, s0, sender)
    PROVE  Keeps(g, Merged(g, s0, sender))
<1> DEFINE s == IF s0.epoch < g.epoch /\ sender # Owner
                  THEN [s0 EXCEPT !.meta = g.meta, !.admins = g.admins]
                  ELSE s0
           h == Merged(g, s0, sender)
           certs == mergeGroupRevocations(g.certs, s.certs)
<1>1. s.removed = s0.removed /\ s.certs = s0.certs
  BY DEF Replica
<1>2. h.certs = certs /\ h.removed = MergedTombstones(g, s, certs)
  BY DEF Merged
<1>3. h.members = MergedMembers(g, s) \ h.removed
  BY DEF Merged
<1> HIDE DEF s, h
<1>4. Targets(certs) \subseteq Targets(g.certs) \cup Targets(s0.certs)
  BY <1>1, MergeAddsNothing DEF Targets
<1> HIDE DEF certs
<1>5. Owner \notin s0.removed \cup Targets(s0.certs)
  BY DEF Resolvable
<1> QED
  BY <1>1, <1>2, <1>3, <1>4, <1>5 DEF Keeps, Sound, MergedTombstones, h

(* So whatever a peer stores after it was sent a manifest keeps them.      *)
LEMMA StoredKeeps ==
    ASSUME NEW g \in Replica, Sound(g), NEW s \in Replica, NEW sender \in Peers, NEW p \in Peers
    PROVE  /\ \/ mergeLocalGroupManifest(g, s, sender, p) = NoGroup
              \/ Keeps(g, mergeLocalGroupManifest(g, s, sender, p))
           /\ \/ acceptMembership(g, s, sender, p) = NoGroup
              \/ Keeps(g, acceptMembership(g, s, sender, p))
<1>1. Keeps(g, g)
  BY DEF Keeps
<1>2. Keeps(g, resolveLocalGroupManifest(g, s, sender))
  BY <1>1, MergedKeeps DEF resolveLocalGroupManifest
<1> QED
  BY <1>1, <1>2 DEF mergeLocalGroupManifest, acceptMembership

----------------------------------------------------------------------------
\* What a step owes: the invariant, and the tombstones where nothing overlaps.
Kept == RemovalInv' /\ TombstonesStay(Peers \ Overlapping)

\* What the store of p may become.
Stored(p, x) ==
    \/ x = NoGroup
    \/ Sound(x) /\ (p \notin Overlapping /\ db[p] # NoGroup => db[p].removed \subseteq x.removed)

(* A change of one copy that keeps its tombstones keeps the invariant.     *)
LEMMA OneCopy ==
    ASSUME TypeOK, RemovalInv, NEW p \in Peers, NEW x, Stored(p, x),
           db' = [db EXCEPT ![p] = x], HeldSound(held')
    PROVE  Kept
<1>1. \A q \in Peers : q # p => db'[q] = db[q]
  BY DEF TypeOK
<1>2. db'[p] = x
  BY DEF TypeOK
<1>3. TombstonesStay(Peers \ Overlapping)
  BY <1>1, <1>2 DEF TombstonesStay, Stored, Sound, RemovalInv, Copies
<1>4. \A q \in Peers : db'[q] # NoGroup => Sound(db'[q])
  BY <1>1, <1>2 DEF RemovalInv, Copies, Stored
<1>5. RemovalInv'
  BY <1>4 DEF RemovalInv, Copies, Sound, HeldSound
<1> QED
  BY <1>3, <1>5 DEF Kept

(* So does a change of nothing that is stored.                             *)
LEMMA NoCopy ==
    ASSUME RemovalInv, UNCHANGED db, HeldSound(held')
    PROVE  Kept
<1>1. RemovalInv'
  BY DEF RemovalInv, Copies, Sound, HeldSound
<1> QED
  BY <1>1 DEF RemovalInv, Copies, Sound, TombstonesStay, Kept

(* An edit works on a sound replica, and where nothing overlaps on one     *)
(* that carries every tombstone of the stored copy.                        *)
LEMMA BasesSound ==
    ASSUME TypeOK, RemovalInv, NEW p \in Peers, NEW b \in Bases(p)
    PROVE  /\ b[1] \in Replica /\ Sound(b[1]) /\ b[1].admins \subseteq b[1].members
           /\ p \notin Overlapping /\ db[p] # NoGroup => db[p].removed \subseteq b[1].removed
           /\ HeldSound(b[2])
<1>1. CASE db[p] # NoGroup /\ b = <<Loaded(db[p], p), held>>
  <2>1. /\ Keeps(db[p], Loaded(db[p], p))
        /\ Loaded(db[p], p).admins \subseteq Loaded(db[p], p).members
    BY <1>1, LoadedKeeps DEF TypeOK, RemovalInv, Copies
  <2> QED
    BY <1>1, <2>1, BasesType DEF Keeps, RemovalInv
<1>2. CASE held[p] \in Edit /\ b = <<held[p].base, [held EXCEPT ![p] = Idle]>>
  <2>2. p \in Overlapping /\ Sound(b[1]) /\ b[1].admins \subseteq b[1].members
    BY <1>2 DEF RemovalInv, HeldSound
  <2>3. HeldSound(b[2])
    BY <1>2, IdleAssumption DEF RemovalInv, HeldSound, TypeOK
  <2> QED
    BY <2>2, <2>3, BasesType
<1> QED
  BY <1>1, <1>2 DEF Bases

(* Saving an edited copy that keeps what was loaded keeps the invariant.   *)
LEMMA SavesKeeps ==
    ASSUME TypeOK, RemovalInv, NEW p \in Peers, NEW b \in Bases(p),
           NEW x, Keeps(b[1], x), NEW id, Saves(p, x, b[2], id)
    PROVE  Kept
<1>1. Stored(p, x)
  BY BasesSound DEF Keeps, Stored
<1>2. HeldSound(held')
  BY BasesSound DEF Saves
<1> QED
  BY <1>1, <1>2, OneCopy DEF Saves

\* Every local edit keeps the tombstones and the invariant.
LEMMA EditsKeep ==
    ASSUME TypeOK, RemovalInv, NEW p \in Peers, NEW t \in Peers,
           UpdateGroup(p) \/ RemoveMember(p, t) \/ SetAdministrator(t) \/ RepairAliases
    PROVE  Kept
<1>1. CASE UpdateGroup(p)
  <2>1. PICK b \in Bases(p), id \in Ids \ used : Saves(p, Profiled(b[1], p, id), b[2], id)
    BY <1>1 DEF UpdateGroup
  <2>2. b[1] \in Replica /\ Sound(b[1])
    BY BasesSound
  <2>3. Keeps(b[1], Profiled(b[1], p, id))
    BY <2>2, ProfiledKeeps
  <2> QED
    BY <2>1, <2>3, SavesKeeps
<1>2. CASE RemoveMember(p, t)
  <2>1. PICK b \in Bases(p), id \in Ids \ used :
          CanRemove(b[1], p, t) /\ Saves(p, Removed(b[1], p, t, id), b[2], id)
    BY <1>2 DEF RemoveMember
  <2>2. b[1] \in Replica /\ Sound(b[1])
    BY BasesSound
  <2>3. Keeps(b[1], Removed(b[1], p, t, id))
    BY <2>1, <2>2, RemovedKeeps
  <2> QED
    BY <2>1, <2>3, SavesKeeps
<1>3. CASE SetAdministrator(t)
  <2>1. PICK b \in Bases(Owner), id \in Ids \ used, a \in BOOLEAN :
          Saves(Owner, Appointed(b[1], t, a, id), b[2], id)
    BY <1>3 DEF SetAdministrator
  <2>2. b[1] \in Replica /\ Sound(b[1])
    BY BasesSound, PeersAssumption
  <2>3. Keeps(b[1], Appointed(b[1], t, a, id))
    BY <2>2, AppointedKeeps
  <2> QED
    BY <2>1, <2>3, SavesKeeps, PeersAssumption
<1>4. CASE RepairAliases
  <2>1. PICK b \in Bases(Owner), id \in Ids \ used :
          Saves(Owner, AliasesRemoved(b[1], b[1].members \cap Aliases, id), b[2], id)
    BY <1>4 DEF RepairAliases
  <2>2. b[1] \in Replica /\ Sound(b[1])
    BY BasesSound, PeersAssumption
  <2>3. /\ b[1].members \cap Aliases \in SUBSET Peers
        /\ Owner \notin b[1].members \cap Aliases
    BY <2>2, InitialAssumption DEF Replica
  <2>4. Keeps(b[1], AliasesRemoved(b[1], b[1].members \cap Aliases, id))
    BY <2>2, <2>3, AliasesRemovedKeeps
  <2> QED
    BY <2>1, <2>4, SavesKeeps, PeersAssumption
<1> QED
  BY <1>1, <1>2, <1>3, <1>4

(* An accepted invite adds nobody who was removed, and the copy it brings  *)
(* to the joiner is sound or merged.                                       *)
LEMMA JoinKeeps ==
    ASSUME TypeOK, RemovalInv, NEW c \in Peers, NEW j \in Peers, Join(c, j)
    PROVE  Kept
<1>1. PICK b \in Bases(c), id \in Ids \ used :
        LET g == Added(b[1], c, j, id)
            s == [g EXCEPT !.members = @ \cup {Owner, c, j}]
        IN  /\ c # j /\ CanAdd(b[1], c, j)
            /\ db' = [db EXCEPT ![c] = g,
                                ![j] = IF db[j] = NoGroup THEN s
                                       ELSE mergeLocalGroupManifest(Loaded(db[j], j), s, c, j)]
            /\ held' = b[2]
  BY DEF Join
<1> DEFINE g == Added(b[1], c, j, id)
           s == [g EXCEPT !.members = @ \cup {Owner, c, j}]
           x == IF db[j] = NoGroup THEN s
                ELSE mergeLocalGroupManifest(Loaded(db[j], j), s, c, j)
<1>2. c # j /\ CanAdd(b[1], c, j) /\ db' = [db EXCEPT ![c] = g, ![j] = x] /\ held' = b[2]
  BY <1>1
<1>3. /\ b[1] \in Replica /\ Sound(b[1]) /\ b[1].admins \subseteq b[1].members
      /\ c \notin Overlapping /\ db[c] # NoGroup => db[c].removed \subseteq b[1].removed
      /\ HeldSound(b[2])
  BY BasesSound
<1>4. g \in Replica /\ Keeps(b[1], g)
  BY <1>2, <1>3, AddedType, AddedKeeps DEF Keeps
<1>5. Stored(c, g)
  BY <1>3, <1>4 DEF Keeps, Stored
<1>6. s \in Replica
  BY <1>4, PeersAssumption DEF Replica
<1>7. Sound(s)
  <2>1. /\ s.removed = g.removed /\ s.certs = g.certs
        /\ s.members = g.members \cup {Owner, c, j}
    BY <1>4 DEF Replica
  <2>2. g.removed = b[1].removed
    BY <1>3 DEF Added, nextGroupManifestRevision, Replica
  <2>3. j \notin b[1].removed
    BY <1>2 DEF CanAdd
  <2>4. c = Owner \/ c \in b[1].admins
    BY <1>2 DEF CanAdd, canManageLocalGroup
  <2>5. c \notin b[1].removed
    BY <1>3, <2>4 DEF Sound
  <2> QED
    BY <1>4, <2>1, <2>2, <2>3, <2>5 DEF Keeps, Sound
<1>8. Stored(j, x)
  <2>1. CASE db[j] = NoGroup
    BY <2>1, <1>7 DEF Stored
  <2>2. CASE db[j] # NoGroup
    <3>1. Loaded(db[j], j) \in Replica /\ Keeps(db[j], Loaded(db[j], j))
      BY <2>2, LoadedType, LoadedKeeps DEF TypeOK, RemovalInv, Copies
    <3>2. x = NoGroup \/ Keeps(Loaded(db[j], j), x)
      BY <2>2, <3>1, <1>6, StoredKeeps DEF Keeps
    <3> QED
      BY <3>1, <3>2 DEF Keeps, Stored
  <2> QED
    BY <2>1, <2>2
<1> HIDE DEF g, s, x
<1>9. db'[c] = g /\ db'[j] = x /\ \A q \in Peers \ {c, j} : db'[q] = db[q]
  BY <1>2 DEF TypeOK
<1>10. TombstonesStay(Peers \ Overlapping)
  BY <1>5, <1>8, <1>9 DEF TombstonesStay, Stored, Sound, RemovalInv, Copies
<1>11. \A q \in Peers : db'[q] # NoGroup => Sound(db'[q])
  BY <1>5, <1>8, <1>9 DEF RemovalInv, Copies, Stored
<1>12. HeldSound(held')
  BY <1>2, <1>3
<1>13. RemovalInv'
  BY <1>11, <1>12 DEF RemovalInv, Copies, Sound, HeldSound
<1> QED
  BY <1>10, <1>13 DEF Kept

(* A merge works on a sound replica, and on what is stored by then unless  *)
(* operations overlap; so whatever was stored since the snapshot was       *)
(* checked, its tombstones stay.                                           *)
LEMMA MergesKeep ==
    ASSUME TypeOK, RemovalInv, NEW p \in Peers, MergeStep(p)
    PROVE  Kept
<1>1. CASE BeginMerge(p)
  <2>1. p \in Overlapping /\ db[p] # NoGroup
    BY <1>1 DEF BeginMerge
  <2> DEFINE g == Loaded(db[p], p)
  <2>2. Keeps(db[p], g) /\ g.admins \subseteq g.members
    BY <2>1, LoadedKeeps DEF TypeOK, RemovalInv, Copies
  <2>3. held' = [held EXCEPT ![p] = [doing |-> "merge", base |-> g,
                                     group |-> held[p].group, from |-> held[p].from]]
    BY <1>1 DEF BeginMerge
  <2> HIDE DEF g
  <2>4. HeldSound(held')
    BY <2>1, <2>2, <2>3 DEF RemovalInv, HeldSound, TypeOK, Keeps
  <2> QED
    BY <1>1, <2>4, NoCopy DEF BeginMerge
<1>2. CASE EndMerge(p)
  <2>1. PICK b \in MergeBases(p) :
          db' = [db EXCEPT ![p] = mergeLocalGroupManifest(b, held[p].group, held[p].from, p)]
    BY <1>2 DEF EndMerge
  <2> DEFINE x == mergeLocalGroupManifest(b, held[p].group, held[p].from, p)
  <2>2. /\ b \in Replica /\ held[p].group \in Replica /\ held[p].from \in Peers
    BY LoadedType DEF TypeOK, MergeBases, Check, Merge
  <2>3. /\ Sound(b)
        /\ p \notin Overlapping /\ db[p] # NoGroup => db[p].removed \subseteq b.removed
    <3>1. CASE held[p] \in Merge
      BY <3>1 DEF RemovalInv, HeldSound, MergeBases
    <3>2. CASE held[p] \notin Merge
      <4>1. db[p] # NoGroup /\ b = Loaded(db[p], p)
        BY <3>2 DEF MergeBases
      <4> QED
        BY <4>1, LoadedKeeps DEF TypeOK, RemovalInv, Copies, Keeps
    <3> QED
      BY <3>1, <3>2
  <2>4. Stored(p, x)
    <3>1. x = NoGroup \/ Keeps(b, x)
      BY <2>2, <2>3, StoredKeeps DEF Keeps
    <3> QED
      BY <2>3, <3>1 DEF Keeps, Stored
  <2>5. db' = [db EXCEPT ![p] = x] /\ held' = [held EXCEPT ![p] = Idle]
    BY <1>2, <2>1 DEF EndMerge
  <2>6. HeldSound(held')
    BY <2>5, IdleAssumption DEF RemovalInv, HeldSound, TypeOK
  <2> HIDE DEF x
  <2> QED
    BY <2>4, <2>5, <2>6, OneCopy
<1>3. CASE AbandonMerge(p)
  <2>1. HeldSound(held')
    BY <1>3, IdleAssumption DEF AbandonMerge, RemovalInv, HeldSound, TypeOK
  <2> QED
    BY <1>3, <2>1, NoCopy DEF AbandonMerge
<1> QED
  BY <1>1, <1>2, <1>3 DEF MergeStep

(* Every step keeps the tombstones and the invariant.                      *)
LEMMA RemovalStep ==
    ASSUME TypeOK, RemovalInv, [Next]_vars
    PROVE  Kept
<1>1. ASSUME NEW p \in Peers, LocalEdit(p) PROVE Kept
  <2>0. CASE BeginEdit(p)
    <3>1. /\ Keeps(db[p], Loaded(db[p], p))
          /\ Loaded(db[p], p).admins \subseteq Loaded(db[p], p).members
      BY <2>0, LoadedKeeps DEF BeginEdit, TypeOK, RemovalInv, Copies
    <3>2. HeldSound(held')
      BY <2>0, <3>1 DEF BeginEdit, RemovalInv, HeldSound, TypeOK, Keeps
    <3> QED
      BY <2>0, <3>2, NoCopy DEF BeginEdit
  <2>2. CASE Leave(p)
    <3>1. Stored(p, NoGroup)
      BY DEF Stored
    <3> QED
      BY <2>2, <3>1, OneCopy DEF Leave, RemovalInv
  <2>3. CASE UpdateGroup(p) \/ \E t \in Peers : RemoveMember(p, t)
    BY <2>3, EditsKeep
  <2>4. CASE \E j \in Peers : Join(p, j)
    BY <2>4, JoinKeeps
  <2> QED
    BY <1>1, <2>0, <2>2, <2>3, <2>4 DEF LocalEdit
<1>6. ASSUME NEW p \in Peers, MergeStep(p) PROVE Kept
  BY <1>6, MergesKeep
<1>2. CASE OwnerEdit
  BY <1>2, EditsKeep, PeersAssumption DEF OwnerEdit
<1>3. CASE \E p, q \in Peers : Exchange(p, q)
  BY <1>3, NoCopy DEF Exchange, SendGroupMembership, SendRevocations, Send, Disconnect, Connect, RemovalInv
<1>4. ASSUME NEW m \in net, Receive(m) PROVE Kept
  <2>1. CASE ReceiveMembership(m)
    <3>1. m.to \in Peers /\ m.from \in Peers /\ m.group \in Replica /\ db[m.to] # NoGroup
      BY <2>1 DEF ReceiveMembership, Snapshot
    <3> DEFINE g == Loaded(db[m.to], m.to)
               x == acceptMembership(g, m.group, m.from, m.to)
    <3>2. g \in Replica /\ Keeps(db[m.to], g)
      BY <3>1, LoadedType, LoadedKeeps DEF TypeOK, RemovalInv, Copies
    <3>3. x = NoGroup \/ Keeps(g, x)
      BY <3>1, <3>2, StoredKeeps DEF Keeps
    <3>4. Stored(m.to, x)
      BY <3>2, <3>3 DEF Keeps, Stored
    <3>5. db' = [db EXCEPT ![m.to] = x] /\ held' = held
      BY <2>1 DEF ReceiveMembership
    <3> HIDE DEF x
    <3> QED
      BY <3>1, <3>4, <3>5, OneCopy DEF RemovalInv
  <2>2. CASE CheckMembership(m)
    <3> DEFINE o == [doing |-> "check", group |-> m.group, from |-> m.from]
    <3>1. o \notin Edit \cup Merge
      BY DEF Edit, Merge
    <3>2. held' = [held EXCEPT ![m.to] = o] /\ db' = db
      BY <2>2 DEF CheckMembership
    <3> HIDE DEF o
    <3>3. HeldSound(held')
      BY <3>1, <3>2 DEF RemovalInv, HeldSound, TypeOK
    <3> QED
      BY <3>2, <3>3, NoCopy
  <2>3. CASE ReceiveRevocation(m)
    <3>1. m.to \in Peers /\ db[m.to] # NoGroup
      BY <2>3 DEF ReceiveRevocation, Revocation
    <3> DEFINE x == IF verifyGroupRevocationCertificate(m.cert, Loaded(db[m.to], m.to), FALSE)
                      THEN NoGroup ELSE db[m.to]
    <3>2. Stored(m.to, x)
      BY <3>1 DEF Stored, RemovalInv, Copies
    <3>3. db' = [db EXCEPT ![m.to] = x] /\ held' = held
      BY <2>3 DEF ReceiveRevocation
    <3> HIDE DEF x
    <3> QED
      BY <3>1, <3>2, <3>3, OneCopy DEF RemovalInv
  <2>4. CASE Lose(m)
    BY <2>4, NoCopy DEF Lose, RemovalInv
  <2> QED
    BY <1>4, <2>1, <2>2, <2>3, <2>4 DEF Receive
<1>5. CASE UNCHANGED vars
  BY <1>5, NoCopy DEF vars, RemovalInv
<1> QED
  BY <1>1, <1>2, <1>3, <1>4, <1>5, <1>6 DEF Next

(* The invariant holds at the start.                                       *)
LEMMA RemovalInit == Init => RemovalInv
<1> SUFFICES ASSUME Init PROVE RemovalInv
  OBVIOUS
<1>1. Sound(InitialReplica)
  BY DEF Sound, InitialReplica, Targets
<1> QED
  BY <1>1, IdleAssumption DEF Init, RemovalInv, Copies, HeldSound

(* Removals are final on every replica whose own operations do not         *)
(* overlap, for any peers, roles, invites, repairs, departures, losses and *)
(* delays, and whatever operations overlap elsewhere: no step takes a      *)
(* tombstone out of a stored copy or lists a removed peer again.           *)
THEOREM RemovalsAreFinal == Spec => RemoveWins
<1>1. TypeOK /\ RemovalInv /\ [Next]_vars => RemovalInv'
  BY RemovalStep DEF Kept
<1>2. TypeOK /\ RemovalInv /\ [Next]_vars => [TombstonesStay(Peers \ Overlapping)]_vars
  BY RemovalStep DEF Kept
<1> QED
  BY <1>1, <1>2, RemovalInit, GroupTyping, PTL DEF Spec, RemoveWins

----------------------------------------------------------------------------
(* What the operations make of the fields of a replica.                    *)

(* A load changes the members, the roles and the tombstones only.          *)
IsLoad(h, g, p) ==
    /\ h.epoch = g.epoch /\ h.certs = g.certs
    /\ h.ver = g.ver /\ h.actor = g.actor /\ h.op = g.op /\ h.meta = g.meta
    /\ h.removed = (g.removed \cup Targets(g.certs)) \ {Owner}
    /\ h.members = IF p \in h.removed THEN g.members \ h.removed
                   ELSE (g.members \ h.removed) \cup {p}
    /\ h.admins = (g.admins \ {Owner}) \cap (g.members \ h.removed)

LEMMA LoadedFields ==
    ASSUME NEW g \in Replica, NEW p \in Peers
    PROVE  IsLoad(Loaded(g, p), g, p)
BY DEF IsLoad, Loaded, Replica

(* updateLocalGroupProfile draws a new revision for the new content.       *)
IsProfile(h, g, p, id) ==
    /\ h.epoch = g.epoch /\ h.certs = g.certs /\ h.removed = g.removed
    /\ h.members = g.members /\ h.admins = g.admins
    /\ h.ver > g.ver /\ h.op = id /\ h.actor = p

LEMMA ProfiledFields ==
    ASSUME NEW g \in Replica, NEW p \in Peers, NEW id \in Ids
    PROVE  IsProfile(Profiled(g, p, id), g, p, id)
<1>1. Larger(1, g.ver) + 1 > g.ver
  BY DEF Larger, Replica
<1> QED
  BY <1>1 DEF IsProfile, Profiled, nextGroupManifestRevision, Replica

(* addLocalGroupMember adds one member.                                    *)
IsAddition(h, g, p, j, id) ==
    /\ h.epoch = g.epoch /\ h.certs = g.certs /\ h.removed = g.removed
    /\ h.members = g.members \cup {j} /\ h.admins = g.admins
    /\ h.ver > g.ver /\ h.op = id /\ h.actor = p

LEMMA AddedFields ==
    ASSUME NEW g \in Replica, NEW p \in Peers, NEW j \in Peers, NEW id \in Ids
    PROVE  IsAddition(Added(g, p, j, id), g, p, j, id)
<1>1. Larger(1, g.ver) + 1 > g.ver
  BY DEF Larger, Replica
<1> QED
  BY <1>1 DEF IsAddition, Added, nextGroupManifestRevision, Replica

(* setLocalGroupAdministrator begins an epoch.                             *)
IsAppointment(h, g, t, id) ==
    /\ h.epoch = g.epoch + 1 /\ h.certs = g.certs /\ h.removed = g.removed
    /\ h.members = g.members /\ h.admins \subseteq g.admins \cup {t}
    /\ h.ver > g.ver /\ h.op = id

LEMMA AppointedFields ==
    ASSUME NEW g \in Replica, NEW t \in Peers, NEW b \in BOOLEAN, NEW id \in Ids
    PROVE  IsAppointment(Appointed(g, t, b, id), g, t, id)
<1>1. Larger(1, g.ver) + 1 > g.ver
  BY DEF Larger, Replica
<1> QED
  BY <1>1, PeersAssumption DEF IsAppointment, Appointed, nextGroupManifestRevision, Replica

\* The certificate of a removal.
CertificateOf(g, p, t, id) ==
    [target |-> t, issuer |-> p, mver |-> g.mver + 1,
     epoch |-> IF t \in g.admins THEN g.epoch + 1 ELSE g.epoch, id |-> id]

(* removeLocalGroupMember begins an epoch when it demotes.                 *)
IsRemoval(h, g, p, t, id) ==
    /\ h.epoch = IF t \in g.admins THEN g.epoch + 1 ELSE g.epoch
    /\ h.certs = mergeGroupRevocations(g.certs, {CertificateOf(g, p, t, id)})
    /\ h.removed = g.removed \cup {t}
    /\ h.members = g.members \ {t} /\ h.admins = g.admins \ {t}
    /\ h.ver > g.ver /\ h.op = id /\ h.actor = p

LEMMA RemovedFields ==
    ASSUME NEW g \in Replica, NEW p \in Peers, NEW t \in Peers, NEW id \in Ids
    PROVE  IsRemoval(Removed(g, p, t, id), g, p, t, id)
<1>1. Larger(1, g.ver) + 1 > g.ver
  BY DEF Larger, Replica
<1> QED
  BY <1>1 DEF IsRemoval, Removed, CertificateOf, nextGroupManifestRevision, Replica

\* The certificates of a repair.
AliasCertificates(g, aliases, id) ==
    {[target |-> a, issuer |-> Owner, mver |-> g.mver + 1,
      epoch |-> g.epoch, id |-> id] : a \in aliases}

(* repairLocalIdentityAliases removes the aliases and keeps the roles.     *)
IsRepair(h, g, aliases, id) ==
    /\ h.epoch = g.epoch /\ h.admins = g.admins
    /\ h.certs = mergeGroupRevocations(g.certs, AliasCertificates(g, aliases, id))
    /\ h.removed = g.removed \cup aliases
    /\ h.members = g.members \ aliases
    /\ h.ver > g.ver /\ h.op = id

LEMMA AliasesRemovedFields ==
    ASSUME NEW g \in Replica, NEW aliases \in SUBSET Peers, NEW id \in Ids
    PROVE  IsRepair(AliasesRemoved(g, aliases, id), g, aliases, id)
<1>1. Larger(1, g.ver) + 1 > g.ver
  BY DEF Larger, Replica
<1> QED
  BY <1>1, PeersAssumption DEF IsRepair, AliasesRemoved, AliasCertificates,
                               nextGroupManifestRevision, Replica

(* A merge: the newer epoch, and within an epoch the newer revision.       *)
IsMerge(h, g, s) ==
    /\ h.epoch = Larger(g.epoch, s.epoch)
    /\ h.certs = mergeGroupRevocations(g.certs, s.certs)
    /\ h.removed = g.removed \cup s.removed \cup Targets(h.certs)
    /\ h.members = MergedMembers(g, s) \ h.removed
    /\ s.epoch > g.epoch => h.admins = (s.admins \cap h.members) \ {Owner}
    /\ s.epoch < g.epoch => h.admins = (g.admins \cap h.members) \ {Owner}
    /\ s.epoch = g.epoch => \/ h.admins = (s.admins \cap h.members) \ {Owner}
                            \/ h.admins = (g.admins \cap h.members) \ {Owner}
    /\ \/ Revision(h) = Revision(g) /\ h.meta = g.meta /\ s.epoch <= g.epoch
       \/ /\ Revision(h) = Revision(s)
          /\ s.epoch >= g.epoch => h.meta = s.meta
          /\ s.epoch <= g.epoch => s.ver >= g.ver

LEMMA MergedFields ==
    ASSUME NEW g \in Replica, NEW s \in Replica, NEW q \in Peers
    PROVE  IsMerge(Merged(g, s, q), g, s)
<1> DEFINE a == IF s.epoch < g.epoch /\ q # Owner
                  THEN [s EXCEPT !.meta = g.meta, !.admins = g.admins]
                  ELSE s
           w == IF NewerRevision(a, g) \/ a.epoch > g.epoch THEN a ELSE g
           h == Merged(g, s, q)
<1>0. g.epoch \in Nat /\ s.epoch \in Nat /\ g.ver \in Nat /\ s.ver \in Nat
  BY DEF Replica
<1>1. /\ a.epoch = s.epoch /\ a.certs = s.certs /\ a.removed = s.removed
      /\ a.members = s.members /\ Revision(a) = Revision(s) /\ a.ver = s.ver
      /\ s.epoch >= g.epoch => a.admins = s.admins /\ a.meta = s.meta
  <2>1. CASE s.epoch < g.epoch /\ q # Owner
    BY <1>0, <2>1 DEF Replica, Revision
  <2>2. CASE ~(s.epoch < g.epoch /\ q # Owner)
    BY <2>2
  <2> QED
    BY <2>1, <2>2
<1>2. /\ h.epoch = Larger(g.epoch, a.epoch)
      /\ h.certs = mergeGroupRevocations(g.certs, a.certs)
      /\ h.removed = MergedTombstones(g, a, h.certs)
      /\ h.members = MergedMembers(g, a) \ h.removed
      /\ h.admins = (MergedRoles(g, a, w) \cap h.members) \ {Owner}
      /\ Revision(h) = Revision(w) /\ h.meta = w.meta
  BY DEF Merged, Revision
<1> HIDE DEF a, h
<1>4. w = a \/ w = g
  OBVIOUS
<1>5. w # a => a.epoch <= g.epoch
  BY <1>1, <1>0
<1>6. w = a /\ w # g /\ s.epoch <= g.epoch => s.ver >= g.ver
  BY <1>1, <1>0 DEF NewerRevision
<1> HIDE DEF w
<1>7. h.members = MergedMembers(g, s) \ h.removed
  BY <1>1, <1>2 DEF MergedMembers
<1>8. /\ s.epoch > g.epoch => MergedRoles(g, a, w) = s.admins
      /\ s.epoch < g.epoch => MergedRoles(g, a, w) = g.admins
      /\ s.epoch = g.epoch => MergedRoles(g, a, w) \in {s.admins, g.admins}
  BY <1>1, <1>0, <1>4 DEF MergedRoles
<1>9. \/ Revision(h) = Revision(g) /\ h.meta = g.meta /\ s.epoch <= g.epoch
      \/ /\ Revision(h) = Revision(s)
         /\ s.epoch >= g.epoch => h.meta = s.meta
         /\ s.epoch <= g.epoch => s.ver >= g.ver
  <2>1. CASE w # a
    BY <2>1, <1>1, <1>2, <1>4, <1>5
  <2>2. CASE w = a /\ w # g
    BY <2>2, <1>1, <1>2, <1>6
  <2>3. CASE w = a /\ w = g
    BY <2>3, <1>1, <1>2, <1>0
  <2> QED
    BY <2>1, <2>2, <2>3
<1>10. h.removed = g.removed \cup s.removed \cup Targets(h.certs)
  BY <1>1, <1>2 DEF MergedTombstones
<1> QED
  BY <1>1, <1>2, <1>7, <1>8, <1>9, <1>10 DEF IsMerge, h
----------------------------------------------------------------------------
(* What the steps make of the replicas and certificates there are.         *)

\* What is there to read: the replicas, and the copies as they are loaded.
Readable == Replicas \cup {Loaded(db[p], p) : p \in Copies}

\* The merges a peer makes of what it received.
Arisen(h) ==
    \/ h \in Readable
    \/ \E g \in Readable, s \in Replicas, q \in Peers :
          Resolvable(g, s, q) /\ h = Merged(g, s, q)

\* The steps that make no revision.
Quiet ==
    \/ \E p \in Peers : BeginEdit(p) \/ Leave(p) \/ MergeStep(p)
    \/ \E p, q \in Peers : Exchange(p, q)
    \/ \E m \in net : Receive(m)
    \/ UNCHANGED vars

(* Where replicas are.                                                     *)
LEMMA ReplicasAre ==
    /\ \A p \in Peers : db[p] # NoGroup => db[p] \in Replicas /\ Loaded(db[p], p) \in Readable
    /\ \A p \in Peers : held[p] \in Edit \cup Merge => held[p].base \in Replicas
    /\ \A p \in Peers : held[p] \in Check \cup Merge => held[p].group \in Replicas
    /\ \A m \in net : m \in Snapshot => m.group \in Replicas
    /\ Replicas \subseteq Readable
BY DEF Replicas, Readable, Copies

LEMMA ReplicasAreTyped ==
    ASSUME TypeOK
    PROVE  Replicas \subseteq Replica /\ Readable \subseteq Replica
<1>1. Replicas \subseteq Replica
  BY DEF TypeOK, Replicas, Copies, Edit, Check, Merge, Snapshot
<1> QED
  BY <1>1, LoadedType DEF Readable, Copies, TypeOK

(* New replicas are those newly stored, worked on or sent.                 *)
LEMMA ReplicasFrame ==
    ASSUME NEW S,
           \A p \in Peers : db'[p] # NoGroup => db'[p] \in S,
           \A p \in Peers : held'[p] \in Edit \cup Merge => held'[p].base \in S,
           \A p \in Peers : held'[p] \in Check \cup Merge => held'[p].group \in S,
           \A m \in net' : m \in Snapshot => m.group \in S
    PROVE  Replicas' \subseteq S
BY DEF Replicas, Copies

(* What a merge stores is nothing, the replica or the merge.               *)
LEMMA StoredArises ==
    ASSUME NEW g \in Readable, NEW s \in Replicas, NEW q \in Peers, NEW p \in Peers
    PROVE  /\ \/ mergeLocalGroupManifest(g, s, q, p) = NoGroup
              \/ Arisen(mergeLocalGroupManifest(g, s, q, p))
           /\ \/ acceptMembership(g, s, q, p) = NoGroup
              \/ Arisen(acceptMembership(g, s, q, p))
<1>1. Arisen(g) /\ Arisen(resolveLocalGroupManifest(g, s, q))
  BY DEF resolveLocalGroupManifest, Arisen
<1> QED
  BY <1>1 DEF mergeLocalGroupManifest, acceptMembership

(* A quiet step leaves nothing that did not arise from what there was.     *)
LEMMA QuietReplicas ==
    ASSUME TypeOK, Quiet
    PROVE  /\ \A h \in Replicas' : Arisen(h)
           /\ UNCHANGED <<used, delegated>>
<1> DEFINE S == {h \in Replicas' : Arisen(h)} \cup {h \in Replica : Arisen(h)}
<1>0. \A h \in Replica : Arisen(h) => h \in S
  OBVIOUS
<1>00. \A h \in S : Arisen(h)
  OBVIOUS
<1> HIDE DEF S
<1>1. \A h \in Readable : h \in S
  BY <1>0, ReplicasAreTyped DEF Arisen
<1>2. /\ \A p \in Peers : db[p] # NoGroup => db[p] \in S
      /\ \A p \in Peers : held[p] \in Edit \cup Merge => held[p].base \in S
      /\ \A p \in Peers : held[p] \in Check \cup Merge => held[p].group \in S
      /\ \A m \in net : m \in Snapshot => m.group \in S
  BY <1>1, ReplicasAre
<1>3. Replicas' \subseteq S
  <2>1. CASE \E p \in Peers : BeginEdit(p)
    <3>1. PICK p \in Peers : BeginEdit(p)
      BY <2>1
    <3>2. held' = [held EXCEPT ![p] = [doing |-> "edit", base |-> Loaded(db[p], p)]]
      BY <3>1 DEF BeginEdit
    <3>3. Loaded(db[p], p) \in S
      BY <1>1, <3>1, ReplicasAre DEF BeginEdit
    <3>4. held'[p] \notin Check \cup Merge
      BY <3>2 DEF TypeOK, Check, Merge
    <3>5. \A q \in Peers : q # p => held'[q] = held[q]
      BY <3>2 DEF TypeOK
    <3>6. held'[p].base = Loaded(db[p], p)
      BY <3>2 DEF TypeOK
    <3> QED
      BY <1>2, <3>1, <3>3, <3>4, <3>5, <3>6, ReplicasFrame DEF BeginEdit
  <2>2. CASE \E p \in Peers : Leave(p)
    BY <1>2, <2>2, ReplicasFrame DEF Leave, TypeOK
  <2>3. CASE \E p \in Peers : EndMerge(p)
    <3>1. PICK p \in Peers : EndMerge(p)
      BY <2>3
    <3>2. PICK g \in MergeBases(p) :
            db' = [db EXCEPT ![p] = mergeLocalGroupManifest(g, held[p].group, held[p].from, p)]
      BY <3>1 DEF EndMerge
    <3> DEFINE s == held[p].group
               q == held[p].from
    <3>3. g \in Readable /\ s \in Replicas /\ q \in Peers
      BY ReplicasAre DEF MergeBases, Check, Merge
    <3> DEFINE x == mergeLocalGroupManifest(g, s, q, p)
    <3>6. x = NoGroup \/ Arisen(x)
      BY <3>3, StoredArises
    <3>7. x = NoGroup \/ x \in Replica
      BY <3>3, ReplicasAreTyped, StoredType
    <3>8. db' = [db EXCEPT ![p] = x] /\ held' = [held EXCEPT ![p] = Idle] /\ net' = net
      BY <3>1, <3>2 DEF EndMerge
    <3> HIDE DEF x
    <3>9. \A r \in Peers : db'[r] # NoGroup => db'[r] \in S
      BY <1>0, <1>2, <3>6, <3>7, <3>8 DEF TypeOK
    <3>10. \A r \in Peers : held'[r] # Idle => held'[r] = held[r]
      BY <3>8 DEF TypeOK
    <3> QED
      BY <1>2, <3>8, <3>9, <3>10, IdleAssumption, ReplicasFrame
  <2>7. CASE \E p \in Peers : BeginMerge(p)
    <3>1. PICK p \in Peers : BeginMerge(p)
      BY <2>7
    <3> DEFINE g == Loaded(db[p], p)
               o == [doing |-> "merge", base |-> g, group |-> held[p].group,
                     from |-> held[p].from]
    <3>2. g \in S /\ held[p].group \in S
      BY <1>1, <1>2, <3>1, ReplicasAre DEF BeginMerge
    <3>3. o.base = g /\ o.group = held[p].group
      OBVIOUS
    <3>4. held' = [held EXCEPT ![p] = o] /\ UNCHANGED <<db, net>>
      BY <3>1 DEF BeginMerge
    <3> HIDE DEF g, o
    <3>5. \A r \in Peers : held'[r] = held[r] \/ held'[r] = o
      BY <3>4 DEF TypeOK
    <3> QED
      BY <1>2, <3>2, <3>3, <3>4, <3>5, ReplicasFrame
  <2>8. CASE \E p \in Peers : AbandonMerge(p)
    <3>1. /\ \A r \in Peers : held'[r] # Idle => held'[r] = held[r]
          /\ UNCHANGED <<db, net>>
      BY <2>8 DEF AbandonMerge, TypeOK
    <3> QED
      BY <1>2, <3>1, IdleAssumption, ReplicasFrame
  <2>4. CASE \E p, q \in Peers : Exchange(p, q)
    <3>1. PICK p \in Peers, q \in Peers : Exchange(p, q)
      BY <2>4
    <3>2. UNCHANGED <<db, held>>
      BY <3>1 DEF Exchange, SendGroupMembership, SendRevocations, Send, Disconnect, Connect
    <3>3. \A m \in net' : m \in Snapshot => m.group \in S
      <4>1. CASE SendGroupMembership(p, q)
        <5>1. Loaded(db[p], p) \in S
          BY <1>1, <4>1, ReplicasAre DEF SendGroupMembership
        <5> QED
          BY <1>2, <4>1, <5>1 DEF SendGroupMembership, Send
      <4>2. CASE SendRevocations(p, q)
        BY <1>2, <4>2 DEF SendRevocations, Send, Snapshot
      <4>3. CASE Disconnect(p, q) \/ Connect(p, q)
        BY <1>2, <4>3 DEF Disconnect, Connect
      <4> QED
        BY <3>1, <4>1, <4>2, <4>3 DEF Exchange
    <3> QED
      BY <1>2, <3>2, <3>3, ReplicasFrame
  <2>5. CASE \E m \in net : Receive(m)
    <3>1. PICK m \in net : Receive(m)
      BY <2>5
    <3>2. \A n \in net' : n \in net
      BY <3>1 DEF Receive, ReceiveMembership, CheckMembership, ReceiveRevocation, Lose
    <3>3. CASE ReceiveMembership(m)
      <4> DEFINE g == Loaded(db[m.to], m.to)
                 x == acceptMembership(g, m.group, m.from, m.to)
      <4>1. /\ m \in Snapshot /\ m.to \in Peers /\ m.from \in Peers /\ db[m.to] # NoGroup
            /\ g \in Readable /\ m.group \in Replicas
        BY <3>3, ReplicasAre DEF ReceiveMembership, Snapshot
      <4>3. x = NoGroup \/ Arisen(x)
        BY <4>1, StoredArises
      <4>4. x = NoGroup \/ x \in Replica
        BY <4>1, ReplicasAreTyped, StoredType
      <4>5. db' = [db EXCEPT ![m.to] = x] /\ held' = held
        BY <3>3 DEF ReceiveMembership
      <4> HIDE DEF x
      <4>6. \A r \in Peers : db'[r] # NoGroup => db'[r] \in S
        BY <1>0, <1>2, <4>1, <4>3, <4>4, <4>5 DEF TypeOK
      <4> QED
        BY <1>2, <3>2, <4>5, <4>6, ReplicasFrame
    <3>4. CASE CheckMembership(m)
      <4> DEFINE o == [doing |-> "check", group |-> m.group, from |-> m.from]
      <4>1. m.to \in Peers /\ m.group \in S
        BY <1>2, <3>4 DEF CheckMembership, Snapshot
      <4>2. o.group = m.group /\ o \notin Edit \cup Merge
        BY DEF Edit, Merge
      <4>3. held' = [held EXCEPT ![m.to] = o] /\ db' = db
        BY <3>4 DEF CheckMembership
      <4> HIDE DEF o
      <4>4. \A r \in Peers : held'[r] = held[r] \/ held'[r] = o
        BY <4>3 DEF TypeOK
      <4> QED
        BY <1>2, <3>2, <4>1, <4>2, <4>3, <4>4, ReplicasFrame
    <3>5. CASE ReceiveRevocation(m)
      <4>1. UNCHANGED held /\ \A r \in Peers : db'[r] # NoGroup => db'[r] = db[r]
        BY <3>5 DEF ReceiveRevocation, TypeOK
      <4> QED
        BY <1>2, <3>2, <4>1, ReplicasFrame
    <3>6. CASE Lose(m)
      BY <1>2, <3>2, <3>6, ReplicasFrame DEF Lose
    <3> QED
      BY <3>1, <3>3, <3>4, <3>5, <3>6 DEF Receive
  <2>6. CASE UNCHANGED vars
    BY <1>2, <2>6, ReplicasFrame DEF vars
  <2> QED
    BY <2>1, <2>2, <2>3, <2>4, <2>5, <2>6, <2>7, <2>8 DEF Quiet, MergeStep
<1>4. UNCHANGED <<used, delegated>>
  BY DEF Quiet, BeginEdit, Leave, MergeStep, BeginMerge, EndMerge, AbandonMerge, Exchange, SendGroupMembership, SendRevocations,
         Send, Disconnect, Connect, Receive, ReceiveMembership, CheckMembership,
         ReceiveRevocation, Lose, vars
<1> QED
  BY <1>00, <1>3, <1>4

----------------------------------------------------------------------------
(* The steps that make a revision, by what they make of which replica.     *)

\* What an edit of p starts from.
Base(p, b) ==
    /\ b \in Readable /\ b \in Replica
    /\ Sound(b) /\ b.admins \subseteq b.members
    /\ p \notin Overlapping => db[p] # NoGroup /\ b = Loaded(db[p], p)

\* An edit saves x at p, with an identifier that nobody drew before.
Changes(p, x, id) ==
    /\ x \in Replica
    /\ Replicas' \subseteq Replicas \cup {x}
    /\ id \in Ids \ used /\ used' = used \cup {id}
    /\ db' = [db EXCEPT ![p] = x] /\ net' = net
    /\ \A r \in Peers : held'[r] # Idle => held'[r] = held[r]

LEMMA BasesAre ==
    ASSUME TypeOK, RemovalInv, NEW p \in Peers, NEW b \in Bases(p)
    PROVE  /\ Base(p, b[1])
           /\ \A r \in Peers : b[2][r] # Idle => b[2][r] = held[r]
<1>1. CASE db[p] # NoGroup /\ b = <<Loaded(db[p], p), held>>
  <2>1. b[1] \in Readable
    BY <1>1, ReplicasAre
  <2> QED
    BY <1>1, <2>1, BasesSound DEF Base
<1>2. CASE held[p] \in Edit /\ b = <<held[p].base, [held EXCEPT ![p] = Idle]>>
  <2>2. b[1] \in Readable /\ p \in Overlapping
    BY <1>2, ReplicasAre DEF RemovalInv, HeldSound
  <2>3. Base(p, b[1])
    BY <2>2, BasesSound DEF Base
  <2> QED
    BY <1>2, <2>3 DEF TypeOK
<1> QED
  BY <1>1, <1>2 DEF Bases

(* A save of an edit brings the edited replica and no other.               *)
LEMMA SavesChange ==
    ASSUME TypeOK, RemovalInv, NEW p \in Peers, NEW b \in Bases(p), NEW x \in Replica,
           NEW id \in Ids \ used, Saves(p, x, b[2], id)
    PROVE  Changes(p, x, id)
<1>1. \A r \in Peers : db'[r] = db[r] \/ db'[r] = x
  BY DEF Saves, TypeOK
<1>2. \A r \in Peers : held'[r] # Idle => held'[r] = held[r]
  BY BasesAre DEF Saves
<1>3. Replicas' \subseteq Replicas \cup {x}
  <2>1. \A r \in Peers : db'[r] # NoGroup => db'[r] \in Replicas \cup {x}
    BY <1>1, ReplicasAre
  <2>2. /\ \A r \in Peers : held'[r] \in Edit \cup Merge => held'[r].base \in Replicas \cup {x}
        /\ \A r \in Peers : held'[r] \in Check \cup Merge => held'[r].group \in Replicas \cup {x}
    BY <1>2, ReplicasAre, IdleAssumption
  <2>3. \A m \in net' : m \in Snapshot => m.group \in Replicas \cup {x}
    BY ReplicasAre DEF Saves
  <2> QED
    BY <2>1, <2>2, <2>3, ReplicasFrame
<1> QED
  BY <1>2, <1>3 DEF Changes, Saves

LEMMA UpdateChanges ==
    ASSUME TypeOK, RemovalInv, NEW p \in Peers, UpdateGroup(p)
    PROVE  \E b, x, id : /\ Base(p, b) /\ Changes(p, x, id) /\ IsProfile(x, b, p, id)
                         /\ UNCHANGED delegated
<1>1. PICK b \in Bases(p), id \in Ids \ used :
        Saves(p, Profiled(b[1], p, id), b[2], id) /\ UNCHANGED delegated
  BY DEF UpdateGroup
<1>2. Base(p, b[1])
  BY BasesAre
<1>3. b[1] \in Replica
  BY <1>2 DEF Base
<1> DEFINE x == Profiled(b[1], p, id)
<1>4. x \in Replica /\ IsProfile(x, b[1], p, id)
  BY <1>3, ProfiledType, ProfiledFields
<1>5. Saves(p, x, b[2], id) /\ UNCHANGED delegated
  BY <1>1
<1> HIDE DEF x
<1>6. Changes(p, x, id)
  BY <1>4, <1>5, SavesChange
<1> QED
  BY <1>2, <1>4, <1>5, <1>6

LEMMA AppointmentChanges ==
    ASSUME TypeOK, RemovalInv, NEW t \in Peers, SetAdministrator(t)
    PROVE  \E b, x, id : /\ Base(Owner, b) /\ Changes(Owner, x, id) /\ IsAppointment(x, b, t, id)
                         /\ t # Owner /\ t \in b.members
                         /\ delegated' = delegated \cup ({x.epoch} \X x.admins)
<1>0. Owner \in Peers
  BY PeersAssumption
<1>1. PICK b \in Bases(Owner), id \in Ids \ used, a \in BOOLEAN :
        /\ CanAppoint(b[1], Owner, t)
        /\ Saves(Owner, Appointed(b[1], t, a, id), b[2], id)
        /\ delegated' = delegated \cup ({Appointed(b[1], t, a, id).epoch}
                                          \X Appointed(b[1], t, a, id).admins)
  BY DEF SetAdministrator
<1>2. Base(Owner, b[1])
  BY <1>0, BasesAre
<1>3. b[1] \in Replica
  BY <1>2 DEF Base
<1> DEFINE x == Appointed(b[1], t, a, id)
<1>4. x \in Replica /\ IsAppointment(x, b[1], t, id)
  BY <1>3, AppointedType, AppointedFields
<1>5. Saves(Owner, x, b[2], id) /\ delegated' = delegated \cup ({x.epoch} \X x.admins)
  BY <1>1
<1>6. t # Owner /\ t \in b[1].members
  BY <1>1 DEF CanAppoint
<1> HIDE DEF x
<1>7. Changes(Owner, x, id)
  BY <1>0, <1>4, <1>5, SavesChange
<1> QED
  BY <1>2, <1>4, <1>5, <1>6, <1>7

LEMMA RemovalChanges ==
    ASSUME TypeOK, RemovalInv, NEW p \in Peers, NEW t \in Peers, RemoveMember(p, t)
    PROVE  \E b, x, id : /\ Base(p, b) /\ Changes(p, x, id) /\ IsRemoval(x, b, p, t, id)
                         /\ CanRemove(b, p, t)
                         /\ delegated' = IF p = Owner /\ t \in b.admins
                                           THEN delegated \cup ({x.epoch} \X x.admins)
                                           ELSE delegated
<1>1. PICK b \in Bases(p), id \in Ids \ used :
        /\ CanRemove(b[1], p, t)
        /\ Saves(p, Removed(b[1], p, t, id), b[2], id)
        /\ delegated' = IF p = Owner /\ t \in b[1].admins
                          THEN delegated \cup ({Removed(b[1], p, t, id).epoch}
                                                 \X Removed(b[1], p, t, id).admins)
                          ELSE delegated
  BY DEF RemoveMember
<1>2. Base(p, b[1])
  BY BasesAre
<1>3. b[1] \in Replica
  BY <1>2 DEF Base
<1> DEFINE x == Removed(b[1], p, t, id)
<1>4. x \in Replica /\ IsRemoval(x, b[1], p, t, id)
  BY <1>3, RemovedType, RemovedFields
<1>5. /\ Saves(p, x, b[2], id)
      /\ delegated' = IF p = Owner /\ t \in b[1].admins
                        THEN delegated \cup ({x.epoch} \X x.admins) ELSE delegated
  BY <1>1
<1> HIDE DEF x
<1>6. Changes(p, x, id)
  BY <1>4, <1>5, SavesChange
<1> QED
  BY <1>1, <1>2, <1>4, <1>5, <1>6

LEMMA RepairChanges ==
    ASSUME TypeOK, RemovalInv, RepairAliases
    PROVE  \E b, x, id, a : /\ Base(Owner, b) /\ Changes(Owner, x, id) /\ IsRepair(x, b, a, id)
                            /\ a \in SUBSET (Peers \ {Owner}) /\ a \subseteq b.members
                            /\ UNCHANGED delegated
<1>0. Owner \in Peers
  BY PeersAssumption
<1>1. PICK b \in Bases(Owner), id \in Ids \ used :
        /\ Saves(Owner, AliasesRemoved(b[1], b[1].members \cap Aliases, id), b[2], id)
        /\ UNCHANGED delegated
  BY DEF RepairAliases
<1>2. Base(Owner, b[1])
  BY <1>0, BasesAre
<1>3. b[1] \in Replica
  BY <1>2 DEF Base
<1> DEFINE a == b[1].members \cap Aliases
<1>4. a \in SUBSET Peers /\ a \in SUBSET (Peers \ {Owner}) /\ a \subseteq b[1].members
  BY InitialAssumption
<1>5. Saves(Owner, AliasesRemoved(b[1], a, id), b[2], id) /\ UNCHANGED delegated
  BY <1>1
<1> HIDE DEF a
<1> DEFINE x == AliasesRemoved(b[1], a, id)
<1>6. x \in Replica /\ IsRepair(x, b[1], a, id)
  BY <1>3, <1>4, AliasesRemovedType, AliasesRemovedFields
<1> HIDE DEF x
<1>7. Saves(Owner, x, b[2], id)
  BY <1>5 DEF x
<1>8. Changes(Owner, x, id)
  BY <1>0, <1>6, <1>7, SavesChange
<1> QED
  BY <1>2, <1>4, <1>5, <1>6, <1>8

\* The copy that an accepted invite brings to the joiner.
Invited(g, c, j) == [g EXCEPT !.members = @ \cup {Owner, c, j}]

\* It differs from the creator's copy in the members it lists.
IsInvitation(h, g, c, j) ==
    /\ h \in Replica
    /\ h.epoch = g.epoch /\ h.certs = g.certs /\ h.removed = g.removed
    /\ h.members = g.members \cup {Owner, c, j} /\ h.admins = g.admins
    /\ h.ver = g.ver /\ h.actor = g.actor /\ h.op = g.op /\ h.meta = g.meta

LEMMA InvitedFields ==
    ASSUME NEW g \in Replica, NEW c \in Peers, NEW j \in Peers
    PROVE  IsInvitation(Invited(g, c, j), g, c, j)
BY PeersAssumption DEF IsInvitation, Invited, Replica

(* The owner is a member of the copy it loads, and no merge leaves it out. *)
LEMMA OwnerLoads ==
    ASSUME NEW g \in Replica
    PROVE  Owner \in Loaded(g, Owner).members
<1> DEFINE h == Loaded(g, Owner)
<1>1. /\ h.removed = (g.removed \cup Targets(g.certs)) \ {Owner}
      /\ h.members = IF Owner \in h.removed THEN g.members \ h.removed
                     ELSE (g.members \ h.removed) \cup {Owner}
  BY LoadedFields, PeersAssumption DEF IsLoad
<1> HIDE DEF h
<1> QED
  BY <1>1 DEF h

LEMMA OwnerMerges ==
    ASSUME NEW g \in Replica, Sound(g), Owner \in g.members, NEW s \in Replica, NEW q \in Peers
    PROVE  /\ mergeLocalGroupManifest(g, s, q, Owner) # NoGroup
           /\ acceptMembership(g, s, q, Owner) # NoGroup
<1>0. g # NoGroup
  BY NoGroupAssumption
<1>1. CASE Resolvable(g, s, q)
  <2> DEFINE h == Merged(g, s, q)
  <2>1. h \in Replica /\ h # NoGroup
    BY MergedType, NoGroupAssumption
  <2>2. Owner \notin h.removed
    BY <1>1, MergedKeeps DEF Keeps, Sound
  <2>3. h.members = MergedMembers(g, s) \ h.removed
    BY MergedFields DEF IsMerge
  <2>4. Owner \in MergedMembers(g, s)
    BY <1>1 DEF Resolvable, MergedMembers
  <2> HIDE DEF h
  <2>5. Owner \in h.members
    BY <2>2, <2>3, <2>4
  <2> QED
    BY <1>0, <1>1, <2>1, <2>5
       DEF mergeLocalGroupManifest, acceptMembership, resolveLocalGroupManifest, h
<1>2. CASE ~Resolvable(g, s, q)
  BY <1>0, <1>2 DEF mergeLocalGroupManifest, acceptMembership, resolveLocalGroupManifest
<1> QED
  BY <1>1, <1>2

\* What an accepted invite of c leaves of s at the joiner j.
Accepted(j, s, c, x) ==
    IF db[j] = NoGroup THEN x = s
    ELSE /\ Loaded(db[j], j) \in Readable
         /\ \/ x = NoGroup /\ j # Owner
            \/ x = Loaded(db[j], j)
            \/ /\ Resolvable(Loaded(db[j], j), s, c)
               /\ x = Merged(Loaded(db[j], j), s, c)

(* An accepted invite brings the creator's new revision g, the joiner's    *)
(* copy s of it and what the joiner makes of that one, x.                  *)
Joins(c, j, g, s, x, id) ==
    /\ c # j /\ g \in Replica /\ s \in Replica
    /\ IsInvitation(s, g, c, j) /\ Accepted(j, s, c, x)
    /\ Replicas' \subseteq Replicas \cup {g} \cup ({x} \ {NoGroup})
    /\ id \in Ids \ used /\ used' = used \cup {id} /\ UNCHANGED <<net, delegated>>
    /\ db'[c] = g /\ db'[j] = x /\ \A r \in Peers \ {c, j} : db'[r] = db[r]
    /\ \A r \in Peers : held'[r] # Idle => held'[r] = held[r]

LEMMA JoinChanges ==
    ASSUME TypeOK, RemovalInv, NEW c \in Peers, NEW j \in Peers, Join(c, j)
    PROVE  \E b, g, s, x, id :
              /\ Base(c, b) /\ CanAdd(b, c, j) /\ IsAddition(g, b, c, j, id)
              /\ Joins(c, j, g, s, x, id)
<1>1. PICK b \in Bases(c), id \in Ids \ used :
        LET g == Added(b[1], c, j, id)
            s == [g EXCEPT !.members = @ \cup {Owner, c, j}]
        IN  /\ c # j /\ CanAdd(b[1], c, j)
            /\ db' = [db EXCEPT ![c] = g,
                                ![j] = IF db[j] = NoGroup THEN s
                                       ELSE mergeLocalGroupManifest(Loaded(db[j], j), s, c, j)]
            /\ held' = b[2]
            /\ used' = used \cup {id}
            /\ UNCHANGED <<net, links, delegated>>
  BY DEF Join
<1> DEFINE g == Added(b[1], c, j, id)
           s == Invited(g, c, j)
           x == IF db[j] = NoGroup THEN s
                ELSE mergeLocalGroupManifest(Loaded(db[j], j), s, c, j)
<1>2. /\ c # j /\ CanAdd(b[1], c, j) /\ db' = [db EXCEPT ![c] = g, ![j] = x]
      /\ held' = b[2] /\ used' = used \cup {id} /\ UNCHANGED <<net, delegated>>
  BY <1>1 DEF Invited
<1>3. Base(c, b[1]) /\ \A r \in Peers : b[2][r] # Idle => b[2][r] = held[r]
  BY BasesAre
<1>4. b[1] \in Replica
  BY <1>3 DEF Base
<1>5. g \in Replica /\ IsAddition(g, b[1], c, j, id)
  BY <1>4, AddedType, AddedFields
<1> HIDE DEF g
<1>6. IsInvitation(s, g, c, j)
  BY <1>5, InvitedFields
<1>7. s \in Replica
  BY <1>6 DEF IsInvitation
<1> HIDE DEF s
<1>8. Accepted(j, s, c, x)
  <2>1. CASE db[j] = NoGroup
    BY <2>1 DEF Accepted
  <2>2. CASE db[j] # NoGroup
    <3> DEFINE l == Loaded(db[j], j)
    <3>1. l \in Readable /\ l \in Replica /\ Sound(l)
      BY <2>2, ReplicasAre, ReplicasAreTyped, LoadedKeeps DEF RemovalInv, Copies, Keeps, TypeOK
    <3>2. j = Owner => Owner \in l.members
      BY <2>2, OwnerLoads DEF TypeOK
    <3>3. x = mergeLocalGroupManifest(l, s, c, j)
      BY <2>2
    <3> HIDE DEF x, l
    <3>4. x = NoGroup \/ x = l \/ (Resolvable(l, s, c) /\ x = Merged(l, s, c))
      BY <3>3 DEF mergeLocalGroupManifest, resolveLocalGroupManifest
    <3>5. j = Owner => x # NoGroup
      BY <1>7, <3>1, <3>2, <3>3, OwnerMerges
    <3> QED
      BY <2>2, <3>1, <3>4, <3>5 DEF Accepted, l
  <2> QED
    BY <2>1, <2>2
<1> HIDE DEF x
<1>9. db'[c] = g /\ db'[j] = x /\ \A r \in Peers \ {c, j} : db'[r] = db[r]
  BY <1>2 DEF TypeOK
<1>10. \A r \in Peers : held'[r] # Idle => held'[r] = held[r]
  BY <1>2, <1>3
<1> DEFINE S == Replicas \cup {g} \cup ({x} \ {NoGroup})
<1>11. Replicas' \subseteq S
  <2>1. \A r \in Peers : db'[r] # NoGroup => db'[r] \in S
    BY <1>9, ReplicasAre
  <2>2. /\ \A r \in Peers : held'[r] \in Edit \cup Merge => held'[r].base \in S
        /\ \A r \in Peers : held'[r] \in Check \cup Merge => held'[r].group \in S
    BY <1>10, ReplicasAre, IdleAssumption
  <2>3. \A m \in net' : m \in Snapshot => m.group \in S
    BY <1>2, ReplicasAre
  <2> HIDE DEF S
  <2> QED
    BY <2>1, <2>2, <2>3, ReplicasFrame
<1>12. Joins(c, j, g, s, x, id)
  BY <1>2, <1>5, <1>6, <1>7, <1>8, <1>9, <1>10, <1>11 DEF Joins
<1> QED
  BY <1>2, <1>3, <1>5, <1>12

----------------------------------------------------------------------------
(* Administrators are appointed by the owner.                              *)

(* Loading and merging list nobody who was not listed for the epoch.       *)
LEMMA LoadedRoles ==
    ASSUME NEW g \in Replica, NEW p \in Peers, RolesDelegated(g)
    PROVE  RolesDelegated(Loaded(g, p))
<1> DEFINE h == Loaded(g, p)
<1>1. h.epoch = g.epoch /\ h.admins = (g.admins \ {Owner}) \cap (g.members \ h.removed)
  BY LoadedFields DEF IsLoad
<1> HIDE DEF h
<1>2. Owner \notin h.admins /\ h.admins \subseteq g.admins
  BY <1>1
<1> QED
  BY <1>1, <1>2 DEF RolesDelegated, h

LEMMA MergedRolesDelegated ==
    ASSUME NEW g \in Replica, NEW s \in Replica, NEW q \in Peers,
           RolesDelegated(g), RolesDelegated(s)
    PROVE  RolesDelegated(Merged(g, s, q))
<1>1. g.epoch \in Nat /\ s.epoch \in Nat
  BY DEF Replica
<1> DEFINE h == Merged(g, s, q)
<1>2. IsMerge(h, g, s)
  BY MergedFields
<1> HIDE DEF h
<1>3. /\ h.epoch = IF g.epoch > s.epoch THEN g.epoch ELSE s.epoch
      /\ Owner \notin h.admins
      /\ s.epoch > g.epoch => h.admins \subseteq s.admins
      /\ s.epoch < g.epoch => h.admins \subseteq g.admins
      /\ s.epoch = g.epoch => h.admins \subseteq s.admins \/ h.admins \subseteq g.admins
  BY <1>1, <1>2 DEF IsMerge, Larger
<1> QED
  BY <1>1, <1>3 DEF RolesDelegated, h

LEMMA ReadableRoles ==
    ASSUME TypeOK, RoleInv, NEW h, Arisen(h)
    PROVE  RolesDelegated(h)
<1>1. \A g \in Readable : RolesDelegated(g)
  BY LoadedRoles, ReplicasAre DEF Readable, RoleInv, Copies, TypeOK
<1>2. CASE h \in Readable
  BY <1>1, <1>2
<1>3. CASE h \notin Readable
  <2>1. PICK g \in Readable, s \in Replicas, q \in Peers :
          Resolvable(g, s, q) /\ h = Merged(g, s, q)
    BY <1>3 DEF Arisen
  <2> QED
    BY <1>1, <2>1, ReplicasAreTyped, MergedRolesDelegated DEF RoleInv
<1> QED
  BY <1>2, <1>3

(* Every step keeps the appointments of all replicas.                      *)
LEMMA RolesStep ==
    ASSUME TypeOK, RemovalInv, RoleInv, [Next]_vars
    PROVE  RoleInv'
<1>0. \A g \in Replicas : RolesDelegated(g)
  BY DEF RoleInv
<1>1. \A g \in Readable : g \in Replica /\ RolesDelegated(g)
  BY ReplicasAreTyped, ReadableRoles DEF Arisen
<1>2. ASSUME NEW h, RolesDelegated(h), delegated \subseteq delegated'
      PROVE  Owner \notin h.admins /\ {h.epoch} \X h.admins \subseteq delegated'
  BY <1>2 DEF RolesDelegated
<1>3. (\A h \in Replicas' : Owner \notin h.admins /\ {h.epoch} \X h.admins \subseteq delegated')
         => RoleInv'
  BY DEF RoleInv, RolesDelegated
<1>4. CASE Quiet
  BY <1>2, <1>3, <1>4, QuietReplicas, ReadableRoles
<1>5. ASSUME NEW p \in Peers, UpdateGroup(p) PROVE RoleInv'
  <2>1. PICK b, x, id : /\ Base(p, b) /\ Changes(p, x, id) /\ IsProfile(x, b, p, id)
                        /\ UNCHANGED delegated
    BY <1>5, UpdateChanges
  <2>2. RolesDelegated(b) /\ x.epoch = b.epoch /\ x.admins = b.admins
    BY <1>1, <2>1 DEF Base, IsProfile
  <2>3. RolesDelegated(x)
    BY <2>2 DEF RolesDelegated
  <2> QED
    BY <1>0, <1>2, <1>3, <2>1, <2>3 DEF Changes
<1>6. ASSUME NEW t \in Peers, SetAdministrator(t) PROVE RoleInv'
  <2>1. PICK b, x, id : /\ Base(Owner, b) /\ Changes(Owner, x, id) /\ IsAppointment(x, b, t, id)
                        /\ t # Owner
                        /\ delegated' = delegated \cup ({x.epoch} \X x.admins)
    BY <1>6, AppointmentChanges
  <2>2. RolesDelegated(b) /\ x.admins \subseteq b.admins \cup {t}
    BY <1>1, <2>1 DEF Base, IsAppointment
  <2>3. Owner \notin x.admins /\ {x.epoch} \X x.admins \subseteq delegated'
    BY <2>1, <2>2 DEF RolesDelegated
  <2> QED
    BY <1>0, <1>2, <1>3, <2>1, <2>3 DEF Changes
<1>7. ASSUME NEW p \in Peers, NEW t \in Peers, RemoveMember(p, t) PROVE RoleInv'
  <2>1. PICK b, x, id : /\ Base(p, b) /\ Changes(p, x, id) /\ IsRemoval(x, b, p, t, id)
                        /\ CanRemove(b, p, t)
                        /\ delegated' = IF p = Owner /\ t \in b.admins
                                          THEN delegated \cup ({x.epoch} \X x.admins)
                                          ELSE delegated
    BY <1>7, RemovalChanges
  <2>2. /\ RolesDelegated(b) /\ x.admins = b.admins \ {t}
        /\ x.epoch = IF t \in b.admins THEN b.epoch + 1 ELSE b.epoch
    BY <1>1, <2>1 DEF Base, IsRemoval
  <2>3. p # Owner => t \notin b.admins
    BY <2>1 DEF CanRemove
  <2>4. Owner \notin x.admins /\ {x.epoch} \X x.admins \subseteq delegated'
    BY <2>1, <2>2, <2>3 DEF RolesDelegated
  <2>5. delegated \subseteq delegated'
    BY <2>1
  <2> QED
    BY <1>0, <1>2, <1>3, <2>1, <2>4, <2>5 DEF Changes
<1>8. ASSUME RepairAliases PROVE RoleInv'
  <2>1. PICK b, x, id, a : /\ Base(Owner, b) /\ Changes(Owner, x, id) /\ IsRepair(x, b, a, id)
                           /\ UNCHANGED delegated
    BY <1>8, RepairChanges
  <2>2. RolesDelegated(b) /\ x.epoch = b.epoch /\ x.admins = b.admins
    BY <1>1, <2>1 DEF Base, IsRepair
  <2>3. RolesDelegated(x)
    BY <2>2 DEF RolesDelegated
  <2> QED
    BY <1>0, <1>2, <1>3, <2>1, <2>3 DEF Changes
<1>9. ASSUME NEW c \in Peers, NEW j \in Peers, Join(c, j) PROVE RoleInv'
  <2>1. PICK b, g, s, x, id : /\ Base(c, b) /\ IsAddition(g, b, c, j, id)
                              /\ Joins(c, j, g, s, x, id)
    BY <1>9, JoinChanges
  <2>2. /\ RolesDelegated(b) /\ g.epoch = b.epoch /\ g.admins = b.admins
        /\ s.epoch = g.epoch /\ s.admins = g.admins /\ s \in Replica
    BY <1>1, <2>1 DEF Base, IsAddition, Joins, IsInvitation
  <2>3. RolesDelegated(g) /\ RolesDelegated(s)
    BY <2>2 DEF RolesDelegated
  <2>4. x # NoGroup => RolesDelegated(x)
    <3>1. Accepted(j, s, c, x)
      BY <2>1 DEF Joins
    <3> QED
      BY <1>1, <2>2, <2>3, <3>1, MergedRolesDelegated DEF Accepted
  <2>5. /\ \A h \in Replicas' : h \in Replicas \/ h = g \/ (h = x /\ x # NoGroup)
        /\ delegated' = delegated
    BY <2>1 DEF Joins
  <2> QED
    BY <1>0, <1>2, <1>3, <2>3, <2>4, <2>5
<1> QED
  BY <1>4, <1>5, <1>6, <1>7, <1>8, <1>9 DEF Next, LocalEdit, OwnerEdit, Quiet

(* They hold at the start: every copy is the one the owner made.           *)
LEMMA InitialReplicas ==
    ASSUME Init
    PROVE  /\ Replicas \subseteq {InitialReplica}
           /\ \A p \in Peers : held[p] = Idle
           /\ net = {}
BY IdleAssumption DEF Init, Replicas, Copies

LEMMA RolesInit == Init => RoleInv
<1> SUFFICES ASSUME Init PROVE RoleInv
  OBVIOUS
<1>1. RolesDelegated(InitialReplica)
  BY InitialAssumption DEF Init, RolesDelegated, InitialReplica
<1> QED
  BY <1>1, InitialReplicas, IdleAssumption DEF RoleInv

(* Whoever any peer takes for an administrator of some epoch was appointed *)
(* in that epoch by the owner, for any peers and bounds, with operations   *)
(* that overlap anywhere, the owner's own included, whatever snapshots,    *)
(* invites, departures and losses come between.                            *)
THEOREM RolesComeFromTheOwner == Spec => []OnlyOwnerDelegates
<1>1. TypeOK /\ RemovalInv /\ RoleInv /\ [Next]_vars => RoleInv'
  BY RolesStep
<1>2. RoleInv => OnlyOwnerDelegates
  BY ReplicasAre DEF RoleInv, RolesDelegated, OnlyOwnerDelegates, Copies
<1>3. TypeOK /\ RemovalInv /\ [Next]_vars => RemovalInv'
  BY RemovalStep DEF Kept
<1> QED
  BY <1>1, <1>2, <1>3, RolesInit, RemovalInit, GroupTyping, PTL DEF Spec

----------------------------------------------------------------------------
(* Removals are certified.                                                 *)

\* One certificate for each target.
OnePerTarget(certs) == \A c, d \in certs : c.target = d.target => c = d

(* Merging two sets of certificates that agree on the identifiers keeps    *)
(* one certificate for every target of both, as long as there is room for  *)
(* a certificate of every peer.                                            *)
LEMMA MergedCertificates ==
    ASSUME IsFiniteSet(Peers), Cardinality(Peers) <= MaxRevocations,
           NEW left \in SUBSET Certificate, NEW right \in SUBSET Certificate,
           OnePerTarget(left), OnePerTarget(right),
           \A c, d \in left \cup right : c.target = d.target /\ c.id = d.id => c = d
    PROVE  /\ OnePerTarget(mergeGroupRevocations(left, right))
           /\ Targets(mergeGroupRevocations(left, right)) = Targets(left) \cup Targets(right)
<1> DEFINE both == left \cup right
           newest == {c \in both : \A d \in both :
                                      d.target = c.target /\ d # c => NewerCertificate(c, d)}
           Below(c) == {d \in newest : d.target < c.target}
<1>0. \A c \in both : /\ c.mver \in Nat /\ c.id \in Nat /\ c.target \in Peers
                      /\ c.target \in Nat
  <2> SUFFICES ASSUME NEW c \in both
               PROVE  /\ c.mver \in Nat /\ c.id \in Nat /\ c.target \in Peers
                      /\ c.target \in Nat
    OBVIOUS
  <2>1. c \in Certificate
    OBVIOUS
  <2>2. c.mver \in Nat /\ c.id \in Ids /\ c.target \in Peers
    BY <2>1 DEF Certificate
  <2>3. Ids \subseteq Nat
    BY BoundsAssumption DEF Ids
  <2>4. c.target \in Nat
    BY <2>2, PeersAssumption
  <2> QED
    BY <2>2, <2>3, <2>4
<1>1. OnePerTarget(newest)
  <2> SUFFICES ASSUME NEW c \in newest, NEW d \in newest, c.target = d.target, c # d
               PROVE  FALSE
    BY DEF OnePerTarget
  <2>1. NewerCertificate(c, d) /\ NewerCertificate(d, c)
    OBVIOUS
  <2> QED
    BY <1>0, <2>1 DEF NewerCertificate
<1>2. ASSUME NEW c \in both
      PROVE  \E e \in newest : e.target = c.target
  <2>1. CASE \A d \in both : d.target = c.target => d = c
    BY <2>1
  <2>2. CASE \E d \in both : d.target = c.target /\ d # c
    <3>1. PICK d \in both : d.target = c.target /\ d # c
      BY <2>2
    <3>2. \A e \in both : e.target = c.target => e = c \/ e = d
      BY <3>1 DEF OnePerTarget
    <3>3. c.id # d.id
      BY <3>1
    <3>4. NewerCertificate(c, d) \/ NewerCertificate(d, c)
      BY <1>0, <3>3 DEF NewerCertificate
    <3>5. NewerCertificate(c, d) => c \in newest
      BY <3>2
    <3>6. NewerCertificate(d, c) => d \in newest
      BY <3>1, <3>2
    <3> QED
      BY <3>1, <3>4, <3>5, <3>6
  <2> QED
    BY <2>1, <2>2
<1>3. ASSUME NEW c \in newest
      PROVE  Cardinality(Below(c)) < MaxRevocations
  <2> DEFINE others == Peers \ {c.target}
             f == [d \in Below(c) |-> d.target]
  <2>1. c.target \in Peers /\ c.target \in Nat
    BY <1>0
  <2>2. IsFiniteSet(others) /\ Cardinality(others) = Cardinality(Peers) - 1
    BY <2>1, FS_RemoveElement
  <2>3. \A d \in Below(c) : d \in newest /\ d.target \in others
    BY <1>0, <2>1
  <2>4. f \in [Below(c) -> others]
    BY <2>3
  <2>5. \A a, b \in DOMAIN f : f[a] = f[b] => a = b
    BY <1>1, <2>3 DEF OnePerTarget
  <2>6. f \in Injection(Below(c), others)
    BY <2>4, <2>5 DEF Injection, IsInjective
  <2> HIDE DEF f, others, newest
  <2>7. Cardinality(Below(c)) <= Cardinality(others) /\ IsFiniteSet(Below(c))
    BY <2>2, <2>6, FS_Injection
  <2>8. Cardinality(Below(c)) \in Nat /\ Cardinality(Peers) \in Nat
    BY <2>7, FS_CardinalityType
  <2> QED
    BY <2>2, <2>7, <2>8, BoundsAssumption
<1>4. mergeGroupRevocations(left, right) = newest
  <2>1. mergeGroupRevocations(left, right)
          = {c \in newest : Cardinality(Below(c)) < MaxRevocations}
    BY DEF mergeGroupRevocations
  <2> HIDE DEF newest, Below
  <2> QED
    BY <1>3, <2>1
<1>5. Targets(newest) = Targets(left) \cup Targets(right)
  BY <1>2 DEF Targets
<1> HIDE DEF newest
<1> QED
  BY <1>1, <1>4, <1>5

AuthorityInv == EpochInv /\ CertificateInv

\* There is room for a certificate against every peer.
RoomForAll == IsFiniteSet(Peers) /\ Cardinality(Peers) <= MaxRevocations

\* What the invariant says of one replica.
Solid(h) ==
    /\ h.certs \subseteq Issued
    /\ Certified(h) /\ Enrolled(h)
    /\ h.epoch <= db[Owner].epoch

LEMMA IssuedAre ==
    ASSUME TypeOK
    PROVE  /\ \A h \in Replicas : h.certs \subseteq Issued
           /\ \A m \in net : m \in Revocation => m.cert \in Issued
           /\ Issued \subseteq Certificate
<1>1. \A h \in Replicas : h.certs \subseteq Certificate
  BY ReplicasAreTyped DEF Replica
<1> DEFINE kept == UNION {g.certs : g \in Replicas}
           sent == {m.cert : m \in net \cap Revocation}
<1>0. Issued = kept \cup sent
  BY DEF Issued
<1>2. \A m \in net : m \in Revocation => m.cert \in Issued /\ m.cert \in Certificate
  <2>1. \A m \in net : m \in Revocation => m.cert \in sent
    OBVIOUS
  <2>2. \A m \in Revocation : m.cert \in Certificate
    BY DEF Revocation
  <2> HIDE DEF kept, sent
  <2> QED
    BY <1>0, <2>1, <2>2
<1>3. \A h \in Replicas : h.certs \subseteq Issued
  BY <1>0
<1>4. \A c \in Issued : \/ \E h \in Replicas : c \in h.certs
                       \/ \E m \in net \cap Revocation : c = m.cert
  <2>1. \A c \in kept : \E h \in Replicas : c \in h.certs
    OBVIOUS
  <2>2. \A c \in sent : \E m \in net \cap Revocation : c = m.cert
    OBVIOUS
  <2> HIDE DEF kept, sent
  <2> QED
    BY <1>0, <2>1, <2>2
<1>5. Issued \subseteq Certificate
  BY <1>1, <1>2, <1>4
<1> QED
  BY <1>2, <1>3, <1>5

LEMMA ReplicasAreSolid ==
    ASSUME TypeOK, AuthorityInv, NEW h \in Replicas
    PROVE  Solid(h)
BY IssuedAre DEF Solid, AuthorityInv, EpochInv, CertificateInv

\* What is known of the certificates and appointments there are.
LEMMA CertificatesAre ==
    ASSUME AuthorityInv
    PROVE  /\ Owner \notin Targets(Issued)
           /\ \A c, d \in Issued : c.target = d.target /\ c.id = d.id => c = d
           /\ \A e : <<e, Owner>> \notin delegated
BY DEF AuthorityInv, EpochInv, CertificateInv, Authorized, Targets

(* A load keeps the certificates, and lists whoever it does not hide.      *)
LEMMA LoadedSolid ==
    ASSUME AuthorityInv, NEW g \in Replica, NEW p \in Peers, Solid(g)
    PROVE  Solid(Loaded(g, p))
<1> DEFINE h == Loaded(g, p)
<1>1. IsLoad(h, g, p)
  BY LoadedFields
<1> HIDE DEF h
<1>2. h.epoch = g.epoch /\ h.certs = g.certs
  BY <1>1 DEF IsLoad
<1>3. Owner \notin Targets(g.certs)
  BY CertificatesAre DEF Solid, Targets
<1>4. h.removed = g.removed
  <2>1. h.removed = (g.removed \cup Targets(g.certs)) \ {Owner}
    BY <1>1 DEF IsLoad
  <2> QED
    BY <1>3, <2>1 DEF Solid, Certified
<1>5. Certified(h)
  BY <1>2, <1>4 DEF Solid, Certified
<1>6. /\ h.members = IF p \in h.removed THEN g.members \ h.removed
                     ELSE (g.members \ h.removed) \cup {p}
      /\ h.admins = (g.admins \ {Owner}) \cap (g.members \ h.removed)
  BY <1>1 DEF IsLoad
<1>7. Enrolled(h)
  BY <1>2, <1>4, <1>6, CertificatesAre DEF Solid, Enrolled
<1> QED
  BY <1>2, <1>5, <1>7 DEF Solid, h

(* A merge keeps a certificate for every tombstone of both sides, and      *)
(* lists whoever the newer epoch appointed and neither side removed.       *)
LEMMA MergedSolid ==
    ASSUME RoomForAll, AuthorityInv, NEW g \in Replica, NEW s \in Replica, NEW q \in Peers,
           Solid(g), Solid(s)
    PROVE  Solid(Merged(g, s, q))
<1> DEFINE h == Merged(g, s, q)
<1>1. IsMerge(h, g, s)
  BY MergedFields
<1> HIDE DEF h
<1>2. h.epoch = Larger(g.epoch, s.epoch) /\ h.certs = mergeGroupRevocations(g.certs, s.certs)
  BY <1>1 DEF IsMerge
<1>3. /\ g.epoch \in Nat /\ s.epoch \in Nat
      /\ g.certs \in SUBSET Certificate /\ s.certs \in SUBSET Certificate
  BY DEF Replica
<1>4. OnePerTarget(g.certs) /\ OnePerTarget(s.certs)
  BY DEF Solid, Certified, OnePerTarget
<1>5. \A c, d \in g.certs \cup s.certs : c.target = d.target /\ c.id = d.id => c = d
  BY CertificatesAre DEF Solid
<1>6. OnePerTarget(h.certs) /\ Targets(h.certs) = Targets(g.certs) \cup Targets(s.certs)
  BY <1>2, <1>3, <1>4, <1>5, MergedCertificates DEF RoomForAll
<1>7. h.removed = g.removed \cup s.removed \cup Targets(h.certs)
  BY <1>1 DEF IsMerge
<1>8. h.removed = Targets(h.certs) /\ h.removed = g.removed \cup s.removed
  BY <1>6, <1>7 DEF Solid, Certified
<1>9. h.certs \subseteq Issued
  BY <1>2, MergeAddsNothing DEF Solid
<1>10. h.epoch <= db[Owner].epoch
  BY <1>2 DEF Solid, Larger
<1>11. h.members = MergedMembers(g, s) \ h.removed
  BY <1>1 DEF IsMerge
<1>12. Enrolled(h)
  <2> SUFFICES ASSUME NEW a \in Peers, <<h.epoch, a>> \in delegated, a \notin h.removed
               PROVE  a \in h.members \cap h.admins
    BY DEF Enrolled
  <2>1. a # Owner
    BY CertificatesAre
  <2>2. a \notin g.removed /\ a \notin s.removed
    BY <1>8
  <2>3. CASE s.epoch > g.epoch
    <3>1. h.epoch = s.epoch /\ h.admins = (s.admins \cap h.members) \ {Owner}
          /\ MergedMembers(g, s) = s.members
      BY <1>1, <1>2, <1>3, <2>3 DEF IsMerge, Larger, MergedMembers
    <3> QED
      BY <1>11, <2>1, <2>2, <3>1 DEF Solid, Enrolled
  <2>4. CASE s.epoch < g.epoch
    <3>1. h.epoch = g.epoch /\ h.admins = (g.admins \cap h.members) \ {Owner}
          /\ MergedMembers(g, s) = g.members
      BY <1>1, <1>2, <1>3, <2>4 DEF IsMerge, Larger, MergedMembers
    <3> QED
      BY <1>11, <2>1, <2>2, <3>1 DEF Solid, Enrolled
  <2>5. CASE s.epoch = g.epoch
    <3>1. h.epoch = s.epoch /\ h.epoch = g.epoch
          /\ MergedMembers(g, s) = g.members \cup s.members
      BY <1>2, <1>3, <2>5 DEF Larger, MergedMembers
    <3>2. \/ h.admins = (s.admins \cap h.members) \ {Owner}
          \/ h.admins = (g.admins \cap h.members) \ {Owner}
      BY <1>1, <2>5 DEF IsMerge
    <3>3. a \in g.members \cap g.admins /\ a \in s.members \cap s.admins
      BY <2>2, <3>1 DEF Solid, Enrolled
    <3> QED
      BY <1>11, <2>1, <3>1, <3>2, <3>3
  <2> QED
    BY <1>3, <2>3, <2>4, <2>5
<1> QED
  BY <1>6, <1>8, <1>9, <1>10, <1>12 DEF Solid, Certified, OnePerTarget, h

LEMMA ReadableSolid ==
    ASSUME TypeOK, RoomForAll, AuthorityInv, NEW h, Arisen(h)
    PROVE  Solid(h)
<1>1. \A g \in Readable : Solid(g)
  <2>1. \A p \in Copies : db[p] \in Replica /\ Solid(db[p])
    BY ReplicasAreSolid, ReplicasAre, ReplicasAreTyped DEF Copies
  <2> QED
    BY <2>1, LoadedSolid, ReplicasAreSolid DEF Readable, Copies
<1>2. CASE h \in Readable
  BY <1>1, <1>2
<1>3. CASE h \notin Readable
  <2>1. PICK g \in Readable, s \in Replicas, q \in Peers :
          Resolvable(g, s, q) /\ h = Merged(g, s, q)
    BY <1>3 DEF Arisen
  <2>2. g \in Replica /\ s \in Replica /\ Solid(g) /\ Solid(s)
    BY <1>1, <2>1, ReplicasAreTyped, ReplicasAreSolid
  <2> QED
    BY <2>1, <2>2, MergedSolid
<1> QED
  BY <1>2, <1>3

(* What a step owes the invariant.                                         *)
LEMMA AuthorityFrame ==
    ASSUME TypeOK, AuthorityInv,
           db'[Owner] # NoGroup, db[Owner].epoch \in Nat, db'[Owner].epoch \in Nat,
           db'[Owner].epoch >= db[Owner].epoch,
           used \subseteq used', delegated \subseteq delegated',
           \A d \in delegated' : \/ d \in delegated
                                 \/ /\ d[1] = db'[Owner].epoch /\ d[2] # Owner
                                    /\ db'[Owner].epoch > db[Owner].epoch,
           Replicas' \subseteq Replica,
           \A h \in Replicas' \ Replicas :
              /\ Certified(h) /\ h.epoch <= db'[Owner].epoch
              /\ \A a \in Peers : <<h.epoch, a>> \in delegated' =>
                    a \in h.removed \/ a \in h.members \cap h.admins,
           \A c \in Issued' \ Issued :
              /\ c.target # Owner /\ c.epoch <= db'[Owner].epoch
              /\ c.issuer # Owner => /\ <<c.epoch, c.issuer>> \in delegated'
                                     /\ <<c.epoch, c.target>> \notin delegated'
              /\ c.id \in used' \ used
              /\ \A d \in Issued' \ Issued : c.target = d.target /\ c.id = d.id => c = d,
           \A m \in net' : m \in Revocation => m.cert.target = m.to
    PROVE  AuthorityInv'
<1>1. \A h \in Replicas : h \in Replica /\ Solid(h)
  BY ReplicasAreTyped, ReplicasAreSolid
<1>2. \A d \in delegated' : d[1] <= db'[Owner].epoch /\ d[2] # Owner
  BY DEF AuthorityInv, EpochInv, TypeOK
<1>3. \A h \in Replicas' : h.epoch <= db'[Owner].epoch
  BY <1>1 DEF Solid, Replica
<1>4. \A c \in Issued : c.epoch <= db[Owner].epoch /\ c.epoch \in Nat /\ c.target # Owner
                        /\ c.id \in used
  BY IssuedAre DEF AuthorityInv, EpochInv, CertificateInv, Authorized, Certificate
<1>5. ASSUME NEW c \in Issued' PROVE c.epoch <= db'[Owner].epoch
  <2>1. CASE c \in Issued
    <3>1. c.epoch \in Nat /\ c.epoch <= db[Owner].epoch
      BY <1>4, <2>1
    <3> QED
      BY <3>1
  <2>2. CASE c \notin Issued
    BY <2>2
  <2> QED
    BY <2>1, <2>2
<1>6. EpochInv'
  BY <1>2, <1>3, <1>5 DEF EpochInv
<1>7. ASSUME NEW e \in Nat, e <= db[Owner].epoch, NEW a, <<e, a>> \in delegated'
      PROVE  <<e, a>> \in delegated
  BY <1>7
<1>8. ASSUME NEW h \in Replicas'
      PROVE  /\ Certified(h)
             /\ \A a \in Peers : <<h.epoch, a>> \in delegated' =>
                   a \in h.removed \/ a \in h.members \cap h.admins
  <2>1. CASE h \in Replicas
    <3>1. h.epoch \in Nat /\ h.epoch <= db[Owner].epoch /\ Certified(h) /\ Enrolled(h)
      BY <1>1, <2>1 DEF Solid, Replica
    <3> QED
      BY <1>7, <3>1 DEF Enrolled
  <2> QED
    BY <2>1
<1>9. ASSUME NEW c \in Issued'
      PROVE  /\ c.target # Owner /\ c.id \in used'
             /\ c.issuer # Owner => /\ <<c.epoch, c.issuer>> \in delegated'
                                    /\ <<c.epoch, c.target>> \notin delegated'
             /\ \A d \in Issued' : c.target = d.target /\ c.id = d.id => c = d
  <2>1. CASE c \in Issued
    <3>1. c.issuer # Owner => /\ <<c.epoch, c.issuer>> \in delegated
                              /\ <<c.epoch, c.target>> \notin delegated
      BY <2>1 DEF AuthorityInv, CertificateInv, Authorized
    <3>2. c.issuer # Owner => /\ <<c.epoch, c.issuer>> \in delegated'
                              /\ <<c.epoch, c.target>> \notin delegated'
      BY <1>4, <1>7, <2>1, <3>1
    <3>3. \A d \in Issued' : c.target = d.target /\ c.id = d.id => c = d
      BY <1>4, <2>1, CertificatesAre
    <3> QED
      BY <1>4, <2>1, <3>2, <3>3
  <2>2. CASE c \notin Issued
    <3>1. \A d \in Issued' : c.target = d.target /\ c.id = d.id => c = d
      BY <1>4, <2>2
    <3> QED
      BY <2>2, <3>1
  <2> QED
    BY <2>1, <2>2
<1>10. (\A h \in Replicas : Enrolled(h) /\ Certified(h))'
  BY <1>8 DEF Enrolled, Certified
<1>11. (\A c \in Issued : /\ Authorized(c) /\ c.id \in used
                          /\ \A d \in Issued : c.target = d.target /\ c.id = d.id => c = d)'
  BY <1>9 DEF Authorized
<1>12. CertificateInv'
  BY <1>10, <1>11 DEF CertificateInv
<1> QED
  BY <1>6, <1>12 DEF AuthorityInv

(* Where the certificates of the next state are.                           *)
LEMMA IssuedFrame ==
    \A c \in Issued' : \/ \E h \in Replicas' : c \in h.certs
                       \/ \E m \in net' : m \in Revocation /\ c = m.cert
<1> DEFINE kept == UNION {g.certs : g \in Replicas'}
           sent == {m.cert : m \in net' \cap Revocation}
<1>1. Issued' = kept \cup sent
  BY DEF Issued
<1>2. \A c \in kept : \E h \in Replicas' : c \in h.certs
  OBVIOUS
<1>3. \A c \in sent : \E m \in net' : m \in Revocation /\ c = m.cert
  OBVIOUS
<1> HIDE DEF kept, sent
<1> QED
  BY <1>1, <1>2, <1>3

(* A certificate is only ever sent to its target, out of a stored copy.    *)
LEMMA QuietRevocations ==
    ASSUME TypeOK, Quiet
    PROVE  \A m \in net' : m \in Revocation =>
              \/ m \in net
              \/ \E p \in Peers : /\ db[p] # NoGroup /\ m.cert \in db[p].certs
                                  /\ m.cert.target = m.to
<1>1. CASE \E p, q \in Peers : SendRevocations(p, q)
  <2>0. PICK p \in Peers, q \in Peers : SendRevocations(p, q)
    BY <1>1
  <2>1. PICK c \in db[p].certs :
          /\ db[p] # NoGroup /\ c.target = q
          /\ net' = net \cup {[kind |-> "revocation", from |-> p, to |-> q, cert |-> c]}
    BY <2>0 DEF SendRevocations, Send
  <2> QED
    BY <2>1
<1>2. CASE \E p, q \in Peers : SendGroupMembership(p, q)
  <2>1. PICK p \in Peers, q \in Peers :
          net' = net \cup {[kind |-> "snapshot", from |-> p, to |-> q,
                            group |-> Loaded(db[p], p)]}
    BY <1>2 DEF SendGroupMembership, Send
  <2> QED
    BY <2>1 DEF Revocation
<1>3. CASE net' \subseteq net
  BY <1>3
<1> QED
  BY <1>1, <1>2, <1>3
     DEF Quiet, BeginEdit, Leave, MergeStep, BeginMerge, EndMerge, AbandonMerge, Exchange,
         Disconnect, Connect, Receive, ReceiveMembership, CheckMembership,
         ReceiveRevocation, Lose, vars

\* What a quiet step may make of the owner's own copy.
OwnerHas(x) ==
    LET l == Loaded(db[Owner], Owner) IN
    \/ x = db[Owner]
    \/ x = l
    \/ \E s \in Replicas, q \in Peers : Resolvable(l, s, q) /\ x = Merged(l, s, q)

(* A steady owner keeps its copy: nothing deletes it, and a merge of its   *)
(* own works on what is stored.                                            *)
LEMMA OwnerKeeps ==
    ASSUME SteadyOwner, TypeOK, RemovalInv, AuthorityInv, Quiet
    PROVE  db'[Owner] # NoGroup /\ OwnerHas(db'[Owner])
<1> DEFINE l == Loaded(db[Owner], Owner)
<1>0. Owner \in Peers
  BY PeersAssumption
<1>1. db[Owner] # NoGroup /\ OwnerHas(db[Owner])
  BY DEF AuthorityInv, EpochInv, OwnerHas
<1>2. db[Owner] \in Replica /\ Sound(db[Owner])
  BY <1>0, <1>1 DEF TypeOK, RemovalInv, Copies
<1>3. l \in Replica /\ Sound(l) /\ Owner \in l.members
  BY <1>0, <1>2, LoadedType, LoadedKeeps, OwnerLoads DEF Keeps
<1>4. held[Owner] \notin Merge
  BY <1>0 DEF SteadyOwner, RemovalInv, HeldSound
<1>5. CASE db'[Owner] = db[Owner]
  BY <1>1, <1>5
<1>6. CASE \E m \in net : ReceiveMembership(m) /\ m.to = Owner
  <2>1. PICK m \in net : ReceiveMembership(m) /\ m.to = Owner
    BY <1>6
  <2>2. m.group \in Replicas /\ m.from \in Peers
    BY <2>1, ReplicasAre DEF ReceiveMembership, Snapshot
  <2>3. m.group \in Replica
    BY <2>2, ReplicasAreTyped
  <2> DEFINE x == acceptMembership(l, m.group, m.from, Owner)
  <2>4. db'[Owner] = x
    BY <1>0, <2>1 DEF ReceiveMembership, TypeOK
  <2>5. x # NoGroup
    BY <1>3, <2>2, <2>3, OwnerMerges
  <2>6. x = NoGroup \/ x = l \/ (Resolvable(l, m.group, m.from)
                                 /\ x = Merged(l, m.group, m.from))
    BY DEF acceptMembership, mergeLocalGroupManifest, resolveLocalGroupManifest
  <2> HIDE DEF x
  <2>7. OwnerHas(x)
    BY <2>2, <2>5, <2>6 DEF OwnerHas
  <2> QED
    BY <2>4, <2>5, <2>7
<1>7. CASE \E m \in net : ReceiveRevocation(m) /\ m.to = Owner
  <2>1. PICK m \in net : ReceiveRevocation(m) /\ m.to = Owner
    BY <1>7
  <2>2. m.cert.target = Owner
    BY <2>1 DEF ReceiveRevocation, AuthorityInv, CertificateInv
  <2>3. ~verifyGroupRevocationCertificate(m.cert, l, FALSE)
    BY <2>2 DEF verifyGroupRevocationCertificate
  <2>4. db'[Owner] = db[Owner]
    BY <1>0, <2>1, <2>3 DEF ReceiveRevocation, TypeOK
  <2> QED
    BY <1>1, <2>4
<1>9. CASE EndMerge(Owner)
  <2>1. PICK b \in MergeBases(Owner) :
          db' = [db EXCEPT ![Owner] =
                   mergeLocalGroupManifest(b, held[Owner].group, held[Owner].from, Owner)]
    BY <1>9 DEF EndMerge
  <2>2. b = l /\ held[Owner] \in Check
    BY <1>4 DEF MergeBases
  <2> DEFINE s == held[Owner].group
             q == held[Owner].from
  <2>3. s \in Replicas /\ s \in Replica /\ q \in Peers
    BY <1>0, <2>2, ReplicasAre, ReplicasAreTyped DEF Check
  <2> DEFINE x == mergeLocalGroupManifest(l, s, q, Owner)
  <2>4. db'[Owner] = x
    BY <1>0, <2>1, <2>2 DEF TypeOK
  <2>5. x # NoGroup
    BY <1>3, <2>3, OwnerMerges
  <2>6. x = NoGroup \/ x = l \/ (Resolvable(l, s, q) /\ x = Merged(l, s, q))
    BY DEF mergeLocalGroupManifest, resolveLocalGroupManifest
  <2> HIDE DEF x
  <2>7. OwnerHas(x)
    BY <2>3, <2>5, <2>6 DEF OwnerHas
  <2> QED
    BY <2>4, <2>5, <2>7
<1>8. \/ db'[Owner] = db[Owner] \/ EndMerge(Owner)
      \/ \E m \in net : (ReceiveMembership(m) \/ ReceiveRevocation(m)) /\ m.to = Owner
  <2>1. CASE \E p \in Peers : Leave(p) \/ EndMerge(p)
    <3>1. PICK p \in Peers : Leave(p) \/ EndMerge(p)
      BY <2>1
    <3>2. p # Owner => db'[Owner] = db[Owner]
      BY <1>0, <3>1 DEF Leave, EndMerge, TypeOK
    <3>3. ~Leave(Owner)
      BY DEF Leave, SteadyOwner
    <3> QED
      BY <3>1, <3>2, <3>3
  <2>2. CASE \E m \in net : ReceiveMembership(m) \/ ReceiveRevocation(m)
    <3>1. PICK m \in net : ReceiveMembership(m) \/ ReceiveRevocation(m)
      BY <2>2
    <3>2. m.to # Owner => db'[Owner] = db[Owner]
      BY <1>0, <3>1 DEF ReceiveMembership, ReceiveRevocation, TypeOK
    <3> QED
      BY <3>1, <3>2
  <2>3. CASE UNCHANGED db
    BY <2>3
  <2> QED
    BY <2>1, <2>2, <2>3
       DEF Quiet, BeginEdit, MergeStep, BeginMerge, AbandonMerge, Exchange,
           SendGroupMembership, SendRevocations, Send, Disconnect, Connect, Receive,
           CheckMembership, Lose, vars
<1> QED
  BY <1>5, <1>6, <1>7, <1>8, <1>9

(* A quiet step keeps the invariant.                                       *)
LEMMA AuthorityQuiet ==
    ASSUME SteadyOwner, RoomForAll, TypeOK, RemovalInv, RoleInv, AuthorityInv, Quiet
    PROVE  AuthorityInv'
<1>1. \A h \in Replicas' : Arisen(h)
  BY QuietReplicas
<1>2. \A h : Arisen(h) => h \in Replica /\ Solid(h)
  <2> SUFFICES ASSUME NEW h, Arisen(h) PROVE h \in Replica
    BY ReadableSolid
  <2> QED
    BY ReplicasAreTyped, MergedType DEF Arisen
<1>3. UNCHANGED <<used, delegated>>
  BY QuietReplicas
<1>4. db'[Owner] # NoGroup /\ OwnerHas(db'[Owner])
  BY OwnerKeeps
<1>5. /\ db[Owner].epoch \in Nat /\ db'[Owner].epoch \in Nat
      /\ db'[Owner].epoch >= db[Owner].epoch
  <2> DEFINE l == Loaded(db[Owner], Owner)
  <2>1. db[Owner] \in Replica
    BY PeersAssumption DEF TypeOK, AuthorityInv, EpochInv
  <2>2. l \in Replica /\ l.epoch = db[Owner].epoch
    BY <2>1, LoadedType, LoadedFields, PeersAssumption DEF IsLoad
  <2> HIDE DEF l
  <2>3. ASSUME NEW s \in Replicas, NEW q \in Peers, db'[Owner] = Merged(l, s, q)
        PROVE  db'[Owner].epoch = Larger(l.epoch, s.epoch) /\ s.epoch \in Nat
    <3>1. s \in Replica
      BY ReplicasAreTyped
    <3>2. IsMerge(Merged(l, s, q), l, s)
      BY <2>2, <3>1, MergedFields
    <3> QED
      BY <2>3, <3>1, <3>2 DEF IsMerge, Replica
  <2>4. db[Owner].epoch \in Nat
    BY <2>1 DEF Replica
  <2>5. \/ db'[Owner].epoch = db[Owner].epoch
        \/ \E e \in Nat : db'[Owner].epoch = Larger(db[Owner].epoch, e)
    BY <1>4, <2>2, <2>3 DEF OwnerHas, l
  <2> QED
    BY <2>4, <2>5 DEF Larger
<1>6. \A m \in net' : m \in Revocation => m.cert \in Issued /\ m.cert.target = m.to
  <2> SUFFICES ASSUME NEW m \in net', m \in Revocation
               PROVE  m.cert \in Issued /\ m.cert.target = m.to
    OBVIOUS
  <2>1. CASE m \in net
    BY <2>1, IssuedAre DEF AuthorityInv, CertificateInv
  <2>2. CASE \E p \in Peers : /\ db[p] # NoGroup /\ m.cert \in db[p].certs
                              /\ m.cert.target = m.to
    BY <2>2, IssuedAre, ReplicasAre
  <2> QED
    BY <2>1, <2>2, QuietRevocations
<1>7. Issued' \subseteq Issued
  BY <1>1, <1>2, <1>6, IssuedFrame DEF Solid
<1>8. \A h \in Replicas' \ Replicas :
         /\ Certified(h) /\ h.epoch <= db'[Owner].epoch
         /\ \A a \in Peers : <<h.epoch, a>> \in delegated' =>
               a \in h.removed \/ a \in h.members \cap h.admins
  <2> SUFFICES ASSUME NEW h \in Replicas'
               PROVE  /\ Certified(h) /\ h.epoch <= db'[Owner].epoch
                      /\ \A a \in Peers : <<h.epoch, a>> \in delegated' =>
                            a \in h.removed \/ a \in h.members \cap h.admins
    OBVIOUS
  <2>1. h \in Replica /\ Certified(h) /\ Enrolled(h) /\ h.epoch <= db[Owner].epoch
    BY <1>1, <1>2 DEF Solid
  <2>2. h.epoch \in Nat
    BY <2>1 DEF Replica
  <2> QED
    BY <1>3, <1>5, <2>1, <2>2 DEF Enrolled
<1> QED
  BY <1>1, <1>2, <1>3, <1>4, <1>5, <1>6, <1>7, <1>8, AuthorityFrame

\* An owner's own edit starts from its copy, and another's leaves it alone.
LEMMA OwnerChanges ==
    ASSUME SteadyOwner, TypeOK, RoomForAll, AuthorityInv, NEW p \in Peers, NEW b, NEW x, NEW id,
           Base(p, b), Changes(p, x, id)
    PROVE  /\ db[Owner] \in Replica
           /\ p = Owner => /\ db'[Owner] = x
                           /\ b.epoch = db[Owner].epoch /\ b.ver = db[Owner].ver
           /\ p # Owner => db'[Owner] = db[Owner]
           /\ Solid(b)
<1>1. db[Owner] \in Replica
  BY PeersAssumption DEF TypeOK, AuthorityInv, EpochInv
<1>2. p = Owner => b = Loaded(db[Owner], Owner)
  BY DEF Base, SteadyOwner
<1>3. IsLoad(Loaded(db[Owner], Owner), db[Owner], Owner)
  BY <1>1, LoadedFields, PeersAssumption
<1>4. p = Owner => b.epoch = db[Owner].epoch /\ b.ver = db[Owner].ver
  BY <1>2, <1>3 DEF IsLoad
<1>5. db' = [db EXCEPT ![p] = x]
  BY DEF Changes
<1>6. Solid(b)
  BY ReadableSolid DEF Base, Arisen
<1> QED
  BY <1>1, <1>4, <1>5, <1>6, PeersAssumption DEF TypeOK

(* An edit that issues the certificates new for the tombstones it adds,    *)
(* and lists whom it appoints, keeps the invariant.                        *)
LEMMA AuthorityChanges ==
    ASSUME SteadyOwner, RoomForAll, TypeOK, AuthorityInv,
           NEW p \in Peers, NEW b, NEW x, NEW id, NEW new \in SUBSET Certificate,
           Base(p, b), Changes(p, x, id),
           \/ x.epoch = b.epoch
           \/ p = Owner /\ x.epoch = b.epoch + 1,
           \/ delegated' = delegated
           \/ /\ p = Owner /\ x.epoch = b.epoch + 1 /\ Owner \notin x.admins
              /\ delegated' = delegated \cup ({x.epoch} \X x.admins),
           \/ x.certs = mergeGroupRevocations(b.certs, new)
           \/ new = {} /\ x.certs = b.certs,
           x.removed = b.removed \cup Targets(new), OnePerTarget(new),
           \A c \in new :
              /\ c.id = id /\ c.target # Owner /\ c.epoch = x.epoch
              /\ c.issuer # Owner => /\ p # Owner
                                     /\ <<c.epoch, c.issuer>> \in delegated
                                     /\ <<c.epoch, c.target>> \notin delegated,
           \A a \in Peers : <<x.epoch, a>> \in delegated' =>
              a \in x.removed \/ a \in x.members \cap x.admins
    PROVE  AuthorityInv'
<1>1. /\ b \in Replica /\ x \in Replica /\ id \in Ids \ used /\ used' = used \cup {id}
      /\ Replicas' \subseteq Replicas \cup {x} /\ net' = net
  BY DEF Base, Changes
<1>2. /\ db[Owner] \in Replica
      /\ p = Owner => db'[Owner] = x /\ b.epoch = db[Owner].epoch
      /\ p # Owner => db'[Owner] = db[Owner]
      /\ Solid(b)
  BY OwnerChanges
<1>3. /\ b.epoch \in Nat /\ x.epoch \in Nat /\ db[Owner].epoch \in Nat
      /\ b.certs \in SUBSET Certificate
  BY <1>1, <1>2 DEF Replica
<1>4. b.epoch <= db[Owner].epoch /\ b.certs \subseteq Issued /\ OnePerTarget(b.certs)
      /\ b.removed = Targets(b.certs)
  BY <1>2 DEF Solid, Certified, OnePerTarget
<1>5. /\ db'[Owner] # NoGroup /\ db'[Owner].epoch \in Nat
      /\ db'[Owner].epoch >= db[Owner].epoch /\ x.epoch <= db'[Owner].epoch
  BY <1>1, <1>2, <1>3, <1>4, NoGroupAssumption
<1>6. \A c \in Issued : c.id \in used
  BY DEF AuthorityInv, CertificateInv
<1>7. OnePerTarget(x.certs) /\ Targets(x.certs) = x.removed /\ x.certs \subseteq b.certs \cup new
  <2>1. CASE new = {} /\ x.certs = b.certs
    BY <1>4, <2>1 DEF Targets
  <2>2. CASE x.certs = mergeGroupRevocations(b.certs, new)
    <3>1. \A c, d \in b.certs \cup new : c.target = d.target /\ c.id = d.id => c = d
      <4>1. \A c, d \in b.certs : c.target = d.target => c = d
        BY <1>4 DEF OnePerTarget
      <4>2. \A c, d \in new : c.target = d.target => c = d
        BY DEF OnePerTarget
      <4>3. \A c \in b.certs, d \in new : c.id # d.id
        <5>1. \A c \in b.certs : c.id \in used
          BY <1>4, <1>6
        <5> QED
          BY <1>1, <5>1
      <4> QED
        BY <4>1, <4>2, <4>3
    <3>2. /\ OnePerTarget(mergeGroupRevocations(b.certs, new))
          /\ Targets(mergeGroupRevocations(b.certs, new)) = Targets(b.certs) \cup Targets(new)
      BY <1>3, <1>4, <3>1, MergedCertificates DEF RoomForAll
    <3> QED
      BY <1>4, <2>2, <3>2, MergeAddsNothing
  <2> QED
    BY <2>1, <2>2
<1>8. Certified(x)
  BY <1>7 DEF Certified, OnePerTarget
<1>9. ASSUME NEW c \in Issued' \ Issued PROVE c \in new
  <2>1. \/ \E h \in Replicas' : c \in h.certs
        \/ \E m \in net' : m \in Revocation /\ c = m.cert
    BY IssuedFrame
  <2>2. c \in x.certs
    BY <1>1, <2>1, IssuedAre
  <2> QED
    BY <1>4, <1>7, <2>2
<1>10. ASSUME NEW c \in Issued' \ Issued
       PROVE  /\ c.target # Owner /\ c.epoch <= db'[Owner].epoch
              /\ c.issuer # Owner => /\ <<c.epoch, c.issuer>> \in delegated'
                                     /\ <<c.epoch, c.target>> \notin delegated'
              /\ c.id \in used' \ used
  <2>1. c \in new
    BY <1>9
  <2>2. c.issuer # Owner => delegated' = delegated
    BY <2>1
  <2> QED
    BY <1>1, <1>5, <2>1, <2>2
<1>11. \A c, d \in Issued' \ Issued : c.target = d.target /\ c.id = d.id => c = d
  BY <1>9 DEF OnePerTarget
<1>12. \A d \in delegated' : \/ d \in delegated
                             \/ /\ d[1] = db'[Owner].epoch /\ d[2] # Owner
                                /\ db'[Owner].epoch > db[Owner].epoch
  <2>1. CASE delegated' = delegated
    BY <2>1
  <2>2. CASE delegated' = delegated \cup ({x.epoch} \X x.admins) /\ delegated' # delegated
    <3>1. p = Owner /\ x.epoch = b.epoch + 1 /\ Owner \notin x.admins
      BY <2>2
    <3>2. db'[Owner].epoch = x.epoch /\ db'[Owner].epoch > db[Owner].epoch
      BY <1>2, <1>3, <3>1
    <3> QED
      BY <2>2, <3>1, <3>2
  <2> QED
    BY <2>1, <2>2
<1>13. \A m \in net' : m \in Revocation => m.cert.target = m.to
  BY <1>1 DEF AuthorityInv, CertificateInv
<1>14. \A h \in Replicas' \ Replicas : h = x
  BY <1>1
<1>15. Replicas' \subseteq Replica
  BY <1>1, ReplicasAreTyped
<1>16. used \subseteq used' /\ delegated \subseteq delegated'
  BY <1>1
<1> QED
  BY <1>3, <1>5, <1>8, <1>10, <1>11, <1>12, <1>13, <1>14, <1>15, <1>16, AuthorityFrame

LEMMA AuthorityUpdate ==
    ASSUME SteadyOwner, RoomForAll, TypeOK, RemovalInv, AuthorityInv,
           NEW p \in Peers, UpdateGroup(p)
    PROVE  AuthorityInv'
<1>1. PICK b, x, id : /\ Base(p, b) /\ Changes(p, x, id) /\ IsProfile(x, b, p, id)
                      /\ UNCHANGED delegated
  BY UpdateChanges
<1>2. /\ x.epoch = b.epoch /\ x.certs = b.certs /\ x.removed = b.removed
      /\ x.members = b.members /\ x.admins = b.admins
  BY <1>1 DEF IsProfile
<1>3. Enrolled(b)
  BY <1>1, OwnerChanges DEF Solid
<1>4. \A a \in Peers : <<x.epoch, a>> \in delegated' =>
         a \in x.removed \/ a \in x.members \cap x.admins
  BY <1>1, <1>2, <1>3 DEF Enrolled
<1>5. x.removed = b.removed \cup Targets({}) /\ OnePerTarget({})
  BY <1>2 DEF Targets, OnePerTarget
<1> QED
  BY <1>1, <1>2, <1>4, <1>5, AuthorityChanges

LEMMA AuthorityAppointment ==
    ASSUME SteadyOwner, RoomForAll, TypeOK, RemovalInv, RoleInv, AuthorityInv,
           NEW t \in Peers, SetAdministrator(t)
    PROVE  AuthorityInv'
<1>0. Owner \in Peers
  BY PeersAssumption
<1>1. PICK b, x, id : /\ Base(Owner, b) /\ Changes(Owner, x, id) /\ IsAppointment(x, b, t, id)
                      /\ t # Owner /\ t \in b.members
                      /\ delegated' = delegated \cup ({x.epoch} \X x.admins)
  BY AppointmentChanges
<1>2. /\ x.epoch = b.epoch + 1 /\ x.certs = b.certs /\ x.removed = b.removed
      /\ x.members = b.members /\ x.admins \subseteq b.admins \cup {t}
  BY <1>1 DEF IsAppointment
<1>3. b \in Replica /\ b.admins \subseteq b.members
  BY <1>1 DEF Base
<1>4. b.epoch = db[Owner].epoch /\ db[Owner] \in Replica
  BY <1>0, <1>1, OwnerChanges
<1>5. \A a : <<x.epoch, a>> \notin delegated
  <2>1. db[Owner].epoch \in Nat
    BY <1>4 DEF Replica
  <2>2. x.epoch \in Nat /\ x.epoch > db[Owner].epoch
    BY <1>2, <1>4, <2>1
  <2> QED
    BY <2>1, <2>2 DEF AuthorityInv, EpochInv
<1>6. \A a \in Peers : <<x.epoch, a>> \in delegated' =>
         a \in x.removed \/ a \in x.members \cap x.admins
  BY <1>1, <1>2, <1>3, <1>5
<1>7. Owner \notin x.admins
  <2>1. RolesDelegated(b)
    BY <1>1, ReadableRoles DEF Base, Arisen
  <2> QED
    BY <1>1, <1>2, <2>1 DEF RolesDelegated
<1>8. x.removed = b.removed \cup Targets({}) /\ OnePerTarget({})
  BY <1>2 DEF Targets, OnePerTarget
<1> QED
  BY <1>0, <1>1, <1>2, <1>6, <1>7, <1>8, AuthorityChanges

LEMMA AuthorityRemoval ==
    ASSUME SteadyOwner, RoomForAll, TypeOK, RemovalInv, RoleInv, AuthorityInv,
           NEW p \in Peers, NEW t \in Peers, RemoveMember(p, t)
    PROVE  AuthorityInv'
<1>1. PICK b, x, id : /\ Base(p, b) /\ Changes(p, x, id) /\ IsRemoval(x, b, p, t, id)
                      /\ CanRemove(b, p, t)
                      /\ delegated' = IF p = Owner /\ t \in b.admins
                                        THEN delegated \cup ({x.epoch} \X x.admins)
                                        ELSE delegated
  BY RemovalChanges
<1> DEFINE cert == CertificateOf(b, p, t, id)
<1>2. /\ x.epoch = IF t \in b.admins THEN b.epoch + 1 ELSE b.epoch
      /\ x.certs = mergeGroupRevocations(b.certs, {cert})
      /\ x.removed = b.removed \cup {t}
      /\ x.members = b.members \ {t} /\ x.admins = b.admins \ {t}
  BY <1>1 DEF IsRemoval
<1>3. /\ b \in Replica /\ Sound(b) /\ b.admins \subseteq b.members /\ id \in Ids
      /\ b \in Readable
  BY <1>1 DEF Base, Changes
<1>4. /\ t # Owner /\ t \in b.members /\ canManageLocalGroup(b, p)
      /\ p # Owner => t \notin b.admins
  BY <1>1 DEF CanRemove
<1>5. Solid(b) /\ RolesDelegated(b)
  BY <1>1, <1>3, OwnerChanges, ReadableRoles DEF Arisen
<1>6. b.epoch \in Nat /\ b.mver + 1 \in Nat /\ x.epoch \in Nat
  BY <1>2, <1>3 DEF Replica
<1>7. /\ cert.target = t /\ cert.issuer = p /\ cert.id = id /\ cert.epoch = x.epoch
      /\ cert \in Certificate
  BY <1>2, <1>3, <1>6 DEF CertificateOf, Certificate
<1> HIDE DEF cert
<1>8. p # Owner => <<x.epoch, p>> \in delegated /\ <<x.epoch, t>> \notin delegated
  <2> SUFFICES ASSUME p # Owner
               PROVE  <<x.epoch, p>> \in delegated /\ <<x.epoch, t>> \notin delegated
    OBVIOUS
  <2>1. t \notin b.admins /\ x.epoch = b.epoch /\ p \in b.admins
    BY <1>2, <1>4 DEF canManageLocalGroup
  <2>2. t \notin b.removed
    BY <1>3, <1>4 DEF Sound
  <2>3. <<b.epoch, t>> \notin delegated
    BY <1>5, <2>1, <2>2 DEF Solid, Enrolled
  <2> QED
    BY <1>5, <2>1, <2>3 DEF RolesDelegated
<1>9. \A a \in Peers : <<x.epoch, a>> \in delegated' =>
         a \in x.removed \/ a \in x.members \cap x.admins
  <2>1. CASE t \in b.admins
    <3>1. p = Owner /\ x.epoch = b.epoch + 1
      BY <1>2, <1>4, <2>1
    <3>2. b.epoch = db[Owner].epoch
      BY <1>1, <3>1, OwnerChanges
    <3>3. \A a : <<x.epoch, a>> \notin delegated
      <4>1. x.epoch > db[Owner].epoch
        BY <1>6, <3>1, <3>2
      <4> QED
        BY <1>6, <3>2, <4>1 DEF AuthorityInv, EpochInv
    <3> QED
      BY <1>1, <1>2, <1>3, <2>1, <3>1, <3>3
  <2>2. CASE t \notin b.admins
    BY <1>1, <1>2, <1>5, <2>2 DEF Solid, Enrolled
  <2> QED
    BY <2>1, <2>2
<1>10. Owner \notin x.admins
  BY <1>2, <1>5 DEF RolesDelegated
<1>11. x.removed = b.removed \cup Targets({cert}) /\ OnePerTarget({cert})
  BY <1>2, <1>7 DEF Targets, OnePerTarget
<1>12. {cert} \in SUBSET Certificate
  BY <1>7
<1>13. \/ x.epoch = b.epoch
       \/ p = Owner /\ x.epoch = b.epoch + 1
  BY <1>2, <1>4
<1>14. \/ delegated' = delegated
       \/ /\ p = Owner /\ x.epoch = b.epoch + 1 /\ Owner \notin x.admins
          /\ delegated' = delegated \cup ({x.epoch} \X x.admins)
  BY <1>1, <1>2, <1>10
<1>15. \A c \in {cert} :
          /\ c.id = id /\ c.target # Owner /\ c.epoch = x.epoch
          /\ c.issuer # Owner => /\ p # Owner
                                 /\ <<c.epoch, c.issuer>> \in delegated
                                 /\ <<c.epoch, c.target>> \notin delegated
  BY <1>4, <1>7, <1>8
<1> QED
  BY <1>1, <1>2, <1>9, <1>11, <1>12, <1>13, <1>14, <1>15, AuthorityChanges

LEMMA AuthorityRepair ==
    ASSUME SteadyOwner, RoomForAll, TypeOK, RemovalInv, AuthorityInv, RepairAliases
    PROVE  AuthorityInv'
<1>0. Owner \in Peers
  BY PeersAssumption
<1>1. PICK b, x, id, a : /\ Base(Owner, b) /\ Changes(Owner, x, id) /\ IsRepair(x, b, a, id)
                         /\ a \in SUBSET (Peers \ {Owner})
                         /\ UNCHANGED delegated
  BY RepairChanges
<1> DEFINE new == AliasCertificates(b, a, id)
<1>2. /\ x.epoch = b.epoch /\ x.admins = b.admins
      /\ x.certs = mergeGroupRevocations(b.certs, new)
      /\ x.removed = b.removed \cup a /\ x.members = b.members \ a
  BY <1>1 DEF IsRepair
<1>3. b \in Replica /\ id \in Ids
  BY <1>1 DEF Base, Changes
<1>4. b.epoch \in Nat /\ b.mver + 1 \in Nat
  BY <1>3 DEF Replica
<1>5. \A c \in new : /\ c \in Certificate /\ c.id = id /\ c.target \in a
                     /\ c.epoch = b.epoch /\ c.issuer = Owner
  BY <1>0, <1>1, <1>3, <1>4 DEF AliasCertificates, Certificate
<1>6. Targets(new) = a /\ OnePerTarget(new)
  <2> DEFINE cert(t) == [target |-> t, issuer |-> Owner, mver |-> b.mver + 1,
                         epoch |-> b.epoch, id |-> id]
  <2>1. \A t : cert(t).target = t
    OBVIOUS
  <2>2. new = {cert(t) : t \in a}
    BY DEF AliasCertificates
  <2> HIDE DEF cert, new
  <2>3. Targets(new) = a
    BY <2>1, <2>2 DEF Targets
  <2>4. OnePerTarget(new)
    BY <2>1, <2>2 DEF OnePerTarget
  <2> QED
    BY <2>3, <2>4
<1> HIDE DEF new
<1>7. Enrolled(b)
  BY <1>0, <1>1, OwnerChanges DEF Solid
<1>8. \A q \in Peers : <<x.epoch, q>> \in delegated' =>
         q \in x.removed \/ q \in x.members \cap x.admins
  BY <1>1, <1>2, <1>7 DEF Enrolled
<1>9. new \in SUBSET Certificate
  BY <1>5
<1>10. \A c \in new :
          /\ c.id = id /\ c.target # Owner /\ c.epoch = x.epoch
          /\ c.issuer # Owner => /\ Owner # Owner
                                 /\ <<c.epoch, c.issuer>> \in delegated
                                 /\ <<c.epoch, c.target>> \notin delegated
  BY <1>1, <1>2, <1>5
<1> QED
  BY <1>0, <1>1, <1>2, <1>6, <1>8, <1>9, <1>10, AuthorityChanges

(* An invite changes no certificate, and the joiner's merge is one.        *)
LEMMA AuthorityJoin ==
    ASSUME SteadyOwner, RoomForAll, TypeOK, RemovalInv, AuthorityInv,
           NEW c \in Peers, NEW j \in Peers, Join(c, j)
    PROVE  AuthorityInv'
<1>1. PICK b, g, s, x, id :
        /\ Base(c, b) /\ CanAdd(b, c, j) /\ IsAddition(g, b, c, j, id)
        /\ Joins(c, j, g, s, x, id)
  BY JoinChanges
<1>2. /\ g.epoch = b.epoch /\ g.certs = b.certs /\ g.removed = b.removed
      /\ g.members = b.members \cup {j} /\ g.admins = b.admins
  BY <1>1 DEF IsAddition
<1>3. /\ s.epoch = g.epoch /\ s.certs = g.certs /\ s.removed = g.removed
      /\ s.members = g.members \cup {Owner, c, j} /\ s.admins = g.admins
  BY <1>1 DEF Joins, IsInvitation
<1>4. /\ c # j /\ g \in Replica /\ s \in Replica /\ Accepted(j, s, c, x)
      /\ Replicas' \subseteq Replicas \cup {g} \cup ({x} \ {NoGroup})
      /\ used' = used \cup {id} /\ UNCHANGED <<net, delegated>>
      /\ db'[c] = g /\ db'[j] = x /\ \A r \in Peers \ {c, j} : db'[r] = db[r]
  BY <1>1 DEF Joins
<1>5. Solid(b)
  BY <1>1, ReadableSolid DEF Base, Arisen
<1>6. Solid(g)
  BY <1>2, <1>5 DEF Solid, Certified, Enrolled
<1>7. Solid(s)
  BY <1>3, <1>6 DEF Solid, Certified, Enrolled
<1>8. db[Owner] \in Replica /\ db[Owner] # NoGroup
  BY PeersAssumption DEF TypeOK, AuthorityInv, EpochInv
<1> DEFINE l == Loaded(db[j], j)
<1>9. x # NoGroup => Solid(x) /\ x \in Replica
  <2>1. db[j] # NoGroup => l \in Replica /\ Solid(l)
    BY <1>4, ReadableSolid, ReplicasAreTyped DEF Accepted, Arisen
  <2> HIDE DEF l
  <2>2. \/ x = s
        \/ x = NoGroup
        \/ db[j] # NoGroup /\ x = l
        \/ db[j] # NoGroup /\ x = Merged(l, s, c)
    BY <1>4 DEF Accepted, l
  <2>3. ASSUME db[j] # NoGroup, x = Merged(l, s, c)
        PROVE  Solid(x) /\ x \in Replica
    <3>1. l \in Replica /\ Solid(l)
      BY <2>1, <2>3
    <3>2. Merged(l, s, c) \in Replica
      BY <1>4, <3>1, MergedType
    <3>3. Solid(Merged(l, s, c))
      BY <1>4, <1>7, <3>1, MergedSolid
    <3> QED
      BY <2>3, <3>2, <3>3
  <2> QED
    BY <1>4, <1>7, <2>1, <2>2, <2>3
<1>10. /\ db'[Owner] # NoGroup /\ db[Owner].epoch \in Nat /\ db'[Owner].epoch \in Nat
       /\ db'[Owner].epoch >= db[Owner].epoch
  <2>0. Owner \in Peers /\ db[Owner].epoch \in Nat
    BY <1>8, PeersAssumption DEF Replica
  <2>1. CASE c = Owner
    <3>1. b = Loaded(db[Owner], Owner)
      BY <1>1, <2>1 DEF Base, SteadyOwner
    <3>2. b.epoch = db[Owner].epoch
      BY <1>8, <2>0, <3>1, LoadedFields DEF IsLoad
    <3> QED
      BY <1>2, <1>4, <2>0, <2>1, <3>2, NoGroupAssumption
  <2>2. CASE j = Owner
    <3>1. l \in Replica /\ l.epoch = db[Owner].epoch
      BY <1>8, <2>0, <2>2, LoadedType, LoadedFields DEF IsLoad
    <3> HIDE DEF l
    <3>0. Merged(l, s, c) \in Replica
      BY <1>4, <3>1, MergedType
    <3>2. x # NoGroup /\ (x = l \/ x = Merged(l, s, c))
      <4>1. db[j] # NoGroup
        BY <1>8, <2>2
      <4>2. x = l \/ x = Merged(l, s, c)
        BY <1>4, <2>2, <4>1 DEF Accepted, l
      <4> QED
        BY <3>0, <3>1, <4>2, NoGroupAssumption
    <3>3. Merged(l, s, c).epoch = Larger(l.epoch, s.epoch) /\ s.epoch \in Nat
      BY <1>4, <3>1, MergedFields DEF IsMerge, Replica
    <3>4. x.epoch \in Nat /\ x.epoch >= l.epoch
      BY <2>0, <3>1, <3>2, <3>3 DEF Larger
    <3> QED
      BY <1>4, <2>0, <2>2, <3>1, <3>2, <3>4
  <2>3. CASE c # Owner /\ j # Owner
    BY <1>4, <1>8, <2>0, <2>3
  <2> QED
    BY <2>1, <2>2, <2>3
<1> HIDE DEF l
<1>11. \A h \in Replicas' : h \in Replicas \/ h = g \/ (h = x /\ x # NoGroup)
  BY <1>4
<1>12. \A h \in Replicas' : Solid(h) /\ h \in Replica
  BY <1>4, <1>6, <1>9, <1>11, ReplicasAreSolid, ReplicasAreTyped
<1>13. Issued' \subseteq Issued
  BY <1>4, <1>12, IssuedFrame, IssuedAre DEF Solid
<1>14. \A h \in Replicas' \ Replicas :
          /\ Certified(h) /\ h.epoch <= db'[Owner].epoch
          /\ \A a \in Peers : <<h.epoch, a>> \in delegated' =>
                a \in h.removed \/ a \in h.members \cap h.admins
  <2> SUFFICES ASSUME NEW h \in Replicas'
               PROVE  /\ Certified(h) /\ h.epoch <= db'[Owner].epoch
                      /\ \A a \in Peers : <<h.epoch, a>> \in delegated' =>
                            a \in h.removed \/ a \in h.members \cap h.admins
    OBVIOUS
  <2>1. h \in Replica /\ Certified(h) /\ Enrolled(h) /\ h.epoch <= db[Owner].epoch
    BY <1>12 DEF Solid
  <2>2. h.epoch \in Nat
    BY <2>1 DEF Replica
  <2> QED
    BY <1>4, <1>10, <2>1, <2>2 DEF Enrolled
<1>15. \A m \in net' : m \in Revocation => m.cert.target = m.to
  BY <1>4 DEF AuthorityInv, CertificateInv
<1>16. used \subseteq used' /\ delegated' = delegated /\ Replicas' \subseteq Replica
  BY <1>4, <1>12
<1> QED
  BY <1>10, <1>13, <1>14, <1>15, <1>16, AuthorityFrame

LEMMA AuthorityStep ==
    ASSUME SteadyOwner, RoomForAll, TypeOK, RemovalInv, RoleInv, AuthorityInv, [Next]_vars
    PROVE  AuthorityInv'
<1>1. CASE Quiet
  BY <1>1, AuthorityQuiet
<1>2. ASSUME NEW p \in Peers, NEW t \in Peers, UpdateGroup(p) \/ RemoveMember(p, t) \/ Join(p, t)
      PROVE  AuthorityInv'
  BY <1>2, AuthorityUpdate, AuthorityRemoval, AuthorityJoin
<1>3. CASE OwnerEdit
  BY <1>3, AuthorityAppointment, AuthorityRepair DEF OwnerEdit
<1> QED
  BY <1>1, <1>2, <1>3 DEF Next, LocalEdit, Quiet

LEMMA AuthorityInit ==
    ASSUME Init
    PROVE  AuthorityInv
<1>1. db[Owner] = InitialReplica /\ InitialReplica \in Replica
  BY InitialType, InitialAssumption DEF Init
<1>2. db[Owner] # NoGroup /\ InitialReplica.epoch \in Nat
  BY <1>1, NoGroupAssumption DEF Replica
<1>3. /\ InitialReplica.certs = {} /\ InitialReplica.removed = {}
      /\ InitialReplica.members = InitialMembers /\ InitialReplica.admins = InitialAdmins
  BY DEF InitialReplica
<1>4. Replicas \subseteq {InitialReplica} /\ net = {}
  BY InitialReplicas
<1>5. Issued = {}
  BY <1>3, <1>4 DEF Issued
<1>6. \A d \in delegated : d[1] = InitialReplica.epoch /\ d[2] \in InitialAdmins
  BY DEF Init
<1>7. Certified(InitialReplica)
  BY <1>3 DEF Certified, Targets
<1>8. Enrolled(InitialReplica)
  BY <1>3, <1>6, InitialAssumption DEF Enrolled
<1>9. EpochInv
  BY <1>1, <1>2, <1>4, <1>5, <1>6, InitialAssumption DEF EpochInv
<1>10. CertificateInv
  BY <1>4, <1>5, <1>7, <1>8 DEF CertificateInv
<1> QED
  BY <1>9, <1>10 DEF AuthorityInv

(* Every tombstone of a stored copy has a certificate that its issuer had  *)
(* the authority to sign and that never names the owner, for any peers and *)
(* bounds under which the list of certificates does not overflow, as long  *)
(* as the owner neither deletes its copy nor edits it twice at once: a     *)
(* second edit would name an epoch again, with other administrators.       *)
THEOREM RemovalsAreCertified ==
    ASSUME SteadyOwner, RoomForAll
    PROVE  Spec => []CertifiedRemovals
<1>1. TypeOK /\ RemovalInv /\ RoleInv /\ AuthorityInv /\ [Next]_vars => AuthorityInv'
  BY AuthorityStep
<1>2. AuthorityInv => CertifiedRemovals
  <2> SUFFICES ASSUME AuthorityInv PROVE CertifiedRemovals
    OBVIOUS
  <2>1. \A p \in Copies : db[p] \in Replicas /\ \A c \in db[p].certs : c \in Issued
    BY ReplicasAre DEF Copies, Issued
  <2> QED
    BY <2>1 DEF AuthorityInv, CertificateInv, Certified, CertifiedRemovals
<1>3. TypeOK /\ RemovalInv /\ [Next]_vars => RemovalInv'
  BY RemovalStep DEF Kept
<1>4. TypeOK /\ RemovalInv /\ RoleInv /\ [Next]_vars => RoleInv'
  BY RolesStep
<1>5. Init => AuthorityInv
  BY AuthorityInit
<1> QED
  BY <1>1, <1>2, <1>3, <1>4, <1>5, RolesInit, RemovalInit, GroupTyping, PTL DEF Spec

----------------------------------------------------------------------------
(* A revision of the owner names one content.                              *)

LEMMA OwnersCopy ==
    ASSUME TypeOK, AuthorityInv
    PROVE  /\ Owner \in Peers /\ db[Owner] # NoGroup /\ db[Owner] \in Replica
           /\ db[Owner] \in Replicas
           /\ db[Owner].ver \in Nat /\ db[Owner].epoch \in Nat
           /\ Loaded(db[Owner], Owner) \in Replica
           /\ Loaded(db[Owner], Owner).ver = db[Owner].ver
           /\ Loaded(db[Owner], Owner).epoch = db[Owner].epoch
<1>1. Owner \in Peers /\ db[Owner] # NoGroup /\ db[Owner] \in Replica
  BY PeersAssumption DEF TypeOK, AuthorityInv, EpochInv
<1>2. IsLoad(Loaded(db[Owner], Owner), db[Owner], Owner) /\ Loaded(db[Owner], Owner) \in Replica
  BY <1>1, LoadedFields, LoadedType
<1>3. db[Owner].ver \in Nat /\ db[Owner].epoch \in Nat
  BY <1>1 DEF Replica
<1>4. db[Owner] \in Replicas
  BY <1>1, ReplicasAre
<1> QED
  BY <1>1, <1>2, <1>3, <1>4 DEF IsLoad

\* Numbers of the replicas there are.
LEMMA ReplicasAreNumbered ==
    ASSUME TypeOK
    PROVE  \A r \in Replicas : r.ver \in Nat /\ r.epoch \in Nat
BY ReplicasAreTyped DEF Replica

(* A replica whose revision was drawn before: in its epoch there was one   *)
(* that is not newer, and that one is meant if the owner drew it.          *)
Descends(h, r) ==
    /\ h.epoch = r.epoch /\ h.ver >= r.ver
    /\ h.actor = Owner => Revision(h) = Revision(r) /\ h.meta = r.meta

Known(h) == h.op \in used /\ \E r \in Replicas : Descends(h, r)

\* Newer than all that the owner said in earlier epochs.
Ahead(h) == \A g \in Replicas : g.actor = Owner /\ h.epoch > g.epoch => h.ver > g.ver

\* A replica whose revision is drawn by the step.
Novel(h) ==
    /\ h.op \in used' \ used /\ Ahead(h)
    /\ h.actor = Owner => h.epoch = db'[Owner].epoch /\ h.ver <= db'[Owner].ver

LEMMA KnownIsAhead ==
    ASSUME TypeOK, ContentInv, NEW h \in Replica, Known(h)
    PROVE  Ahead(h)
<1>1. PICK r \in Replicas : h.epoch = r.epoch /\ h.ver >= r.ver
  BY DEF Known, Descends
<1>2. h.ver \in Nat
  BY DEF Replica
<1> QED
  BY <1>1, <1>2, ReplicasAreNumbered DEF Ahead, ContentInv

(* A step keeps the invariant that makes replicas known before, or of a    *)
(* new revision, and never turns the owner's own copy back.                *)
LEMMA ContentFrame ==
    ASSUME TypeOK, AuthorityInv', ContentInv,
           Replicas' \subseteq Replica, used \subseteq used',
           db[Owner].ver \in Nat, db'[Owner].ver \in Nat,
           db'[Owner].ver >= db[Owner].ver,
           \A h \in Replicas' : Known(h) \/ Novel(h),
           \A h, k \in Replicas' : Novel(h) /\ Novel(k) => SameContent(h, k)
    PROVE  ContentInv'
<1>1. \A h \in Replicas' : Ahead(h)
  BY KnownIsAhead DEF Novel
<1>2. \A h \in Replicas' : h.op \in used'
  BY DEF Known, Novel
<1>3. ASSUME NEW h \in Replicas', NEW k \in Replicas' PROVE SameContent(h, k)
  <2> SUFFICES ASSUME h.actor = Owner, Revision(h) = Revision(k) PROVE h.meta = k.meta
    BY DEF SameContent
  <2>1. k.actor = Owner /\ h.op = k.op
    BY DEF Revision
  <2>2. CASE Known(h) /\ Known(k)
    <3>1. PICK r \in Replicas : Revision(h) = Revision(r) /\ h.meta = r.meta
      BY <2>2 DEF Known, Descends
    <3>2. PICK t \in Replicas : Revision(k) = Revision(t) /\ k.meta = t.meta
      BY <2>1, <2>2 DEF Known, Descends
    <3>3. r.actor = Owner /\ SameContent(r, t)
      BY <3>1 DEF ContentInv, Revision
    <3> QED
      BY <3>1, <3>2, <3>3 DEF SameContent
  <2>3. CASE Novel(h) /\ Novel(k)
    BY <2>3 DEF SameContent
  <2> QED
    BY <2>1, <2>2, <2>3 DEF Known, Novel
<1>4. ASSUME NEW g \in Replicas', g.actor = Owner
      PROVE  /\ g.ver <= db'[Owner].ver
             /\ \A h \in Replicas' : h.epoch > g.epoch => h.ver > g.ver
  <2>1. CASE Known(g)
    <3>1. PICK r \in Replicas : g.epoch = r.epoch /\ Revision(g) = Revision(r)
      BY <1>4, <2>1 DEF Known, Descends
    <3>2. r.actor = Owner /\ r.ver = g.ver /\ r.ver \in Nat
      BY <1>4, <3>1, ReplicasAreNumbered DEF Revision
    <3>3. r.ver <= db[Owner].ver
      BY <3>2 DEF ContentInv
    <3>4. \A h \in Replicas' : h.epoch > r.epoch => h.ver > r.ver
      BY <1>1, <3>2 DEF Ahead
    <3> QED
      BY <3>1, <3>2, <3>3, <3>4
  <2>2. CASE Novel(g)
    <3>1. g.epoch = db'[Owner].epoch /\ g.ver <= db'[Owner].ver
      BY <1>4, <2>2 DEF Novel
    <3>2. \A h \in Replicas' : h.epoch <= g.epoch
      BY <3>1 DEF AuthorityInv, EpochInv
    <3>3. \A h \in Replicas' : h.epoch \in Nat
      BY DEF Replica
    <3>4. \A h \in Replicas' : ~(h.epoch > g.epoch)
      BY <3>2, <3>3
    <3> QED
      BY <3>1, <3>4
  <2> QED
    BY <2>1, <2>2
<1> QED
  BY <1>2, <1>3, <1>4 DEF ContentInv

(* Loads and merges draw nothing.  A merge in a later epoch takes nothing  *)
(* under a revision of the owner but what that revision stands for,        *)
(* because such a revision does not win there.                             *)
LEMMA ArisenIsKnown ==
    ASSUME TypeOK, ContentInv, NEW h, Arisen(h)
    PROVE  h \in Replica /\ Known(h)
<1>1. ASSUME NEW g \in Readable
      PROVE  /\ g \in Replica /\ g.op \in used
             /\ \E r \in Replicas : /\ g.epoch = r.epoch /\ Revision(g) = Revision(r)
                                    /\ g.meta = r.meta
  <2>0. g \in Replica
    BY ReplicasAreTyped
  <2>1. CASE g \in Replicas
    BY <2>0, <2>1 DEF ContentInv
  <2>2. CASE \E p \in Copies : g = Loaded(db[p], p)
    <3>1. PICK p \in Copies : g = Loaded(db[p], p)
      BY <2>2
    <3>2. db[p] \in Replicas /\ db[p] \in Replica /\ p \in Peers
      BY ReplicasAre, ReplicasAreTyped DEF Copies
    <3>3. IsLoad(g, db[p], p)
      BY <3>1, <3>2, LoadedFields
    <3> QED
      BY <2>0, <3>2, <3>3 DEF IsLoad, Revision, ContentInv
  <2> QED
    BY <2>1, <2>2 DEF Readable
<1>2. CASE h \in Readable
  <2>1. PICK r \in Replicas : /\ h.epoch = r.epoch /\ Revision(h) = Revision(r)
                              /\ h.meta = r.meta
    BY <1>1, <1>2
  <2>2. h.ver = r.ver /\ r.ver \in Nat
    BY <2>1, ReplicasAreNumbered DEF Revision
  <2>3. Descends(h, r)
    BY <2>1, <2>2 DEF Descends
  <2> QED
    BY <1>1, <1>2, <2>3 DEF Known
<1>3. CASE h \notin Readable
  <2>1. PICK g \in Readable, s \in Replicas, q \in Peers :
          Resolvable(g, s, q) /\ h = Merged(g, s, q)
    BY <1>3 DEF Arisen
  <2>2. PICK r \in Replicas : /\ g.epoch = r.epoch /\ Revision(g) = Revision(r)
                              /\ g.meta = r.meta
    BY <1>1
  <2>3. g \in Replica /\ s \in Replica
    BY ReplicasAreTyped
  <2>4. IsMerge(h, g, s) /\ h \in Replica
    BY <2>1, <2>3, MergedFields, MergedType
  <2>5. /\ h.epoch = Larger(g.epoch, s.epoch)
        /\ \/ Revision(h) = Revision(g) /\ h.meta = g.meta /\ s.epoch <= g.epoch
           \/ /\ Revision(h) = Revision(s)
              /\ s.epoch >= g.epoch => h.meta = s.meta
              /\ s.epoch <= g.epoch => s.ver >= g.ver
    BY <2>4 DEF IsMerge
  <2>6. /\ g.epoch \in Nat /\ s.epoch \in Nat /\ g.ver \in Nat /\ s.ver \in Nat
        /\ r.ver = g.ver
    BY <2>2, <2>3 DEF Replica, Revision
  <2>7. g.op \in used /\ s.op \in used
    BY <1>1 DEF ContentInv
  <2>8. CASE Revision(h) = Revision(g) /\ h.meta = g.meta /\ s.epoch <= g.epoch
    <3>1. h.epoch = g.epoch /\ h.ver = g.ver /\ h.op = g.op
      BY <2>5, <2>6, <2>8 DEF Larger, Revision
    <3>2. Descends(h, r)
      BY <2>2, <2>6, <2>8, <3>1 DEF Descends
    <3> QED
      BY <2>4, <2>7, <3>1, <3>2 DEF Known
  <2>9. CASE Revision(h) = Revision(s) /\ s.epoch >= g.epoch /\ h.meta = s.meta
    <3>1. h.epoch = s.epoch /\ h.ver = s.ver /\ h.op = s.op
      BY <2>5, <2>6, <2>9 DEF Larger, Revision
    <3>2. Descends(h, s)
      BY <2>6, <2>9, <3>1 DEF Descends
    <3> QED
      BY <2>4, <2>7, <3>1, <3>2 DEF Known
  <2>10. CASE /\ Revision(h) = Revision(s) /\ s.epoch < g.epoch /\ s.ver >= g.ver
    <3>1. h.epoch = g.epoch /\ h.ver = s.ver /\ h.op = s.op /\ h.actor = s.actor
      BY <2>5, <2>6, <2>10 DEF Larger, Revision
    <3>2. s.actor # Owner
      <4>1. s.actor = Owner => r.ver > s.ver
        BY <2>2, <2>6, <2>10 DEF ContentInv
      <4> QED
        BY <2>6, <2>10, <4>1
    <3>3. Descends(h, r)
      BY <2>2, <2>6, <2>10, <3>1, <3>2 DEF Descends
    <3> QED
      BY <2>4, <2>7, <3>1, <3>3 DEF Known
  <2> QED
    BY <2>5, <2>6, <2>8, <2>9, <2>10
<1> QED
  BY <1>2, <1>3

(* No merge turns the owner's own copy back.                               *)
LEMMA OwnerNeverTurnsBack ==
    ASSUME TypeOK, AuthorityInv, NEW s \in Replica, NEW q \in Peers,
           s.epoch <= db[Owner].epoch
    PROVE  /\ Merged(Loaded(db[Owner], Owner), s, q).ver \in Nat
           /\ Merged(Loaded(db[Owner], Owner), s, q).ver >= db[Owner].ver
<1> DEFINE l == Loaded(db[Owner], Owner)
           h == Merged(l, s, q)
<1>1. /\ l \in Replica /\ l.ver = db[Owner].ver /\ l.epoch = db[Owner].epoch
      /\ db[Owner].ver \in Nat
  BY OwnersCopy
<1> HIDE DEF l
<1>2. IsMerge(h, l, s) /\ h \in Replica
  BY <1>1, MergedFields, MergedType
<1> HIDE DEF h
<1>3. h.ver = l.ver \/ h.ver >= l.ver
  BY <1>1, <1>2 DEF IsMerge, Revision, Replica
<1>4. h.ver \in Nat
  BY <1>2 DEF Replica
<1> QED
  BY <1>1, <1>3, <1>4 DEF h, l

LEMMA ContentQuiet ==
    ASSUME SteadyOwner, RoomForAll, TypeOK, RemovalInv, RoleInv, AuthorityInv, ContentInv, Quiet
    PROVE  ContentInv'
<1>1. \A h \in Replicas' : h \in Replica /\ Known(h)
  BY QuietReplicas, ArisenIsKnown
<1>2. used' = used
  BY QuietReplicas
<1>3. AuthorityInv'
  BY AuthorityQuiet
<1>4. /\ db[Owner].ver \in Nat /\ db'[Owner].ver \in Nat
      /\ db'[Owner].ver >= db[Owner].ver
  <2>1. db[Owner].ver \in Nat /\ Loaded(db[Owner], Owner).ver = db[Owner].ver
    BY OwnersCopy
  <2>2. OwnerHas(db'[Owner])
    BY OwnerKeeps
  <2>3. ASSUME NEW s \in Replicas, NEW q \in Peers,
               db'[Owner] = Merged(Loaded(db[Owner], Owner), s, q)
        PROVE  db'[Owner].ver \in Nat /\ db'[Owner].ver >= db[Owner].ver
    <3>1. s \in Replica /\ s.epoch <= db[Owner].epoch
      BY ReplicasAreTyped DEF AuthorityInv, EpochInv
    <3> QED
      BY <2>3, <3>1, OwnerNeverTurnsBack
  <2> QED
    BY <2>1, <2>2, <2>3 DEF OwnerHas
<1>5. \A h, k \in Replicas' : Novel(h) /\ Novel(k) => SameContent(h, k)
  BY <1>2 DEF Novel
<1> QED
  BY <1>1, <1>2, <1>3, <1>4, <1>5, ContentFrame

(* A revision drawn after the one of b is ahead of the owner's, in the     *)
(* epoch of b as well as in one that the owner begins with it.             *)
LEMMA DrawnIsAhead ==
    ASSUME SteadyOwner, TypeOK, AuthorityInv, ContentInv,
           NEW p \in Peers, NEW b, NEW x \in Replica,
           Base(p, b), x.ver > b.ver,
           \/ x.epoch = b.epoch
           \/ p = Owner /\ x.epoch = b.epoch + 1
    PROVE  Ahead(x) /\ (p = Owner => x.ver > db[Owner].ver)
<1>1. x.ver \in Nat /\ b.ver \in Nat /\ db[Owner].ver \in Nat
  BY OwnersCopy DEF Base, Replica
<1>2. p = Owner => b.ver = db[Owner].ver
  BY OwnersCopy DEF Base, SteadyOwner
<1>3. CASE x.epoch = b.epoch
  <2>1. Ahead(b)
    BY ArisenIsKnown, KnownIsAhead DEF Base, Arisen
  <2>2. Ahead(x)
    BY <1>1, <1>3, <2>1, ReplicasAreNumbered DEF Ahead
  <2> QED
    BY <1>1, <1>2, <2>2
<1>4. CASE p = Owner
  <2>1. Ahead(x)
    BY <1>1, <1>2, <1>4, ReplicasAreNumbered DEF Ahead, ContentInv
  <2> QED
    BY <1>1, <1>2, <2>1
<1> QED
  BY <1>3, <1>4

LEMMA ContentChanges ==
    ASSUME SteadyOwner, RoomForAll, TypeOK, RemovalInv, AuthorityInv, AuthorityInv', ContentInv,
           NEW p \in Peers, NEW b, NEW x, NEW id,
           Base(p, b), Changes(p, x, id), x.ver > b.ver, x.op = id,
           p # Owner => x.actor # Owner,
           \/ x.epoch = b.epoch
           \/ p = Owner /\ x.epoch = b.epoch + 1
    PROVE  ContentInv'
<1>1. x \in Replica /\ x.ver \in Nat /\ db[Owner].ver \in Nat /\ Owner \in Peers
  BY OwnersCopy DEF Changes, Replica
<1>2. Ahead(x) /\ (p = Owner => x.ver > db[Owner].ver)
  BY <1>1, DrawnIsAhead
<1>3. db'[Owner] = IF p = Owner THEN x ELSE db[Owner]
  BY <1>1 DEF Changes, TypeOK
<1>4. Novel(x)
  BY <1>1, <1>2, <1>3 DEF Novel, Changes
<1>5. \A h \in Replicas' : h = x \/ h \in Replicas
  BY DEF Changes
<1>6. \A h \in Replicas : h \in Replica /\ Known(h)
  BY ReplicasAre, ArisenIsKnown DEF Arisen
<1>7. \A h \in Replicas : ~Novel(h)
  BY DEF Novel, ContentInv
<1>8. \A h, k \in Replicas' : Novel(h) /\ Novel(k) => SameContent(h, k)
  BY <1>5, <1>7 DEF SameContent
<1>9. Replicas' \subseteq Replica /\ used \subseteq used'
  BY <1>1, <1>5, <1>6 DEF Changes
<1>10. db'[Owner].ver \in Nat /\ db'[Owner].ver >= db[Owner].ver
  BY <1>1, <1>2, <1>3
<1>11. \A h \in Replicas' : Known(h) \/ Novel(h)
  BY <1>4, <1>5, <1>6
<1> QED
  BY <1>1, <1>8, <1>9, <1>10, <1>11, ContentFrame


(* An invite brings one new revision, and to a joiner of a newer epoch     *)
(* that revision in its own epoch, unless the owner drew it.               *)
LEMMA ContentJoin ==
    ASSUME SteadyOwner, RoomForAll, TypeOK, RemovalInv, AuthorityInv, AuthorityInv', ContentInv,
           NEW c \in Peers, NEW j \in Peers, Join(c, j)
    PROVE  ContentInv'
<1>1. PICK b, g, s, x, id :
        /\ Base(c, b) /\ CanAdd(b, c, j) /\ IsAddition(g, b, c, j, id)
        /\ Joins(c, j, g, s, x, id)
  BY JoinChanges
<1>2. /\ c # j /\ g \in Replica /\ s \in Replica /\ Accepted(j, s, c, x)
      /\ Replicas' \subseteq Replicas \cup {g} \cup ({x} \ {NoGroup})
      /\ id \in Ids \ used /\ used' = used \cup {id}
      /\ db'[c] = g /\ db'[j] = x /\ \A r \in Peers \ {c, j} : db'[r] = db[r]
  BY <1>1 DEF Joins
<1>3. g.epoch = b.epoch /\ g.ver > b.ver /\ g.op = id /\ g.actor = c
  BY <1>1 DEF IsAddition
<1>4. /\ s.epoch = g.epoch /\ s.ver = g.ver /\ s.op = g.op /\ s.meta = g.meta
      /\ s.actor = g.actor /\ Revision(s) = Revision(g)
  BY <1>1 DEF Joins, IsInvitation, Revision
<1>5. /\ g.ver \in Nat /\ g.epoch \in Nat /\ db[Owner].ver \in Nat /\ db[Owner].epoch \in Nat
      /\ Owner \in Peers
  BY <1>2, OwnersCopy DEF Replica
<1>6. Ahead(g) /\ (c = Owner => g.ver > db[Owner].ver)
  BY <1>1, <1>2, <1>3, DrawnIsAhead
<1>7. Novel(g)
  BY <1>2, <1>3, <1>5, <1>6 DEF Novel
<1>8. c = Owner => g.epoch = db[Owner].epoch
  BY <1>1, <1>3, OwnersCopy DEF Base, SteadyOwner
<1> DEFINE l == Loaded(db[j], j)
<1>9. db[j] # NoGroup => l \in Readable /\ l \in Replica /\ Known(l)
  BY <1>2, ArisenIsKnown DEF Accepted, Arisen
<1>10. s.epoch <= db[Owner].epoch
  <2>1. Solid(b)
    BY <1>1, ReadableSolid DEF Base, Arisen
  <2> QED
    BY <1>3, <1>4, <2>1 DEF Solid
<1>11. db[j] # NoGroup => l.epoch <= db[Owner].epoch
  <2>1. db[j] # NoGroup => Solid(l)
    BY <1>9, ReadableSolid DEF Arisen
  <2> QED
    BY <2>1 DEF Solid
<1>12. \/ x = s /\ db[j] = NoGroup
       \/ x = NoGroup /\ j # Owner
       \/ db[j] # NoGroup /\ x = l
       \/ db[j] # NoGroup /\ x = Merged(l, s, c)
  BY <1>2 DEF Accepted
<1>13. j = Owner => x # NoGroup /\ x.ver \in Nat /\ x.ver >= db[Owner].ver
  <2> SUFFICES ASSUME j = Owner
               PROVE  x # NoGroup /\ x.ver \in Nat /\ x.ver >= db[Owner].ver
    OBVIOUS
  <2>1. db[Owner] # NoGroup /\ l.ver = db[Owner].ver
    BY OwnersCopy
  <2>2. x = l \/ x = Merged(l, s, c)
    BY <1>12, <2>1
  <2>3. x # NoGroup
    BY <1>2 DEF AuthorityInv, EpochInv
  <2> QED
    BY <1>2, <1>5, <1>10, <2>1, <2>2, <2>3, OwnerNeverTurnsBack
<1> HIDE DEF l
<1>14. Novel(s)
  BY <1>4, <1>7 DEF Novel, Ahead
<1>15. x # NoGroup =>
         /\ x \in Replica
         /\ \/ Known(x)
            \/ Novel(x) /\ (x.actor = Owner => x.meta = g.meta)
  <2>1. ASSUME db[j] # NoGroup, x = Merged(l, s, c)
        PROVE  /\ x \in Replica
               /\ \/ Known(x)
                  \/ Novel(x) /\ (x.actor = Owner => x.meta = g.meta)
    <3>1. l \in Replica /\ Known(l)
      BY <1>9, <2>1
    <3>2. PICK r \in Replicas : Descends(l, r)
      BY <3>1 DEF Known
    <3>3. IsMerge(x, l, s) /\ x \in Replica
      BY <1>2, <2>1, <3>1, MergedFields, MergedType
    <3>4. /\ x.epoch = Larger(l.epoch, s.epoch)
          /\ \/ Revision(x) = Revision(l) /\ x.meta = l.meta /\ s.epoch <= l.epoch
             \/ /\ Revision(x) = Revision(s)
                /\ s.epoch >= l.epoch => x.meta = s.meta
                /\ s.epoch <= l.epoch => s.ver >= l.ver
      BY <3>3 DEF IsMerge
    <3>5. /\ l.epoch \in Nat /\ s.epoch \in Nat /\ l.ver \in Nat /\ s.ver \in Nat
      BY <1>2, <3>1 DEF Replica
    <3>6. CASE Revision(x) = Revision(l) /\ x.meta = l.meta /\ s.epoch <= l.epoch
      <4>1. /\ x.epoch = l.epoch /\ x.ver = l.ver /\ x.op = l.op /\ x.actor = l.actor
        BY <3>4, <3>5, <3>6 DEF Larger, Revision
      <4>2. Descends(x, r) /\ x.op \in used
        BY <3>1, <3>2, <3>6, <4>1 DEF Descends, Known
      <4> QED
        BY <3>3, <4>2 DEF Known
    <3>7. CASE Revision(x) = Revision(s) /\ s.epoch >= l.epoch /\ x.meta = s.meta
      <4>1. /\ x.epoch = s.epoch /\ x.ver = s.ver /\ x.op = s.op /\ x.actor = s.actor
        BY <3>4, <3>5, <3>7 DEF Larger, Revision
      <4>2. Novel(x)
        BY <1>14, <4>1 DEF Novel, Ahead
      <4> QED
        BY <1>4, <3>3, <3>7, <4>2
    <3>8. CASE Revision(x) = Revision(s) /\ s.epoch < l.epoch /\ s.ver >= l.ver
      <4>1. /\ x.epoch = l.epoch /\ x.ver = s.ver /\ x.op = s.op /\ x.actor = s.actor
        BY <3>4, <3>5, <3>8 DEF Larger, Revision
      <4>2. Ahead(l)
        BY <3>1, KnownIsAhead
      <4>3. Ahead(x)
        BY <3>5, <3>8, <4>1, <4>2, ReplicasAreNumbered DEF Ahead
      <4>4. c # Owner
        BY <1>4, <1>5, <1>8, <1>11, <2>1, <3>5, <3>8
      <4>5. Novel(x) /\ x.actor # Owner
        BY <1>2, <1>3, <1>4, <4>1, <4>3, <4>4 DEF Novel
      <4> QED
        BY <3>3, <4>5
    <3> QED
      BY <3>4, <3>5, <3>6, <3>7, <3>8
  <2> QED
    BY <1>2, <1>4, <1>9, <1>12, <1>14, <2>1
<1>16. \A h \in Replicas' : h \in Replicas \/ h = g \/ (h = x /\ x # NoGroup)
  BY <1>2
<1>17. \A h \in Replicas : h \in Replica /\ Known(h) /\ ~Novel(h)
  BY ReplicasAre, ArisenIsKnown DEF Arisen, Novel, Known
<1>18. Replicas' \subseteq Replica
  BY <1>2, <1>15, <1>16, <1>17
<1>19. \A h \in Replicas' : Known(h) \/ Novel(h)
  BY <1>7, <1>15, <1>16, <1>17
<1>20. \A h \in Replicas' : Novel(h) => (h.actor = Owner => h.meta = g.meta)
  <2>1. Novel(x) /\ x # NoGroup => (x.actor = Owner => x.meta = g.meta)
    BY <1>15 DEF Known, Novel
  <2> QED
    BY <1>16, <1>17, <2>1
<1>21. \A h, k \in Replicas' : Novel(h) /\ Novel(k) => SameContent(h, k)
  BY <1>20 DEF SameContent, Revision
<1>22. db'[Owner].ver \in Nat /\ db'[Owner].ver >= db[Owner].ver
  BY <1>2, <1>5, <1>6, <1>13
<1>23. used \subseteq used'
  BY <1>2
<1> QED
  BY <1>5, <1>18, <1>19, <1>21, <1>22, <1>23, ContentFrame

LEMMA ContentStep ==
    ASSUME SteadyOwner, RoomForAll, TypeOK, RemovalInv, RoleInv, AuthorityInv, ContentInv,
           [Next]_vars
    PROVE  ContentInv'
<1>0. AuthorityInv'
  BY AuthorityStep
<1>1. CASE Quiet
  BY <1>1, ContentQuiet
<1>2. ASSUME NEW p \in Peers, UpdateGroup(p) PROVE ContentInv'
  <2>1. PICK b, x, id : Base(p, b) /\ Changes(p, x, id) /\ IsProfile(x, b, p, id)
    BY <1>2, UpdateChanges
  <2> QED
    BY <1>0, <2>1, ContentChanges DEF IsProfile
<1>3. ASSUME NEW t \in Peers, SetAdministrator(t) PROVE ContentInv'
  <2>1. PICK b, x, id : Base(Owner, b) /\ Changes(Owner, x, id) /\ IsAppointment(x, b, t, id)
    BY <1>3, AppointmentChanges
  <2> QED
    BY <1>0, <2>1, PeersAssumption, ContentChanges DEF IsAppointment
<1>4. ASSUME NEW p \in Peers, NEW t \in Peers, RemoveMember(p, t) PROVE ContentInv'
  <2>1. PICK b, x, id : /\ Base(p, b) /\ Changes(p, x, id) /\ IsRemoval(x, b, p, t, id)
                        /\ CanRemove(b, p, t)
    BY <1>4, RemovalChanges
  <2>2. x.epoch = b.epoch \/ (p = Owner /\ x.epoch = b.epoch + 1)
    BY <2>1 DEF IsRemoval, CanRemove
  <2> QED
    BY <1>0, <2>1, <2>2, ContentChanges DEF IsRemoval
<1>5. ASSUME RepairAliases PROVE ContentInv'
  <2>1. PICK b, x, id, a : Base(Owner, b) /\ Changes(Owner, x, id) /\ IsRepair(x, b, a, id)
    BY <1>5, RepairChanges
  <2> QED
    BY <1>0, <2>1, PeersAssumption, ContentChanges DEF IsRepair
<1>6. ASSUME NEW c \in Peers, NEW j \in Peers, Join(c, j) PROVE ContentInv'
  BY <1>0, <1>6, ContentJoin
<1> QED
  BY <1>1, <1>2, <1>3, <1>4, <1>5, <1>6 DEF Next, LocalEdit, OwnerEdit, Quiet

LEMMA ContentInit ==
    ASSUME Init
    PROVE  ContentInv
<1>1. db[Owner] = InitialReplica /\ InitialReplica \in Replica
  BY PeersAssumption, InitialType, InitialAssumption DEF Init
<1>2. Replicas \subseteq {InitialReplica}
  BY InitialReplicas
<1>3. InitialReplica.op = 0 /\ used = {0}
  BY DEF InitialReplica, Init
<1>4. InitialReplica.ver \in Nat /\ InitialReplica.epoch \in Nat
  BY <1>1 DEF Replica
<1>5. \A g, h \in Replicas : SameContent(g, h)
  BY <1>2 DEF SameContent
<1> QED
  BY <1>1, <1>2, <1>3, <1>4, <1>5 DEF ContentInv

(* A revision of the owner names one content on every copy, in whatever    *)
(* epochs, for any peers and bounds under which the list of certificates   *)
(* does not overflow and for an owner that keeps its copy and does not     *)
(* edit it twice at once: edits draw fresh identifiers, and a merge that   *)
(* keeps the metadata of one epoch under a revision of another never does  *)
(* so with a revision of the owner, because what has followed it in a      *)
(* later epoch has a higher one.  Merges may be delayed and overlap.       *)
THEOREM OwnersRevisionsNameContent ==
    ASSUME SteadyOwner, RoomForAll
    PROVE  Spec => []OwnersRevisionNamesContent
<1>1. TypeOK /\ RemovalInv /\ RoleInv /\ AuthorityInv /\ ContentInv /\ [Next]_vars => ContentInv'
  BY ContentStep
<1>2. TypeOK /\ RemovalInv /\ RoleInv /\ AuthorityInv /\ [Next]_vars => AuthorityInv'
  BY AuthorityStep
<1>3. ContentInv => OwnersRevisionNamesContent
  BY ReplicasAre DEF ContentInv, OwnersRevisionNamesContent, Copies
<1>4. TypeOK /\ RemovalInv /\ [Next]_vars => RemovalInv'
  BY RemovalStep DEF Kept
<1>5. TypeOK /\ RemovalInv /\ RoleInv /\ [Next]_vars => RoleInv'
  BY RolesStep
<1>6. Init => AuthorityInv /\ ContentInv
  BY AuthorityInit, ContentInit
<1> QED
  BY <1>1, <1>2, <1>3, <1>4, <1>5, <1>6, RolesInit, RemovalInit, GroupTyping, PTL DEF Spec

=============================================================================
