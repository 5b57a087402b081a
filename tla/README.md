# TLA+ models of Risk P2P

Risk is a desktop application for chat, files and calls between people who
trust each other, without a central server for content.  This directory holds
TLA+ models of the parts of it in which several actors, messages, timers and
awaits interact, the TLC runs that check them on small instances, and proofs
checked by TLAPS for every instance.

`PROJECT.json` maps every definition to the source lines it models and lists
runs, mutants, hazards and theorems.

## 1. The system

| Component | State it keeps | Operations | Talks to |
|---|---|---|---|
| P2P invites (`services/invites`) | status, candidate, request, pending decision, timers | create, join, accept, reject, cancel, expiry; `invite.*` messages | signaling, mesh, social storage |
| Social storage (`services/offline/social-storage.ts`) | identity, friends, groups (manifest, roles, tombstones, certificates, rendezvous secret) | load, edit, merge, revoke, leave | local backend or IndexedDB |
| Group chat service (`chat/GroupChatService.ts`) | trusted and revoked peers, names, keys | snapshots, profile updates, authority checks | social storage |
| Chat session (`chat/ChatController.ts`, `SyncService.ts`) | session token, open and revoked peers, challenges, rendezvous | connect, disconnect, handshake, refresh of the membership | mesh, signaling, group chat service |
| Outbox, history, message services (`chat/`) | outbox records, history requests, projection caches | enqueue, flush, ACK, page requests, projection | storage, mesh |
| Background sessions (`BackgroundChatManager.ts`) | controllers per channel, group and friend; queue, retry timer | sync, release, disconnect, connectPrivate | chat sessions |
| Mesh transport (`packages/rtc/src/transport/mesh.ts`) | one peer connection per remote, recovery timers, media permissions | connect, offer and answer, recover, send, dispose | signaling |
| File transfer (`packages/rtc`, `services/attachments`) | queued and incoming transfers, chunk sets, pauses, records | offer, accept, request, send, resume, pause, cancel, verify | mesh, attachment storage |
| Calls (`call/CallController.ts`, `CallSession.ts`) | session generation, challenges, authenticated and revoked peers | join, leave, authenticate, recover, refresh of the group | mesh, signaling |
| Local media (`call/MediaManager.ts`, `call/media`) | microphone, camera, screen captures and their publications | open, switch, mute, share, stop, quality | mesh, screen audio |
| Native screen audio (`desktop-backend/.../screen_audio.rs`) | one PipeWire session: loopback, reconcile task | prepare, stop | PipeWire |
| Desktop shell (`apps/desktop/src`) | sidecar process, restart budget, status | start, recover, stop, quit | local backend |
| Attachment store (`desktop-backend/.../attachments.rs`) | directories of transfers and of finished contents, quota lock | prepare, missing, write, finalize, discard, purge, cleanup | file system |
| Signaling client (`services/supabase`) | the realtime channel, presence, sessions seen, backoff | connect, track, broadcast, reconnect, move, disconnect | Supabase Realtime |
| Local backend, rest (`desktop-backend`) | SQLite tables | HTTP handlers | - |
| Legacy server (`server`) | PostgreSQL tables | HTTP handlers | outside the P2P flow |

Everything in the renderer and in Electron's main process is single-threaded
JavaScript: code runs to its next `await` without interruption, and every
`await` on IndexedDB, the backend, WebCrypto, a device, a timer or the network is
a point where other handlers run.  The local backend serves its requests
concurrently and awaits every file operation and every command.  The models draw
action boundaries exactly there.  Between peers everything is asynchronous:
channels close at any time and lose what they carry.

What makes each part correct:

* invites: nobody is stored without the consent of both users, `accepted` is
  shown only for a stored bond, sessions end and release their resources;
* signaling: whoever waits for the connection is not forgotten, the connection comes
  back, no signal of an earlier session of a peer is taken;
* groups: removals are final, only the owner delegates, removals are certified,
  within an epoch one revision names one content;
* chat delivery: nothing that was queued is lost, an ACK means the receiver
  stored the item, a finished history transfer left no gap, delivery happens
  eventually;
* chat sessions: only a member that proved itself on the channel open now is
  served, a removal in storage takes hold, ended sessions leave no transport or
  provider behind;
* background sessions: no controller is lost or doubled, limits hold, the
  sessions become those of the last sync;
* mesh: a collision of offers is resolved, a broken connection is repaired, media
  flows only over a proven connection and follows what is published;
* transfers: a completed file is the file that was offered, the sender reports
  only what was verified, cancelled transfers leave nothing on disk;
* calls: media needs a proof and membership, an ended call leaves no connection;
* media: when the call is over nothing is captured, a muted microphone is silent,
  participants are told what they are sent;
* screen audio: no process outlives its session, Risk's own sound stays out of a
  mix that excludes it, every other stream gets in;
* desktop: exactly one backend is attended to, it comes back or the user is told;
  a crash between two file operations never makes a half written file look whole.

## 2. Modules

| Module | Models | Used by |
|---|---|---|
| `Invite` | invite sessions of one creator and several joiners over lossy channels | `MCInvite`, `InviteProofs` |
| `Signaling` | the provider of one call, its realtime channels and one remote peer | `MCSignaling`, `SignalingProofs` |
| `GroupManifest` | the group record as pure operators: order, merge, authority, edits | `GroupReplication` |
| `GroupReplication` | the replicas of one group, their edits, snapshots, certificates, invites and rendezvous | `MCGroup`, `GroupProofs` |
| `ChatDelivery` | outbox, acknowledgements and history of one channel over bounded, breakable channels | `MCChat`, `ChatProofs` |
| `ChatSession` | one chat session with one peer: connect, handshake, membership refresh | `MCChatSession`, `ChatSessionProofs` |
| `Background` | the controllers that run without a window | `MCBackground`, `ChatSessionProofs` |
| `Mesh` | one pair of peers: perfect negotiation, recovery, media permission | `MCMesh`, `MediaProofs` |
| `Delivery` | abstract: what a file transfer promises | `Transfer` |
| `Transfer` | sender, receiver and storage of one file; implements `Delivery` | `MCTransfer`, `TransferProofs` |
| `Call` | one call controller with its peers at the rendezvous | `MCCall`, `SignalingProofs` |
| `Media` | captures and publications of the local device | `MCMedia`, `MediaProofs` |
| `ScreenAudio` | the PipeWire session of the local backend | `MCScreenAudio`, `MediaProofs` |
| `Supervisor` | Electron's main process keeping the backend alive | `Desktop` |
| `AttachmentDisk` | the attachment store, file operation by file operation | `Desktop` |
| `Desktop` | composition of `Supervisor` and `AttachmentDisk` | `MCDesktop`, `DesktopProofs` |
| `BackgroundState`, `MeshState`, `CallState`, `MediaState` | the state of those four components and the safety properties that speak of it alone | `Background`, `Mesh`, `Call`, `Media` and the modules of their theorems |
| `InviteProofs`, `SignalingProofs`, `GroupProofs`, `ChatProofs`, `ChatSessionProofs`, `TransferProofs`, `MediaProofs`, `DesktopProofs` | theorems | - |

Alternative versions of an action marked `Mutant:` are not part of any
specification.  Each is a plausible slip in the code, and the property it is
paired with in `PROJECT.json` fails when it takes the action's place.

### 2.1 Invite

One creator session and a set of joiner sessions.  The `c*` variables are the
fields of the creator's `InviteService`, the `j*` functions those of each
joiner's; `pipe`, `toC` and `toJ` are the DataChannels.  `sendDecision` is three
actions, because it awaits twice: `CDecide` (the click, up to
`addLocalGroupMember` in a group invite or up to signing otherwise), `CCommit`
and `CSend`.  `receive` is split the same way into the arrival (`CArrive`), the
continuation after the signature check (`CReceiveAck`, `CReceiveRequest`,
`CReceiveIgnored`) and the continuation after storage (`CPersist`).  `cleanup`
is `CCleanup` up to the signaling disconnect and `CCleanupEnd` after it.

Abstractions: invite codes, names and signatures are left out, signatures of
honest peers verify; a joiner session stands for its random peer id and request
id; decision messages carry the number `n` of the click, which the code does not
send, only to tell messages apart in the channel.  `CryptoSettled` is a timing
assumption: a redial takes a second and a negotiation, by then the WebCrypto
calls and the three ACK attempts (150 ms apart) of the earlier channel are over.

### 2.2 GroupManifest and GroupReplication

A replica is a record of the fields that decide membership: `members`, `admins`,
`grants` (stored delegations of the current epoch), `removed` (both
`removedPeerIds` and `removedMembers`, which are always written together),
`certs`, the membership version, the revision (`ver`, `actor`, `op`), the epoch,
the rendezvous version and secret, and `meta` for name, avatar and channels.
Each operator of `GroupManifest` is one function of the source.  An operation
draws one identifier that stands for all UUIDs it generates.  Peers are numbers
so that `localeCompare` is `<`.

`GroupReplication` adds the peers.  An edit loads, works and saves.  At the
peers in `Overlapping` an operation may hold what it loaded while others save
(`BeginEdit`, `BeginMerge`, `EndMerge`), as the code allows on every peer; at
the others operations run one at a time.  Separating the two keeps apart
which properties depend on it (section 5).  Snapshots and certificates may be
delayed or lost; with `Churn` channels close, and two peers meet again only under the same
secret.

Left out: size budgets of the wire format, display names (except that `Aliases`
carry the owner's name, which `repairLocalIdentityAliases` looks for),
`updateKnownPeerProfile`, which changes display data only, and
`mergeLocalGroupMembers`, which nothing calls.  `acceptMembership` loads the
group once to check a snapshot and once more to merge it; the model uses one
load for both.

### 2.3 ChatDelivery

The peers of one channel.  `store` and `outbox` are their databases and survive
a restart; `ready` is `openDataPeers`, `hist` is `HistoryService.requests`, and
`chan` holds what a DataChannel carries.  `phase` follows `send` and
`publishEvent` through their awaits: queued (`Enqueue`), offered to whoever is
there (`SendToAuthenticatedPeers`), stored (`PersistSigned`).  `tasks` is what
`markPeerReady` still has to do for a peer: load the outbox (`LoadOutbox`), send
record after record (`FlushNext`, `MarkOutboxAttempt`), ask for history
(`RequestHistory`).  `receive` is one action per message type; where it verifies
and saves before it goes on, the continuation is an action of its own
(`PersistItem`, `PersistFromHistory`), and both writes may fail.  `respond` is
`Respond`: its loop of sends has no await, so the buffer does not drain while it
runs and what exceeds it is refused.

`due` is a history variable: what the other peer held when the first page of the
open request was asked for.  Items whose write failed leave it.

Abstractions.

* An item is a number, its place in the order of timestamp and id by which pages
  are cut.
* The `processed` cache and the store are one: an item is known when it is
  stored.
* The database reads of `requestHistory` and `respond` happen together with the
  sending.
* Every peer has the event capability; legacy messages, typing, attachments and
  changes of membership are left out.
* The buffer limit is a number of undelivered messages instead of bytes.

`Starts` lists the beginnings that are explored together: what each peer already
stores and how much of `MaxFaults` is used up.

Timing assumptions.  `Connect` waits for outbox writes of the earlier
connection, which a negotiation through signaling outlasts by far.  `Expire`
concerns records whose `send` has ended: thirty days pass.

### 2.4 ChatSession

One device, one remote peer, one group.  `cc` holds the fields of
`ChatController` and what `GroupChatService` trusts, `sync` those of
`SyncService`; `net` has a provider and a transport per session, because those of
an earlier session go on reporting until they are closed.  An operation in flight
is a record of `ops` that keeps what its closure captured: the session token and
the snapshot it loaded.  `connect` is a chain of such steps (closing the previous
session, inferring the room, loading the network context, attaching, joining,
refreshing), and so are `refreshGroupMembership` and the verification of a
proof.  The peer's proofs may be good, bad, late or absent; the stored group
changes at any moment.

`LateJoin = FALSE` assumes that a provider disconnected while it re-joins stays
disconnected; `MaxInFlight` bounds the operations in flight when the user or the
peer asks for another.  The status shown to the user is left out.

### 2.5 Background

`sess` and `private` are the maps of `BackgroundChatManager`, `lru` the order in
which private conversations were used.  `sync`, `releaseChannel` and `disconnect`
enter `queue` and run one at a time; `connectPrivate` is not queued, so it
interleaves with them and with itself.  A controller is an identifier from its
creation to the end of its `disconnect`.  `SerialPrivate = TRUE` assumes that no
private conversation is opened while another one makes room; section 5 says what
happens otherwise.  `Limits` names what the constants must be: finite sets of keys of
three kinds, limits of at least one.

### 2.6 Mesh

One pair of peers that need media authorization.  Peer 1 has the smaller
identifier: it initiates, recovers and is the impolite one.  `entry` is
`MeshPeerEntry` together with what the browser's `RTCPeerConnection` knows; the
browser's part (`NeedsNegotiation`, `Checked`, when a connection comes up or
breaks) is external.  A description names the ICE session it proposes or agrees
to; two ends are connected when they agreed on one session whose path lives.
`makeOffer` and `acceptDescription` are split at their awaits, so collisions,
late answers and rollback arise by interleaving.  Recovery timers fire only while
no negotiation step is pending (`Quiet`): delays are seconds, negotiation steps
milliseconds.

Left out: trickled candidates, bandwidth adaptation, statistics.

### 2.7 Delivery and Transfer

`Delivery` is the promise: chunks are kept or given up, a transfer is verified only
when all its chunks are there intact, the content of a verified transfer stays
unless that transfer is under way again or its record is gone, and the sender
reports only what was verified.  `Transfer` implements it: `Delivers` is
`Promise!Spec`, with `have` mapped to the intact chunks of a transfer in the
storage in use and `active` to the transfers that are `UnderWay` at the receiver
or have no record there.

Peer S holds a file, peer R obtains it by an offer or by a request after the
synchronisation of metadata.  `snd` and `rcv` are the two transfer queues,
`records`, `store` and `final` R's database and storage, which survive a restart.
Control messages and chunks travel on two ordered channels that overtake each
other.  `Setups` switches between the storage of the desktop and of the browser,
files below and above the automatic limit, manifests with and without chunk
hashes.  With `AnyoneResumes = FALSE` only the peer that paused resumes.

### 2.8 Call

One controller, its transports and providers per join, and its peers.  `s` holds
the fields of `CallController` and `CallSession`, `ops` the asynchronous functions
that wait, each with the generation it started in.  Presence, data channels,
challenges, proofs, timers and the stored group change independently.  A
connection of the transport is absent, new, open or shut; how it comes about is
`Mesh`'s subject.

`SlowContext = FALSE` assumes that the network context of a join has loaded
before the user leaves or joins again.

### 2.9 Media

Each operation of `MediaManager` is a record whose `at` names the wait it is in;
one action is the code from one wait to the next, and the call may end, and the
next one begin, between any two.  `mm` holds the manager's fields, `dev` what the
devices and the mesh really do: which captures are live, enabled, published, in
which quality.  Captures and publications may fail.  `Serial = TRUE` assumes that
a user's request of one kind waits for the earlier ones of that kind; the manager
itself does not enforce it (section 5).

### 2.10 ScreenAudio

`reqs` are the requests being served, each at its wait; `mixes` the running
loopbacks, `slot` the session in `SESSION`, `tasks` the reconcile tasks, `links`
what PipeWire connects.  A loopback has the number of the request that started
it.  `crossed` is a history variable: a request came while another was served, or
a client left while its session was being stored.  PipeWire and the kernel's
parent-death signal are external.

### 2.11 Supervisor, AttachmentDisk and Desktop

`Supervisor` has two activities, `start` and `recover`, each at its await;
`child`, `told` and `watched` are the processes, whether they were asked to end
and whether their exit is noticed.  `AttachmentDisk` has a directory per transfer
(`dir`), one per content (`content`), one request at a time per transfer (`req`)
and the quota lock.  Every file operation is a step; `"torn"` is a file whose
write was interrupted.  `Desktop` composes them: requests reach the backend whose
configuration is published, a backend that ends drops its requests half done, and
one that starts cleans up before it is ready.

Bytes are reduced to what the hash of the whole file tells apart.  The cleanup at
start is one step per transfer.  A quit while requests are under way is not
followed, and the bridge file of development builds is taken to be written.

### 2.12 Signaling

One provider as the call uses it, the channel objects it opens at the realtime
service and one remote peer.  `link` holds the provider's fields and the calls
under way, `ch` the channel objects, which join, break and are removed in the
client library, `snd` the broadcasts with their two attempts, `view` presence and
messages as the provider knows them, `remote` the peer and what it has sent.
`connect` waits for the earlier channel's removal, for a digest and for the
subscription; `disconnect` for `untrack` and the removal; `reopenChannel` for a
removal that may not be answered; each wait is a boundary.  The rendezvous changes
at most once.

A clock ticks with the moves of the remote peer; a tick outlasts the tolerance for
timestamps, and the clocks agree.  The rate limit and the pruning of caches are left
out.

## 3. Runs

Several runs check one invariant that is the conjunction of named parts: the parts
hold together or not at all, and each is documented where it is defined.

| Run | Instance | Checks |
|---|---|---|
| `invite` | friend and group invites; one joiner with two decisions and all endings, or two joiners that compete for one; storage that fails | `TypeOK`, `MutualConsent`, `AcceptedIsPersisted`, `EndedStaysEnded`, `EventuallyReleased` |
| `signaling` | 3 channel objects, one broadcast at a time; two calls or rotations with one fault, one with two faults, or four moves of the remote peer | `NobodyWaitsInVain`, `SignalsAreFresh`, `Reconnects` |
| `group` | 3 peers (owner, administrator, member who is an alias and may leave and return), 2 edits, overlapping operations at the administrator, channels that close | `OnlyOwnerDelegates`, `CertifiedRemovals`, `RevisionNamesContent`, `RemoveWins` |
| `chat` | 2 peers; either two kept events and no fault, or one kept event and one fault; a new message that may expire; pages of one, buffer of 3 | `DeliveredOrQueued`, `HistoryComplete`, `EventuallyDelivered` |
| `chat_session` | 2 sessions, 2 channels, one change of the group, one fault, 2 operations in flight | `OnlyProvenMembersOpen` (a peer is open only as a member with a proof of the channel open now, and the controller tracks that channel), `NothingLeftBehind`, `SessionSettles` (handshakes end, a removal in storage takes hold) |
| `background` | 2 channels, 1 group, 2 friends, limits of 1, 3 calls, 2 faults | `SessionsAccountedFor` (no orphan, no twins, within capacity), `Converges` |
| `mesh` | one pair, peer 1 publishes, one disturbance of any kind | `ConnectionsAreSound` (media only over a proven connection, broken connections have a recovery armed), `PairConverges` (the pair connects, and its media become what is published) |
| `transfer` | a file of 2 chunks, 2 transfers, 1 incoming at a time, the storage of the desktop and that of the browser with and without chunk hashes, one fault | `DiskIsAccountedFor` (no chunks without a record of their file), `Delivers` (the refinement of `Delivery`), `Completes` |
| `call` | 2 peers of any standing and version, 2 joins, one disturbance | `MediaIsEarned` (media only with a proof or under check, never for the revoked), `ConnectionsReleased`, `MediaGranted` |
| `media` | 2 calls, 3 requests, 2 faults | `NothingLeftRunning`, `PeersGetWhatIsTold` (muted is silent, announcements are true, the last quality is applied), `ShareStopsForCause` |
| `screen_audio` | 2 requests, a stream of three channels and Risk's own mono one, one change, one fault | `NoStrayLoopback`, `MixIsClean` (no echo of Risk), `EveryAppIsMixed` |
| `desktop` | 2 attachments (one with a part file of the old layout), quota for one, 1 crash, 2 failed starts, 2 attempts | `BackendAttended` (one backend, the lock is freed), `ReservationsFit`, `MarkedChunksArrived`, `ContentIsWhole`, `BackendReturns` |

Bounds.  Two joiners are enough for every step in which one candidate replaces
another; two decisions for every repeated click.  Three peers are an owner, an
administrator and a member, the three kinds of sender and of target; two edits
are a concurrent pair.  A snapshot is a copy of the sender's state and may wait
while any number of edits happen, so one in flight at a time does not order them.

In the chat run a page of one item makes a transfer of several pages out of few
items, with messages and events ending on different pages.  A buffer of 3 takes a
page of both streams and its `complete`, and is exceeded when acknowledgements or
outbox records are on the way too.  One fault is a lost channel, a restart, a
failed write or a message that came before its receiver had authenticated the
sender, at any moment of any transfer.

Two sessions, two joins or two calls are the shortest histories in which what one
left behind meets the next.  Two channels of one session tell a proof of the
earlier one from a proof of the current one.  Limits of 1 are met by the second
conversation or channel.  One fault may fall between any two steps; together with
the fault-free interleavings of two actors this reaches every await with every
continuation.  In `desktop` one crash meets every file operation, and the failed
starts use up the restart budget.

Deadlock is checked in `chat` only, where peers keep meeting.  Elsewhere the
system may really stop: sessions end, edits and calls are bounded, a pair or a
desktop is at rest.

Fairness.

* `Invite`: weak fairness of the creator's own timers and of the continuation of
  its own awaits.  JavaScript timers and promises justify it; nothing is assumed
  of the network, the joiners or the users.
* `Signaling`: weak fairness of the provider's timers, of the channel library's joins
  and answers to `track`, of removals, which time out after three seconds, and of the
  attempts of a broadcast.  Faults are bounded: a service that never answers again
  brings nobody back.
* `ChatDelivery`: `WF_vars(Next)`: the system does not stop while something can
  happen.  Faults are bounded, and a connection that came to rest ends and is set
  up again (`Renew`, `Connect`), as connections do when windows are closed and
  networks change; without that nothing in the code would repeat what a congested
  channel refused.  For two peers this weakest form is enough.
* `ChatSession`, `Background`, `Call`: weak fairness of each kind of operation in
  flight, of timers and deadlines; in `Call` also of the peers' answers to
  challenges that are not lost, which is what the retries are for.
* `Mesh`: weak fairness of handlers, of the browser's reports of connectivity and
  of the controller that connects and authorizes a present peer.  Strong fairness
  of `TimerFires` and `RecoverPeer`: a timer that is re-armed whenever an attempt
  fails fires again and again, though negotiation steps in between disable it.
* `Transfer`: weak fairness of both event loops, the storage and the channels, and
  of users who accept and resume; `Completes` gives up when somebody cancels or the
  connection breaks.
* `ScreenAudio`: weak fairness of spawned processes, requests and tasks.
* `Desktop`: weak fairness of the awaits of the activities and of a starting child,
  which have time limits in the code.
* `GroupReplication` and `Media` assume none and check safety only.

## 4. Proofs

TLAPS checks these for every value of the constants that satisfies the named
assumptions: any number of peers, edits, sessions, channels, requests and faults.
Every theorem about an invariant follows one pattern: `Init` implies an inductive
strengthening, each action preserves it, and it implies what is claimed.  The
strengthenings are stated in the component's module, or next to the theorem where
only the proof needs them.

A component whose theorems share a module with another's is split: its variables and
what must hold of them are in a module of their own (`MeshState`), which the module of
the theorems extends, and its steps (`Mesh`), which it instantiates.  `MediaProofs` holds
the theorems of `ScreenAudio`, `Mesh` (instance `Pair`) and `Media` (instance `Loc`);
`ChatSessionProofs` those of `ChatSession` and `Background` (instance `Bg`);
`SignalingProofs` those of `Signaling` and `Call` (instance `Cal`).  What an instance
assumes of its constants is a hypothesis of its theorems where they need it.

| Theorem | States | Strengthening |
|---|---|---|
| `InviteProofs.InviteTyping` | `TypeOK` | - |
| `InviteProofs.Consent` | `MutualConsent` | `ConsentInv` |
| `InviteProofs.AcceptedMeansStored` | `AcceptedIsPersisted` | `PersistInv` |
| `InviteProofs.EndIsFinal` | `EndedStaysEnded` | `TypeOK` |
| `SignalingProofs.Pursuit` | `NobodyWaitsInVain` | `ChannelInv`, `SessionInv`, `PursuitInv` |
| `SignalingProofs.Freshness` | `SignalsAreFresh` | those, `PresenceInv`, `RoomInv` |
| `SignalingProofs.EndedCallsAreReleased` | `ConnectionsReleased` of `Call`, given `NotOvertaken` | `CallInv` |
| `GroupProofs.GroupTyping` | `TypeOK` | - |
| `GroupProofs.RemovalsAreFinal` | `RemoveWins` | `RemovalInv` |
| `GroupProofs.RolesComeFromTheOwner` | `OnlyOwnerDelegates` | `RoleInv`, `RemovalInv` |
| `GroupProofs.RemovalsAreCertified` | `CertifiedRemovals` | `EpochInv`, `CertificateInv`, `RoleInv` |
| `GroupProofs.RevisionsNameContent` | `RevisionNamesContent` | `ContentInv` and all of the above |
| `ChatProofs.ChatTyping` | `TypeOK` | - |
| `ChatProofs.NothingIsLost` | `DeliveredOrQueued` | `TruthfulAcks`, `KeptOrStored` |
| `ChatProofs.HistoryHasNoGaps` | `HistoryComplete` | `HistoryInv` |
| `ChatSessionProofs.Membership` | `OnlyProvenMembersOpen` | `CreationInv`, `ConnectInv`, `AttachInv`, `ChallengeInv`, `RoomInv` |
| `ChatSessionProofs.Release` | `~LateJoin => NothingLeftBehind` | those, `ReleaseInv` |
| `ChatSessionProofs.EveryControllerIsHeld` | `NoOrphan`, `NoTwins` of `Background` | `BgInv` |
| `ChatSessionProofs.SessionsStayAccountedFor` | `SessionsAccountedFor`, given `SerialPrivate` | `BgInv` |
| `TransferProofs.DeliversWhatItPromises` | `Delivers`, given `HashedChunks` | `ToldInv`, `WriteInv`, `IntactInv` |
| `TransferProofs.DiskStaysAccountedFor` | `DiskIsAccountedFor` | `ToldInv`, `DiskInv` |
| `MediaProofs.Owners` | `NoStrayLoopback` | `OwnersInv` |
| `MediaProofs.CleanMix` | `MixIsClean` | `OwnersInv`, `EchoInv` |
| `MediaProofs.PairStaysSound` | `ConnectionsAreSound` of `Mesh` | `PairInv` |
| `MediaProofs.NothingStaysCaptured` | `NothingLeftRunning` of `Media`, given `Serial` | `LocalInv` |
| `MediaProofs.ShareEndsForCause` | `ShareStopsForCause` of `Media`, given `Serial` | `LocalInv` |
| `MediaProofs.PeersAreToldTheTruth` | `PeersGetWhatIsTold` of `Media`, given `Serial` | `ToldInv` |
| `DesktopProofs.BackendIsAttended` | `BackendAttended` | `ActivityInv`, `AttendedInv` |
| `DesktopProofs.WholeContents` | `ContentIsWhole` | `RequestOK`, `FinalizeInv` |
| `DesktopProofs.MarkedChunksHaveArrived` | `MarkedChunksArrived` | those, `MarkInv` |
| `DesktopProofs.ReservationsStayWithinQuota` | `ReservationsFit`, given `LegacyFits` | those, `FitInv` |

Invites.  `MutualConsent` speaks only about what is stored.  `ConsentInv` follows the
consent through everything that can lead to a save: an accept exists as message,
task or pending decision only for an approved request, and an ACK exists only of a
joiner that settled (`Consented`).  A group invite stores the member before the
decision is sent, and an ACK names the request and not the decision, so two more
facts are needed: the creator listens to one joiner at a time (`OneVoice`), and the
candidate that follows while a commit is awaited was not rejected on that channel
before, so it does not acknowledge an accept it never got (`FreshAnswers`).

Signaling.  A broadcast that waits is resolved or rejected by the next subscription
or by `disconnect`; `PursuitInv` says that a subscription is on its way by more than
the first `connect`, whose callback gives up on a closed channel: a timer, a
reopening or the join of a reopened channel.  `PresenceInv` orders sessions,
presence, departures and messages in time, which makes the three places where a
signal may be refused add up.

Groups.  A tombstone would be forgotten by the next load if it named the owner, and
a member could carry a tombstone if an edit did not respect it; `RemovalInv` excludes
both for every stored replica (`Sound`) and for everything an operation has loaded
(`HeldSound`).  The other three invariants speak of the stored copies, but a copy may
come from any replica that was read before an await or is in flight; their
strengthenings say the same of all of these (`Replicas`, `Issued`).  An administrator
of an epoch is listed or removed in every replica of that epoch (`Enrolled`), hence
a member that is not listed was not appointed, and a removal by an administrator is
justified.  That holds because an epoch is begun once and by the owner alone:

* `SteadyOwner`: the owner does not delete its own copy and its operations do not
  overlap.  The code does not enforce either; two overlapping edits of the owner
  name one epoch twice, with different administrators.
* `RoomForAll`: there are no more peers than `MAX_GROUP_REVOCATIONS` (48, as many as
  members).  Beyond it `mergeGroupRevocations` truncates the list and tombstones lose
  their certificates.

`Group.cfg` satisfies both, with overlapping operations at the administrator and a
member that leaves.  `OnlyOwnerDelegates` needs neither.  `RevisionNamesContent` is
about one epoch: an invite by an administrator that missed the last epoch brings the
administrator's revision, but not its metadata, to a joiner that knows the epoch
(`social-storage.ts:503`), so across epochs one revision may name two contents; it
takes three edits.  The proof needs that an older manifest of the owner never wins
against a newer epoch: whatever the owner says has a lower revision than everything
of a later epoch (`OwnersWord`).

Chat.  An ACK removes the record, so an ACK on the way must tell the truth
(`TruthfulAcks`): it is sent only by a peer whose store has the item, stores never
shrink, and a restart empties the channels but not the stores.

`HistoryComplete` is about a transfer of any number of pages.  `HistoryInv` says what a
connection carries while it runs: one preparation at most, requests of earlier pages
with smaller numbers than the open one, and of the open page either all the chunks
before its `complete` or no `complete` at all (`Asks`, `Answers`).  What is due and lies
before the cursors is here already (`Transferred`), and the cursor of the next page is
the last item of this one, so nothing lies between two pages.  A chunk that was not
stored, and one that the buffer refused, keep the page from completing.

Chat sessions.  A peer is open only by a proof of the challenge that was sent on the
channel open now; `AttachInv` and `CreationInv` say which session's transport the
controller listens to, whichever earlier session still reports.  `Release` has the
hypothesis that a provider disconnected while it re-joins does not join after all,
which the code does not enforce (section 5).

Background sessions.  `BgInv` gives every controller one holder: an entry of the maps,
the operation of the queue that creates or closes it, or one call that opens a private
conversation; `runExclusive` has one operation at a time (`OneByOne`), and what is open
is wanted by the last request that got that far (`Wanted`), which bounds channels and
groups by what `DesiredChannels` and `DesiredGroups` select.  That part needs nothing
else.  The limit of private conversations needs `SerialPrivate`: room is made one await
before the session is created (`RoomMade`).

Transfers.  Content that was found intact is noted as verified one await later, and in
between a pause, a cancellation, late messages and other transfers of the attachment
may come in; `IntactInv` says that it is still intact if the transfer is still
verifying.  The sender reports a delivery when it is told `complete`, which is said only
of verified transfers (`ToldInv`).  `HashedChunks` demands that chunks are checked against
hashes as they arrive (`WriteInv`) or that the storage keeps the chunks of each transfer
apart, as the desktop's does.  Manifests carry hashes up to 512 chunks
(`attachment-service.ts:34`); beyond, in the browser, a second transfer of a file that
changed overwrites chunks that the first one verified.  Two of the three setups
of `Transfer.cfg` satisfy it.

`DiskIsAccountedFor` needs no such hypothesis.  `DiskInv` explains every chunk: on the
desktop by the transfer whose directory it is in, in the browser by any record that
lists the attachment, the chunks being the last thing to go with the records
(`Covered`); content is found intact by the step that finalizes it (`Intact`).

Screen audio.  Loopbacks are numbered by requests, and only one request at a time can
be about to start one (`OwnersInv`); as long as requests did not cross, one task
reconciles, and it excludes what the session excludes (`EchoInv`).

Mesh.  `PairInv` adds what ties permission to the connection: an authorized end has one
that came up, a track is attached only at an authorized end that has media, and a broken
connection of the end that recovers has its timer armed or a recovery under way.  It is
preserved by every handler and every answer, late, lost or crossing.

Local media.  `LocalInv` places every live capture: it is in the manager's streams, or
the screen's, or held by one operation that has opened it and not handed it on (`Owned`),
and what is played or published belongs to the call (`Placed`).  Captures have numbers
that are not used again, so a late `ended` event of one cannot mean another
(`Numbered`).  The theorems assume `Serial`, which the manager does not enforce
(section 5); `Media.cfg` satisfies it.  Calls, requests and faults are unbounded.

`PeersGetWhatIsTold` compares what is announced with what is published, and an operation
announces one await before or after it publishes.  `ToldInv` therefore says of each kind
of track what the announcement means while nobody touches it, and what every operation
that waits counts on when it goes on: that its call is the current one still or that it
will notice, and that the track it is about to replace, mute or unpublish is the one it
read before the await (`MicTold`, `CamTold`, `ScrTold`, `AudTold`, and `Settled` for the
quality of the share).  That nobody else moved the track meanwhile follows from the
operations that are never under way together (`Alone`, `Apart`).  The number of captures is
bounded by calls and requests (`Funded`, `Counted`), which the type invariant in the
property asks for.

Calls.  `CallInv` says who may own a connection.  A join that has begun its session
knows it by the number of its life; no two joins have the same one (`Alone`), and the
join whose life is current finds no transport before it creates its own (`Owned`), so a
transport is never replaced while it has connections.  A cleanup takes the transport out
of the controller and keeps it until its last step closes every connection of it
(`Released`).  The handlers that connect or disconnect several peers are folds over a
set; `FoldInduction` proves by a least counterexample that what each peer's step keeps
the fold keeps.  Nothing is assumed of `SlowContext`, of the number of joins or of the
disturbances, but `NotOvertaken` is: no call has begun while an earlier join still waits for
the previous one to be left.  `join` does not enforce that.  With the two joins of the
run it always holds; with three it can fail and the property with it (section 5).

Desktop.  The two components share no variable, so each has an invariant of its own and
every step of `Desktop` is a step of one or of both.  From the hash check to the
rename no other request of the transfer is served (`FinalizeInv`), which holds across
any number of crashes since a crash drops the requests.

`MarkedChunksArrived` is an action property, because one step is excepted: the creation
of a payload beside a map that an earlier removal left (section 5).  `MarkInv` says that
a request that writes a chunk was sent for one that is not marked, of a transfer whose
parts are gone, and that the markers a migration gathered are those of bytes it moved;
hence no other step, crash or removal puts a marker over bytes that were not written.
For `ReservationsFit`, one request at a time measures and is admitted, and what it was
admitted with still fits when its manifest is whole (`FitInv`); other reservations may
only shrink meanwhile.  The sum over the transfers is a fold, whose induction is in the
lemmas of `DesktopProofs` (`SumExists`, `SumIs`, `SumAtMost`), by the least size of a
set for which they would fail.
`LegacyFits` assumes that what an older version left fits the quota of this one.

What stays with TLC:

* liveness under fairness (`EventuallyReleased`, `Reconnects`, `EventuallyDelivered`,
  `SessionSettles`, `Converges`, `PairConverges`, `Completes`, `MediaGranted`,
  `EveryAppIsMixed`, `BackendReturns`): out of the prover's reach;
* `MediaIsEarned` of `Call`: it holds within the bounds of the run and not for every value
  of the constants, so there is no such theorem to prove.  A third overlapping join breaks
  it, and so does a second disturbance (section 5).  `ConnectionsReleased` without
  `NotOvertaken` is false for the first of these reasons.

## 5. Where the checked properties end

The assumptions of section 2 and the bounds of section 3 are drawn where the code
stops keeping a property.  What lies beyond was met while modelling; relaxing the
constant named here, where there is one, makes TLC show it.

Invites

* `invite.ack` names the request, not the decision (`service.ts:349`): after a
  decision timeout the late ACK of a reject confirms the accept that followed.
* In a group invite the creator stores the member before the ACK
  (`service.ts:461`), while docs/architecture.md:186 describes the order of a
  friend invite for both.
* A candidate lost while the creator awaits a signature leaves the session in
  `approval` without a request (`service.ts:486`) until it expires.

Signaling

* A `disconnect` while `connect` waits for the digest, or for the removal of an earlier
  channel, finds no channel of its own; `connect` goes on and opens one that stays
  (`signaling.ts:82`), while docs/protocol.md:81 says that leaving removes the channel.
* A removal that is not answered may leave a channel joined that nobody owns.

Groups

* Two overlapping edits of the owner begin one epoch twice; `RemovalsAreCertified` and
  `RevisionsNameContent` assume that the owner's operations do not overlap.
* Operations load, await and save the whole record without a lock
  (`social-storage.ts:418`): one that loaded before a removal and saves after it
  undoes the removal.  `RemoveWins` is about the peers outside `Overlapping`.
* Authority over a certificate is judged with the roles of the local copy
  (`GroupChatService.ts:308`): a member that missed a demotion refuses the
  owner's snapshot with the certificate of the demoted peer, and every later one.
* `mergeGroupRevocations` cuts at `MAX_GROUP_REVOCATIONS`
  (`social-storage.ts:1046`) while tombstones stay, so a manifest with more
  tombstones than certificates is refused by members that lack them.
* An administrator that is demoted and then removed by another administrator
  refuses its own certificate while its copy lists it (`social-storage.ts:773`).
* Two concurrent removals draw two secrets of the same version; the one that
  wins may be known to the peer the other one removed (`social-storage.ts:557`).
  The roster still refuses that peer.
* A member that is away during a rotation keeps the old secret and meets nobody
  (`social-storage.ts:106`).
* A manifest of an older epoch may relabel the local content with its own
  revision (`social-storage.ts:507`); a newer epoch replaces the member list, so
  a member admitted concurrently disappears without a tombstone (`:538`).

Chat delivery

* `flush` deletes records older than 30 days (`OutboxService.ts:43`), while
  docs/protocol.md:120 says that the outbox is removed only after the ACK.
* `respond` drops what exceeds the buffer, `complete` included
  (`HistoryService.ts:176`); when one page exceeds it, every attempt stops at the
  same place.  A chunk larger than one wire message makes `sendData` throw
  (`mesh.ts:231`), which ends the response at the same chunk every time.
* A message that arrives before its receiver has authenticated the sender is
  dropped (`ChatController.ts:600`); it comes again with the next connection.
* `markOutboxAttempt` may write back a record that was acknowledged meanwhile
  (`OutboxService.ts:46`); it is sent and acknowledged once more.

Chat sessions

* A provider disconnected during a re-join may join all the same
  (`LateJoin = TRUE` violates `NothingLeftBehind`); overlapping connects, and a
  disconnect while a connect closes the previous session, may leak likewise.
* A change of the rendezvous during the initial join lets the first connect time
  out; a failed re-join leaves `rendezvousId` advanced.
* `acceptProfile` (`GroupChatService.ts:126`) marks a peer trusted without
  checking the session; `connectPresentTrustedPeers` ignores the client version.
* A handshake that failed stays failed until the channel reopens.
* A `refreshGroupMembership(false)` during a refresh is not queued.

Background sessions

* `SerialPrivate = FALSE`: overlapping `connectPrivate` calls leak a controller
  or exceed the limit; one that makes room during a logout creates a session
  after it.
* A retry may reopen a released channel until the next sync.

Mesh

* Answers are not matched to offers; an answer lost while connected blocks further
  negotiation until something breaks the connection (the media part of
  `PairConverges` excludes lost descriptions); a lost first offer is repaired only by the controller's watchdog.
* A `sendOffer` that fails leaves `have-local-offer`.

Transfers

* `AnyoneResumes = TRUE` violates `Completes`: a late `file.resume` during
  verification discards finalized content.
* With the control channel down, `pump` and `run` may call each other without end
  in microtasks (`file-transfer.ts:236`).
* A manifest of a cancelled or verified transfer creates it again; `pump` starts
  transfers nobody accepted; failed and paused transfers stay in
  `receiver.transfers` and count towards its limit.
* A connection that breaks between finalization and confirmation leaves the
  record `failed`.  The browser storage marks a file complete before it compares
  the hash, and a bad chunk it keeps poisons later transfers of the same file.
* After two interventions a late `file.resume` makes the sender announce a verified
  transfer again; in the browser, refusing, cancelling or failing it then discards the
  verified content.  Hence `Delivery` lets go of what is under way again.
* In the browser, chunks belong to the attachment: what one of two transfers received
  stays when it is cancelled, as long as another record lists the attachment.  Without
  chunk hashes, a transfer of a changed file overwrites chunks another one verified.
* A file that changed at the sender leads to an endless exchange of `complete` and
  `need`.

Calls

* `SlowContext = TRUE`: a join cancelled during `loadRtcNetworkContext`
  (`CallController.ts:177`) leaves its provider connected.
* `Capacity = 2`: a peer displaced by `enforceMeshCapacity` stays in
  `authenticatedPeers`; it is connected again but never authenticated again.
* Two disturbances: a `recoverPeer` that rejects late disconnects an authenticated
  peer; overlapping `refreshGroupSecurity` calls may apply the older snapshot.
  A check of membership whose timer fires while the call joins a new rendezvous may be
  dropped with the channel of its peer shut: the media stay authorized until the rejoin
  finds the peer or its absence.
* Three overlapping joins leak a transport, and the one that goes ahead while another
  leaves keeps the media of peers it has not authenticated.

Media

* `Serial = FALSE` violates `ToldTruth`: overlapping openings of the camera or the
  screen publish both captures; overlapping switches of the microphone leave the
  first replacement published and not muted.
* A failed unpublish leaves the camera live until the call ends; a replaced
  microphone is audible during the await of `replacePublishedTrack` after a mute.
* On Linux a cancelled capture does not wait for `prepare` and leaves the PipeWire
  session; a late stop ends the new share's session.

Screen audio

* Overlapping `prepare` requests, or a client that leaves while `SESSION` is
  locked, detach a reconcile task; the death of `pw-loopback` is never noticed.

Desktop

* A crash after the removal of the payload (by `discard`) or its rename (`attachments.rs:241`)
  and before the removal of the transfer leaves its map.  The next request creates the payload anew (`:339`),
  and a crash before the map is rewritten (`:379`) leaves both, contrary to the comment at
  `:342`: later requests find both and skip the initialization (`:327`), with markers over
  a payload of zeros.  Those chunks are never asked for, and the hash of the whole file
  fails until the transfer is discarded.  It takes two crashes, and is the exception in
  `MarkedChunksArrived`.
* The quota bounds reservations, not bytes on disk: `finalize` does not take the
  lock, so a rename between the two scans hides bytes; a transfer resumed after an
  interrupted finalization counts as content and as payload; a chunk map may
  exceed the 64 KiB reserved for metadata.
* A crash between `create_dir_all` and the manifest makes `prepare` fail for that
  transfer until the weekly cleanup.  A late `write_chunk` after a discard brings
  the directory back outside the quota.
* An exit between the health answer and the registration of the exit handler is
  not noticed.  A spawn after `await access` may happen while the application
  quits.  An old child may overlap the next attempt for 1.5 seconds, with a quota
  lock of its own.

## 6. Not modelled

* Message projection: the fold of messages and events into what is shown.  Its
  order of evaluation is a pure function of stored items; `ChatDelivery` models how
  they are stored.
* Local backend apart from attachments and screen audio: handlers are single
  statements or transactions of SQLite.
* Legacy server: outside the desktop's critical path (docs/architecture.md:70).
* Wire formats: schemas; the models use the messages they describe.
* User interface: presentation.  The invite panel's unmount is in `Invite`.

`PROJECT.json` says for each modelled component what is left out of it.

## 7. Plan

1. `Projection`: `projectMessage` as a fold, its independence of the order of
   arrival, and the interleavings of `MessageService`.
2. Composition of `ChatSession` with `ChatDelivery`: nothing is sent to or
   accepted from a peer that was removed meanwhile.
