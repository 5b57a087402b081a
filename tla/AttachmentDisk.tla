--------------------------- MODULE AttachmentDisk ---------------------------
(***************************************************************************)
(* The attachment store of the local backend                               *)
(* (desktop-backend/src/p2p/attachments.rs): a directory per transfer with *)
(* its manifest, its payload and a map of the chunks that arrived, and a   *)
(* directory per finished attachment.  Requests are served concurrently,   *)
(* any number of them for one transfer; every file operation is an await   *)
(* and so a step of its own.  A crash drops the requests being served and  *)
(* keeps the files.                                                        *)
(*                                                                         *)
(* Bytes are abstracted to what the SHA-256 of a whole file tells apart.   *)
(* Sizes count payloads; the small metadata files, and the 64 KiB reserved *)
(* for them, are left out.                                                 *)
(***************************************************************************)
EXTENDS Naturals, FiniteSets, Functions

CONSTANTS
    Transfers,     \* transfer ids
    ContentOf,     \* ContentOf[t]: the attachment that t transfers
    ChunksOf,      \* ChunksOf[t]: the chunk indexes of its manifest
    SizeOf,        \* SizeOf[a]: the size of an attachment
    Quota,         \* RISK_ATTACHMENT_QUOTA_BYTES
    Legacy,        \* Legacy[t]: chunks an older version left as .part files
    Requests,      \* the requests that may be served
    AtOnce,        \* BOUND: how many of them at once
    For,           \* For[r]: the transfer that r is about
    Uses,          \* BOUND: Uses[r], what r may ask for
    Resumes,       \* BOUND: what may be asked for a transfer once it is crossed
    Stale,         \* BOUND: transfers that may be older than a week at a start
    Corrupt        \* Corrupt[t]: chunks that changed at the sender after its manifest

Attachments == Range(ContentOf)

Operations == {"prepare", "missing", "write", "finalize", "discard", "purge", "forget"}

ASSUME AttachmentDiskAssumption ==
    /\ Quota \in Nat /\ ContentOf \in [Transfers -> Attachments]
    /\ SizeOf \in [Attachments -> Nat] /\ IsFiniteSet(Transfers)
    /\ \A t \in Transfers : IsFiniteSet(ChunksOf[t]) /\ Legacy[t] \cup Corrupt[t] \subseteq ChunksOf[t]
    /\ For \in [Requests -> Transfers] /\ \A r \in Requests : Uses[r] \subseteq Operations
    /\ Stale \subseteq Transfers

VARIABLES
    dir,      \* dir[t]: the directory of a transfer
    content,  \* content[a]: the directory of a finished attachment
    req,      \* req[r]: what a request being served is at
    lock,     \* attachment_quota_lock: {} or the request that holds it
    crossed   \* history: transfers whose files a removal took from a request at work

disk == <<dir, content, req, lock, crossed>>

Bytes    == {"zero", "torn", "good", "wrong"}
File     == {"none", "torn", "whole"}
Empty(t) == [i \in ChunksOf[t] |-> "zero"]

\* held and mapped: payload.risk-part and chunks.map exist.
NoDir(t) == [there |-> FALSE, manifest |-> "none", held |-> FALSE, payload |-> Empty(t),
             mapped |-> FALSE, map |-> {}, parts |-> {}]
\* linked: the file that the request has open is still in the directory.
NoRequest == [op |-> "none", at |-> "none", chunk |-> 0, data |-> "good", used |-> 0,
              markers |-> {}, linked |-> FALSE]
Request(op, at) == [NoRequest EXCEPT !.op = op, !.at = at]
NoContent == [there |-> FALSE, file |-> "none", manifest |-> "none"]

\* What an older version left.
FirstDir(t) ==
    IF Legacy[t] = {} THEN NoDir(t)
    ELSE [NoDir(t) EXCEPT !.there = TRUE, !.manifest = "whole", !.parts = Legacy[t]]

AttachmentDiskInit ==
    /\ dir = [t \in Transfers |-> FirstDir(t)]
    /\ content = [a \in Attachments |-> NoContent]
    /\ req = [r \in Requests |-> NoRequest]
    /\ lock = {} /\ crossed = {}

Readable(t) == dir[t].there /\ dir[t].manifest = "whole"

\* A request goes on at a step, with a file open, or is answered; an answer gives the
\* lock back.
Goto(r, at)  == req' = [req EXCEPT ![r].at = at, ![r].markers = {}, ![r].linked = FALSE]
Answer(r)    == req' = [req EXCEPT ![r] = NoRequest] /\ lock' = lock \ {r}
Serve(r, at) == req[r].at = at

Keep(r, at)  == Goto(r, at) /\ UNCHANGED <<lock, crossed>>
Opens(r, at) == req' = [req EXCEPT ![r].at = at, ![r].linked = TRUE] /\ UNCHANGED <<lock, crossed>>
Fail(r)      == Answer(r) /\ UNCHANGED <<dir, content, crossed>>

Others(r) == {q \in Requests \ {r} : For[q] = For[r] /\ req[q].at # "none"}

----------------------------------------------------------------------------
(* The requests of the client.                                             *)

Send(r, q) ==
    /\ req[r] = NoRequest /\ q.op \in Uses[r] /\ (For[r] \in crossed => q.op \in Resumes)
    /\ Cardinality({p \in Requests : req[p] # NoRequest}) < AtOnce
    /\ req' = [req EXCEPT ![r] = q]
    /\ UNCHANGED <<dir, content, lock, crossed>>

SendPrepare(r)  == Send(r, Request("prepare", "lock"))
SendMissing(r)  == Send(r, Request("missing", "read"))
SendDiscard(r)  == Send(r, Request("discard", "remove"))
SendPurge(r)    == Send(r, Request("purge", "lock"))
SendForget(r)   == Send(r, Request("forget", "forget"))

\* A receiver writes up to eight chunks at once.  It has a chunk written once
\* (processingChunks), those only that were missing when its prepare, which migrates
\* the parts, was answered, and none while it finalizes.
MayWrite(r, i) ==
    /\ dir[For[r]].parts = {} /\ i \notin dir[For[r]].map
    /\ \A q \in Others(r) :
         /\ req[q].op # "finalize" /\ (req[q].op = "write" => req[q].chunk # i)
         /\ i \notin req[q].markers

\* It finalizes when its writes have been answered.
MayFinalize(r) == \A q \in Others(r) : req[q].op # "write"

\* A cancelled transfer that is offered again is another receiver's, which knows
\* nothing of what is still under way for the first.
SendChunk(r) ==
    \E i \in ChunksOf[For[r]], d \in {"good", "wrong"} :
      /\ d = "wrong" => i \in Corrupt[For[r]]
      /\ For[r] \in crossed \/ MayWrite(r, i)
      /\ Send(r, [Request("write", "read") EXCEPT !.chunk = i, !.data = d])

SendFinalize(r) ==
    /\ For[r] \in crossed \/ MayFinalize(r)
    /\ Send(r, Request("finalize", "read"))

----------------------------------------------------------------------------
(* prepare                                                                 *)

\* attachment_storage_usage, the part for a transfer: its reservation, or the size
\* of a directory whose manifest cannot be read.
Reserved(t) == IF Readable(t) \/ dir[t].held THEN SizeOf[ContentOf[t]] ELSE 0

TransferUsage == SumFunction([t \in Transfers |-> Reserved(t)])

ContentUsage ==
    SumFunction([a \in Attachments |-> IF content[a].file = "none" THEN 0 ELSE SizeOf[a]])

\* Mutant: requests do not wait for each other.
MayLock_AtOnce(r) == TRUE

MayLock(r) == lock = {}

\* A transfer that exists is resumed if its manifest can be read and is the same;
\* a new one must fit.  A purge removes the transfers whose manifest names its channel.
TakeLock(r) ==
    LET t == For[r] IN
    /\ Serve(r, "lock") /\ MayLock(r)
    /\ \/ /\ req[r].op = "prepare" /\ (dir[t].there => Readable(t))
          /\ Goto(r, IF dir[t].there THEN "mkdir" ELSE "scan")
          /\ lock' = lock \cup {r}
       \/ req[r].op = "purge" /\ Readable(t) /\ Goto(r, "remove") /\ lock' = lock \cup {r}
       \/ dir[t].there /\ ~Readable(t) /\ Answer(r)
       \/ req[r].op = "purge" /\ ~dir[t].there /\ Answer(r)
    /\ UNCHANGED <<dir, content, crossed>>

\* The finished attachments are measured first ...
ScanContent(r) ==
    /\ Serve(r, "scan")
    /\ req' = [req EXCEPT ![r].at = "admit", ![r].used = ContentUsage]
    /\ UNCHANGED <<dir, content, lock, crossed>>

\* ... then the transfers.
Admit(r) ==
    /\ Serve(r, "admit")
    /\ IF req[r].used + TransferUsage + SizeOf[ContentOf[For[r]]] > Quota
         THEN Answer(r)
         ELSE req' = [req EXCEPT ![r].at = "mkdir", ![r].used = 0] /\ UNCHANGED lock
    /\ UNCHANGED <<dir, content, crossed>>

MakeDir(r) ==
    /\ Serve(r, "mkdir")
    /\ dir' = [dir EXCEPT ![For[r]].there = TRUE]
    /\ Keep(r, "open")
    /\ UNCHANGED content

\* fs::write truncates the file, then fills it.
OpenManifest(r) ==
    /\ Serve(r, "open")
    /\ IF ~dir[For[r]].there THEN Fail(r)
       ELSE /\ dir' = [dir EXCEPT ![For[r]].manifest = "torn"]
            /\ Opens(r, "save") /\ UNCHANGED content

FillManifest(r) ==
    /\ Serve(r, "save")
    /\ dir' = IF req[r].linked THEN [dir EXCEPT ![For[r]].manifest = "whole"] ELSE dir
    /\ Keep(r, "storage")
    /\ UNCHANGED content

----------------------------------------------------------------------------
(* prepare_chunk_storage, which every request but a removal goes through.  *)

\* A finalization makes the directory of its attachment first.
ReadManifest(r) ==
    LET a == ContentOf[For[r]] IN
    /\ Serve(r, "read")
    /\ IF ~Readable(For[r]) THEN Fail(r)
       ELSE /\ Keep(r, "storage") /\ UNCHANGED dir
            /\ content' = IF req[r].op = "finalize" THEN [content EXCEPT ![a].there = TRUE] ELSE content

StorageReady(r) ==
    CASE req[r].op = "write"    -> Keep(r, "bytes")
      [] req[r].op = "finalize" -> Keep(r, "check")
      [] OTHER                  -> Answer(r) /\ UNCHANGED crossed

Initialised(t) == dir[t].held /\ dir[t].mapped

CheckStorage(r) ==
    /\ Serve(r, "storage")
    /\ dir' = [dir EXCEPT ![For[r]].there = TRUE]
    /\ IF Initialised(For[r]) THEN StorageReady(r) ELSE Keep(r, "size")
    /\ UNCHANGED content

\* The payload is created at its full size, or kept.
SizePayload(r) ==
    /\ Serve(r, "size")
    /\ IF ~dir[For[r]].there THEN Fail(r)
       ELSE /\ dir' = [dir EXCEPT ![For[r]].held = TRUE]
            /\ req' = [req EXCEPT ![r].at = "migrate", ![r].markers = {}, ![r].linked = TRUE]
            /\ UNCHANGED <<content, lock, crossed>>

\* A chunk of an older version moves into the payload: its bytes are written, then
\* its file is removed.  An interruption between the two only repeats the move.
MigratePart(r) ==
    LET t == For[r] IN
    /\ Serve(r, "migrate")
    /\ \E i \in dir[t].parts :
         /\ dir' = [dir EXCEPT ![t].payload[i] = IF req[r].linked THEN "good" ELSE @,
                               ![t].parts = @ \ {i}]
         /\ req' = [req EXCEPT ![r].markers = @ \cup {i}]
    /\ UNCHANGED <<content, lock, crossed>>

\* The map is written anew: truncated, then filled.
OpenMap(r) ==
    LET t == For[r] IN
    /\ Serve(r, "migrate") /\ dir[t].parts = {}
    /\ IF ~dir[t].there THEN Fail(r)
       ELSE /\ dir' = [dir EXCEPT ![t].mapped = TRUE, ![t].map = {}]
            /\ Opens(r, "mark") /\ UNCHANGED content

FillMap(r) ==
    /\ Serve(r, "mark")
    /\ dir' = IF req[r].linked THEN [dir EXCEPT ![For[r]].map = req[r].markers] ELSE dir
    /\ StorageReady(r)
    /\ UNCHANGED content

----------------------------------------------------------------------------
(* write_chunk                                                             *)

\* Bytes written over the same bytes leave no trace.
Torn(old, new) == IF old = new THEN old ELSE "torn"

\* Mutant: the marker is set with the first bytes.
WriteBytes_MarkerFirst(r) ==
    LET t == For[r] i == req[r].chunk IN
    /\ Serve(r, "bytes")
    /\ IF ~dir[t].held THEN Fail(r)
       ELSE /\ dir' = [dir EXCEPT ![t].payload[i] = Torn(@, req[r].data), ![t].map = @ \cup {i}]
            /\ Opens(r, "fill") /\ UNCHANGED content

WriteBytes(r) ==
    LET t == For[r] i == req[r].chunk IN
    /\ Serve(r, "bytes")
    /\ IF ~dir[t].held THEN Fail(r)
       ELSE /\ dir' = [dir EXCEPT ![t].payload[i] = Torn(@, req[r].data)]
            /\ Opens(r, "fill") /\ UNCHANGED content

FlushBytes(r) ==
    LET t == For[r] i == req[r].chunk IN
    /\ Serve(r, "fill")
    /\ dir' = IF req[r].linked THEN [dir EXCEPT ![t].payload[i] = req[r].data] ELSE dir
    /\ Keep(r, "marker")
    /\ UNCHANGED content

MarkChunk(r) ==
    LET t == For[r] IN
    /\ Serve(r, "marker")
    /\ dir' = IF dir[t].mapped THEN [dir EXCEPT ![t].map = @ \cup {req[r].chunk}] ELSE dir
    /\ Answer(r)
    /\ UNCHANGED <<content, crossed>>

----------------------------------------------------------------------------
(* finalize                                                                *)

Whole(t) == dir[t].held /\ \A i \in ChunksOf[t] : dir[t].payload[i] = "good"

CheckMap(r) ==
    LET t == For[r] IN
    /\ Serve(r, "check")
    /\ IF dir[t].mapped /\ dir[t].map = ChunksOf[t]
         THEN Keep(r, "hash") /\ UNCHANGED <<dir, content>> ELSE Fail(r)

\* Mutant: the number of bytes is compared, their hash is not.
HashMatches_SizeOnly(t) == dir[t].held

HashMatches(t) == Whole(t)

HashPayload(r) ==
    /\ Serve(r, "hash")
    /\ IF HashMatches(For[r]) THEN Keep(r, "unlink") /\ UNCHANGED <<dir, content>> ELSE Fail(r)

\* An earlier copy makes way.
Unlink(r) ==
    /\ Serve(r, "unlink")
    /\ content' = [content EXCEPT ![ContentOf[For[r]]].file = "none"]
    /\ Keep(r, "rename")
    /\ UNCHANGED dir

\* The requests of the transfer that need the files that are there.
AtWork(r) == {q \in Others(r) : req[q].op \in {"write", "finalize"} \/ req[q].at \in {"migrate", "mark"}}

\* The requests after a file of the transfer has gone: a handle on it leads nowhere.
FileOf(q) == CASE req[q].at = "save"                -> "manifest"
               [] req[q].at \in {"migrate", "fill"} -> "payload"
               [] req[q].at = "mark"                -> "map"
               [] OTHER                             -> "none"

Without(r, f) ==
    [q \in Requests |-> IF q \in Others(r) /\ FileOf(q) = f THEN [req[q] EXCEPT !.linked = FALSE]
                        ELSE req[q]]

Takes(r) == crossed' = IF AtWork(r) = {} THEN crossed ELSE crossed \cup {For[r]}

Rename(r) ==
    LET t == For[r] a == ContentOf[t] IN
    /\ Serve(r, "rename")
    /\ IF ~dir[t].held \/ ~content[a].there THEN Fail(r)
       ELSE /\ content' = [content EXCEPT ![a].file = IF Whole(t) THEN "whole" ELSE "bad"]
            /\ dir' = [dir EXCEPT ![t].held = FALSE, ![t].payload = Empty(t)]
            /\ req' = [Without(r, "payload") EXCEPT ![r].at = "publish"]
            /\ Takes(r) /\ UNCHANGED lock

OpenContentManifest(r) ==
    LET a == ContentOf[For[r]] IN
    /\ Serve(r, "publish")
    /\ IF ~content[a].there THEN Fail(r)
       ELSE content' = [content EXCEPT ![a].manifest = "torn"] /\ Keep(r, "commit") /\ UNCHANGED dir

FillContentManifest(r) ==
    LET a == ContentOf[For[r]] IN
    /\ Serve(r, "commit")
    /\ content' = [content EXCEPT ![a].manifest = IF @ = "none" THEN @ ELSE "whole"]
    /\ Keep(r, "remove")
    /\ UNCHANGED dir

----------------------------------------------------------------------------
(* Removals.                                                               *)

Files == {"manifest", "payload", "map", "parts"}

Less(d, t, f) ==
    CASE f = "manifest" -> [d EXCEPT !.manifest = "none"]
      [] f = "payload"  -> [d EXCEPT !.held = FALSE, !.payload = Empty(t)]
      [] f = "map"      -> [d EXCEPT !.mapped = FALSE, !.map = {}]
      [] f = "parts"    -> [d EXCEPT !.parts = {}]

\* remove_dir_all, at the end of finalize and in discard and purge: the files are
\* unlinked in any order, then the directory, which fails if another request has put
\* a file there meanwhile.
RemoveFile(r) ==
    LET t == For[r] IN
    /\ Serve(r, "remove") /\ dir[t].there
    /\ \E f \in Files :
         /\ Less(dir[t], t, f) # dir[t]
         /\ dir' = [dir EXCEPT ![t] = Less(dir[t], t, f)]
         /\ req' = Without(r, f)
    /\ Takes(r) /\ UNCHANGED <<content, lock>>

RemoveDir(r) ==
    LET t == For[r] IN
    /\ Serve(r, "remove") /\ dir[t].there
    /\ \A f \in Files : Less(dir[t], t, f) = dir[t]
    /\ dir' = [dir EXCEPT ![t] = NoDir(t)]
    /\ Takes(r) /\ UNCHANGED <<content, req, lock>>

Removed(r) ==
    /\ Serve(r, "remove") /\ (dir[For[r]].there => Others(r) # {})
    /\ Fail(r)

DiscardContent(r) ==
    LET a == ContentOf[For[r]] IN
    /\ Serve(r, "forget")
    /\ \/ /\ content[a].there
          /\ \E c \in {[content[a] EXCEPT !.file = "none"], [content[a] EXCEPT !.manifest = "none"]} :
               c # content[a] /\ content' = [content EXCEPT ![a] = c]
          /\ UNCHANGED <<req, lock>>
       \/ content[a].file = "none" /\ content[a].manifest = "none" /\ Answer(r)
          /\ content' = [content EXCEPT ![a] = NoContent]
    /\ UNCHANGED <<dir, crossed>>

\* cleanup_stale_transfers, which a starting backend runs before it listens; its
\* removals are taken to succeed.
CleanupStale(t) ==
    /\ t \in Stale /\ dir[t].there /\ \A r \in Requests : For[r] = t => req[r] = NoRequest
    /\ dir' = [dir EXCEPT ![t] = NoDir(t)]
    /\ UNCHANGED <<content, req, lock, crossed>>

\* The process is gone.
Drop == req' = [r \in Requests |-> NoRequest] /\ lock' = {} /\ UNCHANGED <<dir, content, crossed>>

Sends(r) ==
    \/ SendPrepare(r) \/ SendMissing(r) \/ SendChunk(r) \/ SendFinalize(r)
    \/ SendDiscard(r) \/ SendPurge(r) \/ SendForget(r)

Serves(r) ==
    \/ TakeLock(r) \/ ScanContent(r) \/ Admit(r) \/ MakeDir(r) \/ OpenManifest(r) \/ FillManifest(r)
    \/ ReadManifest(r) \/ CheckStorage(r) \/ SizePayload(r) \/ MigratePart(r) \/ OpenMap(r) \/ FillMap(r)
    \/ WriteBytes(r) \/ FlushBytes(r) \/ MarkChunk(r)
    \/ CheckMap(r) \/ HashPayload(r) \/ Unlink(r) \/ Rename(r)
    \/ OpenContentManifest(r) \/ FillContentManifest(r)
    \/ RemoveFile(r) \/ RemoveDir(r) \/ Removed(r) \/ DiscardContent(r)

----------------------------------------------------------------------------
Directory(t) ==
    [there : BOOLEAN, manifest : File, held : BOOLEAN, payload : [ChunksOf[t] -> Bytes],
     mapped : BOOLEAN, map : SUBSET ChunksOf[t], parts : SUBSET ChunksOf[t]]

Finished == [there : BOOLEAN, file : {"none", "whole", "bad"}, manifest : File]

AttachmentDiskTypeOK ==
    /\ \A t \in Transfers : dir[t] \in Directory(t)
    /\ content \in [Attachments -> Finished]
    /\ lock \in SUBSET Requests /\ crossed \in SUBSET Transfers
    /\ \A t \in Transfers : ~dir[t].there => dir[t] = NoDir(t)
    /\ \A r \in Requests :
         /\ req[r].op = "none" <=> req[r].at = "none"
         /\ r \in lock => req[r].op \in {"prepare", "purge"}

(* Two offers never share the same free space: the reservations of all the *)
(* transfers fit in the quota together, whoever is measured, admitted,     *)
(* resumed, interrupted or removed at the same time.                       *)
ReservationsFit ==
    SumFunction([t \in Transfers |-> IF Readable(t) THEN SizeOf[ContentOf[t]] ELSE 0]) <= Quota

\* Markers over bytes that were not written, or not all of them.
Unbacked(t) ==
    {i \in dir[t].map : dir[t].held /\ dir[t].mapped /\ dir[t].payload[i] \in {"zero", "torn"}}

(* A chunk that the map marks has arrived, so that a resumed transfer asks *)
(* for every other one: no write beside other writes, no migration from    *)
(* the older layout, no finalization and no crash between two file         *)
(* operations adds a marker over bytes that were not written, as long as   *)
(* no removal has taken the files of the transfer from a request that was  *)
(* at work on them.  The one step that may is the creation of a payload    *)
(* where the map of an earlier one was left: until the map is written anew *)
(* its markers stand over sparse bytes.                                    *)
MarkedChunksArrived ==
    [][\A t \in Transfers \ crossed :
         (\E r \in Requests : For[r] = t /\ SizePayload(r)) \/ Unbacked(t)' \subseteq Unbacked(t)]_disk

(* An attachment that can be opened is the one its hash names: whatever    *)
(* was interrupted while an earlier copy made way for a new one, a content *)
(* with a readable manifest and a file holds the whole file, unless it     *)
(* comes from a transfer whose files were removed under a finalization or  *)
(* another request at work.                                                *)
ContentIsWhole ==
    \A a \in Attachments :
        content[a].manifest = "whole" /\ content[a].file # "none" =>
          content[a].file = "whole" \/ \E t \in crossed : ContentOf[t] = a
=============================================================================
