---------------------------- MODULE MediaState -----------------------------
(***************************************************************************)
(* What there is of the local side of a call's media: the fields of        *)
(* MediaManager (apps/web/src/call/MediaManager.ts), the captures and      *)
(* their publications, and the operations that wait; and what the user and *)
(* the other participants rely on.  Media has the steps.                   *)
(***************************************************************************)
EXTENDS Integers, FiniteSets

CONSTANTS
    MaxCalls,    \* calls joined in a behaviour
    MaxAsked     \* requests of the user in a behaviour

VARIABLES
    call,    \* the active lifecycle, 0 when there is none
    spent,   \* what the bounds cap: [calls, asked, faults, opened]
    mm,      \* the fields of MediaManager: [mic, cam, scr, local, says, q]
    dev,     \* captures and publications: [live, on, pub, aud, applied, sent, prov];
             \* missed: captures whose "ended" event came before its listener
    ended,   \* screen captures that ended, which the manager has not noticed
    ops      \* operations waiting for a promise

None == <<"none", 0>>

Numbers == 1 .. MaxCalls + 4 * MaxAsked

Track == {<<kind, n>> : kind \in {"mic", "cam", "scr", "aud"}, n \in Numbers}

(* What the manager holds are captures it has opened. *)
LocalTyped ==
    /\ call \in 0 .. MaxCalls
    /\ spent \in [calls : 0 .. MaxCalls, asked : 0 .. MaxAsked, faults : Nat,
                  opened : 0 .. MaxCalls + 4 * MaxAsked]
    /\ {mm.mic, mm.cam, mm.scr} \subseteq Track \cup {None}
    /\ mm.local \subseteq Track
    /\ mm.says \in [mic : BOOLEAN, cam : BOOLEAN, scr : BOOLEAN, aud : BOOLEAN]
    /\ dev.live \cup dev.on \cup dev.pub \cup ended \subseteq Track
    /\ dev.aud \subseteq Track \X Track
    /\ \A o \in ops : /\ o.call \in 0 .. MaxCalls
                      /\ o.cap \in Track \cup {None}
                      /\ o.kind \in {"camoff", "unshare", "attach"} => o.cap # None

Camera == {"camon", "camoff"}
Screen == {"share", "unshare", "attach"}
InFlight(kinds) == \E o \in ops : o.kind \in kinds

(* What peers that are or become connected receive. *)
Heard(kind) == {k \in dev.live \cap dev.pub : k[1] = kind}

(* When the call is over and its last operation has returned, no microphone,
   camera or screen is still being captured, whichever wait the end of the call
   overtook and whichever step failed (MediaManager.ts, cleanup and the isActive
   checks after every await). *)
NothingLeftRunning == call = 0 /\ ops = {} => dev.live = {}

(* Whoever is told that the microphone is muted hears nothing: also after the
   capture was switched to another device, or replaced after a screen capture,
   while the user was muting.  (The replacement itself is audible until its
   await ends: MediaManager.ts:119-137.) *)
MutedIsSilent ==
    call # 0 /\ ~mm.says.mic /\ (\A o \in ops : o.at # "replace")
        => Heard("mic") \cap dev.on = {}

(* What participants were last told of camera, screen and screen audio is what
   is being sent to them, once no operation on it is under way: after failures,
   after a source went away, after the previous call's operations.  The picture
   is excepted while its source has gone and the manager does not know: until
   the "ended" event is handled, and for as long as the share lasts when that
   event came before the listener (MediaManager.ts:228, :253). *)
ToldTruth ==
    call # 0 =>
        /\ ~InFlight(Camera) => mm.says.cam = (Heard("cam") # {})
        /\ ~InFlight(Screen) =>
              /\ mm.scr \notin ended => mm.says.scr = (Heard("scr") # {})
              /\ mm.says.aud = (Heard("aud") # {})

(* The latest quality asked for is the one the shared screen is captured and
   encoded with, however the requests and the beginning of the share
   interleave (applyLatestScreenCaptureQuality). *)
QualitySettles ==
    call # 0 /\ mm.scr \in dev.live /\ ~InFlight({"share", "quality"})
        => dev.applied[mm.scr[2]] = mm.q /\ dev.sent[mm.scr[2]] = mm.q

(* A share on the screen stops because someone asked, its own source went
   away, a step of it failed or the call ended: a late "ended" event of an
   earlier capture does not stop it (MediaManager.ts:251-253). *)
ShareStopsForCause ==
    [][mm.scr # None /\ mm'.scr # mm.scr =>
          call' = 0 \/ spent'.asked # spent.asked \/ spent'.faults # spent.faults
          \/ mm.scr \notin dev.live \/ \E o \in ops : o.kind = "share" /\ o.at = "open"]_mm

(* What the other participants hear and see is what the user chose and they were
   told: silence while muted, the announced camera and screen, in the quality
   last asked for (setMicrophone, updateVoiceInput, toggleCamera, startScreen,
   applyLatestScreenCaptureQuality). *)
PeersGetWhatIsTold == LocalTyped /\ MutedIsSilent /\ ToldTruth /\ QualitySettles
============================================================================
