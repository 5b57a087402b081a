------------------------------- MODULE Media -------------------------------
(***************************************************************************)
(* The local side of a call's media: MediaManager (apps/web/src/call/      *)
(* MediaManager.ts) with the capture helpers of call/media/ and the        *)
(* publications of the mesh transport.                                     *)
(*                                                                         *)
(* Every operation of MediaManager is asynchronous: it opens a device or a *)
(* portal, waits, reads the manager's fields again, publishes, waits, and  *)
(* may be overtaken at each wait by a mute, by another operation, by the   *)
(* end of the call or by the beginning of the next one.  An operation is   *)
(* a record of ops whose "at" is the wait it is in; one action is the code *)
(* that runs from one wait to the next.                                    *)
(*                                                                         *)
(* A capture is <<kind, number>>; a microphone session (input stream,      *)
(* RNNoise track) is one capture, a screen capture and the audio that      *)
(* belongs to its stream are two.  The PipeWire session of the local       *)
(* backend is modelled in ScreenAudio.                                     *)
(***************************************************************************)
EXTENDS MediaState

CONSTANTS
    MaxFaults,   \* failed captures and publications, suspended microphones
    Serial       \* TRUE: a request waits for the earlier ones of its kind

ASSUME MediaBounds == {MaxCalls, MaxAsked, MaxFaults} \subseteq Nat /\ Serial \in BOOLEAN

vars == <<call, spent, mm, dev, ended, ops>>

(* The tracks of the stream of screen capture k. *)
Stream(k) == {k} \cup {p[2] : p \in {x \in dev.aud : x[1] = k}}

Fresh(q) ==
    [mic |-> None, cam |-> None, scr |-> None, local |-> {}, q |-> q,
     says |-> [mic |-> TRUE, cam |-> FALSE, scr |-> FALSE, aud |-> FALSE]]

Init ==
    /\ call = 0
    /\ spent = [calls |-> 0, asked |-> 0, faults |-> 0, opened |-> 0]
    /\ mm = Fresh(0)
    /\ dev = [live |-> {}, on |-> {}, pub |-> {}, aud |-> {}, prov |-> None, missed |-> {},
              applied |-> [n \in Numbers |-> 0], sent |-> [n \in Numbers |-> 0]]
    /\ ended = {}
    /\ ops = {}

-----------------------------------------------------------------------------
(* Operations, requests and faults. *)

IsActive(o) == o.call = call

Op(kind, at, cap) ==
    [id |-> spent.asked + 1, kind |-> kind, call |-> call, at |-> at, cap |-> cap,
     prev |-> None, rev |-> 0, audio |-> "none"]

Begin(o) == ops' = ops \cup {o}
Done(o) == ops' = ops \ {o}
To(o, at) == ops' = (ops \ {o}) \cup {[o EXCEPT !.at = at]}

Voice == {"init", "voice", "share"}

(* A request of the user, in a call.  The buttons do not wait for one another:
   Serial bounds the behaviours to users who do, for the kinds given. *)
Asks(kinds) ==
    /\ call # 0 /\ mm.mic # None
    /\ spent.asked < MaxAsked
    /\ Serial => \A o \in ops : o.kind \notin kinds

Asked == spent' = [spent EXCEPT !.asked = @ + 1]

Fault ==
    /\ spent.faults < MaxFaults
    /\ spent' = [spent EXCEPT !.faults = @ + 1]

(* The capture a device or a portal gives next. *)
New(kind) == <<kind, spent.opened + 1>>
Opened(n) == spent' = [spent EXCEPT !.opened = @ + n]

(* The publication of a set of tracks is in localTracks before the negotiation
   it awaits, and stays there when a negotiation fails. *)
Publish(d, tracks) == [d EXCEPT !.pub = @ \cup tracks]
Unpublish(d, tracks) == [d EXCEPT !.pub = @ \ tracks]
Stop(d, tracks) == [d EXCEPT !.live = @ \ tracks]

-----------------------------------------------------------------------------
(* The call begins and ends: session.begin, media.reset and cleanup run
   without a wait in between.  cleanup stops the tracks of the local stream, the
   microphone's input, the screen stream and the provider's last stream. *)

StartCall ==
    /\ call = 0 /\ spent.calls < MaxCalls
    /\ call' = spent.calls + 1
    /\ spent' = [spent EXCEPT !.calls = @ + 1]
    /\ mm' = Fresh(mm.q)
    /\ dev' = [dev EXCEPT !.pub = {}]
    /\ ops' = ops \cup {[Op("init", "open", None) EXCEPT !.id = 0, !.call = spent.calls + 1]}
    /\ UNCHANGED ended

Cleanup ==
    /\ call' = 0
    /\ mm' = Fresh(mm.q)
    /\ dev' = [Stop(dev, mm.local \cup {mm.mic, dev.prov} \cup Stream(mm.scr))
                  EXCEPT !.pub = {}, !.prov = None]

EndCall ==
    /\ call # 0
    /\ Cleanup
    /\ UNCHANGED <<spent, ended, ops>>

-----------------------------------------------------------------------------
(* The microphone. *)

InitOpened(o) ==
    /\ o.kind = "init" /\ o.at = "open"
    /\ IF IsActive(o)
       THEN LET k == New("mic") IN
            /\ Opened(1)
            /\ mm' = [mm EXCEPT !.mic = k, !.local = @ \cup {k}]
            /\ dev' = Publish([dev EXCEPT !.live = @ \cup {k}, !.on = @ \cup {k}], {k})
            /\ To(o, "publish")
       ELSE Done(o) /\ UNCHANGED <<spent, mm, dev>>
    /\ UNCHANGED <<call, ended>>

InitPublished(o) ==
    /\ o.kind = "init" /\ o.at = "publish"
    /\ Done(o)
    /\ UNCHANGED <<call, spent, mm, dev, ended>>

(* A failed initialization fails the join, which cleans up. *)
InitFails(o) ==
    /\ o.kind = "init"
    /\ Fault /\ Done(o)
    /\ IF IsActive(o) THEN Cleanup ELSE UNCHANGED <<call, mm, dev>>
    /\ UNCHANGED ended

Enabled(d, k, yes) == [d EXCEPT !.on = IF yes THEN @ \cup {k} ELSE @ \ {k}]

ToggleMicrophone ==
    /\ Asks({}) /\ Asked
    /\ mm' = [mm EXCEPT !.says.mic = mm.mic \notin dev.on]
    /\ dev' = Enabled(dev, mm.mic, mm.mic \notin dev.on)
    /\ UNCHANGED <<call, ended, ops>>

UpdateVoiceInput ==
    /\ Asks(Voice) /\ Asked
    /\ Begin([Op("voice", "open", None) EXCEPT !.prev = mm.mic])
    /\ UNCHANGED <<call, mm, dev, ended>>

(* stopScreen: the share ends for the manager at once; its tracks are stopped
   once they are unpublished. *)
StopsScreen(o, k, d) ==
    /\ mm' = [mm EXCEPT !.scr = None, !.says.scr = FALSE, !.says.aud = FALSE]
    /\ dev' = Unpublish(d, Stream(k))
    /\ ops' = (ops \ {o}) \cup {[o EXCEPT !.kind = "unshare", !.at = "unpublish",
                                          !.cap = k, !.call = call]}

(* The end of toggleScreen: the audio of the share is attached later. *)
Shared(o) ==
    IF o.audio = "pipewire"
    THEN ops' = (ops \ {o}) \cup {[o EXCEPT !.kind = "attach", !.at = "prepare", !.prev = None]}
    ELSE Done(o)

(* The catch of toggleScreen, with d what the failed step left. *)
ShareFailed(o, d) ==
    IF mm.scr = o.cap THEN StopsScreen(o, o.cap, d)
    ELSE dev' = d /\ Done(o) /\ UNCHANGED mm

(* updateVoiceInput is also the repair of a microphone the screen portal took:
   the share waits for it, and fails when it fails. *)
VoiceFailed(o, d) ==
    IF o.kind = "share" THEN ShareFailed(o, d)
    ELSE dev' = d /\ Done(o) /\ UNCHANGED mm

VoiceOpened(o) ==
    /\ o.kind \in {"voice", "share"} /\ o.at = "open"
    /\ IF IsActive(o) /\ mm.mic = o.prev /\ o.prev \in dev.pub
       THEN LET k == New("mic") IN
            /\ Opened(1)
            /\ dev' = Enabled([dev EXCEPT !.live = @ \cup {k}], k, mm.says.mic)
            /\ ops' = (ops \ {o}) \cup {[o EXCEPT !.at = "replace", !.rev = k[2]]}
            /\ UNCHANGED mm
       ELSE VoiceFailed(o, dev) /\ UNCHANGED spent
    /\ UNCHANGED <<call, ended>>

Replacement(o) == <<"mic", o.rev>>

\* Mutant: the continuation does not ask whether its call is still on.
VoiceReplaced_InAnyCall(o) ==
    /\ o.kind \in {"voice", "share"} /\ o.at = "replace"
    /\ LET k == Replacement(o) IN
       /\ mm' = [mm EXCEPT !.mic = k, !.local = (@ \ {o.prev}) \cup {k}]
       /\ dev' = Enabled(Stop(Publish(Unpublish(dev, {o.prev}), {k}), {o.prev}), k, mm.says.mic)
    /\ IF o.kind = "share" THEN Shared(o) ELSE Done(o)
    /\ UNCHANGED <<call, spent, ended>>

VoiceReplaced(o) ==
    /\ o.kind \in {"voice", "share"} /\ o.at = "replace"
    /\ LET k == Replacement(o) IN
       IF IsActive(o)
       THEN /\ mm' = [mm EXCEPT !.mic = k, !.local = (@ \ {o.prev}) \cup {k}]
            /\ dev' = Enabled(Stop(Publish(Unpublish(dev, {o.prev}), {k}), {o.prev}),
                              k, mm.says.mic)
       ELSE dev' = Stop(dev, {k}) /\ UNCHANGED mm
    /\ IF o.kind = "share" THEN Shared(o) ELSE Done(o)
    /\ UNCHANGED <<call, spent, ended>>

VoiceFails(o) ==
    /\ o.kind \in {"voice", "share"} /\ o.at \in {"open", "replace"}
    /\ Fault
    /\ VoiceFailed(o, IF o.at = "replace" THEN Stop(dev, {Replacement(o)}) ELSE dev)
    /\ UNCHANGED <<call, ended>>

-----------------------------------------------------------------------------
(* The camera. *)

ToggleCamera ==
    /\ Asks(Camera) /\ Asked
    /\ IF mm.cam # None
       THEN /\ mm' = [mm EXCEPT !.cam = None, !.says.cam = FALSE]
            /\ dev' = Unpublish(dev, {mm.cam})
            /\ Begin(Op("camoff", "unpublish", mm.cam))
       ELSE Begin(Op("camon", "open", None)) /\ UNCHANGED <<mm, dev>>
    /\ UNCHANGED <<call, ended>>

CameraUnpublished(o) ==
    /\ o.kind = "camoff"
    /\ IF IsActive(o)
       THEN dev' = Stop(dev, {o.cap}) /\ mm' = [mm EXCEPT !.local = @ \ {o.cap}]
       ELSE UNCHANGED <<mm, dev>>
    /\ Done(o)
    /\ UNCHANGED <<call, spent, ended>>

CameraOpened(o) ==
    /\ o.kind = "camon" /\ o.at = "open"
    /\ IF IsActive(o)
       THEN LET k == New("cam") IN
            /\ Opened(1)
            /\ mm' = [mm EXCEPT !.cam = k, !.local = @ \cup {k}, !.says.cam = TRUE]
            /\ dev' = Publish([dev EXCEPT !.live = @ \cup {k}], {k})
            /\ ops' = (ops \ {o}) \cup {[o EXCEPT !.at = "publish", !.cap = k]}
       ELSE Done(o) /\ UNCHANGED <<spent, mm, dev>>
    /\ UNCHANGED <<call, ended>>

CameraPublished(o) ==
    /\ o.kind = "camon" /\ o.at = "publish"
    /\ dev' = IF IsActive(o) THEN dev ELSE Stop(dev, {o.cap})
    /\ Done(o)
    /\ UNCHANGED <<call, spent, mm, ended>>

\* Mutant: the announcement of the camera is not taken back.
CameraFails_StillShown(o) ==
    /\ o.kind \in Camera
    /\ Fault /\ Done(o)
    /\ IF o.at = "publish"
       THEN /\ mm' = [mm EXCEPT !.local = @ \ {o.cap},
                                !.cam = IF @ = o.cap THEN None ELSE @]
            /\ dev' = Stop(dev, {o.cap})
       ELSE UNCHANGED <<mm, dev>>
    /\ UNCHANGED <<call, ended>>

(* A refused camera, a failed publication and a failed removal; the failed
   publication takes the camera back without looking at the call it is in. *)
CameraFails(o) ==
    /\ o.kind \in Camera
    /\ Fault /\ Done(o)
    /\ IF o.at = "publish"
       THEN /\ mm' = [mm EXCEPT !.local = @ \ {o.cap}, !.says.cam = FALSE,
                                !.cam = IF @ = o.cap THEN None ELSE @]
            /\ dev' = Stop(dev, {o.cap})
       ELSE UNCHANGED <<mm, dev>>
    /\ UNCHANGED <<call, ended>>

-----------------------------------------------------------------------------
(* The screen. *)

ToggleScreen ==
    /\ Asks(Screen \cup Voice) /\ Asked
    /\ IF mm.scr # None
       THEN StopsScreen(Op("unshare", "unpublish", mm.scr), mm.scr, dev)
       ELSE /\ mm' = [mm EXCEPT !.q = @ + 1]
            /\ \E audio \in {"none", "display", "pipewire"} :
                 Begin([Op("share", "capture", None) EXCEPT !.audio = audio])
            /\ UNCHANGED dev
    /\ UNCHANGED <<call, ended>>

(* startScreenCapture: only the captures of the provider are its last stream. *)
ScreenCaptured(o) ==
    /\ o.kind = "share" /\ o.at = "capture"
    /\ LET k == New("scr")
           a == IF o.audio = "display" THEN {<<"aud", k[2] + 1>>} ELSE {} IN
       /\ Opened(1 + Cardinality(a))
       /\ dev' = [dev EXCEPT !.live = @ \cup {k} \cup a, !.aud = @ \cup {<<k, t>> : t \in a},
                             !.prov = IF o.audio = "pipewire" THEN @ ELSE k]
       /\ ops' = (ops \ {o}) \cup {[o EXCEPT !.at = "quality", !.cap = k, !.rev = mm.q]}
    /\ UNCHANGED <<call, mm, ended>>

ScreenRefused(o) ==
    /\ o.kind = "share" /\ o.at = "capture"
    /\ Done(o)
    /\ UNCHANGED <<call, spent, mm, dev, ended>>

Applied(o) == [dev EXCEPT !.applied[o.cap[2]] = o.rev]
Sent(d, o) == [d EXCEPT !.sent[o.cap[2]] = o.rev]

(* One round of applyLatestScreenCaptureQuality; a request that arrived
   meanwhile takes another round. *)
Again(o) == o.rev # mm.q
AppliedAgain(o) ==
    /\ dev' = Applied(o)
    /\ ops' = (ops \ {o}) \cup {[o EXCEPT !.rev = mm.q]}
    /\ UNCHANGED mm

ScreenReady(o) ==
    /\ o.kind = "share" /\ o.at = "quality"
    /\ \/ Again(o) /\ AppliedAgain(o)
       \/ /\ ~Again(o) /\ IsActive(o)
          /\ mm' = [mm EXCEPT !.scr = o.cap, !.says.scr = TRUE, !.says.aud = o.audio = "display"]
          /\ dev' = Sent(Publish(Applied(o), Stream(o.cap)), o)
          /\ To(o, "publish")
       \/ /\ ~Again(o) /\ ~IsActive(o)
          /\ dev' = Stop(dev, Stream(o.cap)) /\ Done(o) /\ UNCHANGED mm
    /\ UNCHANGED <<call, spent, ended>>

(* Published: ensureMicrophoneAfterScreenCapture begins. *)
ScreenPublished(o) ==
    /\ o.kind = "share" /\ o.at = "publish"
    /\ IF IsActive(o)
       THEN /\ dev' = Enabled(dev, mm.mic, mm.says.mic)
            /\ ops' = (ops \ {o}) \cup {[o EXCEPT !.at = "repair", !.prev = mm.mic]}
       ELSE dev' = Stop(dev, Stream(o.cap)) /\ Done(o)
    /\ UNCHANGED <<call, spent, mm, ended>>

(* The microphone the capture found is usable: it is published again. *)
MicrophoneUsable(o) ==
    /\ o.kind = "share" /\ o.at = "repair"
    /\ IF IsActive(o) /\ mm.mic = o.prev
       THEN dev' = Publish(dev, {mm.mic}) /\ To(o, "republish")
       ELSE Shared(o) /\ UNCHANGED dev
    /\ UNCHANGED <<call, spent, mm, ended>>

(* It stayed suspended for the 300 ms it is given: another one is opened. *)
MicrophoneSuspended(o) ==
    /\ o.kind = "share" /\ o.at = "repair"
    /\ IsActive(o) /\ mm.mic = o.prev
    /\ Fault
    /\ To(o, "open")
    /\ UNCHANGED <<call, mm, dev, ended>>

MicrophoneRepublished(o) ==
    /\ o.kind = "share" /\ o.at = "republish"
    /\ Shared(o)
    /\ UNCHANGED <<call, spent, mm, dev, ended>>

ScreenFails(o) ==
    /\ o.kind = "share" /\ o.at \in {"publish", "republish"}
    /\ Fault
    /\ ShareFailed(o, dev)
    /\ UNCHANGED <<call, ended>>

ScreenUnpublished(o) ==
    /\ o.kind = "unshare"
    /\ dev' = [Stop(dev, Stream(o.cap) \cup {dev.prov}) EXCEPT !.prov = None]
    /\ Done(o)
    /\ UNCHANGED <<call, spent, mm, ended>>

(* attachLinuxScreenAudio: the share of o is still the one on the screen. *)
StillShares(o) == IsActive(o) /\ mm.scr = o.cap

AudioPrepared(o) ==
    /\ o.kind = "attach" /\ o.at = "prepare"
    /\ \/ StillShares(o) /\ To(o, "wait")
       \/ Done(o)
    /\ UNCHANGED <<call, spent, mm, dev, ended>>

(* waitForPipeWireTrack: Chromium lists the virtual source within 3 s, or not. *)
PipeWireTrack == {New("aud"), None}

AudioOpened(o) ==
    /\ o.kind = "attach" /\ o.at = "wait"
    /\ \E t \in PipeWireTrack :
         IF StillShares(o) /\ t # None
         THEN /\ Opened(1)
              /\ mm' = [mm EXCEPT !.says.aud = TRUE]
              /\ dev' = Publish([dev EXCEPT !.live = @ \cup {t}, !.aud = @ \cup {<<o.cap, t>>}], {t})
              /\ ops' = (ops \ {o}) \cup {[o EXCEPT !.at = "publish", !.prev = t]}
         ELSE Done(o) /\ UNCHANGED <<spent, mm, dev>>
    /\ UNCHANGED <<call, ended>>

AudioPublished(o) ==
    /\ o.kind = "attach" /\ o.at = "publish"
    /\ dev' = IF IsActive(o) /\ mm.mic \in dev.live THEN Publish(dev, {mm.mic}) ELSE dev
    /\ Done(o)
    /\ UNCHANGED <<call, spent, mm, ended>>

AudioFails(o) ==
    /\ o.kind = "attach" /\ o.at = "publish"
    /\ Fault /\ Done(o)
    /\ mm' = [mm EXCEPT !.says.aud = FALSE]
    /\ dev' = [Stop(dev, {o.prev}) EXCEPT !.aud = @ \ {<<o.cap, o.prev>>}]
    /\ UNCHANGED <<call, ended>>

(* The source of a screen capture goes away: the track dies at once, its
   "ended" event is handled when the event loop comes to it. *)
SourceGone ==
    /\ \E k \in dev.live :
         /\ k[1] = "scr" /\ \E o \in ops \cup {[cap |-> mm.scr]} : o.cap = k
         /\ spent.faults < MaxFaults
         /\ spent' = [spent EXCEPT !.faults = @ + 1]
         /\ dev' = Stop(dev, {k})
         /\ ended' = ended \cup {k}
    /\ UNCHANGED <<call, mm, ops>>

(* The share of k still awaits its quality: its listener comes after that, and
   an event before it is missed for good. *)
NotListening(k) == \E o \in ops : o.kind = "share" /\ o.at = "quality" /\ o.cap = k

Missed(k) ==
    /\ dev' = [dev EXCEPT !.missed = @ \cup {k}]
    /\ UNCHANGED <<mm, ops, ended>>

\* Mutant: the event of any capture stops the one on the screen.
EndedEvent_OfAny(k) ==
    /\ k \in ended \ dev.missed
    /\ ended' = ended \ {k}
    /\ IF mm.scr # None
       THEN StopsScreen([Op("unshare", "unpublish", k) EXCEPT !.id = -k[2]], mm.scr, dev)
       ELSE UNCHANGED <<mm, dev, ops>>
    /\ UNCHANGED <<call, spent>>

EndedEvent(k) ==
    /\ k \in ended \ dev.missed
    /\ IF NotListening(k) THEN Missed(k)
       ELSE /\ ended' = ended \ {k}
            /\ IF mm.scr = k
               THEN StopsScreen([Op("unshare", "unpublish", k) EXCEPT !.id = -k[2]], k, dev)
               ELSE UNCHANGED <<mm, dev, ops>>
    /\ UNCHANGED <<call, spent>>

UpdateScreenQuality ==
    /\ Asks({}) /\ Asked
    /\ mm' = [mm EXCEPT !.q = @ + 1]
    /\ IF mm.scr # None
       THEN Begin([Op("quality", "apply", mm.scr) EXCEPT !.rev = mm.q + 1])
       ELSE UNCHANGED ops
    /\ UNCHANGED <<call, dev, ended>>

QualityApplied(o) ==
    /\ o.kind = "quality"
    /\ \/ Again(o) /\ AppliedAgain(o)
       \/ /\ ~Again(o)
          /\ dev' = IF StillShares(o) /\ o.cap \in dev.live THEN Sent(Applied(o), o) ELSE Applied(o)
          /\ Done(o) /\ UNCHANGED mm
    /\ UNCHANGED <<call, spent, ended>>

-----------------------------------------------------------------------------

Continues(o) ==
    \/ InitOpened(o) \/ InitPublished(o) \/ InitFails(o)
    \/ VoiceOpened(o) \/ VoiceReplaced(o) \/ VoiceFails(o)
    \/ CameraOpened(o) \/ CameraPublished(o) \/ CameraUnpublished(o) \/ CameraFails(o)
    \/ ScreenCaptured(o) \/ ScreenRefused(o) \/ ScreenReady(o) \/ ScreenPublished(o)
    \/ MicrophoneUsable(o) \/ MicrophoneSuspended(o) \/ MicrophoneRepublished(o)
    \/ ScreenFails(o) \/ ScreenUnpublished(o)
    \/ AudioPrepared(o) \/ AudioOpened(o) \/ AudioPublished(o) \/ AudioFails(o)
    \/ QualityApplied(o)

Next ==
    \/ StartCall \/ EndCall
    \/ ToggleMicrophone \/ UpdateVoiceInput \/ ToggleCamera \/ ToggleScreen
    \/ UpdateScreenQuality \/ SourceGone
    \/ \E k \in ended : EndedEvent(k)
    \/ \E o \in ops : Continues(o)

Spec == Init /\ [][Next]_vars

=============================================================================
