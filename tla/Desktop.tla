------------------------------ MODULE Desktop ------------------------------
(***************************************************************************)
(* The desktop application: the Electron supervisor and the attachment     *)
(* store of the backend it keeps alive.  Requests reach the backend whose  *)
(* configuration is published; a backend that ends drops the requests it   *)
(* was serving, and one that starts cleans up before it is ready.          *)
(***************************************************************************)
EXTENDS Supervisor, AttachmentDisk

CONSTANTS
    QuietAfter,  \* BOUND: failed starts after which windows send no more requests
    Apart        \* BOUND: starts fail and the application quits only before the store
                 \* is used, and it is used only while no stability timer runs

ASSUME DesktopAssumption == QuietAfter \in Nat /\ Apart \in BOOLEAN

vars == <<supervisor, disk>>

Init == SupervisorInit /\ AttachmentDiskInit

Untouched ==
    /\ \A r \in Requests : req[r] = NoRequest
    /\ \A t \in Transfers : dir[t] = FirstDir(t)
    /\ \A a \in Attachments : content[a] = NoContent

Followed == Apart => Untouched \/ (count'.failures = count.failures /\ quitting' = quitting)

\* The backend that serves ends: what it was doing stays half done.
ChildEnds(c) ==
    /\ Ends(c) \/ Crashes(c) \/ Dies(c)
    /\ Followed
    /\ IF c = config THEN Drop ELSE UNCHANGED disk

\* A window is open once start() has returned, and uses a backend that replaces
\* another when it is told that it has recovered.
Client(r) ==
    /\ Serving /\ ~quitting /\ \A k \in Activities : act[k].at = "none"
    /\ count.failures < QuietAfter /\ (Apart => ~stable)
    /\ Sends(r) /\ UNCHANGED supervisor

Backend(r) == Serving /\ Serves(r) /\ UNCHANGED supervisor

Cleanup(t) ==
    /\ \E c \in Children : child[c] = "starting"
    /\ CleanupStale(t) /\ UNCHANGED supervisor

Electron ==
    \/ \E k \in Activities : Starts(k)
    \/ \E c \in Children : Ready(c)
    \/ DelayEnds \/ Started \/ Recovered \/ StabilityTimer \/ AppExits \/ Quit

Next ==
    \/ Electron /\ Followed /\ UNCHANGED disk
    \/ \E c \in Children : ChildEnds(c)
    \/ \E r \in Requests : Client(r) \/ Backend(r)
    \/ \E t \in Transfers : Cleanup(t)

Spec == Init /\ [][Next]_vars

\* The awaits of an activity end: by their answer, their timer or the exit of the
\* child.  A child that was told to end does, at the latest when it is killed.
Fairness ==
    /\ WF_vars(DelayEnds /\ UNCHANGED disk)
    /\ WF_vars(Started /\ UNCHANGED disk)
    /\ WF_vars(Recovered /\ UNCHANGED disk)
    /\ \A k \in Activities : WF_vars(Starts(k) /\ Followed /\ UNCHANGED disk)
    /\ \A c \in Children : WF_vars(Ready(c) /\ UNCHANGED disk)

FairSpec == Spec /\ Fairness

TypeOK == SupervisorTypeOK /\ AttachmentDiskTypeOK

(* The backend that windows talk to is the one the supervisor attends to: until the *)
(* application quits, a backend that lives is the current one or was told to end,   *)
(* whatever start, timeout, crash or stop of another overlaps (OneBackend).         *)
BackendAttended == TypeOK /\ OneBackend
=============================================================================
