----------------------------- MODULE Supervisor -----------------------------
(***************************************************************************)
(* The Electron main process keeping the local backend alive               *)
(* (apps/desktop/src/backend.ts, DesktopBackendManager, and the start and  *)
(* quit paths of main.ts).  Two activities may be under way at once:       *)
(* "start", the launch of the application, and "recover", the loop that    *)
(* replaces a backend that died.  Every await is a boundary between two    *)
(* actions; what follows an await up to the next one is one action.        *)
(*                                                                         *)
(* The write of the development bridge file is taken to succeed.           *)
(***************************************************************************)
EXTENDS Naturals, FiniteSets

CONSTANTS
    MaxAttempts,  \* MAX_BACKEND_RESTART_ATTEMPTS
    MaxSpawns,    \* BOUND: backends spawned in a behaviour
    MaxCrashes,   \* BOUND: backends that die while they serve
    MaxFailures   \* BOUND: starts that fail and children that die during theirs

ASSUME SupervisorAssumption ==
    /\ {MaxAttempts, MaxSpawns, MaxCrashes, MaxFailures} \subseteq Nat
    /\ MaxSpawns > MaxCrashes + MaxFailures

VARIABLES
    child,     \* child[c]: none (not spawned), starting, ready, gone
    told,      \* children whose stdin was ended or that were killed
    watched,   \* children with the exit handler of startProcess
    process,   \* this.process, 0 for undefined
    config,    \* the child whose address and token are this.config
    act,       \* act[k]: where the activity is and the child it is starting
    attempts,  \* restartAttempts
    stable,    \* stabilityTimer is armed
    quitting,  \* isQuitting
    shown,     \* the last backend:status
    count      \* what the bounds cap: [crashes, failures]

supervisor == <<child, told, watched, process, config, act, attempts, stable,
                quitting, shown, count>>

Children   == 1 .. MaxSpawns
Activities == {"start", "recover"}
Idle       == [at |-> "none", c |-> 0]

Alive(c)  == child[c] \in {"starting", "ready"}
Serving   == config # 0 /\ child[config] = "ready"
restarting == act["recover"].at # "none"

SupervisorInit ==
    /\ child = [c \in Children |-> "none"]
    /\ told = {} /\ watched = {} /\ process = 0 /\ config = 0
    /\ act = [k \in Activities |-> IF k = "start" THEN [at |-> "access", c |-> 0] ELSE Idle]
    /\ attempts = 0 /\ stable = FALSE /\ quitting = FALSE /\ shown = "none"
    /\ count = [crashes |-> 0, failures |-> 0]

Failure == count.failures < MaxFailures /\ count' = [count EXCEPT !.failures = @ + 1]

\* Mutant: the child is forgotten and not asked to end.
Stop_Forgets(S) == process' = 0 /\ config' = 0 /\ stable' = FALSE /\ UNCHANGED told

\* stop(): the children S are asked to end, and killed after 1.5 seconds.
Stop(S) ==
    /\ process' = 0 /\ config' = 0 /\ stable' = FALSE
    /\ told' = told \cup (S \ {0})

\* One more turn of the loop of recoverAfterCrash, or its end.
Attempt ==
    IF attempts < MaxAttempts
      THEN /\ attempts' = attempts + 1 /\ shown' = "restarting"
           /\ act' = [act EXCEPT !["recover"] = [at |-> "delay", c |-> 0]]
      ELSE /\ shown' = "failed" /\ act' = [act EXCEPT !["recover"] = Idle]
           /\ UNCHANGED attempts

\* The catch of a failed attempt.
AttemptFails(S) ==
    /\ Stop(S)
    /\ IF quitting
         THEN /\ act' = [act EXCEPT !["recover"] = Idle] /\ UNCHANGED <<attempts, shown>>
         ELSE Attempt
    /\ UNCHANGED quitting

\* The catch of whenReady in main.ts: stop, then quit.
StartFails(S) ==
    /\ Stop(S)
    /\ act' = [act EXCEPT !["start"] = Idle]
    /\ quitting' = TRUE
    /\ UNCHANGED <<attempts, shown>>

Throws(k, S) == IF k = "start" THEN StartFails(S) ELSE AttemptFails(S)

----------------------------------------------------------------------------
(* startProcess.                                                           *)

DelayEnds ==
    /\ act["recover"].at = "delay"
    /\ act' = [act EXCEPT !["recover"] = IF quitting THEN Idle ELSE [@ EXCEPT !.at = "access"]]
    /\ UNCHANGED <<child, told, watched, process, config, attempts, stable, quitting, shown, count>>

\* The executable is there: spawn.  Whether the application is quitting is not
\* looked at again.
Spawn(k) ==
    /\ act[k].at = "access"
    /\ \E c \in Children :
         /\ child[c] = "none" /\ \A b \in 1 .. c - 1 : child[b] # "none"
         /\ child' = [child EXCEPT ![c] = "starting"]
         /\ process' = c
         /\ act' = [act EXCEPT ![k] = [at |-> "ready", c |-> c]]
    /\ UNCHANGED <<told, watched, config, attempts, stable, quitting, shown, count>>

AccessFails(k) ==
    /\ act[k].at = "access" /\ Failure
    /\ Throws(k, {process})
    /\ UNCHANGED <<child, watched>>

\* RISK_BACKEND_READY.  waitUntilReady no longer listens after its timeout.
Ready(c) ==
    /\ child[c] = "starting"
    /\ child' = [child EXCEPT ![c] = "ready"]
    /\ act' = [k \in Activities |-> IF act[k] = [at |-> "ready", c |-> c]
                                      THEN [act[k] EXCEPT !.at = "health"] ELSE act[k]]
    /\ UNCHANGED <<told, watched, process, config, attempts, stable, quitting, shown, count>>

\* Twenty seconds without readiness: the child is still this.process.
ReadyTimeout(k) ==
    /\ act[k].at = "ready" /\ Failure
    /\ Throws(k, {process})
    /\ UNCHANGED <<child, watched>>

\* GET /health answers: the exit handler is registered and the configuration
\* is handed out; next is the bridge file.
Healthy(k) ==
    LET c == act[k].c IN
    /\ act[k].at = "health" /\ child[c] = "ready"
    /\ watched' = watched \cup {c}
    /\ config' = c
    /\ act' = [act EXCEPT ![k].at = "publish"]
    /\ UNCHANGED <<child, told, process, attempts, stable, quitting, shown, count>>

\* GET /health fails: the child is gone, or answers too late and is killed.
\* The catch of the activity follows.
Unhealthy(k) ==
    LET c == act[k].c IN
    /\ act[k].at = "health"
    /\ \/ child[c] = "gone" /\ UNCHANGED count
       \/ child[c] = "ready" /\ Failure
    /\ Throws(k, {c, process})
    /\ UNCHANGED <<child, watched>>

\* start() after its last await
Started ==
    /\ act["start"].at = "publish"
    /\ act' = [act EXCEPT !["start"] = Idle]
    /\ stable' = TRUE
    /\ UNCHANGED <<child, told, watched, process, config, attempts, quitting, shown, count>>

\* Mutant: what happened during the last await is not looked at.
StillRuns_Unchecked(c) == TRUE

StillRuns(c) == process # 0 /\ config = c

\* recoverAfterCrash after its last await
Recovered ==
    LET c == act["recover"].c IN
    /\ act["recover"].at = "publish"
    /\ IF StillRuns(c)
         THEN /\ act' = [act EXCEPT !["recover"] = Idle]
              /\ stable' = TRUE /\ shown' = "recovered"
              /\ UNCHANGED <<told, process, config, attempts, quitting>>
         ELSE AttemptFails({process})
    /\ UNCHANGED <<child, watched, count>>

----------------------------------------------------------------------------
(* Children that end, timers and the end of the application.               *)

\* The exit handler of startProcess, or the one of waitUntilReady; a child that
\* ends between the two is noticed by the health check.
Exited(c) ==
    IF c \in watched /\ process = c
      THEN /\ process' = 0 /\ config' = 0 /\ stable' = FALSE
           /\ IF quitting \/ restarting THEN UNCHANGED <<act, attempts, shown>> ELSE Attempt
           /\ UNCHANGED <<told, quitting>>
      ELSE IF \E k \in Activities : act[k] = [at |-> "ready", c |-> c]
        THEN \E k \in Activities :
               /\ act[k] = [at |-> "ready", c |-> c]
               /\ Throws(k, {process} \ {c})
        ELSE UNCHANGED <<told, process, config, act, attempts, stable, quitting, shown>>

Exit(c) ==
    /\ Alive(c)
    /\ child' = [child EXCEPT ![c] = "gone"]
    /\ Exited(c)
    /\ UNCHANGED watched

Ends(c)    == c \in told /\ Exit(c) /\ UNCHANGED count
Starting(c) == \E k \in Activities : act[k].c = c
Crashes(c) == /\ c \notin told /\ ~Starting(c) /\ Exit(c)
              /\ count.crashes < MaxCrashes
              /\ count' = [count EXCEPT !.crashes = @ + 1]
Dies(c)    == c \notin told /\ Starting(c) /\ Exit(c) /\ Failure

\* Thirty seconds after markHealthy.
StabilityTimer ==
    /\ stable /\ stable' = FALSE /\ attempts' = 0
    /\ UNCHANGED <<child, told, watched, process, config, act, quitting, shown, count>>

\* before-quit
Quit ==
    /\ ~quitting /\ quitting' = TRUE
    /\ Stop({process})
    /\ UNCHANGED <<child, watched, act, attempts, shown, count>>

\* The main process ends, and with it the pipes to its children.
AppExits ==
    /\ quitting
    /\ act' = [k \in Activities |-> Idle]
    /\ told' = {c \in Children : child[c] # "none"}
    /\ <<act', told'>> # <<act, told>>
    /\ UNCHANGED <<child, watched, process, config, attempts, stable, quitting, shown, count>>

Starts(k) == Spawn(k) \/ AccessFails(k) \/ ReadyTimeout(k) \/ Healthy(k) \/ Unhealthy(k)

----------------------------------------------------------------------------
SupervisorTypeOK ==
    /\ child \in [Children -> {"none", "starting", "ready", "gone"}]
    /\ told \subseteq Children /\ watched \subseteq Children
    /\ process \in Children \cup {0} /\ config \in Children \cup {0}
    /\ act \in [Activities -> [at : {"none", "delay", "access", "ready", "health", "publish"},
                               c : Children \cup {0}]]
    /\ attempts \in 0 .. MaxAttempts
    /\ {stable, quitting} \subseteq BOOLEAN
    /\ shown \in {"none", "restarting", "recovered", "failed"}
    /\ count \in [crashes : 0 .. MaxCrashes, failures : 0 .. MaxFailures]

(* No backend runs unattended: however starts, timeouts, crashes and stops *)
(* overlap, until the application quits a backend that lives is the        *)
(* current one or was told to end, the configuration that windows are      *)
(* given belongs to the current one, and "recovered" is only shown while   *)
(* that backend serves.                                                    *)
OneBackend ==
    ~quitting => /\ \A c \in Children : Alive(c) => c \in told \cup {process}
                 /\ config # 0 => config = process
                 /\ shown = "recovered" => Serving

(* What keeps one backend at a time, the inductive part of OneBackend: an     *)
(* activity that is to spawn has no current backend, one that waits for a     *)
(* child waits for the current one, whose exit handler is not yet registered, *)
(* a recovery never overlaps the part of the launch before its configuration  *)
(* is handed out, and a configuration is that of a watched child that serves. *)
ActivityInv ==
    /\ \A c \in Children : child[c] = "none" => c \notin watched
    /\ restarting => act["start"].at \in {"none", "publish"}
    /\ \A k \in Activities :
         /\ act[k].at \in {"ready", "health", "publish"} => act[k].c \in Children
         /\ act[k].at \in {"ready", "health"} =>
              act[k].c \notin watched /\ child[act[k].c] # "none"

AttendedInv ==
    ~quitting => /\ \A k \in Activities :
                      /\ act[k].at \in {"delay", "access"} => process = 0
                      /\ act[k].at \in {"ready", "health"} => process = act[k].c
                 /\ config # 0 => config \in watched /\ child[config] = "ready"
                 /\ restarting => shown # "recovered"

(* A backend that is down comes back, or the user is told that it failed,  *)
(* or the application quits: no crash, at whatever await it falls, leaves  *)
(* the window without a backend and without a word.                        *)
BackendReturns == []<>(Serving \/ shown = "failed" \/ quitting)
=============================================================================
