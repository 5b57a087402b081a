---------------------------- MODULE DesktopProofs ----------------------------
(***************************************************************************)
(* The desktop application: one attended backend, and in its attachment    *)
(* store finished attachments that hold the whole file, markers that       *)
(* follow their bytes and reservations that fit in the quota.  The         *)
(* supervisor and the store have no variable in common, so each gets an    *)
(* inductive invariant of its own and every step of Desktop is a step of   *)
(* one or of both; the quota adds one to the store's.  What a request may  *)
(* count on holds until a removal takes the files of its transfer from it. *)
(***************************************************************************)
EXTENDS Desktop, FiniteSetTheorems, WellFoundedInduction, TLAPS

----------------------------------------------------------------------------
(* The supervisor.                                                         *)

SInv == SupervisorTypeOK /\ ActivityInv /\ AttendedInv /\ OneBackend

\* A start or an attempt that fails leaves no current backend; a launch that fails
\* ends the application, an attempt that fails shows that the next one is under way
\* or that there is none.
LEMMA Thrown ==
    ASSUME SInv, NEW k \in Activities, act[k].at # "none",
           NEW S \in SUBSET (Children \cup {0}), Throws(k, S)
    PROVE  /\ process' = 0 /\ config' = 0 /\ stable' = FALSE
           /\ told' = told \cup (S \ {0}) /\ told' \subseteq Children
           /\ \E a \in {[at |-> "none", c |-> 0], [at |-> "delay", c |-> 0]} :
                act' = [act EXCEPT ![k] = a] /\ (a.at = "delay" => k = "recover")
           /\ attempts' \in 0 .. MaxAttempts
           /\ shown' \in {"none", "restarting", "recovered", "failed"}
           /\ quitting' \in BOOLEAN /\ (quitting => quitting')
           /\ k = "start" => quitting'
           /\ quitting' \/ shown' \in {"restarting", "failed"}
<1> USE DEF SInv, SupervisorTypeOK, Children, Activities
<1>1. CASE k = "start"
  <2>1. StartFails(S)
    BY <1>1 DEF Throws
  <2>2. QED
    BY <1>1, <2>1 DEF StartFails, Stop, Idle
<1>2. CASE k = "recover"
  <2>1. AttemptFails(S)
    BY <1>2 DEF Throws
  <2>2. CASE quitting
    BY <1>2, <2>1, <2>2 DEF AttemptFails, Stop, Idle
  <2>3. CASE ~quitting /\ attempts < MaxAttempts
    <3>1. attempts + 1 \in 0 .. MaxAttempts
      BY <2>3, SupervisorAssumption
    <3>2. QED
      BY <1>2, <2>1, <2>3, <3>1 DEF AttemptFails, Stop, Attempt
  <2>4. CASE ~quitting /\ ~(attempts < MaxAttempts)
    BY <1>2, <2>1, <2>4 DEF AttemptFails, Stop, Attempt, Idle
  <2>5. QED
    BY <2>2, <2>3, <2>4
<1>3. QED
  BY <1>1, <1>2

\* What such a failure means for the invariant: nobody is attended any more, so
\* every backend that lives must have been told to end.
LEMMA AfterThrow ==
    ASSUME SInv, NEW k \in Activities, act[k].at # "none",
           NEW S \in SUBSET (Children \cup {0}), Throws(k, S),
           child' \in [Children -> {"none", "starting", "ready", "gone"}],
           \A c \in Children : child'[c] = "none" <=> child[c] = "none",
           \A c \in Children : child'[c] \in {"starting", "ready"} =>
             Alive(c) /\ (c = process => c \in S),
           count' \in [crashes : 0 .. MaxCrashes, failures : 0 .. MaxFailures],
           watched' = watched
    PROVE  SInv'
<1> DEFINE Next0(a) == act' = [act EXCEPT ![k] = a] /\ (a.at = "delay" => k = "recover")
<1>1. PICK a \in {[at |-> "none", c |-> 0], [at |-> "delay", c |-> 0]} : Next0(a)
  BY Thrown
<1>2. /\ act' = [act EXCEPT ![k] = a] /\ (a.at = "delay" => k = "recover")
      /\ a.at \in {"none", "delay"} /\ a.c = 0
  BY <1>1
<1>3. /\ process' = 0 /\ config' = 0 /\ stable' = FALSE
      /\ told' = told \cup (S \ {0}) /\ told' \subseteq Children
      /\ attempts' \in 0 .. MaxAttempts
      /\ shown' \in {"none", "restarting", "recovered", "failed"}
      /\ quitting' \in BOOLEAN /\ (quitting => quitting')
      /\ k = "start" => quitting'
      /\ quitting' \/ shown' \in {"restarting", "failed"}
  BY Thrown
<1>4. act' \in [Activities -> [at : {"none", "delay", "access", "ready", "health", "publish"},
                               c : Children \cup {0}]]
  BY <1>1 DEF SInv, SupervisorTypeOK
<1>5. \A j \in Activities : act'[j] = IF j = k THEN a ELSE act[j]
  BY <1>2 DEF SInv, SupervisorTypeOK
<1>6. SupervisorTypeOK'
  BY <1>3, <1>4 DEF SInv, SupervisorTypeOK
<1>7. ActivityInv'
  BY <1>2, <1>5 DEF SInv, ActivityInv, restarting, Activities
<1>8. AttendedInv'
  <2> SUFFICES ASSUME ~quitting'
               PROVE  AttendedInv'
    BY DEF AttendedInv
  <2>1. k = "recover" /\ ~quitting /\ restarting
    BY <1>3 DEF Activities, restarting
  <2>2. act["start"].at \in {"none", "publish"}
    BY <2>1 DEF SInv, ActivityInv
  <2>3. QED
    BY <1>2, <1>3, <1>5, <2>1, <2>2 DEF AttendedInv, Activities
<1>9. OneBackend'
  <2> SUFFICES ASSUME ~quitting'
               PROVE  OneBackend'
    BY DEF OneBackend
  <2>1. ASSUME NEW c \in Children, child'[c] \in {"starting", "ready"}
        PROVE  c \in told'
    <3>1. ~quitting /\ Alive(c) /\ (c = process => c \in S)
      BY <1>3, <2>1
    <3>2. c \in told \cup {process} /\ c # 0
      BY <3>1 DEF SInv, OneBackend, Children
    <3>3. QED
      BY <1>3, <3>1, <3>2
  <2>2. shown' # "recovered" /\ config' = 0
    BY <1>3
  <2>3. QED
    BY <2>1, <2>2 DEF OneBackend, Alive
<1>10. QED
  BY <1>6, <1>7, <1>8, <1>9 DEF SInv

LEMMA SupervisorStarts == SupervisorInit => SInv
<1> SUFFICES ASSUME SupervisorInit
             PROVE  SInv
  OBVIOUS
<1>1. 0 \in 0 .. MaxAttempts /\ 0 \in 0 .. MaxCrashes /\ 0 \in 0 .. MaxFailures
  BY SupervisorAssumption
<1>2. act \in [Activities -> [at : {"none", "delay", "access", "ready", "health", "publish"},
                              c : Children \cup {0}]]
  BY DEF SupervisorInit, Idle
<1>3. act["start"] = [at |-> "access", c |-> 0] /\ act["recover"] = [at |-> "none", c |-> 0]
  BY DEF SupervisorInit, Activities, Idle
<1>4. SupervisorTypeOK
  BY <1>1, <1>2 DEF SupervisorInit, SupervisorTypeOK
<1>5. ActivityInv
  BY <1>3 DEF SupervisorInit, ActivityInv, restarting, Activities
<1>6. AttendedInv
  BY <1>3 DEF SupervisorInit, AttendedInv, restarting, Activities
<1>7. OneBackend
  BY DEF SupervisorInit, OneBackend, Alive
<1>8. QED
  BY <1>4, <1>5, <1>6, <1>7 DEF SInv

LEMMA FailureCounts ==
    ASSUME SInv, Failure \/ UNCHANGED count
    PROVE  count' \in [crashes : 0 .. MaxCrashes, failures : 0 .. MaxFailures]
<1>1. CASE Failure
  <2>1. count.failures + 1 \in 0 .. MaxFailures
    BY <1>1, SupervisorAssumption DEF SInv, SupervisorTypeOK, Failure
  <2>2. QED
    BY <1>1, <2>1 DEF SInv, SupervisorTypeOK, Failure
<1>2. CASE UNCHANGED count
  BY <1>2 DEF SInv, SupervisorTypeOK
<1>3. QED
  BY <1>1, <1>2

\* The failures of a start, each of which ends in the catch of its activity.
LEMMA FailedStart ==
    ASSUME SInv, NEW k \in Activities, AccessFails(k) \/ ReadyTimeout(k) \/ Unhealthy(k)
    PROVE  SInv'
<1>1. act[k].at # "none" /\ UNCHANGED <<child, watched>> /\ (Failure \/ UNCHANGED count)
  BY DEF AccessFails, ReadyTimeout, Unhealthy
<1>2. count' \in [crashes : 0 .. MaxCrashes, failures : 0 .. MaxFailures]
  BY <1>1, FailureCounts
<1>3. child' \in [Children -> {"none", "starting", "ready", "gone"}]
  BY <1>1 DEF SInv, SupervisorTypeOK
<1>4. PICK S \in {{process}, {act[k].c, process}} : Throws(k, S)
  BY DEF AccessFails, ReadyTimeout, Unhealthy
<1>5. S \in SUBSET (Children \cup {0}) /\ process \in S
  BY <1>4 DEF SInv, SupervisorTypeOK
<1>6. \A c \in Children : child'[c] \in {"starting", "ready"} => Alive(c) /\ (c = process => c \in S)
  BY <1>1, <1>5 DEF Alive
<1>7. QED
  BY <1>1, <1>2, <1>3, <1>4, <1>5, <1>6, AfterThrow

\* Steps that leave the backends alone.
LEMMA SpawnStep ==
    ASSUME SInv, NEW k \in Activities, Spawn(k)
    PROVE  SInv'
<1> USE DEF SInv, SupervisorTypeOK
<1>1. PICK c \in Children :
         /\ child[c] = "none" /\ child' = [child EXCEPT ![c] = "starting"] /\ process' = c
         /\ act' = [act EXCEPT ![k] = [at |-> "ready", c |-> c]]
  BY DEF Spawn
<1>2. UNCHANGED <<told, watched, config, attempts, stable, quitting, shown, count>> /\ act[k].at = "access"
  BY DEF Spawn
<1>3. act'[k] = [at |-> "ready", c |-> c] /\ \A j \in Activities \ {k} : act'[j] = act[j]
  BY <1>1
<1>4. c # 0 /\ c \notin watched
  BY <1>1 DEF ActivityInv, Children
<1>5. SupervisorTypeOK'
  BY <1>1, <1>2
<1>6. k = "recover" => act["start"].at \in {"none", "publish"}
  BY <1>2 DEF ActivityInv, restarting
<1>7. k = "start" => act["recover"].at = "none"
  BY <1>2 DEF ActivityInv, restarting
<1>8. ActivityInv'
  BY <1>1, <1>2, <1>3, <1>4, <1>6, <1>7 DEF ActivityInv, restarting, Activities
<1>9. AttendedInv' /\ OneBackend'
  <2> SUFFICES ASSUME ~quitting'
               PROVE  AttendedInv' /\ OneBackend'
    BY DEF AttendedInv, OneBackend
  <2>1. ~quitting /\ process = 0 /\ config = 0
    BY <1>2 DEF AttendedInv, OneBackend, Children
  <2>2. AttendedInv'
    BY <1>1, <1>2, <1>3, <1>4, <1>6, <1>7, <2>1 DEF AttendedInv, restarting, Activities
  <2>3. \A b \in Children : child'[b] \in {"starting", "ready"} => b \in told' \cup {process'}
    BY <1>1, <1>2, <2>1 DEF OneBackend, Alive, Children
  <2>4. shown # "recovered"
    BY <2>1 DEF OneBackend, Serving
  <2>5. QED
    BY <1>2, <2>1, <2>2, <2>3, <2>4 DEF OneBackend, Alive
<1>10. QED
  BY <1>5, <1>8, <1>9

LEMMA ReadyStep ==
    ASSUME SInv, NEW c \in Children, Ready(c)
    PROVE  SInv'
<1> USE DEF SInv, SupervisorTypeOK
<1>1. /\ child[c] = "starting" /\ child' = [child EXCEPT ![c] = "ready"]
      /\ UNCHANGED <<told, watched, process, config, attempts, stable, quitting, shown, count>>
  BY DEF Ready
<1>2. \A k \in Activities : act'[k] = IF act[k] = [at |-> "ready", c |-> c]
                                       THEN [act[k] EXCEPT !.at = "health"] ELSE act[k]
  BY DEF Ready
<1>3. \A k \in Activities : /\ act'[k].c = act[k].c
                            /\ act'[k].at = act[k].at \/ (act[k].at = "ready" /\ act'[k].at = "health")
  <2> TAKE k \in Activities
  <2>1. CASE act[k] = [at |-> "ready", c |-> c]
    <3>1. act'[k] = [act[k] EXCEPT !.at = "health"]
      BY <1>2, <2>1
    <3>2. QED
      BY <2>1, <3>1
  <2>2. CASE act[k] # [at |-> "ready", c |-> c]
    <3>1. act'[k] = act[k]
      BY <1>2, <2>2
    <3>2. QED
      BY <3>1
  <2>3. QED
    BY <2>1, <2>2
<1>4. act' \in [Activities -> [at : {"none", "delay", "access", "ready", "health", "publish"},
                               c : Children \cup {0}]]
  BY DEF Ready
<1>5. SupervisorTypeOK'
  BY <1>1, <1>4
<1>6. "start" \in Activities /\ "recover" \in Activities
  BY DEF Activities
<1>7. \A b \in Children : child'[b] = (IF b = c THEN "ready" ELSE child[b])
  BY <1>1
<1>8. ActivityInv'
  <2>1. \A b \in Children : child'[b] = "none" => b \notin watched'
    BY <1>1, <1>7 DEF ActivityInv
  <2>2. restarting' => act'["start"].at \in {"none", "publish"}
    BY <1>3, <1>6 DEF ActivityInv, restarting
  <2>3. \A k \in Activities :
         /\ act'[k].at \in {"ready", "health", "publish"} => act'[k].c \in Children
         /\ act'[k].at \in {"ready", "health"} =>
              act'[k].c \notin watched' /\ child'[act'[k].c] # "none"
    BY <1>1, <1>3, <1>7 DEF ActivityInv
  <2>4. QED
    BY <2>1, <2>2, <2>3 DEF ActivityInv
<1>9. AttendedInv'
  BY <1>1, <1>3, <1>6, <1>7 DEF AttendedInv, restarting
<1>10. OneBackend'
  BY <1>1, <1>7 DEF OneBackend, Alive, Serving
<1>11. QED
  BY <1>5, <1>8, <1>9, <1>10

LEMMA HealthyStep ==
    ASSUME SInv, NEW k \in Activities, Healthy(k)
    PROVE  SInv'
<1> USE DEF SInv, SupervisorTypeOK
<1> DEFINE c == act[k].c
<1>1. /\ act[k].at = "health" /\ child[c] = "ready"
      /\ watched' = watched \cup {c} /\ config' = c
      /\ act' = [act EXCEPT ![k].at = "publish"]
      /\ UNCHANGED <<child, told, process, attempts, stable, quitting, shown, count>>
  BY DEF Healthy
<1>2. c \in Children /\ c # 0
  BY <1>1 DEF ActivityInv, Children
<1>3. /\ act'[k].at = "publish" /\ act'[k].c = c
      /\ \A j \in Activities \ {k} : act'[j] = act[j]
  BY <1>1
<1>4. act' \in [Activities -> [at : {"none", "delay", "access", "ready", "health", "publish"},
                               c : Children \cup {0}]]
  BY <1>1
<1> HIDE DEF c
<1>5. SupervisorTypeOK'
  BY <1>1, <1>2, <1>4
<1>6. k = "recover" => act["start"].at \in {"none", "publish"}
  BY <1>1 DEF ActivityInv, restarting
<1>7. k = "start" => act["recover"].at = "none"
  BY <1>1 DEF ActivityInv, restarting
<1>8. ActivityInv'
  BY <1>1, <1>2, <1>3, <1>6, <1>7 DEF ActivityInv, restarting, Activities
<1>9. ~quitting => process = c
  BY <1>1 DEF AttendedInv, c
<1>10. AttendedInv'
  BY <1>1, <1>2, <1>3, <1>6, <1>7, <1>9 DEF AttendedInv, restarting, Activities
<1>11. OneBackend'
  BY <1>1, <1>2, <1>9 DEF OneBackend, Alive, Serving
<1>12. QED
  BY <1>5, <1>8, <1>10, <1>11

LEMMA DelayStep ==
    ASSUME SInv, DelayEnds
    PROVE  SInv'
<1> USE DEF SInv, SupervisorTypeOK
<1> DEFINE a == IF quitting THEN Idle ELSE [act["recover"] EXCEPT !.at = "access"]
<1>1. /\ act["recover"].at = "delay" /\ act' = [act EXCEPT !["recover"] = a]
      /\ UNCHANGED <<child, told, watched, process, config, attempts, stable, quitting, shown, count>>
  BY DEF DelayEnds
<1>2. /\ a \in [at : {"none", "delay", "access", "ready", "health", "publish"},
               c : Children \cup {0}]
      /\ a.at \in {"none", "access"}
  <2>1. act["recover"] \in [at : {"none", "delay", "access", "ready", "health", "publish"},
                            c : Children \cup {0}]
    BY DEF Activities
  <2>2. QED
    BY <2>1 DEF Idle
<1> HIDE DEF a
<1>3. /\ act'["recover"] = a /\ act'["start"] = act["start"]
      /\ act' \in [Activities -> [at : {"none", "delay", "access", "ready", "health", "publish"},
                                  c : Children \cup {0}]]
  BY <1>1, <1>2 DEF Activities
<1>4. SupervisorTypeOK'
  BY <1>1, <1>3
<1>5. ActivityInv'
  BY <1>1, <1>2, <1>3 DEF ActivityInv, restarting, Activities
<1>6. AttendedInv' /\ OneBackend'
  BY <1>1, <1>2, <1>3 DEF AttendedInv, OneBackend, Alive, Serving, restarting, Activities
<1>7. QED
  BY <1>4, <1>5, <1>6

LEMMA StartedStep ==
    ASSUME SInv, Started
    PROVE  SInv'
<1> USE DEF SInv, SupervisorTypeOK
<1>1. /\ act' = [act EXCEPT !["start"] = Idle] /\ stable' = TRUE
      /\ UNCHANGED <<child, told, watched, process, config, attempts, quitting, shown, count>>
  BY DEF Started
<1>2. /\ act'["start"] = Idle /\ act'["recover"] = act["recover"]
      /\ act' \in [Activities -> [at : {"none", "delay", "access", "ready", "health", "publish"},
                                  c : Children \cup {0}]]
  BY <1>1 DEF Activities, Idle
<1>3. SupervisorTypeOK'
  BY <1>1, <1>2
<1>4. ActivityInv'
  BY <1>1, <1>2 DEF ActivityInv, restarting, Activities, Idle
<1>5. AttendedInv' /\ OneBackend'
  BY <1>1, <1>2 DEF AttendedInv, OneBackend, Alive, Serving, restarting, Activities, Idle
<1>6. QED
  BY <1>3, <1>4, <1>5

\* After its last await an attempt looks whether the backend it published is still
\* the one attended to: if so, a watched child that serves is what it shows.
LEMMA RecoveredStep ==
    ASSUME SInv, Recovered
    PROVE  SInv'
<1> USE DEF SInv, SupervisorTypeOK
<1>1. act["recover"].at = "publish" /\ UNCHANGED <<child, watched, count>>
  BY DEF Recovered
<1>2. "recover" \in Activities
  BY DEF Activities
<1>3. CASE StillRuns(act["recover"].c)
  <2>1. /\ act' = [act EXCEPT !["recover"] = Idle] /\ stable' = TRUE /\ shown' = "recovered"
        /\ UNCHANGED <<told, process, config, attempts, quitting>>
    BY <1>3 DEF Recovered
  <2>2. config # 0
    BY <1>1, <1>2, <1>3 DEF StillRuns, ActivityInv, Children
  <2>3. /\ act'["recover"] = Idle /\ act'["start"] = act["start"]
        /\ act' \in [Activities -> [at : {"none", "delay", "access", "ready", "health", "publish"},
                                    c : Children \cup {0}]]
    BY <2>1 DEF Activities, Idle
  <2>4. SupervisorTypeOK'
    BY <1>1, <2>1, <2>3
  <2>5. ActivityInv'
    BY <1>1, <2>1, <2>3 DEF ActivityInv, restarting, Activities, Idle
  <2>6. AttendedInv'
    BY <1>1, <2>1, <2>3 DEF AttendedInv, restarting, Activities, Idle
  <2>7. OneBackend'
    BY <1>1, <2>1, <2>2 DEF OneBackend, AttendedInv, Alive, Serving
  <2>8. QED
    BY <2>4, <2>5, <2>6, <2>7
<1>4. CASE ~StillRuns(act["recover"].c)
  <2>1. Throws("recover", {process})
    BY <1>4 DEF Recovered, Throws
  <2>2. {process} \in SUBSET (Children \cup {0})
    OBVIOUS
  <2>3. count' \in [crashes : 0 .. MaxCrashes, failures : 0 .. MaxFailures]
    BY <1>1
  <2>4. \A c \in Children : child'[c] \in {"starting", "ready"} =>
          Alive(c) /\ (c = process => c \in {process})
    BY <1>1 DEF Alive
  <2> HIDE DEF SInv
  <2>5. child' \in [Children -> {"none", "starting", "ready", "gone"}]
    BY <1>1 DEF SInv
  <2>6. QED
    BY <1>1, <1>2, <2>1, <2>2, <2>3, <2>4, <2>5, AfterThrow
<1>5. QED
  BY <1>3, <1>4

\* A child that ends.  The handler it has decides: the current watched one starts a
\* recovery, one that is waited for makes its activity fail, and nobody is told of
\* any other.
LEMMA ExitStep ==
    ASSUME SInv, NEW c \in Children, Exit(c),
           count' \in [crashes : 0 .. MaxCrashes, failures : 0 .. MaxFailures]
    PROVE  SInv'
<1>1. /\ Alive(c) /\ child' = [child EXCEPT ![c] = "gone"] /\ watched' = watched /\ Exited(c)
      /\ child[c] # "none"
  BY DEF Exit, Alive
<1>2. /\ \A b \in Children : child'[b] = (IF b = c THEN "gone" ELSE child[b])
      /\ child' \in [Children -> {"none", "starting", "ready", "gone"}]
  BY <1>1 DEF SInv, SupervisorTypeOK
<1>3. c # 0
  BY DEF Children
<1>4. CASE c \in watched /\ process = c
  <2> USE DEF SInv, SupervisorTypeOK
  <2>1. process' = 0 /\ config' = 0 /\ stable' = FALSE /\ UNCHANGED <<told, quitting>>
    BY <1>1, <1>4 DEF Exited
  <2>2. CASE quitting \/ restarting
    <3>1. UNCHANGED <<act, attempts, shown>>
      BY <1>1, <1>4, <2>2 DEF Exited
    <3>2. SupervisorTypeOK'
      BY <1>1, <1>2, <2>1, <3>1
    <3>3. ActivityInv'
      BY <1>1, <1>2, <3>1 DEF ActivityInv, restarting
    <3>4. AttendedInv'
      BY <1>1, <1>3, <1>4, <2>1, <3>1 DEF AttendedInv, ActivityInv, restarting
    <3>5. OneBackend'
      BY <1>1, <1>2, <1>4, <2>1, <2>2, <3>1 DEF OneBackend, AttendedInv, Alive, Serving
    <3>6. QED
      BY <3>2, <3>3, <3>4, <3>5
  <2>3. CASE ~quitting /\ ~restarting
    <3>1. Attempt
      BY <1>1, <1>4, <2>3 DEF Exited
    <3>2. "recover" \in Activities /\ "start" \in Activities
      BY DEF Activities
    <3> DEFINE a == act'["recover"]
    <3>3. /\ act' = [act EXCEPT !["recover"] = a]
          /\ a \in {[at |-> "delay", c |-> 0], [at |-> "none", c |-> 0]}
          /\ shown' \in {"restarting", "failed"} /\ attempts' \in 0 .. MaxAttempts
      <4>1. CASE attempts < MaxAttempts
        <5>1. attempts + 1 \in 0 .. MaxAttempts
          BY <4>1, SupervisorAssumption
        <5>2. QED
          BY <3>1, <3>2, <4>1, <5>1 DEF Attempt
      <4>2. CASE ~(attempts < MaxAttempts)
        BY <3>1, <3>2, <4>2 DEF Attempt, Idle
      <4>3. QED
        BY <4>1, <4>2
    <3>4. a.at \in {"delay", "none"} /\ a.c = 0
      BY <3>3
    <3>5. act'["start"] = act["start"]
      BY <3>2, <3>3
    <3>6. act' \in [Activities -> [at : {"none", "delay", "access", "ready", "health", "publish"},
                                   c : Children \cup {0}]]
      BY <3>2, <3>3
    <3> HIDE DEF a
    \* The launch no longer waits for a child: that child would be the watched one.
    <3>7. act["start"].at \in {"none", "publish"}
      BY <1>3, <1>4, <2>3, <3>2 DEF AttendedInv, ActivityInv
    <3>8. SupervisorTypeOK'
      BY <1>1, <1>2, <2>1, <3>3, <3>6
    <3>9. ActivityInv'
      BY <1>1, <1>2, <3>4, <3>5, <3>7 DEF ActivityInv, restarting, Activities, a
    <3>10. AttendedInv'
      BY <2>1, <3>3, <3>4, <3>5, <3>7 DEF AttendedInv, restarting, Activities, a
    <3>11. OneBackend'
      BY <1>2, <1>4, <2>1, <2>3, <3>3 DEF OneBackend, Alive
    <3>12. QED
      BY <3>8, <3>9, <3>10, <3>11
  <2>4. QED
    BY <2>2, <2>3
<1>5. CASE /\ ~(c \in watched /\ process = c)
           /\ \E k \in Activities : act[k] = [at |-> "ready", c |-> c]
  <2>1. PICK k \in Activities :
          act[k] = [at |-> "ready", c |-> c] /\ Throws(k, {process} \ {c})
    BY <1>1, <1>5 DEF Exited
  <2>2. {process} \ {c} \in SUBSET (Children \cup {0}) /\ act[k].at # "none"
    BY <2>1 DEF SInv, SupervisorTypeOK
  <2>3. \A b \in Children : child'[b] = "none" <=> child[b] = "none"
    BY <1>1, <1>2
  <2>4. \A b \in Children : child'[b] \in {"starting", "ready"} =>
          Alive(b) /\ (b = process => b \in {process} \ {c})
    BY <1>2 DEF Alive
  <2>5. QED
    BY <1>1, <1>2, <2>1, <2>2, <2>3, <2>4, AfterThrow
<1>6. CASE /\ ~(c \in watched /\ process = c)
           /\ ~\E k \in Activities : act[k] = [at |-> "ready", c |-> c]
  <2> USE DEF SInv, SupervisorTypeOK
  <2>1. UNCHANGED <<told, process, config, act, attempts, stable, quitting, shown>>
    BY <1>1, <1>6 DEF Exited
  <2>2. SupervisorTypeOK'
    BY <1>1, <1>2, <2>1
  <2>3. ActivityInv'
    BY <1>1, <1>2, <2>1 DEF ActivityInv, restarting
  <2>4. ~quitting /\ config # 0 => config # c
    BY <1>6 DEF AttendedInv, OneBackend
  <2>5. AttendedInv'
    BY <1>1, <1>2, <2>1, <2>4 DEF AttendedInv, restarting
  <2>6. OneBackend'
    BY <1>1, <1>2, <2>1, <2>4 DEF OneBackend, Alive, Serving
  <2>7. QED
    BY <2>2, <2>3, <2>5, <2>6
<1>7. QED
  BY <1>4, <1>5, <1>6

LEMMA ChildStep ==
    ASSUME SInv, NEW c \in Children, Ends(c) \/ Crashes(c) \/ Dies(c)
    PROVE  SInv'
<1>1. Exit(c)
  BY DEF Ends, Crashes, Dies
<1>2. count' \in [crashes : 0 .. MaxCrashes, failures : 0 .. MaxFailures]
  <2>1. CASE Ends(c) \/ Dies(c)
    BY <2>1, FailureCounts DEF Ends, Dies
  <2>2. CASE Crashes(c)
    <3>1. count.crashes + 1 \in 0 .. MaxCrashes
      BY <2>2, SupervisorAssumption DEF SInv, SupervisorTypeOK, Crashes
    <3>2. QED
      BY <2>2, <3>1 DEF SInv, SupervisorTypeOK, Crashes
  <2>3. QED
    BY <2>1, <2>2
<1>3. QED
  BY <1>1, <1>2, ExitStep

\* The timer and the end of the application.
LEMMA TimerStep ==
    ASSUME SInv, StabilityTimer
    PROVE  SInv'
<1>1. 0 \in 0 .. MaxAttempts
  BY SupervisorAssumption
<1>2. /\ stable' = FALSE /\ attempts' = 0
      /\ UNCHANGED <<child, told, watched, process, config, act, quitting, shown, count>>
  BY DEF StabilityTimer
<1>3. QED
  BY <1>1, <1>2 DEF SInv, SupervisorTypeOK, ActivityInv, AttendedInv, OneBackend, Alive, Serving,
                    restarting

LEMMA QuitStep ==
    ASSUME SInv, Quit \/ AppExits
    PROVE  SInv'
<1> USE DEF SInv, SupervisorTypeOK
<1>1. quitting' = TRUE /\ UNCHANGED <<child, watched, attempts, shown, count>>
  BY DEF Quit, AppExits
<1>2. AttendedInv' /\ OneBackend'
  BY <1>1 DEF AttendedInv, OneBackend
<1>3. CASE Quit
  <2>1. /\ act' = act /\ process' = 0 /\ config' = 0 /\ stable' = FALSE
        /\ told' = told \cup ({process} \ {0})
    BY <1>3 DEF Quit, Stop
  <2>2. SupervisorTypeOK'
    BY <1>1, <2>1
  <2>3. ActivityInv'
    BY <1>1, <2>1 DEF ActivityInv, restarting
  <2>4. QED
    BY <1>2, <2>2, <2>3
<1>4. CASE AppExits
  <2>1. /\ act' = [k \in Activities |-> Idle] /\ told' \subseteq Children
        /\ UNCHANGED <<process, config, stable>>
    BY <1>4 DEF AppExits
  <2>2. \A k \in Activities : act'[k] = Idle /\ act'[k].at = "none"
    BY <2>1 DEF Idle
  <2>3. SupervisorTypeOK'
    BY <1>1, <2>1 DEF Idle
  <2>4. ActivityInv'
    BY <1>1, <2>2 DEF ActivityInv, restarting, Activities
  <2>5. QED
    BY <1>2, <2>3, <2>4
<1>5. QED
  BY <1>3, <1>4

LEMMA SupervisorFrame ==
    ASSUME SInv, UNCHANGED supervisor
    PROVE  SInv'
BY DEF supervisor, SInv, SupervisorTypeOK, ActivityInv, AttendedInv, OneBackend, Alive, Serving,
       restarting

LEMMA SupervisorStep ==
    ASSUME SInv, [Next]_vars
    PROVE  SInv'
<1>1. CASE Electron
  <2>1. CASE \E k \in Activities : Starts(k)
    BY <2>1, SpawnStep, FailedStart, HealthyStep DEF Starts
  <2>2. CASE \E c \in Children : Ready(c)
    BY <2>2, ReadyStep
  <2>3. QED
    BY <1>1, <2>1, <2>2, DelayStep, StartedStep, RecoveredStep, TimerStep, QuitStep DEF Electron
<1>2. CASE \E c \in Children : ChildEnds(c)
  BY <1>2, ChildStep DEF ChildEnds
<1>3. CASE (\E r \in Requests : Client(r) \/ Backend(r)) \/ (\E t \in Transfers : Cleanup(t))
  BY <1>3, SupervisorFrame DEF Client, Backend, Cleanup
<1>4. CASE UNCHANGED vars
  BY <1>4, SupervisorFrame DEF vars
<1>5. QED
  BY <1>1, <1>2, <1>3, <1>4 DEF Next

----------------------------------------------------------------------------
(* The attachment store.                                                   *)

Steps == {"none", "lock", "read", "remove", "forget", "scan", "admit", "mkdir", "open", "save",
          "storage", "size", "migrate", "mark", "bytes", "fill", "marker", "check", "hash",
          "unlink", "rename", "publish", "commit"}

\* The steps of a request that works with the payload.
Inside == {"migrate", "mark", "bytes", "fill", "marker", "check", "hash", "unlink", "rename"}

\* What a request carries from one step to the next.
Carried(r, x) ==
    /\ DOMAIN x = {"op", "at", "chunk", "data", "used", "markers", "linked"}
    /\ x.op \in Operations \cup {"none"} /\ x.at \in Steps
    /\ x.op = "none" <=> x.at = "none"
    /\ x.op = "none" => x.markers = {}
    /\ x.at = "remove" => x.op # "write"
    /\ x.data \in {"good", "wrong"} /\ x.markers \subseteq ChunksOf[For[r]]
    /\ x.op = "write" => x.chunk \in ChunksOf[For[r]]
    /\ x.at \in {"bytes", "fill", "marker"} => x.op = "write"
    /\ x.at \in {"check", "hash", "unlink", "rename", "publish", "commit"} => x.op = "finalize"
    /\ x.at \in {"save", "migrate", "mark", "fill"} \/ ~x.linked

DirOK(t) ==
    /\ dir[t] \in Directory(t)
    /\ ~dir[t].there => dir[t] = NoDir(t)
    /\ ~dir[t].mapped => dir[t].map = {}

\* The file that a request x has open is there.
Links(x, d) ==
    x.linked =>
      /\ x.at = "save" => d.manifest # "none"
      /\ x.at \in {"migrate", "fill"} => d.held
      /\ x.at = "mark" => d.mapped

\* While no removal has taken its files, a request x finds the payload of its transfer t
\* where it left it, the parts it has moved and the bytes it has flushed are in it, and
\* past its hash check a finalization still holds the whole.
WorksWith(t, x, d) ==
    /\ x.at \in Inside => d.held
    /\ x.at \in {"migrate", "mark"} => x.linked /\ \A i \in x.markers : d.payload[i] = "good"
    /\ x.at = "fill" => x.linked
    /\ x.at = "marker" => d.payload[x.chunk] = x.data
    /\ x.op = "write" => d.parts = {} /\ x.markers = {} /\ x.chunk \notin d.map
    /\ x.at \in {"unlink", "rename"} => \A i \in ChunksOf[t] : d.payload[i] = "good"

\* A chunk is written by one request, and not while its transfer is finalized.
Disjoint(x, y) ==
    x.op = "write" =>
      y.op # "finalize" /\ x.chunk \notin y.markers /\ (y.op = "write" => y.chunk # x.chunk)

DInv ==
    /\ DOMAIN dir = Transfers /\ DOMAIN req = Requests
    /\ lock \in SUBSET Requests /\ crossed \in SUBSET Transfers
    /\ content \in [Attachments -> Finished]
    /\ \A t \in Transfers : DirOK(t)
    /\ \A r \in Requests : Carried(r, req[r]) /\ (r \in lock => req[r].op \in {"prepare", "purge"})
    /\ \A r \in Requests : Links(req[r], dir[For[r]])
    /\ \A r \in Requests : For[r] \notin crossed => WorksWith(For[r], req[r], dir[For[r]])
    /\ \A r, q \in Requests : r # q /\ For[r] = For[q] /\ For[r] \notin crossed => Disjoint(req[r], req[q])
    /\ \A a \in Attachments : content[a].file = "bad" => \E t \in crossed : ContentOf[t] = a

LEMMA ForIs ==
    ASSUME NEW r \in Requests
    PROVE  For[r] \in Transfers /\ ContentOf[For[r]] \in Attachments
BY AttachmentDiskAssumption

\* The other requests of the transfer of r are as they were, and what r leaves in the
\* directory d as e is what they may find there: a payload that was held is, its bytes
\* are those it had but for the parts r moves and the chunk r writes, and the map gains
\* only chunks that are there.
Kind(r, d, e) ==
    LET t == For[r] IN
    /\ d.held => e.held
    /\ e.held => d.held \/ SizePayload(r)
    /\ e.parts \subseteq d.parts
    /\ \A i \in ChunksOf[t] :
         \/ e.payload[i] = d.payload[i]
         \/ i \in d.parts /\ e.payload[i] = "good"
         \/ req[r].op = "write" /\ req[r].chunk = i
    /\ e.mapped /\ ~d.mapped => e.map = {}
    /\ \A i \in e.map : i \in d.map \/ (i \in req[r].markers /\ e.payload[i] = "good")
                                    \/ (req[r].op = "write" /\ i = req[r].chunk
                                        /\ e.payload[i] \in {"good", "wrong"})

\* The files that are there stay.
Stays(d, e) ==
    /\ d.manifest # "none" => e.manifest # "none"
    /\ d.held => e.held
    /\ d.mapped => e.mapped

Ordinary(r) ==
    /\ \A q \in Requests \ {r} : req'[q] = req[q]
    /\ crossed' = crossed
    /\ Stays(dir[For[r]], dir'[For[r]])
    /\ For[r] \notin crossed => Kind(r, dir[For[r]], dir'[For[r]])

\* A removal takes files away, from requests at work only when it crosses them.
Removal(r) ==
    /\ \A q \in Requests \ {r} :
         req'[q] = req[q] \/ (For[q] = For[r] /\ req'[q] = [req[q] EXCEPT !.linked = FALSE])
    /\ req[r].op # "write" /\ crossed \subseteq crossed' /\ crossed' \subseteq crossed \cup {For[r]}
    /\ For[r] \in crossed' \/ AtWork(r) = {}
    /\ \A q \in Requests \ {r} : For[q] = For[r] => Links(req'[q], dir'[For[q]])
    /\ dir'[For[r]].parts \subseteq dir[For[r]].parts
    /\ dir'[For[r]].map \subseteq dir[For[r]].map
    /\ \/ ~dir'[For[r]].held \/ ~dir'[For[r]].mapped
       \/ /\ dir'[For[r]].payload = dir[For[r]].payload
          /\ dir[For[r]].held /\ dir[For[r]].mapped

\* A request goes on with what it is about, or is answered.
Onward(r) ==
    \/ /\ req'[r].op = req[r].op /\ req'[r].chunk = req[r].chunk
       /\ req'[r].markers \subseteq req[r].markers \cup dir[For[r]].parts
    \/ req'[r].op = "none" /\ req'[r].markers = {}

\* What a step of r does.
Effect(r) ==
    /\ DOMAIN dir' = Transfers /\ \A u \in Transfers \ {For[r]} : dir'[u] = dir[u]
    /\ DOMAIN req' = Requests
    /\ Ordinary(r) \/ Removal(r)
    /\ Onward(r) /\ Carried(r, req'[r]) /\ DirOK(For[r])'
    /\ lock' \subseteq lock \cup {r} /\ (r \in lock' => req'[r].op \in {"prepare", "purge"})
    /\ Links(req'[r], dir'[For[r]])
    /\ For[r] \notin crossed' => WorksWith(For[r], req'[r], dir'[For[r]])
    /\ content' \in [Attachments -> Finished]
    /\ \A a \in Attachments : content'[a].file = "bad" =>
         content[a].file = "bad" \/ (a = ContentOf[For[r]] /\ For[r] \in crossed')

\* The other requests of the transfer, after a step that takes nothing away ...
LEMMA OthersWork ==
    ASSUME DInv, NEW r \in Requests, Effect(r), Ordinary(r), For[r] \notin crossed,
           NEW q \in Requests, q # r, For[q] = For[r]
    PROVE  WorksWith(For[q], req[q], dir'[For[q]])
<1> DEFINE t == For[r]
           d == dir[t]
           e == dir'[t]
           x == req[q]
           c == req[r]
<1>1. WorksWith(t, x, d) /\ Disjoint(x, c) /\ Disjoint(c, x) /\ Carried(q, x) /\ Carried(r, c)
  BY DEF DInv
<1>2. Kind(r, d, e)
  BY DEF Ordinary
<1>3. For[q] = t /\ t \in Transfers /\ DirOK(t)
  BY ForIs DEF DInv
<1> HIDE DEF d, e, x, c, t
<1>4. x.at \in Inside => e.held
  BY <1>1, <1>2 DEF WorksWith, Kind
<1>5. x.at \in {"migrate", "mark"} => x.linked /\ \A i \in x.markers : e.payload[i] = "good"
  <2> SUFFICES ASSUME x.at \in {"migrate", "mark"}, NEW i \in x.markers
               PROVE  x.linked /\ e.payload[i] = "good"
    BY <1>1 DEF WorksWith
  <2>1. i \in ChunksOf[t] /\ d.payload[i] = "good" /\ ~(c.op = "write" /\ c.chunk = i)
    BY <1>1, <1>3 DEF WorksWith, Disjoint, Carried
  <2>2. QED
    BY <1>1, <1>2, <2>1 DEF WorksWith, Kind, c, t
<1>6. x.at = "fill" => x.linked
  BY <1>1 DEF WorksWith
<1>7. x.at = "marker" => e.payload[x.chunk] = x.data
  <2> SUFFICES ASSUME x.at = "marker"
               PROVE  e.payload[x.chunk] = x.data
    OBVIOUS
  <2>1. x.op = "write" /\ x.chunk \in ChunksOf[t] /\ d.payload[x.chunk] = x.data /\ d.parts = {}
    BY <1>1, <1>3 DEF WorksWith, Carried
  <2>2. ~(c.op = "write" /\ c.chunk = x.chunk)
    BY <1>1, <2>1 DEF Disjoint
  <2>3. QED
    BY <1>2, <2>1, <2>2 DEF Kind, c, t
<1>8. x.op = "write" => e.parts = {} /\ x.markers = {} /\ x.chunk \notin e.map
  <2> SUFFICES ASSUME x.op = "write"
               PROVE  e.parts = {} /\ x.markers = {} /\ x.chunk \notin e.map
    OBVIOUS
  <2>1. d.parts = {} /\ x.markers = {} /\ x.chunk \notin d.map /\ x.chunk \notin c.markers
        /\ ~(c.op = "write" /\ c.chunk = x.chunk)
    BY <1>1 DEF WorksWith, Disjoint
  <2>2. QED
    BY <1>2, <2>1 DEF Kind, c
<1>9. x.at \in {"unlink", "rename"} => \A i \in ChunksOf[t] : e.payload[i] = "good"
  <2> SUFFICES ASSUME x.at \in {"unlink", "rename"}, NEW i \in ChunksOf[t]
               PROVE  e.payload[i] = "good"
    OBVIOUS
  <2>1. x.op = "finalize" /\ d.payload[i] = "good"
    BY <1>1 DEF WorksWith, Carried
  <2>2. c.op # "write"
    BY <1>1, <2>1 DEF Disjoint
  <2>3. QED
    BY <1>2, <2>1, <2>2 DEF Kind, c, t
<1>10. WorksWith(t, x, e)
  BY <1>4, <1>5, <1>6, <1>7, <1>8, <1>9 DEF WorksWith
<1>11. QED
  BY <1>3, <1>10 DEF e, x

\* ... and after a removal that takes nothing from a request at work.
LEMMA OthersIdle ==
    ASSUME DInv, NEW r \in Requests, Removal(r), For[r] \notin crossed',
           NEW q \in Requests, q # r, For[q] = For[r]
    PROVE  /\ req[q].op \notin {"write", "finalize"} /\ req[q].at \notin Inside
           /\ req'[q].op = req[q].op /\ req'[q].at = req[q].at /\ req'[q].markers = req[q].markers
<1>1. Carried(q, req[q])
  BY DEF DInv
<1>2. req[q].at = "none" \/ (req[q].op \notin {"write", "finalize"} /\ req[q].at \notin {"migrate", "mark"})
  BY DEF Removal, AtWork, Others
<1>3. req[q].op \notin {"write", "finalize"} /\ req[q].at \notin {"migrate", "mark"}
  BY <1>1, <1>2 DEF Carried
<1>4. req[q].at \notin Inside
  BY <1>1, <1>3 DEF Carried, Inside
<1>5. req'[q].op = req[q].op /\ req'[q].at = req[q].at /\ req'[q].markers = req[q].markers
  <2>1. req'[q] \in {req[q], [req[q] EXCEPT !.linked = FALSE]}
    BY DEF Removal
  <2>2. QED
    BY <1>1, <2>1 DEF Carried
<1>6. QED
  BY <1>3, <1>4, <1>5

LEMMA Stripped ==
    ASSUME NEW r \in Requests, NEW x, Carried(r, x)
    PROVE  Carried(r, [x EXCEPT !.linked = FALSE])
BY DEF Carried

LEMMA EffectStep ==
    ASSUME DInv, NEW r \in Requests, Effect(r)
    PROVE  DInv'
<1> DEFINE t == For[r]
<1>1. t \in Transfers
  BY ForIs
<1>2. crossed \subseteq crossed' /\ crossed' \subseteq crossed \cup {t}
  BY DEF Effect, Ordinary, Removal
<1>3. /\ DOMAIN dir' = Transfers /\ DOMAIN req' = Requests
      /\ lock' \in SUBSET Requests /\ crossed' \in SUBSET Transfers
      /\ content' \in [Attachments -> Finished]
  BY <1>1, <1>2 DEF DInv, Effect
<1>4. ASSUME NEW u \in Transfers
      PROVE  DirOK(u)'
  <2>1. CASE u = t
    BY <2>1 DEF Effect
  <2>2. CASE u # t
    <3>1. dir'[u] = dir[u] /\ DirOK(u)
      BY <2>2 DEF Effect, DInv
    <3>2. QED
      BY <3>1 DEF DirOK
  <2>3. QED
    BY <2>1, <2>2
<1>5. ASSUME NEW q \in Requests \ {r}
      PROVE  /\ req'[q] \in {req[q], [req[q] EXCEPT !.linked = FALSE]}
             /\ Carried(q, req'[q]) /\ req'[q].op = req[q].op /\ req'[q].chunk = req[q].chunk
             /\ req'[q].markers = req[q].markers /\ req'[q].at = req[q].at
  <2>1. req'[q] \in {req[q], [req[q] EXCEPT !.linked = FALSE]} /\ Carried(q, req[q])
    BY DEF Effect, Ordinary, Removal, DInv
  <2>2. Carried(q, req'[q])
    BY <2>1, Stripped
  <2>3. DOMAIN req[q] = {"op", "at", "chunk", "data", "used", "markers", "linked"}
    BY <2>1 DEF Carried
  <2>4. QED
    BY <2>1, <2>2, <2>3
<1>6. ASSUME NEW q \in Requests
      PROVE  Carried(q, req'[q]) /\ (q \in lock' => req'[q].op \in {"prepare", "purge"})
  <2>1. CASE q = r
    BY <2>1 DEF Effect
  <2>2. CASE q # r
    <3>1. q \in lock' => q \in lock
      BY <2>2 DEF Effect
    <3>2. QED
      BY <1>5, <2>2, <3>1 DEF DInv
  <2>3. QED
    BY <2>1, <2>2
<1>7. ASSUME NEW q \in Requests, For[q] \notin crossed'
      PROVE  WorksWith(For[q], req'[q], dir'[For[q]])
  <2>1. CASE q = r
    BY <1>7, <2>1 DEF Effect
  <2>2. CASE q # r /\ For[q] # t
    <3>1. dir'[For[q]] = dir[For[q]] /\ For[q] \notin crossed
      BY <1>2, <1>7, <2>2, ForIs DEF Effect
    <3>2. WorksWith(For[q], req[q], dir[For[q]])
      BY <3>1 DEF DInv
    <3>3. req'[q] = req[q]
      <4>1. CASE Ordinary(r)
        BY <2>2, <4>1 DEF Ordinary
      <4>2. CASE Removal(r)
        BY <2>2, <4>2 DEF Removal
      <4>3. QED
        BY <4>1, <4>2 DEF Effect
    <3>4. QED
      BY <3>1, <3>2, <3>3
  <2>3. CASE q # r /\ For[q] = t /\ Ordinary(r)
    <3>1. req'[q] = req[q] /\ t \notin crossed
      BY <1>7, <2>3 DEF Ordinary
    <3>2. QED
      BY <2>3, <3>1, OthersWork
  <2>4. CASE q # r /\ For[q] = t /\ Removal(r)
    <3>1. /\ req[q].op \notin {"write", "finalize"} /\ req[q].at \notin Inside
          /\ req'[q].op = req[q].op /\ req'[q].at = req[q].at
      BY <1>7, <2>4, OthersIdle
    <3>2. QED
      BY <3>1 DEF WorksWith, Inside
  <2>5. QED
    BY <2>1, <2>2, <2>3, <2>4 DEF Effect
<1>8. ASSUME NEW p \in Requests, NEW q \in Requests, p # q, For[p] = For[q], For[p] \notin crossed'
      PROVE  Disjoint(req'[p], req'[q])
  <2>1. For[p] \notin crossed /\ Disjoint(req[p], req[q])
    BY <1>2, <1>8 DEF DInv
  <2>2. CASE p # r /\ q # r
    BY <1>5, <2>1, <2>2 DEF Disjoint
  <2>3. CASE p = r
    <3>1. req'[q].op = req[q].op /\ req'[q].chunk = req[q].chunk /\ req'[q].markers = req[q].markers
      BY <1>5, <1>8, <2>3
    <3>2. req'[r].op = "write" => req[r].op = "write" /\ req'[r].chunk = req[r].chunk
      BY DEF Effect, Onward
    <3>3. QED
      BY <2>1, <2>3, <3>1, <3>2 DEF Disjoint
  <2>4. CASE q = r
    <3>1. req'[p].op = req[p].op /\ req'[p].chunk = req[p].chunk
      BY <1>5, <1>8, <2>4
    <3>2. req[p].op = "write" => dir[t].parts = {}
      <4>1. WorksWith(For[p], req[p], dir[For[p]])
        BY <2>1 DEF DInv
      <4>2. QED
        BY <1>8, <2>4, <4>1 DEF WorksWith
    <3>3. \/ /\ req'[r].op = req[r].op /\ req'[r].chunk = req[r].chunk
             /\ req'[r].markers \subseteq req[r].markers \cup dir[t].parts
          \/ req'[r].op = "none" /\ req'[r].markers = {}
      BY DEF Effect, Onward
    <3>4. QED
      BY <2>1, <2>4, <3>1, <3>2, <3>3 DEF Disjoint
  <2>5. QED
    BY <2>2, <2>3, <2>4
<1>9. ASSUME NEW a \in Attachments, content'[a].file = "bad"
      PROVE  \E u \in crossed' : ContentOf[u] = a
  <2>1. content[a].file = "bad" \/ (a = ContentOf[t] /\ t \in crossed')
    BY <1>9 DEF Effect
  <2>2. QED
    BY <1>2, <2>1 DEF DInv
<1>10. ASSUME NEW q \in Requests
       PROVE  Links(req'[q], dir'[For[q]])
  <2>1. CASE q = r
    BY <2>1 DEF Effect
  <2>2. CASE q # r /\ For[q] # t
    <3>1. dir'[For[q]] = dir[For[q]] /\ req'[q] = req[q]
      BY <2>2, ForIs DEF Effect, Ordinary, Removal
    <3>2. QED
      BY <3>1 DEF DInv
  <2>3. CASE q # r /\ For[q] = t /\ Ordinary(r)
    <3>1. req'[q] = req[q] /\ Links(req[q], dir[t]) /\ Stays(dir[t], dir'[t])
      BY <2>3 DEF Ordinary, DInv
    <3>2. QED
      BY <2>3, <3>1 DEF Links, Stays
  <2>4. CASE q # r /\ For[q] = t /\ Removal(r)
    BY <2>4 DEF Removal
  <2>5. QED
    BY <2>1, <2>2, <2>3, <2>4 DEF Effect
<1>11. QED
  BY <1>3, <1>4, <1>6, <1>7, <1>8, <1>9, <1>10 DEF DInv

\* How a request goes on.
OthersSame(r) ==
    /\ DOMAIN req' = Requests
    /\ \A q \in Requests \ {r} : req'[q] = req[q]

\* A request x may stand at a step.
Stands(r, at, x) ==
    /\ at \in Steps \ {"none"} /\ x.op # "none"
    /\ at \in {"bytes", "fill", "marker"} => x.op = "write"
    /\ at \in {"check", "hash", "unlink", "rename", "publish", "commit"} => x.op = "finalize"
    /\ at = "remove" => x.op # "write"

LEMMA Went ==
    ASSUME DInv, NEW r \in Requests, NEW at, Goto(r, at), Stands(r, at, req[r])
    PROVE  /\ OthersSame(r) /\ Onward(r) /\ Carried(r, req'[r])
           /\ req'[r].op = req[r].op /\ req'[r].at = at /\ req'[r].chunk = req[r].chunk
           /\ req'[r].data = req[r].data /\ req'[r].markers = {} /\ ~req'[r].linked
<1>1. Carried(r, req[r]) /\ DOMAIN req = Requests
  BY DEF DInv
<1>2. OthersSame(r)
  BY <1>1 DEF Goto, OthersSame
<1>3. /\ req'[r].op = req[r].op /\ req'[r].at = at /\ req'[r].chunk = req[r].chunk
      /\ req'[r].data = req[r].data /\ req'[r].markers = {} /\ ~req'[r].linked
      /\ DOMAIN req'[r] = DOMAIN req[r]
  BY <1>1 DEF Goto, Carried
<1>4. Carried(r, req'[r])
  BY <1>1, <1>3 DEF Carried, Stands
<1>5. QED
  BY <1>2, <1>3, <1>4 DEF Onward

LEMMA Opened ==
    ASSUME DInv, NEW r \in Requests, NEW at \in {"save", "mark", "fill"}, Opens(r, at),
           Stands(r, at, req[r])
    PROVE  /\ OthersSame(r) /\ Onward(r) /\ Carried(r, req'[r])
           /\ req'[r].op = req[r].op /\ req'[r].at = at /\ req'[r].chunk = req[r].chunk
           /\ req'[r].data = req[r].data /\ req'[r].markers = req[r].markers /\ req'[r].linked
           /\ lock' = lock /\ crossed' = crossed
<1>1. Carried(r, req[r]) /\ DOMAIN req = Requests
  BY DEF DInv
<1>2. OthersSame(r)
  BY <1>1 DEF Opens, OthersSame
<1>3. /\ req'[r].op = req[r].op /\ req'[r].at = at /\ req'[r].chunk = req[r].chunk
      /\ req'[r].data = req[r].data /\ req'[r].markers = req[r].markers /\ req'[r].linked
      /\ DOMAIN req'[r] = DOMAIN req[r]
  BY <1>1 DEF Opens, Carried
<1>4. Carried(r, req'[r])
  BY <1>1, <1>3 DEF Carried, Stands
<1>5. QED
  BY <1>2, <1>3, <1>4 DEF Onward, Opens

LEMMA Answered ==
    ASSUME DInv, NEW r \in Requests, Answer(r)
    PROVE  /\ OthersSame(r) /\ Onward(r) /\ Carried(r, req'[r])
           /\ req'[r] = NoRequest /\ lock' \subseteq lock /\ r \notin lock'
           /\ \A d : Links(req'[r], d) /\ WorksWith(For[r], req'[r], d)
<1>1. DOMAIN req = Requests
  BY DEF DInv
<1>2. OthersSame(r) /\ req'[r] = NoRequest /\ lock' \subseteq lock /\ r \notin lock'
  BY <1>1 DEF Answer, OthersSame
<1>3. /\ NoRequest.op = "none" /\ NoRequest.at = "none" /\ NoRequest.markers = {}
      /\ NoRequest.data = "good" /\ ~NoRequest.linked
      /\ DOMAIN NoRequest = {"op", "at", "chunk", "data", "used", "markers", "linked"}
  BY DEF NoRequest
<1>4. Carried(r, req'[r]) /\ Onward(r)
  BY <1>2, <1>3 DEF Carried, Onward, Steps
<1>5. ASSUME NEW d
      PROVE  Links(req'[r], d) /\ WorksWith(For[r], req'[r], d)
  BY <1>2, <1>3 DEF Links, WorksWith, Inside
<1>6. QED
  BY <1>2, <1>4, <1>5

LEMMA KindSame ==
    ASSUME NEW r \in Requests, NEW d
    PROVE  Kind(r, d, d) /\ Stays(d, d)
BY DEF Kind, Stays

\* A step that leaves the files alone.
LEMMA EffectQuiet ==
    ASSUME DInv, NEW r \in Requests, OthersSame(r), Onward(r), Carried(r, req'[r]),
           UNCHANGED <<dir, crossed>>,
           lock' \subseteq lock \cup {r}, r \in lock' => req'[r].op \in {"prepare", "purge"},
           Links(req'[r], dir[For[r]]),
           For[r] \notin crossed => WorksWith(For[r], req'[r], dir[For[r]]),
           content' \in [Attachments -> Finished],
           \A a \in Attachments : content'[a].file = "bad" => content[a].file = "bad"
    PROVE  Effect(r)
<1>1. DOMAIN dir' = Transfers /\ \A u \in Transfers \ {For[r]} : dir'[u] = dir[u]
  BY DEF DInv
<1>2. Ordinary(r)
  BY KindSame DEF Ordinary, OthersSame
<1>3. DirOK(For[r])'
  BY ForIs DEF DInv, DirOK
<1>4. QED
  BY <1>1, <1>2, <1>3 DEF Effect, OthersSame

LEMMA EffectFail ==
    ASSUME DInv, NEW r \in Requests, Fail(r)
    PROVE  Effect(r)
<1>1. Answer(r) /\ UNCHANGED <<dir, content, crossed>>
  BY DEF Fail
<1>2. /\ OthersSame(r) /\ Onward(r) /\ Carried(r, req'[r]) /\ lock' \subseteq lock /\ r \notin lock'
      /\ Links(req'[r], dir[For[r]]) /\ WorksWith(For[r], req'[r], dir[For[r]])
  BY <1>1, Answered
<1>3. content' \in [Attachments -> Finished]
  BY <1>1 DEF DInv
<1>4. QED
  BY <1>1, <1>2, <1>3, EffectQuiet

\* A step that changes the directory of its transfer and takes nothing away.
LEMMA EffectFiles ==
    ASSUME DInv, NEW r \in Requests, OthersSame(r), Onward(r), Carried(r, req'[r]),
           UNCHANGED <<content, crossed>>,
           lock' \subseteq lock, r \in lock' => req'[r].op = req[r].op,
           NEW e, e = dir'[For[r]], dir' \in {dir, [dir EXCEPT ![For[r]] = e]}, DirOK(For[r])',
           Stays(dir[For[r]], e), For[r] \notin crossed => Kind(r, dir[For[r]], e),
           Links(req'[r], e), For[r] \notin crossed => WorksWith(For[r], req'[r], e)
    PROVE  Effect(r)
<1>1. DOMAIN dir' = Transfers /\ \A u \in Transfers \ {For[r]} : dir'[u] = dir[u]
  BY DEF DInv
<1>2. Ordinary(r)
  BY DEF Ordinary, OthersSame
<1>3. content' \in [Attachments -> Finished] /\ (r \in lock' => req'[r].op \in {"prepare", "purge"})
  BY DEF DInv
<1>4. QED
  BY <1>1, <1>2, <1>3 DEF Effect, OthersSame

\* The next step of a request that works with nothing.
LEMMA AtRest ==
    ASSUME NEW t, NEW x, NEW d,
           x.at \in {"scan", "admit", "mkdir", "open", "storage", "size", "read", "remove", "forget", "publish", "commit"},
           x.op # "write", ~x.linked
    PROVE  WorksWith(t, x, d) /\ Links(x, d)
<1>1. x.at \notin Inside
  BY DEF Inside
<1>2. x.at \notin {"migrate", "mark", "fill", "marker", "unlink", "rename"}
  BY <1>1 DEF Inside
<1>3. WorksWith(t, x, d)
  BY <1>1, <1>2 DEF WorksWith
<1>4. QED
  BY <1>3 DEF Links

LEMMA TakeLockEffect ==
    ASSUME DInv, NEW r \in Requests, TakeLock(r)
    PROVE  Effect(r)
<1>1. UNCHANGED <<dir, content, crossed>> /\ req[r].at = "lock"
  BY DEF TakeLock, Serve
<1>2. content' \in [Attachments -> Finished] /\ Carried(r, req[r])
  BY <1>1 DEF DInv
<1>3. CASE Answer(r)
  BY <1>1, <1>3, EffectFail DEF Fail
<1>4. ASSUME NEW at \in {"mkdir", "scan", "remove"}, Goto(r, at), lock' = lock \cup {r},
             req[r].op \in {"prepare", "purge"}
      PROVE  Effect(r)
  <2>1. Stands(r, at, req[r])
    BY <1>4 DEF Stands, Steps
  <2>2. /\ OthersSame(r) /\ Onward(r) /\ Carried(r, req'[r])
        /\ req'[r].op = req[r].op /\ req'[r].at = at /\ ~req'[r].linked
    BY <1>4, <2>1, Went
  <2>3. Links(req'[r], dir[For[r]]) /\ WorksWith(For[r], req'[r], dir[For[r]])
    BY <1>4, <2>2, AtRest
  <2>4. QED
    BY <1>1, <1>2, <1>4, <2>2, <2>3, EffectQuiet
<1>5. \/ Answer(r)
      \/ \E at \in {"mkdir", "scan", "remove"} :
           Goto(r, at) /\ lock' = lock \cup {r} /\ req[r].op \in {"prepare", "purge"}
  BY DEF TakeLock
<1>6. QED
  BY <1>3, <1>4, <1>5

LEMMA ScanAdmitEffect ==
    ASSUME DInv, NEW r \in Requests, ScanContent(r) \/ Admit(r)
    PROVE  Effect(r)
<1>1. UNCHANGED <<dir, content, crossed>> /\ req[r].at \in {"scan", "admit"}
  BY DEF ScanContent, Admit, Serve
<1>2. /\ content' \in [Attachments -> Finished] /\ Carried(r, req[r]) /\ DOMAIN req = Requests
      /\ For[r] \notin crossed => WorksWith(For[r], req[r], dir[For[r]])
  BY <1>1 DEF DInv
<1>3. CASE Answer(r)
  BY <1>1, <1>3, EffectFail DEF Fail
<1>4. ASSUME NEW at \in {"admit", "mkdir"}, NEW u, req' = [req EXCEPT ![r].at = at, ![r].used = u],
             lock' = lock
      PROVE  Effect(r)
  <2>1. OthersSame(r)
    BY <1>2, <1>4 DEF OthersSame
  <2>2. /\ req'[r].op = req[r].op /\ req'[r].at = at /\ req'[r].chunk = req[r].chunk
        /\ req'[r].data = req[r].data /\ req'[r].markers = req[r].markers
        /\ ~req'[r].linked /\ DOMAIN req'[r] = DOMAIN req[r]
    BY <1>1, <1>2, <1>4 DEF Carried
  <2>3. Onward(r) /\ Carried(r, req'[r])
    BY <1>1, <1>2, <2>2 DEF Onward, Carried, Steps
  <2>4. Links(req'[r], dir[For[r]])
    BY <2>2 DEF Links
  <2>5. For[r] \notin crossed => WorksWith(For[r], req'[r], dir[For[r]])
    BY <1>1, <1>2, <2>2 DEF WorksWith, Inside
  <2>6. r \in lock' => req'[r].op \in {"prepare", "purge"}
    BY <1>4, <2>2 DEF DInv
  <2>7. QED
    BY <1>1, <1>2, <1>4, <2>1, <2>3, <2>4, <2>5, <2>6, EffectQuiet
<1>5. Answer(r) \/ \E at \in {"admit", "mkdir"}, u \in {ContentUsage, 0} :
        req' = [req EXCEPT ![r].at = at, ![r].used = u] /\ lock' = lock
  BY DEF ScanContent, Admit
<1>6. QED
  BY <1>3, <1>4, <1>5

\* What stays of a directory when some of its fields change.
LEMMA DirOf ==
    ASSUME DInv, NEW t \in Transfers
    PROVE  /\ DOMAIN dir = Transfers /\ dir[t] \in Directory(t) /\ (~dir[t].mapped => dir[t].map = {})
           /\ dir[t].held \/ dir[t].mapped \/ dir[t].manifest # "none" \/ dir[t].parts # {} => dir[t].there
BY DEF DInv, DirOK, NoDir

LEMMA MakeDirEffect ==
    ASSUME DInv, NEW r \in Requests, MakeDir(r)
    PROVE  Effect(r)
<1> DEFINE t == For[r]
           e == [dir[t] EXCEPT !.there = TRUE]
<1>1. t \in Transfers /\ Carried(r, req[r])
  BY ForIs DEF DInv
<1>2. DOMAIN dir = Transfers /\ dir[t] \in Directory(t) /\ (~dir[t].mapped => dir[t].map = {})
  BY <1>1, DirOf
<1>3. /\ req[r].at = "mkdir" /\ dir' = [dir EXCEPT ![t] = e] /\ Goto(r, "open")
      /\ UNCHANGED <<content, lock, crossed>>
  BY DEF MakeDir, Keep, Serve
<1>4. dir'[t] = e
  BY <1>1, <1>2, <1>3
<1>5. /\ e \in Directory(t) /\ e.there /\ e.manifest = dir[t].manifest /\ e.held = dir[t].held
      /\ e.payload = dir[t].payload /\ e.mapped = dir[t].mapped /\ e.map = dir[t].map
      /\ e.parts = dir[t].parts
  BY <1>2 DEF Directory
<1>6. DirOK(t)'
  BY <1>2, <1>4, <1>5 DEF DirOK
<1>7. Stays(dir[t], e) /\ Kind(r, dir[t], e)
  BY <1>5 DEF Stays, Kind
<1>8. Stands(r, "open", req[r])
  BY <1>1, <1>3 DEF Stands, Steps, Carried
<1>9. /\ OthersSame(r) /\ Onward(r) /\ Carried(r, req'[r]) /\ req'[r].op = req[r].op
      /\ req'[r].at = "open" /\ req'[r].chunk = req[r].chunk /\ req'[r].markers = {} /\ ~req'[r].linked
  BY <1>3, <1>8, Went
<1>10. Links(req'[r], e)
  BY <1>9 DEF Links
<1>11. t \notin crossed => WorksWith(t, req'[r], e)
  BY <1>5, <1>9 DEF WorksWith, Inside, DInv
<1> HIDE DEF e
<1>12. QED
  BY <1>3, <1>4, <1>6, <1>7, <1>9, <1>10, <1>11, EffectFiles

LEMMA OpenManifestEffect ==
    ASSUME DInv, NEW r \in Requests, OpenManifest(r)
    PROVE  Effect(r)
<1> DEFINE t == For[r]
           e == [dir[t] EXCEPT !.manifest = "torn"]
<1>1. t \in Transfers /\ Carried(r, req[r])
  BY ForIs DEF DInv
<1>2. DOMAIN dir = Transfers /\ dir[t] \in Directory(t) /\ (~dir[t].mapped => dir[t].map = {})
  BY <1>1, DirOf
<1>3. CASE Fail(r)
  BY <1>3, EffectFail
<1>4. CASE dir[t].there /\ dir' = [dir EXCEPT ![t] = e] /\ Opens(r, "save") /\ UNCHANGED content
  <2>1. dir'[t] = e /\ req[r].at = "open"
    BY <1>1, <1>2, <1>4 DEF OpenManifest, Serve
  <2>2. /\ e \in Directory(t) /\ e.there /\ e.manifest = "torn" /\ e.held = dir[t].held
        /\ e.payload = dir[t].payload /\ e.mapped = dir[t].mapped /\ e.map = dir[t].map
        /\ e.parts = dir[t].parts
    BY <1>2, <1>4 DEF Directory, File
  <2>3. DirOK(t)'
    BY <1>2, <2>1, <2>2 DEF DirOK
  <2>4. Stays(dir[t], e) /\ Kind(r, dir[t], e)
    BY <2>2 DEF Stays, Kind
  <2>5. Stands(r, "save", req[r])
    BY <1>1, <2>1 DEF Stands, Steps, Carried
  <2>6. /\ OthersSame(r) /\ Onward(r) /\ Carried(r, req'[r]) /\ req'[r].op = req[r].op
        /\ req'[r].at = "save" /\ req'[r].chunk = req[r].chunk /\ req'[r].markers = req[r].markers
        /\ lock' = lock /\ crossed' = crossed
    BY <1>4, <2>5, Opened
  <2>7. Links(req'[r], e)
    BY <2>2, <2>6 DEF Links
  <2>8. t \notin crossed => WorksWith(t, req'[r], e)
    BY <2>2, <2>6 DEF WorksWith, Inside, DInv
  <2> HIDE DEF e
  <2>9. QED
    BY <1>4, <2>1, <2>3, <2>4, <2>6, <2>7, <2>8, EffectFiles
<1>5. QED
  BY <1>3, <1>4 DEF OpenManifest

LEMMA FillManifestEffect ==
    ASSUME DInv, NEW r \in Requests, FillManifest(r)
    PROVE  Effect(r)
<1> DEFINE t == For[r]
           e == IF req[r].linked THEN [dir[t] EXCEPT !.manifest = "whole"] ELSE dir[t]
<1>1. t \in Transfers /\ Carried(r, req[r])
  BY ForIs DEF DInv
<1>2. DOMAIN dir = Transfers /\ dir[t] \in Directory(t) /\ (~dir[t].mapped => dir[t].map = {})
  BY <1>1, DirOf
<1>3. req[r].at = "save" /\ Goto(r, "storage") /\ UNCHANGED <<content, lock, crossed>>
  BY DEF FillManifest, Keep, Serve
<1>4. dir' \in {dir, [dir EXCEPT ![t] = e]} /\ dir'[t] = e
  BY <1>1, <1>2 DEF FillManifest
<1>5. req[r].linked => dir[t].there
  BY <1>1, <1>3, DirOf DEF DInv, Links
<1>6. /\ e \in Directory(t) /\ e.there = dir[t].there /\ e.held = dir[t].held
      /\ (dir[t].manifest # "none" => e.manifest # "none")
      /\ e.payload = dir[t].payload /\ e.mapped = dir[t].mapped /\ e.map = dir[t].map
      /\ e.parts = dir[t].parts
  BY <1>2 DEF Directory, File
<1>7. DirOK(t)'
  <2>1. ~e.there => e = NoDir(t)
    BY <1>1, <1>5, <1>6 DEF DInv, DirOK
  <2> HIDE DEF e
  <2>2. QED
    BY <1>2, <1>4, <1>6, <2>1 DEF DirOK, NoDir
<1>8. Stays(dir[t], e) /\ Kind(r, dir[t], e)
  BY <1>6 DEF Stays, Kind
<1>9. Stands(r, "storage", req[r])
  BY <1>1, <1>3 DEF Stands, Steps, Carried
<1>10. /\ OthersSame(r) /\ Onward(r) /\ Carried(r, req'[r]) /\ req'[r].op = req[r].op
       /\ req'[r].at = "storage" /\ req'[r].chunk = req[r].chunk /\ req'[r].markers = {} /\ ~req'[r].linked
  BY <1>3, <1>9, Went
<1>11. Links(req'[r], e)
  BY <1>10 DEF Links
<1>12. t \notin crossed => WorksWith(t, req'[r], e)
  BY <1>6, <1>10 DEF WorksWith, Inside, DInv
<1> HIDE DEF e
<1>13. QED
  BY <1>3, <1>4, <1>7, <1>8, <1>10, <1>11, <1>12, EffectFiles

LEMMA ReadManifestEffect ==
    ASSUME DInv, NEW r \in Requests, ReadManifest(r)
    PROVE  Effect(r)
<1>1. /\ req[r].at = "read" /\ Carried(r, req[r]) /\ ContentOf[For[r]] \in Attachments
      /\ content \in [Attachments -> Finished]
      /\ For[r] \notin crossed => WorksWith(For[r], req[r], dir[For[r]])
  BY ForIs DEF ReadManifest, Serve, DInv
<1>2. CASE Fail(r)
  BY <1>2, EffectFail
<1>3. CASE /\ Keep(r, "storage") /\ UNCHANGED dir
           /\ content' \in {content, [content EXCEPT ![ContentOf[For[r]]].there = TRUE]}
  <2>1. Stands(r, "storage", req[r])
    BY <1>1 DEF Stands, Steps, Carried
  <2>2. /\ OthersSame(r) /\ Onward(r) /\ Carried(r, req'[r]) /\ req'[r].op = req[r].op
        /\ req'[r].at = "storage" /\ req'[r].chunk = req[r].chunk /\ req'[r].markers = {} /\ ~req'[r].linked
    BY <1>3, <2>1, Went DEF Keep
  <2>3. Links(req'[r], dir[For[r]])
    BY <2>2 DEF Links
  <2>4. For[r] \notin crossed => WorksWith(For[r], req'[r], dir[For[r]])
    BY <1>1, <2>2 DEF WorksWith, Inside
  <2>5. /\ content' \in [Attachments -> Finished]
        /\ \A a \in Attachments : content'[a].file = content[a].file
    <3>1. ASSUME NEW a \in Attachments
          PROVE  content[a] \in Finished /\ [content[a] EXCEPT !.there = TRUE] \in Finished
                 /\ [content[a] EXCEPT !.there = TRUE].file = content[a].file
      BY <1>1 DEF Finished
    <3>2. QED
      BY <1>1, <1>3, <3>1
  <2>6. lock' = lock /\ crossed' = crossed /\ (r \in lock' => req'[r].op \in {"prepare", "purge"})
    BY <1>3, <2>2 DEF Keep, DInv
  <2>7. QED
    BY <1>3, <2>2, <2>3, <2>4, <2>5, <2>6, EffectQuiet
<1>4. QED
  BY <1>2, <1>3 DEF ReadManifest

\* The storage of a transfer is ready: a request works with it, or is answered.
LEMMA Readied ==
    ASSUME DInv, NEW r \in Requests, StorageReady(r), req[r].at # "none"
    PROVE  /\ OthersSame(r) /\ Onward(r) /\ Carried(r, req'[r])
           /\ lock' \subseteq lock /\ crossed' = crossed /\ (r \in lock' => req'[r].op = req[r].op)
           /\ ~req'[r].linked /\ req'[r].markers = {}
           /\ \/ /\ req[r].op = "write" /\ req'[r].op = "write" /\ req'[r].at = "bytes"
                 /\ req'[r].chunk = req[r].chunk
              \/ req'[r].op = "finalize" /\ req'[r].at = "check"
              \/ req'[r].op = "none" /\ req'[r].at = "none"
<1>1. CASE req[r].op = "write"
  <2>1. Keep(r, "bytes") /\ Stands(r, "bytes", req[r])
    BY <1>1 DEF StorageReady, Stands, Steps
  <2>2. QED
    BY <1>1, <2>1, Went DEF Keep
<1>2. CASE req[r].op = "finalize"
  <2>1. Keep(r, "check") /\ Stands(r, "check", req[r])
    BY <1>2 DEF StorageReady, Stands, Steps
  <2>2. QED
    BY <1>2, <2>1, Went DEF Keep
<1>3. CASE req[r].op \notin {"write", "finalize"}
  <2>1. Answer(r) /\ UNCHANGED crossed
    BY <1>3 DEF StorageReady
  <2>2. NoRequest.op = "none" /\ NoRequest.at = "none" /\ ~NoRequest.linked /\ NoRequest.markers = {}
    BY DEF NoRequest
  <2>3. QED
    BY <2>1, <2>2, Answered
<1>4. QED
  BY <1>1, <1>2, <1>3

LEMMA CheckStorageEffect ==
    ASSUME DInv, NEW r \in Requests, CheckStorage(r)
    PROVE  Effect(r)
<1> DEFINE t == For[r]
           e == [dir[t] EXCEPT !.there = TRUE]
<1>1. t \in Transfers /\ Carried(r, req[r]) /\ (t \notin crossed => WorksWith(t, req[r], dir[t]))
  BY ForIs DEF DInv
<1>2. DOMAIN dir = Transfers /\ dir[t] \in Directory(t) /\ (~dir[t].mapped => dir[t].map = {})
  BY <1>1, DirOf
<1>3. req[r].at = "storage" /\ dir' = [dir EXCEPT ![t] = e] /\ UNCHANGED content
  BY DEF CheckStorage, Serve
<1>4. dir'[t] = e
  BY <1>1, <1>2, <1>3
<1>5. /\ e \in Directory(t) /\ e.there /\ e.manifest = dir[t].manifest /\ e.held = dir[t].held
      /\ e.payload = dir[t].payload /\ e.mapped = dir[t].mapped /\ e.map = dir[t].map
      /\ e.parts = dir[t].parts
  BY <1>2 DEF Directory
<1>6. DirOK(t)'
  BY <1>2, <1>4, <1>5 DEF DirOK
<1>7. Stays(dir[t], e) /\ Kind(r, dir[t], e)
  BY <1>5 DEF Stays, Kind
<1>8. CASE dir[t].held /\ StorageReady(r)
  <2>1. /\ OthersSame(r) /\ Onward(r) /\ Carried(r, req'[r])
        /\ lock' \subseteq lock /\ crossed' = crossed /\ (r \in lock' => req'[r].op = req[r].op)
        /\ ~req'[r].linked /\ req'[r].markers = {}
        /\ \/ /\ req[r].op = "write" /\ req'[r].op = "write" /\ req'[r].at = "bytes"
              /\ req'[r].chunk = req[r].chunk
           \/ req'[r].op = "finalize" /\ req'[r].at = "check"
           \/ req'[r].op = "none" /\ req'[r].at = "none"
    BY <1>3, <1>8, Readied
  <2>2. Links(req'[r], e)
    BY <2>1 DEF Links
  <2>3. t \notin crossed => WorksWith(t, req'[r], e)
    BY <1>1, <1>5, <1>8, <2>1 DEF WorksWith
  <2> HIDE DEF e
  <2>4. QED
    BY <1>3, <1>4, <1>6, <1>7, <2>1, <2>2, <2>3, EffectFiles
<1>9. CASE Keep(r, "size")
  <2>1. Stands(r, "size", req[r])
    BY <1>1, <1>3 DEF Stands, Steps, Carried
  <2>2. /\ OthersSame(r) /\ Onward(r) /\ Carried(r, req'[r]) /\ req'[r].op = req[r].op
        /\ req'[r].at = "size" /\ req'[r].chunk = req[r].chunk /\ req'[r].markers = {} /\ ~req'[r].linked
        /\ UNCHANGED <<lock, crossed>>
    BY <1>9, <2>1, Went DEF Keep
  <2>3. Links(req'[r], e)
    BY <2>2 DEF Links
  <2>4. t \notin crossed => WorksWith(t, req'[r], e)
    BY <1>1, <1>5, <2>2 DEF WorksWith, Inside
  <2> HIDE DEF e
  <2>5. QED
    BY <1>3, <1>4, <1>6, <1>7, <2>2, <2>3, <2>4, EffectFiles
<1>10. QED
  BY <1>8, <1>9 DEF CheckStorage, Initialised

LEMMA SizePayloadEffect ==
    ASSUME DInv, NEW r \in Requests, SizePayload(r)
    PROVE  Effect(r)
<1> DEFINE t == For[r]
           e == [dir[t] EXCEPT !.held = TRUE]
<1>1. t \in Transfers /\ Carried(r, req[r]) /\ (t \notin crossed => WorksWith(t, req[r], dir[t]))
  BY ForIs DEF DInv
<1>2. DOMAIN dir = Transfers /\ dir[t] \in Directory(t) /\ (~dir[t].mapped => dir[t].map = {})
  BY <1>1, DirOf
<1>3. CASE Fail(r)
  BY <1>3, EffectFail
<1>4. CASE /\ dir[t].there /\ dir' = [dir EXCEPT ![t] = e]
           /\ req' = [req EXCEPT ![r].at = "migrate", ![r].markers = {}, ![r].linked = TRUE]
           /\ UNCHANGED <<content, lock, crossed>>
  <2>1. dir'[t] = e /\ req[r].at = "size"
    BY <1>1, <1>2, <1>4 DEF SizePayload, Serve
  <2>2. /\ e \in Directory(t) /\ e.there /\ e.manifest = dir[t].manifest /\ e.held
        /\ e.payload = dir[t].payload /\ e.mapped = dir[t].mapped /\ e.map = dir[t].map
        /\ e.parts = dir[t].parts
    BY <1>2, <1>4 DEF Directory
  <2>3. DirOK(t)'
    BY <1>2, <2>1, <2>2 DEF DirOK
  <2>4. Stays(dir[t], e) /\ Kind(r, dir[t], e)
    BY <2>2 DEF Stays, Kind
  <2>5. OthersSame(r)
    BY <1>4 DEF OthersSame, DInv
  <2>6. /\ req'[r].op = req[r].op /\ req'[r].at = "migrate" /\ req'[r].chunk = req[r].chunk
        /\ req'[r].data = req[r].data /\ req'[r].markers = {} /\ req'[r].linked
        /\ DOMAIN req'[r] = DOMAIN req[r]
    BY <1>1, <1>4 DEF Carried, DInv
  <2>7. Onward(r) /\ Carried(r, req'[r])
    BY <1>1, <2>1, <2>6 DEF Onward, Carried, Steps
  <2>8. Links(req'[r], e)
    BY <2>2, <2>6 DEF Links
  <2>9. t \notin crossed => WorksWith(t, req'[r], e)
    BY <1>1, <2>2, <2>6 DEF WorksWith
  <2> HIDE DEF e
  <2>10. QED
    BY <1>4, <2>1, <2>3, <2>4, <2>5, <2>6, <2>7, <2>8, <2>9, EffectFiles
<1>5. QED
  BY <1>3, <1>4 DEF SizePayload

LEMMA MigratePartEffect ==
    ASSUME DInv, NEW r \in Requests, MigratePart(r)
    PROVE  Effect(r)
<1> DEFINE t == For[r]
<1>1. PICK i \in dir[t].parts :
        /\ dir' = [dir EXCEPT ![t].payload[i] = IF req[r].linked THEN "good" ELSE @,
                              ![t].parts = @ \ {i}]
        /\ req' = [req EXCEPT ![r].markers = @ \cup {i}]
        /\ UNCHANGED <<content, lock, crossed>> /\ req[r].at = "migrate"
  BY DEF MigratePart, Serve
<1>2. t \in Transfers /\ Carried(r, req[r]) /\ (t \notin crossed => WorksWith(t, req[r], dir[t]))
  BY ForIs DEF DInv
<1>3. DOMAIN dir = Transfers /\ dir[t] \in Directory(t) /\ (~dir[t].mapped => dir[t].map = {}) /\ dir[t].there
  BY <1>1, <1>2, DirOf
<1>4. i \in ChunksOf[t]
  BY <1>1, <1>3 DEF Directory
<1> DEFINE e == [dir[t] EXCEPT !.payload[i] = IF req[r].linked THEN "good" ELSE @, !.parts = @ \ {i}]
<1>5. dir' = [dir EXCEPT ![t] = e] /\ dir'[t] = e
  BY <1>1, <1>2, <1>3
<1>6. /\ e.there /\ e.manifest = dir[t].manifest /\ e.held = dir[t].held
      /\ e.mapped = dir[t].mapped /\ e.map = dir[t].map /\ e.parts = dir[t].parts \ {i}
      /\ e.payload = [dir[t].payload EXCEPT ![i] = IF req[r].linked THEN "good" ELSE @]
      /\ e \in Directory(t)
  BY <1>3, <1>4 DEF Directory, Bytes
<1>7. /\ \A j \in ChunksOf[t] \ {i} : e.payload[j] = dir[t].payload[j]
      /\ req[r].linked => e.payload[i] = "good"
  BY <1>3, <1>4, <1>6 DEF Directory
<1> HIDE DEF e
<1>8. DirOK(t)'
  BY <1>3, <1>5, <1>6 DEF DirOK
<1>9. Stays(dir[t], e)
  BY <1>6 DEF Stays
<1>10. /\ OthersSame(r) /\ req'[r].op = req[r].op /\ req'[r].at = "migrate"
       /\ req'[r].chunk = req[r].chunk /\ req'[r].data = req[r].data
       /\ req'[r].markers = req[r].markers \cup {i} /\ req'[r].linked = req[r].linked
       /\ DOMAIN req'[r] = DOMAIN req[r]
  BY <1>1, <1>2 DEF OthersSame, Carried, DInv
<1>11. Onward(r) /\ Carried(r, req'[r])
  BY <1>1, <1>2, <1>4, <1>10 DEF Onward, Carried
<1>12. Links(req'[r], e)
  BY <1>1, <1>6, <1>10 DEF Links, DInv
<1>13. ASSUME t \notin crossed
       PROVE  WorksWith(t, req'[r], e) /\ Kind(r, dir[t], e)
  <2>1. WorksWith(t, req[r], dir[t])
    BY <1>2, <1>13
  <2>2. dir[t].held /\ req[r].linked /\ \A j \in req[r].markers : dir[t].payload[j] = "good"
    BY <1>1, <2>1 DEF WorksWith, Inside
  <2>3. req[r].op # "write"
    BY <1>1, <2>1 DEF WorksWith
  <2>4. \A j \in req'[r].markers : e.payload[j] = "good"
    BY <1>2, <1>7, <1>10, <2>2 DEF Carried
  <2>5. WorksWith(t, req'[r], e)
    BY <1>6, <1>10, <2>2, <2>3, <2>4 DEF WorksWith
  <2>6. Kind(r, dir[t], e)
    BY <1>1, <1>6, <1>7, <2>2 DEF Kind
  <2>7. QED
    BY <2>5, <2>6
<1>14. QED
  BY <1>1, <1>5, <1>8, <1>9, <1>10, <1>11, <1>12, <1>13, EffectFiles

LEMMA OpenMapEffect ==
    ASSUME DInv, NEW r \in Requests, OpenMap(r)
    PROVE  Effect(r)
<1> DEFINE t == For[r]
           e == [dir[t] EXCEPT !.mapped = TRUE, !.map = {}]
<1>1. t \in Transfers /\ Carried(r, req[r]) /\ (t \notin crossed => WorksWith(t, req[r], dir[t]))
  BY ForIs DEF DInv
<1>2. DOMAIN dir = Transfers /\ dir[t] \in Directory(t)
  BY <1>1, DirOf
<1>3. CASE Fail(r)
  BY <1>3, EffectFail
<1>4. CASE dir[t].there /\ dir' = [dir EXCEPT ![t].mapped = TRUE, ![t].map = {}] /\ Opens(r, "mark") /\ UNCHANGED content
  <2>1. dir' = [dir EXCEPT ![t] = e] /\ dir'[t] = e /\ req[r].at = "migrate"
    BY <1>1, <1>2, <1>4 DEF OpenMap, Serve
  <2>2. /\ e \in Directory(t) /\ e.there /\ e.manifest = dir[t].manifest /\ e.held = dir[t].held
        /\ e.payload = dir[t].payload /\ e.mapped /\ e.map = {} /\ e.parts = dir[t].parts
    BY <1>2, <1>4 DEF Directory
  <2>3. DirOK(t)'
    BY <2>1, <2>2 DEF DirOK
  <2>4. Stays(dir[t], e) /\ Kind(r, dir[t], e)
    BY <2>2 DEF Stays, Kind
  <2>5. Stands(r, "mark", req[r])
    BY <1>1, <2>1 DEF Stands, Steps, Carried
  <2>6. /\ OthersSame(r) /\ Onward(r) /\ Carried(r, req'[r]) /\ req'[r].op = req[r].op
        /\ req'[r].at = "mark" /\ req'[r].chunk = req[r].chunk /\ req'[r].markers = req[r].markers
        /\ req'[r].linked /\ lock' = lock /\ crossed' = crossed
    BY <1>4, <2>5, Opened
  <2>7. Links(req'[r], e)
    BY <2>2, <2>6 DEF Links
  <2>8. t \notin crossed => WorksWith(t, req'[r], e)
    BY <1>1, <2>1, <2>2, <2>6 DEF WorksWith, Inside
  <2> HIDE DEF e
  <2>9. QED
    BY <1>4, <2>1, <2>3, <2>4, <2>6, <2>7, <2>8, EffectFiles
<1>5. QED
  BY <1>3, <1>4 DEF OpenMap

LEMMA FillMapEffect ==
    ASSUME DInv, NEW r \in Requests, FillMap(r)
    PROVE  Effect(r)
<1> DEFINE t == For[r]
           e == IF req[r].linked THEN [dir[t] EXCEPT !.map = req[r].markers] ELSE dir[t]
<1>1. /\ t \in Transfers /\ Carried(r, req[r]) /\ (t \notin crossed => WorksWith(t, req[r], dir[t]))
      /\ Links(req[r], dir[t])
  BY ForIs DEF DInv
<1>2. DOMAIN dir = Transfers /\ dir[t] \in Directory(t) /\ (~dir[t].mapped => dir[t].map = {})
  BY <1>1, DirOf
<1>3. req[r].at = "mark" /\ StorageReady(r) /\ UNCHANGED content
  BY DEF FillMap, Serve
<1>4. dir' \in {dir, [dir EXCEPT ![t] = e]} /\ dir'[t] = e
  BY <1>1, <1>2 DEF FillMap
<1>5. req[r].linked => dir[t].mapped /\ dir[t].there
  BY <1>1, <1>3, DirOf DEF Links
<1>6. /\ e \in Directory(t) /\ e.there = dir[t].there /\ e.held = dir[t].held
      /\ e.manifest = dir[t].manifest /\ e.payload = dir[t].payload /\ e.mapped = dir[t].mapped
      /\ e.parts = dir[t].parts /\ (req[r].linked => e.map = req[r].markers)
      /\ (~req[r].linked => e = dir[t])
  BY <1>1, <1>2 DEF Directory, Carried
<1> HIDE DEF e
<1>7. DirOK(t)'
  <2>1. CASE req[r].linked
    BY <1>4, <1>5, <1>6, <2>1 DEF DirOK
  <2>2. CASE ~req[r].linked
    BY <1>1, <1>4, <1>6, <2>2 DEF DirOK, DInv
  <2>3. QED
    BY <2>1, <2>2
<1>8. /\ OthersSame(r) /\ Onward(r) /\ Carried(r, req'[r])
      /\ lock' \subseteq lock /\ crossed' = crossed /\ (r \in lock' => req'[r].op = req[r].op)
      /\ ~req'[r].linked /\ req'[r].markers = {}
      /\ \/ /\ req[r].op = "write" /\ req'[r].op = "write" /\ req'[r].at = "bytes"
            /\ req'[r].chunk = req[r].chunk
         \/ req'[r].op = "finalize" /\ req'[r].at = "check"
         \/ req'[r].op = "none" /\ req'[r].at = "none"
  BY <1>3, Readied
<1>9. Links(req'[r], e) /\ Stays(dir[t], e)
  BY <1>6, <1>8 DEF Links, Stays
<1>10. ASSUME t \notin crossed
       PROVE  WorksWith(t, req'[r], e) /\ Kind(r, dir[t], e)
  <2>1. /\ dir[t].held /\ req[r].linked /\ \A i \in req[r].markers : dir[t].payload[i] = "good"
        /\ (req[r].op = "write" => dir[t].parts = {} /\ req[r].markers = {})
    BY <1>1, <1>3, <1>10 DEF WorksWith, Inside
  <2>2. e.map = req[r].markers /\ dir[t].mapped
    BY <1>5, <1>6, <2>1
  <2>3. WorksWith(t, req'[r], e)
    BY <1>6, <1>8, <2>1, <2>2 DEF WorksWith
  <2>4. Kind(r, dir[t], e)
    BY <1>6, <2>1, <2>2 DEF Kind
  <2>5. QED
    BY <2>3, <2>4
<1>11. QED
  BY <1>3, <1>4, <1>7, <1>8, <1>9, <1>10, EffectFiles

LEMMA WriteBytesEffect ==
    ASSUME DInv, NEW r \in Requests, WriteBytes(r)
    PROVE  Effect(r)
<1> DEFINE t == For[r]
           i == req[r].chunk
           p == [dir[t].payload EXCEPT ![i] = Torn(@, req[r].data)]
           e == [dir[t] EXCEPT !.payload = p]
<1>1. t \in Transfers /\ Carried(r, req[r]) /\ (t \notin crossed => WorksWith(t, req[r], dir[t]))
  BY ForIs DEF DInv
<1>2. DOMAIN dir = Transfers /\ dir[t] \in Directory(t) /\ (~dir[t].mapped => dir[t].map = {})
  BY <1>1, DirOf
<1>3. CASE Fail(r)
  BY <1>3, EffectFail
<1>4. CASE /\ dir[t].held /\ dir' = [dir EXCEPT ![t].payload[i] = Torn(@, req[r].data)]
           /\ Opens(r, "fill") /\ UNCHANGED content
  <2>1. req[r].at = "bytes" /\ req[r].op = "write" /\ i \in ChunksOf[t] /\ req[r].data \in Bytes
    BY <1>1 DEF WriteBytes, Serve, Carried, Bytes
  <2>2. dir' = [dir EXCEPT ![t] = e] /\ dir'[t] = e /\ dir[t].there
    BY <1>1, <1>2, <1>4, DirOf
  <2>3. Torn(dir[t].payload[i], req[r].data) \in Bytes
    BY <1>2, <2>1 DEF Torn, Directory, Bytes
  <2>4. p \in [ChunksOf[t] -> Bytes] /\ \A j \in ChunksOf[t] \ {i} : p[j] = dir[t].payload[j]
    BY <1>2, <2>3 DEF Directory
  <2> HIDE DEF p
  <2>5. /\ e \in Directory(t) /\ e.there /\ e.manifest = dir[t].manifest /\ e.held
        /\ e.payload = p
        /\ e.mapped = dir[t].mapped /\ e.map = dir[t].map /\ e.parts = dir[t].parts
    BY <1>2, <1>4, <2>2, <2>4 DEF Directory
  <2> HIDE DEF e
  <2>6. DirOK(t)'
    BY <1>2, <2>2, <2>5 DEF DirOK
  <2>7. Stays(dir[t], e) /\ Kind(r, dir[t], e)
    <3>1. \A j \in ChunksOf[t] :
            e.payload[j] = dir[t].payload[j] \/ (req[r].op = "write" /\ req[r].chunk = j)
      BY <2>1, <2>4, <2>5
    <3>2. Stays(dir[t], e)
      BY <1>4, <2>5 DEF Stays
    <3>3. QED
      BY <1>4, <2>5, <3>1, <3>2 DEF Kind
  <2>8. Stands(r, "fill", req[r])
    BY <2>1 DEF Stands, Steps
  <2>9. /\ OthersSame(r) /\ Onward(r) /\ Carried(r, req'[r]) /\ req'[r].op = req[r].op
        /\ req'[r].at = "fill" /\ req'[r].chunk = req[r].chunk /\ req'[r].markers = req[r].markers
        /\ req'[r].linked /\ lock' = lock /\ crossed' = crossed
    BY <1>4, <2>8, Opened
  <2>10. Links(req'[r], e)
    BY <2>5, <2>9 DEF Links
  <2>11. t \notin crossed => WorksWith(t, req'[r], e)
    BY <1>1, <2>1, <2>5, <2>9 DEF WorksWith
  <2>12. QED
    BY <1>4, <2>2, <2>6, <2>7, <2>9, <2>10, <2>11, EffectFiles
<1>5. QED
  BY <1>3, <1>4 DEF WriteBytes

LEMMA FlushBytesEffect ==
    ASSUME DInv, NEW r \in Requests, FlushBytes(r)
    PROVE  Effect(r)
<1> DEFINE t == For[r]
           i == req[r].chunk
           e == IF req[r].linked THEN [dir[t] EXCEPT !.payload[i] = req[r].data] ELSE dir[t]
<1>1. /\ t \in Transfers /\ Carried(r, req[r]) /\ (t \notin crossed => WorksWith(t, req[r], dir[t]))
      /\ Links(req[r], dir[t])
  BY ForIs DEF DInv
<1>2. DOMAIN dir = Transfers /\ dir[t] \in Directory(t) /\ (~dir[t].mapped => dir[t].map = {})
  BY <1>1, DirOf
<1>3. /\ req[r].at = "fill" /\ Goto(r, "marker") /\ UNCHANGED <<content, lock, crossed>>
      /\ req[r].op = "write" /\ i \in ChunksOf[t] /\ req[r].data \in Bytes
  BY <1>1 DEF FlushBytes, Keep, Serve, Carried, Bytes
<1>4. dir' \in {dir, [dir EXCEPT ![t] = e]} /\ dir'[t] = e
  BY <1>1, <1>2 DEF FlushBytes
<1>5. req[r].linked => dir[t].there
  BY <1>1, <1>3, DirOf DEF Links
<1>6. /\ e \in Directory(t) /\ e.there = dir[t].there /\ e.held = dir[t].held
      /\ e.manifest = dir[t].manifest /\ e.mapped = dir[t].mapped /\ e.map = dir[t].map
      /\ e.parts = dir[t].parts /\ (~req[r].linked => e = dir[t])
      /\ (req[r].linked => e.payload = [dir[t].payload EXCEPT ![i] = req[r].data])
  BY <1>2, <1>3 DEF Directory
<1> HIDE DEF e
<1>7. /\ \A j \in ChunksOf[t] \ {i} : e.payload[j] = dir[t].payload[j]
      /\ req[r].linked => e.payload[i] = req[r].data
  BY <1>2, <1>3, <1>6 DEF Directory
<1>8. DirOK(t)'
  <2>1. CASE req[r].linked
    BY <1>2, <1>4, <1>5, <1>6, <2>1 DEF DirOK
  <2>2. CASE ~req[r].linked
    BY <1>1, <1>4, <1>6, <2>2 DEF DirOK, DInv
  <2>3. QED
    BY <2>1, <2>2
<1>9. Stays(dir[t], e) /\ Kind(r, dir[t], e)
  BY <1>3, <1>6, <1>7 DEF Stays, Kind
<1>10. Stands(r, "marker", req[r])
  BY <1>3 DEF Stands, Steps
<1>11. /\ OthersSame(r) /\ Onward(r) /\ Carried(r, req'[r]) /\ req'[r].op = req[r].op
       /\ req'[r].at = "marker" /\ req'[r].chunk = i /\ req'[r].data = req[r].data
       /\ req'[r].markers = {} /\ ~req'[r].linked
  BY <1>3, <1>10, Went
<1>12. Links(req'[r], e)
  BY <1>11 DEF Links
<1>13. t \notin crossed => WorksWith(t, req'[r], e)
  BY <1>1, <1>3, <1>6, <1>7, <1>11 DEF WorksWith, Inside
<1>14. QED
  BY <1>3, <1>4, <1>8, <1>9, <1>11, <1>12, <1>13, EffectFiles

LEMMA MarkChunkEffect ==
    ASSUME DInv, NEW r \in Requests, MarkChunk(r)
    PROVE  Effect(r)
<1> DEFINE t == For[r]
           i == req[r].chunk
           e == IF dir[t].mapped THEN [dir[t] EXCEPT !.map = @ \cup {i}] ELSE dir[t]
<1>1. t \in Transfers /\ Carried(r, req[r]) /\ (t \notin crossed => WorksWith(t, req[r], dir[t]))
  BY ForIs DEF DInv
<1>2. /\ DOMAIN dir = Transfers /\ dir[t] \in Directory(t) /\ (~dir[t].mapped => dir[t].map = {})
      /\ (dir[t].mapped => dir[t].there)
  BY <1>1, DirOf
<1>3. /\ req[r].at = "marker" /\ Answer(r) /\ UNCHANGED <<content, crossed>>
      /\ req[r].op = "write" /\ i \in ChunksOf[t] /\ req[r].data \in {"good", "wrong"}
  BY <1>1 DEF MarkChunk, Serve, Carried
<1>4. dir' \in {dir, [dir EXCEPT ![t] = e]} /\ dir'[t] = e
  BY <1>1, <1>2 DEF MarkChunk
<1>5. /\ e \in Directory(t) /\ e.there = dir[t].there /\ e.held = dir[t].held
      /\ e.manifest = dir[t].manifest /\ e.payload = dir[t].payload /\ e.mapped = dir[t].mapped
      /\ e.parts = dir[t].parts /\ (dir[t].mapped => e.map = dir[t].map \cup {i})
      /\ (~dir[t].mapped => e = dir[t])
  BY <1>2, <1>3 DEF Directory
<1> HIDE DEF e
<1>6. DirOK(t)'
  <2>1. CASE dir[t].mapped
    BY <1>2, <1>4, <1>5, <2>1 DEF DirOK
  <2>2. CASE ~dir[t].mapped
    BY <1>1, <1>4, <1>5, <2>2 DEF DirOK, DInv
  <2>3. QED
    BY <2>1, <2>2
<1>7. Stays(dir[t], e)
  BY <1>5 DEF Stays
<1>8. ASSUME t \notin crossed
      PROVE  Kind(r, dir[t], e)
  <2>1. dir[t].payload[i] = req[r].data
    BY <1>1, <1>3, <1>8 DEF WorksWith
  <2>2. QED
    BY <1>3, <1>5, <2>1 DEF Kind
<1>9. /\ OthersSame(r) /\ Onward(r) /\ Carried(r, req'[r]) /\ lock' \subseteq lock /\ r \notin lock'
      /\ Links(req'[r], e) /\ WorksWith(t, req'[r], e)
  BY <1>3, Answered
<1>10. QED
  BY <1>3, <1>4, <1>6, <1>7, <1>8, <1>9, EffectFiles

LEMMA CheckMapEffect ==
    ASSUME DInv, NEW r \in Requests, CheckMap(r)
    PROVE  Effect(r)
<1>1. /\ req[r].at = "check" /\ Carried(r, req[r]) /\ content \in [Attachments -> Finished]
      /\ For[r] \notin crossed => WorksWith(For[r], req[r], dir[For[r]])
  BY DEF CheckMap, Serve, DInv
<1>2. CASE Fail(r)
  BY <1>2, EffectFail
<1>3. CASE Keep(r, "hash") /\ UNCHANGED <<dir, content>>
  <2>1. Stands(r, "hash", req[r])
    BY <1>1 DEF Stands, Steps, Carried
  <2>2. /\ OthersSame(r) /\ Onward(r) /\ Carried(r, req'[r]) /\ req'[r].op = req[r].op
        /\ req'[r].at = "hash" /\ ~req'[r].linked
        /\ UNCHANGED <<lock, crossed>>
    BY <1>3, <2>1, Went DEF Keep
  <2>3. Links(req'[r], dir[For[r]])
    BY <2>2 DEF Links
  <2>4. req[r].op = "finalize"
    BY <1>1 DEF Carried
  <2>5. For[r] \notin crossed => WorksWith(For[r], req'[r], dir[For[r]])
    BY <1>1, <2>2, <2>4 DEF WorksWith, Inside
  <2>6. lock' \subseteq lock \cup {r} /\ (r \in lock' => req'[r].op \in {"prepare", "purge"})
    BY <2>2 DEF DInv
  <2>7. QED
    BY <1>1, <1>3, <2>2, <2>3, <2>5, <2>6, EffectQuiet
<1>4. QED
  BY <1>2, <1>3 DEF CheckMap

LEMMA HashPayloadEffect ==
    ASSUME DInv, NEW r \in Requests, HashPayload(r)
    PROVE  Effect(r)
<1>1. /\ req[r].at = "hash" /\ Carried(r, req[r]) /\ content \in [Attachments -> Finished]
  BY DEF HashPayload, Serve, DInv
<1>2. CASE Fail(r)
  BY <1>2, EffectFail
<1>3. CASE Whole(For[r]) /\ Keep(r, "unlink") /\ UNCHANGED <<dir, content>>
  <2>1. Stands(r, "unlink", req[r])
    BY <1>1 DEF Stands, Steps, Carried
  <2>2. /\ OthersSame(r) /\ Onward(r) /\ Carried(r, req'[r]) /\ req'[r].op = req[r].op
        /\ req'[r].at = "unlink" /\ ~req'[r].linked
        /\ UNCHANGED <<lock, crossed>>
    BY <1>3, <2>1, Went DEF Keep
  <2>3. Links(req'[r], dir[For[r]])
    BY <2>2 DEF Links
  <2>4. req[r].op = "finalize"
    BY <1>1 DEF Carried
  <2>5. WorksWith(For[r], req'[r], dir[For[r]])
    BY <1>3, <2>2, <2>4 DEF WorksWith, Inside, Whole
  <2>6. lock' \subseteq lock \cup {r} /\ (r \in lock' => req'[r].op \in {"prepare", "purge"})
    BY <2>2 DEF DInv
  <2>7. QED
    BY <1>1, <1>3, <2>2, <2>3, <2>5, <2>6, EffectQuiet
<1>4. QED
  BY <1>2, <1>3 DEF HashPayload, HashMatches

\* What becomes of a content without its file, or with another manifest.
LEMMA ContentOK ==
    ASSUME NEW c \in Finished, NEW f \in File
    PROVE  /\ [c EXCEPT !.file = "none"] \in Finished /\ [c EXCEPT !.file = "none"].file = "none"
           /\ [c EXCEPT !.manifest = f] \in Finished /\ [c EXCEPT !.manifest = f].file = c.file
BY DEF Finished

LEMMA UnlinkEffect ==
    ASSUME DInv, NEW r \in Requests, Unlink(r)
    PROVE  Effect(r)
<1>1. /\ req[r].at = "unlink" /\ Carried(r, req[r]) /\ content \in [Attachments -> Finished]
      /\ For[r] \notin crossed => WorksWith(For[r], req[r], dir[For[r]])
      /\ ContentOf[For[r]] \in Attachments /\ Keep(r, "rename") /\ UNCHANGED dir
      /\ content' = [content EXCEPT ![ContentOf[For[r]]].file = "none"]
  BY ForIs DEF Unlink, Serve, DInv
<1>2. req[r].op = "finalize" /\ Stands(r, "rename", req[r])
  BY <1>1 DEF Stands, Steps, Carried
<1>3. /\ OthersSame(r) /\ Onward(r) /\ Carried(r, req'[r]) /\ req'[r].op = req[r].op
      /\ req'[r].at = "rename" /\ ~req'[r].linked /\ UNCHANGED <<lock, crossed>>
  BY <1>1, <1>2, Went DEF Keep
<1>4. Links(req'[r], dir[For[r]])
  BY <1>3 DEF Links
<1>5. For[r] \notin crossed => WorksWith(For[r], req'[r], dir[For[r]])
  BY <1>1, <1>2, <1>3 DEF WorksWith, Inside
<1>6. lock' \subseteq lock \cup {r} /\ (r \in lock' => req'[r].op \in {"prepare", "purge"})
  BY <1>3 DEF DInv
<1>7. /\ content' \in [Attachments -> Finished]
      /\ \A a \in Attachments : content'[a].file = "bad" => content[a].file = "bad"
  <2>1. "none" \in File
    BY DEF File
  <2>2. QED
    BY <1>1, <2>1, ContentOK
<1>8. QED
  BY <1>1, <1>3, <1>4, <1>5, <1>6, <1>7, EffectQuiet

LEMMA ContentManifestEffect ==
    ASSUME DInv, NEW r \in Requests, OpenContentManifest(r) \/ FillContentManifest(r)
    PROVE  Effect(r)
<1>1. /\ req[r].at \in {"publish", "commit"} /\ Carried(r, req[r])
      /\ content \in [Attachments -> Finished] /\ ContentOf[For[r]] \in Attachments
  BY ForIs DEF OpenContentManifest, FillContentManifest, Serve, DInv
<1>2. req[r].op = "finalize"
  BY <1>1 DEF Carried
<1>3. CASE Fail(r)
  BY <1>3, EffectFail
<1>4. ASSUME NEW at \in {"commit", "remove"}, NEW f \in File, Keep(r, at), UNCHANGED dir,
             content' = [content EXCEPT ![ContentOf[For[r]]].manifest = f]
      PROVE  Effect(r)
  <2>1. Stands(r, at, req[r])
    BY <1>2, <1>4 DEF Stands, Steps
  <2>2. /\ OthersSame(r) /\ Onward(r) /\ Carried(r, req'[r]) /\ req'[r].op = req[r].op
        /\ req'[r].at = at /\ ~req'[r].linked /\ UNCHANGED <<lock, crossed>>
    BY <1>4, <2>1, Went DEF Keep
  <2>3. Links(req'[r], dir[For[r]]) /\ WorksWith(For[r], req'[r], dir[For[r]])
    BY <1>2, <2>2, AtRest
  <2>4. lock' \subseteq lock \cup {r} /\ (r \in lock' => req'[r].op \in {"prepare", "purge"})
    BY <2>2 DEF DInv
  <2>5. /\ content' \in [Attachments -> Finished]
        /\ \A a \in Attachments : content'[a].file = "bad" => content[a].file = "bad"
    BY <1>1, <1>4, ContentOK
  <2>6. QED
    BY <1>4, <2>2, <2>3, <2>4, <2>5, EffectQuiet
<1>5. \/ Fail(r)
      \/ \E at \in {"commit", "remove"}, f \in File :
           /\ Keep(r, at) /\ UNCHANGED dir
           /\ content' = [content EXCEPT ![ContentOf[For[r]]].manifest = f]
  <2>1. CASE OpenContentManifest(r)
    BY <2>1 DEF OpenContentManifest, File
  <2>2. CASE FillContentManifest(r)
    <3>1. (IF content[ContentOf[For[r]]].manifest = "none" THEN content[ContentOf[For[r]]].manifest ELSE "whole") \in File
      BY DEF File
    <3>2. QED
      BY <2>2, <3>1 DEF FillContentManifest
  <2>3. QED
    BY <2>1, <2>2
<1>6. QED
  BY <1>3, <1>4, <1>5

LEMMA RemovedEffect ==
    ASSUME DInv, NEW r \in Requests, Removed(r)
    PROVE  Effect(r)
BY EffectFail DEF Removed

LEMMA DiscardContentEffect ==
    ASSUME DInv, NEW r \in Requests, DiscardContent(r)
    PROVE  Effect(r)
<1> DEFINE a == ContentOf[For[r]]
<1>1. /\ req[r].at = "forget" /\ Carried(r, req[r]) /\ a \in Attachments
      /\ content \in [Attachments -> Finished] /\ UNCHANGED <<dir, crossed>>
      /\ For[r] \notin crossed => WorksWith(For[r], req[r], dir[For[r]])
      /\ Links(req[r], dir[For[r]]) /\ DOMAIN req = Requests
      /\ (r \in lock => req[r].op \in {"prepare", "purge"})
  BY ForIs DEF DiscardContent, Serve, DInv
<1>2. /\ \A c \in {[content[a] EXCEPT !.file = "none"], [content[a] EXCEPT !.manifest = "none"]} :
           c \in Finished /\ (c.file = "bad" => content[a].file = "bad")
      /\ NoContent \in Finished /\ NoContent.file = "none"
  <2>1. "none" \in File /\ content[a] \in Finished
    BY <1>1 DEF File
  <2>2. NoContent \in Finished /\ NoContent.file = "none"
    BY DEF NoContent, Finished, File
  <2>3. QED
    BY <2>1, <2>2, ContentOK
<1>3. \E c \in Finished : /\ content' = [content EXCEPT ![a] = c]
                          /\ c.file = "bad" => content[a].file = "bad"
  BY <1>2 DEF DiscardContent
<1> HIDE DEF a
<1>4. /\ content' \in [Attachments -> Finished]
      /\ \A b \in Attachments : content'[b].file = "bad" => content[b].file = "bad"
  BY <1>1, <1>3
<1>5. CASE UNCHANGED <<req, lock>>
  <2>1. OthersSame(r) /\ Onward(r) /\ Carried(r, req'[r])
    BY <1>1, <1>5 DEF OthersSame, Onward
  <2>2. QED
    BY <1>1, <1>4, <1>5, <2>1, EffectQuiet
<1>6. CASE Answer(r)
  <2>1. /\ OthersSame(r) /\ Onward(r) /\ Carried(r, req'[r]) /\ lock' \subseteq lock /\ r \notin lock'
        /\ Links(req'[r], dir[For[r]]) /\ WorksWith(For[r], req'[r], dir[For[r]])
    BY <1>6, Answered
  <2>2. QED
    BY <1>1, <1>4, <2>1, EffectQuiet
<1>7. QED
  BY <1>5, <1>6 DEF DiscardContent

\* The other requests, when a file of their transfer is gone.
LEMMA Taken ==
    ASSUME DInv, NEW r \in Requests, NEW f,
           \A q \in Requests \ {r} : req'[q] = Without(r, f)[q],
           f # "manifest" => dir'[For[r]].manifest = dir[For[r]].manifest,
           f # "payload" => dir'[For[r]].held = dir[For[r]].held,
           f # "map" => dir'[For[r]].mapped = dir[For[r]].mapped,
           NEW q \in Requests \ {r}
    PROVE  /\ req'[q] = req[q] \/ (For[q] = For[r] /\ req'[q] = [req[q] EXCEPT !.linked = FALSE])
           /\ For[q] = For[r] => Links(req'[q], dir'[For[q]])
<1>1. Carried(q, req[q]) /\ Links(req[q], dir[For[q]])
  BY DEF DInv
<1>2. CASE q \in Others(r) /\ FileOf(q) = f
  <2>1. req'[q] = [req[q] EXCEPT !.linked = FALSE] /\ For[q] = For[r]
    BY <1>2 DEF Without, Others
  <2>2. ~req'[q].linked
    BY <1>1, <2>1 DEF Carried
  <2>3. QED
    BY <2>1, <2>2 DEF Links
<1>3. CASE ~(q \in Others(r) /\ FileOf(q) = f)
  <2>1. req'[q] = req[q]
    BY <1>3 DEF Without
  <2>2. CASE For[q] # For[r]
    BY <2>1, <2>2
  <2>3. CASE For[q] = For[r] /\ req[q].at \notin {"save", "migrate", "mark", "fill"}
    <3>1. ~req[q].linked
      BY <1>1, <2>3 DEF Carried
    <3>2. QED
      BY <2>1, <3>1 DEF Links
  <2>4. CASE For[q] = For[r] /\ req[q].at \in {"save", "migrate", "mark", "fill"}
    <3>1. q \in Others(r) /\ FileOf(q) # f
      BY <1>3, <2>4 DEF Others
    <3>2. /\ req[q].at = "save" => f # "manifest"
          /\ req[q].at \in {"migrate", "fill"} => f # "payload"
          /\ req[q].at = "mark" => f # "map"
      BY <2>4, <3>1 DEF FileOf
    <3>3. QED
      BY <1>1, <2>1, <2>4, <3>2 DEF Links
  <2>5. QED
    BY <2>2, <2>3, <2>4
<1>4. QED
  BY <1>2, <1>3

LEMMA RenameEffect ==
    ASSUME DInv, NEW r \in Requests, Rename(r)
    PROVE  Effect(r)
<1> DEFINE t == For[r]
           a == ContentOf[t]
           e == [dir[t] EXCEPT !.held = FALSE, !.payload = Empty(t)]
<1>1. t \in Transfers /\ Carried(r, req[r]) /\ (t \notin crossed => WorksWith(t, req[r], dir[t]))
      /\ a \in Attachments /\ content \in [Attachments -> Finished] /\ DOMAIN req = Requests
      /\ crossed \in SUBSET Transfers /\ (r \in lock => req[r].op \in {"prepare", "purge"})
  BY ForIs DEF DInv
<1>2. /\ DOMAIN dir = Transfers /\ dir[t] \in Directory(t) /\ (~dir[t].mapped => dir[t].map = {})
      /\ (dir[t].held => dir[t].there)
  BY <1>1, DirOf
<1>3. CASE Fail(r)
  BY <1>3, EffectFail
<1>4. CASE /\ dir[t].held
           /\ content' = [content EXCEPT ![a].file = IF Whole(t) THEN "whole" ELSE "bad"]
           /\ dir' = [dir EXCEPT ![t].held = FALSE, ![t].payload = Empty(t)]
           /\ req' = [Without(r, "payload") EXCEPT ![r].at = "publish"]
           /\ Takes(r) /\ UNCHANGED lock
  <2>1. req[r].at = "rename" /\ req[r].op = "finalize" /\ ~req[r].linked
    BY <1>1 DEF Rename, Serve, Carried
  <2>2. dir' = [dir EXCEPT ![t] = e] /\ dir'[t] = e
    BY <1>1, <1>2, <1>4
  <2>3. /\ e \in Directory(t) /\ e.there /\ e.manifest = dir[t].manifest /\ ~e.held
        /\ e.payload = Empty(t) /\ e.mapped = dir[t].mapped /\ e.map = dir[t].map
        /\ e.parts = dir[t].parts
    BY <1>2, <1>4 DEF Directory, Empty, Bytes
  <2> HIDE DEF e
  <2>4. DirOK(t)' /\ DOMAIN dir' = Transfers /\ \A u \in Transfers \ {t} : dir'[u] = dir[u]
    BY <1>2, <2>2, <2>3 DEF DirOK
  <2>5. /\ DOMAIN req' = Requests /\ \A q \in Requests \ {r} : req'[q] = Without(r, "payload")[q]
        /\ req'[r] = [req[r] EXCEPT !.at = "publish"]
    BY <1>1, <1>4 DEF Without, Others
  <2>6. crossed \subseteq crossed' /\ crossed' \subseteq crossed \cup {t} /\ (t \in crossed' \/ AtWork(r) = {})
    BY <1>4 DEF Takes
  <2>7. \A q \in Requests \ {r} :
          /\ req'[q] = req[q] \/ (For[q] = For[r] /\ req'[q] = [req[q] EXCEPT !.linked = FALSE])
          /\ For[q] = For[r] => Links(req'[q], dir'[For[q]])
    BY <2>2, <2>3, <2>5, Taken
  <2>8. Removal(r)
    BY <2>1, <2>2, <2>3, <2>6, <2>7 DEF Removal
  <2>9. /\ req'[r].op = req[r].op /\ req'[r].at = "publish" /\ req'[r].chunk = req[r].chunk
         /\ req'[r].data = req[r].data /\ req'[r].markers = req[r].markers /\ ~req'[r].linked
         /\ DOMAIN req'[r] = DOMAIN req[r]
    BY <1>1, <2>1, <2>5 DEF Carried
  <2>10. Onward(r) /\ Carried(r, req'[r])
    BY <1>1, <2>1, <2>9 DEF Onward, Carried, Steps
  <2>11. Links(req'[r], dir'[t]) /\ WorksWith(t, req'[r], dir'[t])
    BY <2>1, <2>9, AtRest
  <2>12. lock' \subseteq lock \cup {r} /\ (r \in lock' => req'[r].op \in {"prepare", "purge"})
    BY <1>1, <1>4, <2>9
  <2>13. /\ content' \in [Attachments -> Finished]
         /\ \A b \in Attachments : content'[b].file = "bad" =>
              content[b].file = "bad" \/ (b = a /\ ~Whole(t))
    <3>1. ASSUME NEW f \in {"whole", "bad"}
          PROVE  [content[a] EXCEPT !.file = f] \in Finished /\ [content[a] EXCEPT !.file = f].file = f
      BY <1>1 DEF Finished
    <3>2. content' = [content EXCEPT ![a] = [content[a] EXCEPT !.file = IF Whole(t) THEN "whole" ELSE "bad"]]
      BY <1>1, <1>4
    <3> HIDE DEF a, t
    <3>3. QED
      BY <1>1, <3>1, <3>2
  <2>14. ~Whole(t) => t \in crossed'
    BY <1>1, <1>4, <2>1, <2>6 DEF WorksWith, Whole
  <2>15. QED
    BY <2>4, <2>5, <2>8, <2>10, <2>11, <2>12, <2>13, <2>14 DEF Effect
<1>5. QED
  BY <1>3, <1>4 DEF Rename

\* A removal goes on.
LEMMA EffectRemoval ==
    ASSUME DInv, NEW r \in Requests, req[r].at = "remove", req'[r] = req[r],
           DOMAIN req' = Requests, Takes(r), UNCHANGED <<content, lock>>,
           NEW e \in Directory(For[r]), dir' = [dir EXCEPT ![For[r]] = e],
           ~e.there => e = NoDir(For[r]), ~e.mapped => e.map = {},
           e.parts \subseteq dir[For[r]].parts, e.map \subseteq dir[For[r]].map,
           \/ ~e.held \/ ~e.mapped
           \/ e.payload = dir[For[r]].payload /\ dir[For[r]].held /\ dir[For[r]].mapped,
           \A q \in Requests \ {r} :
             /\ req'[q] = req[q] \/ (For[q] = For[r] /\ req'[q] = [req[q] EXCEPT !.linked = FALSE])
             /\ For[q] = For[r] => Links(req'[q], e)
    PROVE  Effect(r)
<1> DEFINE t == For[r]
<1>1. /\ t \in Transfers /\ Carried(r, req[r]) /\ DOMAIN dir = Transfers
      /\ content \in [Attachments -> Finished] /\ (r \in lock => req[r].op \in {"prepare", "purge"})
  BY ForIs DEF DInv
<1>2. req[r].op # "write" /\ ~req[r].linked
  BY <1>1 DEF Carried
<1>3. DOMAIN dir' = Transfers /\ dir'[t] = e /\ \A u \in Transfers \ {t} : dir'[u] = dir[u]
  BY <1>1
<1>4. DirOK(t)'
  BY <1>3 DEF DirOK
<1>5. crossed \subseteq crossed' /\ crossed' \subseteq crossed \cup {t} /\ (t \in crossed' \/ AtWork(r) = {})
  BY DEF Takes
<1>6. Removal(r)
  BY <1>2, <1>3, <1>5 DEF Removal
<1>7. Onward(r)
  BY DEF Onward
<1>8. Links(req'[r], dir'[t]) /\ WorksWith(t, req'[r], dir'[t])
  BY <1>2, AtRest
<1>9. QED
  BY <1>1, <1>3, <1>4, <1>6, <1>7, <1>8 DEF Effect

LEMMA RemoveFileEffect ==
    ASSUME DInv, NEW r \in Requests, RemoveFile(r)
    PROVE  Effect(r)
<1> DEFINE t == For[r]
           d == dir[t]
<1>1. PICK f \in Files : dir' = [dir EXCEPT ![t] = Less(d, t, f)] /\ req' = Without(r, f)
  BY DEF RemoveFile
<1> DEFINE e == Less(d, t, f)
<1>2. /\ req[r].at = "remove" /\ d.there /\ Takes(r) /\ UNCHANGED <<content, lock>>
      /\ t \in Transfers /\ DOMAIN dir = Transfers /\ d \in Directory(t) /\ (~d.mapped => d.map = {})
  BY ForIs, DirOf DEF RemoveFile, Serve
<1>3. /\ e \in Directory(t) /\ e.there
      /\ f # "manifest" => e.manifest = d.manifest
      /\ f # "payload" => e.held = d.held /\ e.payload = d.payload
      /\ f = "payload" => ~e.held
      /\ f # "map" => e.mapped = d.mapped /\ e.map = d.map
      /\ f = "map" => ~e.mapped /\ e.map = {}
      /\ e.parts \subseteq d.parts
  <2>1. CASE f = "manifest"
    BY <1>2, <2>1 DEF Less, Directory, File
  <2>2. CASE f = "payload"
    BY <1>2, <2>2 DEF Less, Directory, Empty, Bytes
  <2>3. CASE f = "map"
    BY <1>2, <2>3 DEF Less, Directory
  <2>4. CASE f = "parts"
    BY <1>2, <2>4 DEF Less, Directory
  <2>5. QED
    BY <2>1, <2>2, <2>3, <2>4 DEF Files
<1>4. dir'[t] = e
  BY <1>1, <1>2
<1>5. req'[r] = req[r] /\ DOMAIN req' = Requests
  BY <1>1 DEF Without, Others
<1> HIDE DEF e
<1>6. \A q \in Requests \ {r} :
        /\ req'[q] = req[q] \/ (For[q] = For[r] /\ req'[q] = [req[q] EXCEPT !.linked = FALSE])
        /\ For[q] = For[r] => Links(req'[q], e)
  BY <1>1, <1>3, <1>4, Taken
<1>7. QED
  BY <1>1, <1>2, <1>3, <1>5, <1>6, EffectRemoval DEF e

LEMMA RemoveDirEffect ==
    ASSUME DInv, NEW r \in Requests, RemoveDir(r)
    PROVE  Effect(r)
<1> DEFINE t == For[r]
           d == dir[t]
<1>1. /\ req[r].at = "remove" /\ d.there /\ Takes(r) /\ UNCHANGED <<content, req, lock>>
      /\ t \in Transfers /\ d \in Directory(t) /\ (~d.mapped => d.map = {})
      /\ dir' = [dir EXCEPT ![t] = NoDir(t)]
      /\ \A f \in Files : Less(d, t, f) = d
  BY ForIs, DirOf DEF RemoveDir, Serve
<1>2. d.manifest = "none" /\ ~d.held /\ ~d.mapped
  <2>1. [d EXCEPT !.manifest = "none"] = d /\ [d EXCEPT !.held = FALSE, !.payload = Empty(t)] = d
        /\ [d EXCEPT !.mapped = FALSE, !.map = {}] = d
    <3>1. Less(d, t, "manifest") = d /\ Less(d, t, "payload") = d /\ Less(d, t, "map") = d
      BY <1>1 DEF Files
    <3>2. QED
      BY <3>1 DEF Less
  <2>2. QED
    BY <1>1, <2>1 DEF Directory
<1>3. /\ NoDir(t) \in Directory(t) /\ NoDir(t).map = {} /\ ~NoDir(t).held /\ ~NoDir(t).mapped
      /\ NoDir(t).parts = {}
  BY DEF NoDir, Directory, Empty, Bytes, File
<1>4. ASSUME NEW q \in Requests \ {r}, For[q] = t
      PROVE  Links(req'[q], NoDir(t))
  <2>1. Carried(q, req[q]) /\ Links(req[q], d)
    BY <1>4 DEF DInv
  <2>2. ~req[q].linked
    BY <1>2, <2>1 DEF Carried, Links
  <2>3. QED
    BY <1>1, <2>2 DEF Links
<1>5. DOMAIN req' = Requests
  BY <1>1 DEF DInv
<1>6. QED
  BY <1>1, <1>3, <1>4, <1>5, EffectRemoval

LEMMA EffectOf ==
    ASSUME DInv, NEW r \in Requests, Serves(r)
    PROVE  Effect(r)
BY TakeLockEffect, ScanAdmitEffect, MakeDirEffect, OpenManifestEffect, FillManifestEffect,
   ReadManifestEffect, CheckStorageEffect, SizePayloadEffect, MigratePartEffect, OpenMapEffect,
   FillMapEffect, WriteBytesEffect, FlushBytesEffect, MarkChunkEffect, CheckMapEffect,
   HashPayloadEffect, UnlinkEffect, RenameEffect, ContentManifestEffect, RemoveFileEffect,
   RemoveDirEffect, RemovedEffect, DiscardContentEffect
   DEF Serves

LEMMA SendStep ==
    ASSUME DInv, NEW r \in Requests, Sends(r)
    PROVE  DInv' /\ UNCHANGED <<dir, content, lock, crossed>>
<1> DEFINE t == For[r]
<1>1. PICK x :
        /\ req[r] = NoRequest /\ req' = [req EXCEPT ![r] = x]
        /\ UNCHANGED <<dir, content, lock, crossed>>
        /\ Carried(r, x) /\ x.op # "none" /\ x.at \in {"lock", "read", "remove", "forget"}
        /\ x.markers = {} /\ ~x.linked
        /\ t \notin crossed =>
             /\ x.op = "write" => MayWrite(r, x.chunk)
             /\ x.op = "finalize" => MayFinalize(r)
  <2>1. ASSUME NEW op \in Operations \ {"write"}, NEW at \in {"lock", "read", "remove", "forget"},
               Send(r, Request(op, at)), op = "finalize" => t \in crossed \/ MayFinalize(r)
        PROVE  \E x :
                 /\ req[r] = NoRequest /\ req' = [req EXCEPT ![r] = x]
                 /\ UNCHANGED <<dir, content, lock, crossed>>
                 /\ Carried(r, x) /\ x.op # "none" /\ x.at \in {"lock", "read", "remove", "forget"}
                 /\ x.markers = {} /\ ~x.linked
                 /\ t \notin crossed =>
                      /\ x.op = "write" => MayWrite(r, x.chunk)
                      /\ x.op = "finalize" => MayFinalize(r)
    <3> DEFINE x == Request(op, at)
    <3>1. /\ DOMAIN x = {"op", "at", "chunk", "data", "used", "markers", "linked"}
          /\ x.op = op /\ x.at = at /\ x.data = "good" /\ x.markers = {} /\ ~x.linked
      BY DEF Request, NoRequest
    <3> HIDE DEF x
    <3>2. Carried(r, x) /\ x.op # "none"
      BY <3>1 DEF Carried, Steps, Operations
    <3>3. req[r] = NoRequest /\ req' = [req EXCEPT ![r] = x] /\ UNCHANGED <<dir, content, lock, crossed>>
      BY <2>1 DEF Send, x
    <3>4. QED
      BY <2>1, <3>1, <3>2, <3>3
  <2>2. CASE SendChunk(r)
    <3>1. PICK i \in ChunksOf[t], v \in {"good", "wrong"} :
            /\ t \in crossed \/ MayWrite(r, i)
            /\ Send(r, [Request("write", "read") EXCEPT !.chunk = i, !.data = v])
      BY <2>2 DEF SendChunk
    <3> DEFINE x == [Request("write", "read") EXCEPT !.chunk = i, !.data = v]
    <3>2. /\ DOMAIN x = {"op", "at", "chunk", "data", "used", "markers", "linked"}
          /\ x.op = "write" /\ x.at = "read" /\ x.data = v /\ x.markers = {} /\ ~x.linked /\ x.chunk = i
      BY DEF Request, NoRequest
    <3> HIDE DEF x
    <3>3. Carried(r, x)
      BY <3>2 DEF Carried, Steps, Operations
    <3>4. req[r] = NoRequest /\ req' = [req EXCEPT ![r] = x] /\ UNCHANGED <<dir, content, lock, crossed>>
      BY <3>1 DEF Send, x
    <3>5. QED
      BY <3>1, <3>2, <3>3, <3>4
  <2>3. QED
    BY <2>1, <2>2
       DEF Sends, SendPrepare, SendMissing, SendFinalize, SendDiscard, SendPurge, SendForget, Operations
<1>2. t \in Transfers /\ DOMAIN req = Requests
  BY ForIs DEF DInv
<1>3. req'[r] = x /\ DOMAIN req' = Requests /\ \A q \in Requests \ {r} : req'[q] = req[q]
  BY <1>1, <1>2
<1>4. x.at \notin Inside
  BY <1>1 DEF Inside
<1>5. ASSUME t \notin crossed
      PROVE  WorksWith(t, x, dir[t])
  <2>1. x.op = "write" => dir[t].parts = {} /\ x.chunk \notin dir[t].map
    BY <1>1, <1>5 DEF MayWrite
  <2>2. x.at \notin {"migrate", "mark", "fill", "marker", "unlink", "rename"}
    BY <1>1
  <2>3. QED
    BY <1>1, <1>4, <2>1, <2>2 DEF WorksWith
<1>6. ASSUME NEW q \in Requests \ {r}, For[q] = t, t \notin crossed
      PROVE  Disjoint(req[q], x) /\ Disjoint(x, req[q])
  <2>1. Carried(q, req[q])
    BY DEF DInv
  <2>2. CASE req[q].op = "none"
    BY <1>1, <2>1, <2>2 DEF Disjoint, Carried
  <2>3. CASE req[q].op # "none"
    <3>1. q \in Others(r)
      BY <1>6, <2>1, <2>3 DEF Others, Carried
    <3>2. /\ x.op = "write" => /\ req[q].op # "finalize" /\ (req[q].op = "write" => req[q].chunk # x.chunk)
                               /\ x.chunk \notin req[q].markers
          /\ x.op = "finalize" => req[q].op # "write"
      BY <1>1, <1>6, <3>1 DEF MayWrite, MayFinalize
    <3>3. QED
      BY <1>1, <3>2 DEF Disjoint
  <2>4. QED
    BY <2>2, <2>3
<1>7. \A q \in Requests : Carried(q, req'[q]) /\ Links(req'[q], dir[For[q]]) /\ (q \in lock => req'[q].op \in {"prepare", "purge"})
  <2>1. r \notin lock
    BY <1>1 DEF DInv, NoRequest
  <2>2. Links(x, dir[t])
    BY <1>1 DEF Links
  <2>3. QED
    BY <1>1, <1>3, <2>1, <2>2 DEF DInv
<1>8. \A q \in Requests : For[q] \notin crossed => WorksWith(For[q], req'[q], dir[For[q]])
  BY <1>3, <1>5 DEF DInv
<1>9. \A p, q \in Requests : p # q /\ For[p] = For[q] /\ For[p] \notin crossed => Disjoint(req'[p], req'[q])
  BY <1>3, <1>6 DEF DInv
<1>10. /\ DOMAIN dir' = Transfers /\ lock' \in SUBSET Requests /\ crossed' \in SUBSET Transfers
       /\ content' \in [Attachments -> Finished] /\ dir' = dir /\ crossed' = crossed /\ lock' = lock
       /\ \A u \in Transfers : DirOK(u)'
       /\ \A a \in Attachments : content'[a].file = "bad" => \E u \in crossed' : ContentOf[u] = a
  BY <1>1 DEF DInv, DirOK
<1>11. DInv'
  BY <1>3, <1>7, <1>8, <1>9, <1>10 DEF DInv
<1>12. QED
  BY <1>1, <1>11

LEMMA NoDirOK ==
    ASSUME NEW t \in Transfers
    PROVE  NoDir(t) \in Directory(t) /\ NoDir(t).map = {}
BY DEF NoDir, Directory, Empty, File, Bytes

LEMMA NoRequestOK ==
    ASSUME NEW r \in Requests
    PROVE  /\ Carried(r, NoRequest) /\ NoRequest.op = "none" /\ NoRequest.markers = {}
           /\ \A t, d : Links(NoRequest, d) /\ WorksWith(t, NoRequest, d)
           /\ \A x : Disjoint(NoRequest, x)
<1>1. /\ NoRequest.op = "none" /\ NoRequest.at = "none" /\ NoRequest.markers = {}
      /\ NoRequest.data = "good" /\ ~NoRequest.linked
      /\ DOMAIN NoRequest = {"op", "at", "chunk", "data", "used", "markers", "linked"}
  BY DEF NoRequest
<1>2. Carried(r, NoRequest)
  BY <1>1 DEF Carried, Steps
<1>3. ASSUME NEW t, NEW d
      PROVE  Links(NoRequest, d) /\ WorksWith(t, NoRequest, d)
  BY <1>1 DEF Links, WorksWith, Inside
<1>4. ASSUME NEW x
      PROVE  Disjoint(NoRequest, x)
  BY <1>1 DEF Disjoint
<1>5. QED
  BY <1>1, <1>2, <1>3, <1>4

LEMMA CleanupStep ==
    ASSUME DInv, NEW t \in Transfers, CleanupStale(t)
    PROVE  DInv'
<1>1. /\ dir' = [dir EXCEPT ![t] = NoDir(t)] /\ UNCHANGED <<content, req, lock, crossed>>
      /\ \A r \in Requests : For[r] = t => req[r] = NoRequest
      /\ DOMAIN dir = Transfers
  BY DEF CleanupStale, DInv
<1>2. DOMAIN dir' = Transfers /\ dir'[t] = NoDir(t) /\ \A u \in Transfers \ {t} : dir'[u] = dir[u]
  BY <1>1
<1>3. \A u \in Transfers : DirOK(u)'
  BY <1>2, NoDirOK DEF DInv, DirOK
<1>4. ASSUME NEW r \in Requests
      PROVE  Links(req[r], dir'[For[r]]) /\ (For[r] \notin crossed => WorksWith(For[r], req[r], dir'[For[r]]))
  <2>1. CASE For[r] = t
    BY <1>1, <2>1, NoRequestOK
  <2>2. CASE For[r] # t
    BY <1>2, <2>2, ForIs DEF DInv
  <2>3. QED
    BY <2>1, <2>2
<1>5. QED
  BY <1>1, <1>2, <1>3, <1>4 DEF DInv

LEMMA DropStep ==
    ASSUME DInv, Drop
    PROVE  DInv'
<1>1. req' = [r \in Requests |-> NoRequest] /\ lock' = {} /\ UNCHANGED <<dir, content, crossed>>
  BY DEF Drop
<1>2. \A u \in Transfers : DirOK(u)'
  BY <1>1 DEF DInv, DirOK
<1>3. \A r \in Requests :
        /\ Carried(r, req'[r]) /\ Links(req'[r], dir'[For[r]])
        /\ WorksWith(For[r], req'[r], dir'[For[r]])
        /\ \A q \in Requests : Disjoint(req'[r], req'[q])
  BY <1>1, NoRequestOK
<1>4. QED
  BY <1>1, <1>2, <1>3 DEF DInv

LEMMA DiskFrame ==
    ASSUME DInv, UNCHANGED disk
    PROVE  DInv'
<1>1. UNCHANGED <<dir, content, req, lock, crossed>>
  BY DEF disk
<1>2. QED
  BY <1>1 DEF DInv, DirOK

LEMMA DiskStarts == AttachmentDiskInit => DInv
<1> SUFFICES ASSUME AttachmentDiskInit
             PROVE  DInv
  OBVIOUS
<1>1. ASSUME NEW t \in Transfers
      PROVE  DirOK(t)
  <2>1. NoDir(t) \in Directory(t) /\ NoDir(t).map = {} /\ ~NoDir(t).mapped /\ dir[t] = FirstDir(t)
    BY NoDirOK DEF AttachmentDiskInit, NoDir
  <2>2. Legacy[t] \in SUBSET ChunksOf[t]
    BY AttachmentDiskAssumption
  <2>3. CASE Legacy[t] = {}
    BY <2>1, <2>3 DEF DirOK, FirstDir
  <2>4. CASE Legacy[t] # {}
    <3> DEFINE d == [NoDir(t) EXCEPT !.there = TRUE, !.manifest = "whole", !.parts = Legacy[t]]
    <3>1. d \in Directory(t) /\ d.there /\ d.map = {}
      BY <2>1, <2>2 DEF Directory, File
    <3>2. dir[t] = d
      BY <2>1, <2>4 DEF FirstDir
    <3> HIDE DEF d
    <3>3. QED
      BY <3>1, <3>2 DEF DirOK
  <2>5. QED
    BY <2>3, <2>4
<1>2. \A r \in Requests :
        /\ Carried(r, req[r]) /\ Links(req[r], dir[For[r]])
        /\ WorksWith(For[r], req[r], dir[For[r]])
        /\ \A q \in Requests : Disjoint(req[r], req[q])
  BY NoRequestOK DEF AttachmentDiskInit
<1>3. NoContent \in Finished /\ NoContent.file = "none"
  BY DEF NoContent, Finished, File
<1>4. QED
  BY <1>1, <1>2, <1>3 DEF AttachmentDiskInit, DInv

LEMMA DiskStep ==
    ASSUME DInv, [Next]_vars
    PROVE  DInv'
<1>1. CASE Electron /\ UNCHANGED disk
  BY <1>1, DiskFrame
<1>2. CASE \E c \in Children : ChildEnds(c)
  BY <1>2, DiskFrame, DropStep DEF ChildEnds
<1>3. CASE \E r \in Requests : Client(r) \/ Backend(r)
  BY <1>3, SendStep, EffectOf, EffectStep DEF Client, Backend
<1>4. CASE \E t \in Transfers : Cleanup(t)
  BY <1>4, CleanupStep DEF Cleanup
<1>5. CASE UNCHANGED vars
  BY <1>5, DiskFrame DEF vars
<1>6. QED
  BY <1>1, <1>2, <1>3, <1>4, <1>5 DEF Next

\* Whatever was interrupted, a finished attachment that can be opened holds the whole
\* file, unless a removal took the files of its transfer from a request at work: from
\* the hash check to the rename no other request writes to the payload.
THEOREM WholeContents == Spec => []ContentIsWhole
<1>1. Init => DInv
  BY DiskStarts DEF Init
<1>2. DInv /\ [Next]_vars => DInv'
  BY DiskStep
<1>3. DInv => ContentIsWhole
  BY DEF DInv, Finished, ContentIsWhole
<1>4. QED
  BY <1>1, <1>2, <1>3, PTL DEF Spec

\* However starts, timeouts, crashes and stops of the backend overlap, until the
\* application quits a backend that lives is the current one or was told to end, and
\* the configuration that windows are given belongs to the current one.
THEOREM BackendIsAttended == Spec => []BackendAttended
<1>1. Init => SInv /\ DInv
  BY SupervisorStarts, DiskStarts DEF Init
<1>2. SInv /\ DInv /\ [Next]_vars => (SInv /\ DInv)'
  BY SupervisorStep, DiskStep
<1>3. DInv => AttachmentDiskTypeOK
  BY DEF DInv, DirOK, Carried, AttachmentDiskTypeOK
<1>4. SInv /\ DInv => BackendAttended
  BY <1>3 DEF SInv, BackendAttended, TypeOK
<1>5. QED
  BY <1>1, <1>2, <1>4, PTL DEF Spec

----------------------------------------------------------------------------
(* The map of chunks.                                                      *)

\* A chunk that is being written is not marked until all its bytes are, a map written
\* anew marks the parts that were moved, and a removal takes whole files.
LEMMA MarksOfEffect ==
    ASSUME DInv, NEW r \in Requests, Effect(r), For[r] \notin crossed
    PROVE  SizePayload(r) \/ Unbacked(For[r])' \subseteq Unbacked(For[r])
<1> DEFINE t == For[r]
           d == dir[t]
           e == dir'[t]
<1>1. SUFFICES ASSUME ~SizePayload(r), NEW i \in Unbacked(t)'
               PROVE  i \in Unbacked(t)
  OBVIOUS
<1>2. /\ i \in e.map /\ e.held /\ e.mapped /\ e.payload[i] \in {"zero", "torn"} /\ i \in ChunksOf[t]
      /\ WorksWith(t, req[r], d)
  BY DEF Unbacked, Effect, DirOK, Directory, DInv
<1>3. CASE Removal(r)
  BY <1>2, <1>3 DEF Removal, Unbacked
<1>4. CASE Kind(r, d, e)
  <2>1. d.held /\ d.mapped
    BY <1>1, <1>2, <1>4 DEF Kind
  <2>2. i \in d.map
    <3>1. i \in req[r].markers /\ e.payload[i] = "good" => FALSE
      BY <1>2
    <3>2. e.payload[i] \notin {"good", "wrong"}
      BY <1>2
    <3>3. QED
      BY <1>2, <1>4, <3>1, <3>2 DEF Kind
  <2>3. ~(req[r].op = "write" /\ req[r].chunk = i)
    BY <1>2, <2>2 DEF WorksWith
  <2>4. e.payload[i] = d.payload[i]
    BY <1>2, <1>4, <2>3 DEF Kind
  <2>5. QED
    BY <1>2, <2>1, <2>2, <2>4 DEF Unbacked
<1>5. QED
  BY <1>3, <1>4 DEF Effect, Ordinary

LEMMA MarksStep ==
    ASSUME DInv, [Next]_vars, NEW t \in Transfers \ crossed
    PROVE  (\E r \in Requests : For[r] = t /\ SizePayload(r)) \/ Unbacked(t)' \subseteq Unbacked(t)
<1>1. dir'[t] = dir[t] => Unbacked(t)' \subseteq Unbacked(t)
  BY DEF Unbacked
<1>2. ASSUME NEW r \in Requests, Backend(r)
      PROVE  (\E q \in Requests : For[q] = t /\ SizePayload(q)) \/ Unbacked(t)' \subseteq Unbacked(t)
  <2>1. Effect(r)
    BY <1>2, EffectOf DEF Backend
  <2>2. CASE For[r] = t
    BY <2>1, <2>2, MarksOfEffect
  <2>3. CASE For[r] # t
    BY <1>1, <2>1, <2>3 DEF Effect
  <2>4. QED
    BY <2>2, <2>3
<1>3. ASSUME NEW u \in Transfers, Cleanup(u)
      PROVE  Unbacked(t)' \subseteq Unbacked(t)
  <2>1. CASE u = t
    <3>1. dir'[t] = NoDir(t)
      BY <1>3, <2>1 DEF Cleanup, CleanupStale, DInv
    <3>2. dir'[t].map = {}
      BY <3>1, NoDirOK
    <3>3. QED
      BY <3>2 DEF Unbacked
  <2>2. CASE u # t
    <3>1. dir'[t] = dir[t]
      BY <1>3, <2>2 DEF Cleanup, CleanupStale, DInv
    <3>2. QED
      BY <1>1, <3>1
  <2>3. QED
    BY <2>1, <2>2
<1>4. CASE \E r \in Requests : Client(r)
  BY <1>1, <1>4, SendStep DEF Client
<1>5. CASE (Electron /\ UNCHANGED disk) \/ (\E c \in Children : ChildEnds(c)) \/ UNCHANGED vars
  BY <1>1, <1>5 DEF ChildEnds, Drop, disk, vars
<1>6. QED
  BY <1>2, <1>3, <1>4, <1>5 DEF Next

\* As long as no removal has taken the files of a transfer from a request at work on
\* them, crashes, removals, migrations and writes of chunks, however they interleave,
\* add no marker over bytes that were not written; only a payload sized beside an old
\* map may.
THEOREM MarkedChunksHaveArrived == Spec => MarkedChunksArrived
<1>1. Init => DInv
  BY DiskStarts DEF Init
<1>2. DInv /\ [Next]_vars =>
        /\ DInv'
        /\ [\A t \in Transfers \ crossed :
              (\E r \in Requests : For[r] = t /\ SizePayload(r)) \/ Unbacked(t)' \subseteq Unbacked(t)]_disk
  BY DiskStep, MarksStep
<1>3. QED
  BY <1>1, <1>2, PTL DEF Spec, MarkedChunksArrived

----------------------------------------------------------------------------
(* The sum of a function over a finite set.                                *)

Pick(s) == CHOOSE x \in s : TRUE

\* What the sum of a set of arguments is made of, and the function that gives it.
Adds(f, it, s) == it[s] = IF s = {} THEN 0 ELSE f[Pick(s)] + it[s \ {Pick(s)}]

Sums(f, D, it) == it = [s \in SUBSET D |-> IF s = {} THEN 0 ELSE f[Pick(s)] + it[s \ {Pick(s)}]]

LEMMA Least ==
    ASSUME NEW S \in SUBSET Nat, S # {}
    PROVE  \E x \in S : \A y \in S : x <= y
<1> DEFINE R == {ss \in Nat \X Nat : ss[1] < ss[2]}
<1>1. OpToRel(<, Nat) = R
  BY DEF OpToRel
<1>2. IsWellFoundedOn(R, Nat)
  BY <1>1, NatLessThanWellFounded
<1>3. PICK x \in S : \A y \in S : <<y, x>> \notin R
  BY <1>2, WFMin
<1>4. ASSUME NEW y \in S PROVE x <= y
  <2>1. x \in Nat /\ y \in Nat
    OBVIOUS
  <2>2. ~(y < x)
    BY <1>3, <2>1
  <2> QED
    BY <2>1, <2>2
<1> QED
  BY <1>4

\* A set without the element that is taken first.
LEMMA Smaller ==
    ASSUME NEW D, IsFiniteSet(D), NEW s \in SUBSET D, s # {}
    PROVE  /\ Pick(s) \in s /\ Pick(s) \in D /\ s \ {Pick(s)} \in SUBSET D
           /\ Cardinality(s) \in Nat /\ Cardinality(s \ {Pick(s)}) \in Nat
           /\ Cardinality(s \ {Pick(s)}) = Cardinality(s) - 1
<1>1. Pick(s) \in s
  BY DEF Pick
<1>2. IsFiniteSet(s)
  BY FS_Subset
<1>3. Cardinality(s) \in Nat /\ IsFiniteSet(s \ {Pick(s)})
  BY <1>2, FS_CardinalityType, FS_RemoveElement
<1>4. QED
  BY <1>1, <1>2, <1>3, FS_RemoveElement, FS_CardinalityType

LEMMA SumExists ==
    ASSUME NEW D, IsFiniteSet(D), NEW f \in [D -> Nat]
    PROVE  \E it : Sums(f, D, it)
<1> DEFINE Upto(n) == {s \in SUBSET D : Cardinality(s) <= n}
           Good(n) == \E g \in [Upto(n) -> Nat] : \A s \in Upto(n) : Adds(f, g, s)
           Bad == {n \in Nat : ~Good(n)}
<1>1. \A s \in SUBSET D : IsFiniteSet(s) /\ Cardinality(s) \in Nat /\ (Cardinality(s) = 0 <=> s = {})
  BY FS_Subset, FS_CardinalityType, FS_EmptySet
<1>2. Good(0)
  <2> DEFINE g == [s \in Upto(0) |-> 0]
  <2>1. \A s \in Upto(0) : s = {}
    BY <1>1
  <2>2. g \in [Upto(0) -> Nat] /\ \A s \in Upto(0) : Adds(f, g, s)
    BY <2>1 DEF Adds
  <2>3. QED
    BY <2>2
<1>3. ASSUME NEW m \in Nat, m # 0, Good(m - 1)
      PROVE  Good(m)
  <2>1. PICK g \in [Upto(m - 1) -> Nat] : \A s \in Upto(m - 1) : Adds(f, g, s)
    BY <1>3
  <2> DEFINE h == [s \in Upto(m) |-> IF s = {} THEN 0 ELSE f[Pick(s)] + g[s \ {Pick(s)}]]
  <2>2. ASSUME NEW s \in Upto(m), s # {}
        PROVE  Pick(s) \in D /\ s \ {Pick(s)} \in Upto(m - 1) /\ s \ {Pick(s)} \in Upto(m)
    BY <2>2, Smaller
  <2>3. h \in [Upto(m) -> Nat]
    <3>1. ASSUME NEW s \in Upto(m)
          PROVE  (IF s = {} THEN 0 ELSE f[Pick(s)] + g[s \ {Pick(s)}]) \in Nat
      BY <2>2, <3>1
    <3>2. QED
      BY <3>1
  <2>4. ASSUME NEW r \in Upto(m - 1)
        PROVE  r \in Upto(m) /\ h[r] = g[r]
    <3>1. r \in Upto(m)
      BY <1>1
    <3>2. Adds(f, g, r)
      BY <2>1
    <3>3. QED
      BY <3>1, <3>2 DEF Adds
  <2>5. ASSUME NEW s \in Upto(m)
        PROVE  Adds(f, h, s)
    <3>1. CASE s = {}
      BY <3>1 DEF Adds
    <3>2. CASE s # {}
      <4>1. h[s \ {Pick(s)}] = g[s \ {Pick(s)}]
        BY <2>2, <2>4, <3>2
      <4>2. h[s] = f[Pick(s)] + g[s \ {Pick(s)}]
        BY <3>2
      <4>3. QED
        BY <3>2, <4>1, <4>2 DEF Adds
    <3>3. QED
      BY <3>1, <3>2
  <2> HIDE DEF h
  <2>6. QED
    BY <2>3, <2>5
<1>4. Bad = {}
  <2>1. SUFFICES ASSUME Bad # {}
                 PROVE  FALSE
    OBVIOUS
  <2>2. PICK m \in Bad : \A n \in Bad : m <= n
    <3>1. Bad \in SUBSET Nat
      OBVIOUS
    <3> HIDE DEF Bad
    <3>2. QED
      BY <2>1, <3>1, Least
  <2>3. m \in Nat /\ ~Good(m)
    OBVIOUS
  <2> HIDE DEF Good
  <2>4. m # 0
    BY <1>2, <2>3
  <2>5. m - 1 \in Nat /\ ~(m <= m - 1)
    BY <2>3, <2>4
  <2>6. Good(m - 1)
    BY <2>2, <2>5
  <2>7. QED
    BY <1>3, <2>3, <2>4, <2>6
<1>5. Cardinality(D) \in Nat /\ \A s \in SUBSET D : Cardinality(s) <= Cardinality(D)
  BY FS_Subset, FS_CardinalityType
<1>6. Upto(Cardinality(D)) = SUBSET D
  BY <1>5
<1>7. PICK g \in [SUBSET D -> Nat] : \A s \in SUBSET D : Adds(f, g, s)
  <2>1. Good(Cardinality(D))
    <3> HIDE DEF Good
    <3>1. QED
      BY <1>4, <1>5
  <2> HIDE DEF Upto
  <2>2. QED
    BY <1>6, <2>1
<1>8. Sums(f, D, g)
  <2>1. g = [s \in SUBSET D |-> g[s]]
    OBVIOUS
  <2>2. \A s \in SUBSET D : g[s] = IF s = {} THEN 0 ELSE f[Pick(s)] + g[s \ {Pick(s)}]
    BY <1>7 DEF Adds
  <2>3. QED
    BY <2>1, <2>2 DEF Sums
<1>9. QED
  BY <1>8

LEMMA SumIs ==
    ASSUME NEW D, IsFiniteSet(D), NEW f \in [D -> Nat]
    PROVE  \E it : Sums(f, D, it) /\ SumFunction(f) = it[D]
<1> DEFINE Iter == CHOOSE it : it = [s \in SUBSET D |-> IF s = {} THEN 0 ELSE f[Pick(s)] + it[s \ {Pick(s)}]]
<1>1. DOMAIN f = D
  OBVIOUS
<1>2. SumFunction(f) = Iter[D]
  BY <1>1 DEF SumFunction, SumFunctionOnSet, FoldFunctionOnSet, MapThenFoldSet, Pick
<1>3. Iter = CHOOSE it : Sums(f, D, it)
  BY DEF Sums
<1> HIDE DEF Iter
<1>4. Sums(f, D, Iter)
  BY <1>3, SumExists
<1>5. QED
  BY <1>2, <1>4

\* A function that is nowhere above another but, by n, at one argument has a sum
\* that is above by n at most.
LEMMA SumAtMost ==
    ASSUME NEW D, IsFiniteSet(D), NEW f \in [D -> Nat], NEW g \in [D -> Nat], NEW t, NEW n \in Nat,
           \A u \in D : g[u] <= f[u] + (IF u = t THEN n ELSE 0)
    PROVE  /\ SumFunction(f) \in Nat /\ SumFunction(g) \in Nat
           /\ SumFunction(g) <= SumFunction(f) + n
<1>1. PICK F : Sums(f, D, F) /\ SumFunction(f) = F[D]
  BY SumIs
<1>2. PICK G : Sums(g, D, G) /\ SumFunction(g) = G[D]
  BY SumIs
<1> DEFINE More(s) == IF t \in s THEN n ELSE 0
           Fine(s) == F[s] \in Nat /\ G[s] \in Nat /\ G[s] <= F[s] + More(s)
           Bad == {k \in Nat : \E s \in SUBSET D : Cardinality(s) = k /\ ~Fine(s)}
<1>3. ASSUME NEW s \in SUBSET D
      PROVE  Adds(f, F, s) /\ Adds(g, G, s)
  <2>1. F[s] = IF s = {} THEN 0 ELSE f[Pick(s)] + F[s \ {Pick(s)}]
    BY <1>1 DEF Sums
  <2>2. G[s] = IF s = {} THEN 0 ELSE g[Pick(s)] + G[s \ {Pick(s)}]
    BY <1>2 DEF Sums
  <2>3. QED
    BY <2>1, <2>2 DEF Adds
<1>4. ASSUME NEW s \in SUBSET D, s # {}, Fine(s \ {Pick(s)})
      PROVE  Fine(s)
  <2> DEFINE x == Pick(s)
             r == s \ {Pick(s)}
  <2>1. x \in s /\ x \in D /\ r \in SUBSET D /\ x \notin r
    BY <1>4, Smaller
  <2>2. F[s] = f[x] + F[r] /\ G[s] = g[x] + G[r]
    BY <1>3, <1>4 DEF Adds
  <2>3. f[x] \in Nat /\ g[x] \in Nat /\ g[x] <= f[x] + (IF x = t THEN n ELSE 0)
    BY <2>1
  <2>4. F[r] \in Nat /\ G[r] \in Nat /\ G[r] <= F[r] + More(r)
    BY <1>4
  <2>5. CASE x = t
    <3>1. t \in s /\ t \notin r
      BY <2>1, <2>5
    <3>2. g[x] <= f[x] + n /\ G[r] <= F[r]
      BY <2>3, <2>4, <2>5, <3>1
    <3> HIDE DEF x, r
    <3>3. QED
      BY <2>2, <2>3, <2>4, <3>1, <3>2
  <2>6. CASE x # t
    <3>1. (t \in s <=> t \in r) /\ g[x] <= f[x]
      BY <2>3, <2>6
    <3>2. More(s) = More(r) /\ More(r) \in Nat
      BY <3>1
    <3> HIDE DEF x, r, More
    <3>3. QED
      BY <2>2, <2>3, <2>4, <3>1, <3>2
  <2>7. QED
    BY <2>5, <2>6
<1>5. Fine({})
  <2>1. {} \in SUBSET D /\ More({}) = 0
    OBVIOUS
  <2>2. F[{}] = 0 /\ G[{}] = 0
    BY <1>3, <2>1 DEF Adds
  <2>3. QED
    BY <2>1, <2>2
<1>6. Bad = {}
  <2>1. SUFFICES ASSUME Bad # {}
                 PROVE  FALSE
    OBVIOUS
  <2>2. PICK m \in Bad : \A k \in Bad : m <= k
    <3>1. Bad \in SUBSET Nat
      OBVIOUS
    <3> HIDE DEF Bad
    <3>2. QED
      BY <2>1, <3>1, Least
  <2> HIDE DEF Fine
  <2>3. PICK s \in SUBSET D : Cardinality(s) = m /\ ~Fine(s)
    OBVIOUS
  <2>4. s # {}
    BY <1>5, <2>3
  <2>5. /\ s \ {Pick(s)} \in SUBSET D /\ m \in Nat /\ m - 1 \in Nat
        /\ Cardinality(s \ {Pick(s)}) = m - 1
    BY <2>3, <2>4, Smaller
  <2>6. m - 1 \notin Bad
    <3>1. ~(m <= m - 1)
      BY <2>5
    <3> HIDE DEF Bad
    <3>2. QED
      BY <2>2, <3>1
  <2>7. Fine(s \ {Pick(s)})
    BY <2>5, <2>6
  <2>8. QED
    BY <1>4, <2>3, <2>4, <2>7
<1>7. Fine(D)
  <2>1. Cardinality(D) \in Nat
    BY FS_CardinalityType
  <2> HIDE DEF Fine
  <2>2. QED
    BY <1>6, <2>1
<1>8. F[D] \in Nat /\ G[D] \in Nat /\ (G[D] <= F[D] + n \/ G[D] <= F[D])
  BY <1>7
<1>9. QED
  BY <1>1, <1>2, <1>8

----------------------------------------------------------------------------
(* The quota.                                                              *)

Sizes(T) == [t \in Transfers |-> IF t \in T THEN SizeOf[ContentOf[t]] ELSE 0]

Held == {t \in Transfers : Readable(t)}

\* What the older version left fits in the quota of this one.
LegacyFits == SumFunction(Sizes({t \in Transfers : Legacy[t] # {}})) <= Quota

Admitted(r) == req[r].at \in {"mkdir", "open", "save"}

\* Why reservations fit: one request at a time measures, is admitted and saves its
\* manifest, and what it was admitted with still fits when the manifest is whole.
FitInv ==
    /\ \A p, q \in lock : p = q
    /\ \A r \in Requests :
         /\ req[r].used \in Nat
         /\ req[r].at \in {"scan", "admit"} \/ Admitted(r) => r \in lock
         /\ Admitted(r) => SumFunction(Sizes(Held \cup {For[r]})) <= Quota
    /\ SumFunction(Sizes(Held)) <= Quota

LEMMA SizesAre ==
    ASSUME NEW T
    PROVE  Sizes(T) \in [Transfers -> Nat]
BY AttachmentDiskAssumption DEF Sizes

\* Fewer transfers take no more, and one more takes its size.
LEMMA SizesShrink ==
    ASSUME NEW S, NEW T, S \cap Transfers \subseteq T
    PROVE  /\ SumFunction(Sizes(S)) \in Nat /\ SumFunction(Sizes(T)) \in Nat
           /\ SumFunction(Sizes(S)) <= SumFunction(Sizes(T))
<1>1. Sizes(S) \in [Transfers -> Nat] /\ Sizes(T) \in [Transfers -> Nat] /\ IsFiniteSet(Transfers)
  BY SizesAre, AttachmentDiskAssumption
<1>2. \A u \in Transfers : Sizes(S)[u] <= Sizes(T)[u] + (IF u = 0 THEN 0 ELSE 0)
  BY AttachmentDiskAssumption DEF Sizes
<1>3. /\ SumFunction(Sizes(S)) \in Nat /\ SumFunction(Sizes(T)) \in Nat
      /\ SumFunction(Sizes(S)) <= SumFunction(Sizes(T)) + 0
  BY <1>1, <1>2, SumAtMost
<1>4. QED
  BY <1>3

LEMMA ReservedFit ==
    ASSUME NEW t \in Transfers
    PROVE  /\ TransferUsage \in Nat /\ SumFunction(Sizes(Held \cup {t})) \in Nat
           /\ SumFunction(Sizes(Held \cup {t})) <= TransferUsage + SizeOf[ContentOf[t]]
<1> DEFINE f == [u \in Transfers |-> Reserved(u)]
           g == Sizes(Held \cup {t})
           n == SizeOf[ContentOf[t]]
<1>1. IsFiniteSet(Transfers) /\ n \in Nat /\ \A u \in Transfers : SizeOf[ContentOf[u]] \in Nat
  BY AttachmentDiskAssumption
<1>2. f \in [Transfers -> Nat] /\ g \in [Transfers -> Nat]
  BY <1>1, SizesAre DEF Reserved
<1>3. \A u \in Transfers : g[u] <= f[u] + (IF u = t THEN n ELSE 0)
  BY <1>1 DEF Sizes, Held, Reserved
<1> HIDE DEF f, g, n
<1>4. SumFunction(f) \in Nat /\ SumFunction(g) \in Nat /\ SumFunction(g) <= SumFunction(f) + n
  BY <1>1, <1>2, <1>3, SumAtMost
<1>5. QED
  BY <1>4 DEF f, g, n, TransferUsage

LEMMA ContentUsageIs == ContentUsage \in Nat
<1> DEFINE f == [a \in Attachments |-> IF content[a].file = "none" THEN 0 ELSE SizeOf[a]]
<1>1. IsFiniteSet(Attachments)
  <2>1. ContentOf \in Surjection(Transfers, Attachments)
    BY AttachmentDiskAssumption DEF Surjection, Attachments, Range
  <2>2. QED
    BY <2>1, AttachmentDiskAssumption, FS_Surjection
<1>2. f \in [Attachments -> Nat]
  BY AttachmentDiskAssumption
<1> HIDE DEF f
<1>3. SumFunction(f) \in Nat
  <2>1. \A a \in Attachments : f[a] <= f[a] + (IF a = 0 THEN 0 ELSE 0)
    BY <1>2
  <2>2. QED
    BY <1>1, <1>2, <2>1, SumAtMost
<1>4. QED
  BY <1>3 DEF f, ContentUsage

Fits(r) == req[r].used + TransferUsage + SizeOf[ContentOf[For[r]]] <= Quota

\* What a step of the request r does to the lock and to what its transfer reserves.
Reserves(r) ==
    /\ \/ lock' = lock
       \/ lock = {} /\ lock' = {r}
       \/ lock' = lock \ {r} /\ req'[r].at = "none"
    /\ Readable(For[r])' => Readable(For[r]) \/ req[r].at = "save"
    /\ req'[r].at \in {"scan", "admit"} \/ Admitted(r)' =>
         req[r].at \in {"scan", "admit"} \/ Admitted(r) \/ r \in lock'
    /\ Admitted(r)' => Admitted(r) \/ Readable(For[r]) \/ Fits(r)
    /\ req'[r].used \in Nat

\* The other requests and transfers, as far as reservations go.
OthersStay(r) ==
    /\ \A u \in Transfers \ {For[r]} : dir'[u] = dir[u]
    /\ \A q \in Requests \ {r} : req'[q].at = req[q].at /\ req'[q].used = req[q].used

LEMMA FitFromReserves ==
    ASSUME DInv, FitInv, NEW r \in Requests, Reserves(r), OthersStay(r)
    PROVE  FitInv'
<1> DEFINE t == For[r]
<1>1. /\ t \in Transfers /\ \A u \in Transfers \ {t} : Readable(u)' <=> Readable(u)
      /\ \A q \in Requests \ {r} : /\ Admitted(q)' <=> Admitted(q)
                                   /\ req'[q].at = req[q].at /\ (q \in lock => q \in lock')
  BY ForIs DEF Readable, Admitted, Reserves, OthersStay
<1>2. \A p, q \in lock' : p = q
  BY DEF Reserves, FitInv
<1>3. Held' \subseteq Held \cup {t}
  BY <1>1 DEF Held
<1>4. Admitted(r)' => SumFunction(Sizes(Held' \cup {t})) <= Quota
  <2>1. SUFFICES ASSUME Admitted(r)'
                 PROVE  SumFunction(Sizes(Held \cup {t})) <= Quota
    <3>1. /\ SumFunction(Sizes(Held' \cup {t})) \in Nat /\ SumFunction(Sizes(Held \cup {t})) \in Nat
          /\ SumFunction(Sizes(Held' \cup {t})) <= SumFunction(Sizes(Held \cup {t}))
      BY <1>3, SizesShrink
    <3>2. QED
      BY <2>1, <3>1, AttachmentDiskAssumption
  <2>2. CASE Admitted(r)
    BY <2>2 DEF FitInv
  <2>3. CASE Readable(t)
    <3>1. Held \cup {t} = Held
      BY <1>1, <2>3 DEF Held
    <3>2. QED
      BY <3>1 DEF FitInv
  <2>4. CASE Fits(r)
    <3>1. req[r].used \in Nat /\ SizeOf[ContentOf[t]] \in Nat /\ Quota \in Nat
      BY <1>1, AttachmentDiskAssumption DEF FitInv
    <3>2. QED
      BY <1>1, <2>4, <3>1, ReservedFit DEF Fits
  <2>5. QED
    BY <2>1, <2>2, <2>3, <2>4 DEF Reserves
<1>5. SumFunction(Sizes(Held')) <= Quota
  <2>1. CASE Admitted(r)
    <3>1. SumFunction(Sizes(Held \cup {t})) <= Quota
      BY <2>1 DEF FitInv
    <3>2. /\ SumFunction(Sizes(Held')) \in Nat /\ SumFunction(Sizes(Held \cup {t})) \in Nat
          /\ SumFunction(Sizes(Held')) <= SumFunction(Sizes(Held \cup {t}))
      BY <1>3, SizesShrink
    <3>3. QED
      BY <3>1, <3>2, AttachmentDiskAssumption
  <2>2. CASE ~Admitted(r)
    <3>1. Held' \subseteq Held
      BY <1>1, <2>2 DEF Held, Reserves, Admitted
    <3>2. /\ SumFunction(Sizes(Held')) \in Nat /\ SumFunction(Sizes(Held)) \in Nat
          /\ SumFunction(Sizes(Held')) <= SumFunction(Sizes(Held))
      BY <3>1, SizesShrink
    <3>3. QED
      BY <3>2, AttachmentDiskAssumption DEF FitInv
  <2>3. QED
    BY <2>1, <2>2
<1>6. ASSUME NEW q \in Requests \ {r}
      PROVE  /\ req'[q].used \in Nat
             /\ req'[q].at \in {"scan", "admit"} \/ Admitted(q)' => q \in lock'
             /\ Admitted(q)' => SumFunction(Sizes(Held' \cup {For[q]})) <= Quota
  <2>1. req'[q].used \in Nat
    BY DEF FitInv, OthersStay
  <2>2. req'[q].at \in {"scan", "admit"} \/ Admitted(q)' => q \in lock'
    BY <1>1 DEF FitInv
  <2>3. ASSUME Admitted(q)'
        PROVE  SumFunction(Sizes(Held' \cup {For[q]})) <= Quota
    <3>1. Admitted(q) /\ q \in lock /\ SumFunction(Sizes(Held \cup {For[q]})) <= Quota
      BY <1>1, <2>3 DEF FitInv
    <3>2. ~Admitted(r)
      BY <3>1 DEF FitInv
    <3>3. Held' \cup {For[q]} \subseteq Held \cup {For[q]}
      BY <1>1, <3>2 DEF Held, Reserves, Admitted
    <3>4. /\ SumFunction(Sizes(Held' \cup {For[q]})) \in Nat /\ SumFunction(Sizes(Held \cup {For[q]})) \in Nat
          /\ SumFunction(Sizes(Held' \cup {For[q]})) <= SumFunction(Sizes(Held \cup {For[q]}))
      BY <3>3, SizesShrink
    <3>5. QED
      BY <3>1, <3>4, AttachmentDiskAssumption
  <2>4. QED
    BY <2>1, <2>2, <2>3
<1>7. req'[r].at \in {"scan", "admit"} \/ Admitted(r)' => r \in lock'
  BY DEF Reserves, FitInv, Admitted
<1>8. req'[r].used \in Nat
  BY DEF Reserves
<1>9. QED
  BY <1>2, <1>4, <1>5, <1>6, <1>7, <1>8 DEF FitInv, Sizes

LEMMA GotoReserves ==
    ASSUME DInv, FitInv, NEW r \in Requests, NEW at, Goto(r, at) \/ Opens(r, at)
    PROVE  req'[r].at = at /\ req'[r].used \in Nat
<1>1. Carried(r, req[r]) /\ DOMAIN req = Requests
  BY DEF DInv
<1>2. req'[r].at = at /\ req'[r].used = req[r].used
  BY <1>1 DEF Goto, Opens, Carried
<1>3. QED
  BY <1>2 DEF FitInv

LEMMA AnswerReserves ==
    ASSUME DInv, NEW r \in Requests, Answer(r), Readable(For[r])' => Readable(For[r])
    PROVE  Reserves(r)
<1>1. req'[r] = NoRequest /\ lock' = lock \ {r}
  BY DEF Answer, DInv
<1>2. QED
  BY <1>1 DEF Reserves, Admitted, NoRequest

\* A step that keeps the lock and goes on to one that admits nothing.
LEMMA KeepReserves ==
    ASSUME DInv, FitInv, NEW r \in Requests, NEW at, Keep(r, at) \/ Opens(r, at),
           at \notin {"scan", "admit", "mkdir", "open", "save"},
           Readable(For[r])' => Readable(For[r]) \/ req[r].at = "save"
    PROVE  Reserves(r)
<1>1. lock' = lock /\ req'[r].at = at /\ req'[r].used \in Nat
  BY GotoReserves DEF Keep, Opens
<1>2. QED
  BY <1>1 DEF Reserves, Admitted

LEMMA ReservesOfPrepare ==
    ASSUME DInv, FitInv, NEW r \in Requests,
           \/ TakeLock(r) \/ ScanContent(r) \/ Admit(r) \/ MakeDir(r)
           \/ OpenManifest(r) \/ FillManifest(r)
    PROVE  Reserves(r)
<1> DEFINE t == For[r]
<1>1. /\ t \in Transfers /\ DOMAIN dir = Transfers /\ dir[t] \in Directory(t)
      /\ dir[t].manifest # "none" => dir[t].there
      /\ DOMAIN req = Requests /\ Carried(r, req[r])
  BY ForIs, DirOf DEF DInv
<1>2. CASE TakeLock(r)
  <2>1. dir' = dir /\ lock = {}
    BY <1>2 DEF TakeLock, MayLock
  <2>2. CASE Answer(r)
    BY <2>1, <2>2, AnswerReserves DEF Readable
  <2>3. ASSUME NEW at \in {"mkdir", "scan", "remove"}, Goto(r, at), lock' = lock \cup {r},
               at = "mkdir" => Readable(t)
        PROVE  Reserves(r)
    <3>1. req'[r].at = at /\ req'[r].used \in Nat /\ lock' = {r}
      BY <2>1, <2>3, GotoReserves
    <3>2. QED
      BY <2>1, <2>3, <3>1 DEF Reserves, Admitted, Readable
  <2>4. QED
    BY <1>2, <2>2, <2>3 DEF TakeLock
<1>3. CASE ScanContent(r)
  <2>1. req'[r] = [req[r] EXCEPT !.at = "admit", !.used = ContentUsage] /\ dir' = dir /\ lock' = lock
    BY <1>1, <1>3 DEF ScanContent
  <2>2. req'[r].at = "admit" /\ req'[r].used \in Nat
    BY <1>1, <2>1, ContentUsageIs DEF Carried
  <2>3. req[r].at = "scan"
    BY <1>3 DEF ScanContent, Serve
  <2>4. QED
    BY <2>1, <2>2, <2>3 DEF Reserves, Admitted, Readable
<1>4. CASE Admit(r)
  <2>1. dir' = dir /\ req[r].at = "admit"
    BY <1>4 DEF Admit, Serve
  <2>2. CASE Answer(r)
    BY <2>1, <2>2, AnswerReserves DEF Readable
  <2>3. CASE ~Answer(r)
    <3>1. /\ ~(req[r].used + TransferUsage + SizeOf[ContentOf[t]] > Quota) /\ lock' = lock
          /\ req' = [req EXCEPT ![r].at = "mkdir", ![r].used = 0]
      BY <1>4, <2>3 DEF Admit
    <3>2. req'[r].at = "mkdir" /\ req'[r].used = 0
      BY <1>1, <3>1 DEF Carried
    <3>3. Fits(r)
      <4>1. /\ req[r].used \in Nat /\ TransferUsage \in Nat /\ SizeOf[ContentOf[t]] \in Nat
            /\ Quota \in Nat
        BY <1>1, ReservedFit, AttachmentDiskAssumption DEF FitInv
      <4>2. QED
        BY <3>1, <4>1 DEF Fits
    <3>4. QED
      BY <2>1, <3>1, <3>2, <3>3 DEF Reserves, Admitted, Readable
  <2>4. QED
    BY <2>2, <2>3
<1>5. CASE MakeDir(r)
  <2>1. /\ dir'[t].manifest = dir[t].manifest /\ Goto(r, "open") /\ lock' = lock
        /\ req[r].at = "mkdir"
    BY <1>1, <1>5 DEF MakeDir, Directory, Keep, Serve
  <2>2. Readable(t)' => Readable(t)
    BY <1>1, <2>1 DEF Readable
  <2>3. req'[r].at = "open" /\ req'[r].used \in Nat
    BY <2>1, GotoReserves
  <2>4. QED
    BY <2>1, <2>2, <2>3 DEF Reserves, Admitted
<1>6. CASE OpenManifest(r)
  <2>1. CASE Fail(r)
    BY <2>1, AnswerReserves DEF Fail, Readable
  <2>2. CASE ~Fail(r)
    <3>1. /\ dir'[t].manifest = "torn" /\ Opens(r, "save") /\ lock' = lock /\ req[r].at = "open"
      BY <1>1, <1>6, <2>2 DEF OpenManifest, Directory, Opens, Serve
    <3>2. req'[r].at = "save" /\ req'[r].used \in Nat
      BY <3>1, GotoReserves
    <3>3. QED
      BY <3>1, <3>2 DEF Reserves, Admitted, Readable
  <2>3. QED
    BY <2>1, <2>2
<1>7. CASE FillManifest(r)
  <2>1. Keep(r, "storage") /\ req[r].at = "save"
    BY <1>7 DEF FillManifest, Serve
  <2>2. QED
    BY <2>1, KeepReserves
<1>8. QED
  BY <1>2, <1>3, <1>4, <1>5, <1>6, <1>7

LEMMA ReservesOfStorage ==
    ASSUME DInv, FitInv, NEW r \in Requests,
           \/ ReadManifest(r) \/ CheckStorage(r) \/ SizePayload(r) \/ MigratePart(r) \/ OpenMap(r)
           \/ FillMap(r) \/ WriteBytes(r) \/ FlushBytes(r) \/ MarkChunk(r)
    PROVE  Reserves(r)
<1> DEFINE t == For[r]
<1>1. /\ t \in Transfers /\ DOMAIN dir = Transfers /\ dir[t] \in Directory(t)
      /\ dir[t].manifest # "none" => dir[t].there
      /\ DOMAIN req = Requests /\ Carried(r, req[r])
  BY ForIs, DirOf DEF DInv
<1>2. Readable(t)' => Readable(t)
  <2>1. dir'[t].manifest = dir[t].manifest
    <3>1. CASE ReadManifest(r) \/ CheckStorage(r) \/ SizePayload(r)
      BY <1>1, <3>1 DEF ReadManifest, CheckStorage, SizePayload, Fail, Directory
    <3>2. CASE OpenMap(r)
      BY <1>1, <3>2 DEF OpenMap, Fail, Directory
    <3>3. CASE MigratePart(r)
      <4>1. PICK i \in dir[t].parts :
              dir' = [dir EXCEPT ![t].payload[i] = IF req[r].linked THEN "good" ELSE @,
                                 ![t].parts = @ \ {i}]
        BY <3>3 DEF MigratePart
      <4>2. QED
        BY <1>1, <4>1 DEF Directory
    <3>4. CASE FillMap(r) \/ WriteBytes(r) \/ FlushBytes(r) \/ MarkChunk(r)
      BY <1>1, <3>4 DEF FillMap, WriteBytes, FlushBytes, MarkChunk, Fail, Directory
    <3>5. QED
      BY <3>1, <3>2, <3>3, <3>4
  <2>2. QED
    BY <1>1, <2>1 DEF Readable
<1>3. CASE Answer(r)
  BY <1>2, <1>3, AnswerReserves
<1>4. CASE \E at \in {"storage", "size", "mark", "fill", "marker", "bytes", "check"} : Keep(r, at) \/ Opens(r, at)
  BY <1>2, <1>4, KeepReserves
<1>5. CASE /\ SizePayload(r) \/ MigratePart(r)
           /\ ~Answer(r)
  <2>1. lock' = lock /\ req'[r].at = "migrate" /\ req'[r].used = req[r].used
    <3>1. DOMAIN req[r] = {"op", "at", "chunk", "data", "used", "markers", "linked"}
      BY <1>1 DEF Carried
    <3>2. CASE SizePayload(r)
      BY <1>1, <1>5, <3>1, <3>2 DEF SizePayload, Fail
    <3>3. CASE MigratePart(r)
      <4>1. PICK i \in dir[t].parts : req' = [req EXCEPT ![r].markers = @ \cup {i}]
        BY <3>3 DEF MigratePart
      <4>2. req'[r] = [req[r] EXCEPT !.markers = req[r].markers \cup {i}]
        BY <1>1, <4>1
      <4>3. req[r].at = "migrate" /\ lock' = lock
        BY <3>3 DEF MigratePart, Serve
      <4>4. QED
        BY <3>1, <4>2, <4>3
    <3>4. QED
      BY <1>5, <3>2, <3>3
  <2>2. QED
    BY <1>2, <2>1 DEF Reserves, Admitted, FitInv
<1>6. QED
  BY <1>3, <1>4, <1>5
     DEF ReadManifest, CheckStorage, StorageReady, OpenMap, FillMap, WriteBytes, FlushBytes, MarkChunk, Fail

LEMMA ReservesOfRest ==
    ASSUME DInv, FitInv, NEW r \in Requests,
           \/ CheckMap(r) \/ HashPayload(r) \/ Unlink(r) \/ Rename(r)
           \/ OpenContentManifest(r) \/ FillContentManifest(r)
           \/ RemoveFile(r) \/ RemoveDir(r) \/ Removed(r) \/ DiscardContent(r)
    PROVE  Reserves(r)
<1> DEFINE t == For[r]
<1>1. /\ t \in Transfers /\ DOMAIN dir = Transfers /\ dir[t] \in Directory(t)
      /\ DOMAIN req = Requests /\ Carried(r, req[r])
  BY ForIs, DirOf DEF DInv
<1>2. CASE Answer(r) /\ dir' = dir
  BY <1>2, AnswerReserves DEF Readable
<1>3. CASE \E at \in {"hash", "unlink", "rename", "publish", "commit", "remove"} : Keep(r, at) /\ dir' = dir
  BY <1>3, KeepReserves DEF Readable
<1>4. CASE Rename(r) /\ ~Fail(r)
  <2>1. dir'[t].there = dir[t].there /\ dir'[t].manifest = dir[t].manifest /\ lock' = lock
    BY <1>1, <1>4 DEF Rename, Directory
  <2>2. req'[r] = [req[r] EXCEPT !.at = "publish"]
    BY <1>1, <1>4 DEF Rename, Without, Others
  <2>3. req'[r].at = "publish" /\ req'[r].used = req[r].used
    BY <1>1, <2>2 DEF Carried
  <2>4. QED
    BY <2>1, <2>3 DEF Reserves, Readable, Admitted, FitInv
<1>5. CASE (RemoveFile(r) \/ RemoveDir(r)) /\ req'[r] = req[r] /\ lock' = lock
  <2>1. dir'[t].manifest \in {dir[t].manifest, "none"} /\ dir[t].there
    <3>1. CASE RemoveFile(r)
      <4>1. PICK f \in Files : dir' = [dir EXCEPT ![t] = Less(dir[t], t, f)]
        BY <3>1 DEF RemoveFile
      <4>2. Less(dir[t], t, f).manifest \in {dir[t].manifest, "none"}
        BY <1>1 DEF Less, Files, Directory
      <4>3. QED
        BY <1>1, <3>1, <4>1, <4>2 DEF RemoveFile
    <3>2. CASE RemoveDir(r)
      <4>1. dir'[t] = NoDir(t) /\ dir[t].there
        BY <1>1, <3>2 DEF RemoveDir
      <4>2. QED
        BY <4>1 DEF NoDir
    <3>3. QED
      BY <1>5, <3>1, <3>2
  <2>2. Readable(t)' => Readable(t)
    BY <2>1 DEF Readable
  <2>3. QED
    BY <1>5, <2>2 DEF Reserves, Admitted, FitInv
<1>6. CASE DiscardContent(r) /\ UNCHANGED <<req, lock>>
  <2>1. dir' = dir
    BY <1>6 DEF DiscardContent
  <2>2. QED
    BY <1>6, <2>1 DEF Readable, Reserves, Admitted, FitInv
<1>7. CASE RemoveFile(r) \/ RemoveDir(r)
  <2>1. req'[r] = req[r] /\ lock' = lock
    BY <1>7 DEF RemoveFile, RemoveDir, Without, Others
  <2>2. QED
    BY <1>5, <1>7, <2>1
<1>8. CASE CheckMap(r) \/ HashPayload(r) \/ Unlink(r)
  BY <1>2, <1>3, <1>8 DEF CheckMap, HashPayload, Unlink, Fail
<1>9. CASE OpenContentManifest(r) \/ FillContentManifest(r)
  <2>1. \/ Answer(r) /\ dir' = dir
        \/ Keep(r, "commit") /\ dir' = dir
        \/ Keep(r, "remove") /\ dir' = dir
    BY <1>9 DEF OpenContentManifest, FillContentManifest, Fail
  <2>2. QED
    BY <1>2, <1>3, <2>1
<1>10. CASE Rename(r)
  <2>1. Fail(r) => Answer(r) /\ dir' = dir
    BY DEF Fail
  <2>2. QED
    BY <1>2, <1>4, <1>10, <2>1
<1>11. CASE Removed(r) \/ DiscardContent(r)
  BY <1>2, <1>6, <1>11 DEF Removed, DiscardContent, Fail
<1>12. QED
  BY <1>7, <1>8, <1>9, <1>10, <1>11

LEMMA ReservesOfSend ==
    ASSUME DInv, NEW r \in Requests, Sends(r)
    PROVE  Reserves(r) /\ OthersStay(r)
<1>1. dir' = dir /\ lock' = lock /\ DOMAIN req = Requests
  BY SendStep DEF DInv
<1>2. \E x : req' = [req EXCEPT ![r] = x] /\ x.at \in {"lock", "read", "remove", "forget"} /\ x.used = 0
  <2>1. \A op, at : Request(op, at).at = at /\ Request(op, at).used = 0
    BY DEF Request, NoRequest
  <2>2. CASE SendChunk(r)
    <3>1. PICK i, d : Send(r, [Request("write", "read") EXCEPT !.chunk = i, !.data = d])
      BY <2>2 DEF SendChunk
    <3> DEFINE q == [Request("write", "read") EXCEPT !.chunk = i, !.data = d]
    <3>2. q.at = "read" /\ q.used = 0
      BY DEF Request, NoRequest
    <3> HIDE DEF q
    <3>3. req' = [req EXCEPT ![r] = q]
      BY <3>1 DEF Send, q
    <3>4. QED
      BY <3>2, <3>3
  <2>3. CASE ~SendChunk(r)
    <3>1. \E op \in Operations, at \in {"lock", "read", "remove", "forget"} : Send(r, Request(op, at))
      BY <2>3 DEF Sends, SendPrepare, SendMissing, SendFinalize, SendDiscard, SendPurge, SendForget, Operations
    <3>2. PICK op \in Operations, at \in {"lock", "read", "remove", "forget"} : Send(r, Request(op, at))
      BY <3>1
    <3>3. Request(op, at).at = at /\ Request(op, at).used = 0
      BY <2>1
    <3>4. req' = [req EXCEPT ![r] = Request(op, at)]
      BY <3>2 DEF Send
    <3>5. QED
      BY <3>3, <3>4
  <2>4. QED
    BY <2>2, <2>3
<1>3. QED
  BY <1>1, <1>2 DEF Reserves, OthersStay, Readable, Admitted

LEMMA EffectStays ==
    ASSUME DInv, NEW r \in Requests, Effect(r)
    PROVE  OthersStay(r)
<1>1. ASSUME NEW q \in Requests \ {r}
      PROVE  req'[q].at = req[q].at /\ req'[q].used = req[q].used
  <2>1. req'[q] \in {req[q], [req[q] EXCEPT !.linked = FALSE]} /\ Carried(q, req[q])
    BY DEF Effect, Ordinary, Removal, DInv
  <2>2. QED
    BY <2>1 DEF Carried
<1>2. QED
  BY <1>1 DEF OthersStay, Effect

LEMMA FitStep ==
    ASSUME DInv, FitInv, [Next]_vars
    PROVE  FitInv'
<1>1. ASSUME dir' = dir, req' = req /\ lock' = lock
      PROVE  FitInv'
  BY <1>1 DEF FitInv, Admitted, Held, Readable, Sizes
<1>2. CASE Drop
  <2>1. lock' = {} /\ Held' = Held /\ \A r \in Requests : req'[r] = NoRequest
    BY <1>2 DEF Drop, Held, Readable
  <2>2. QED
    BY <2>1 DEF FitInv, Admitted, NoRequest, Sizes
<1>3. ASSUME NEW r \in Requests, Client(r) \/ Backend(r)
      PROVE  FitInv'
  <2>1. CASE Client(r)
    BY <2>1, ReservesOfSend, FitFromReserves DEF Client
  <2>2. CASE Backend(r)
    <3>1. Serves(r) /\ OthersStay(r)
      BY <2>2, EffectOf, EffectStays DEF Backend
    <3>2. QED
      BY <3>1, ReservesOfPrepare, ReservesOfStorage, ReservesOfRest, FitFromReserves DEF Serves
  <2>3. QED
    BY <1>3, <2>1, <2>2
<1>4. ASSUME NEW t \in Transfers, Cleanup(t)
      PROVE  FitInv'
  <2>1. dir' = [dir EXCEPT ![t] = NoDir(t)] /\ req' = req /\ lock' = lock /\ DOMAIN dir = Transfers
    BY <1>4 DEF Cleanup, CleanupStale, DInv
  <2>2. Held' \subseteq Held
    BY <2>1 DEF Held, Readable, NoDir
  <2>3. \A S : Held' \cup S \subseteq Held \cup S
    BY <2>2
  <2>4. \A S : /\ SumFunction(Sizes(Held' \cup S)) \in Nat /\ SumFunction(Sizes(Held \cup S)) \in Nat
               /\ SumFunction(Sizes(Held' \cup S)) <= SumFunction(Sizes(Held \cup S))
    <3>1. ASSUME NEW S
          PROVE  (Held' \cup S) \cap Transfers \subseteq Held \cup S
      BY <2>3
    <3>2. QED
      BY <3>1, SizesShrink
  <2>5. /\ SumFunction(Sizes(Held')) \in Nat /\ SumFunction(Sizes(Held)) \in Nat
        /\ SumFunction(Sizes(Held')) <= SumFunction(Sizes(Held))
    BY <2>2, SizesShrink
  <2>6. SumFunction(Sizes(Held')) <= Quota
    BY <2>5, AttachmentDiskAssumption DEF FitInv
  <2>7. ASSUME NEW r \in Requests, Admitted(r)
        PROVE  SumFunction(Sizes(Held' \cup {For[r]})) <= Quota
    <3>1. SumFunction(Sizes(Held \cup {For[r]})) <= Quota
      BY <2>7 DEF FitInv
    <3> DEFINE S == {For[r]}
    <3>2. /\ SumFunction(Sizes(Held' \cup S)) \in Nat /\ SumFunction(Sizes(Held \cup S)) \in Nat
          /\ SumFunction(Sizes(Held' \cup S)) <= SumFunction(Sizes(Held \cup S))
      BY <2>4
    <3>3. QED
      BY <3>1, <3>2, AttachmentDiskAssumption
  <2>8. \A r \in Requests : Admitted(r)' <=> Admitted(r)
    BY <2>1 DEF Admitted
  <2>9. QED
    BY <2>1, <2>6, <2>7, <2>8 DEF FitInv, Sizes
<1>5. CASE Electron /\ UNCHANGED disk
  BY <1>1, <1>5 DEF disk
<1>6. CASE \E c \in Children : ChildEnds(c)
  BY <1>1, <1>2, <1>6 DEF ChildEnds, disk
<1>7. CASE UNCHANGED vars
  BY <1>1, <1>7 DEF vars, disk
<1>8. QED
  BY <1>3, <1>4, <1>5, <1>6, <1>7 DEF Next

\* If what an older version left fits, the reservations of all the transfers fit in the
\* quota, whatever is measured, admitted, resumed, interrupted or removed meanwhile.
THEOREM ReservationsStayWithinQuota ==
    ASSUME LegacyFits
    PROVE  Spec => []ReservationsFit
<1>1. Init => DInv /\ FitInv
  <2> SUFFICES ASSUME Init
               PROVE  DInv /\ FitInv
    OBVIOUS
  <2>1. \A r \in Requests : req[r] = NoRequest /\ lock = {}
    BY DEF Init, AttachmentDiskInit
  <2>2. Held \cap Transfers \subseteq {t \in Transfers : Legacy[t] # {}}
    BY DEF Init, AttachmentDiskInit, Held, Readable, FirstDir, NoDir
  <2>3. SumFunction(Sizes(Held)) <= Quota
    <3> DEFINE L == {t \in Transfers : Legacy[t] # {}}
    <3>1. SumFunction(Sizes(L)) <= Quota
      BY DEF LegacyFits
    <3> HIDE DEF L
    <3>2. /\ SumFunction(Sizes(Held)) \in Nat /\ SumFunction(Sizes(L)) \in Nat
          /\ SumFunction(Sizes(Held)) <= SumFunction(Sizes(L))
      BY <2>2, SizesShrink DEF L
    <3>3. QED
      BY <3>1, <3>2, AttachmentDiskAssumption
  <2>4. lock = {}
    BY DEF Init, AttachmentDiskInit
  <2>5. FitInv
    BY <2>1, <2>3, <2>4 DEF FitInv, Admitted, NoRequest
  <2>6. QED
    BY <2>5, DiskStarts DEF Init
<1>2. DInv /\ FitInv /\ [Next]_vars => (DInv /\ FitInv)'
  BY DiskStep, FitStep
<1>3. FitInv => ReservationsFit
  <2>1. Sizes(Held) = [t \in Transfers |-> IF Readable(t) THEN SizeOf[ContentOf[t]] ELSE 0]
    BY DEF Sizes, Held
  <2>2. QED
    BY <2>1 DEF FitInv, ReservationsFit
<1>4. QED
  BY <1>1, <1>2, <1>3, PTL DEF Spec

=============================================================================
