----------------------------- MODULE ImgManager -----------------------------
(***************************************************************************)
(* The image managers of one controller, one generation after the other,   *)
(* the image controllers each of them starts, and the image store in which *)
(* those keep a client for every image.  Reconcile starts generation g + 1 *)
(* after a Stop of generation g, or without one where it starts over after *)
(* an error (see FnCtrlr).  Pods, services and their watches belong to the *)
(* API server and the kubelet, which are external.                         *)
(***************************************************************************)
EXTENDS Integers, FiniteSets

CONSTANTS
  MaxGen,     \* bound: image managers are 1..MaxGen
  Image,      \* the images configurations name
  Pod,        \* pod names
  PodOf(_,_), \* PodOf(g, i): the pod name generation g computes for image i
  Phases,     \* the statuses the kubelet brings pods into
  MaxEvents,  \* bound: the kubelet waits while a watch has this many unread
  Faults      \* what goes wrong, see the ASSUME

ASSUME MaxGenAssumption    == MaxGen \in Nat \ {0}
ASSUME MaxEventsAssumption == MaxEvents \in Nat \ {0}
ASSUME PodOfAssumption     == \A g \in 1..MaxGen, i \in Image : PodOf(g, i) \in Pod
ASSUME PhasesAssumption    ==
  Phases \subseteq {"absent", "pending", "unready", "ready"}
ASSUME FaultsAssumption    ==
  Faults \subseteq {"digest",  \* the registry does not answer
                    "api",     \* a call to the API server fails
                    "close",   \* the API server closes a watch
                    "service", \* somebody deletes a service
                    "retry",   \* Reconcile starts over without a Stop
                    "dial"}    \* a client cannot be made

Gen  == 1..MaxGen
None == "none"

ASSUME NoneAssumption == None \notin Pod

VARIABLES
  (* the API server and the kubelet *)
  status,   \* status[p]: "absent", "pending" (not Running), "unready", "ready"
  service,  \* service[p]: the service exists
  (* the image store *)
  entries,  \* the images that have an entry
  client,   \* client[i]: the pod the client of image i talks to, or None
  (* the image managers *)
  cur,      \* the generation in r.fni; those before it are stopped
  toStart,  \* images the loop of Start has still to visit
  field,    \* field[g]: the field cancel of manager g is not nil
  ctxDone,  \* ctxDone[g]: the context of generation g is cancelled
  panicked, \* a goroutine called a nil function
  (* the image controllers *)
  pc,       \* pc[g][i]
  inLoop,   \* inLoop[g][i]: it is in the event loop of start
  seen,     \* seen[g][i]: what the Get of the applyPod under way returned
  lastOk,   \* lastOk[g][i]: the last applyPod had no error, ignored or not
  watch,    \* watch[g][i]: the two watches: "none", "open", "closed"
  podEv,    \* podEv[g][i], svcEv[g][i]: number of unread events
  svcEv

api   == <<status, service>>
store == <<entries, client>>
mgr   == <<cur, toStart, field, ctxDone, panicked>>
ctl   == <<pc, inLoop, seen, lastOk, watch, podEv, svcEv>>
vars  == <<api, store, mgr, ctl>>

Status == {"absent", "pending", "unready", "ready"}
PC     == {"off", "enter", "apply", "get", "unset", "set", "service", "open",
           "loop", "pause", "cancel", "ended"}

All(x) == [g \in Gen |-> [i \in Image |-> x]]

TypeOK ==
  /\ status \in [Pod -> Status] /\ service \in [Pod -> BOOLEAN]
  /\ entries \subseteq Image /\ client \in [Image -> Pod \cup {None}]
  /\ cur \in 0..MaxGen /\ toStart \subseteq Image
  /\ field \in [Gen -> BOOLEAN] /\ ctxDone \in [Gen -> BOOLEAN]
  /\ panicked \in BOOLEAN
  /\ pc \in [Gen -> [Image -> PC]]
  /\ inLoop \in [Gen -> [Image -> BOOLEAN]]
  /\ seen \in [Gen -> [Image -> Status \cup {"error"}]]
  /\ lastOk \in [Gen -> [Image -> BOOLEAN]]
  /\ watch \in [Gen -> [Image -> {"none", "open", "closed"}]]
  /\ podEv \in [Gen -> [Image -> Nat]] /\ svcEv \in [Gen -> [Image -> Nat]]

Init ==
  /\ status = [p \in Pod |-> "absent"] /\ service = [p \in Pod |-> FALSE]
  /\ entries = {} /\ client = [i \in Image |-> None]
  /\ cur = 0 /\ toStart = {}
  /\ field = [g \in Gen |-> FALSE] /\ ctxDone = [g \in Gen |-> FALSE]
  /\ panicked = FALSE
  /\ pc = All("off") /\ inLoop = All(FALSE) /\ seen = All("absent")
  /\ lastOk = All(FALSE) /\ watch = All("none")
  /\ podEv = All(0) /\ svcEv = All(0)

(***************************************************************************)
(* Pods and services                                                       *)
(***************************************************************************)
\* The watches of all generations that look at pod p get one more event.
Notified(ev, p) ==
  [g \in Gen |-> [i \in Image |->
    IF watch[g][i] = "open" /\ PodOf(g, i) = p THEN ev[g][i] + 1 ELSE ev[g][i]]]

Room(ev) == \A g \in Gen, i \in Image : ev[g][i] < MaxEvents

Kubelet(p) ==
  /\ Room(podEv)
  /\ status[p] # "absent"
  /\ \E s \in Phases \ {status[p]} : status' = [status EXCEPT ![p] = s]
  /\ podEv' = Notified(podEv, p)
  /\ UNCHANGED <<service, store, mgr, pc, inLoop, seen, lastOk, watch, svcEv>>

ServiceDeleted(p) ==
  /\ "service" \in Faults /\ Room(svcEv)
  /\ service[p]
  /\ service' = [service EXCEPT ![p] = FALSE]
  /\ svcEv' = Notified(svcEv, p)
  /\ UNCHANGED <<status, store, mgr, pc, inLoop, seen, lastOk, watch, podEv>>

ServerClosesWatch(g, i) ==
  /\ "close" \in Faults \/ ctxDone[g]
  /\ watch[g][i] = "open"
  /\ watch' = [watch EXCEPT ![g][i] = "closed"]
  /\ podEv' = [podEv EXCEPT ![g][i] = 0]
  /\ svcEv' = [svcEv EXCEPT ![g][i] = 0]
  /\ UNCHANGED <<api, store, mgr, pc, inLoop, seen, lastOk>>

(***************************************************************************)
(* imgmanager: New, Start, Stop                                            *)
(***************************************************************************)
\* New adds the images of the configuration to the store, Start takes all the
\* images the store has, those of former configurations included.
NewAndStart ==
  /\ cur < MaxGen /\ toStart = {}
  /\ cur > 0 => ~field[cur] \/ "retry" \in Faults
  /\ \E images \in SUBSET Image :
       /\ entries' = entries \cup images
       /\ toStart' = entries \cup images
  /\ cur' = cur + 1
  /\ field' = [field EXCEPT ![cur + 1] = TRUE]
  /\ UNCHANGED <<api, client, ctxDone, panicked, ctl>>

StartImage(i) ==
  /\ i \in toStart
  /\ toStart' = toStart \ {i}
  /\ pc' = [pc EXCEPT ![cur][i] = "enter"]
  /\ UNCHANGED <<api, store, cur, field, ctxDone, panicked,
                 inLoop, seen, lastOk, watch, podEv, svcEv>>

\* An image without a digest: Start returns, the images before it are started.
DigestFails ==
  /\ "digest" \in Faults
  /\ toStart # {} /\ toStart' = {}
  /\ UNCHANGED <<api, store, cur, field, ctxDone, panicked, ctl>>

\* Mutant: the field is cleared and the context left.
StopCancelsMutant ==
  /\ cur > 0 /\ toStart = {} /\ field[cur] /\ ~ctxDone[cur]
  /\ field' = [field EXCEPT ![cur] = FALSE]
  /\ UNCHANGED <<api, store, cur, toStart, ctxDone, panicked, ctl>>

\* Stop is two statements, and no lock is held over them.
StopCancels ==
  /\ cur > 0 /\ toStart = {} /\ field[cur] /\ ~ctxDone[cur]
  /\ ctxDone' = [ctxDone EXCEPT ![cur] = TRUE]
  /\ UNCHANGED <<api, store, cur, toStart, field, panicked, ctl>>

StopForgets ==
  /\ cur > 0 /\ field[cur] /\ ctxDone[cur]
  /\ field' = [field EXCEPT ![cur] = FALSE]
  /\ UNCHANGED <<api, store, cur, toStart, ctxDone, panicked, ctl>>

\* The goroutine of an image controller that returned calls r.cancel().
GoroutineEnds(g, i) ==
  /\ pc[g][i] = "cancel"
  /\ IF field[g] THEN ctxDone' = [ctxDone EXCEPT ![g] = TRUE] /\ UNCHANGED panicked
                 ELSE panicked' = TRUE /\ UNCHANGED ctxDone
  /\ pc' = [pc EXCEPT ![g][i] = "ended"]
  /\ UNCHANGED <<api, store, cur, toStart, field,
                 inLoop, seen, lastOk, watch, podEv, svcEv>>

(***************************************************************************)
(* imgcontroller: Start                                                    *)
(***************************************************************************)
Goto(g, i, from, to) == pc[g][i] = from /\ pc' = [pc EXCEPT ![g][i] = to]

ApiFails(g) == "api" \in Faults \/ ctxDone[g]

\* The select of Start, before its first INIT and after start returned nil.
Enter(g, i) ==
  /\ Goto(g, i, "enter", IF ctxDone[g] THEN "cancel" ELSE "apply")
  /\ UNCHANGED <<api, store, mgr, inLoop, seen, lastOk, watch, podEv, svcEv>>

\* After a pause Start goes to INIT, and does not look at ctx.Done.
Pause(g, i) ==
  /\ Goto(g, i, "pause", "apply")
  /\ UNCHANGED <<api, store, mgr, inLoop, seen, lastOk, watch, podEv, svcEv>>

\* Mutant: the service is taken for a part of the pod.
AfterPodMutant(g, i, ok) ==
  IF inLoop[g][i] THEN "loop" ELSE IF ok THEN "open" ELSE "pause"

\* applyPod returns: to the loop of start, which only logs an error, or to
\* INIT of Start, which goes on to the service or pauses.
AfterPod(g, i, ok) ==
  IF inLoop[g][i] THEN "loop" ELSE IF ok THEN "service" ELSE "pause"

ApplyPod(g, i) ==
  /\ LET p == PodOf(g, i)
     IN  \/ /\ ~ctxDone[g]
            /\ Goto(g, i, "apply", "get")
            /\ IF status[p] = "absent"
               THEN /\ status' = [status EXCEPT ![p] = "pending"]
                    /\ podEv' = Notified(podEv, p)
               ELSE UNCHANGED <<status, podEv>>
            /\ UNCHANGED lastOk
         \/ /\ ApiFails(g)
            /\ Goto(g, i, "apply", AfterPod(g, i, FALSE))
            /\ lastOk' = [lastOk EXCEPT ![g][i] = FALSE]
            /\ UNCHANGED <<status, podEv>>
  /\ UNCHANGED <<service, store, mgr, inLoop, seen, watch, svcEv>>

\* The conditions of a Running pod are visited in order: each one before
\* Ready = True removes the client, Ready = True sets it.
GetPod(g, i) ==
  /\ \E s \in Status \cup {"error"} :
       /\ s = "error" => ApiFails(g) \/ status[PodOf(g, i)] = "absent"
       /\ s # "error" => s = status[PodOf(g, i)] /\ s # "absent" /\ ~ctxDone[g]
       /\ seen' = [seen EXCEPT ![g][i] = s]
       /\ \/ Goto(g, i, "get", "unset")
          \/ s = "ready" /\ Goto(g, i, "get", "set")
  /\ UNCHANGED <<api, store, mgr, inLoop, lastOk, watch, podEv, svcEv>>

\* What follows a deleted client: the next condition, or the end of applyPod.
\* Mutant: only the first condition counts.
AfterConditionMutant(g, i, next) == next = AfterPod(g, i, seen[g][i] # "error")
AfterCondition(g, i, next) ==
  CASE seen[g][i] = "ready"   -> next \in {"unset", "set"}
    [] seen[g][i] = "unready" -> next \in {"unset", AfterPod(g, i, TRUE)}
    [] seen[g][i] = "pending" -> next = AfterPod(g, i, TRUE)
    [] OTHER                  -> next = AfterPod(g, i, FALSE)

\* Mutant: the client of a pod that is not ready is kept.
KeptClientMutant(g, i) == IF seen[g][i] = "unready" THEN client[i] ELSE None
KeptClient(g, i)       == None

DeleteClient(g, i) ==
  /\ \E next \in PC :
       AfterCondition(g, i, next) /\ Goto(g, i, "unset", next)
  /\ client' = [client EXCEPT ![i] = KeptClient(g, i)]
  /\ IF pc'[g][i] \in {"unset", "set"}
     THEN UNCHANGED <<seen, lastOk>>
     ELSE /\ lastOk' = [lastOk EXCEPT ![g][i] = seen[g][i] # "error"]
          /\ seen' = [seen EXCEPT ![g][i] = "absent"]
  /\ UNCHANGED <<api, entries, mgr, inLoop, watch, podEv, svcEv>>

\* applyPod does not look at the error of SetClient.
SetClient(g, i) ==
  /\ Goto(g, i, "set", AfterPod(g, i, TRUE))
  /\ \/ /\ client' = [client EXCEPT ![i] = PodOf(g, i)]
        /\ lastOk' = [lastOk EXCEPT ![g][i] = TRUE]
     \/ /\ "dial" \in Faults
        /\ lastOk' = [lastOk EXCEPT ![g][i] = FALSE] /\ UNCHANGED client
  /\ seen' = [seen EXCEPT ![g][i] = "absent"]
  /\ UNCHANGED <<api, entries, mgr, inLoop, watch, podEv, svcEv>>

ApplyService(g, i) ==
  /\ LET p == PodOf(g, i)
     IN  \/ /\ ~ctxDone[g]
            /\ Goto(g, i, "service", IF inLoop[g][i] THEN "loop" ELSE "open")
            /\ service' = [service EXCEPT ![p] = TRUE]
            /\ svcEv' = IF service[p] THEN svcEv ELSE Notified(svcEv, p)
         \/ /\ ApiFails(g)
            /\ Goto(g, i, "service", IF inLoop[g][i] THEN "loop" ELSE "pause")
            /\ UNCHANGED <<service, svcEv>>
  /\ UNCHANGED <<status, store, mgr, inLoop, seen, lastOk, watch, podEv>>

(***************************************************************************)
(* imgcontroller: start                                                    *)
(***************************************************************************)
\* Both watches begin with an ADDED event for what exists.
OpenWatches(g, i) ==
  /\ \/ /\ ~ctxDone[g]
        /\ Goto(g, i, "open", "loop")
        /\ inLoop' = [inLoop EXCEPT ![g][i] = TRUE]
        /\ watch' = [watch EXCEPT ![g][i] = "open"]
        /\ podEv' = [podEv EXCEPT ![g][i] =
                       IF status[PodOf(g, i)] = "absent" THEN 0 ELSE 1]
        /\ svcEv' = [svcEv EXCEPT ![g][i] = IF service[PodOf(g, i)] THEN 1 ELSE 0]
     \/ /\ ApiFails(g)
        /\ Goto(g, i, "open", "pause")
        /\ UNCHANGED <<inLoop, watch, podEv, svcEv>>
  /\ UNCHANGED <<api, store, mgr, seen, lastOk>>

PodEventReady(g, i) == podEv[g][i] > 0

PodEvent(g, i) ==
  /\ PodEventReady(g, i)
  /\ podEv' = [podEv EXCEPT ![g][i] = @ - 1]
  /\ Goto(g, i, "loop", "apply")
  /\ UNCHANGED <<api, store, mgr, inLoop, seen, lastOk, watch, svcEv>>

ServiceEvent(g, i) ==
  /\ svcEv[g][i] > 0
  /\ svcEv' = [svcEv EXCEPT ![g][i] = @ - 1]
  /\ Goto(g, i, "loop", "service")
  /\ UNCHANGED <<api, store, mgr, inLoop, seen, lastOk, watch, podEv>>

\* A closed watch is an error of start, a cancelled context is not.
LeaveLoop(g, i) ==
  /\ \/ watch[g][i] = "closed" /\ Goto(g, i, "loop", "pause")
     \/ ctxDone[g] /\ Goto(g, i, "loop", "enter")
  /\ inLoop' = [inLoop EXCEPT ![g][i] = FALSE]
  /\ lastOk' = [lastOk EXCEPT ![g][i] = FALSE]
  /\ watch' = [watch EXCEPT ![g][i] = "none"]
  /\ podEv' = [podEv EXCEPT ![g][i] = 0]
  /\ svcEv' = [svcEv EXCEPT ![g][i] = 0]
  /\ UNCHANGED <<api, store, mgr, seen>>

ImgController(g, i) ==
  \/ Enter(g, i) \/ Pause(g, i) \/ ApplyPod(g, i) \/ GetPod(g, i)
  \/ DeleteClient(g, i) \/ SetClient(g, i) \/ ApplyService(g, i)
  \/ OpenWatches(g, i) \/ PodEvent(g, i) \/ ServiceEvent(g, i)
  \/ LeaveLoop(g, i) \/ GoroutineEnds(g, i)

Next ==
  /\ ~panicked
  /\ \/ NewAndStart \/ DigestFails \/ StopCancels \/ StopForgets
     \/ \E i \in Image : StartImage(i)
     \/ \E g \in Gen, i \in Image : ImgController(g, i) \/ ServerClosesWatch(g, i)
     \/ \E p \in Pod : Kubelet(p) \/ ServiceDeleted(p)

Spec == Init /\ [][Next]_vars

(***************************************************************************)
(* Fairness: every goroutine is scheduled and the API server ends every    *)
(* watch sooner or later; where calls fail, a call that is tried over and  *)
(* over succeeds over and over.  A process that panicked owes nothing.     *)
(***************************************************************************)
Scheduling ==
  /\ WF_vars(~panicked /\ \E i \in Image : StartImage(i))
  /\ WF_vars(~panicked /\ StopForgets)
  /\ \A g \in Gen, i \in Image :
       /\ WF_vars(~panicked /\ ImgController(g, i))
       /\ WF_vars(~panicked /\ ServerClosesWatch(g, i))

Answers ==
  \A g \in Gen, i \in Image :
    /\ SF_vars(~panicked /\ ApplyPod(g, i) /\ pc[g][i]' = "get")
    /\ SF_vars(~panicked /\ GetPod(g, i) /\ seen[g][i]' # "error")
    /\ SF_vars(~panicked /\ ApplyService(g, i) /\ pc[g][i]' # "pause")
    /\ SF_vars(~panicked /\ OpenWatches(g, i) /\ pc[g][i]' = "loop")
    /\ SF_vars(~panicked /\ SetClient(g, i) /\ client[i]' = PodOf(g, i))

SchedSpec == Spec /\ Scheduling
FairSpec  == SchedSpec /\ Answers

(***************************************************************************)
(* Safety                                                                  *)
(***************************************************************************)
Quiet(g, i) ==
  /\ pc[g][i] = "loop" /\ watch[g][i] = "open" /\ podEv[g][i] = 0
  /\ lastOk[g][i] /\ ~ctxDone[g]

\* No other generation has started image i: nobody else writes its client.
Alone(g, i) == \A h \in Gen \ {g} : pc[h][i] = "off"

\* When the image controller of an image that only its generation serves has no
\* event unread after an applyPod without error, the store has a client for the
\* image exactly when the pod is ready (a pod deleted before the watch opened
\* aside).
ClientMatchesPod ==
  \A g \in Gen, i \in Image :
    Quiet(g, i) /\ Alone(g, i) /\ status[PodOf(g, i)] # "absent"
    => (client[i] # None <=> status[PodOf(g, i)] = "ready")

\* Every image manager lives as Reconcile relies on: it is cancelled before Stop
\* has returned, its image controllers end only then, and only after a Stop may
\* one of them take the process down.
Phase(g) == IF g > cur \/ (g = cur /\ toStart # {}) THEN "new"
            ELSE IF field[g] THEN "started" ELSE "stopped"
Ended(g) == {i \in Image : pc[g][i] = "ended"}
Life(g)  == INSTANCE CtrlLife WITH
              Member    <- Image,
              phase     <- Phase(g),
              cancelled <- ctxDone[g],
              ended     <- Ended(g),
              down      <- panicked
ManagersLive ==
  /\ \A g \in Gen : Life(g)!Init
  /\ [][\A g \in Gen :
          \/ Life(g)!Next
          \/ UNCHANGED <<Phase(g), ctxDone[g], Ended(g), panicked>>]_vars

\* What the steps of managers and goroutines rely on: a generation to come has
\* nothing yet, Stop does not come between a New and the end of its Start, what
\* is not cancelled can be stopped, and a goroutine ends after a cancel only.
GenerationFacts ==
  /\ \A g \in Gen : g > cur => ~field[g] /\ ~ctxDone[g] /\ \A i \in Image : pc[g][i] = "off"
  /\ toStart # {} => cur > 0 /\ field[cur] /\ ~ctxDone[cur]
  /\ \A g \in Gen : g <= cur => field[g] \/ ctxDone[g]
  /\ \A g \in Gen, i \in Image : pc[g][i] \in {"cancel", "ended"} => ctxDone[g]

\* With no event unread, applyPod works on the status the pod has, and what it
\* did to the client is what that status asks for.
ClientFact(g, i) ==
  /\ pc[g][i] = "unset" => seen[g][i] # "absent"
  /\ pc[g][i] = "set" => seen[g][i] = "ready"
  /\ Alone(g, i) /\ watch[g][i] = "open" /\ podEv[g][i] = 0 =>
       /\ pc[g][i] \in {"unset", "set"} /\ seen[g][i] # "error"
          => seen[g][i] = status[PodOf(g, i)]
       /\ /\ pc[g][i] \in {"loop", "service"} /\ lastOk[g][i]
          /\ status[PodOf(g, i)] # "absent"
          => (client[i] # None <=> status[PodOf(g, i)] = "ready")

\* The inductive invariant of generations, their goroutines and their clients.
IInv == TypeOK /\ GenerationFacts /\ \A g \in Gen, i \in Image : ClientFact(g, i)

(***************************************************************************)
(* Liveness                                                                *)
(***************************************************************************)
\* The process lives, and manager g is the one that has not been stopped.
Current(g) == /\ ~panicked
              /\ cur = g /\ toStart = {} /\ ~ctxDone[g]
              /\ \A h \in 1..(g - 1) : ctxDone[h]

\* As long as its manager is not stopped and those before it are, a pod that is
\* ready for good gets its client again and again, whatever an older generation
\* still writes and although an error of SetClient is dropped; unless the end of
\* an older generation takes the process down.
ReadyServed ==
  \A g \in Gen, i \in Image :
    <>[](Current(g) /\ pc[g][i] # "off" /\ status[PodOf(g, i)] = "ready")
    => []<>(client[i] = PodOf(g, i))

\* A pod that is not ready for good has no client in the end, although an error
\* of applyPod on its last event is only logged; unless the process went down.
UnreadyRemoved ==
  \A g \in Gen, i \in Image :
    <>[](Current(g) /\ pc[g][i] # "off" /\ status[PodOf(g, i)] = "unready")
    => <>[](client[i] = None)

\* A deleted service is applied again, unless the manager is stopped.
ServiceRestored ==
  \A g \in Gen, i \in Image :
    pc[g][i] = "loop" /\ ~service[PodOf(g, i)]
    ~> service[PodOf(g, i)] \/ ctxDone[g]

(***************************************************************************)
(* What a comment says and the code does not do                            *)
(***************************************************************************)
\* "cancel the controllers": a goroutine that returned calls r.cancel, which
\* is there to be called.
CancelIsThere == ~panicked

=============================================================================
