-------------------------- MODULE ImgManagerProofs --------------------------
(***************************************************************************)
(* For any number of generations and images, any faults and whatever       *)
(* Reconcile does without a Stop, each image manager lives as Reconcile    *)
(* relies on: it implements CtrlLife.                                      *)
(***************************************************************************)
EXTENDS ImgManager, TLAPS

\* A step of the goroutine of image i in generation g, as managers see it.
Moves(g, i) ==
  /\ \E to \in PC \ {"off"} :
       /\ pc[g][i] \notin {"off", "ended"} /\ pc' = [pc EXCEPT ![g][i] = to]
       /\ to = "cancel" => ctxDone[g]
       /\ to = "ended" => pc[g][i] = "cancel"
       /\ panicked' # panicked => to = "ended" /\ panicked' /\ ~field[g]
  /\ UNCHANGED <<cur, toStart, field>>
  /\ ctxDone' = ctxDone \/ (pc[g][i] = "cancel" /\ ctxDone' = [ctxDone EXCEPT ![g] = TRUE])

\* A step that no manager sees.
Unseen == UNCHANGED <<cur, toStart, field, ctxDone, pc>>

LEMMA InitInv == Init => IInv
<1> SUFFICES ASSUME Init PROVE IInv
    OBVIOUS
<1>1. TypeOK
  <2>1. cur \in 0..MaxGen
        BY MaxGenAssumption DEF Init
  <2>2. pc \in [Gen -> [Image -> PC]]
        BY DEF Init, All, PC
  <2>3. /\ status \in [Pod -> Status] /\ service \in [Pod -> BOOLEAN]
        /\ entries \subseteq Image /\ client \in [Image -> Pod \cup {None}]
        /\ toStart \subseteq Image
        /\ field \in [Gen -> BOOLEAN] /\ ctxDone \in [Gen -> BOOLEAN]
        /\ panicked \in BOOLEAN
        BY DEF Init, Status
  <2>4. /\ inLoop \in [Gen -> [Image -> BOOLEAN]]
        /\ seen \in [Gen -> [Image -> Status \cup {"error"}]]
        /\ lastOk \in [Gen -> [Image -> BOOLEAN]]
        BY DEF Init, Status, All
  <2>5. /\ watch \in [Gen -> [Image -> {"none", "open", "closed"}]]
        /\ podEv \in [Gen -> [Image -> Nat]] /\ svcEv \in [Gen -> [Image -> Nat]]
        BY DEF Init, All
  <2> QED BY <2>1, <2>2, <2>3, <2>4, <2>5 DEF TypeOK
<1>2. GenerationFacts
      BY DEF Init, GenerationFacts, All, Gen
<1>3. \A g \in Gen, i \in Image : ClientFact(g, i)
      BY DEF Init, ClientFact, All
<1> QED BY <1>1, <1>2, <1>3 DEF IInv

\* One more event in the watches of a pod.
LEMMA NotifiedType ==
  ASSUME NEW ev \in [Gen -> [Image -> Nat]], NEW p \in Pod
  PROVE  Notified(ev, p) \in [Gen -> [Image -> Nat]]
BY DEF Notified

\* A goroutine writes its own variable.
LEMMA OwnType ==
  ASSUME NEW S, NEW f \in [Gen -> [Image -> S]], NEW g \in Gen, NEW i \in Image,
         NEW x \in S
  PROVE  [f EXCEPT ![g][i] = x] \in [Gen -> [Image -> S]]
OBVIOUS

\* Only a goroutine that found its context done goes to its end.
LEMMA GotoMoves ==
  ASSUME NEW g \in Gen, NEW i \in Image, NEW from \in PC \ {"off", "ended"},
         NEW to \in PC \ {"off", "ended"}, to = "cancel" => ctxDone[g],
         Goto(g, i, from, to), UNCHANGED mgr
  PROVE  Moves(g, i)
BY DEF Goto, Moves, mgr

\* Every step of an image controller is one that managers see as Moves.
LEMMA ControllerMoves ==
  ASSUME NEW g \in Gen, NEW i \in Image, TypeOK, ImgController(g, i)
  PROVE  Moves(g, i)
<1> USE DEF PC
<1>1. CASE Enter(g, i)
  <2> DEFINE to == IF ctxDone[g] THEN "cancel" ELSE "apply"
  <2>1. Goto(g, i, "enter", to) /\ UNCHANGED mgr
        BY <1>1 DEF Enter
  <2> QED BY <2>1, GotoMoves
<1>2. CASE Pause(g, i)
      BY <1>2, GotoMoves DEF Pause
<1>3. CASE ApplyPod(g, i)
      BY <1>3, GotoMoves DEF ApplyPod, AfterPod
<1>4. CASE GetPod(g, i)
      BY <1>4, GotoMoves DEF GetPod
<1>5. CASE DeleteClient(g, i)
  <2>1. PICK next \in PC : AfterCondition(g, i, next) /\ Goto(g, i, "unset", next)
        BY <1>5 DEF DeleteClient
  <2>2. next \in PC \ {"off", "cancel", "ended"}
        BY <2>1 DEF AfterCondition, AfterPod
  <2>3. UNCHANGED mgr
        BY <1>5 DEF DeleteClient
  <2> QED BY <2>1, <2>2, <2>3, GotoMoves
<1>6. CASE SetClient(g, i)
      BY <1>6, GotoMoves DEF SetClient, AfterPod
<1>7. CASE ApplyService(g, i)
      BY <1>7, GotoMoves DEF ApplyService
<1>8. CASE OpenWatches(g, i)
      BY <1>8, GotoMoves DEF OpenWatches
<1>9. CASE PodEvent(g, i)
      BY <1>9, GotoMoves DEF PodEvent
<1>10. CASE ServiceEvent(g, i)
      BY <1>10, GotoMoves DEF ServiceEvent
<1>11. CASE LeaveLoop(g, i)
      BY <1>11, GotoMoves DEF LeaveLoop
<1>12. CASE GoroutineEnds(g, i)
  <2>1. /\ "ended" \in PC \ {"off"} /\ pc[g][i] = "cancel"
        /\ pc' = [pc EXCEPT ![g][i] = "ended"]
        /\ panicked' # panicked => panicked' /\ ~field[g]
        BY <1>12 DEF GoroutineEnds
  <2>2. UNCHANGED <<cur, toStart, field>>
        BY <1>12 DEF GoroutineEnds
  <2>3. ctxDone' = ctxDone \/ (pc[g][i] = "cancel" /\ ctxDone' = [ctxDone EXCEPT ![g] = TRUE])
        BY <1>12 DEF GoroutineEnds
  <2> QED BY <2>1, <2>2, <2>3 DEF Moves
<1> QED BY <1>1, <1>2, <1>3, <1>4, <1>5, <1>6, <1>7, <1>8, <1>9, <1>10, <1>11, <1>12
        DEF ImgController

(***************************************************************************)
(* Types                                                                   *)
(***************************************************************************)
LEMMA ManagerTypes ==
  ASSUME TypeOK,
         \/ NewAndStart \/ DigestFails \/ StopCancels \/ StopForgets
         \/ \E i \in Image : StartImage(i)
  PROVE  TypeOK'
<1> USE DEF TypeOK, api, store, ctl, Gen
<1>1. CASE NewAndStart
  <2>1. PICK images \in SUBSET Image :
              entries' = entries \cup images /\ toStart' = entries \cup images
        BY <1>1 DEF NewAndStart
  <2>2. cur' \in 0..MaxGen
        BY <1>1, MaxGenAssumption DEF NewAndStart
  <2>3. field' \in [Gen -> BOOLEAN]
        BY <1>1 DEF NewAndStart
  <2> QED BY <1>1, <2>1, <2>2, <2>3 DEF NewAndStart
<1>2. CASE DigestFails
      BY <1>2 DEF DigestFails
<1>3. CASE StopCancels
      BY <1>3 DEF StopCancels
<1>4. CASE StopForgets
      BY <1>4 DEF StopForgets
<1>5. ASSUME NEW i \in Image, StartImage(i)
      PROVE  TypeOK'
      BY <1>5 DEF StartImage, PC
<1> QED BY <1>1, <1>2, <1>3, <1>4, <1>5

LEMMA WorldTypes ==
  ASSUME TypeOK, NEW p \in Pod, Kubelet(p) \/ ServiceDeleted(p)
  PROVE  TypeOK'
<1> USE DEF TypeOK, store, mgr
<1>1. CASE Kubelet(p)
  <2>1. status' \in [Pod -> Status]
        BY <1>1, PhasesAssumption DEF Kubelet, Status
  <2>2. podEv' \in [Gen -> [Image -> Nat]]
        BY <1>1, NotifiedType DEF Kubelet
  <2> QED BY <1>1, <2>1, <2>2 DEF Kubelet
<1>2. CASE ServiceDeleted(p)
  <2>1. svcEv' \in [Gen -> [Image -> Nat]]
        BY <1>2, NotifiedType DEF ServiceDeleted
  <2> QED BY <1>2, <2>1 DEF ServiceDeleted
<1> QED BY <1>1, <1>2

LEMMA WatchTypes ==
  ASSUME TypeOK, NEW g \in Gen, NEW i \in Image, ServerClosesWatch(g, i)
  PROVE  TypeOK'
BY DEF TypeOK, api, store, mgr, ServerClosesWatch

\* The fields of the managers and the places of the goroutines.
LEMMA MovesTypes ==
  ASSUME TypeOK, NEW g \in Gen, NEW i \in Image, Moves(g, i)
  PROVE  /\ cur' \in 0..MaxGen /\ toStart' \subseteq Image
         /\ field' \in [Gen -> BOOLEAN] /\ ctxDone' \in [Gen -> BOOLEAN]
         /\ pc' \in [Gen -> [Image -> PC]]
<1>1. PICK to \in PC \ {"off"} : pc' = [pc EXCEPT ![g][i] = to]
      BY DEF Moves
<1>2. pc' \in [Gen -> [Image -> PC]]
      BY <1>1, OwnType DEF TypeOK
<1>3. ctxDone' \in [Gen -> BOOLEAN]
      BY DEF TypeOK, Moves
<1> QED BY <1>2, <1>3 DEF TypeOK, Moves

LEMMA ControllerTypes ==
  ASSUME TypeOK, NEW g \in Gen, NEW i \in Image, ImgController(g, i)
  PROVE  TypeOK'
<1>0. /\ cur' \in 0..MaxGen /\ toStart' \subseteq Image
      /\ field' \in [Gen -> BOOLEAN] /\ ctxDone' \in [Gen -> BOOLEAN]
      /\ pc' \in [Gen -> [Image -> PC]]
      BY ControllerMoves, MovesTypes
<1> DEFINE Rest ==
      /\ status \in [Pod -> Status] /\ service \in [Pod -> BOOLEAN]
      /\ entries \subseteq Image /\ client \in [Image -> Pod \cup {None}]
      /\ panicked \in BOOLEAN
      /\ inLoop \in [Gen -> [Image -> BOOLEAN]]
      /\ seen \in [Gen -> [Image -> Status \cup {"error"}]]
      /\ lastOk \in [Gen -> [Image -> BOOLEAN]]
      /\ watch \in [Gen -> [Image -> {"none", "open", "closed"}]]
      /\ podEv \in [Gen -> [Image -> Nat]] /\ svcEv \in [Gen -> [Image -> Nat]]
<1> SUFFICES Rest'
    BY <1>0 DEF TypeOK
<1>01. Rest
       BY DEF TypeOK
<1>02. PodOf(g, i) \in Pod
       BY PodOfAssumption DEF Gen
<1> HIDE DEF Rest
<1>1. CASE Enter(g, i) \/ Pause(g, i)
      BY <1>1, <1>01 DEF Rest, Enter, Pause, api, store, mgr
<1>2. CASE ApplyPod(g, i)
  <2>1. status' \in [Pod -> Status]
        BY <1>2, <1>01, <1>02 DEF Rest, ApplyPod, Status
  <2>2. podEv' = podEv \/ podEv' = Notified(podEv, PodOf(g, i))
        BY <1>2 DEF ApplyPod
  <2>3. podEv' \in [Gen -> [Image -> Nat]]
    <3>1. Notified(podEv, PodOf(g, i)) \in [Gen -> [Image -> Nat]]
          BY <1>01, <1>02, NotifiedType DEF Rest
    <3> QED BY <1>01, <2>2, <3>1 DEF Rest
  <2>4. lastOk' = lastOk \/ lastOk' = [lastOk EXCEPT ![g][i] = FALSE]
        BY <1>2 DEF ApplyPod
  <2>5. lastOk' \in [Gen -> [Image -> BOOLEAN]]
    <3>1. [lastOk EXCEPT ![g][i] = FALSE] \in [Gen -> [Image -> BOOLEAN]]
          BY <1>01, OwnType DEF Rest
    <3> QED BY <1>01, <2>4, <3>1 DEF Rest
  <2> QED BY <1>2, <1>01, <2>1, <2>3, <2>5 DEF Rest, ApplyPod, store, mgr
<1>3. CASE GetPod(g, i)
      BY <1>3, <1>01 DEF Rest, GetPod, api, store, mgr
<1>4. CASE DeleteClient(g, i)
  <2>1. client' \in [Image -> Pod \cup {None}]
        BY <1>4, <1>01 DEF Rest, DeleteClient, KeptClient
  <2>2. /\ lastOk' = lastOk \/ lastOk' = [lastOk EXCEPT ![g][i] = seen[g][i] # "error"]
        /\ seen' = seen \/ seen' = [seen EXCEPT ![g][i] = "absent"]
        BY <1>4 DEF DeleteClient
  <2>3. lastOk' \in [Gen -> [Image -> BOOLEAN]]
    <3>1. (seen[g][i] # "error") \in BOOLEAN
          OBVIOUS
    <3>2. [lastOk EXCEPT ![g][i] = seen[g][i] # "error"] \in [Gen -> [Image -> BOOLEAN]]
          BY <1>01, <3>1, OwnType DEF Rest
    <3> QED BY <1>01, <2>2, <3>2 DEF Rest
  <2>4. seen' \in [Gen -> [Image -> Status \cup {"error"}]]
    <3>1. "absent" \in Status \cup {"error"}
          BY DEF Status
    <3>2. [seen EXCEPT ![g][i] = "absent"] \in [Gen -> [Image -> Status \cup {"error"}]]
          BY <1>01, <3>1, OwnType DEF Rest
    <3> QED BY <1>01, <2>2, <3>2 DEF Rest
  <2> QED BY <1>4, <1>01, <2>1, <2>3, <2>4 DEF Rest, DeleteClient, api, mgr
<1>5. CASE SetClient(g, i)
  <2>1. client' \in [Image -> Pod \cup {None}]
        BY <1>5, <1>01, <1>02 DEF Rest, SetClient
  <2>2. \/ lastOk' = [lastOk EXCEPT ![g][i] = TRUE]
        \/ lastOk' = [lastOk EXCEPT ![g][i] = FALSE]
        BY <1>5 DEF SetClient
  <2>3. lastOk' \in [Gen -> [Image -> BOOLEAN]]
    <3>1. /\ [lastOk EXCEPT ![g][i] = TRUE] \in [Gen -> [Image -> BOOLEAN]]
          /\ [lastOk EXCEPT ![g][i] = FALSE] \in [Gen -> [Image -> BOOLEAN]]
          BY <1>01, OwnType DEF Rest
    <3> QED BY <2>2, <3>1
  <2>4. seen' \in [Gen -> [Image -> Status \cup {"error"}]]
        BY <1>5, <1>01, OwnType DEF Rest, Status, SetClient
  <2> QED BY <1>5, <1>01, <2>1, <2>3, <2>4 DEF Rest, SetClient, api, mgr
<1>6. CASE ApplyService(g, i)
  <2>1. service' \in [Pod -> BOOLEAN] /\ svcEv' \in [Gen -> [Image -> Nat]]
        BY <1>6, <1>01, <1>02, NotifiedType DEF Rest, ApplyService
  <2> QED BY <1>6, <1>01, <2>1 DEF Rest, ApplyService, store, mgr
<1>7. CASE OpenWatches(g, i)
  <2>1. CASE UNCHANGED <<inLoop, watch, podEv, svcEv>>
        BY <1>7, <1>01, <2>1 DEF Rest, OpenWatches, api, store, mgr
  <2>2. CASE ~UNCHANGED <<inLoop, watch, podEv, svcEv>>
    <3>1. /\ inLoop' = [inLoop EXCEPT ![g][i] = TRUE]
          /\ watch' = [watch EXCEPT ![g][i] = "open"]
          BY <1>7, <2>2 DEF OpenWatches
    <3>2. /\ \E n \in Nat : podEv' = [podEv EXCEPT ![g][i] = n]
          /\ \E n \in Nat : svcEv' = [svcEv EXCEPT ![g][i] = n]
          BY <1>7, <2>2 DEF OpenWatches
    <3>3. inLoop' \in [Gen -> [Image -> BOOLEAN]]
          BY <1>01, <3>1, OwnType DEF Rest
    <3>4. watch' \in [Gen -> [Image -> {"none", "open", "closed"}]]
          BY <1>01, <3>1, OwnType DEF Rest
    <3>5. podEv' \in [Gen -> [Image -> Nat]] /\ svcEv' \in [Gen -> [Image -> Nat]]
          BY <1>01, <3>2, OwnType DEF Rest
    <3> QED BY <1>7, <1>01, <3>3, <3>4, <3>5 DEF Rest, OpenWatches, api, store, mgr
  <2> QED BY <2>1, <2>2
<1>8. CASE PodEvent(g, i) \/ ServiceEvent(g, i)
  <2>1. CASE PodEvent(g, i)
    <3>1. podEv[g][i] - 1 \in Nat
          BY <1>01, <2>1 DEF Rest, PodEvent, PodEventReady
    <3>2. podEv' = [podEv EXCEPT ![g][i] = podEv[g][i] - 1]
          BY <2>1 DEF PodEvent
    <3>3. podEv' \in [Gen -> [Image -> Nat]]
          BY <1>01, <3>1, <3>2, OwnType DEF Rest
    <3> QED BY <1>01, <2>1, <3>3 DEF Rest, PodEvent, api, store, mgr
  <2>2. CASE ServiceEvent(g, i)
    <3>1. svcEv[g][i] - 1 \in Nat
          BY <1>01, <2>2 DEF Rest, ServiceEvent
    <3>2. svcEv' = [svcEv EXCEPT ![g][i] = svcEv[g][i] - 1]
          BY <2>2 DEF ServiceEvent
    <3>3. svcEv' \in [Gen -> [Image -> Nat]]
          BY <1>01, <3>1, <3>2, OwnType DEF Rest
    <3> QED BY <1>01, <2>2, <3>3 DEF Rest, ServiceEvent, api, store, mgr
  <2> QED BY <1>8, <2>1, <2>2
<1>9. CASE LeaveLoop(g, i)
      BY <1>9, <1>01 DEF Rest, LeaveLoop, api, store, mgr
<1>10. CASE GoroutineEnds(g, i)
      BY <1>10, <1>01 DEF Rest, GoroutineEnds, api, store
<1> QED BY <1>1, <1>2, <1>3, <1>4, <1>5, <1>6, <1>7, <1>8, <1>9, <1>10 DEF ImgController

(***************************************************************************)
(* Generations                                                             *)
(***************************************************************************)
LEMMA ManagerFacts ==
  ASSUME IInv, TypeOK',
         \/ NewAndStart \/ DigestFails \/ StopCancels \/ StopForgets
         \/ \E i \in Image : StartImage(i)
  PROVE  GenerationFacts'
<1> USE DEF IInv, TypeOK, GenerationFacts, ctl, Gen
<1>1. CASE NewAndStart
      BY <1>1 DEF NewAndStart
<1>2. CASE DigestFails
      BY <1>2 DEF DigestFails
<1>3. CASE StopCancels
      BY <1>3 DEF StopCancels
<1>4. CASE StopForgets
      BY <1>4 DEF StopForgets
<1>5. ASSUME NEW i \in Image, StartImage(i)
      PROVE  GenerationFacts'
      BY <1>5 DEF StartImage
<1> QED BY <1>1, <1>2, <1>3, <1>4, <1>5

LEMMA MovesFacts ==
  ASSUME IInv, NEW g \in Gen, NEW i \in Image, Moves(g, i)
  PROVE  GenerationFacts'
<1> USE DEF IInv, TypeOK, GenerationFacts
<1>1. PICK to \in PC \ {"off"} :
        /\ pc[g][i] # "off" /\ pc' = [pc EXCEPT ![g][i] = to]
        /\ to = "cancel" => ctxDone[g]
        /\ to = "ended" => pc[g][i] = "cancel"
      BY DEF Moves
<1>2. \A h \in Gen, j \in Image :
        pc'[h][j] = IF h = g /\ j = i THEN to ELSE pc[h][j]
      BY <1>1
<1>3. UNCHANGED <<cur, toStart, field>> /\ ~(g > cur)
      BY <1>1 DEF Moves
<1>4. ctxDone' = ctxDone
  <2>1. CASE ctxDone[g]
    <3>1. ctxDone[g] = TRUE
          BY <2>1
    <3>2. [ctxDone EXCEPT ![g] = TRUE] = ctxDone
          BY <3>1
    <3> QED BY <3>2 DEF Moves
  <2>2. CASE ~ctxDone[g]
        BY <2>2 DEF Moves
  <2> QED BY <2>1, <2>2
<1> QED BY <1>1, <1>2, <1>3, <1>4

LEMMA UnseenFacts ==
  ASSUME IInv, Unseen
  PROVE  GenerationFacts'
BY DEF IInv, GenerationFacts, Unseen

\* The steps of the world outside.
LEMMA WorldUnseen ==
  /\ \A p \in Pod : Kubelet(p) \/ ServiceDeleted(p) => Unseen
  /\ \A g \in Gen, i \in Image : ServerClosesWatch(g, i) => Unseen
BY DEF Kubelet, ServiceDeleted, ServerClosesWatch, mgr, Unseen

(***************************************************************************)
(* Clients                                                                 *)
(***************************************************************************)
\* A step that leaves an image controller where it is: the client is another's
\* business only if another generation serves the image too, and a change of
\* the pod is an event that is then unread.
LEMMA OthersKeep ==
  ASSUME NEW g \in Gen, NEW i \in Image, ClientFact(g, i),
         pc'[g][i] = pc[g][i], seen'[g][i] = seen[g][i], lastOk'[g][i] = lastOk[g][i],
         watch'[g][i] = "open" => watch[g][i] = "open",
         Alone(g, i)' => Alone(g, i) /\ client'[i] = client[i],
         \/ status'[PodOf(g, i)] = status[PodOf(g, i)] /\ podEv'[g][i] = podEv[g][i]
         \/ watch'[g][i] = "open" => podEv'[g][i] # 0
  PROVE  ClientFact(g, i)'
BY DEF ClientFact

LEMMA NotifiedFact ==
  ASSUME TypeOK, NEW p \in Pod, NEW s, NEW g \in Gen, NEW i \in Image,
         status' = [status EXCEPT ![p] = s], podEv' = Notified(podEv, p),
         watch' = watch
  PROVE  \/ status'[PodOf(g, i)] = status[PodOf(g, i)] /\ podEv'[g][i] = podEv[g][i]
         \/ watch'[g][i] = "open" => podEv'[g][i] # 0
<1>1. podEv'[g][i] = IF watch[g][i] = "open" /\ PodOf(g, i) = p THEN podEv[g][i] + 1 ELSE podEv[g][i]
      BY DEF Notified
<1>2. podEv[g][i] \in Nat
      BY DEF TypeOK
<1>3. PodOf(g, i) # p => status'[PodOf(g, i)] = status[PodOf(g, i)]
      BY DEF TypeOK
<1>4. PodOf(g, i) = p => (watch'[g][i] = "open" => podEv'[g][i] # 0)
      BY <1>1, <1>2
<1>5. CASE PodOf(g, i) = p
      BY <1>4, <1>5
<1>6. CASE PodOf(g, i) # p
      BY <1>1, <1>3, <1>6
<1> QED BY <1>5, <1>6

\* The steps of managers and of the world.
LEMMA ManagerClients ==
  ASSUME IInv, NEW g \in Gen, NEW i \in Image,
         \/ NewAndStart \/ DigestFails \/ StopCancels \/ StopForgets
         \/ \E j \in Image : StartImage(j)
  PROVE  ClientFact(g, i)'
<1>1. CASE NewAndStart \/ DigestFails \/ StopCancels \/ StopForgets
  <2>1. UNCHANGED <<api, client, ctl>>
        BY <1>1 DEF NewAndStart, DigestFails, StopCancels, StopForgets, store
  <2> QED BY <2>1, OthersKeep DEF IInv, api, ctl, Alone
<1>2. ASSUME NEW j \in Image, StartImage(j)
      PROVE  ClientFact(g, i)'
  <2>1. /\ pc' = [pc EXCEPT ![cur][j] = "enter"]
        /\ UNCHANGED <<status, client, seen, lastOk, watch, podEv>>
        BY <1>2 DEF StartImage, api, store
  <2>2. \A h \in Gen, k \in Image :
          pc'[h][k] = IF h = cur /\ k = j THEN "enter" ELSE pc[h][k]
    <3>1. cur \in Gen
          BY <1>2, MaxGenAssumption DEF IInv, TypeOK, GenerationFacts, StartImage, Gen
    <3>2. pc \in [Gen -> [Image -> PC]]
          BY DEF IInv, TypeOK
    <3> QED BY <2>1, <3>1, <3>2
  <2>3. CASE g = cur /\ i = j
        BY <2>2, <2>3 DEF ClientFact
  <2>4. CASE ~(g = cur /\ i = j)
    <3>1. Alone(g, i)' => Alone(g, i)
          BY <2>2 DEF Alone
    <3> QED BY <2>1, <2>2, <2>4, <3>1, OthersKeep DEF IInv
  <2> QED BY <2>3, <2>4
<1> QED BY <1>1, <1>2

LEMMA WorldClients ==
  ASSUME IInv, NEW g \in Gen, NEW i \in Image,
         \/ \E p \in Pod : Kubelet(p) \/ ServiceDeleted(p)
         \/ \E h \in Gen, j \in Image : ServerClosesWatch(h, j)
  PROVE  ClientFact(g, i)'
<1>1. ASSUME NEW p \in Pod, Kubelet(p)
      PROVE  ClientFact(g, i)'
  <2>1. PICK s : status' = [status EXCEPT ![p] = s]
        BY <1>1 DEF Kubelet
  <2>2. UNCHANGED <<client, pc, seen, lastOk, watch>> /\ podEv' = Notified(podEv, p)
        BY <1>1 DEF Kubelet, store
  <2>3. \/ status'[PodOf(g, i)] = status[PodOf(g, i)] /\ podEv'[g][i] = podEv[g][i]
        \/ watch'[g][i] = "open" => podEv'[g][i] # 0
        BY <2>1, <2>2, NotifiedFact DEF IInv
  <2>4. Alone(g, i)' => Alone(g, i) /\ client'[i] = client[i]
        BY <2>2 DEF Alone
  <2> QED BY <2>2, <2>3, <2>4, OthersKeep DEF IInv
<1>2. ASSUME NEW p \in Pod, ServiceDeleted(p)
      PROVE  ClientFact(g, i)'
  <2>1. UNCHANGED <<status, client, pc, seen, lastOk, watch, podEv>>
        BY <1>2 DEF ServiceDeleted, store
  <2> QED BY <2>1, OthersKeep DEF IInv, Alone
<1>3. ASSUME NEW h \in Gen, NEW j \in Image, ServerClosesWatch(h, j)
      PROVE  ClientFact(g, i)'
  <2>1. /\ UNCHANGED <<status, client, pc, seen, lastOk>>
        /\ watch' = [watch EXCEPT ![h][j] = "closed"]
        /\ podEv' = [podEv EXCEPT ![h][j] = 0]
        BY <1>3 DEF ServerClosesWatch, api, store
  <2>2. CASE g = h /\ i = j
    <3>1. watch'[g][i] = "closed"
          BY <2>1, <2>2 DEF IInv, TypeOK
    <3> QED BY <2>1, <3>1, OthersKeep DEF IInv, Alone
  <2>3. CASE ~(g = h /\ i = j)
    <3>1. watch'[g][i] = watch[g][i] /\ podEv'[g][i] = podEv[g][i]
          BY <2>1, <2>3 DEF IInv, TypeOK
    <3> QED BY <2>1, <3>1, OthersKeep DEF IInv, Alone
  <2> QED BY <2>2, <2>3
<1> QED BY <1>1, <1>2, <1>3

\* A step of one image controller seen from another.
LEMMA OthersClients ==
  ASSUME IInv, NEW g \in Gen, NEW i \in Image, NEW h \in Gen, NEW j \in Image,
         ImgController(h, j), ~(g = h /\ i = j)
  PROVE  ClientFact(g, i)'
<1>1. PICK to \in PC \ {"off"} : pc[h][j] # "off" /\ pc' = [pc EXCEPT ![h][j] = to]
      BY ControllerMoves DEF IInv, Moves
<1>2. pc'[g][i] = pc[g][i] /\ (Alone(g, i)' => Alone(g, i))
      BY <1>1 DEF IInv, TypeOK, Alone
<1>3. i = j => ~Alone(g, i)
      BY <1>1 DEF Alone
<1>4. /\ seen'[g][i] = seen[g][i] /\ lastOk'[g][i] = lastOk[g][i]
      /\ watch'[g][i] = watch[g][i]
  <2>0. /\ seen \in [Gen -> [Image -> Status \cup {"error"}]]
        /\ lastOk \in [Gen -> [Image -> BOOLEAN]]
        /\ watch \in [Gen -> [Image -> {"none", "open", "closed"}]]
        BY DEF IInv, TypeOK
  <2>1. CASE \/ Enter(h, j) \/ Pause(h, j) \/ ApplyService(h, j) \/ PodEvent(h, j)
             \/ ServiceEvent(h, j) \/ GoroutineEnds(h, j)
        BY <2>1 DEF Enter, Pause, ApplyService, PodEvent, ServiceEvent, GoroutineEnds
  <2>2. CASE ApplyPod(h, j)
    <3>1. /\ seen' = seen /\ watch' = watch
          /\ lastOk' = lastOk \/ lastOk' = [lastOk EXCEPT ![h][j] = FALSE]
          BY <2>2 DEF ApplyPod
    <3> QED BY <2>0, <3>1
  <2>3. CASE GetPod(h, j)
        BY <2>0, <2>3 DEF GetPod
  <2>4. CASE DeleteClient(h, j)
    <3>1. /\ seen' = seen \/ seen' = [seen EXCEPT ![h][j] = "absent"]
          /\ lastOk' = lastOk \/ lastOk' = [lastOk EXCEPT ![h][j] = seen[h][j] # "error"]
          /\ watch' = watch
          BY <2>4 DEF DeleteClient
    <3> QED BY <2>0, <3>1
  <2>5. CASE SetClient(h, j)
        BY <2>0, <2>5 DEF SetClient
  <2>6. CASE OpenWatches(h, j) \/ LeaveLoop(h, j)
        BY <2>0, <2>6 DEF OpenWatches, LeaveLoop
  <2> QED BY <2>1, <2>2, <2>3, <2>4, <2>5, <2>6 DEF ImgController
<1>5. i # j => client'[i] = client[i]
      BY DEF IInv, TypeOK, ImgController, Enter, Pause, ApplyPod, GetPod, DeleteClient, SetClient,
             ApplyService, OpenWatches, PodEvent, ServiceEvent, LeaveLoop, GoroutineEnds, store
<1>6. \/ status'[PodOf(g, i)] = status[PodOf(g, i)] /\ podEv'[g][i] = podEv[g][i]
      \/ watch'[g][i] = "open" => podEv'[g][i] # 0
  <2>1. CASE ApplyPod(h, j)
    <3>1. CASE UNCHANGED <<status, podEv>>
          BY <3>1
    <3>2. CASE ~UNCHANGED <<status, podEv>>
      <4>1. /\ status' = [status EXCEPT ![PodOf(h, j)] = "pending"]
            /\ podEv' = Notified(podEv, PodOf(h, j)) /\ watch' = watch
            BY <2>1, <3>2 DEF ApplyPod
      <4>2. PodOf(h, j) \in Pod
            BY PodOfAssumption DEF Gen
      <4> QED BY <4>1, <4>2, NotifiedFact DEF IInv
    <3> QED BY <3>1, <3>2
  <2>2. CASE ~ApplyPod(h, j)
    <3>1. status' = status
          BY <2>2 DEF ImgController, Enter, Pause, GetPod, DeleteClient, SetClient,
             ApplyService, OpenWatches, PodEvent, ServiceEvent, LeaveLoop, GoroutineEnds, api
    <3>2. podEv' = podEv \/ (\E e : podEv' = [podEv EXCEPT ![h][j] = e])
      <4>1. CASE \/ Enter(h, j) \/ Pause(h, j) \/ GetPod(h, j) \/ DeleteClient(h, j)
                 \/ SetClient(h, j) \/ ApplyService(h, j) \/ ServiceEvent(h, j)
                 \/ GoroutineEnds(h, j)
            BY <4>1 DEF Enter, Pause, GetPod, DeleteClient, SetClient, ApplyService,
                        ServiceEvent, GoroutineEnds
      <4>2. CASE OpenWatches(h, j) \/ LeaveLoop(h, j)
            BY <4>2, Zenon DEF OpenWatches, LeaveLoop
      <4>3. CASE PodEvent(h, j)
            BY <4>3 DEF PodEvent
      <4> QED BY <2>2, <4>1, <4>2, <4>3 DEF ImgController
    <3>3. podEv'[g][i] = podEv[g][i]
      <4>1. podEv \in [Gen -> [Image -> Nat]]
            BY DEF IInv, TypeOK
      <4> QED BY <3>2, <4>1
    <3> QED BY <3>1, <3>3
  <2> QED BY <2>1, <2>2
<1> QED BY <1>2, <1>3, <1>4, <1>5, <1>6, OthersKeep DEF IInv

\* The steps of an image controller itself.
LEMMA OwnClients ==
  ASSUME IInv, NEW g \in Gen, NEW i \in Image, ImgController(g, i)
  PROVE  ClientFact(g, i)'
<1> DEFINE p == PodOf(g, i)
<1>0. /\ p \in Pod /\ p # None /\ podEv[g][i] \in Nat /\ status[p] \in Status
      /\ pc \in [Gen -> [Image -> PC]] /\ client \in [Image -> Pod \cup {None}]
      /\ seen \in [Gen -> [Image -> Status \cup {"error"}]]
      /\ lastOk \in [Gen -> [Image -> BOOLEAN]]
      /\ watch \in [Gen -> [Image -> {"none", "open", "closed"}]]
      /\ podEv \in [Gen -> [Image -> Nat]]
      /\ ClientFact(g, i)
      BY PodOfAssumption, NoneAssumption DEF IInv, TypeOK, Gen
<1>00. Alone(g, i)' <=> Alone(g, i)
  <2>1. PICK to \in PC : pc' = [pc EXCEPT ![g][i] = to]
        BY ControllerMoves DEF IInv, Moves
  <2> QED BY <1>0, <2>1 DEF Alone
<1> HIDE DEF p
<1>1. CASE Enter(g, i) \/ Pause(g, i) \/ GoroutineEnds(g, i)
  <2>1. pc'[g][i] \in {"cancel", "apply", "ended"}
        BY <1>0, <1>1 DEF Enter, Pause, GoroutineEnds, Goto
  <2> QED BY <2>1 DEF ClientFact
<1>2. CASE ApplyPod(g, i)
  <2>1. \/ pc'[g][i] \in {"get", "pause"}
        \/ pc'[g][i] = "loop" /\ ~lastOk'[g][i]
        BY <1>0, <1>2 DEF ApplyPod, Goto, AfterPod
  <2> QED BY <2>1 DEF ClientFact
<1>3. CASE GetPod(g, i)
  <2>1. PICK s \in Status \cup {"error"} :
          /\ s # "error" => s = status[p] /\ s # "absent"
          /\ seen' = [seen EXCEPT ![g][i] = s]
          /\ \/ Goto(g, i, "get", "unset")
             \/ s = "ready" /\ Goto(g, i, "get", "set")
        BY <1>3 DEF GetPod, p
  <2>2. /\ seen'[g][i] = s /\ status' = status
        /\ pc'[g][i] = "unset" \/ (s = "ready" /\ pc'[g][i] = "set")
        BY <1>0, <1>3, <2>1 DEF GetPod, Goto, api
  <2> QED BY <2>1, <2>2 DEF ClientFact, p
<1>4. CASE DeleteClient(g, i)
  <2>1. PICK next \in PC : AfterCondition(g, i, next) /\ Goto(g, i, "unset", next)
        BY <1>4 DEF DeleteClient
  <2>2. /\ pc[g][i] = "unset" /\ pc'[g][i] = next
        /\ client'[i] = None /\ UNCHANGED <<status, watch, podEv>>
        BY <1>0, <1>4, <2>1 DEF DeleteClient, Goto, KeptClient, api
  <2>3. CASE next \in {"unset", "set"}
    <3>1. seen' = seen
          BY <1>4, <2>2, <2>3 DEF DeleteClient
    <3>2. next = "set" => seen[g][i] = "ready"
          BY <2>1 DEF AfterCondition, AfterPod
    <3> QED BY <1>0, <1>00, <2>2, <2>3, <3>1, <3>2 DEF ClientFact
  <2>4. CASE next \notin {"unset", "set"}
    <3>1. lastOk'[g][i] = (seen[g][i] # "error")
      <4>1. lastOk' = [lastOk EXCEPT ![g][i] = seen[g][i] # "error"]
            BY <1>4, <2>2, <2>4 DEF DeleteClient
      <4> QED BY <1>0, <4>1
    <3>2. seen[g][i] # "ready"
          BY <2>1, <2>4 DEF AfterCondition
    <3> QED BY <1>0, <1>00, <2>2, <2>4, <3>1, <3>2 DEF ClientFact
  <2> QED BY <2>3, <2>4
<1>5. CASE SetClient(g, i)
  <2>1. /\ pc[g][i] = "set" /\ pc'[g][i] \notin {"unset", "set"}
        /\ UNCHANGED <<status, watch, podEv>>
        /\ ~lastOk'[g][i] \/ client'[i] = p
        BY <1>0, <1>5 DEF SetClient, Goto, AfterPod, api, p
  <2> QED BY <1>0, <1>00, <2>1 DEF ClientFact, p
<1>6. CASE ApplyService(g, i)
  <2>1. /\ pc[g][i] = "service" /\ pc'[g][i] \in {"loop", "open", "pause"}
        /\ UNCHANGED <<status, client, lastOk, watch, podEv>>
        BY <1>0, <1>6 DEF ApplyService, Goto, store
  <2> QED BY <1>0, <1>00, <2>1 DEF ClientFact
<1>7. CASE OpenWatches(g, i)
  <2>1. \/ pc'[g][i] = "pause"
        \/ /\ pc'[g][i] = "loop" /\ status' = status
           /\ podEv'[g][i] = IF status[p] = "absent" THEN 0 ELSE 1
        BY <1>0, <1>7 DEF OpenWatches, Goto, api, p
  <2> QED BY <2>1 DEF ClientFact, p
<1>8. CASE PodEvent(g, i)
  <2>1. pc'[g][i] = "apply"
        BY <1>0, <1>8 DEF PodEvent, Goto
  <2> QED BY <2>1 DEF ClientFact
<1>9. CASE ServiceEvent(g, i)
  <2>1. /\ pc[g][i] = "loop" /\ pc'[g][i] = "service"
        /\ UNCHANGED <<status, client, lastOk, watch, podEv>>
        BY <1>0, <1>9 DEF ServiceEvent, Goto, store, api
  <2> QED BY <1>0, <1>00, <2>1 DEF ClientFact
<1>10. CASE LeaveLoop(g, i)
  <2>1. pc'[g][i] \in {"pause", "enter"}
        BY <1>0, <1>10 DEF LeaveLoop, Goto
  <2> QED BY <2>1 DEF ClientFact
<1> QED BY <1>1, <1>2, <1>3, <1>4, <1>5, <1>6, <1>7, <1>8, <1>9, <1>10 DEF ImgController

LEMMA StepInv == IInv /\ [Next]_vars => IInv'
<1> SUFFICES ASSUME IInv, [Next]_vars PROVE IInv'
    OBVIOUS
<1> DEFINE Clients == \A g \in Gen, i \in Image : ClientFact(g, i)
<1>0. IInv' <=> TypeOK' /\ GenerationFacts' /\ Clients'
      BY DEF IInv
<1>1. CASE \/ NewAndStart \/ DigestFails \/ StopCancels \/ StopForgets
           \/ \E i \in Image : StartImage(i)
  <2>1. TypeOK'
        BY <1>1, ManagerTypes DEF IInv
  <2>2. Clients'
        BY <1>1, ManagerClients
  <2> QED BY <1>0, <1>1, <2>1, <2>2, ManagerFacts
<1>2. ASSUME NEW h \in Gen, NEW j \in Image, ImgController(h, j)
      PROVE  IInv'
  <2>1. TypeOK' /\ GenerationFacts'
        BY <1>2, ControllerTypes, ControllerMoves, MovesFacts DEF IInv
  <2>2. Clients'
        BY <1>2, OwnClients, OthersClients
  <2> QED BY <1>0, <2>1, <2>2
<1>3. CASE \/ \E p \in Pod : Kubelet(p) \/ ServiceDeleted(p)
           \/ \E h \in Gen, j \in Image : ServerClosesWatch(h, j)
  <2>1. TypeOK' /\ GenerationFacts'
        BY <1>3, WorldTypes, WatchTypes, WorldUnseen, UnseenFacts DEF IInv
  <2>2. Clients'
        BY <1>3, WorldClients
  <2> QED BY <1>0, <2>1, <2>2
<1>4. CASE UNCHANGED vars
  <2>1. TypeOK'
        BY <1>4 DEF IInv, TypeOK, vars, api, store, mgr, ctl
  <2>2. GenerationFacts'
        BY <1>4, UnseenFacts DEF vars, mgr, ctl, Unseen
  <2>3. Clients'
        BY <1>4, OthersKeep DEF IInv, vars, api, store, ctl, Alone
  <2> QED BY <1>0, <2>1, <2>2, <2>3
<1> QED BY <1>1, <1>2, <1>3, <1>4 DEF Next

\* Generations and their goroutines are what their steps rely on, and with no
\* event unread the client of an image follows its pod.
THEOREM Inductive == Spec => []IInv
BY InitInv, StepInv, PTL DEF Spec

\* When an image controller has no event unread after an applyPod without error,
\* the image has a client exactly when its pod is ready: for any number of
\* images, pods they share, generations before and after, and every fault.
THEOREM ClientsFollowPods == Spec => []ClientMatchesPod
<1>1. IInv => ClientMatchesPod
      BY DEF IInv, ClientFact, ClientMatchesPod, Quiet
<1> QED BY <1>1, Inductive, PTL

(***************************************************************************)
(* The life of each manager                                                *)
(***************************************************************************)
\* What Reconcile sees of manager g, whose life goes on.
lvars(g)      == <<Phase(g), ctxDone[g], Ended(g), panicked>>
LifeGoesOn(g) == Life(g)!Next \/ UNCHANGED lvars(g)

\* At most the process goes down with a goroutine of another manager.
LEMMA OthersLife ==
  ASSUME NEW g \in Gen,
         Phase(g)' = Phase(g), ctxDone'[g] = ctxDone[g], Ended(g)' = Ended(g),
         panicked' = panicked \/ panicked'
  PROVE  LifeGoesOn(g)
BY DEF LifeGoesOn, lvars, Life!Next, Life!OthersEnd

\* No goroutine cancels what is not cancelled, stops its manager or, before it
\* is stopped, takes the process down.
LEMMA MovesLife ==
  ASSUME IInv, NEW h \in Gen, NEW i \in Image, Moves(h, i), NEW g \in Gen
  PROVE  LifeGoesOn(g)
<1>1. PICK to \in PC \ {"off"} :
        /\ pc[h][i] \notin {"off", "ended"} /\ pc' = [pc EXCEPT ![h][i] = to]
        /\ to = "cancel" => ctxDone[h]
        /\ to = "ended" => pc[h][i] = "cancel"
        /\ panicked' # panicked => to = "ended" /\ panicked' /\ ~field[h]
      BY DEF Moves
<1>2. \A j \in Image : pc'[g][j] = IF g = h /\ j = i THEN to ELSE pc[g][j]
      BY <1>1 DEF IInv, TypeOK
<1>3. UNCHANGED <<cur, toStart, field>> /\ Phase(g)' = Phase(g)
      BY DEF Moves, Phase
<1>4. ctxDone'[g] = ctxDone[g]
  <2>1. CASE ctxDone' = ctxDone
        BY <2>1
  <2>2. CASE pc[h][i] = "cancel" /\ ctxDone' = [ctxDone EXCEPT ![h] = TRUE]
    <3>1. ctxDone \in [Gen -> BOOLEAN] /\ ctxDone[h]
          BY <2>2 DEF IInv, TypeOK, GenerationFacts
    <3> QED BY <2>2, <3>1
  <2> QED BY <2>1, <2>2 DEF Moves
<1>5. CASE to = "ended" /\ g = h
  <2>1. i \notin Ended(g) /\ Ended(g)' = Ended(g) \cup {i}
        BY <1>1, <1>2, <1>5 DEF Ended
  <2>2. ctxDone'[g]
        BY <1>1, <1>4, <1>5 DEF IInv, GenerationFacts
  <2>3. ~field[g] => Phase(g) = "stopped"
    <3>1. g <= cur /\ (toStart # {} => field[cur])
          BY <1>1, <1>5 DEF IInv, GenerationFacts, TypeOK, Gen
    <3> QED BY <3>1 DEF Phase, IInv, TypeOK, Gen
  <2> QED BY <1>1, <1>3, <1>5, <2>1, <2>2, <2>3 DEF LifeGoesOn, Life!Next, Life!End
<1>6. CASE to # "ended" \/ g # h
  <2>1. Ended(g)' = Ended(g)
        BY <1>1, <1>2, <1>6 DEF Ended
  <2> QED BY <1>1, <1>3, <1>4, <2>1, OthersLife
<1> QED BY <1>5, <1>6

\* What Reconcile calls, and the loop of Start.
LEMMA ManagerLife ==
  ASSUME IInv, NEW g \in Gen,
         \/ NewAndStart \/ DigestFails \/ StopCancels \/ StopForgets
         \/ \E i \in Image : StartImage(i)
  PROVE  LifeGoesOn(g)
<1> USE DEF IInv, TypeOK, GenerationFacts, Phase, lvars, Gen
<1>0. panicked' = panicked
      BY DEF NewAndStart, DigestFails, StopCancels, StopForgets, StartImage
<1>1. CASE NewAndStart
  <2>1. ctxDone'[g] = ctxDone[g] /\ Ended(g)' = Ended(g)
        BY <1>1 DEF NewAndStart, Ended, ctl
  <2>2. \/ Phase(g) = "new" /\ Phase(g)' = "started"
        \/ Phase(g)' = Phase(g)
        BY <1>1 DEF NewAndStart
  <2> QED BY <1>0, <2>1, <2>2 DEF LifeGoesOn, Life!Next, Life!Start
<1>2. CASE DigestFails
  <2>1. ctxDone'[g] = ctxDone[g] /\ Ended(g)' = Ended(g)
        BY <1>2 DEF DigestFails, Ended, ctl
  <2>2. \/ Phase(g) = "new" /\ Phase(g)' = "started"
        \/ Phase(g)' = Phase(g)
        BY <1>2 DEF DigestFails
  <2> QED BY <1>0, <2>1, <2>2 DEF LifeGoesOn, Life!Next, Life!Start
<1>3. CASE StopCancels
  <2>1. Phase(g)' = Phase(g) /\ Ended(g)' = Ended(g)
        BY <1>3 DEF StopCancels, Ended, ctl
  <2>2. \/ ~ctxDone[g] /\ ctxDone'[g]
        \/ ctxDone'[g] = ctxDone[g]
        BY <1>3 DEF StopCancels
  <2> QED BY <1>0, <2>1, <2>2 DEF LifeGoesOn, Life!Next, Life!Cancel
<1>4. CASE StopForgets
  <2>1. ctxDone'[g] = ctxDone[g] /\ Ended(g)' = Ended(g)
        BY <1>4 DEF StopForgets, Ended, ctl
  <2>2. \/ Phase(g) = "started" /\ Phase(g)' = "stopped" /\ ctxDone[g]
        \/ Phase(g)' = Phase(g)
        BY <1>4 DEF StopForgets
  <2> QED BY <1>0, <2>1, <2>2 DEF LifeGoesOn, Life!Next, Life!Stop
<1>5. ASSUME NEW i \in Image, StartImage(i)
      PROVE  LifeGoesOn(g)
  <2>1. ctxDone'[g] = ctxDone[g]
        BY <1>5 DEF StartImage
  <2>2. Ended(g)' = Ended(g)
    <3>1. cur \in Gen /\ pc[cur][i] # "ended"
          BY <1>5 DEF StartImage
    <3>2. pc' = [pc EXCEPT ![cur][i] = "enter"]
          BY <1>5 DEF StartImage
    <3> QED BY <3>1, <3>2 DEF Ended
  <2>3. \/ Phase(g) = "new" /\ Phase(g)' = "started"
        \/ Phase(g)' = Phase(g)
        BY <1>5 DEF StartImage
  <2> QED BY <1>0, <2>1, <2>2, <2>3 DEF LifeGoesOn, Life!Next, Life!Start
<1> QED BY <1>1, <1>2, <1>3, <1>4, <1>5

\* Whatever fails, and also when Reconcile does without a Stop, every image
\* manager is a controller as Reconcile sees it.
THEOREM ManagersImplement == Spec => ManagersLive
<1>1. Init => \A g \in Gen : Life(g)!Init
      BY DEF Init, All, Gen, Life!Init, Phase, Ended
<1>2. IInv /\ [Next]_vars
      => [\A g \in Gen :
            \/ Life(g)!Next
            \/ UNCHANGED <<Phase(g), ctxDone[g], Ended(g), panicked>>]_vars
  <2> SUFFICES ASSUME IInv, [Next]_vars, NEW g \in Gen
               PROVE  LifeGoesOn(g)
      BY DEF LifeGoesOn, lvars
  <2>1. CASE \/ NewAndStart \/ DigestFails \/ StopCancels \/ StopForgets
             \/ \E i \in Image : StartImage(i)
        BY <2>1, ManagerLife
  <2>2. ASSUME NEW h \in Gen, NEW i \in Image, ImgController(h, i)
        PROVE  LifeGoesOn(g)
        BY <2>2, ControllerMoves, MovesLife DEF IInv
  <2>3. CASE \/ \E h \in Gen, i \in Image : ServerClosesWatch(h, i)
             \/ \E p \in Pod : Kubelet(p) \/ ServiceDeleted(p)
    <3>1. Unseen /\ panicked' = panicked
          BY <2>3, WorldUnseen DEF Kubelet, ServiceDeleted, ServerClosesWatch, mgr
    <3> QED BY <3>1, OthersLife DEF Unseen, Phase, Ended
  <2>4. CASE UNCHANGED vars
        BY <2>4, OthersLife DEF vars, mgr, ctl, Phase, Ended
  <2> QED BY <2>1, <2>2, <2>3, <2>4 DEF Next
<1> QED BY <1>1, <1>2, Inductive, PTL DEF Spec, ManagersLive

=============================================================================
