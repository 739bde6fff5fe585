---------------------------- MODULE FnProxyProofs ----------------------------
(***************************************************************************)
(* For any requests and any number of permits: the permits taken are those *)
(* of the requests being served, and whoever waits is in the queue once.   *)
(***************************************************************************)
EXTENDS FnProxy, FiniteSetTheorems, SequenceTheorems, TLAPS

\* The queue without the waiter at place i.
LEMMA OthersProperties ==
  ASSUME queue \in Seq(Request), NEW i \in 1..Len(queue)
  PROVE  /\ Others(i) \in Seq(Request)
         /\ Len(Others(i)) = Len(queue) - 1
         /\ \A j \in 1..(Len(queue) - 1) :
              Others(i)[j] = queue[IF j < i THEN j ELSE j + 1]
<1> DEFINE before == SubSeq(queue, 1, i - 1)
           after  == SubSeq(queue, i + 1, Len(queue))
<1>1. Len(queue) \in Nat /\ \A j \in 1..Len(queue) : queue[j] \in Request
      BY LenProperties, ElementOfSeq
<1>2. /\ before \in Seq(Request) /\ Len(before) = i - 1
      /\ \A j \in 1..(i - 1) : before[j] = queue[j]
  <2>1. \A j \in 1..(i - 1) : queue[j] \in Request
        BY <1>1
  <2>2. 1 \in Int /\ i - 1 \in Int
        BY <1>1
  <2>3. /\ before \in Seq(Request)
        /\ Len(before) = IF 1 <= i - 1 THEN (i - 1) - 1 + 1 ELSE 0
        /\ \A j \in 1..((i - 1) - 1 + 1) : before[j] = queue[1 + j - 1]
        BY <2>1, <2>2, SubSeqProperties
  <2> HIDE DEF before
  <2> QED BY <1>1, <2>3
<1>3. /\ after \in Seq(Request) /\ Len(after) = Len(queue) - i
      /\ \A j \in 1..(Len(queue) - i) : after[j] = queue[i + j]
  <2>1. \A j \in (i + 1)..Len(queue) : queue[j] \in Request
        BY <1>1
  <2>2. i + 1 \in Int /\ Len(queue) \in Int
        BY <1>1
  <2>3. /\ after \in Seq(Request)
        /\ Len(after) = IF i + 1 <= Len(queue) THEN Len(queue) - (i + 1) + 1 ELSE 0
        /\ \A j \in 1..(Len(queue) - (i + 1) + 1) : after[j] = queue[(i + 1) + j - 1]
        BY <2>1, <2>2, SubSeqProperties
  <2> HIDE DEF after
  <2> QED BY <1>1, <2>3
<1>4. Others(i) = before \o after
      BY DEF Others
<1> HIDE DEF before, after
<1>5. /\ before \o after \in Seq(Request)
      /\ Len(before \o after) = Len(before) + Len(after)
      /\ \A j \in 1..(Len(before) + Len(after)) :
           (before \o after)[j] = IF j <= Len(before) THEN before[j] ELSE after[j - Len(before)]
      BY <1>2, <1>3, ConcatProperties
<1>6. ASSUME NEW j \in 1..(Len(queue) - 1)
      PROVE  (before \o after)[j] = queue[IF j < i THEN j ELSE j + 1]
  <2>1. CASE j < i
        BY <1>1, <1>2, <1>3, <1>5, <2>1
  <2>2. CASE ~(j < i)
    <3>1. j - (i - 1) \in 1..(Len(queue) - i) /\ i + (j - (i - 1)) = j + 1
          BY <1>1, <2>2
    <3>2. after[j - (i - 1)] = queue[j + 1]
          BY <1>3, <3>1
    <3> QED BY <1>1, <1>2, <1>3, <1>5, <2>2, <3>2
  <2> QED BY <2>1, <2>2
<1> QED BY <1>1, <1>2, <1>3, <1>4, <1>5, <1>6

\* There are finitely many holders, whoever they are.
LEMMA HoldersFinite ==
  /\ IsFiniteSet(Request)
  /\ IsFiniteSet(Holders) /\ Cardinality(Holders) \in Nat
<1>1. IsFiniteSet(Request)
      BY RequestAssumption, FS_Union DEF Request
<1>2. Holders \in SUBSET Request
      BY DEF Holders
<1> QED BY <1>1, <1>2, FS_Subset, FS_CardinalityType

\* A request that neither takes nor returns a permit and neither starts nor
\* ends to wait.
LEMMA PermitsAlone ==
  ASSUME PermitInv, TypeOK', UNCHANGED <<cur, queue>>,
         Holders' = Holders, Waiting' = Waiting
  PROVE  PermitInv'
BY DEF PermitInv, PermitsHeld, QueueIsWaiting, BoundedAndBusy

\* Moves of one request between places of the same kind.
LEMMA GotoAlone ==
  ASSUME PermitInv, TypeOK', UNCHANGED <<cur, queue>>, NEW c \in Request,
         NEW from, NEW to, Goto(c, from, to),
         from \in Holding <=> to \in Holding, from # "wait", to # "wait"
  PROVE  PermitInv'
<1>1. Holders' = Holders /\ Waiting' = Waiting
      BY DEF PermitInv, TypeOK, Goto, Holders, Waiting
<1> QED BY <1>1, PermitsAlone

\* A permit is taken, or the request joins the end of the queue.
LEMMA AcquirePermits ==
  ASSUME PermitInv, NEW c \in Request, Acquire(c)
  PROVE  PermitInv'
<1>1. queue \in Seq(Request) /\ Len(queue) \in Nat /\ MaxRPC \in Nat \ {0}
      BY LenProperties, MaxRPCAssumption DEF PermitInv, TypeOK
<1>2. CASE Free /\ Goto(c, "acquire", "handle") /\ cur' = cur + 1 /\ UNCHANGED queue
  <2>1. TypeOK'
        BY <1>2 DEF Acquire, PermitInv, TypeOK, Goto, PC
  <2>2. Holders' = Holders \cup {c} /\ c \notin Holders /\ Waiting' = Waiting
        BY <1>2 DEF Goto, PermitInv, TypeOK, Holders, Holding, Waiting
  <2>3. PermitsHeld'
        BY <1>2, <2>2, HoldersFinite, FS_AddElement DEF PermitInv, PermitsHeld
  <2>4. QueueIsWaiting'
        BY <1>2, <2>2 DEF PermitInv, QueueIsWaiting
  <2>5. BoundedAndBusy'
        BY <1>1, <1>2 DEF Free, BoundedAndBusy, PermitInv, TypeOK
  <2> QED BY <2>1, <2>3, <2>4, <2>5 DEF PermitInv
<1>3. CASE ~Free /\ Goto(c, "acquire", "wait") /\ queue' = Append(queue, c) /\ UNCHANGED cur
  <2>1. /\ queue' \in Seq(Request) /\ Len(queue') = Len(queue) + 1
        /\ \A i \in 1..Len(queue) : queue'[i] = queue[i]
        /\ queue'[Len(queue) + 1] = c
        BY <1>1, <1>3, AppendProperties
  <2>2. TypeOK'
        BY <1>3, <2>1 DEF Acquire, PermitInv, TypeOK, Goto, PC
  <2>3. Holders' = Holders /\ Waiting' = Waiting \cup {c} /\ c \notin Waiting
        BY <1>3 DEF Goto, PermitInv, TypeOK, Holders, Holding, Waiting
  <2>4. PermitsHeld'
        BY <1>3, <2>3 DEF PermitInv, PermitsHeld
  <2>5. \A i \in 1..Len(queue) : queue[i] # c
        BY <2>3 DEF PermitInv, QueueIsWaiting
  <2>6. QueueIsWaiting'
    <3>1. ASSUME NEW d \in Request
          PROVE  d \in Waiting' <=> \E i \in 1..Len(queue') : queue'[i] = d
      <4>1. d \in Waiting <=> \E i \in 1..Len(queue) : queue[i] = d
            BY DEF PermitInv, QueueIsWaiting
      <4>2. (\E i \in 1..Len(queue') : queue'[i] = d)
              <=> (\E i \in 1..Len(queue) : queue[i] = d) \/ d = c
            BY <1>1, <2>1
      <4> QED BY <2>3, <4>1, <4>2
    <3>2. ASSUME NEW i \in 1..Len(queue'), NEW j \in 1..Len(queue'), queue'[i] = queue'[j]
          PROVE  i = j
          BY <1>1, <2>1, <2>5, <3>2 DEF PermitInv, QueueIsWaiting
    <3> QED BY <3>1, <3>2 DEF QueueIsWaiting
  <2>7. BoundedAndBusy'
        BY <1>1, <1>3 DEF Free, BoundedAndBusy, PermitInv, TypeOK
  <2> QED BY <2>2, <2>4, <2>6, <2>7 DEF PermitInv
<1> QED BY <1>2, <1>3 DEF Acquire

\* What is left of the queue when the waiter at place i leaves it: all the
\* others, each of them once.
LEMMA WhoIsLeft ==
  ASSUME PermitInv, NEW i \in 1..Len(queue)
  PROVE  /\ \A d \in Request :
              (\E j \in 1..Len(Others(i)) : Others(i)[j] = d)
                <=> d \in Waiting \ {queue[i]}
         /\ \A j, k \in 1..Len(Others(i)) : Others(i)[j] = Others(i)[k] => j = k
<1>1. queue \in Seq(Request) /\ Len(queue) \in Nat
      BY LenProperties DEF PermitInv, TypeOK
<1>2. /\ Len(Others(i)) = Len(queue) - 1
      /\ \A j \in 1..(Len(queue) - 1) :
           Others(i)[j] = queue[IF j < i THEN j ELSE j + 1]
      BY <1>1, OthersProperties
<1>3. /\ \A d \in Request : d \in Waiting <=> \E k \in 1..Len(queue) : queue[k] = d
      /\ \A j, k \in 1..Len(queue) : queue[j] = queue[k] => j = k
      BY DEF PermitInv, QueueIsWaiting
<1>4. ASSUME NEW d \in Request, NEW j \in 1..Len(Others(i)), Others(i)[j] = d
      PROVE  d \in Waiting \ {queue[i]}
  <2>1. PICK k \in 1..Len(queue) : k # i /\ queue[k] = d
        BY <1>1, <1>2, <1>4
  <2> QED BY <1>3, <2>1
<1>5. ASSUME NEW d \in Request, d \in Waiting \ {queue[i]}
      PROVE  \E j \in 1..Len(Others(i)) : Others(i)[j] = d
  <2>1. PICK k \in 1..Len(queue) : queue[k] = d
        BY <1>3, <1>5
  <2>2. k # i
        BY <1>5, <2>1
  <2>3. CASE k < i
        BY <1>1, <1>2, <2>1, <2>3
  <2>4. CASE k > i
    <3>1. k - 1 \in 1..(Len(queue) - 1) /\ ~(k - 1 < i) /\ k - 1 + 1 = k
          BY <1>1, <2>4
    <3> QED BY <1>2, <2>1, <3>1
  <2> QED BY <1>1, <2>2, <2>3, <2>4
<1>6. ASSUME NEW j \in 1..Len(Others(i)), NEW k \in 1..Len(Others(i)),
             Others(i)[j] = Others(i)[k]
      PROVE  j = k
  <2>1. queue[IF j < i THEN j ELSE j + 1] = queue[IF k < i THEN k ELSE k + 1]
        BY <1>2, <1>6
  <2>2. /\ (IF j < i THEN j ELSE j + 1) \in 1..Len(queue)
        /\ (IF k < i THEN k ELSE k + 1) \in 1..Len(queue)
        BY <1>1, <1>2
  <2>3. (IF j < i THEN j ELSE j + 1) = (IF k < i THEN k ELSE k + 1)
        BY <1>3, <2>1, <2>2
  <2> QED BY <1>1, <1>2, <2>3
<1> QED BY <1>4, <1>5, <1>6

\* The waiter whose context is done leaves the queue, and holds nothing.
LEMMA GiveUpPermits ==
  ASSUME PermitInv, NEW c \in Request, GiveUp(c)
  PROVE  PermitInv'
<1>1. PICK i \in 1..Len(queue) : queue[i] = c /\ queue' = Others(i)
      BY DEF GiveUp
<1>2. queue \in Seq(Request) /\ Len(queue) \in Nat
      BY LenProperties DEF PermitInv, TypeOK
<1>3. queue' \in Seq(Request) /\ Len(queue') = Len(queue) - 1
      BY <1>1, <1>2, OthersProperties
<1>4. TypeOK'
      BY <1>3 DEF GiveUp, PermitInv, TypeOK, Goto, PC, Reply
<1>5. Holders' = Holders /\ Waiting' = Waiting \ {c}
      BY DEF GiveUp, Goto, PermitInv, TypeOK, Holders, Holding, Waiting
<1>6. PermitsHeld'
      BY <1>5 DEF GiveUp, PermitInv, PermitsHeld
<1>7. QueueIsWaiting'
      BY <1>1, <1>5, WhoIsLeft DEF QueueIsWaiting
<1>8. queue # <<>> /\ cur' = cur
      BY <1>1, <1>2 DEF GiveUp
<1>9. BoundedAndBusy'
      BY <1>8 DEF BoundedAndBusy, PermitInv
<1> QED BY <1>4, <1>6, <1>7, <1>9 DEF PermitInv

\* The permit goes to the first waiter, or back.
LEMMA ReleasePermits ==
  ASSUME PermitInv, NEW c \in Request, Release(c)
  PROVE  PermitInv'
<1>1. /\ queue \in Seq(Request) /\ Len(queue) \in Nat
      /\ MaxRPC \in Nat \ {0} /\ cur \in Nat
      BY LenProperties, MaxRPCAssumption DEF PermitInv, TypeOK
<1>2. c \in Holders
      BY DEF Release, Goto, Holders, Holding
<1>3. CASE queue = <<>>
  <2>1. /\ Goto(c, "release", "returned") /\ cur' = cur - 1 /\ queue' = queue
        /\ UNCHANGED <<stopped, ctxDone, reply, client, podUp>>
        BY <1>3 DEF Release
  <2>2. Holders' = Holders \ {c} /\ Waiting' = Waiting
        BY <2>1 DEF Goto, PermitInv, TypeOK, Holders, Holding, Waiting
  <2>3. Cardinality(Holders \ {c}) = cur - 1 /\ Cardinality(Holders \ {c}) \in Nat
        BY <1>2, HoldersFinite, FS_RemoveElement, FS_CardinalityType
           DEF PermitInv, PermitsHeld
  <2>4. PermitsHeld'
        BY <2>1, <2>2, <2>3 DEF PermitsHeld
  <2>5. cur' \in Nat
        BY <2>1, <2>3
  <2>6. TypeOK'
        BY <2>1, <2>5 DEF PermitInv, TypeOK, Goto, PC
  <2>7. QueueIsWaiting'
        BY <2>1, <2>2 DEF PermitInv, QueueIsWaiting
  <2>8. BoundedAndBusy'
        BY <1>1, <1>3, <2>1 DEF PermitInv, BoundedAndBusy
  <2> QED BY <2>4, <2>6, <2>7, <2>8 DEF PermitInv
<1>4. CASE queue # <<>>
  <2> DEFINE w == queue[1]
  <2>1. 1 \in 1..Len(queue) /\ w \in Request
        BY <1>1, <1>4, EmptySeq, ElementOfSeq
  <2>2. /\ pc[c] = "release"
        /\ pc' = [pc EXCEPT ![c] = "returned", ![w] = "granted"]
        /\ queue' = Others(1) /\ cur' = cur
        /\ UNCHANGED <<stopped, ctxDone, reply, client, podUp>>
        BY <1>4 DEF Release
  <2>3. w \in Waiting
        BY <2>1 DEF PermitInv, QueueIsWaiting
  <2> HIDE DEF w
  <2>4. w # c /\ w \notin Holders
        BY <2>2, <2>3 DEF Waiting, Holders, Holding
  <2>5. Holders' = (Holders \ {c}) \cup {w} /\ Waiting' = Waiting \ {w}
        BY <2>1, <2>2, <2>4 DEF PermitInv, TypeOK, Holders, Holding, Waiting
  <2>6. /\ IsFiniteSet(Holders \ {c})
        /\ Cardinality(Holders \ {c}) = Cardinality(Holders) - 1
        BY <1>2, HoldersFinite, FS_RemoveElement
  <2>7. Cardinality((Holders \ {c}) \cup {w}) = Cardinality(Holders \ {c}) + 1
        BY <2>4, <2>6, FS_AddElement
  <2>8. PermitsHeld'
        BY <1>1, <2>2, <2>5, <2>6, <2>7, HoldersFinite DEF PermitInv, PermitsHeld
  <2>9. queue' \in Seq(Request) /\ Len(queue') = Len(queue) - 1
        BY <1>1, <2>1, <2>2, OthersProperties
  <2>10. TypeOK'
        BY <2>1, <2>2, <2>9 DEF PermitInv, TypeOK, PC
  <2>11. QueueIsWaiting'
        BY <2>1, <2>2, <2>5, WhoIsLeft DEF QueueIsWaiting, w
  <2>12. BoundedAndBusy'
        BY <1>4, <2>2 DEF PermitInv, BoundedAndBusy
  <2> QED BY <2>8, <2>10, <2>11, <2>12 DEF PermitInv
<1> QED BY <1>3, <1>4

\* The other steps of a request: it comes, it is refused, it is handled.
LEMMA HandlersPermits ==
  ASSUME PermitInv, NEW c \in Request,
         \/ Send(c) \/ Select(c) \/ Wake(c) \/ Lookup(c) \/ CallReturns(c)
         \/ AnswerCheck(c) \/ OpenStream(c) \/ EndStream(c)
  PROVE  PermitInv'
<1> USE DEF PermitInv, TypeOK, Goto, PC, Reply, Holding
<1>1. CASE Send(c)
      BY <1>1, GotoAlone DEF Send
<1>2. CASE Select(c)
  <2>1. CASE ctxDone[c]
        BY <1>2, <2>1, GotoAlone DEF Select
  <2>2. CASE ~ctxDone[c]
        BY <1>2, <2>2, GotoAlone DEF Select
  <2> QED BY <2>1, <2>2
<1>3. CASE Wake(c)
      BY <1>3, GotoAlone DEF Wake
<1>4. CASE Lookup(c)
  <2>1. CASE NotReady(c)
        BY <1>4, <2>1, GotoAlone DEF Lookup
  <2>2. CASE ~NotReady(c)
        BY <1>4, <2>2, GotoAlone DEF Lookup
  <2> QED BY <2>1, <2>2
<1>5. CASE CallReturns(c)
      BY <1>5, GotoAlone DEF CallReturns
<1>6. CASE AnswerCheck(c)
      BY <1>6, GotoAlone DEF AnswerCheck
<1>7. CASE OpenStream(c)
      BY <1>7, GotoAlone DEF OpenStream
<1>8. CASE EndStream(c)
      BY <1>8, GotoAlone DEF EndStream
<1> QED BY <1>1, <1>2, <1>3, <1>4, <1>5, <1>6, <1>7, <1>8

\* What the clients, the image controllers, the pods and Stop do leaves every
\* request where it is.
LEMMA OthersPermits ==
  ASSUME PermitInv,
         (\E c \in Request : Done(c)) \/ ImageController \/ Pod \/ Stop \/ UNCHANGED vars
  PROVE  PermitInv'
<1>1. UNCHANGED <<pc, reply, cur, queue>>
      BY DEF Done, ImageController, Pod, Stop, vars
<1>2. TypeOK'
      BY <1>1 DEF PermitInv, TypeOK, Done, ImageController, Pod, Stop, vars
<1>3. Holders' = Holders /\ Waiting' = Waiting
      BY <1>1 DEF Holders, Waiting
<1> QED BY <1>1, <1>2, <1>3, PermitsAlone

\* Nobody is served and nobody waits at first.
LEMMA PermitsInit == Init => PermitInv
<1> SUFFICES ASSUME Init PROVE PermitInv
    OBVIOUS
<1>1. TypeOK
      BY EmptySeq DEF Init, TypeOK, PC, Reply
<1>2. Holders = {} /\ Waiting = {}
      BY DEF Init, Holders, Holding, Waiting
<1>3. PermitsHeld
      BY <1>2, FS_EmptySet DEF Init, PermitsHeld
<1>4. Len(queue) = 0
      BY EmptySeq DEF Init
<1>5. QueueIsWaiting
      BY <1>2, <1>4 DEF QueueIsWaiting
<1>6. BoundedAndBusy
      BY MaxRPCAssumption DEF Init, BoundedAndBusy
<1> QED BY <1>1, <1>3, <1>5, <1>6 DEF PermitInv

\* Every step keeps the permits.
LEMMA PermitsStep == PermitInv /\ [Next]_vars => PermitInv'
<1> SUFFICES ASSUME PermitInv, [Next]_vars PROVE PermitInv'
    OBVIOUS
<1>1. ASSUME NEW c \in Request, Send(c) PROVE PermitInv'
      BY <1>1, HandlersPermits
<1>2. ASSUME NEW c \in Request, Serve(c) PROVE PermitInv'
      BY <1>2, AcquirePermits, GiveUpPermits, ReleasePermits, HandlersPermits DEF Serve
<1>3. CASE (\E c \in Request : Done(c)) \/ ImageController \/ Pod \/ Stop \/ UNCHANGED vars
      BY <1>3, OthersPermits
<1> QED BY <1>1, <1>2, <1>3 DEF Next

\* Whatever the requests, the permits and the order of the steps: the permits
\* taken are those of the requests being served, at most MaxRPC, whoever waits
\* is in the queue once, and nobody waits while a permit is free.
THEOREM Permits == Spec => []PermitInv
BY PermitsInit, PermitsStep, PTL DEF Spec

=============================================================================
