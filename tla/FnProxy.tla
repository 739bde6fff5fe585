------------------------------- MODULE FnProxy -------------------------------
(***************************************************************************)
(* The function proxy: a gRPC server whose requests share MaxRPC permits   *)
(* of a semaphore.  Requests that execute a function (ExecuteFunction,     *)
(* ApplyResource, DeleteResource) look a client up in the image store and  *)
(* call the function's pod; health checks answer at once; health watches   *)
(* last as long as their client wants.  The semaphore (golang.org/x/sync), *)
(* gRPC, the requests' clients, the pods and the image controllers that    *)
(* set and delete clients are external.                                    *)
(***************************************************************************)
EXTENDS Integers, Sequences, FiniteSets

CONSTANTS
  Exec,    \* requests to execute a function
  Check,   \* health checks
  Watch,   \* health watches
  Unknown, \* the requests of Exec that name a controller nobody knows
  MaxRPC   \* config.MaxRPC

ASSUME RequestAssumption ==
  /\ IsFiniteSet(Exec) /\ IsFiniteSet(Check) /\ IsFiniteSet(Watch)
  /\ Exec \cap Check = {} /\ Exec \cap Watch = {} /\ Check \cap Watch = {}
  /\ Unknown \subseteq Exec
ASSUME MaxRPCAssumption == MaxRPC \in Nat \ {0}

Request == Exec \cup Check \cup Watch
Unary   == Exec \cup Check

VARIABLES
  stopped, \* the context of the server is cancelled
  pc,      \* pc[c]: the goroutine that serves request c
  ctxDone, \* ctxDone[c]: the context of request c is done
  reply,   \* reply[c]: what c was answered
  cur,     \* permits taken
  queue,   \* the requests that wait for a permit, in order
  client,  \* the image store has a client for the image
  podUp    \* the pod of the image answers

vars == <<stopped, pc, ctxDone, reply, cur, queue, client, podUp>>

PC    == {"new", "select", "acquire", "wait", "granted", "handle", "rpc",
          "stream", "release", "returned"}
Reply == {"none", "refused", "notready", "ok", "error"}

TypeOK ==
  /\ stopped \in BOOLEAN
  /\ pc \in [Request -> PC]
  /\ ctxDone \in [Request -> BOOLEAN]
  /\ reply \in [Request -> Reply]
  /\ cur \in Nat
  /\ queue \in Seq(Request)
  /\ client \in BOOLEAN /\ podUp \in BOOLEAN

Init ==
  /\ stopped = FALSE
  /\ pc = [c \in Request |-> "new"]
  /\ ctxDone = [c \in Request |-> FALSE]
  /\ reply = [c \in Request |-> "none"]
  /\ cur = 0 /\ queue = <<>>
  /\ client = FALSE /\ podUp = FALSE

Goto(c, from, to) == pc[c] = from /\ pc' = [pc EXCEPT ![c] = to]

(***************************************************************************)
(* The semaphore: Acquire and Release of one permit                        *)
(***************************************************************************)
\* The queue without the waiter at place i.
Others(i) == SubSeq(queue, 1, i - 1) \o SubSeq(queue, i + 1, Len(queue))

Free == cur < MaxRPC /\ queue = <<>>

Acquire(c) ==
  /\ \/ Free  /\ Goto(c, "acquire", "handle") /\ cur' = cur + 1 /\ UNCHANGED queue
     \/ ~Free /\ Goto(c, "acquire", "wait") /\ queue' = Append(queue, c) /\ UNCHANGED cur
  /\ UNCHANGED <<stopped, ctxDone, reply, client, podUp>>

\* The waiter sees that it was granted a permit, done or not.
Wake(c) ==
  /\ Goto(c, "granted", "handle")
  /\ UNCHANGED <<stopped, ctxDone, reply, cur, queue, client, podUp>>

\* Mutant: Acquire ignores the context.
GiveUpMutant(c) == FALSE /\ UNCHANGED vars

\* The waiter sees that its context is done, and that it was not granted one.
GiveUp(c) ==
  /\ ctxDone[c]
  /\ Goto(c, "wait", "returned")
  /\ \E i \in 1..Len(queue) : queue[i] = c /\ queue' = Others(i)
  /\ reply' = [reply EXCEPT ![c] = "refused"]
  /\ UNCHANGED <<stopped, ctxDone, cur, client, podUp>>

\* The deferred Release: the first waiter, if there is one, gets the permit.
Release(c) ==
  /\ IF queue = <<>>
     THEN Goto(c, "release", "returned") /\ cur' = cur - 1 /\ UNCHANGED queue
     ELSE /\ pc[c] = "release"
          /\ pc' = [pc EXCEPT ![c] = "returned", ![queue[1]] = "granted"]
          /\ queue' = Others(1)
          /\ UNCHANGED cur
  /\ UNCHANGED <<stopped, ctxDone, reply, client, podUp>>

(***************************************************************************)
(* The handlers                                                            *)
(***************************************************************************)
\* acquireSem: a request that is done is refused before it takes a permit.
Select(c) ==
  /\ Goto(c, "select", IF ctxDone[c] THEN "returned" ELSE "acquire")
  /\ reply' = [reply EXCEPT ![c] = IF ctxDone[c] THEN "refused" ELSE @]
  /\ UNCHANGED <<stopped, ctxDone, cur, queue, client, podUp>>

\* A controller without image store, an image without client: not ready.
NotReady(c) == c \in Unknown \/ ~client

\* Mutant: a request that finds no client returns and keeps its permit.
LookupMutant(c) ==
  /\ c \in Exec
  /\ Goto(c, "handle", IF NotReady(c) THEN "returned" ELSE "rpc")
  /\ reply' = [reply EXCEPT ![c] = IF NotReady(c) THEN "notready" ELSE @]
  /\ UNCHANGED <<stopped, ctxDone, cur, queue, client, podUp>>

Lookup(c) ==
  /\ c \in Exec
  /\ Goto(c, "handle", IF NotReady(c) THEN "release" ELSE "rpc")
  /\ reply' = [reply EXCEPT ![c] = IF NotReady(c) THEN "notready" ELSE @]
  /\ UNCHANGED <<stopped, ctxDone, cur, queue, client, podUp>>

\* The call through the client found before, whatever became of it since.
CallReturns(c) ==
  /\ Goto(c, "rpc", "release")
  /\ \/ podUp /\ ~ctxDone[c] /\ reply' = [reply EXCEPT ![c] = "ok"]
     \/ (~podUp \/ ctxDone[c]) /\ reply' = [reply EXCEPT ![c] = "error"]
  /\ UNCHANGED <<stopped, ctxDone, cur, queue, client, podUp>>

AnswerCheck(c) ==
  /\ c \in Check
  /\ Goto(c, "handle", "release")
  /\ reply' = [reply EXCEPT ![c] = "ok"]
  /\ UNCHANGED <<stopped, ctxDone, cur, queue, client, podUp>>

\* The status is sent once and never changes; the stream lasts.
OpenStream(c) ==
  /\ c \in Watch
  /\ Goto(c, "handle", "stream")
  /\ reply' = [reply EXCEPT ![c] = "ok"]
  /\ UNCHANGED <<stopped, ctxDone, cur, queue, client, podUp>>

EndStream(c) ==
  /\ ctxDone[c]
  /\ Goto(c, "stream", "release")
  /\ UNCHANGED <<stopped, ctxDone, reply, cur, queue, client, podUp>>

(***************************************************************************)
(* The others                                                              *)
(***************************************************************************)
\* A request arrives at its handler.
Send(c) ==
  /\ Goto(c, "new", "select")
  /\ UNCHANGED <<stopped, ctxDone, reply, cur, queue, client, podUp>>

\* The client goes away, or the time of a unary request is over.
Done(c) ==
  /\ pc[c] \notin {"new", "returned"} /\ ~ctxDone[c]
  /\ ctxDone' = [ctxDone EXCEPT ![c] = TRUE]
  /\ UNCHANGED <<stopped, pc, reply, cur, queue, client, podUp>>

ImageController ==
  /\ client' = ~client
  /\ UNCHANGED <<stopped, pc, ctxDone, reply, cur, queue, podUp>>

Pod ==
  /\ podUp' = ~podUp
  /\ UNCHANGED <<stopped, pc, ctxDone, reply, cur, queue, client>>

\* Stop, or the end of the context of Start: both cancel the server's context.
Stop ==
  /\ ~stopped /\ stopped' = TRUE
  /\ UNCHANGED <<pc, ctxDone, reply, cur, queue, client, podUp>>

Serve(c) ==
  \/ Select(c) \/ Acquire(c) \/ Wake(c) \/ GiveUp(c) \/ Release(c)
  \/ Lookup(c) \/ CallReturns(c) \/ AnswerCheck(c)
  \/ OpenStream(c) \/ EndStream(c)

Next ==
  \/ \E c \in Request : Send(c) \/ Serve(c) \/ Done(c)
  \/ ImageController \/ Pod \/ Stop

Spec == Init /\ [][Next]_vars

(***************************************************************************)
(* Fairness: goroutines are scheduled and unary requests have a deadline;  *)
(* a pod need not answer, a stream's client need not go away.              *)
(***************************************************************************)
Fairness ==
  /\ \A c \in Unary : WF_vars(Done(c))
  /\ \A c \in Request :
       WF_vars(Serve(c) /\ (pc[c] = "rpc" => ctxDone[c]))

FairSpec == Spec /\ Fairness

(***************************************************************************)
(* Properties                                                              *)
(***************************************************************************)
Holding == {"granted", "handle", "rpc", "stream", "release"}
Holders == {c \in Request : pc[c] \in Holding}
Waiting == {c \in Request : pc[c] = "wait"}

\* The permits taken are those of the requests being served: none is lost on
\* the way out of a handler, or between a grant and a context that is done.
PermitsHeld == cur = Cardinality(Holders)

\* Whoever waits is in the queue once, and nobody else is.
QueueIsWaiting ==
  /\ \A c \in Request : c \in Waiting <=> \E i \in 1..Len(queue) : queue[i] = c
  /\ \A i, j \in 1..Len(queue) : queue[i] = queue[j] => i = j

\* No more than MaxRPC at a time, and nobody waits while a permit is free.
BoundedAndBusy == cur <= MaxRPC /\ (queue # <<>> => cur = MaxRPC)

\* The inductive invariant of the permits.
PermitInv == TypeOK /\ PermitsHeld /\ QueueIsWaiting /\ BoundedAndBusy

\* A unary request returns, even when watches hold all the permits for good;
\* a watch returns when its client has gone.
Returns ==
  \A c \in Request :
    pc[c] # "new" /\ (c \in Unary \/ ctxDone[c]) ~> pc[c] = "returned"

=============================================================================
