----------------------------- MODULE FnPipeline -----------------------------
(***************************************************************************)
(* One execution of a pipeline: the executor, which calls the functions of *)
(* a DAG in parallel, the handler it calls for each of them, the nested    *)
(* executors of blocks, all over one output, and the caller, which is a    *)
(* Reconcile of the resource reconciler or the event handler of a watch.   *)
(* The executor is a library outside the repository.                       *)
(***************************************************************************)
EXTENDS RtDag

CONSTANTS Final,    \* the names whose outputs are not internal
          Callers   \* who executes pipelines, of "reconcile" and "event"

ASSUME FinalAssumption   == Final \subseteq Var
ASSUME CallersAssumption == Callers \subseteq {"reconcile", "event"}

VARIABLES
  exec,     \* exec[d]: the executor of d: "idle", "running", "ok", "failed"
  pc,       \* pc[v]: where FunctionRun is with v
  asked,    \* asked[v]: the names its input has an entry for
  got,      \* got[v]: those of them whose entry is not nil
  returned, \* returned[v]: the names in the output FnMap.Run returned
  outcome,  \* outcome[v]: "none", "outputs", "false" (condition), "error"
  out,      \* the names that are in the shared output
  caller,   \* "reconcile" or "event"
  at,       \* where the caller is
  taken,    \* what it got of the outputs
  panicked  \* a nil pointer was used, and the process is gone

handler == <<pc, asked, got, returned, outcome>>
user    == <<caller, at, taken>>
vars    == <<exec, handler, out, user, panicked>>

PC == {"idle", "input", "nested", "output", "result", "done"}

TypeOK ==
  /\ exec \in [DAG -> {"idle", "running", "ok", "failed"}]
  /\ pc \in [Vertex -> PC]
  /\ asked \in [Vertex -> SUBSET (Var \cup Vertex)]
  /\ got \in [Vertex -> SUBSET (Var \cup Vertex)]
  /\ returned \in [Vertex -> SUBSET Var]
  /\ outcome \in [Vertex -> {"none", "outputs", "false", "error"}]
  /\ out \subseteq Var \cup Vertex
  /\ caller \in Callers /\ at \in {"execute", "outputs", "end"}
  /\ taken \subseteq Final
  /\ panicked \in BOOLEAN

\* builder.New puts the data of the resource into the output, under the name
\* of the root; the caller then calls Run of the executor.
Init ==
  /\ exec = [d \in DAG |-> IF d = Top THEN "running" ELSE "idle"]
  /\ pc = [v \in Vertex |-> "idle"]
  /\ asked = [v \in Vertex |-> {}] /\ got = [v \in Vertex |-> {}]
  /\ returned = [v \in Vertex |-> {}] /\ outcome = [v \in Vertex |-> "none"]
  /\ out = {GetRootVertex(Top)}
  /\ caller \in Callers /\ at = "execute" /\ taken = {}
  /\ panicked = FALSE

Goto(v, from, to) == pc[v] = from /\ pc' = [pc EXCEPT ![v] = to]

\* What FunctionRun returns.
Success(v) == outcome[v] # "error"

Returned(d)  == exec[d] \in {"ok", "failed"}
Failed(v)    == pc[v] = "done" /\ ~Success(v)
Succeeded(v) == pc[v] = "done" /\ Success(v)

(***************************************************************************)
(* The executor                                                            *)
(***************************************************************************)
\* A function is called when all it depends on succeeded; one that waits may
\* still be called when Run has returned because of another that failed.
CallFunction(v) ==
  /\ exec[Parent[v]] # "idle"
  /\ \A u \in GetUpVertexes(v) : Succeeded(u)
  /\ Goto(v, "idle", "input")
  /\ UNCHANGED <<exec, asked, got, returned, outcome, out, user, panicked>>

\* Run returns after all functions, or after one that failed: the others run on.
\* It hands the outcome to RecordFinalResult.
RunReturns(d) ==
  /\ exec[d] = "running"
  /\ \/ /\ \A v \in Members(d) : Succeeded(v)
        /\ exec' = [exec EXCEPT ![d] = "ok"]
     \/ /\ \E v \in Members(d) : Failed(v)
        /\ exec' = [exec EXCEPT ![d] = "failed"]
  /\ UNCHANGED <<handler, out, user, panicked>>

(***************************************************************************)
(* The handler: FunctionRun                                                *)
(***************************************************************************)
GetInput(v, k) ==
  /\ pc[v] = "input" /\ k \in Needed(v) \ asked[v]
  /\ asked' = [asked EXCEPT ![v] = @ \cup {k}]
  /\ got' = [got EXCEPT ![v] = @ \cup ({k} \cap out)]
  /\ UNCHANGED <<exec, pc, returned, outcome, out, user, panicked>>

InputComplete(v) == pc[v] = "input" /\ asked[v] = Needed(v)

\* FnMap.Run returns: outputs, or none where there is an error or a condition
\* that is false.
Returns(v, outputs, result) ==
  /\ pc' = [pc EXCEPT ![v] = "output"]
  /\ returned' = [returned EXCEPT ![v] = outputs]
  /\ outcome' = [outcome EXCEPT ![v] = result]

\* The pods are out of reach once Reconcile has closed its clients.
Reachable == at # "end"

\* A range that is empty gives no outputs, but is no false condition.
RunFunction(v) ==
  /\ v \notin Block /\ InputComplete(v)
  /\ \/ \E o \in SUBSET Outputs[v] :
          /\ v \in Image /\ o # {} => caller = "reconcile" /\ Reachable
          /\ Returns(v, o, "outputs")
     \/ v \notin Root /\ \E r \in {"false", "error"} : Returns(v, {}, r)
  /\ UNCHANGED <<exec, asked, got, out, user, panicked>>

\* The event handler gives its pipeline no clients.
ClientIsNil(v) ==
  /\ v \in Image /\ InputComplete(v) /\ caller = "event"
  /\ panicked' = TRUE
  /\ UNCHANGED <<exec, handler, out, user>>

\* A block gets an executor of its own, unless its condition is false or fails.
RunBlock(v) ==
  /\ v \in Block /\ InputComplete(v)
  /\ Goto(v, "input", "nested")
  /\ exec' = [exec EXCEPT ![v] = "running"]
  /\ UNCHANGED <<asked, got, returned, outcome, out, user, panicked>>

SkipBlock(v) ==
  /\ v \in Block /\ InputComplete(v)
  /\ \E r \in {"false", "error"} : Returns(v, {}, r)
  /\ UNCHANGED <<exec, asked, got, out, user, panicked>>

\* Mutant: the block does not wait for its executor.
NestedIsThroughMutant(v)    == TRUE
NestedIsThrough(v)          == Returned(v)

\* Mutant: a failure of the nested executor is one of the block.
NestedResultMutant(v) == IF exec[v] = "failed" THEN "error" ELSE "outputs"
\* The result of the nested executor is not looked at.
NestedResult(v)       == "outputs"

BlockReturns(v) ==
  /\ pc[v] = "nested" /\ NestedIsThrough(v)
  /\ Returns(v, {}, NestedResult(v))
  /\ UNCHANGED <<exec, asked, got, out, user, panicked>>

AddOutput(v) ==
  /\ Goto(v, "output", "result")
  /\ out' = out \cup returned[v]
  /\ UNCHANGED <<exec, asked, got, returned, outcome, user, panicked>>

\* The result is added and FunctionRun returns.
AddResult(v) ==
  /\ Goto(v, "result", "done")
  /\ UNCHANGED <<exec, asked, got, returned, outcome, out, user, panicked>>

FunctionRun(v) ==
  \/ \E k \in Needed(v) : GetInput(v, k)
  \/ RunFunction(v) \/ ClientIsNil(v)
  \/ RunBlock(v) \/ SkipBlock(v) \/ BlockReturns(v)
  \/ AddOutput(v) \/ AddResult(v)

(***************************************************************************)
(* The callers: neither looks at the result                                *)
(***************************************************************************)
\* Mutant: the pipeline is left to a goroutine.
RunIsOverMutant      == TRUE
\* Mutant: only a pipeline that succeeded comes to an end.
RunHasSucceededMutant == exec[Top] = "ok"
RunIsOver            == Returned(Top)

\* Mutant: the internal outputs as well.
FinalOutputMutant == out
FinalOutput       == out \cap Final

GetFinalOutput ==
  /\ at = "execute" /\ RunIsOver
  /\ caller = "reconcile"
  /\ at' = "outputs" /\ taken' = FinalOutput
  /\ UNCHANGED <<exec, handler, out, caller, panicked>>

\* Reconcile closes its clients when it returns.
CloseClients ==
  /\ at = "outputs" /\ at' = "end"
  /\ UNCHANGED <<exec, handler, out, caller, taken, panicked>>

\* The event handler takes nothing and queues nothing.
EventHandled ==
  /\ at = "execute" /\ RunIsOver
  /\ caller = "event"
  /\ at' = "end"
  /\ UNCHANGED <<exec, handler, out, caller, taken, panicked>>

Next ==
  /\ ~panicked
  /\ \/ \E v \in Vertex : CallFunction(v) \/ FunctionRun(v)
     \/ \E d \in DAG : RunReturns(d)
     \/ GetFinalOutput \/ CloseClients \/ EventHandled

Spec == Init /\ [][Next]_vars

\* Functions return, the executor calls what it can and returns, the callers go
\* on; an executor that returned because of a failure need not call the others.
\* No execution is infinite, so this is fairness for each of them as well.
Progress ==
  /\ ~panicked
  /\ \/ \E v \in Vertex : FunctionRun(v)
     \/ \E v \in Vertex : CallFunction(v) /\ exec[Parent[v]] = "running"
     \/ \E d \in DAG : RunReturns(d)
     \/ GetFinalOutput \/ CloseClients \/ EventHandled

FairSpec == Spec /\ WF_vars(Progress)

(***************************************************************************)
(* Properties                                                              *)
(***************************************************************************)
Error(v) == outcome[v] = "error"
Bad      == \E v \in Vertex : Error(v)

Through(v) == pc[v] \in {"result", "done"}

\* As long as no function failed, the pipeline is as if its functions ran one
\* after the other, each reading and writing in one step, blocks and all.
EnclosingBlocks(v) == Enclosing[v]
OutputNames(v)     == Outputs[v]
Sequential ==
  INSTANCE Pipeline WITH
    Resource  <- GetRootVertex(Top),
    Up        <- GetUpVertexes,
    Around    <- EnclosingBlocks,
    Content   <- Members,
    Outermost <- Members(Top),
    Outputs   <- OutputNames,
    done  <- {v \in Vertex : Through(v)},
    out   <- out,
    seen  <- [v \in Vertex |-> IF Through(v) THEN got[v] ELSE {}],
    taken <- at \in {"outputs", "end"},
    bad   <- Bad
AsIfSequential == Sequential!Spec

\* Whatever fails elsewhere, a function that is called reads what its
\* references hold for good, unless something it comes after failed: only
\* blocks hide such a failure.
SeesFinal ==
  \A v \in Vertex :
    (\A u \in Earlier[v] : ~Error(u)) =>
      \A k \in asked[v] : k \in got[v] <=> k \in out

\* A pipeline without failure is over when its caller goes on: nothing is added
\* to the outputs it took, and no image is called through closed clients.
NothingInBackground ==
  at # "execute" /\ ~Bad =>
    /\ \A v \in Vertex : pc[v] \in {"idle", "done"}
    /\ caller = "reconcile" => taken = out \cap Final

(***************************************************************************)
(* The inductive invariant                                                 *)
(***************************************************************************)
\* Who is called comes after what succeeded, in blocks that were started; what
\* it has of its input, its outputs and its outcome is where its handler is.
CallFacts ==
  \A v \in Vertex :
    /\ pc[v] # "idle" =>
         /\ \A w \in {v} \cup Enclosing[v] : \A u \in GetUpVertexes(w) : Succeeded(u)
         /\ \A b \in Enclosing[v] : exec[b] # "idle"
    /\ got[v] \subseteq asked[v] /\ asked[v] \subseteq Needed(v)
    /\ pc[v] = "idle" => asked[v] = {}
    /\ pc[v] \notin {"idle", "input"} => asked[v] = Needed(v)
    /\ outcome[v] = "none" <=> pc[v] \in {"idle", "input", "nested"}
    /\ returned[v] \subseteq Outputs[v]

\* The functions of a DAG, those in its blocks included.
Inside(d) == {v \in Vertex : d = Top \/ d \in Enclosing[v]}

\* The block has returned, or is about to, and did not start its executor.
LeftOut(b) == pc[b] \in {"output", "result", "done"} /\ exec[b] = "idle"

\* The function has run, or is in a block that was left out.
Over(v) == pc[v] = "done" \/ \E b \in Enclosing[v] : LeftOut(b)

\* A block runs its executor while it waits for it; what an executor returned is
\* what became of its functions, and of all that is inside them.
ExecFacts ==
  /\ exec[Top] # "idle"
  /\ \A b \in Block :
       /\ exec[b] # "idle" => pc[b] \notin {"idle", "input"}
       /\ exec[b] = "running" => pc[b] = "nested"
  /\ \A v \in Vertex : pc[v] = "nested" => v \in Block
  /\ \A d \in DAG :
       /\ exec[d] = "ok" => \A v \in Members(d) : Succeeded(v)
       /\ exec[d] = "failed" => \E v \in Members(d) : Error(v)
       /\ exec[d] = "ok" /\ ~Bad => \A v \in Inside(d) : Over(v)

\* The caller goes on after the executor; beside the resource the output has
\* names only.
CallerFacts ==
  /\ at # "execute" => Returned(Top)
  /\ out \subseteq Var \cup {GetRootVertex(Top)}

IInv ==
  TypeOK /\ CallFacts /\ ExecFacts /\ CallerFacts /\ SeesFinal /\ NothingInBackground

\* The function failed by itself: a block whose nested executor was started did
\* not.
FailedItself(v) == Error(v) /\ (v \in Block => exec[v] = "idle")

\* What fails in a block stays in it: a DAG is executed to its end, with
\* success, unless one of its own functions fails by itself, whatever fails in
\* its blocks and whichever conditions are false.
BlockContainsFailure ==
  \A d \in DAG :
    exec[d] = "running"
    ~> exec[d] = "ok" \/ (\E v \in Members(d) : FailedItself(v)) \/ panicked

\* The caller gets through, unless an image is called without a client.
Terminates == <>(at = "end" \/ panicked)

=============================================================================
