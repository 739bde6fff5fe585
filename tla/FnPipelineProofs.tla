-------------------------- MODULE FnPipelineProofs --------------------------
(***************************************************************************)
(* For any DAGs, nested to any depth, whatever runs in parallel and        *)
(* whatever fails: a function reads what its references hold for good, and *)
(* without failures the pipeline implements the sequential one.            *)
(***************************************************************************)
EXTENDS FnPipeline, TLAPS

(***************************************************************************)
(* The DAGs: least closed sets                                             *)
(***************************************************************************)
\* The blocks a function is in are closed under Parent, and are in every set
\* of blocks that is.
LEMMA EnclosingIsLeast ==
  ASSUME NEW v \in Vertex
  PROVE  /\ Enclosing[v] \subseteq Block
         /\ \A w \in Enclosing[v] \cup {v} : Parent[w] # Top => Parent[w] \in Enclosing[v]
         /\ \A S \in SUBSET Block :
              (\A w \in S \cup {v} : Parent[w] # Top => Parent[w] \in S) => Enclosing[v] \subseteq S
<1>1. Enclosing[v] = {b \in Block : \A S \in SUBSET Block :
        (\A w \in S \cup {v} : Parent[w] # Top => Parent[w] \in S) => b \in S}
      BY DEF Enclosing
<1>2. ASSUME NEW w \in Enclosing[v] \cup {v}, Parent[w] # Top
      PROVE  Parent[w] \in Enclosing[v]
  <2>1. w \in Vertex
        BY <1>1, VertexAssumption
  <2>2. Parent[w] \in Block
        BY <1>2, <2>1, VertexAssumption DEF DAG
  <2>3. ASSUME NEW S \in SUBSET Block,
               \A x \in S \cup {v} : Parent[x] # Top => Parent[x] \in S
        PROVE  Parent[w] \in S
    <3>1. w \in S \cup {v}
          BY <1>1, <2>3
    <3> QED BY <1>2, <2>3, <3>1
  <2> QED BY <1>1, <2>2, <2>3
<1>3. ASSUME NEW S \in SUBSET Block,
             \A w \in S \cup {v} : Parent[w] # Top => Parent[w] \in S
      PROVE  Enclosing[v] \subseteq S
      BY <1>1, <1>3
<1> QED BY <1>1, <1>2, <1>3

\* They are the block around it and the blocks around that.
LEMMA EnclosingOfParent ==
  ASSUME NEW v \in Vertex
  PROVE  /\ Parent[v] = Top => Enclosing[v] = {}
         /\ Parent[v] # Top =>
              /\ Parent[v] \in Block /\ Parent[v] \in Vertex
              /\ Enclosing[v] = {Parent[v]} \cup Enclosing[Parent[v]]
<1>1. CASE Parent[v] = Top
  <2> DEFINE S == {}
  <2>1. \A w \in S \cup {v} : Parent[w] # Top => Parent[w] \in S
        BY <1>1
  <2>2. S \in SUBSET Block
        OBVIOUS
  <2>3. Enclosing[v] \subseteq S
        BY <2>1, <2>2, EnclosingIsLeast
  <2> QED BY <1>1, <2>3
<1>2. CASE Parent[v] # Top
  <2> DEFINE p == Parent[v]
  <2>1. p \in Block /\ p \in Vertex
        BY <1>2, VertexAssumption DEF DAG
  <2>2. Enclosing[v] \subseteq {p} \cup Enclosing[p]
    <3> DEFINE S == {p} \cup Enclosing[p]
    <3>1. S \in SUBSET Block
          BY <2>1, EnclosingIsLeast
    <3>2. \A w \in S \cup {v} : Parent[w] # Top => Parent[w] \in S
          BY <2>1, EnclosingIsLeast
    <3> QED BY <3>1, <3>2, EnclosingIsLeast
  <2>3. Enclosing[p] \subseteq Enclosing[v]
    <3>1. Enclosing[v] \in SUBSET Block
          BY EnclosingIsLeast
    <3>2. \A w \in Enclosing[v] \cup {p} : Parent[w] # Top => Parent[w] \in Enclosing[v]
          BY <1>2, EnclosingIsLeast
    <3> QED BY <2>1, <3>1, <3>2, EnclosingIsLeast
  <2>4. p \in Enclosing[v]
        BY <1>2, EnclosingIsLeast
  <2> QED BY <1>2, <2>1, <2>2, <2>3, <2>4
<1> QED BY <1>1, <1>2

\* The chain of blocks around a function that is inside d ends with a function
\* of d.
LEMMA EnclosingChain ==
  ASSUME NEW d \in DAG, NEW v \in Inside(d)
  PROVE  v \in Members(d) \/ \E m \in Enclosing[v] : m \in Members(d)
<1> v \in Vertex
    BY DEF Inside
<1>1. CASE d = Top
      BY <1>1, VertexAssumption, EnclosingIsLeast DEF Members
<1>2. CASE d # Top
  <2>1. d \in Enclosing[v] /\ Enclosing[v] \subseteq Block /\ Block \subseteq Vertex
        BY <1>2, EnclosingIsLeast, VertexAssumption DEF Inside
  <2> SUFFICES ASSUME \A w \in Enclosing[v] \cup {v} : Parent[w] # d
               PROVE  FALSE
      BY <2>1 DEF Members
  <2> DEFINE S == Enclosing[v] \ {d}
  <2>2. \A w \in S \cup {v} : Parent[w] # Top => Parent[w] \in S
        BY EnclosingIsLeast
  <2>3. S \in SUBSET Block
        BY <2>1
  <2>4. Enclosing[v] \subseteq S
        BY <2>2, <2>3, EnclosingIsLeast
  <2> QED BY <2>1, <2>4
<1> QED BY <1>1, <1>2

\* What comes before a function is closed under dependencies and contents, and
\* is in every set that is.
LEMMA EarlierIsLeast ==
  ASSUME NEW v \in Vertex
  PROVE  /\ Earlier[v] \subseteq Vertex
         /\ \A w \in Earlier[v] \cup {v} \cup Enclosing[v] : GetUpVertexes(w) \subseteq Earlier[v]
         /\ \A w \in Earlier[v] : Members(w) \subseteq Earlier[v]
         /\ \A S \in SUBSET Vertex :
              /\ \A w \in S \cup {v} \cup Enclosing[v] : GetUpVertexes(w) \subseteq S
              /\ \A w \in S : Members(w) \subseteq S
              => Earlier[v] \subseteq S
<1> DEFINE Closed(S) == /\ \A w \in S \cup {v} \cup Enclosing[v] : GetUpVertexes(w) \subseteq S
                        /\ \A w \in S : Members(w) \subseteq S
<1>1. Earlier[v] = {u \in Vertex : \A S \in SUBSET Vertex : Closed(S) => u \in S}
      BY DEF Earlier
<1>2. ASSUME NEW w \in Earlier[v] \cup {v} \cup Enclosing[v], NEW u \in GetUpVertexes(w)
      PROVE  u \in Earlier[v]
  <2>1. u \in Vertex
        BY DEF GetUpVertexes
  <2>2. ASSUME NEW S \in SUBSET Vertex, Closed(S)
        PROVE  u \in S
    <3>1. w \in S \cup {v} \cup Enclosing[v]
          BY <1>1, <2>2
    <3> QED BY <1>2, <2>2, <3>1
  <2> QED BY <1>1, <2>1, <2>2
<1>3. ASSUME NEW w \in Earlier[v], NEW u \in Members(w)
      PROVE  u \in Earlier[v]
  <2>1. u \in Vertex
        BY DEF Members
  <2>2. ASSUME NEW S \in SUBSET Vertex, Closed(S)
        PROVE  u \in S
    <3>1. w \in S
          BY <1>1, <2>2
    <3> QED BY <1>3, <2>2, <3>1
  <2> QED BY <1>1, <2>1, <2>2
<1>4. ASSUME NEW S \in SUBSET Vertex, Closed(S)
      PROVE  Earlier[v] \subseteq S
      BY <1>1, <1>4
<1> QED BY <1>1, <1>2, <1>3, <1>4

\* The root of a DAG is one of its functions.
LEMMA RootIsMember ==
  ASSUME NEW d \in DAG
  PROVE  GetRootVertex(d) \in Members(d) /\ GetRootVertex(d) \in Vertex
<1>1. \E r \in Members(d) : r \in Root
      BY VertexAssumption
<1> QED BY <1>1 DEF GetRootVertex, Members

(***************************************************************************)
(* The steps                                                               *)
(***************************************************************************)
\* FnMap.Run returns for v, a block or not.
RunEnds(v) ==
  /\ pc[v] \in {"input", "nested"} /\ (pc[v] = "input" => asked[v] = Needed(v))
  /\ v \in Block => (pc[v] = "input" \/ exec[v] \in {"ok", "failed"})
  /\ \E o \in SUBSET Outputs[v] : \E r \in {"outputs", "false", "error"} : Returns(v, o, r)
  /\ UNCHANGED <<exec, asked, got, out, user, panicked>>

LEMMA RunEndsSteps ==
  ASSUME NEW v \in Vertex, RunFunction(v) \/ SkipBlock(v) \/ BlockReturns(v)
  PROVE  RunEnds(v)
<1>1. CASE RunFunction(v)
      BY <1>1 DEF RunFunction, RunEnds, InputComplete
<1>2. CASE SkipBlock(v)
      BY <1>2 DEF SkipBlock, RunEnds, InputComplete
<1>3. CASE BlockReturns(v)
      BY <1>3 DEF BlockReturns, NestedResult, RunEnds, NestedIsThrough, Returned
<1> QED BY <1>1, <1>2, <1>3

\* The kinds of step there are; a panic changes nothing else.
LEMMA Steps ==
  ASSUME [Next]_vars
  PROVE  \/ \E v \in Vertex : \/ CallFunction(v) \/ (\E k \in Needed(v) : GetInput(v, k))
                              \/ RunEnds(v) \/ RunBlock(v) \/ AddOutput(v) \/ AddResult(v)
         \/ \E d \in DAG : RunReturns(d)
         \/ GetFinalOutput \/ CloseClients \/ EventHandled
         \/ UNCHANGED <<exec, handler, out, user>>
<1>1. ASSUME NEW v \in Vertex, FunctionRun(v)
      PROVE  \/ (\E k \in Needed(v) : GetInput(v, k))
             \/ RunEnds(v) \/ RunBlock(v) \/ AddOutput(v) \/ AddResult(v)
             \/ UNCHANGED <<exec, handler, out, user>>
  <2>1. ClientIsNil(v) => UNCHANGED <<exec, handler, out, user>>
        BY DEF ClientIsNil
  <2> QED BY <1>1, <2>1, RunEndsSteps DEF FunctionRun
<1>2. UNCHANGED vars => UNCHANGED <<exec, handler, out, user>>
      BY DEF vars
<1> QED BY <1>1, <1>2 DEF Next

LEMMA NeededType ==
  ASSUME NEW v \in Vertex
  PROVE  /\ Needed(v) \subseteq Var \cup Vertex
         /\ \A k \in Needed(v) \cap Var : \E u \in Earlier[v] : k \in Outputs[u]
<1>1. Needed(v) \subseteq References[v] \cup {GetRootVertex(Parent[v])}
      BY DEF Needed
<1>2. GetRootVertex(Parent[v]) \in Vertex /\ GetRootVertex(Parent[v]) \notin Var
  <2>1. Parent[v] \in DAG
        BY VertexAssumption
  <2> QED BY <2>1, RootIsMember, NameAssumption
<1>3. References[v] \in SUBSET Var /\ \A k \in References[v] : \E u \in Earlier[v] : k \in Outputs[u]
      BY NameAssumption
<1> QED BY <1>1, <1>2, <1>3

LEMMA TypeStep == TypeOK /\ [Next]_vars => TypeOK'
<1> SUFFICES ASSUME TypeOK, [Next]_vars PROVE TypeOK'
    OBVIOUS
<1> USE DEF TypeOK, handler, user, Goto
<1>1. ASSUME NEW v \in Vertex, CallFunction(v) PROVE TypeOK'
      BY <1>1 DEF CallFunction, PC
<1>2. ASSUME NEW v \in Vertex, NEW k \in Needed(v), GetInput(v, k) PROVE TypeOK'
  <2>1. k \in Var \cup Vertex
        BY NeededType
  <2>2. /\ asked' = [asked EXCEPT ![v] = asked[v] \cup {k}]
        /\ got' = [got EXCEPT ![v] = got[v] \cup ({k} \cap out)]
        BY <1>2 DEF GetInput
  <2>3. asked' \in [Vertex -> SUBSET (Var \cup Vertex)]
    <3>1. asked[v] \cup {k} \in SUBSET (Var \cup Vertex)
          BY <2>1
    <3> QED BY <2>2, <3>1
  <2>4. got' \in [Vertex -> SUBSET (Var \cup Vertex)]
    <3>1. got[v] \cup ({k} \cap out) \in SUBSET (Var \cup Vertex)
          BY <2>1
    <3> QED BY <2>2, <3>1
  <2> QED BY <1>2, <2>3, <2>4 DEF GetInput
<1>3. ASSUME NEW v \in Vertex, RunEnds(v) PROVE TypeOK'
  <2>1. PICK o \in SUBSET Outputs[v], r \in {"outputs", "false", "error"} : Returns(v, o, r)
        BY <1>3 DEF RunEnds
  <2>2. o \in SUBSET Var
        BY NameAssumption
  <2>3. /\ pc' \in [Vertex -> PC] /\ returned' \in [Vertex -> SUBSET Var]
        /\ outcome' \in [Vertex -> {"none", "outputs", "false", "error"}]
        BY <2>1, <2>2 DEF Returns, PC
  <2> QED BY <1>3, <2>3 DEF RunEnds
<1>4. ASSUME NEW v \in Vertex, RunBlock(v) PROVE TypeOK'
  <2>1. v \in DAG /\ exec' = [exec EXCEPT ![v] = "running"] /\ pc' = [pc EXCEPT ![v] = "nested"]
        BY <1>4 DEF RunBlock, DAG
  <2>2. exec' \in [DAG -> {"idle", "running", "ok", "failed"}] /\ pc' \in [Vertex -> PC]
        BY <2>1 DEF PC
  <2> QED BY <1>4, <2>2 DEF RunBlock
<1>5. ASSUME NEW v \in Vertex, AddOutput(v) PROVE TypeOK'
      BY <1>5 DEF AddOutput, PC
<1>6. ASSUME NEW v \in Vertex, AddResult(v) PROVE TypeOK'
      BY <1>6 DEF AddResult, PC
<1>7. ASSUME NEW d \in DAG, RunReturns(d) PROVE TypeOK'
      BY <1>7 DEF RunReturns
<1>8. ASSUME GetFinalOutput \/ CloseClients \/ EventHandled PROVE TypeOK'
      BY <1>8 DEF GetFinalOutput, CloseClients, EventHandled, FinalOutput
<1>9. ASSUME UNCHANGED <<exec, handler, out, user>> PROVE TypeOK'
  <2>1. panicked' \in BOOLEAN
        BY DEF Next, CallFunction, FunctionRun, GetInput, RunFunction, ClientIsNil, RunBlock,
               SkipBlock, BlockReturns, AddOutput, AddResult, RunReturns, GetFinalOutput,
               CloseClients, EventHandled, vars
  <2> QED BY <1>9, <2>1
<1> QED BY <1>1, <1>2, <1>3, <1>4, <1>5, <1>6, <1>7, <1>8, <1>9, Steps

(***************************************************************************)
(* What stays                                                              *)
(***************************************************************************)
\* Handlers go on, executors too, and outcomes are final.
Stays(u) ==
  /\ pc[u] # "idle" => pc'[u] # "idle"
  /\ pc[u] \in {"output", "result", "done"} => pc'[u] \in {"output", "result", "done"}
  /\ pc[u] \in {"result", "done"} => pc'[u] \in {"result", "done"}
  /\ pc[u] = "done" => pc'[u] = "done"
  /\ outcome[u] # "none" => outcome'[u] = outcome[u]

ExecStays(d) ==
  /\ exec[d] # "idle" => exec'[d] # "idle"
  /\ exec[d] \in {"ok", "failed"} => exec'[d] = exec[d]
  /\ exec[d] = "idle" /\ exec'[d] # "idle" => d \in Block /\ pc[d] = "input"

LEMMA HandlersGoOn ==
  ASSUME TypeOK, CallFacts, [Next]_vars, NEW u \in Vertex
  PROVE  Stays(u)
<1> USE DEF TypeOK, handler, Goto, Stays
<1>1. ASSUME NEW v \in Vertex, CallFunction(v) PROVE Stays(u)
      BY <1>1 DEF CallFunction
<1>2. ASSUME NEW v \in Vertex, NEW k \in Needed(v), GetInput(v, k) PROVE Stays(u)
      BY <1>2 DEF GetInput
<1>3. ASSUME NEW v \in Vertex, RunEnds(v) PROVE Stays(u)
  <2>1. outcome[v] = "none"
        BY <1>3 DEF RunEnds, CallFacts
  <2>2. PICK r \in {"outputs", "false", "error"} : /\ pc' = [pc EXCEPT ![v] = "output"]
                                                 /\ outcome' = [outcome EXCEPT ![v] = r]
        BY <1>3 DEF RunEnds, Returns
  <2> QED BY <1>3, <2>1, <2>2 DEF RunEnds
<1>4. ASSUME NEW v \in Vertex, RunBlock(v) PROVE Stays(u)
      BY <1>4, Zenon DEF RunBlock
<1>5. ASSUME NEW v \in Vertex, AddOutput(v) \/ AddResult(v) PROVE Stays(u)
      BY <1>5 DEF AddOutput, AddResult
<1>6. ASSUME NEW d \in DAG, RunReturns(d) PROVE Stays(u)
      BY <1>6 DEF RunReturns
<1>7. ASSUME GetFinalOutput \/ CloseClients \/ EventHandled \/ UNCHANGED <<exec, handler, out, user>>
      PROVE  Stays(u)
      BY <1>7 DEF GetFinalOutput, CloseClients, EventHandled
<1> QED BY <1>1, <1>2, <1>3, <1>4, <1>5, <1>6, <1>7, Steps

LEMMA ExecutorsGoOn ==
  ASSUME TypeOK, ExecFacts, [Next]_vars, NEW d \in DAG
  PROVE  ExecStays(d)
<1> USE DEF TypeOK, handler, Goto, ExecStays
<1>1. ASSUME NEW v \in Vertex, RunBlock(v) PROVE ExecStays(d)
  <2>1. v \in Block /\ v \in DAG /\ exec' = [exec EXCEPT ![v] = "running"] /\ pc[v] = "input"
        BY <1>1 DEF RunBlock, DAG
  <2>2. exec[v] = "idle"
        BY <2>1 DEF ExecFacts
  <2> QED BY <2>1, <2>2
<1>2. ASSUME NEW e \in DAG, RunReturns(e) PROVE ExecStays(d)
  <2>1. exec[e] = "running" /\ \E r \in {"ok", "failed"} : exec' = [exec EXCEPT ![e] = r]
        BY <1>2 DEF RunReturns
  <2> QED BY <2>1
<1>3. ASSUME exec' = exec PROVE ExecStays(d)
      BY <1>3
<1>4. ASSUME NEW v \in Vertex, NEW k \in Needed(v), GetInput(v, k) PROVE exec' = exec
      BY <1>4 DEF GetInput
<1>5. ASSUME NEW v \in Vertex, CallFunction(v) \/ RunEnds(v) \/ AddOutput(v) \/ AddResult(v)
      PROVE  exec' = exec
      BY <1>5 DEF CallFunction, RunEnds, AddOutput, AddResult
<1>6. ASSUME GetFinalOutput \/ CloseClients \/ EventHandled \/ UNCHANGED <<exec, handler, out, user>>
      PROVE  exec' = exec
      BY <1>6 DEF GetFinalOutput, CloseClients, EventHandled
<1> QED BY <1>1, <1>2, <1>3, <1>4, <1>5, <1>6, Steps

\* What succeeded, failed or is over stays so.
LEMMA Lasting ==
  ASSUME TypeOK, CallFacts, ExecFacts, [Next]_vars
  PROVE  /\ \A u \in Vertex : /\ Succeeded(u) => Succeeded(u)'
                              /\ Error(u) => Error(u)'
                              /\ Over(u) => Over(u)'
         /\ Bad => Bad'
<1>1. \A u \in Vertex : Stays(u)
      BY HandlersGoOn
<1>2. \A d \in DAG : ExecStays(d)
      BY ExecutorsGoOn
<1>3. \A u \in Vertex : Succeeded(u) => Succeeded(u)'
      BY <1>1 DEF Stays, Succeeded, Success, CallFacts
<1>4. \A u \in Vertex : Error(u) => Error(u)'
      BY <1>1 DEF Stays, Error
<1>5. \A b \in Block : LeftOut(b) => LeftOut(b)'
  <2> SUFFICES ASSUME NEW b \in Block, LeftOut(b) PROVE LeftOut(b)'
      OBVIOUS
  <2>1. Stays(b) /\ ExecStays(b)
        BY <1>1, <1>2, VertexAssumption DEF DAG
  <2> QED BY <2>1 DEF LeftOut, Stays, ExecStays
<1>6. \A u \in Vertex : Over(u) => Over(u)'
  <2> SUFFICES ASSUME NEW u \in Vertex, Over(u) PROVE Over(u)'
      OBVIOUS
  <2>1. CASE pc[u] = "done"
        BY <1>1, <2>1 DEF Over, Stays
  <2>2. CASE \E b \in Enclosing[u] : LeftOut(b)
        BY <1>5, <2>2, EnclosingIsLeast DEF Over
  <2> QED BY <2>1, <2>2 DEF Over
<1>7. Bad => Bad'
      BY <1>4 DEF Bad
<1> QED BY <1>3, <1>4, <1>6, <1>7

\* A function that is over runs no more.
LEMMA OverIsIdle ==
  ASSUME CallFacts, NEW u \in Vertex, Over(u)
  PROVE  pc[u] \in {"idle", "done"}
BY DEF Over, LeftOut, CallFacts

\* When a function is called and nothing before it failed, all that is before it
\* is over: what is over and before it contains what it depends on, and is
\* closed.
LEMMA EarlierIsOver ==
  ASSUME TypeOK, CallFacts, ExecFacts, NEW v \in Vertex, pc[v] # "idle",
         \A u \in Earlier[v] : ~Error(u)
  PROVE  \A u \in Earlier[v] : Over(u)
<1> DEFINE S == {u \in Earlier[v] : Over(u)}
<1>1. S \in SUBSET Vertex
      BY EarlierIsLeast
<1>2. ASSUME NEW w \in S \cup {v} \cup Enclosing[v], NEW u \in GetUpVertexes(w)
      PROVE  u \in S
  <2>1. u \in Earlier[v] /\ u \in Vertex /\ w \in Vertex
    <3>1. w \in Earlier[v] \cup {v} \cup Enclosing[v]
          OBVIOUS
    <3>2. w \in Vertex
          BY <1>1, EnclosingIsLeast, VertexAssumption
    <3> QED BY <1>2, <3>1, <3>2, EarlierIsLeast
  <2>2. CASE w \in {v} \cup Enclosing[v]
        BY <1>2, <2>1, <2>2 DEF CallFacts, Succeeded, Over
  <2>3. CASE w \in S /\ pc[w] = "done"
        BY <1>2, <2>1, <2>3 DEF CallFacts, Succeeded, Over
  <2>4. CASE w \in S /\ \E b \in Enclosing[w] : LeftOut(b)
    <3>1. Parent[u] = Parent[w]
          BY <1>2, EdgeAssumption DEF GetUpVertexes
    <3>2. Enclosing[u] = Enclosing[w]
          BY <2>1, <3>1, EnclosingOfParent
    <3> QED BY <2>1, <2>4, <3>2 DEF Over
  <2> QED BY <2>2, <2>3, <2>4 DEF Over
<1>3. ASSUME NEW w \in S, NEW u \in Members(w)
      PROVE  u \in S
  <2>1. u \in Earlier[v] /\ u \in Vertex /\ w \in Vertex /\ Parent[u] = w
        BY <1>1, EarlierIsLeast DEF Members
  <2>2. w \in Block /\ Enclosing[u] = {w} \cup Enclosing[w]
        BY <2>1, EnclosingOfParent, VertexAssumption
  <2>3. CASE \E b \in Enclosing[w] : LeftOut(b)
        BY <2>1, <2>2, <2>3 DEF Over
  <2>4. CASE pc[w] = "done"
    <3>1. exec[w] \in {"idle", "ok", "failed"}
          BY <2>2, <2>4 DEF ExecFacts, TypeOK, DAG
    <3>2. CASE exec[w] = "idle"
          BY <2>1, <2>2, <2>4, <3>2 DEF Over, LeftOut
    <3>3. CASE exec[w] = "ok"
          BY <1>3, <2>1, <2>2, <3>3 DEF ExecFacts, DAG, Succeeded, Over
    <3>4. CASE exec[w] = "failed"
      <4>1. PICK x \in Members(w) : Error(x)
            BY <2>2, <3>4 DEF ExecFacts, DAG
      <4>2. x \in Earlier[v]
            BY <4>1, EarlierIsLeast
      <4> QED BY <4>1, <4>2
    <3> QED BY <3>1, <3>2, <3>3, <3>4
  <2> QED BY <2>3, <2>4 DEF Over
<1>4. Earlier[v] \subseteq S
      BY <1>1, <1>2, <1>3, EarlierIsLeast
<1> QED BY <1>4

(***************************************************************************)
(* The inductive invariant                                                 *)
(***************************************************************************)
\* The two halves of CallFacts: who may be called, and where a handler is.
Callable(v) ==
  /\ \A w \in {v} \cup Enclosing[v] : \A u \in GetUpVertexes(w) : Succeeded(u)
  /\ \A b \in Enclosing[v] : exec[b] # "idle"
HandlerFacts(v) ==
  /\ got[v] \subseteq asked[v] /\ asked[v] \subseteq Needed(v)
  /\ pc[v] = "idle" => asked[v] = {}
  /\ pc[v] \notin {"idle", "input"} => asked[v] = Needed(v)
  /\ outcome[v] = "none" <=> pc[v] \in {"idle", "input", "nested"}
  /\ returned[v] \subseteq Outputs[v]

LEMMA CallParts ==
  /\ CallFacts <=> \A v \in Vertex : (pc[v] # "idle" => Callable(v)) /\ HandlerFacts(v)
  /\ CallFacts' <=> \A v \in Vertex : (pc'[v] # "idle" => Callable(v)') /\ HandlerFacts(v)'
BY DEF CallFacts, Callable, HandlerFacts

LEMMA CallStep ==
  ASSUME TypeOK, CallFacts, ExecFacts, [Next]_vars
  PROVE  CallFacts'
<1>1. ASSUME NEW u \in Vertex, Callable(u) PROVE Callable(u)'
  <2>1. ASSUME NEW w \in {u} \cup Enclosing[u], NEW x \in GetUpVertexes(w) PROVE Succeeded(x)'
        BY <1>1, Lasting DEF Callable, GetUpVertexes
  <2>2. ASSUME NEW b \in Enclosing[u] PROVE exec'[b] # "idle"
    <3>1. b \in DAG /\ exec[b] # "idle"
          BY <1>1, EnclosingIsLeast DEF Callable, DAG
    <3> QED BY <3>1, ExecutorsGoOn DEF ExecStays
  <2> QED BY <2>1, <2>2 DEF Callable
<1>2. ASSUME NEW v \in Vertex, CallFunction(v) PROVE Callable(v)
  <2>1. \A u \in GetUpVertexes(v) : Succeeded(u)
        BY <1>2 DEF CallFunction
  <2>2. CASE Parent[v] = Top
        BY <2>1, <2>2, EnclosingOfParent DEF Callable
  <2>3. CASE Parent[v] # Top
    <3> DEFINE p == Parent[v]
    <3>1. p \in Block /\ p \in Vertex /\ Enclosing[v] = {p} \cup Enclosing[p] /\ exec[p] # "idle"
          BY <1>2, <2>3, EnclosingOfParent DEF CallFunction
    <3>2. Callable(p)
          BY <3>1, CallParts DEF ExecFacts
    <3> HIDE DEF p
    <3> QED BY <2>1, <3>1, <3>2 DEF Callable
  <2> QED BY <2>2, <2>3
<1> DEFINE New(u) == pc[u] = "idle" /\ pc'[u] # "idle"
<1>3. ASSUME NEW u \in Vertex, New(u) PROVE CallFunction(u)
  <2> USE DEF TypeOK, handler, Goto
  <2>1. ASSUME NEW v \in Vertex, CallFunction(v) PROVE u = v
        BY <1>3, <2>1 DEF CallFunction
  <2>2. ASSUME NEW v \in Vertex,
               \/ (\E k \in Needed(v) : GetInput(v, k)) \/ RunEnds(v) \/ RunBlock(v)
               \/ AddOutput(v) \/ AddResult(v)
        PROVE  FALSE
    <3>1. pc[v] # "idle" /\ (pc' = pc \/ \E to \in PC : pc' = [pc EXCEPT ![v] = to])
          BY <2>2 DEF GetInput, RunEnds, Returns, RunBlock, AddOutput, AddResult, PC
    <3> QED BY <1>3, <3>1
  <2>3. ASSUME \/ \E d \in DAG : RunReturns(d)
               \/ GetFinalOutput \/ CloseClients \/ EventHandled
               \/ UNCHANGED <<exec, handler, out, user>>
        PROVE  FALSE
    <3>1. pc' = pc
          BY <2>3 DEF RunReturns, GetFinalOutput, CloseClients, EventHandled
    <3> QED BY <1>3, <3>1
  <2> QED BY <2>1, <2>2, <2>3, Steps
<1>4. ASSUME NEW u \in Vertex, pc'[u] # "idle" PROVE Callable(u)'
  <2>1. CASE pc[u] # "idle"
        BY <1>1, <2>1, CallParts
  <2>2. CASE pc[u] = "idle"
        BY <1>1, <1>2, <1>3, <1>4, <2>2
  <2> QED BY <2>1, <2>2
<1>5. ASSUME NEW u \in Vertex PROVE HandlerFacts(u)'
  <2> USE DEF TypeOK, handler, Goto, HandlerFacts
  <2>0. HandlerFacts(u) /\ Needed(u)' = Needed(u) /\ Outputs[u] \subseteq Var
        BY CallParts, NameAssumption DEF Needed
  <2>1. ASSUME NEW v \in Vertex, CallFunction(v) PROVE HandlerFacts(u)'
        BY <2>0, <2>1 DEF CallFunction
  <2>2. ASSUME NEW v \in Vertex, NEW k \in Needed(v), GetInput(v, k) PROVE HandlerFacts(u)'
    <3>1. /\ asked'[u] = (IF u = v THEN asked[u] \cup {k} ELSE asked[u])
          /\ got'[u] = (IF u = v THEN got[u] \cup ({k} \cap out) ELSE got[u])
          /\ pc[v] = "input" /\ UNCHANGED <<pc, returned, outcome>>
          BY <2>2 DEF GetInput
    <3> QED BY <2>0, <3>1
  <2>3. ASSUME NEW v \in Vertex, RunEnds(v) PROVE HandlerFacts(u)'
    <3>1. PICK o \in SUBSET Outputs[v], r \in {"outputs", "false", "error"} : Returns(v, o, r)
          BY <2>3 DEF RunEnds
    <3>2. /\ pc'[u] = (IF u = v THEN "output" ELSE pc[u])
          /\ returned'[u] = (IF u = v THEN o ELSE returned[u])
          /\ outcome'[u] = (IF u = v THEN r ELSE outcome[u])
          BY <3>1 DEF Returns
    <3>3. UNCHANGED <<asked, got>> /\ (u = v => asked[u] = Needed(u))
          BY <2>0, <2>3 DEF RunEnds
    <3> QED BY <2>0, <3>1, <3>2, <3>3
  <2>4. ASSUME NEW v \in Vertex, RunBlock(v) PROVE HandlerFacts(u)'
    <3>1. /\ pc'[u] = (IF u = v THEN "nested" ELSE pc[u])
          /\ pc[v] = "input" /\ asked[v] = Needed(v) /\ UNCHANGED <<asked, got, returned, outcome>>
          BY <2>4 DEF RunBlock, InputComplete
    <3> QED BY <2>0, <3>1
  <2>5. ASSUME NEW v \in Vertex, AddOutput(v) \/ AddResult(v) PROVE HandlerFacts(u)'
    <3>1. /\ pc'[u] = pc[u] \/ (pc[u] \in {"output", "result"} /\ pc'[u] \in {"result", "done"})
          /\ UNCHANGED <<asked, got, returned, outcome>>
          BY <2>5 DEF AddOutput, AddResult
    <3> QED BY <2>0, <3>1
  <2>6. ASSUME \/ \E d \in DAG : RunReturns(d)
               \/ GetFinalOutput \/ CloseClients \/ EventHandled
               \/ UNCHANGED <<exec, handler, out, user>>
        PROVE  HandlerFacts(u)'
    <3>1. UNCHANGED <<pc, asked, got, returned, outcome>>
          BY <2>6 DEF RunReturns, GetFinalOutput, CloseClients, EventHandled
    <3> QED BY <2>0, <3>1
  <2> QED BY <2>1, <2>2, <2>3, <2>4, <2>5, <2>6, Steps
<1> QED BY <1>4, <1>5, CallParts

LEMMA ExecStep ==
  ASSUME TypeOK, CallFacts, ExecFacts, [Next]_vars
  PROVE  ExecFacts'
<1> USE DEF TypeOK, handler, Goto
<1>1. \A d \in DAG : ExecStays(d)
      BY ExecutorsGoOn
<1>2. ASSUME NEW b \in Block
      PROVE  /\ exec'[b] # "idle" => pc'[b] \notin {"idle", "input"}
             /\ exec'[b] = "running" => pc'[b] = "nested"
  <2>0. /\ b \in DAG /\ b \in Vertex
        /\ exec[b] # "idle" => pc[b] \notin {"idle", "input"}
        /\ exec[b] = "running" => pc[b] = "nested"
        BY VertexAssumption DEF DAG, ExecFacts
  <2>1. ASSUME NEW v \in Vertex,
               \/ CallFunction(v) \/ (\E k \in Needed(v) : GetInput(v, k))
               \/ AddOutput(v) \/ AddResult(v)
        PROVE  /\ exec' = exec /\ (pc[b] = "nested" => pc'[b] = "nested")
               /\ pc[b] \notin {"idle", "input"} => pc'[b] \notin {"idle", "input"}
        BY <2>0, <2>1 DEF CallFunction, GetInput, AddOutput, AddResult
  <2>2. ASSUME NEW v \in Vertex, RunEnds(v)
        PROVE  /\ exec' = exec /\ (v = b => exec[b] # "running")
               /\ pc'[b] = (IF v = b THEN "output" ELSE pc[b])
    <3>1. exec' = exec /\ pc' = [pc EXCEPT ![v] = "output"] /\ (v \in Block => pc[v] = "input" \/ exec[v] \in {"ok", "failed"})
          BY <2>2 DEF RunEnds, Returns
    <3> QED BY <2>0, <3>1
  <2>3. ASSUME NEW v \in Vertex, RunBlock(v)
        PROVE  /\ exec'[b] = (IF v = b THEN "running" ELSE exec[b])
               /\ pc'[b] = (IF v = b THEN "nested" ELSE pc[b])
        BY <2>0, <2>3 DEF RunBlock
  <2>4. ASSUME NEW d \in DAG, RunReturns(d)
        PROVE  pc' = pc /\ (exec'[b] = exec[b] \/ (exec[b] = "running" /\ exec'[b] # "running"))
        BY <2>0, <2>4 DEF RunReturns
  <2>5. ASSUME GetFinalOutput \/ CloseClients \/ EventHandled \/ UNCHANGED <<exec, handler, out, user>>
        PROVE  pc' = pc /\ exec' = exec
        BY <2>5 DEF GetFinalOutput, CloseClients, EventHandled
  <2> QED BY <2>0, <2>1, <2>2, <2>3, <2>4, <2>5, Steps
<1>3. ASSUME NEW u \in Vertex, pc'[u] = "nested" PROVE u \in Block
  <2>1. ASSUME NEW v \in Vertex, RunBlock(v) PROVE u = v \/ pc[u] = "nested"
        BY <1>3, <2>1 DEF RunBlock
  <2>2. ASSUME NEW v \in Vertex,
               \/ CallFunction(v) \/ (\E k \in Needed(v) : GetInput(v, k)) \/ RunEnds(v)
               \/ AddOutput(v) \/ AddResult(v)
        PROVE  pc[u] = "nested"
    <3>1. pc' = pc \/ \E to \in PC \ {"nested"} : pc' = [pc EXCEPT ![v] = to]
          BY <2>2 DEF CallFunction, GetInput, RunEnds, Returns, AddOutput, AddResult, PC
    <3> QED BY <1>3, <3>1
  <2>3. ASSUME \/ \E d \in DAG : RunReturns(d)
               \/ GetFinalOutput \/ CloseClients \/ EventHandled
               \/ UNCHANGED <<exec, handler, out, user>>
        PROVE  pc[u] = "nested"
        BY <1>3, <2>3 DEF RunReturns, GetFinalOutput, CloseClients, EventHandled
  <2>4. ASSUME NEW v \in Vertex, RunBlock(v) PROVE v \in Block
        BY <2>4 DEF RunBlock
  <2> QED BY <2>1, <2>2, <2>3, <2>4, Steps DEF ExecFacts
<1>4. ASSUME NEW d \in DAG, exec[d] = exec'[d]
      PROVE  /\ exec'[d] = "ok" => \A v \in Members(d) : Succeeded(v)'
             /\ exec'[d] = "failed" => \E v \in Members(d) : Error(v)'
             /\ exec'[d] = "ok" /\ ~Bad' => \A v \in Inside(d) : Over(v)'
  <2>1. Members(d) \subseteq Vertex /\ Inside(d) \subseteq Vertex
        BY DEF Members, Inside
  <2>2. /\ exec[d] = "ok" => \A v \in Members(d) : Succeeded(v)
        /\ exec[d] = "failed" => \E v \in Members(d) : Error(v)
        /\ exec[d] = "ok" /\ ~Bad => \A v \in Inside(d) : Over(v)
        BY DEF ExecFacts
  <2> QED BY <1>4, <2>1, <2>2, Lasting
<1>5. ASSUME NEW d \in DAG, exec[d] # exec'[d], exec'[d] \in {"ok", "failed"} PROVE RunReturns(d)
  <2>1. ASSUME NEW v \in Vertex, RunBlock(v) PROVE FALSE
        BY <1>5, <2>1 DEF RunBlock
  <2>2. ASSUME NEW e \in DAG, RunReturns(e) PROVE e = d
        BY <1>5, <2>2 DEF RunReturns
  <2>3. ASSUME NEW v \in Vertex,
               \/ CallFunction(v) \/ (\E k \in Needed(v) : GetInput(v, k)) \/ RunEnds(v)
               \/ AddOutput(v) \/ AddResult(v)
        PROVE  FALSE
        BY <1>5, <2>3 DEF CallFunction, GetInput, RunEnds, AddOutput, AddResult
  <2>4. ASSUME GetFinalOutput \/ CloseClients \/ EventHandled \/ UNCHANGED <<exec, handler, out, user>>
        PROVE  FALSE
        BY <1>5, <2>4 DEF GetFinalOutput, CloseClients, EventHandled
  <2> QED BY <2>1, <2>2, <2>3, <2>4, Steps
<1>6. ASSUME NEW d \in DAG, RunReturns(d)
      PROVE  /\ exec'[d] = "ok" => \A v \in Members(d) : Succeeded(v)'
             /\ exec'[d] = "failed" => \E v \in Members(d) : Error(v)'
             /\ exec'[d] = "ok" /\ ~Bad' => \A v \in Inside(d) : Over(v)'
  <2>1. \/ exec'[d] = "ok" /\ \A v \in Members(d) : Succeeded(v)
        \/ exec'[d] = "failed" /\ \E v \in Members(d) : Failed(v)
        BY <1>6 DEF RunReturns
  <2>2. Members(d) \subseteq Vertex
        BY DEF Members
  <2>3. CASE exec'[d] = "failed"
    <3>1. PICK v \in Members(d) : Failed(v)
          BY <2>1, <2>3
    <3>2. Error(v)
          BY <3>1 DEF Failed, Success, Error
    <3> QED BY <2>2, <2>3, <3>2, Lasting
  <2>4. CASE exec'[d] = "ok"
    <3>1. \A v \in Members(d) : Succeeded(v) /\ pc[v] = "done"
          BY <2>1, <2>4 DEF Succeeded
    <3>2. ASSUME ~Bad, NEW u \in Inside(d) PROVE Over(u)
      <4>1. u \in Vertex
            BY DEF Inside
      <4>2. CASE u \in Members(d)
            BY <3>1, <4>2 DEF Over
      <4>3. CASE \E m \in Enclosing[u] : m \in Members(d)
        <5>1. PICK m \in Enclosing[u] : m \in Members(d)
              BY <4>3
        <5>2. m \in Block /\ m \in DAG /\ pc[m] = "done" /\ u \in Inside(m)
              BY <3>1, <4>1, <5>1, EnclosingIsLeast DEF DAG, Inside
        <5>3. exec[m] \in {"idle", "ok", "failed"}
              BY <5>2 DEF ExecFacts
        <5>4. CASE exec[m] = "idle"
              BY <5>1, <5>2, <5>4 DEF Over, LeftOut
        <5>5. CASE exec[m] = "ok"
              BY <3>2, <5>2, <5>5 DEF ExecFacts
        <5>6. CASE exec[m] = "failed"
          <6>1. \E x \in Members(m) : Error(x)
                BY <5>2, <5>6 DEF ExecFacts
          <6> QED BY <3>2, <6>1 DEF Bad, Members
        <5> QED BY <5>3, <5>4, <5>5, <5>6
      <4> QED BY <4>2, <4>3, EnclosingChain
    <3>3. Inside(d) \subseteq Vertex
          BY DEF Inside
    <3> QED BY <2>2, <2>4, <3>1, <3>2, <3>3, Lasting
  <2> QED BY <2>1, <2>3, <2>4
<1>7. exec'[Top] # "idle"
      BY <1>1 DEF ExecFacts, ExecStays, DAG
<1>8. ASSUME NEW d \in DAG
      PROVE  /\ exec'[d] = "ok" => \A v \in Members(d) : Succeeded(v)'
             /\ exec'[d] = "failed" => \E v \in Members(d) : Error(v)'
             /\ exec'[d] = "ok" /\ ~Bad' => \A v \in Inside(d) : Over(v)'
  <2>1. CASE exec[d] = exec'[d]
        BY <1>4, <2>1
  <2>2. CASE exec[d] # exec'[d] /\ exec'[d] \in {"ok", "failed"}
        BY <1>5, <1>6, <2>2
  <2>3. CASE exec'[d] \notin {"ok", "failed"}
        BY <2>3
  <2> QED BY <2>1, <2>2, <2>3
<1> QED BY <1>2, <1>3, <1>7, <1>8 DEF ExecFacts

LEMMA CallerStep ==
  ASSUME TypeOK, CallFacts, ExecFacts, CallerFacts, [Next]_vars
  PROVE  CallerFacts'
<1> USE DEF TypeOK, handler, user, Goto
<1>1. Top \in DAG
      BY DEF DAG
<1>2. ASSUME Returned(Top) PROVE Returned(Top)'
      BY <1>1, <1>2, ExecutorsGoOn DEF ExecStays, Returned
<1>3. ASSUME NEW v \in Vertex,
             \/ CallFunction(v) \/ (\E k \in Needed(v) : GetInput(v, k))
             \/ RunEnds(v) \/ RunBlock(v) \/ AddOutput(v) \/ AddResult(v)
      PROVE  at' = at /\ (out' = out \/ out' = out \cup returned[v])
      BY <1>3 DEF CallFunction, GetInput, RunEnds, RunBlock, AddOutput, AddResult
<1>4. ASSUME \/ \E d \in DAG : RunReturns(d)
             \/ GetFinalOutput \/ CloseClients \/ EventHandled
             \/ UNCHANGED <<exec, handler, out, user>>
      PROVE  out' = out /\ (at' = at \/ at # "execute" \/ Returned(Top))
      BY <1>4 DEF RunReturns, GetFinalOutput, CloseClients, EventHandled, RunIsOver
<1>5. at' # "execute" => Returned(Top)'
      BY <1>2, <1>3, <1>4, Steps DEF CallerFacts
<1>6. out' \subseteq Var \cup {GetRootVertex(Top)}
      BY <1>3, <1>4, Steps DEF CallerFacts
<1> QED BY <1>5, <1>6 DEF CallerFacts

(***************************************************************************)
(* What a function reads                                                   *)
(***************************************************************************)
\* The one that may add what v reads is over by the time v reads it.
LEMMA SeesFinalStep ==
  ASSUME TypeOK, CallFacts, ExecFacts, SeesFinal, [Next]_vars
  PROVE  SeesFinal'
<1> USE DEF TypeOK, handler, user, Goto
<1> SUFFICES ASSUME NEW v \in Vertex, \A u \in Earlier[v] : ~Error(u)', NEW k \in asked'[v]
             PROVE  k \in got'[v] <=> k \in out'
    BY DEF SeesFinal
<1>1. \A u \in Earlier[v] : ~Error(u)
      BY Lasting, EarlierIsLeast
<1>2. \A n \in asked[v] : n \in got[v] <=> n \in out
      BY <1>1 DEF SeesFinal
<1>3. got[v] \subseteq asked[v] /\ asked[v] \subseteq Needed(v) /\ (pc[v] = "idle" => asked[v] = {})
      BY CallParts DEF HandlerFacts
<1>4. ASSUME NEW w \in Vertex, NEW n \in Needed(w), GetInput(w, n)
      PROVE  k \in got'[v] <=> k \in out'
  <2>1. /\ asked'[v] = (IF v = w THEN asked[v] \cup {n} ELSE asked[v])
        /\ got'[v] = (IF v = w THEN got[v] \cup ({n} \cap out) ELSE got[v])
        /\ out' = out
        BY <1>4 DEF GetInput
  <2> QED BY <1>2, <1>3, <2>1
<1>5. ASSUME NEW w \in Vertex, AddOutput(w)
      PROVE  k \in got'[v] <=> k \in out'
  <2>1. /\ k \in asked[v] /\ got'[v] = got[v]
        /\ out' = out \cup returned[w] /\ pc[w] = "output"
        BY <1>5 DEF AddOutput
  <2>2. ASSUME k \in returned[w] PROVE FALSE
    <3>1. k \in Outputs[w] /\ k \in Var
          BY <2>2, CallParts, NameAssumption DEF HandlerFacts
    <3>2. PICK u \in Earlier[v] : k \in Outputs[u]
          BY <1>3, <2>1, <3>1, NeededType
    <3>3. u = w
          BY <3>1, <3>2, NameAssumption, EarlierIsLeast
    <3>4. Over(w)
          BY <1>1, <1>3, <2>1, <3>2, <3>3, EarlierIsOver
    <3> QED BY <2>1, <3>4, OverIsIdle
  <2> QED BY <1>2, <2>1, <2>2
<1>6. ASSUME NEW w \in Vertex, CallFunction(w) \/ RunEnds(w) \/ RunBlock(w) \/ AddResult(w)
      PROVE  UNCHANGED <<asked, got, out>>
      BY <1>6 DEF CallFunction, RunEnds, RunBlock, AddResult
<1>7. ASSUME \/ \E d \in DAG : RunReturns(d)
             \/ GetFinalOutput \/ CloseClients \/ EventHandled
             \/ UNCHANGED <<exec, handler, out, user>>
      PROVE  UNCHANGED <<asked, got, out>>
      BY <1>7 DEF RunReturns, GetFinalOutput, CloseClients, EventHandled
<1> QED BY <1>2, <1>4, <1>5, <1>6, <1>7, Steps

(***************************************************************************)
(* What is left when the caller goes on                                    *)
(***************************************************************************)
LEMMA AllOver ==
  ASSUME TypeOK, CallFacts, ExecFacts, Returned(Top), ~Bad
  PROVE  /\ \A v \in Vertex : Over(v) /\ pc[v] \in {"idle", "done"}
         /\ \A v \in Members(Top) : Succeeded(v)
<1>1. Top \in DAG /\ exec[Top] \in {"ok", "failed"}
      BY DEF DAG, Returned
<1>2. exec[Top] # "failed"
  <2>1. Members(Top) \subseteq Vertex
        BY DEF Members
  <2> QED BY <1>1, <2>1 DEF ExecFacts, Bad
<1>3. \A v \in Members(Top) : Succeeded(v)
      BY <1>1, <1>2 DEF ExecFacts
<1>4. \A v \in Vertex : Over(v)
      BY <1>1, <1>2 DEF ExecFacts, Inside
<1> QED BY <1>3, <1>4, OverIsIdle

\* A function that was not called is in a block that was left out, and so is
\* never called.
LEMMA OverIsNotCalled ==
  ASSUME CallFacts, ExecFacts, NEW v \in Vertex, Over(v)
  PROVE  ~CallFunction(v)
<1> SUFFICES ASSUME CallFunction(v) PROVE FALSE
    OBVIOUS
<1>1. pc[v] = "idle" /\ exec[Parent[v]] # "idle"
      BY DEF CallFunction, Goto
<1>2. PICK b \in Enclosing[v] : LeftOut(b)
      BY <1>1 DEF Over
<1> DEFINE p == Parent[v]
<1>3. p \in Block /\ p \in Vertex /\ Enclosing[v] = {p} \cup Enclosing[p]
      BY <1>2, EnclosingOfParent
<1>4. Callable(p)
      BY <1>1, <1>3, CallParts DEF ExecFacts
<1> HIDE DEF p
<1>5. exec[p] # "idle"
      BY <1>1 DEF p
<1> QED BY <1>2, <1>3, <1>4, <1>5 DEF Callable, LeftOut

LEMMA BackgroundStep ==
  ASSUME TypeOK, CallFacts, ExecFacts, CallerFacts, NothingInBackground, [Next]_vars
  PROVE  NothingInBackground'
<1> USE DEF TypeOK, handler, user, Goto
<1> SUFFICES ASSUME at' # "execute", ~Bad'
             PROVE  /\ \A v \in Vertex : pc'[v] \in {"idle", "done"}
                    /\ caller' = "reconcile" => taken' = out' \cap Final
    BY DEF NothingInBackground
<1>1. ~Bad
      BY Lasting
<1>2. CASE at = "execute"
  <2>1. ASSUME NEW v \in Vertex,
               \/ CallFunction(v) \/ (\E k \in Needed(v) : GetInput(v, k))
               \/ RunEnds(v) \/ RunBlock(v) \/ AddOutput(v) \/ AddResult(v)
        PROVE  at' = at
        BY <2>1 DEF CallFunction, GetInput, RunEnds, RunBlock, AddOutput, AddResult
  <2>2. ASSUME \/ \E d \in DAG : RunReturns(d)
               \/ CloseClients \/ UNCHANGED <<exec, handler, out, user>>
        PROVE  FALSE
        BY <1>2, <2>2 DEF RunReturns, CloseClients
  <2>3. GetFinalOutput \/ EventHandled
        BY <1>2, <2>1, <2>2, Steps
  <2>4. /\ Returned(Top) /\ pc' = pc
        /\ caller' = "reconcile" => taken' = out' \cap Final
        BY <2>3 DEF GetFinalOutput, EventHandled, RunIsOver, FinalOutput
  <2> QED BY <1>1, <2>4, AllOver
<1>3. CASE at # "execute"
  <2>1. /\ \A v \in Vertex : Over(v) /\ pc[v] \in {"idle", "done"}
        /\ caller = "reconcile" => taken = out \cap Final
        BY <1>1, <1>3, AllOver DEF CallerFacts, NothingInBackground
  <2>2. ASSUME NEW v \in Vertex,
               \/ CallFunction(v) \/ (\E k \in Needed(v) : GetInput(v, k))
               \/ RunEnds(v) \/ RunBlock(v) \/ AddOutput(v) \/ AddResult(v)
        PROVE  FALSE
    <3>1. ~CallFunction(v)
          BY <2>1, OverIsNotCalled
    <3>2. pc[v] \in {"idle", "done"}
          BY <2>1
    <3> QED BY <2>2, <3>1, <3>2
            DEF GetInput, RunEnds, RunBlock, InputComplete, AddOutput, AddResult
  <2>3. ~GetFinalOutput /\ ~EventHandled
        BY <1>3 DEF GetFinalOutput, EventHandled
  <2>4. ASSUME \/ \E d \in DAG : RunReturns(d)
               \/ CloseClients \/ UNCHANGED <<exec, handler, out, user>>
        PROVE  UNCHANGED <<pc, caller, taken, out>>
        BY <2>4 DEF RunReturns, CloseClients
  <2> QED BY <2>1, <2>2, <2>3, <2>4, Steps
<1> QED BY <1>2, <1>3

(***************************************************************************)
(* The theorems                                                            *)
(***************************************************************************)
LEMMA InitIInv == Init => IInv
<1> SUFFICES ASSUME Init PROVE IInv
    OBVIOUS
<1> USE DEF Init
<1>1. Top \in DAG /\ (\A b \in Block : b \in DAG /\ b \in Vertex /\ b # Top)
      BY VertexAssumption DEF DAG
<1>2. GetRootVertex(Top) \in Vertex
      BY <1>1, RootIsMember
<1>3. TypeOK
      BY <1>2 DEF TypeOK, PC
<1>4. CallFacts
      BY DEF CallFacts
<1>5. ExecFacts
      BY <1>1 DEF ExecFacts
<1>6. CallerFacts /\ SeesFinal /\ NothingInBackground
      BY DEF CallerFacts, SeesFinal, NothingInBackground
<1> QED BY <1>3, <1>4, <1>5, <1>6 DEF IInv

\* Whatever runs in parallel and whatever fails, handlers, executors and the
\* caller are where the invariant says.
THEOREM Inductive == Spec => []IInv
<1>1. Init => IInv
      BY InitIInv
<1>2. IInv /\ [Next]_vars => IInv'
      BY TypeStep, CallStep, ExecStep, CallerStep, SeesFinalStep, BackgroundStep DEF IInv
<1> QED BY <1>1, <1>2, PTL DEF Spec

\* FunctionRun of src/pkg/exec/handlers gives a function what its references
\* hold for good, as long as nothing it comes after failed, in any DAGs.
THEOREM ReadsFinal == Spec => []SeesFinal
<1>1. IInv => SeesFinal
      BY DEF IInv
<1> QED BY <1>1, Inductive, PTL

\* Without a failure, nothing runs when the caller of the executor goes on, and
\* it has all final outputs.
THEOREM NoBackground == Spec => []NothingInBackground
<1>1. IInv => NothingInBackground
      BY DEF IInv
<1> QED BY <1>1, Inductive, PTL

(***************************************************************************)
(* The sequential pipeline                                                 *)
(***************************************************************************)
DoneSet == {v \in Vertex : Through(v)}
SeenMap == [v \in Vertex |-> IF Through(v) THEN got[v] ELSE {}]

\* The blocks around a function that runs are not through, and what a block
\* contains has run with it or not at all.
LEMMA RunsInOrder ==
  ASSUME IInv, ~Bad, NEW v \in Vertex, pc[v] = "output"
  PROVE  Sequential!InOrder(v)
<1> USE DEF IInv, TypeOK
<1>1. Callable(v) /\ \A w \in Vertex : pc[w] # "idle" => Callable(w)
      BY CallParts
<1>2. \A w \in {v} \cup Enclosing[v] : GetUpVertexes(w) \subseteq DoneSet
      BY <1>1 DEF Callable, DoneSet, Through, Succeeded, GetUpVertexes
<1>3. ASSUME NEW b \in Block, exec[b] # "idle", Through(b)
      PROVE  exec[b] = "ok"
  <2>1. b \in DAG /\ b \in Vertex /\ Members(b) \subseteq Vertex
        BY VertexAssumption DEF DAG, Members
  <2>2. exec[b] # "running" /\ exec[b] # "failed"
        BY <1>3, <2>1 DEF ExecFacts, Bad, Through
  <2> QED BY <1>3, <2>1, <2>2
<1>4. ASSUME NEW b \in Enclosing[v] PROVE b \notin DoneSet
  <2>1. b \in Block /\ b \in DAG /\ exec[b] # "idle" /\ v \in Inside(b)
        BY <1>1, EnclosingIsLeast DEF Callable, DAG, Inside
  <2>2. SUFFICES ASSUME Through(b) PROVE FALSE
        BY DEF DoneSet
  <2>3. Over(v)
        BY <1>3, <2>1, <2>2 DEF ExecFacts
  <2> QED BY <2>3, OverIsIdle
<1>5. Members(v) \subseteq DoneSet \/ Members(v) \cap DoneSet = {}
  <2>1. CASE v \notin Block
    <3>1. Members(v) = {}
          BY <2>1, VertexAssumption DEF Members, DAG
    <3> QED BY <3>1
  <2>2. CASE v \in Block /\ exec[v] = "idle"
    <3>1. ASSUME NEW w \in Members(v) PROVE w \notin DoneSet
      <4>1. w \in Vertex /\ v \in Enclosing[w]
            BY <2>2, EnclosingOfParent, VertexAssumption DEF Members
      <4>2. pc[w] = "idle"
            BY <1>1, <2>2, <4>1 DEF Callable
      <4> QED BY <4>2 DEF DoneSet, Through
    <3> QED BY <3>1
  <2>3. CASE v \in Block /\ exec[v] # "idle"
    <3>1. v \in DAG /\ Members(v) \subseteq Vertex
          BY <2>3 DEF DAG, Members
    <3>2. exec[v] = "ok"
          BY <2>3, <3>1 DEF ExecFacts, Bad
    <3> QED BY <3>1, <3>2 DEF ExecFacts, Succeeded, DoneSet, Through
  <2> QED BY <2>1, <2>2, <2>3
<1> QED BY <1>2, <1>4, <1>5 DEF Sequential!InOrder, EnclosingBlocks, DoneSet

\* The handler adds the outputs: in the sequential pipeline, the function runs.
LEMMA AddOutputRuns ==
  ASSUME IInv, TypeOK', ~Bad, ~Bad', NEW v \in Vertex, AddOutput(v)
  PROVE  Sequential!Run(v)
<1> USE DEF IInv, TypeOK, handler, user, Goto
<1>1. /\ pc[v] = "output" /\ pc' = [pc EXCEPT ![v] = "result"]
      /\ out' = out \cup returned[v] /\ UNCHANGED <<got, at>>
      BY DEF AddOutput
<1>2. Sequential!InOrder(v)
      BY <1>1, RunsInOrder
<1>3. at = "execute"
      BY <1>1 DEF NothingInBackground
<1>4. returned[v] \in SUBSET OutputNames(v)
      BY CallParts DEF HandlerFacts, OutputNames
<1>5. \A u \in Vertex : Through(u)' <=> (Through(u) \/ u = v)
      BY <1>1 DEF Through
<1>6. DoneSet' = DoneSet \cup {v} /\ v \notin DoneSet
      BY <1>1, <1>5 DEF DoneSet, Through
<1>7. got[v] = Needed(v) \cap out
  <2>1. \A u \in Earlier[v] : ~Error(u)
        BY EarlierIsLeast DEF Bad
  <2>2. asked[v] = Needed(v) /\ got[v] \subseteq asked[v]
        BY <1>1, CallParts DEF HandlerFacts
  <2> QED BY <2>1, <2>2 DEF SeesFinal
<1>8. SeenMap' = [SeenMap EXCEPT ![v] = Needed(v) \cap out]
      BY <1>1, <1>5, <1>7 DEF SeenMap
<1>9. UNCHANGED <<at \in {"outputs", "end"}, Bad>>
      BY <1>1 DEF Bad
<1> QED BY <1>1, <1>2, <1>3, <1>4, <1>6, <1>8, <1>9 DEF Sequential!Run, DoneSet, SeenMap

\* A step of anything else is none of the sequential pipeline, unless the caller
\* goes on.
LEMMA OthersStutter ==
  ASSUME IInv, IInv', ~Bad, ~Bad', [Next]_vars, \A v \in Vertex : ~AddOutput(v)
  PROVE  \/ UNCHANGED Sequential!vars
         \/ Sequential!Take
<1> USE DEF IInv, TypeOK, handler, user, Goto
<1>1. (\A u \in Vertex : (Through(u)' <=> Through(u)) /\ (Through(u) => got'[u] = got[u]))
        => UNCHANGED <<DoneSet, SeenMap>>
      BY DEF DoneSet, SeenMap
<1>2. ASSUME NEW v \in Vertex,
             \/ CallFunction(v) \/ (\E k \in Needed(v) : GetInput(v, k))
             \/ RunEnds(v) \/ RunBlock(v) \/ AddResult(v)
      PROVE  /\ UNCHANGED <<out, at>>
             /\ \A u \in Vertex : (Through(u)' <=> Through(u)) /\ (Through(u) => got'[u] = got[u])
      BY <1>2 DEF CallFunction, GetInput, RunEnds, Returns, RunBlock, AddResult, Through
<1>3. ASSUME \/ \E d \in DAG : RunReturns(d)
             \/ CloseClients \/ UNCHANGED <<exec, handler, out, user>>
      PROVE  /\ UNCHANGED <<pc, got, out, at \in {"outputs", "end"}>>
      BY <1>3 DEF RunReturns, CloseClients
<1>4. ASSUME GetFinalOutput \/ EventHandled
      PROVE  UNCHANGED <<pc, got, out>> /\ at' \in {"outputs", "end"} /\ Returned(Top)
      BY <1>4 DEF GetFinalOutput, EventHandled, RunIsOver
<1>5. UNCHANGED Bad
      BY DEF Bad
<1>6. CASE GetFinalOutput \/ EventHandled
  <2>1. UNCHANGED <<DoneSet, SeenMap>>
        BY <1>1, <1>4, <1>6 DEF Through
  <2>2. Members(Top) \subseteq DoneSet
        BY <1>4, <1>6, AllOver DEF Succeeded, DoneSet, Through, Members
  <2> QED BY <1>4, <1>5, <1>6, <2>1, <2>2 DEF Sequential!Take, DoneSet, SeenMap
<1>7. CASE ~GetFinalOutput /\ ~EventHandled
  <2>1. UNCHANGED <<DoneSet, SeenMap, out, at \in {"outputs", "end"}>>
        BY <1>1, <1>2, <1>3, <1>7, Steps DEF Through
  <2> QED BY <1>5, <2>1 DEF Sequential!vars, DoneSet, SeenMap
<1> QED BY <1>6, <1>7

\* As long as no function failed, the parallel execution of the DAGs, blocks and
\* all, is that of its functions one after the other.
THEOREM ImplementsSequential == Spec => AsIfSequential
<1>1. Init => Sequential!Init
  <2> SUFFICES ASSUME Init PROVE Sequential!Init
      OBVIOUS
  <2>1. DoneSet = {} /\ SeenMap = [v \in Vertex |-> {}] /\ ~Bad
        BY DEF Init, DoneSet, SeenMap, Through, Bad, Error
  <2>2. out = {GetRootVertex(Top)} /\ at = "execute"
        BY DEF Init
  <2> QED BY <2>1, <2>2 DEF Sequential!Init, DoneSet, SeenMap, Bad
<1>2. IInv /\ IInv' /\ [Next]_vars => [Sequential!Next]_(Sequential!vars)
  <2> SUFFICES ASSUME IInv, IInv', [Next]_vars
               PROVE  Sequential!Next \/ UNCHANGED Sequential!vars
      OBVIOUS
  <2>1. CASE Bad'
        BY <2>1 DEF Sequential!Next, Sequential!Fail
  <2>2. CASE ~Bad'
    <3>1. ~Bad
          BY <2>2, Lasting DEF IInv
    <3>2. CASE \E v \in Vertex : AddOutput(v)
          BY <2>2, <3>1, <3>2, AddOutputRuns DEF Sequential!Next, IInv
    <3>3. CASE \A v \in Vertex : ~AddOutput(v)
          BY <2>2, <3>1, <3>3, OthersStutter DEF Sequential!Next
    <3> QED BY <3>2, <3>3
  <2> QED BY <2>1, <2>2
<1> QED BY <1>1, <1>2, Inductive, PTL DEF Spec, AsIfSequential, Sequential!Spec
=============================================================================
