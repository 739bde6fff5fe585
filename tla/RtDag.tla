-------------------------------- MODULE RtDag --------------------------------
(***************************************************************************)
(* The runtime DAGs of one pipeline: the DAG of the pipeline itself and    *)
(* one for each function of type block, to any depth.  They are built once *)
(* from the configuration, by a library, and are constants here.           *)
(***************************************************************************)
EXTENDS FiniteSets

CONSTANTS
  Vertex,      \* the functions, the root of each DAG included
  Root, Block, Image, \* the vertices of these types; the others are alike
  Top,         \* the DAG of the pipeline
  Parent,      \* Parent[v]: the block whose DAG has v, or Top
  Edge,        \* pairs <<u, v>>: v depends on u
  Var,         \* names of outputs
  Outputs,     \* Outputs[v]: the names v has outputs for
  References   \* References[v]: the names v reads

DAG     == Block \cup {Top}
Members(d) == {v \in Vertex : Parent[v] = d}

GetRootVertex(d) == CHOOSE v \in Members(d) : v \in Root

GetUpVertexes(v) == {u \in Vertex : <<u, v>> \in Edge}

\* The blocks v is in, the least set with its parent and the parents of those.
Enclosing ==
  [v \in Vertex |->
    {b \in Block : \A S \in SUBSET Block :
       (\A w \in S \cup {v} : Parent[w] # Top => Parent[w] \in S) => b \in S}]

\* The functions that are through when v is called, if none of them fails:
\* what v and the blocks around it depend on, and what is in a block of these.
Earlier ==
  [v \in Vertex |->
    {u \in Vertex : \A S \in SUBSET Vertex :
       /\ \A w \in S \cup {v} \cup Enclosing[v] : GetUpVertexes(w) \subseteq S
       /\ \A w \in S : Members(w) \subseteq S
       => u \in S}]

ASSUME VertexAssumption ==
  /\ Root \cup Block \cup Image \subseteq Vertex /\ Top \notin Vertex
  /\ Root \cap Block = {} /\ Root \cap Image = {} /\ Block \cap Image = {}
  /\ Parent \in [Vertex -> DAG]
  /\ \A d \in DAG : \E r \in Root : Members(d) \cap Root = {r}
  /\ \A v \in Vertex : v \notin Enclosing[v]
  /\ \A v \in Vertex : Parent[v] = Top \/ \E b \in Enclosing[v] : Parent[b] = Top

ASSUME EdgeAssumption ==
  /\ Edge \subseteq {e \in Vertex \X Vertex : Parent[e[1]] = Parent[e[2]]}
  /\ \A v \in Vertex : v \notin Earlier[v]
  /\ \A v \in Vertex : v \in Root <=> GetUpVertexes(v) = {}

\* A name has one function that writes it, and who reads it depends on that.
ASSUME NameAssumption ==
  /\ Outputs \in [Vertex -> SUBSET Var] /\ References \in [Vertex -> SUBSET Var]
  /\ Var \cap Vertex = {}
  /\ \A u \in Root \cup Block : Outputs[u] = {}
  /\ \A u, v \in Vertex : u # v => Outputs[u] \cap Outputs[v] = {}
  /\ \A v \in Vertex : \A k \in References[v] : \E u \in Earlier[v] : k \in Outputs[u]

\* What the handler puts into the input of v: an image also gets the entry
\* with the name of the root of its own DAG.
Needed(v) ==
  IF v \in Root THEN {}
  ELSE References[v] \cup (IF v \in Image THEN {GetRootVertex(Parent[v])} ELSE {})

=============================================================================
