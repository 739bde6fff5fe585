---------------------------- MODULE MCFnPipeline ----------------------------
(* An instance of FnPipeline for TLC: a query and, after it, a block, side  *)
(* by side with a second query; an image that reads from the block and from *)
(* the second query.  In the block a function beside another block, which   *)
(* has an image.                                                            *)
EXTENDS FnPipeline

CONSTANTS root, query, other, block, last, root1, first, deep, root2, second

AllVertices ==
  {root, query, other, block, last, root1, first, deep, root2, second}

ParentOf ==
  [v \in AllVertices |-> CASE v \in {root1, first, deep} -> block
     [] v \in {root2, second} -> deep [] OTHER -> "top"]
Edges ==
  {<<root, query>>, <<root, other>>, <<query, block>>, <<block, last>>,
   <<other, last>>, <<root1, first>>, <<root1, deep>>, <<root2, second>>}

Names == {"q", "o", "f", "s", "l"}
OutputsOf ==
  [v \in AllVertices |-> CASE v = query -> {"q"} [] v = other -> {"o"}
     [] v = first -> {"f"} [] v = second -> {"s"} [] v = last -> {"l"} [] OTHER -> {}]
ReferencesOf ==
  [v \in AllVertices |-> CASE v = second -> {"q"} [] v = last -> {"s", "o"}
     [] OTHER -> {}]

Results == {"s", "l"}

=============================================================================
