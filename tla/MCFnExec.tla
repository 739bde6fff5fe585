------------------------------- MODULE MCFnExec -------------------------------
(* Instances of FnExec for TLC: the functions executed. *)
EXTENDS FnExec, TLC

CONSTANTS a, b, x, y

AllTypes == {"root", "block", "query", "jq", "slice", "map", "gotemplate", "image"}
ImageOnly == {"image"}

\* Every range of up to two values, null among them, and one of three.
UpToTwo == SeqOf({a, b, Null}, 2) \cup {<<a, b, a>>}
UpToThree == SeqOf({a, b}, 3)

AllConditions == {"none", "empty", "true", "false"}
NoCondition == {"none"}

\* None; the item and the reference; one that reads another; the root, and a
\* name the pipeline has already; the name of the item.
AllLocals == {<<>>, (x :> VALUE) @@ (y :> Ref), (x :> VALUE) @@ (y :> x),
              (Root :> Root) @@ (x :> VALUE), (VALUE :> VALUE) @@ (x :> VALUE)}
FlatLocals == {<<>>, (x :> VALUE) @@ (y :> Ref)}

=============================================================================
