------------------------------ MODULE Pipeline ------------------------------
(***************************************************************************)
(* What a pipeline promises as long as no function fails: it is as if its  *)
(* functions ran one at a time in the order of the DAG, each reading its   *)
(* input and adding its outputs in one step, and the caller took the       *)
(* outputs after the last of them.                                         *)
(***************************************************************************)
CONSTANTS
  Vertex,     \* the functions
  Resource,   \* the name whose value is there from the start
  Up(_),      \* Up(v): the functions v depends on
  Around(_),  \* Around(v): the blocks v is in
  Content(_), \* Content(v): the functions in v, if it is a block
  Outermost,  \* the functions in no block
  Needed(_),  \* Needed(v): the names v reads
  Outputs(_)  \* Outputs(v): the names v may have outputs for

VARIABLES
  done,   \* the functions that ran
  out,    \* the names that have an output
  seen,   \* seen[v]: the names v found an output for
  taken,  \* the caller has taken the outputs
  bad     \* a function failed, and nothing is promised any more

vars == <<done, out, seen, taken, bad>>

Init ==
  /\ done = {} /\ out = {Resource}
  /\ seen = [v \in Vertex |-> {}]
  /\ taken = FALSE /\ bad = FALSE

\* A block whose condition is false leaves out all it contains, now and later.
InOrder(v) ==
  /\ Up(v) \subseteq done
  /\ \A b \in Around(v) : Up(b) \subseteq done /\ b \notin done
  /\ Content(v) \subseteq done \/ Content(v) \cap done = {}

Run(v) ==
  /\ v \notin done /\ InOrder(v) /\ ~taken
  /\ done' = done \cup {v}
  /\ seen' = [seen EXCEPT ![v] = Needed(v) \cap out]
  /\ \E o \in SUBSET Outputs(v) : out' = out \cup o
  /\ UNCHANGED <<taken, bad>>

Take ==
  /\ Outermost \subseteq done
  /\ taken' = TRUE
  /\ UNCHANGED <<done, out, seen, bad>>

\* From here on the rest may change in any way.
Fail == bad'

Next ==
  \/ Fail
  \/ /\ ~bad
     /\ Take \/ \E v \in Vertex : Run(v)

Spec == Init /\ [][Next]_vars

=============================================================================
