-------------------------------- MODULE FnExec --------------------------------
(***************************************************************************)
(* The execution of one function of a pipeline (fnExecConfig.exec): its    *)
(* range and its condition, the runs of its instances, and what is kept of *)
(* their results.  Two things of the data are kept: where a value comes    *)
(* from, and in how many lists jq has wrapped it.  A result is identified  *)
(* with the input it was computed from.  jq, templates, the API server and *)
(* the pods that run images are external.                                  *)
(***************************************************************************)
EXTENDS Integers, Sequences, FiniteSets, SequencesExt

CONSTANTS
  Item,       \* the values a range yields
  Null,       \* the null value
  VALUE,      \* the variable of the current item; stands for KEY and INDEX too
  Root,       \* the variable of the pipeline's own resource
  Ref,        \* the variable of another function's output, null without one
  Types,      \* the types of function executed
  Ranges,     \* what the range of a block, or of its condition, yields
  Conditions, \* what the condition of a block comes to
  Locals,     \* the vars of a function: for each name, the variable it reads
  Faults      \* what goes wrong: "jq", "run"

ASSUME TypesAssumption ==
  Types \subseteq {"root", "block", "query", "jq", "slice", "map", "gotemplate", "image"}
ASSUME NullAssumption == Null \notin Item
ASSUME NamesAssumption == VALUE \notin {Root, Ref}
ASSUME RangesAssumption == Ranges \subseteq Seq(Item \cup {Null})
ASSUME ConditionsAssumption == Conditions \subseteq {"none", "empty", "true", "false"}
ASSUME FaultsAssumption == Faults \subseteq {"jq", "run"}

NoRange == [given |-> FALSE, items |-> <<>>]
Range_  == {NoRange} \cup {[given |-> TRUE, items |-> s] : s \in Ranges}

\* The syntax of a function; condRange is the range inside the condition.
Function ==
  {f \in [type : Types, range : Range_, cond : Conditions, condRange : Range_, vars : Locals] :
     /\ f.cond = "none" => f.condRange = NoRange
     /\ f.type = "root" => f.range = NoRange /\ f.cond = "none"}

VARIABLES
  fn,     \* the function executed
  pc,
  n,      \* the item of the range; Len(Items) + 1 in the single run
  todo,   \* the local variables not yet resolved for this run
  input,  \* input.Input, shared by all the runs: a value for each variable
  out,    \* the output of the function
  calls,  \* the inputs the function has been run with, in order
  status  \* what exec returned: an output, nil, ErrConditionFalse or an error

vars == <<fn, pc, n, todo, input, out, calls, status>>

(***************************************************************************)
(* The types of function: whether the items of a range are run, whether    *)
(* there is a run apart from them, and what is kept of the results: the    *)
(* list of them, the last one, or one for each key.                        *)
(***************************************************************************)
RootFn       == [range |-> FALSE, single |-> FALSE, result |-> "none"]
BlockFn      == [range |-> FALSE, single |-> TRUE,  result |-> "list"]
QueryFn      == [range |-> FALSE, single |-> TRUE,  result |-> "last"]
JqFn         == [range |-> FALSE, single |-> TRUE,  result |-> "last"]
SliceFn      == [range |-> TRUE,  single |-> FALSE, result |-> "list"]
MapFn        == [range |-> TRUE,  single |-> FALSE, result |-> "key"]
GotemplateFn == [range |-> TRUE,  single |-> TRUE,  result |-> "list"]
ImageFn      == [range |-> TRUE,  single |-> TRUE,  result |-> "last"]

FuncMap ==
  [root |-> RootFn, block |-> BlockFn, query |-> QueryFn, jq |-> JqFn,
   slice |-> SliceFn, map |-> MapFn, gotemplate |-> GotemplateFn, image |-> ImageFn]

ExecuteRange  == FuncMap[fn.type].range
ExecuteSingle == FuncMap[fn.type].single
Result        == FuncMap[fn.type].result

\* An image gets its vars, and the root variable only if it has vars.
FilterInput ==
  IF fn.type # "image" THEN input
  ELSE [v \in {w \in DOMAIN input : w \in DOMAIN fn.vars \/ (w = Root /\ DOMAIN fn.vars # {})}
          |-> input[v]]

\* buildResourceContext takes objects in at most two lists.
Fits(i) == \A v \in DOMAIN i : i[v].lists <= 2 /\ i[v].from # Null

\* Mutant: what the items recorded is not dropped before the single run.
InitOutputMutant == out
InitOutput == <<>>

\* Mutant: the list of results grows at its head.
RecordOutputMutant(x) ==
  CASE Result = "list" -> <<x>> \o out
    [] Result = "last" -> <<x>>
    [] Result = "key"  -> [k \in DOMAIN out \cup {x[VALUE].from} |->
                             IF k = x[VALUE].from THEN x ELSE out[k]]
RecordOutput(x) ==
  CASE Result = "list" -> Append(out, x)
    [] Result = "last" -> <<x>>
    [] Result = "key"  -> [k \in DOMAIN out \cup {x[VALUE].from} |->
                             IF k = x[VALUE].from THEN x ELSE out[k]]

(***************************************************************************)
(* Initial states: the input holds the references of the function          *)
(***************************************************************************)
Init ==
  /\ fn \in Function
  /\ pc = "start"
  /\ n = 1
  /\ todo = {}
  /\ \E v \in {Ref, Null} :
       input = [r \in {Root, Ref} |-> [from |-> IF r = Root THEN Root ELSE v, lists |-> 0]]
  /\ out = <<>>
  /\ calls = <<>>
  /\ status = "none"

Return(s) ==
  /\ pc' = "done"
  /\ status' = s

(***************************************************************************)
(* exec, before it runs anything                                           *)
(***************************************************************************)
\* The range that counts: that of the condition replaces that of the block.
Ranged == IF fn.condRange.given THEN fn.condRange ELSE fn.range

\* Mutant: the null values are kept.
WithoutNullMutant(s) == s
\* runRange appends what it gets to its result, but for the null values.
WithoutNull(s) ==
  LET result[k \in 0..Len(s)] ==
        IF k = 0 THEN <<>>
        ELSE IF s[k] = Null THEN result[k - 1] ELSE Append(result[k - 1], s[k])
  IN  result[Len(s)]

Items == WithoutNull(Ranged.items)

JqFails ==
  /\ pc = "start"
  /\ "jq" \in Faults
  /\ fn.range.given \/ fn.cond \in {"true", "false"} \/ fn.condRange.given
  /\ Return("error")
  /\ UNCHANGED <<fn, n, todo, input, out, calls>>

ConditionFalse ==
  /\ pc = "start"
  /\ fn.cond = "false"
  /\ Return("false")
  /\ UNCHANGED <<fn, n, todo, input, out, calls>>

NothingToDo == Ranged.given /\ Items = <<>>

EmptyRange ==
  /\ pc = "start"
  /\ fn.cond # "false"
  /\ NothingToDo
  /\ out' = InitOutput
  /\ Return("nil")
  /\ UNCHANGED <<fn, n, todo, input, calls>>

Start ==
  /\ pc = "start"
  /\ fn.cond # "false"
  /\ ~NothingToDo
  /\ out' = IF Ranged.given THEN InitOutput ELSE out
  /\ pc' = "item"
  /\ UNCHANGED <<fn, n, todo, input, calls, status>>

(***************************************************************************)
(* exec, the runs                                                          *)
(***************************************************************************)
\* An item's run: the entries of earlier runs stay in the input.
NextItem ==
  /\ pc = "item"
  /\ n <= Len(Items)
  /\ input' = [v \in DOMAIN input \cup {VALUE} |->
                 IF v = VALUE THEN [from |-> Items[n], lists |-> 0] ELSE input[v]]
  /\ todo' = DOMAIN fn.vars
  /\ pc' = "resolve"
  /\ UNCHANGED <<fn, n, out, calls, status>>

\* The run after, or without, a range.
Single ==
  /\ pc = "item"
  /\ n > Len(Items)
  /\ ExecuteSingle
  /\ out' = InitOutput
  /\ todo' = DOMAIN fn.vars
  /\ pc' = "resolve"
  /\ UNCHANGED <<fn, n, input, calls, status>>

GetFinalResult ==
  /\ pc = "item"
  /\ n > Len(Items)
  /\ ~ExecuteSingle
  /\ Return("ok")
  /\ UNCHANGED <<fn, n, todo, input, out, calls>>

\* Mutant: a variable that has a value is not resolved again.
NewEntryMutant(v) == IF v \in DOMAIN input THEN input[v] ELSE [input[fn.vars[v]] EXCEPT !.lists = @ + 1]
\* runJQ returns the list of the results.
NewEntry(v) == [input[fn.vars[v]] EXCEPT !.lists = @ + 1]

\* resolveLocalVars takes the variables in the order of a Go map: any.
ResolveVar ==
  /\ pc = "resolve"
  /\ \E v \in todo :
       /\ fn.vars[v] \in DOMAIN input
       /\ input' = [w \in DOMAIN input \cup {v} |-> IF w = v THEN NewEntry(v) ELSE input[w]]
       /\ todo' = todo \ {v}
  /\ UNCHANGED <<fn, pc, n, out, calls, status>>

\* jq does not compile an expression with an unknown variable.
ResolveFails ==
  /\ pc = "resolve"
  /\ \E v \in todo : fn.vars[v] \notin DOMAIN input
  /\ Return("error")
  /\ UNCHANGED <<fn, n, todo, input, out, calls>>

SkipRun ==
  /\ pc = "resolve" /\ todo = {}
  /\ n <= Len(Items) /\ ~ExecuteRange
  /\ n' = n + 1
  /\ pc' = "item"
  /\ UNCHANGED <<fn, todo, input, out, calls, status>>

Running == pc = "resolve" /\ todo = {} /\ (n <= Len(Items) => ExecuteRange)

\* A run of an item, or the single one, with which exec ends.
Run ==
  /\ Running
  /\ fn.type = "image" => Fits(FilterInput)
  /\ calls' = Append(calls, FilterInput)
  /\ out' = RecordOutput(FilterInput)
  /\ IF n <= Len(Items)
     THEN n' = n + 1 /\ pc' = "item" /\ UNCHANGED status
     ELSE Return("ok") /\ UNCHANGED n
  /\ UNCHANGED <<fn, todo, input>>

RunFails ==
  /\ Running
  /\ "run" \in Faults \/ (fn.type = "image" /\ ~Fits(FilterInput))
  /\ Return("error")
  /\ UNCHANGED <<fn, n, todo, input, out, calls>>

Next ==
  \/ JqFails \/ ConditionFalse \/ EmptyRange \/ Start
  \/ NextItem \/ Single \/ GetFinalResult
  \/ ResolveVar \/ ResolveFails \/ SkipRun \/ Run \/ RunFails

Spec == Init /\ [][Next]_vars

(***************************************************************************)
(* Properties                                                              *)
(***************************************************************************)
Name  == {VALUE, Root, Ref} \cup UNION {DOMAIN l : l \in Locals}
Entry  == [from : Item \cup {Root, Ref, Null}, lists : Nat]
IsInput(i) == DOMAIN i \subseteq Name /\ i \in [DOMAIN i -> Entry]

TypeOK ==
  /\ fn \in Function
  /\ pc \in {"start", "item", "resolve", "done"}
  /\ n \in 1..(Len(Items) + 1)
  /\ todo \subseteq DOMAIN fn.vars
  /\ IsInput(input)
  /\ calls \in Seq(ToSet(calls)) /\ \A k \in DOMAIN calls : IsInput(calls[k])
  /\ status \in {"none", "ok", "nil", "false", "error"}

\* The values of a sequence but for null: the k-th of them is at the position
\* with k of them up to it.
Values(s) ==
  LET Kept    == {p \in DOMAIN s : s[p] # Null}
      Rank(p) == Cardinality({q \in Kept : q <= p})
  IN  [k \in 1..Cardinality(Kept) |-> s[CHOOSE p \in Kept : Rank(p) = k]]

\* What the range in force yields, worked out apart from exec.
Instances ==
  Values(IF fn.cond # "none" /\ fn.condRange.given THEN fn.condRange.items ELSE fn.range.items)

HasRange == fn.range.given \/ fn.condRange.given
Returned == pc = "done" /\ status = "ok"

\* No local variable takes the name of the item: the code does not ask for it.
Plain == VALUE \notin DOMAIN fn.vars

\* A slice or a map that succeeds has one result for each item of the range,
\* in the order of the items and by key: none is lost, repeated or swapped.
RangeResult ==
  Returned /\ HasRange /\ Plain =>
    /\ fn.type = "slice" => [k \in DOMAIN out |-> out[k][VALUE].from] = Instances
    /\ fn.type = "map" =>
         /\ DOMAIN out = ToSet(Instances)
         /\ \A k \in DOMAIN out : out[k][VALUE].from = k

\* The item a run is for; the single run keeps the last item's variables.
InstanceOf(k) ==
  IF ExecuteRange /\ k <= Len(Instances) THEN Instances[k] ELSE Last(Instances)

\* No run sees a local variable of an earlier item: what reads the item reads
\* the item of this run.  (A variable that reads another one may be stale.)
LocalsFresh ==
  Instances # <<>> /\ Plain =>
    \A k \in DOMAIN calls : \A v \in DOMAIN fn.vars :
      fn.vars[v] = VALUE => calls[k][v] = [from |-> InstanceOf(k), lists |-> 1]

\* Nothing is run when the condition is false or the range is empty, not even
\* the single run.
Guarded ==
  calls # <<>> => fn.cond # "false" /\ (HasRange => Instances # <<>>)

\* Of a function with a single run the result is that of that run alone, for
\* the last item if there is a range.
LastRunOnly ==
  Returned /\ fn.type \in {"jq", "query", "gotemplate", "image"} /\ calls # <<>> =>
    /\ out = <<Last(calls)>>
    /\ Len(calls) = 1 + IF ExecuteRange THEN Len(Instances) ELSE 0

\* Ranges and conditions decide which runs there are, and the last one what
\* becomes of the others.
RightRuns == Guarded /\ LastRunOnly

(***************************************************************************)
(* The inductive invariant                                                 *)
(***************************************************************************)
\* Runs of items are counted by n, the single run comes after them and ends
\* exec, and nothing is run unless condition and range say so.
RunFacts ==
  /\ pc \in {"item", "resolve"} \/ calls # <<>> \/ Returned => fn.cond # "false" /\ ~NothingToDo
  /\ Len(calls) = (IF ExecuteRange THEN n - 1 ELSE 0) + (IF Returned /\ ExecuteSingle THEN 1 ELSE 0)
  /\ pc = "start" => n = 1
  /\ pc = "resolve" /\ n > Len(Items) => ExecuteSingle /\ out = <<>>
  /\ Returned => n = Len(Items) + 1

\* The item whose variables are in the input.
Latest == Items[IF pc = "resolve" /\ n <= Len(Items) THEN n ELSE n - 1]

\* The input has the item and, as far as they are resolved, the local variables
\* of this run.
InputFacts ==
  /\ pc = "resolve" => DOMAIN fn.vars \ todo \subseteq DOMAIN input
  /\ Plain /\ ((pc = "item" /\ n > 1) \/ pc = "resolve") /\ Items # <<>> =>
       /\ VALUE \in DOMAIN input /\ input[VALUE] = [from |-> Latest, lists |-> 0]
       /\ pc = "resolve" =>
            \A v \in DOMAIN fn.vars \ todo :
              fn.vars[v] = VALUE => input[v] = [from |-> Latest, lists |-> 1]

\* What is kept: a run's input is that of its item.
ResultFacts ==
  /\ Plain /\ fn.type \in {"slice", "map"} =>
       \A k \in DOMAIN calls : VALUE \in DOMAIN calls[k] /\ calls[k][VALUE].from = Items[k]
  /\ fn.type = "slice" => out = calls
  /\ Plain /\ fn.type = "map" =>
       /\ DOMAIN out = {Items[k] : k \in 1..(n - 1)}
       /\ \A k \in DOMAIN out : out[k][VALUE].from = k
  /\ Returned /\ ExecuteSingle => out = <<Last(calls)>>

IInv == TypeOK /\ RunFacts /\ InputFacts /\ ResultFacts /\ LocalsFresh

(***************************************************************************)
(* What a comment says and the code does not do                            *)
(***************************************************************************)
\* "if this is executed in a block each instance is recorded seperately": the
\* result of an image with a range has that of every item.
EveryItemRecorded ==
  Returned /\ fn.type = "image" /\ Instances # <<>> => Len(out) = Len(Instances)

=============================================================================
