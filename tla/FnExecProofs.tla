---------------------------- MODULE FnExecProofs ----------------------------
(***************************************************************************)
(* For any items, ranges, conditions and variables: what exec runs, what   *)
(* each run sees, and what is kept of it.                                  *)
(***************************************************************************)
EXTENDS FnExec, FiniteSetTheorems, WellFoundedInduction, TLAPS

(***************************************************************************)
(* The items of a range                                                    *)
(***************************************************************************)
\* A set of numbers has a least one: with it, what would be an induction is an
\* argument about the least number for which a claim fails.
LEMMA LeastNumber ==
  ASSUME NEW T \in SUBSET Nat, T # {}
  PROVE  \E m \in T : \A k \in T : m <= k
<1> DEFINE R == {ss \in Nat \X Nat : ss[1] < ss[2]}
<1>1. IsWellFoundedOn(R, Nat)
      BY NatLessThanWellFounded, Zenon DEF OpToRel
<1>2. \E m \in T : \A k \in T : ~(<<k, m>> \in R)
  <2> HIDE DEF R
  <2> QED BY <1>1, WFMin
<1>3. PICK m \in T : \A k \in T : ~(<<k, m>> \in R)
      BY <1>2
<1>4. ASSUME NEW k \in T PROVE m <= k
  <2>1. <<k, m>> \in Nat \X Nat /\ <<k, m>>[1] = k /\ <<k, m>>[2] = m
        OBVIOUS
  <2>2. ~(k < m)
        BY <1>3, <2>1
  <2> QED BY <2>2
<1> QED BY <1>4

\* The loop of runRange, with the results so far as g.
Body(g, s, k) ==
  IF k = 0 THEN <<>>
  ELSE IF s[k] = Null THEN g[k - 1] ELSE Append(g[k - 1], s[k])
Result_(s) == CHOOSE g : g = [k \in 0..Len(s) |-> Body(g, s, k)]

LEMMA ResultExists ==
  ASSUME NEW s, Len(s) \in Nat
  PROVE  /\ WithoutNull(s) = Result_(s)[Len(s)]
         /\ Result_(s) = [k \in 0..Len(s) |-> Body(Result_(s), s, k)]
<1> DEFINE Upto(m) == \E g : g = [k \in 0..m |-> Body(g, s, k)]
           T == {m \in 0..Len(s) : ~Upto(m)}
<1>1. SUFFICES ASSUME T # {} PROVE FALSE
  <2>1. WithoutNull(s) = Result_(s)[Len(s)]
        BY DEF WithoutNull, Result_, Body
  <2>2. SUFFICES ASSUME Upto(Len(s))
                 PROVE  Result_(s) = [k \in 0..Len(s) |-> Body(Result_(s), s, k)]
        BY <2>1
  <2> QED BY <2>2 DEF Result_
<1>2. T \in SUBSET Nat
      OBVIOUS
<1>3. PICK m \in T : \A k \in T : m <= k
  <2> HIDE DEF T
  <2> QED BY <1>1, <1>2, LeastNumber
<1>4. CASE m = 0
  <2> DEFINE g == [k \in 0..0 |-> <<>>]
  <2>1. g = [k \in 0..0 |-> Body(g, s, k)]
        BY DEF Body
  <2> QED BY <1>4, <2>1
<1>5. CASE m # 0
  <2>1. m - 1 \in 0..Len(s) /\ m - 1 \notin T /\ m \in Nat
        BY <1>3, <1>5
  <2>2. PICK g : g = [k \in 0..(m - 1) |-> Body(g, s, k)]
        BY <2>1
  <2> DEFINE h == [k \in 0..m |-> Body(g, s, k)]
  <2>3. ASSUME NEW k \in 0..m PROVE Body(g, s, k) = Body(h, s, k)
    <3>1. CASE k = 0
          BY <3>1 DEF Body
    <3>2. CASE k # 0
      <4>1. k - 1 \in 0..(m - 1) /\ k - 1 \in 0..m
            BY <2>1, <3>2
      <4>2. h[k - 1] = g[k - 1]
            BY <2>2, <4>1
      <4> QED BY <3>2, <4>2 DEF Body
    <3> QED BY <3>1, <3>2
  <2>4. h = [k \in 0..m |-> Body(h, s, k)]
        BY <2>3
  <2>5. Upto(m)
        BY <2>4
  <2> QED BY <2>5
<1> QED BY <1>4, <1>5

\* The values among the first m of s, and how many there are.
Kept(s, m) == {p \in 1..m : s[p] # Null}
Rank(s, m) == Cardinality(Kept(s, m))

LEMMA RankGrows ==
  ASSUME NEW s
  PROVE  /\ Rank(s, 0) = 0
         /\ \A m \in Nat : /\ IsFiniteSet(Kept(s, m)) /\ Rank(s, m) \in Nat
                           /\ m # 0 => Rank(s, m) = Rank(s, m - 1) + IF s[m] = Null THEN 0 ELSE 1
<1>1. \A m \in Nat : IsFiniteSet(Kept(s, m)) /\ Rank(s, m) \in Nat
  <2> SUFFICES ASSUME NEW m \in Nat PROVE IsFiniteSet(Kept(s, m)) /\ Rank(s, m) \in Nat
      OBVIOUS
  <2>1. IsFiniteSet(1..m)
        BY FS_Interval
  <2>2. Kept(s, m) \subseteq 1..m
        BY DEF Kept
  <2>3. IsFiniteSet(Kept(s, m))
        BY <2>1, <2>2, FS_Subset
  <2> QED BY <2>3, FS_CardinalityType DEF Rank
<1>2. Rank(s, 0) = 0
  <2>1. Kept(s, 0) = {}
        BY DEF Kept
  <2> QED BY <2>1, FS_EmptySet DEF Rank
<1>3. ASSUME NEW m \in Nat, m # 0
      PROVE  Rank(s, m) = Rank(s, m - 1) + IF s[m] = Null THEN 0 ELSE 1
  <2>1. m - 1 \in Nat /\ IsFiniteSet(Kept(s, m - 1)) /\ Rank(s, m - 1) \in Nat
        BY <1>1, <1>3
  <2>2. CASE s[m] = Null
    <3>1. Kept(s, m) = Kept(s, m - 1)
          BY <1>3, <2>2 DEF Kept
    <3> QED BY <2>1, <2>2, <3>1 DEF Rank
  <2>3. CASE s[m] # Null
    <3>1. Kept(s, m) = Kept(s, m - 1) \cup {m} /\ m \notin Kept(s, m - 1)
          BY <1>3, <2>3 DEF Kept
    <3>2. Cardinality(Kept(s, m - 1) \cup {m}) = Cardinality(Kept(s, m - 1)) + 1
          BY <2>1, <3>1, FS_AddElement
    <3> QED BY <2>3, <3>1, <3>2 DEF Rank
  <2> QED BY <2>2, <2>3
<1> QED BY <1>1, <1>2, <1>3

\* After m steps of the loop: the values so far, each at its rank.
Sofar(s, g, m) ==
  /\ g[m] \in Seq(Item) /\ Len(g[m]) = Rank(s, m)
  /\ \A p \in Kept(s, m) : Rank(s, p) \in 1..Rank(s, m) /\ g[m][Rank(s, p)] = s[p]
  /\ \A k \in 1..Rank(s, m) : \E p \in Kept(s, m) : Rank(s, p) = k

LEMMA ResultFollows ==
  ASSUME NEW s \in Seq(Item \cup {Null})
  PROVE  \A m \in 0..Len(s) : Sofar(s, Result_(s), m)
<1> DEFINE g == Result_(s)
           T == {m \in 0..Len(s) : ~Sofar(s, g, m)}
<1>0. Len(s) \in Nat
      OBVIOUS
<1>1. \A m \in 0..Len(s) : g[m] = Body(g, s, m)
      BY <1>0, ResultExists
<1> HIDE DEF g
<1>2. SUFFICES ASSUME T # {} PROVE FALSE
      BY DEF g
<1>3. PICK m \in T : \A k \in T : m <= k
  <2>1. T \in SUBSET Nat
        OBVIOUS
  <2> HIDE DEF T
  <2> QED BY <1>2, <2>1, LeastNumber
<1>4. m \in 0..Len(s) /\ ~Sofar(s, g, m)
      OBVIOUS
<1>5. CASE m = 0
  <2>1. g[m] = <<>> /\ Rank(s, m) = 0
        BY <1>1, <1>4, <1>5, RankGrows DEF Body
  <2>2. Kept(s, m) = {}
        BY <1>5 DEF Kept
  <2> QED BY <1>4, <2>1, <2>2 DEF Sofar
<1>6. CASE m # 0
  <2> DEFINE o == m - 1
  <2>1. o \in 0..Len(s) /\ o \in Nat /\ m \in Nat /\ Sofar(s, g, o)
        BY <1>0, <1>3, <1>4, <1>6
  <2>2. g[m] = IF s[m] = Null THEN g[o] ELSE Append(g[o], s[m])
        BY <1>1, <1>4, <1>6 DEF Body
  <2>3. Rank(s, m) = Rank(s, o) + (IF s[m] = Null THEN 0 ELSE 1) /\ Rank(s, o) \in Nat
        BY <1>6, <2>1, RankGrows
  <2>4. CASE s[m] = Null
    <3>1. Kept(s, m) = Kept(s, o)
          BY <1>6, <2>1, <2>4 DEF Kept
    <3>2. g[m] = g[o] /\ Rank(s, m) = Rank(s, o)
          BY <2>2, <2>3, <2>4
    <3> HIDE DEF o
    <3> QED BY <1>4, <2>1, <3>1, <3>2 DEF Sofar
  <2>5. CASE s[m] # Null
    <3>1. Kept(s, m) = Kept(s, o) \cup {m}
          BY <1>6, <2>1, <2>5 DEF Kept
    <3>2. s[m] \in Item
          BY <1>4, <1>6, <2>5
    <3>3. g[m] = Append(g[o], s[m]) /\ Rank(s, m) = Rank(s, o) + 1
          BY <2>2, <2>3, <2>5
    <3> HIDE DEF o
    <3>4. g[o] \in Seq(Item) /\ Len(g[o]) = Rank(s, o)
          BY <2>1 DEF Sofar
    <3>5. g[m] \in Seq(Item) /\ Len(g[m]) = Rank(s, m)
          BY <3>2, <3>3, <3>4
    <3>6. ASSUME NEW p \in Kept(s, m)
          PROVE  Rank(s, p) \in 1..Rank(s, m) /\ g[m][Rank(s, p)] = s[p]
      <4>1. CASE p = m
            BY <2>3, <3>2, <3>3, <3>4, <4>1
      <4>2. CASE p \in Kept(s, o)
        <5>1. Rank(s, p) \in 1..Rank(s, o) /\ g[o][Rank(s, p)] = s[p]
              BY <2>1, <4>2 DEF Sofar
        <5> QED BY <2>3, <3>2, <3>3, <3>4, <5>1
      <4> QED BY <3>1, <4>1, <4>2
    <3>7. ASSUME NEW k \in 1..Rank(s, m)
          PROVE  \E p \in Kept(s, m) : Rank(s, p) = k
      <4>1. CASE k = Rank(s, m)
            BY <3>1, <4>1
      <4>2. CASE k \in 1..Rank(s, o)
            BY <2>1, <3>1, <4>2 DEF Sofar
      <4> QED BY <2>3, <3>3, <4>1, <4>2
    <3> QED BY <1>4, <3>5, <3>6, <3>7 DEF Sofar
  <2> QED BY <2>4, <2>5
<1> QED BY <1>5, <1>6

\* runRange keeps the values that are not null, all of them and in their order.
THEOREM RangeKeepsValues ==
  ASSUME NEW s \in Seq(Item \cup {Null})
  PROVE  WithoutNull(s) \in Seq(Item) /\ WithoutNull(s) = Values(s)
<1> DEFINE N == Len(s)
           w == WithoutNull(s)
           K == Kept(s, N)
<1>1. N \in Nat /\ DOMAIN s = 1..N
      OBVIOUS
<1>2. Sofar(s, Result_(s), N) /\ w = Result_(s)[N]
      BY <1>1, ResultExists, ResultFollows
<1>3. w \in Seq(Item) /\ Len(w) = Rank(s, N)
      BY <1>2 DEF Sofar
<1>4. {p \in DOMAIN s : s[p] # Null} = K
      BY <1>1 DEF Kept
<1>5. \A p \in K : {q \in K : q <= p} = Kept(s, p)
      BY <1>1 DEF Kept
<1>6. Values(s) = [k \in 1..Cardinality(K) |->
                     s[CHOOSE p \in K : Cardinality({q \in K : q <= p}) = k]]
  <2> DEFINE V == {p \in DOMAIN s : s[p] # Null}
  <2>1. Values(s) = [k \in 1..Cardinality(V) |->
                       s[CHOOSE p \in V : Cardinality({q \in V : q <= p}) = k]]
        BY Zenon DEF Values
  <2>2. V = K
        BY <1>4
  <2> HIDE DEF V, K
  <2> QED BY <2>1, <2>2
<1>7. ASSUME NEW k \in 1..Cardinality(K)
      PROVE  w[k] = s[CHOOSE p \in K : Cardinality({q \in K : q <= p}) = k]
  <2> DEFINE c == CHOOSE p \in K : Cardinality({q \in K : q <= p}) = k
  <2>1. \E p \in K : Cardinality({q \in K : q <= p}) = k
        BY <1>2, <1>5 DEF Sofar, Rank
  <2>2. c \in K /\ Cardinality({q \in K : q <= c}) = k
        BY <2>1
  <2>3. Rank(s, c) = k
        BY <1>5, <2>2 DEF Rank
  <2> HIDE DEF c, K
  <2>4. w[k] = s[c]
        BY <1>2, <2>2, <2>3 DEF Sofar, K
  <2> QED BY <2>4 DEF c
<1>8. w = [k \in 1..Cardinality(K) |-> w[k]]
  <2>1. DOMAIN w = 1..Cardinality(K)
        BY <1>3 DEF Rank
  <2>2. w \in [1..Len(w) -> Item]
    <3> HIDE DEF w
    <3> QED BY <1>3
  <2> HIDE DEF w, K
  <2> QED BY <2>1, <2>2
<1> HIDE DEF K, w
<1>9. w = Values(s)
      BY <1>6, <1>7, <1>8
<1> QED BY <1>3, <1>9 DEF w

(***************************************************************************)
(* What does not change                                                    *)
(***************************************************************************)
LEMMA ItemsFacts ==
  ASSUME fn \in Function
  PROVE  /\ Items \in Seq(Item) /\ Len(Items) \in Nat
         /\ Items = Instances
         /\ HasRange <=> Ranged.given
<1>1. /\ fn.range \in Range_ /\ fn.condRange \in Range_
      /\ fn.cond = "none" => fn.condRange = NoRange
      BY DEF Function
<1>2. /\ fn.range.items \in Seq(Item \cup {Null}) /\ fn.condRange.items \in Seq(Item \cup {Null})
      /\ fn.cond = "none" => ~fn.condRange.given
  <2>1. ASSUME NEW r \in Range_ PROVE r.items \in Seq(Item \cup {Null})
    <3>1. CASE r = NoRange
          BY <3>1 DEF NoRange
    <3>2. CASE \E q \in Ranges : r = [given |-> TRUE, items |-> q]
          BY <3>2, RangesAssumption
    <3> QED BY <3>1, <3>2 DEF Range_
  <2>2. ~NoRange.given
        BY DEF NoRange
  <2> QED BY <1>1, <2>1, <2>2
<1>3. /\ Ranged.items \in Seq(Item \cup {Null})
      /\ Ranged.items = IF fn.cond # "none" /\ fn.condRange.given
                        THEN fn.condRange.items ELSE fn.range.items
      BY <1>2 DEF Ranged
<1>4. Items \in Seq(Item) /\ Items = Instances
      BY <1>3, RangeKeepsValues DEF Items, Instances
<1>5. HasRange <=> Ranged.given
      BY DEF HasRange, Ranged
<1>6. Len(Items) \in Nat
      BY <1>4
<1> QED BY <1>4, <1>5, <1>6

LEMMA FnTypes ==
  ASSUME fn \in Function
  PROVE  /\ ExecuteRange <=> fn.type \in {"slice", "map", "gotemplate", "image"}
         /\ ExecuteSingle <=> fn.type \in {"block", "query", "jq", "gotemplate", "image"}
         /\ fn.type \in {"block", "slice", "gotemplate"} => Result = "list"
         /\ fn.type \in {"query", "jq", "image"} => Result = "last"
         /\ fn.type = "map" => Result = "key"
<1>1. fn.type \in {"root", "block", "query", "jq", "slice", "map", "gotemplate", "image"}
      BY TypesAssumption DEF Function
<1> QED BY <1>1 DEF ExecuteRange, ExecuteSingle, Result, FuncMap, RootFn, BlockFn, QueryFn, JqFn,
                    SliceFn, MapFn, GotemplateFn, ImageFn

LEMMA Frame ==
  ASSUME [Next]_vars
  PROVE  /\ fn' = fn /\ Items' = Items /\ Instances' = Instances
         /\ NothingToDo' <=> NothingToDo
         /\ ExecuteRange' <=> ExecuteRange
         /\ ExecuteSingle' <=> ExecuteSingle
         /\ Plain' <=> Plain
<1>1. fn' = fn
      BY DEF Next, vars, JqFails, ConditionFalse, EmptyRange, Start, NextItem, Single,
             GetFinalResult, ResolveVar, ResolveFails, SkipRun, Run, RunFails
<1>2. Items' = Items /\ Instances' = Instances
      BY <1>1 DEF Items, Ranged, Instances
<1>3. NothingToDo' <=> NothingToDo
      BY <1>1, <1>2 DEF NothingToDo, Ranged
<1> QED BY <1>1, <1>2, <1>3 DEF ExecuteRange, ExecuteSingle, Plain

(***************************************************************************)
(* The steps                                                               *)
(***************************************************************************)
\* The steps that end exec without a run, and what they leave alone.
Ends ==
  /\ pc' = "done" /\ status' \in {"ok", "nil", "false", "error"}
  /\ status' = "ok" => pc = "item" /\ n > Len(Items) /\ ~ExecuteSingle
  /\ out' = out \/ (pc = "start" /\ out' = <<>>)
  /\ pc # "done"
  /\ UNCHANGED <<fn, n, todo, input, calls>>

LEMMA Steps ==
  ASSUME [Next]_vars
  PROVE  \/ Ends \/ Start \/ NextItem \/ Single \/ ResolveVar \/ SkipRun \/ Run
         \/ UNCHANGED vars
<1>1. JqFails \/ ConditionFalse \/ EmptyRange \/ GetFinalResult \/ ResolveFails \/ RunFails
        => Ends
      BY DEF JqFails, ConditionFalse, EmptyRange, InitOutput, GetFinalResult, ResolveFails,
             RunFails, Running, Return, Ends
<1> QED BY <1>1 DEF Next

LEMMA FilterType ==
  ASSUME IsInput(input)
  PROVE  /\ IsInput(FilterInput) /\ DOMAIN FilterInput \subseteq DOMAIN input
         /\ \A v \in DOMAIN FilterInput : FilterInput[v] = input[v]
         /\ DOMAIN fn.vars \cap DOMAIN input \subseteq DOMAIN FilterInput
         /\ fn.type # "image" => FilterInput = input
<1>1. CASE fn.type # "image"
      BY <1>1 DEF FilterInput
<1>2. CASE fn.type = "image"
  <2> DEFINE D == {w \in DOMAIN input : w \in DOMAIN fn.vars \/ (w = Root /\ DOMAIN fn.vars # {})}
  <2>1. FilterInput = [v \in D |-> input[v]]
        BY <1>2 DEF FilterInput
  <2>2. D \subseteq DOMAIN input /\ DOMAIN fn.vars \cap DOMAIN input \subseteq D
        OBVIOUS
  <2> HIDE DEF D
  <2> QED BY <1>2, <2>1, <2>2 DEF IsInput
<1> QED BY <1>1, <1>2

\* A run is added to those before it.
LEMMA CallsGrow ==
  ASSUME TypeOK, NEW x, calls' = Append(calls, x)
  PROVE  /\ Len(calls) \in Nat /\ DOMAIN calls = 1..Len(calls)
         /\ calls' \in Seq(ToSet(calls')) /\ calls' # <<>> /\ Last(calls)' = x
         /\ Len(calls') = Len(calls) + 1 /\ DOMAIN calls' = 1..(Len(calls) + 1)
         /\ \A k \in 1..Len(calls) : calls'[k] = calls[k]
         /\ calls'[Len(calls) + 1] = x
<1> DEFINE S == ToSet(calls) \cup {x}
<1>1. calls \in Seq(S)
      BY DEF TypeOK
<1>2. /\ calls' \in Seq(S) /\ Len(calls') = Len(calls) + 1
      /\ \A k \in 1..Len(calls) : calls'[k] = calls[k]
      /\ calls'[Len(calls) + 1] = x
      BY <1>1
<1>3. DOMAIN calls' = 1..Len(calls') /\ DOMAIN calls = 1..Len(calls) /\ Len(calls) \in Nat
      BY <1>1, <1>2
<1>4. calls' \in Seq(ToSet(calls'))
      BY <1>2, <1>3 DEF ToSet
<1>5. calls' # <<>>
      BY <1>2, <1>3
<1> QED BY <1>2, <1>3, <1>4, <1>5 DEF Last

LEMMA TypeStep == TypeOK /\ [Next]_vars => TypeOK'
<1> SUFFICES ASSUME TypeOK, [Next]_vars PROVE TypeOK'
    OBVIOUS
<1>1. fn \in Function /\ fn' = fn /\ Items' = Items /\ Items \in Seq(Item) /\ Len(Items) \in Nat
      BY Frame, ItemsFacts DEF TypeOK
<1>2. fn.vars \in Locals /\ DOMAIN fn.vars \subseteq Name
      BY <1>1 DEF Function, Name
<1>3. CASE Ends
      BY <1>1, <1>3 DEF Ends, TypeOK, IsInput
<1>4. CASE Start \/ Single
      BY <1>1, <1>4 DEF Start, Single, TypeOK, IsInput
<1>5. CASE NextItem
  <2>1. /\ DOMAIN input' = DOMAIN input \cup {VALUE}
        /\ \A v \in DOMAIN input' :
              input'[v] = IF v = VALUE THEN [from |-> Items[n], lists |-> 0] ELSE input[v]
        /\ input' = [v \in DOMAIN input' |-> input'[v]]
        /\ n \in 1..Len(Items)
        BY <1>1, <1>5 DEF NextItem, TypeOK
  <2>2. [from |-> Items[n], lists |-> 0] \in Entry
        BY <1>1, <2>1 DEF Entry
  <2>3. IsInput(input')
        BY <2>1, <2>2 DEF TypeOK, IsInput, Name
  <2> QED BY <1>1, <1>5, <2>3 DEF NextItem, TypeOK
<1>6. CASE ResolveVar
  <2>1. PICK v \in todo :
          /\ fn.vars[v] \in DOMAIN input
          /\ input' = [w \in DOMAIN input \cup {v} |-> IF w = v THEN NewEntry(v) ELSE input[w]]
          /\ todo' = todo \ {v}
        BY <1>6 DEF ResolveVar
  <2>2. NewEntry(v) \in Entry
    <3> DEFINE e == input[fn.vars[v]]
    <3>1. e \in Entry
          BY <2>1 DEF TypeOK, IsInput
    <3>2. NewEntry(v) = [e EXCEPT !.lists = e.lists + 1]
          BY DEF NewEntry
    <3> HIDE DEF e
    <3> QED BY <3>1, <3>2 DEF Entry
  <2>3. v \in Name
        BY <1>2, <2>1 DEF TypeOK
  <2>4. /\ DOMAIN input' = DOMAIN input \cup {v}
        /\ \A w \in DOMAIN input' : input'[w] = IF w = v THEN NewEntry(v) ELSE input[w]
        /\ input' = [w \in DOMAIN input' |-> input'[w]]
        BY <2>1
  <2>5. IsInput(input')
        BY <2>2, <2>3, <2>4 DEF TypeOK, IsInput
  <2> QED BY <1>1, <1>6, <2>1, <2>5 DEF ResolveVar, TypeOK
<1>7. CASE SkipRun
      BY <1>1, <1>7 DEF SkipRun, TypeOK, IsInput
<1>8. CASE Run
  <2>1. calls' = Append(calls, FilterInput) /\ UNCHANGED <<fn, todo, input>>
        BY <1>8 DEF Run
  <2>2. calls' \in Seq(ToSet(calls')) /\ \A k \in DOMAIN calls' : IsInput(calls'[k])
        BY <2>1, CallsGrow, FilterType DEF TypeOK
  <2>3. n' \in 1..(Len(Items) + 1) /\ pc' \in {"item", "done"} /\ (status' = status \/ status' = "ok")
        BY <1>1, <1>8 DEF Run, Return, TypeOK
  <2> QED BY <1>1, <2>1, <2>2, <2>3 DEF TypeOK, IsInput
<1>9. CASE UNCHANGED vars
      BY <1>1, <1>9 DEF vars, TypeOK, IsInput
<1> QED BY <1>3, <1>4, <1>5, <1>6, <1>7, <1>8, <1>9, Steps

LEMMA RunStep ==
  ASSUME TypeOK, RunFacts, [Next]_vars
  PROVE  RunFacts'
<1>1. /\ Len(Items) \in Nat /\ n \in 1..(Len(Items) + 1) /\ Len(calls) \in Nat
      /\ calls = <<>> <=> Len(calls) = 0
  <2>1. calls \in Seq(ToSet(calls))
        BY DEF TypeOK
  <2> QED BY <2>1, ItemsFacts DEF TypeOK
<1> USE Frame DEF RunFacts, Returned
<1>2. CASE Ends
      BY <1>1, <1>2 DEF Ends
<1>3. CASE Start
      BY <1>1, <1>3 DEF Start
<1>4. CASE NextItem
      BY <1>1, <1>4 DEF NextItem
<1>5. CASE Single
      BY <1>1, <1>5 DEF Single, InitOutput
<1>6. CASE ResolveVar
      BY <1>1, <1>6 DEF ResolveVar
<1>7. CASE SkipRun
      BY <1>1, <1>7 DEF SkipRun
<1>8. CASE Run
  <2>1. Len(calls') = Len(calls) + 1 /\ pc = "resolve"
        BY <1>8, CallsGrow DEF Run, Running
  <2>2. CASE n <= Len(Items)
        BY <1>1, <1>8, <2>1, <2>2 DEF Run, Running
  <2>3. CASE n > Len(Items)
        BY <1>1, <1>8, <2>1, <2>3 DEF Run, Return
  <2> QED BY <1>1, <2>2, <2>3
<1>9. CASE UNCHANGED vars
      BY <1>1, <1>9 DEF vars
<1> QED BY <1>2, <1>3, <1>4, <1>5, <1>6, <1>7, <1>8, <1>9, Steps

LEMMA InputStep ==
  ASSUME TypeOK, RunFacts, InputFacts, [Next]_vars
  PROVE  InputFacts'
<1>1. Len(Items) \in Nat /\ n \in 1..(Len(Items) + 1) /\ (Items # <<>> <=> Len(Items) > 0)
      BY ItemsFacts DEF TypeOK
<1> USE Frame DEF InputFacts, Latest
<1>2. CASE Ends
      BY <1>1, <1>2 DEF Ends
<1>3. CASE Start
      BY <1>1, <1>3 DEF Start, RunFacts
<1>4. CASE NextItem
  <2>1. /\ DOMAIN input' = DOMAIN input \cup {VALUE}
        /\ input'[VALUE] = [from |-> Items[n], lists |-> 0]
        /\ todo' = DOMAIN fn.vars /\ n' = n /\ pc' = "resolve" /\ n <= Len(Items)
        BY <1>4 DEF NextItem
  <2> QED BY <1>1, <2>1
<1>5. CASE Single
  <2>1. /\ n > Len(Items) /\ n' = n /\ input' = input /\ todo' = DOMAIN fn.vars
        /\ pc = "item" /\ pc' = "resolve"
        BY <1>5 DEF Single
  <2> QED BY <1>1, <2>1
<1>6. CASE ResolveVar
  <2>1. PICK v \in todo :
          /\ fn.vars[v] \in DOMAIN input
          /\ input' = [w \in DOMAIN input \cup {v} |-> IF w = v THEN NewEntry(v) ELSE input[w]]
          /\ todo' = todo \ {v}
        BY <1>6 DEF ResolveVar
  <2>2. pc = "resolve" /\ pc' = "resolve" /\ n' = n /\ v \in DOMAIN fn.vars
        BY <1>6, <2>1 DEF ResolveVar, TypeOK
  <2>3. /\ DOMAIN input' = DOMAIN input \cup {v}
        /\ \A w \in DOMAIN input' : input'[w] = IF w = v THEN NewEntry(v) ELSE input[w]
        BY <2>1
  <2>4. DOMAIN fn.vars \ todo' \subseteq DOMAIN input'
        BY <2>1, <2>2, <2>3
  <2>5. ASSUME Plain, Items # <<>>
        PROVE  /\ VALUE \in DOMAIN input' /\ input'[VALUE] = [from |-> Latest, lists |-> 0]
               /\ \A u \in DOMAIN fn.vars \ todo' :
                    fn.vars[u] = VALUE => input'[u] = [from |-> Latest, lists |-> 1]
    <3>1. VALUE \in DOMAIN input /\ input[VALUE] = [from |-> Latest, lists |-> 0] /\ v # VALUE
          BY <2>2, <2>5 DEF Plain
    <3>2. ASSUME fn.vars[v] = VALUE PROVE NewEntry(v) = [from |-> Latest, lists |-> 1]
          BY <3>1, <3>2 DEF NewEntry
    <3>3. ASSUME NEW u \in DOMAIN fn.vars \ todo', fn.vars[u] = VALUE
          PROVE  input'[u] = [from |-> Latest, lists |-> 1]
      <4>1. CASE u = v
            BY <2>3, <3>2, <3>3, <4>1
      <4>2. CASE u # v
            BY <2>1, <2>2, <2>3, <2>4, <2>5, <3>3, <4>2
      <4> QED BY <4>1, <4>2
    <3> QED BY <2>3, <3>1, <3>3
  <2>6. Latest' = Latest
        BY <2>2
  <2> HIDE DEF Latest
  <2> QED BY <2>2, <2>4, <2>5, <2>6
<1>7. CASE SkipRun
      BY <1>1, <1>7 DEF SkipRun
<1>8. CASE Run
  <2>1. input' = input /\ pc = "resolve"
        BY <1>8 DEF Run, Running
  <2>2. CASE n <= Len(Items)
        BY <1>1, <1>8, <2>1, <2>2 DEF Run
  <2>3. CASE n > Len(Items)
        BY <1>1, <1>8, <2>1, <2>3 DEF Run, Return
  <2> QED BY <1>1, <2>2, <2>3
<1>9. CASE UNCHANGED vars
      BY <1>1, <1>9 DEF vars
<1> QED BY <1>2, <1>3, <1>4, <1>5, <1>6, <1>7, <1>8, <1>9, Steps

\* The steps without a run.
LEMMA NoRun ==
  ASSUME [Next]_vars, ~Run
  PROVE  calls' = calls
BY Steps DEF Ends, Start, NextItem, Single, ResolveVar, SkipRun, vars

\* A run is for the item whose variables are in the input.
LEMMA RunIsFor ==
  ASSUME TypeOK, RunFacts, Run
  PROVE  /\ Items # <<>> => InstanceOf(Len(calls) + 1) = Latest
         /\ ~ExecuteSingle => n <= Len(Items) /\ Len(calls) + 1 = n
<1>1. Items = Instances /\ Len(Items) \in Nat /\ n \in 1..(Len(Items) + 1) /\ (Items # <<>> <=> Len(Items) > 0)
      BY ItemsFacts DEF TypeOK
<1>2. pc = "resolve" /\ (n <= Len(Items) => ExecuteRange)
      BY DEF Run, Running
<1>3. Len(calls) = (IF ExecuteRange THEN n - 1 ELSE 0) /\ (n > Len(Items) => ExecuteSingle)
      BY <1>1, <1>2 DEF RunFacts, Returned
<1>4. CASE n <= Len(Items)
      BY <1>1, <1>2, <1>3, <1>4 DEF InstanceOf, Latest
<1>5. CASE n > Len(Items)
  <2>1. n = Len(Items) + 1 /\ ExecuteSingle
        BY <1>1, <1>3, <1>5
  <2>2. InstanceOf(Len(calls) + 1) = Last(Items)
        BY <1>1, <1>3, <2>1 DEF InstanceOf
  <2>3. Latest = Last(Items)
        BY <1>1, <1>5, <2>1 DEF Latest, Last
  <2> QED BY <2>1, <2>2, <2>3
<1> QED BY <1>1, <1>4, <1>5

LEMMA FreshStep ==
  ASSUME TypeOK, RunFacts, InputFacts, LocalsFresh, [Next]_vars
  PROVE  LocalsFresh'
<1>1. Items = Instances
      BY ItemsFacts DEF TypeOK
<1>2. \A k : InstanceOf(k)' = InstanceOf(k)
      BY Frame DEF InstanceOf
<1>3. CASE ~Run
  <2>1. calls' = calls
        BY <1>3, NoRun
  <2> QED BY <1>2, <2>1, Frame DEF LocalsFresh
<1>4. CASE Run
  <2>1. calls' = Append(calls, FilterInput) /\ pc = "resolve" /\ todo = {}
        BY <1>4 DEF Run, Running
  <2>2. SUFFICES ASSUME Items # <<>>, Plain, NEW k \in DOMAIN calls', NEW v \in DOMAIN fn.vars,
                        fn.vars[v] = VALUE
                 PROVE  calls'[k][v] = [from |-> InstanceOf(k), lists |-> 1]
        BY <1>1, <1>2, Frame DEF LocalsFresh
  <2>3. CASE k \in DOMAIN calls
        BY <1>1, <2>1, <2>2, <2>3, CallsGrow DEF LocalsFresh
  <2>4. CASE k = Len(calls) + 1
    <3>1. v \in DOMAIN input /\ input[v] = [from |-> Latest, lists |-> 1]
          BY <2>1, <2>2 DEF InputFacts
    <3>2. FilterInput[v] = input[v]
          BY <3>1, FilterType DEF TypeOK
    <3> QED BY <1>4, <2>1, <2>2, <2>4, <3>1, <3>2, CallsGrow, RunIsFor
  <2> QED BY <2>1, <2>3, <2>4, CallsGrow
<1> QED BY <1>3, <1>4

\* The run of an item, of a slice or a map, with what is kept of it.
LEMMA ItemResult ==
  ASSUME TypeOK, RunFacts, InputFacts, ResultFacts, [Next]_vars, Run
  PROVE  /\ Plain /\ fn.type \in {"slice", "map"} =>
              \A k \in DOMAIN calls' : VALUE \in DOMAIN calls'[k] /\ calls'[k][VALUE].from = Items[k]
         /\ fn.type = "slice" => out' = calls'
         /\ Plain /\ fn.type = "map" =>
              /\ DOMAIN out' = {Items[k] : k \in 1..(n' - 1)}
              /\ \A k \in DOMAIN out' : out'[k][VALUE].from = k
<1>1. /\ calls' = Append(calls, FilterInput) /\ out' = RecordOutput(FilterInput)
      /\ pc = "resolve" /\ todo = {}
      BY DEF Run, Running
<1>2. n \in 1..(Len(Items) + 1) /\ Len(Items) \in Nat /\ (Items # <<>> <=> Len(Items) > 0)
      BY ItemsFacts DEF TypeOK
<1>3. ASSUME fn.type \in {"slice", "map"}
      PROVE  /\ FilterInput = input /\ n <= Len(Items) /\ Len(calls) + 1 = n
             /\ n' = n + 1
             /\ Plain => VALUE \in DOMAIN input /\ input[VALUE].from = Items[n]
  <2>1. ~ExecuteSingle
        BY <1>3, FnTypes DEF TypeOK
  <2>2. n <= Len(Items) /\ Len(calls) + 1 = n
        BY <2>1, RunIsFor
  <2>3. FilterInput = input
        BY <1>3, FilterType DEF TypeOK
  <2>4. n' = n + 1
        BY <2>2 DEF Run
  <2>5. Latest = Items[n] /\ Items # <<>>
        BY <1>1, <1>2, <2>2 DEF Latest
  <2> QED BY <1>1, <2>2, <2>3, <2>4, <2>5 DEF InputFacts
<1>4. ASSUME Plain, fn.type \in {"slice", "map"}, NEW k \in DOMAIN calls'
      PROVE  VALUE \in DOMAIN calls'[k] /\ calls'[k][VALUE].from = Items[k]
  <2>1. CASE k \in DOMAIN calls
        BY <1>1, <1>4, <2>1, CallsGrow DEF ResultFacts
  <2>2. CASE k = Len(calls) + 1
        BY <1>1, <1>3, <1>4, <2>2, CallsGrow
  <2> QED BY <1>1, <2>1, <2>2, CallsGrow
<1>5. ASSUME fn.type = "slice" PROVE out' = calls'
  <2>1. Result = "list" /\ out = calls
        BY <1>5, FnTypes DEF TypeOK, ResultFacts
  <2> QED BY <1>1, <2>1 DEF RecordOutput
<1>6. ASSUME Plain, fn.type = "map"
      PROVE  /\ DOMAIN out' = {Items[k] : k \in 1..(n' - 1)}
             /\ \A k \in DOMAIN out' : out'[k][VALUE].from = k
  <2>1. Result = "key"
        BY <1>6, FnTypes DEF TypeOK
  <2>2. /\ DOMAIN out = {Items[k] : k \in 1..(n - 1)}
        /\ \A k \in DOMAIN out : out[k][VALUE].from = k
        BY <1>6 DEF ResultFacts
  <2> DEFINE x == FilterInput
  <2>3. x[VALUE].from = Items[n] /\ n' = n + 1
        BY <1>3, <1>6
  <2> HIDE DEF x
  <2>4. out' = [k \in DOMAIN out \cup {Items[n]} |-> IF k = Items[n] THEN x ELSE out[k]]
        BY <1>1, <2>1, <2>3 DEF RecordOutput, x
  <2>5. DOMAIN out' = DOMAIN out \cup {Items[n]}
        BY <2>4
  <2>6. {Items[k] : k \in 1..(n' - 1)} = {Items[k] : k \in 1..(n - 1)} \cup {Items[n]}
        BY <1>2, <2>3
  <2>7. ASSUME NEW k \in DOMAIN out' PROVE out'[k][VALUE].from = k
    <3>1. CASE k = Items[n]
          BY <2>3, <2>4, <3>1
    <3>2. CASE k # Items[n]
          BY <2>2, <2>4, <2>5, <2>7, <3>2
    <3> QED BY <3>1, <3>2
  <2> QED BY <2>2, <2>5, <2>6, <2>7
<1> QED BY <1>4, <1>5, <1>6

LEMMA ResultStep ==
  ASSUME TypeOK, RunFacts, InputFacts, ResultFacts, [Next]_vars
  PROVE  ResultFacts'
<1>1. /\ Len(Items) \in Nat /\ n \in 1..(Len(Items) + 1)
      /\ calls = <<>> <=> Len(calls) = 0
  <2>1. calls \in Seq(ToSet(calls))
        BY DEF TypeOK
  <2> QED BY <2>1, ItemsFacts DEF TypeOK
<1> DEFINE Goal ==
       /\ Plain /\ fn.type \in {"slice", "map"} =>
            \A k \in DOMAIN calls' : VALUE \in DOMAIN calls'[k] /\ calls'[k][VALUE].from = Items[k]
       /\ fn.type = "slice" => out' = calls'
       /\ Plain /\ fn.type = "map" =>
            /\ DOMAIN out' = {Items[k] : k \in 1..(n' - 1)}
            /\ \A k \in DOMAIN out' : out'[k][VALUE].from = k
       /\ Returned' /\ ExecuteSingle => out' = <<Last(calls')>>
<1> SUFFICES Goal
  <2>1. fn' = fn /\ Items' = Items /\ (ExecuteSingle' <=> ExecuteSingle) /\ (Plain' <=> Plain)
        BY Frame
  <2> QED BY <2>1 DEF ResultFacts
<1>2. CASE Run
  <2>1. ASSUME Returned', ExecuteSingle PROVE out' = <<Last(calls')>>
    <3>1. n > Len(Items) /\ pc = "resolve" /\ calls' = Append(calls, FilterInput) /\ out' = RecordOutput(FilterInput)
          BY <1>1, <1>2, <2>1 DEF Run, Running, Returned
    <3>2. out = <<>> /\ Result \in {"list", "last"}
          BY <2>1, <3>1, FnTypes DEF RunFacts, TypeOK
    <3>3. out' = <<FilterInput>>
          BY <3>1, <3>2 DEF RecordOutput
    <3> QED BY <3>1, <3>3, CallsGrow
  <2> QED BY <1>2, <2>1, ItemResult
<1>3. CASE ~Run
  <2>1. calls' = calls
        BY <1>3, NoRun
  <2>2. CASE pc = "start"
    <3>1. calls = <<>> /\ n = 1 /\ n' = n /\ (out' = out \/ out' = <<>>)
      <4>1. calls = <<>> /\ n = 1
            BY <1>1, <2>2 DEF RunFacts, Returned
      <4>2. n' = n /\ (out' = out \/ out' = <<>>)
            BY <1>3, <2>2, Steps
            DEF Ends, Start, InitOutput, NextItem, Single, ResolveVar, SkipRun, vars
      <4> QED BY <4>1, <4>2
    <3>2. ~(Returned' /\ ExecuteSingle)
          BY <1>3, <2>2, Steps DEF Ends, Start, NextItem, Single, ResolveVar, SkipRun, vars, Returned
    <3>3. {Items[k] : k \in 1..(n - 1)} = {}
          BY <3>1
    <3>4. fn.type = "slice" => out' = calls'
          BY <2>1, <3>1 DEF ResultFacts
    <3>5. Plain /\ fn.type = "map" => DOMAIN out' = {}
          BY <3>1, <3>3 DEF ResultFacts
    <3>6. DOMAIN calls' = {} /\ {Items[k] : k \in 1..(n' - 1)} = {}
          BY <2>1, <3>1, <3>3
    <3> QED BY <3>2, <3>4, <3>5, <3>6
  <2>3. CASE pc # "start"
    <3>1. ~(Returned' /\ ExecuteSingle) \/ UNCHANGED vars
          BY <1>3, <2>3, Steps DEF Ends, Start, NextItem, Single, ResolveVar, SkipRun, Returned, TypeOK
    <3>2. CASE UNCHANGED vars
          BY <3>2 DEF vars, ResultFacts, Returned
    <3>3. CASE ~(Returned' /\ ExecuteSingle)
      <4>1. out' = out \/ ExecuteSingle
            BY <1>3, <2>3, Steps DEF Ends, Start, NextItem, Single, ResolveVar, SkipRun, vars
      <4>2. n' = n \/ ~ExecuteRange
            BY <1>3, <2>3, Steps DEF Ends, Start, NextItem, Single, ResolveVar, SkipRun, vars
      <4>3. fn.type \in {"slice", "map"} => ExecuteRange /\ ~ExecuteSingle
            BY FnTypes DEF TypeOK
      <4> QED BY <2>1, <3>3, <4>1, <4>2, <4>3 DEF ResultFacts
    <3> QED BY <3>1, <3>2, <3>3
  <2> QED BY <2>2, <2>3
<1> QED BY <1>2, <1>3

LEMMA InitIInv == Init => IInv
<1> SUFFICES ASSUME Init PROVE IInv
    OBVIOUS
<1>1. fn \in Function /\ pc = "start" /\ n = 1 /\ todo = {} /\ out = <<>> /\ calls = <<>>
      /\ status = "none"
      BY DEF Init
<1>2. Len(calls) = 0 /\ DOMAIN calls = {} /\ DOMAIN out = {}
      BY <1>1
<1>3. TypeOK
  <2>1. PICK v \in {Ref, Null} :
          input = [r \in {Root, Ref} |-> [from |-> IF r = Root THEN Root ELSE v, lists |-> 0]]
        BY DEF Init
  <2>2. IsInput(input)
        BY <2>1 DEF IsInput, Name, Entry
  <2>3. calls \in Seq(ToSet(calls))
        BY <1>1
  <2> QED BY <1>1, <1>2, <2>2, <2>3, ItemsFacts DEF TypeOK
<1>4. RunFacts
      BY <1>1, <1>2 DEF RunFacts, Returned
<1>5. InputFacts
      BY <1>1 DEF InputFacts
<1>6. ResultFacts
  <2>1. {Items[k] : k \in 1..(n - 1)} = {}
        BY <1>1
  <2> QED BY <1>1, <1>2, <2>1 DEF ResultFacts, Returned
<1>7. LocalsFresh
      BY <1>2 DEF LocalsFresh
<1> QED BY <1>3, <1>4, <1>5, <1>6, <1>7 DEF IInv

\* The runs of a function are counted by the items passed, an input has the
\* variables of the item whose turn it is, and the output is that of the runs so
\* far: this holds from the start and is kept by every step of exec.
THEOREM Inductive == Spec => []IInv
<1>1. IInv /\ [Next]_vars => IInv'
      BY TypeStep, RunStep, InputStep, ResultStep, FreshStep DEF IInv
<1> QED BY InitIInv, <1>1, PTL DEF Spec

\* No run of a function sees a local variable computed for an earlier item: what
\* resolveLocalVars reads of the item is the item of the run (exec, the shared
\* input of all the instances).
THEOREM FreshVariables == Spec => []LocalsFresh
<1>1. IInv => LocalsFresh
      BY DEF IInv
<1> QED BY <1>1, Inductive, PTL

\* A slice or a map that succeeds has one result for each item of its range, in
\* the order of the items and by key (recordOutput, getFinalResult).
THEOREM OneResultPerItem == Spec => []RangeResult
<1>1. IInv => RangeResult
  <2> SUFFICES ASSUME IInv, Returned, Plain
               PROVE  /\ fn.type = "slice" => [k \in DOMAIN out |-> out[k][VALUE].from] = Instances
                      /\ fn.type = "map" =>
                           /\ DOMAIN out = ToSet(Instances)
                           /\ \A k \in DOMAIN out : out[k][VALUE].from = k
      BY DEF RangeResult
  <2>1. Items = Instances /\ Items \in Seq(Item) /\ Len(Items) \in Nat
        BY ItemsFacts DEF IInv, TypeOK
  <2>2. n = Len(Items) + 1 /\ calls \in Seq(ToSet(calls))
        BY DEF IInv, TypeOK, RunFacts
  <2>3. ASSUME fn.type = "slice"
        PROVE  [k \in DOMAIN out |-> out[k][VALUE].from] = Instances
    <3>1. ExecuteRange /\ ~ExecuteSingle
          BY <2>3, FnTypes DEF IInv, TypeOK
    <3>2. out = calls /\ Len(calls) = Len(Items)
          BY <2>1, <2>2, <2>3, <3>1 DEF IInv, RunFacts, ResultFacts
    <3>3. DOMAIN out = 1..Len(Items) /\ Items = [k \in 1..Len(Items) |-> Items[k]]
          BY <2>1, <2>2, <3>2
    <3>4. \A k \in DOMAIN out : out[k][VALUE].from = Items[k]
          BY <2>3, <3>2 DEF IInv, ResultFacts
    <3> QED BY <2>1, <3>3, <3>4
  <2>4. ASSUME fn.type = "map"
        PROVE  /\ DOMAIN out = ToSet(Instances)
               /\ \A k \in DOMAIN out : out[k][VALUE].from = k
    <3>1. /\ DOMAIN out = {Items[k] : k \in 1..(n - 1)}
          /\ \A k \in DOMAIN out : out[k][VALUE].from = k
          BY <2>4 DEF IInv, ResultFacts
    <3>2. DOMAIN Items = 1..(n - 1)
          BY <2>1, <2>2
    <3> QED BY <2>1, <3>1, <3>2 DEF ToSet
  <2> QED BY <2>3, <2>4
<1> QED BY <1>1, Inductive, PTL

\* Nothing is run when the condition is false or the range empty, and of a
\* function with a single run the result is that of that run alone, which comes
\* after one run for each item (exec, initOutput).
THEOREM RunsAndResult == Spec => []RightRuns
<1>1. IInv => RightRuns
  <2> SUFFICES ASSUME IInv PROVE RightRuns
      OBVIOUS
  <2>1. Items = Instances /\ Len(Items) \in Nat /\ (HasRange <=> Ranged.given)
        BY ItemsFacts DEF IInv, TypeOK
  <2>2. Guarded
        BY <2>1 DEF IInv, RunFacts, NothingToDo, Guarded
  <2>3. ASSUME Returned, fn.type \in {"jq", "query", "gotemplate", "image"}
        PROVE  /\ out = <<Last(calls)>>
               /\ Len(calls) = 1 + IF ExecuteRange THEN Len(Instances) ELSE 0
    <3>1. ExecuteSingle
          BY <2>3, FnTypes DEF IInv, TypeOK
    <3>2. n = Len(Items) + 1
          BY <2>3 DEF IInv, RunFacts
    <3> QED BY <2>1, <2>3, <3>1, <3>2 DEF IInv, RunFacts, ResultFacts
  <2> QED BY <2>2, <2>3 DEF RightRuns, LastRunOnly
<1> QED BY <1>1, Inductive, PTL

=============================================================================
