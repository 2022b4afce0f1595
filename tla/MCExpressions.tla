---------------------------- MODULE MCExpressions ----------------------------
(* Short texts, the grammar they follow, and what they mean.                   *)
EXTENDS Expressions

\* For precedence; names and their values; transforms; containers; functions; strings.
MCPhrases ==
  {{<<"a">>, <<"not">>, <<"-">>, <<"or">>, <<"and">>, <<"<">>, <<"*">>, <<"(", "a">>, <<"a", ")">>},
   {<<"a">>, <<"f">>, <<"+">>, <<"-">>, <<"==">>, <<"and">>, <<"or">>, <<"true">>},
   {<<"abs", "(", "a", ")">>, <<".", "scale", "(", "b", ")">>, <<".", "shift", "(", "a", ")">>,
    <<".", "shift", "(", "b", ")">>, <<".", "add", "(", "a", ")">>, <<".", "s">>, <<"-">>, <<"[", "a", "]">>,
    <<"(", "abs", "(", "b", ")", ")">>},
   {<<"o">>, <<"[", "a", ",", "b", "]">>, <<"[">>, <<"1">>, <<"]">>, <<".", "k">>, <<".", "s">>, <<"==">>, <<"==", "o">>},
   {<<"terop", "(">>, <<"floordiv", "(">>, <<"min", "(">>, <<"a">>, <<",", "f">>, <<",", "b">>, <<",", "z">>, <<")">>,
    <<")", ".", "shift", "(", "a", ")">>, <<".", "s">>, <<",", "o">>},
   {<<"q">>, <<"+">>, <<"<">>, <<"==">>, <<"o">>, <<"[", "q", "]">>, <<"min", "(", "q", ",", "z", ")">>}}

MCLiterals == ("1" :> Number(1)) @@ ("z" :> String(""))

MCScopes ==
  {[a |-> Number(-2), b |-> Number(3), f |-> Bool(FALSE), q |-> String("k"),
    o |-> [type |-> "object", data |-> [k |-> Number(4), s |-> Number(5)]]],
   [a |-> Number(0), b |-> Number(1), f |-> Number(0), q |-> String("s"),
    o |-> [type |-> "array", data |-> <<Number(6), String("k")>>]],
   [a |-> Bool(TRUE), f |-> String("k")]}

-----------------------------------------------------------------------------
(* The grammar: the trees a text has as an expression of a level, from `or`, *)
(* 1, to calls, indices and postfix access, 8.                               *)

Levels == [op \in DOMAIN Precedence |->
             CASE op = "or" -> 1 [] op = "and" -> 2 [] op \in {"<", "=="} -> 4
               [] op \in {"+", "-"} -> 5 [] op = "*" -> 6]

RECURSIVE Trees(_, _), Lists(_)
Trees(t, level) ==
  LET n == Len(t)
      splits(op) == {i \in 2..(n - 1) : t[i] = op}
      upTo(i) == SubSeq(t, 1, i - 1)
      after(i) == SubSeq(t, i + 1, n)
      binary(op, l) ==
        UNION {{Node("binary", op, <<x, y>>) : x \in Trees(upTo(i), l), y \in Trees(after(i), level + 1)} : i \in splits(op)}
      here == {op \in DOMAIN Levels : Levels[op] = level /\ op \in Range(t)}
      prefixed(ops, l) == IF n > 1 /\ t[1] \in ops THEN {Node("unary", t[1], <<x>>) : x \in Trees(after(1), l)} ELSE {}
      opened(i) == SubSeq(t, i + 1, n - 1)
      named == n > 0 /\ t[1] \notin Symbols \cup {"and", "or", "not"} \cup DOMAIN Literals
  IN  CASE level \in {1, 2, 5, 6} -> Trees(t, level + 1) \cup UNION {binary(op, level) : op \in here}
        [] level = 3 -> Trees(t, 4) \cup prefixed({"not"}, 3)
        [] level = 4 -> Trees(t, 5) \cup UNION {binary(op, 5) : op \in here}
        [] level = 7 -> Trees(t, 8) \cup prefixed({"+", "-"}, 7)
        [] level = 8 ->
             (IF named /\ n = 1 THEN {Node("name", t[1], <<>>)} ELSE {})
             \cup (IF n = 1 /\ t[1] \in DOMAIN Literals THEN {Node("literal", t[1], <<>>)} ELSE {})
             \cup (IF n > 2 /\ t[1] = "(" /\ t[n] = ")" THEN {Node("group", "", <<x>>) : x \in Trees(opened(1), 1)} ELSE {})
             \cup (IF n > 1 /\ t[1] = "[" /\ t[n] = "]" THEN {Node("array", "", l) : l \in Lists(opened(1))} ELSE {})
             \cup (IF n > 2 /\ t[2] = "(" /\ t[n] = ")" /\ t[1] \in DOMAIN Arities
                   THEN {Node("call", t[1], l) : l \in {l \in Lists(opened(2)) : Len(l) \in Arities[t[1]]}} ELSE {})
             \cup (IF n > 2 /\ t[n] = "]"
                   THEN UNION {{Node("index", "", <<x, y>>) : x \in Trees(upTo(i), 8), y \in Trees(opened(i), 1)} :
                               i \in splits("[")} ELSE {})
             \cup (IF n > 2 /\ t[n - 1] = "." /\ t[n] \notin Symbols \cup DOMAIN Literals
                   THEN {Node("dot", t[n], <<x>>) : x \in Trees(SubSeq(t, 1, n - 2), 8)} ELSE {})
             \cup (IF n > 4 /\ t[n] = ")"
                   THEN UNION {{Node("method", t[i + 1], <<x, y>>) :
                                  x \in Trees(upTo(i), 8), y \in Trees(opened(i + 2), 1)} :
                               i \in {i \in splits(".") : i + 2 < n /\ t[i + 1] \in Methods /\ t[i + 2] = "("}} ELSE {})

\* Expressions with commas between them.
Lists(t) ==
  IF t = <<>> THEN {<<>>}
  ELSE {<<x>> : x \in Trees(t, 1)}
       \cup UNION {{<<x>> \o l : x \in Trees(SubSeq(t, 1, i - 1), 1),
                                 l \in Lists(SubSeq(t, i + 1, Len(t))) \ {<<>>}} : i \in {i \in DOMAIN t : t[i] = ","}}

-----------------------------------------------------------------------------
(* What a tree of the grammar means, without order, budget or chains: a shift *)
(* belongs to the call that it and what is in front of it are applied to.     *)

RECURSIVE ReachesCall(_), Shifted(_, _), IsWritable(_), Flat(_), Meaning(_, _)
ReachesCall(x) ==
  \/ x.kind = "call"
  \/ x.kind = "method" /\ ReachesCall(x.args[1])
  \/ x.kind = "dot" /\ x.name \in TimeUnits /\ ReachesCall(x.args[1])

Shifted(x, by) ==
  IF x.kind = "call" THEN [x EXCEPT !.args[1] = Node("binary", "-", <<@, by>>)]
  ELSE [x EXCEPT !.args[1] = Shifted(@, by)]

IsWritable(x) ==
  /\ x.kind = "method" /\ x.name = "shift" => ReachesCall(x.args[1])
  /\ \A i \in DOMAIN x.args : IsWritable(x.args[i])

\* The tree as the code builds it.
Flat(x) ==
  LET of == [i \in DOMAIN x.args |-> Flat(x.args[i])]
  IN  IF x.kind = "group" THEN of[1]
      ELSE IF x.kind # "call" /\ ReachesCall(x) THEN [of[1] EXCEPT !.chain = Append(@, Node("method", x.name, Tail(of)))]
      ELSE [x EXCEPT !.args = of]

\* Of shifted arguments only numbers have a difference.
Meaning(x, scope) ==
  LET of == [i \in DOMAIN x.args |-> Meaning(x.args[i], scope)]
  IN  IF x.kind = "literal" THEN Literals[x.name]
      ELSE IF x.kind = "name" THEN
        IF x.name \in DOMAIN scope THEN scope[x.name]
        ELSE IF x.name \in DOMAIN Constants THEN Constants[x.name] ELSE Error
      ELSE IF x.kind = "binary" /\ x.name \in {"and", "or"} THEN
        IF IsError(of[1]) THEN Error
        ELSE IF IsTruthy(of[1]) = (x.name = "or") THEN Bool(x.name = "or")
        ELSE IF IsError(of[2]) THEN Error ELSE Bool(IsTruthy(of[2]))
      ELSE IF x.kind = "method" /\ x.name = "shift" THEN Meaning(Shifted(x.args[1], x.args[2]), scope)
      ELSE IF \E i \in DOMAIN of : IsError(of[i]) THEN Error
      ELSE CASE x.kind = "group" -> of[1]
             [] x.kind = "array" -> [type |-> "array", data |-> of]
             [] x.kind = "unary" -> Negated(x.name, of[1])
             [] x.kind = "binary" -> Operated(x.name, of[1], of[2])
             [] x.kind = "index" -> IndexInto(of[1], of[2])
             [] x.kind = "dot" -> Dotted(of[1], x.name)
             [] x.kind = "method" -> Transformed(x.name, of[1], of[2])
             [] x.kind = "call" -> Called(x.name, of)

Written == {x \in Trees(text, 1) : IsWritable(x)}

\* What the code takes beyond the grammar: `not` as an operand of an operator
\* that binds tighter, and `and` and `or` as names.
RECURSIVE IsOdd(_)
IsOdd(x) ==
  \/ x.kind = "name" /\ x.name \in {"and", "or"}
  \/ x.kind \in {"unary", "binary"} /\ x.name \notin {"not", "and", "or"}
     /\ Last(x.args).kind = "unary" /\ Last(x.args).name = "not"
  \/ \E i \in DOMAIN x.args : IsOdd(x.args[i])
  \/ \E i \in DOMAIN x.chain : IsOdd(x.chain[i])

-----------------------------------------------------------------------------
\* README "Precedence from loosest to tightest", "Comparisons do not chain",
\* "`.shift` requires a call": a text the grammar derives has one tree, and that
\* is the one that climbing finds (expression_tree.py:104-143, 200-235); no other
\* text is accepted but the odd ones above.
ParsesByGrammar ==
  \/ \E x \in Written : Written = {x} /\ compiled = Parsed(Flat(x), Len(text) + 1)
  \/ Written = {} /\ (compiled.ok => IsOdd(compiled.node))
  \/ ~compiled.ok /\ compiled.why = "depth"

\* The recursion of execute is bounded, also for the chains that the parser reads
\* in a loop; and what is short is never too deep (expression_tree.py:105, 255-264).
DepthIsBounded ==
  /\ compiled.ok => Height(compiled.node) <= MaxDepth
  /\ ~compiled.ok /\ compiled.why = "depth" => Len(text) > MaxDepth

Ample == Max(Budgets)
RunWith(budget) == Execute(compiled.node, outcome.scope, budget)
HasRun == outcome # NotRun

\* README "`and` and `or` short-circuit and return Bool", "terop ... Eager", "all
\* shifts in that call's initial chain apply before the call, regardless of where
\* they appear": an evaluation gives what the text means, and fails only if that
\* is nothing, or for its budget (expression_tree.py:285-398).
EvaluatesAsWritten ==
  HasRun => \A x \in Written :
    IF outcome.run.ok THEN outcome.run.values = <<Meaning(x, outcome.scope)>>
    ELSE IsError(Meaning(x, outcome.scope)) \/ RunWith(Ample).ok

\* A name that is read may be a latching timer, which starts then: names are read
\* in the order of the text, and none oftener than it is written (vm.py:111-114).
ReadsInTextOrder ==
  HasRun =>
    LET matched == FoldLeft(LAMBDA n, token : IF n < Len(outcome.run.reads) /\ outcome.run.reads[n + 1] = token
                                              THEN n + 1 ELSE n, 0, text)
    IN  matched = Len(outcome.run.reads)

\* A budget stops an evaluation or has no effect on it: what it costs does not
\* depend on what there is (resources.py:37-44).
BudgetOnlyStops ==
  HasRun =>
    LET ample == RunWith(Ample)
        cost == Ample - ample.left
    IN  /\ IsPrefix(outcome.run.reads, ample.reads)
        /\ ample.ok => IF cost <= outcome.budget
                       THEN outcome.run = [ample EXCEPT !.left = outcome.budget - cost]
                       ELSE ~outcome.run.ok
        /\ ~ample.ok => ~outcome.run.ok
=============================================================================
