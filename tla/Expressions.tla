---------------------------- MODULE Expressions ----------------------------
(***************************************************************************)
(* Expressions: a text becomes a tree by precedence climbing, and the tree *)
(* is evaluated within a budget of operations.  A text is a sequence of    *)
(* tokens.  Int and Float are one type "number", with integers for data.   *)
(***************************************************************************)
EXTENDS Integers, SequencesExt

CONSTANTS
  Phrases,     \* what a text is written with: sets of token sequences
  MaxPhrases,  \* bounds the texts
  Literals,    \* token -> value
  Scopes,      \* what the names may stand for: functions to values
  Budgets,     \* operation_budget: how much an evaluation may spend
  MaxDepth     \* MAX_DEPTH

VARIABLES
  phrases,   \* the ones this text is written with
  left,      \* how many more it may have
  text,      \* the tokens
  compiled,  \* what compile_expression makes of it
  outcome    \* what execute made of that last, and for whom

exprVars == <<phrases, left, text, compiled, outcome>>

-----------------------------------------------------------------------------
(* Values                                                                   *)

Number(n) == [type |-> "number", data |-> n]
Bool(b) == [type |-> "bool", data |-> b]
String(s) == [type |-> "string", data |-> s]

Constants == ("true" :> Bool(TRUE)) @@ ("false" :> Bool(FALSE))

Error == [type |-> "error"]

\* Strings are made of one letter, so the longer one is the greater.
IsTruthy(v) ==
  CASE v.type = "number" -> v.data # 0
    [] v.type = "bool" -> v.data
    [] v.type = "string" -> v.data # ""
    [] OTHER -> DOMAIN v.data # {}

IsNumber(v) == v.type = "number"
IsError(v) == v.type = "error"

IndexInto(c, i) ==
  IF c.type = "array" /\ IsNumber(i)
  THEN IF i.data >= 0 /\ i.data < Len(c.data) THEN c.data[i.data + 1] ELSE Error
  ELSE IF c.type = "object" /\ i.type = "string"
  THEN IF i.data \in DOMAIN c.data THEN c.data[i.data] ELSE Error
  ELSE Error

\* Python's ==, for which True is 1.
RECURSIVE Equal(_, _)
Equal(a, b) ==
  LET int(v) == IF v.type = "bool" THEN IF v.data THEN 1 ELSE 0 ELSE v.data
  IN  IF {a.type, b.type} \subseteq {"number", "bool"} THEN int(a) = int(b)
      ELSE IF a.type # b.type THEN FALSE
      ELSE IF a.type = "string" THEN a.data = b.data
      ELSE DOMAIN a.data = DOMAIN b.data /\ \A x \in DOMAIN a.data : Equal(a.data[x], b.data[x])

\* What it costs to look at all of a container.
RECURSIVE Size(_)
Size(v) ==
  IF v.type \notin {"array", "object"} THEN 1
  ELSE 1 + FoldFunction(+, 0, [x \in DOMAIN v.data |-> Size(v.data[x])])

-----------------------------------------------------------------------------
(* Parsing.  Each operator returns the node it has read and where it stopped, *)
(* or where it failed and why.                                               *)

Precedence ==
  [op \in {"or", "and", "==", "<", "+", "-", "*"} |->
     CASE op = "or" -> 1 [] op = "and" -> 2 [] op \in {"==", "<"} -> 4
       [] op \in {"+", "-"} -> 5 [] OTHER -> 6]
Symbols == {"(", ")", "[", "]", ".", ",", "==", "<", "+", "-", "*"}
Arities ==
  [abs |-> {1}, floordiv |-> {2}, min |-> 2..MaxPhrases, terop |-> {3}]
TimeUnits == {"s"}
Methods == {"shift", "scale", "add"}

Node(kind, name, args) == [kind |-> kind, name |-> name, args |-> args, chain |-> <<>>]

Parsed(node, pos) == [ok |-> TRUE, node |-> node, pos |-> pos]
Refused(pos, why) == [ok |-> FALSE, pos |-> pos, why |-> why]

At(t, pos, tokens) == pos <= Len(t) /\ t[pos] \in tokens
\* Where a name is due any word is one, also `and` and `or`.
AtName(t, pos) == pos <= Len(t) /\ t[pos] \notin Symbols \cup DOMAIN Literals

\* What must follow a part that was read: one token.
Require(t, part, token) ==
  IF part.ok /\ ~At(t, part.pos, {token}) THEN Refused(part.pos, "syntax") ELSE part

\* Faulty variant: but for comparisons, operators of one precedence group to the right.
MinimumForSame(op) == Precedence[op] + IF Precedence[op] = 4 THEN 1 ELSE 0
MinimumFor(op) == Precedence[op] + 1

RECURSIVE Expression(_, _, _, _), Climb(_, _, _, _, _, _), Atom(_, _, _), Postfix(_, _, _, _, _), Sequence(_, _, _, _, _)

Expression(t, pos, minimum, depth) ==
  LET prefixed == At(t, pos, {"not", "+", "-"})
      operand == IF ~prefixed THEN Atom(t, pos, depth + 1)
                 ELSE Expression(t, pos + 1, IF t[pos] = "not" THEN 3 ELSE 7, depth + 1)
      node == IF prefixed THEN Node("unary", t[pos], <<operand.node>>) ELSE operand.node
  IN  IF depth > MaxDepth THEN Refused(pos, "depth")
      ELSE IF ~operand.ok THEN operand
      ELSE Climb(t, operand.pos, node, minimum, depth, FALSE)

\* The loop over binary operators; compared says whether one was a comparison.
Climb(t, pos, node, minimum, depth, compared) ==
  LET precedence == Precedence[t[pos]]
      right == Expression(t, pos + 1, MinimumFor(t[pos]), depth + 1)
  IN  IF ~At(t, pos, DOMAIN Precedence) THEN Parsed(node, pos)
      ELSE IF precedence < minimum THEN Parsed(node, pos)
      ELSE IF precedence = 4 /\ compared THEN Refused(pos, "syntax")
      ELSE IF ~right.ok THEN right
      ELSE Climb(t, right.pos, Node("binary", t[pos], <<node, right.node>>),
                 minimum, depth, compared \/ precedence = 4)

Atom(t, pos, depth) ==
  LET inner == Require(t, Expression(t, pos + 1, 0, depth), ")")
      elements == Sequence(t, pos + 1, depth, "]", <<>>)
      args == Sequence(t, pos + 2, depth, ")", <<>>)
  IN  CASE At(t, pos, DOMAIN Literals) -> Postfix(t, pos + 1, Node("literal", t[pos], <<>>), depth, FALSE)
        [] At(t, pos, {"["}) ->
             IF ~elements.ok THEN elements
             ELSE Postfix(t, elements.pos, Node("array", "", elements.node), depth, FALSE)
        [] At(t, pos, {"("}) ->
             IF ~inner.ok THEN inner ELSE Postfix(t, inner.pos + 1, inner.node, depth, FALSE)
        [] AtName(t, pos) ->
             IF ~At(t, pos + 1, {"("}) THEN Postfix(t, pos + 1, Node("name", t[pos], <<>>), depth, FALSE)
             ELSE IF ~args.ok THEN args
             ELSE IF t[pos] \notin DOMAIN Arities THEN Refused(pos, "syntax")
             ELSE IF Len(args.node) \notin Arities[t[pos]] THEN Refused(pos, "syntax")
             ELSE Postfix(t, args.pos, Node("call", t[pos], args.node), depth, TRUE)
        [] OTHER -> Refused(pos, "syntax")

\* Expressions up to the closing token, which is read too.
Sequence(t, pos, depth, close, read) ==
  LET next == Expression(t, pos, 0, depth)
      all == Append(read, next.node)
  IN  IF read = <<>> /\ At(t, pos, {close}) THEN Parsed(read, pos + 1)
      ELSE IF ~next.ok THEN next
      ELSE IF At(t, next.pos, {close}) THEN Parsed(all, next.pos + 1)
      ELSE IF At(t, next.pos, {","}) THEN Sequence(t, next.pos + 1, depth, close, all)
      ELSE Refused(next.pos, "syntax")

\* What follows an atom.  A call keeps its transforms, up to an index or a name
\* that is no unit, so that shifts can come before the call.
Postfix(t, pos, node, depth, isCall) ==
  LET index == Require(t, Expression(t, pos + 1, 0, depth), "]")
      name == t[pos + 1]
      argument == Require(t, Expression(t, pos + 3, 0, depth), ")")
      chained(args) == [node EXCEPT !.chain = Append(@, Node("method", name, args))]
  IN  IF At(t, pos, {"["})
      THEN IF ~index.ok THEN index
           ELSE Postfix(t, index.pos + 1, Node("index", "", <<node, index.node>>), depth, FALSE)
      ELSE IF ~At(t, pos, {"."}) THEN Parsed(node, pos)
      ELSE IF ~AtName(t, pos + 1) THEN Refused(pos + 1, "syntax")
      ELSE IF At(t, pos + 2, {"("})
      THEN IF name \notin Methods THEN Refused(pos + 2, "syntax")
           ELSE IF ~argument.ok THEN argument
           ELSE IF name = "shift" /\ ~isCall THEN Refused(argument.pos, "syntax")
           ELSE IF isCall THEN Postfix(t, argument.pos + 1, chained(<<argument.node>>), depth, TRUE)
           ELSE Postfix(t, argument.pos + 1, Node("method", name, <<node, argument.node>>), depth, FALSE)
      ELSE IF isCall /\ name \in TimeUnits THEN Postfix(t, pos + 2, chained(<<>>), depth, TRUE)
      ELSE Postfix(t, pos + 2, Node("dot", name, <<node>>), depth, FALSE)

\* How deep nodes are nested in one another; what is in a chain belongs to its call.
RECURSIVE Height(_)
Height(node) ==
  LET chained == UNION {Range(node.chain[i].args) : i \in DOMAIN node.chain}
  IN  1 + Max({0} \cup {Height(child) : child \in Range(node.args) \cup chained})

\* Faulty variant: only what the parser itself recurses into is bounded.
IsTooHighNever(node) == FALSE
IsTooHigh(node) == Height(node) > MaxDepth

CompileExpression(t) ==
  LET whole == Expression(t, 1, 0, 0)
  IN  IF ~whole.ok THEN whole
      ELSE IF whole.pos <= Len(t) THEN Refused(whole.pos, "syntax")
      ELSE IF IsTooHigh(whole.node) THEN Refused(whole.pos, "depth")
      ELSE whole

-----------------------------------------------------------------------------
(* Evaluating.  s says whether all is well, what is left of the budget, the  *)
(* names looked up, and the values of what has been evaluated.               *)

Raised(s) == [s EXCEPT !.ok = FALSE]

\* Faulty variant: the budget is looked at before it is charged.
SpendFirst(s, amount) == IF s.left <= 0 THEN Raised(s) ELSE [s EXCEPT !.left = @ - amount]
Spend(s, amount) == IF s.left < amount THEN Raised(s) ELSE [s EXCEPT !.left = @ - amount]

\* A value in place of the last n.
Return(s, n, value) ==
  IF ~s.ok THEN s
  ELSE IF IsError(value) THEN Raised(s)
  ELSE [s EXCEPT !.values = Append(SubSeq(@, 1, Len(@) - n), value)]

Lasts(s, n) == SubSeq(s.values, Len(s.values) - n + 1, Len(s.values))

Transformed(method, v, k) ==
  IF ~IsNumber(v) THEN Error
  ELSE IF method \in TimeUnits THEN v
  ELSE IF ~IsNumber(k) THEN Error
  ELSE IF method = "scale" THEN Number(v.data * k.data)
  ELSE Number(v.data + k.data)

Dotted(v, name) ==
  IF v.type = "object" THEN IndexInto(v, String(name))
  ELSE IF name \in TimeUnits THEN Transformed(name, v, v)
  ELSE Error

Negated(op, v) ==
  IF op = "not" THEN Bool(~IsTruthy(v))
  ELSE IF ~IsNumber(v) THEN Error
  ELSE IF op = "-" THEN Number(-v.data)
  ELSE v

Operated(op, a, b) ==
  LET numbers == IsNumber(a) /\ IsNumber(b)
      strings == a.type = "string" /\ b.type = "string"
  IN  CASE op = "==" -> Bool(Equal(a, b))
        [] op = "<" /\ numbers -> Bool(a.data < b.data)
        [] op = "<" /\ strings -> Bool(Len(a.data) < Len(b.data))
        [] op = "+" /\ strings -> String(a.data \o b.data)
        [] op = "+" /\ numbers -> Number(a.data + b.data)
        [] op = "-" /\ numbers -> Number(a.data - b.data)
        [] op = "*" /\ numbers -> Number(a.data * b.data)
        [] OTHER -> Error

\* Comparing structures and joining strings is paid for by their size.
CostOf(op, a, b) ==
  LET container(v) == IF v.type \in {"array", "object"} THEN Size(v) ELSE 0
  IN  IF a.type = "string" /\ b.type = "string"
      THEN CASE op \in {"==", "<"} -> Min({Len(a.data), Len(b.data)})
             [] op = "+" -> Len(a.data) + Len(b.data)
             [] OTHER -> 0
      ELSE IF op = "==" THEN container(a) + container(b)
      ELSE 0

Smallest(args, less(_, _)) ==
  args[CHOOSE i \in DOMAIN args : \A j \in DOMAIN args :
         ~less(args[j], args[i]) /\ (j < i => less(args[i], args[j]))]

Called(function, args) ==
  LET all(type) == \A i \in DOMAIN args : args[i].type = type
      floor(a, b) == IF b > 0 THEN a \div b ELSE (-a) \div (-b)
  IN  CASE function = "terop" ->
             IF args[2].type # args[3].type THEN Error ELSE IF IsTruthy(args[1]) THEN args[2] ELSE args[3]
        [] function = "min" /\ (all("number") \/ all("string")) ->
             Smallest(args, LAMBDA a, b : Operated("<", a, b).data)
        [] function = "abs" /\ all("number") -> IF args[1].data < 0 THEN Number(-args[1].data) ELSE args[1]
        [] function = "floordiv" /\ all("number") ->
             IF args[2].data = 0 THEN Error ELSE Number(floor(args[1].data, args[2].data))
        [] OTHER -> Error

\* The transforms that are no shifts, in order, each with its argument if it has one.
ResultOf(value, chain, args) ==
  FoldLeft(LAMBDA r, m : IF m.args = <<>> THEN [r EXCEPT !.value = Dotted(@, m.name)]
                         ELSE [value |-> Transformed(m.name, r.value, Head(r.args)), args |-> Tail(r.args)],
           [value |-> value, args |-> args], chain).value

RECURSIVE Run(_, _, _)

\* Faulty variant: the last operand is evaluated first.
RunAllBackwards(nodes, scope, s) ==
  LET ran == FoldLeft(LAMBDA r, node : Run(node, scope, r), s, Reverse(nodes))
  IN  [ran EXCEPT !.values = SubSeq(@, 1, Len(s.values)) \o Reverse(SubSeq(@, Len(s.values) + 1, Len(@)))]

RunAll(nodes, scope, s) == FoldLeft(LAMBDA r, node : Run(node, scope, r), s, nodes)

\* The arguments of a call, then those of its chain, where shifts take effect at once.
RunCall(node, scope, s) ==
  LET n == Len(node.args)
      first == Len(s.values) + 1
      shifted(r) ==
        LET by == Last(r.values)
        IN  IF ~r.ok THEN r
            ELSE IF ~IsNumber(r.values[first]) \/ ~IsNumber(by) THEN Raised(r)
            ELSE [r EXCEPT !.values = [Front(@) EXCEPT ![first] = Number(@.data - by.data)]]
      chained == FoldLeft(LAMBDA r, m : IF m.name = "shift" THEN shifted(RunAll(m.args, scope, r))
                                        ELSE RunAll(m.args, scope, r),
                          RunAll(node.args, scope, s), node.chain)
      given == SubSeq(chained.values, first, Len(chained.values))
  IN  Return(chained, Len(given),
             ResultOf(Called(node.name, SubSeq(given, 1, n)),
                      SelectSeq(node.chain, LAMBDA m : m.name # "shift"),
                      SubSeq(given, n + 1, Len(given))))

\* Faulty variant: both sides are evaluated before one is looked at.
DecidesNever(op, v) == FALSE
Decides(op, v) == IsTruthy(v) = (op = "or")

RunLogic(node, scope, s) ==
  LET l == Run(node.args[1], scope, s)
      r == Run(node.args[2], scope, l)
  IN  IF ~l.ok THEN l
      ELSE IF Decides(node.name, Last(l.values)) THEN Return(l, 1, Bool(node.name = "or"))
      ELSE IF ~r.ok THEN r
      ELSE Return(r, 2, Bool(IsTruthy(Last(r.values))))

RunName(name, scope, s) ==
  IF name \in DOMAIN scope THEN Return([s EXCEPT !.reads = Append(@, name)], 0, scope[name])
  ELSE IF name \in DOMAIN Constants THEN Return(s, 0, Constants[name])
  ELSE Raised(s)

\* All operands first, then what the node makes of their values.
RunOperands(node, scope, s) ==
  LET n == Len(node.args)
      ran == RunAll(node.args, scope, s)
      of == Lasts(ran, n)
  IN  IF ~ran.ok THEN ran
      ELSE CASE node.kind = "array" -> Return(ran, n, [type |-> "array", data |-> of])
             [] node.kind = "unary" -> Return(ran, n, Negated(node.name, of[1]))
             [] node.kind = "binary" ->
                  Return(Spend(ran, CostOf(node.name, of[1], of[2])), n, Operated(node.name, of[1], of[2]))
             [] node.kind = "index" -> Return(ran, n, IndexInto(of[1], of[2]))
             [] node.kind = "dot" -> Return(ran, n, Dotted(of[1], node.name))
             [] node.kind = "method" -> Return(ran, n, Transformed(node.name, of[1], of[2]))

Run(node, scope, s) ==
  LET paid == Spend(s, 1)
  IN  IF ~s.ok THEN s
      ELSE IF ~paid.ok THEN paid
      ELSE CASE node.kind = "literal" -> Return(paid, 0, Literals[node.name])
             [] node.kind = "name" -> RunName(node.name, scope, paid)
             [] node.kind = "call" -> RunCall(node, scope, paid)
             [] node.kind = "binary" /\ node.name \in {"and", "or"} -> RunLogic(node, scope, paid)
             [] OTHER -> RunOperands(node, scope, paid)

Execute(node, scope, budget) ==
  Run(node, scope, [ok |-> TRUE, left |-> budget, reads |-> <<>>, values |-> <<>>])

-----------------------------------------------------------------------------
NotRun == [ok |-> FALSE]

Init ==
  /\ phrases \in Phrases
  /\ left = MaxPhrases /\ text = <<>>
  /\ compiled = CompileExpression(<<>>) /\ outcome = NotRun

\* The author goes on, unless what there is cannot be the beginning of anything.
Write ==
  /\ left > 0 /\ left' = left - 1
  /\ ~compiled.ok => compiled.pos > Len(text)
  /\ \E phrase \in phrases :
       /\ text' = text \o phrase
       /\ compiled' \in {CompileExpression(text \o phrase)}
  /\ outcome' = NotRun
  /\ UNCHANGED phrases

\* One evaluation is enough for each scope and budget: execute keeps nothing.
Evaluate ==
  /\ compiled.ok /\ outcome = NotRun
  /\ \E scope \in Scopes, budget \in Budgets :
     \E run \in {Execute(compiled.node, scope, budget)} :
       outcome' = [ok |-> run.ok, run |-> run, scope |-> scope, budget |-> budget]
  /\ UNCHANGED <<phrases, left, text, compiled>>

Next == Write \/ Evaluate

Spec == Init /\ [][Next]_exprVars
=============================================================================
