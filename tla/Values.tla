------------------------------- MODULE Values -------------------------------
(***************************************************************************)
(* What a script's author may expect of containers: that there are none.   *)
(* Variables, parameters, statics and the message hold values - trees that *)
(* never change - and a write inside one replaces the value of one holder. *)
(* Containers.tla keeps Python's mutable lists and dicts instead.          *)
(***************************************************************************)
EXTENDS MessageTree, FiniteSets

CONSTANTS
  MaxItems,   \* MAX_VALUE_ITEMS: the nodes of a value that may be copied
  MaxDepth,   \* MAX_DEPTH
  Keys,       \* the keys of objects; arrays have the others
  VarWrites,     \* the script's `x = e;`: pairs of a variable and an expression
  IndexWrites,   \* its `x.a[0] = e;`: a variable, accessors and an expression
  FieldWrites,   \* its assignments to a field or to the whole message
  Bindings       \* its live blocks, each with one static

VARIABLES
  passed,   \* what the host will pass for the parameters, until the run is made
  vars, externs, msg, live, static, published, phase, failed
valueVars == <<passed, vars, externs, msg, live, static, published, phase, failed>>

List == [type |-> "list"]

\* A container of the given values.
Assemble(node, children) ==
  [q \in {<<>>} \cup UNION {{<<k>> \o r : r \in DOMAIN children[k]} : k \in DOMAIN children} |->
     IF q = <<>> THEN node ELSE children[Head(q)][Tail(q)]]

\* The value with another one at a path: objects are made where nothing is.
Replace(tree, p, v) ==
  LET under == {p \o r : r \in DOMAIN v}
  IN  [q \in under \cup StrictPrefixes(p) \cup {q \in DOMAIN tree : ~IsPrefix(p, q)} |->
         IF q \in under THEN v[Suffix(p, q)]
         ELSE IF q \in DOMAIN tree THEN tree[q] ELSE Object]

\* What may be copied; nothing else is ever stored or published.
Bounded(v) == Cardinality(DOMAIN v) <= MaxItems /\ \A q \in DOMAIN v : Len(q) <= MaxDepth
Copies(values) == {v \in values : Bounded(v)}

Lookup(name, own) ==
  IF name \in DOMAIN own THEN {own[name]}
  ELSE IF name \in DOMAIN externs THEN {externs[name]}
  ELSE IF name \in DOMAIN vars THEN {vars[name]}
  ELSE IF name = "msg" THEN Copies({msg})
  ELSE {Subtree(m, <<name>>) : m \in {m \in Copies({msg}) : <<name>> \in DOMAIN m}}

\* The value of an expression, if it has one; `own` are a live block's names.
\* As in Containers, an expression is the sequence of its nodes.
Eval(e, own) ==
  LET eval[i \in 1..Len(e)] ==
        LET node == e[i]
            item(k) == eval[node.items[k]]
        IN  CASE node.op = "lit" -> {Number(node.value)}
              [] node.op = "name" -> Lookup(node.name, own)
              [] node.op = "part" -> {Subtree(v, <<node.key>>) : v \in {v \in eval[node.of] : <<node.key>> \in DOMAIN v}}
              [] node.op \in {"list", "object"} ->
                   IF \E k \in DOMAIN node.items : item(k) = {} THEN {}
                   ELSE {Assemble(IF node.op = "list" THEN List ELSE Object,
                                  [k \in DOMAIN node.items |-> CHOOSE v \in item(k) : TRUE])}
  IN  IF \E i \in DOMAIN e : eval[i] = {} THEN {} ELSE eval[Len(e)]

Keys_(accessors) == [i \in DOMAIN accessors |-> accessors[i].key]

\* A field may be missing in an object, unless it is reached by index on the way.
CanReach(tree, accessors) ==
  \A i \in DOMAIN accessors :
    LET above == SubSeq(Keys_(accessors), 1, i - 1)
        node == IF above \in DOMAIN tree THEN tree[above] ELSE Object
        present == Append(above, accessors[i].key) \in DOMAIN tree
    IN  \/ node = Object /\ accessors[i].by = "dot"
        \/ node = Object /\ accessors[i].by = "index" /\ accessors[i].key \in Keys
             /\ (present \/ i = Len(accessors))
        \/ node = List /\ accessors[i].by = "index" /\ present

\* In a message an array or a number on the way gives way to an object.
Objects(tree, p) ==
  LET gone == {r \in StrictPrefixes(p) \cap DOMAIN tree : tree[r] # Object}
  IN  Restrict(tree, {q \in DOMAIN tree : \A r \in gone : ~IsPrefix(r, q)})

Written(tree, p, v) == IF p = <<>> THEN Envelope(v) ELSE Replace(Objects(tree, p), p, v)

\* An operation happens just when what it needs has a value; otherwise it ends
\* the run, and nothing is promised about what a failed run holds.
Fails(operation) ==
  /\ phase' = "halted" /\ failed' = operation
  /\ vars' = <<>> /\ externs' = <<>> /\ msg' = EmptyObject /\ live' = <<>> /\ static' = <<>>
  /\ UNCHANGED published

Init ==
  /\ vars = <<>> /\ externs = <<>> /\ msg = EmptyObject /\ live = <<>> /\ static = <<>>
  /\ published = <<>> /\ phase = "new" /\ failed = <<>>

\* Until then the host may pass something else.
HostPrepares ==
  /\ phase = "new"
  /\ UNCHANGED <<vars, externs, msg, live, static, published, phase, failed>>

\* The host's parameters are what it passes, if it can be copied.
NewRun ==
  /\ phase = "new"
  /\ passed' = <<>>
  /\ IF \A n \in DOMAIN passed : Bounded(passed[n])
     THEN /\ phase' = "running" /\ externs' = passed
          /\ UNCHANGED <<vars, msg, live, static, published, failed>>
     ELSE Fails(<<"new run">>)

SetVar(w) ==
  LET values == Copies(Eval(w.expr, <<>>))
  IN  IF values = {} THEN Fails(<<"write", w>>)
      ELSE /\ \E v \in values : vars' = With(vars, w.name, v)
           /\ UNCHANGED <<externs, msg, live, static, published, phase, failed>>

SetVarIndex(w) ==
  LET values == Copies(Eval(w.expr, <<>>))
      reached == w.name \in DOMAIN vars /\ CanReach(vars[w.name], w.accessors)
  IN  IF values = {} \/ ~reached THEN Fails(<<"write", w>>)
      ELSE /\ \E v \in values :
                vars' = With(vars, w.name, Replace(vars[w.name], Keys_(w.accessors), v))
           /\ UNCHANGED <<externs, msg, live, static, published, phase, failed>>

SetField(w) ==
  LET values == Copies(Eval(w.expr, <<>>))
      taken == live # <<>> /\ Overlap(w.path, live[1].path)
  IN  IF values = {} THEN Fails(<<"write", w>>)
      ELSE /\ \E v \in values : msg' = Written(msg, w.path, v)
           /\ live' = IF taken THEN <<>> ELSE live
           /\ static' = IF taken THEN <<>> ELSE static
           /\ UNCHANGED <<vars, externs, published, phase, failed>>

Bind(b) ==
  LET values == Copies(Eval(b.init, <<>>))
  IN  IF values = {} THEN Fails(<<"bind", b>>)
      ELSE /\ \E v \in values : static' = [n \in {"s"} |-> v]
           /\ live' = <<b>>
           /\ UNCHANGED <<vars, externs, msg, published, phase, failed>>

\* The message with what the live block gives, if there is one.
Send ==
  LET updates == IF live = <<>> THEN {static}
                 ELSE {[n \in {"s"} |-> v] : v \in Copies(Eval(live[1].update, static))}
      results(own) == IF live = <<>> THEN {msg}
                      ELSE {Written(msg, live[1].path, v) : v \in Copies(Eval(live[1].result, own))}
      messages(own) == {m \in results(own) : Bounded(msg) /\ Bounded(m)}
  IN  IF \A own \in updates : messages(own) = {} THEN Fails(<<"send">>)
      ELSE /\ static' \in updates
           /\ published' \in messages(static')
           /\ UNCHANGED <<vars, externs, msg, live, phase, failed>>

Next ==
  \/ HostPrepares \/ NewRun
  \/ /\ phase = "running" /\ UNCHANGED passed
     /\ \/ Send
        \/ \E w \in VarWrites : SetVar(w)
        \/ \E w \in IndexWrites : SetVarIndex(w)
        \/ \E w \in FieldWrites : SetField(w)
        \/ \E b \in Bindings : Bind(b)

\* Once there is a run, the host, which does not appear here, can change nothing.
Spec == Init /\ [][Next]_valueVars
=============================================================================
