----------------------------- MODULE Containers -----------------------------
(***************************************************************************)
(* The containers behind the values of a run.  Python's lists and dicts    *)
(* are mutable and shared by reference; the machine walks into a variable  *)
(* and changes it in place.  What keeps the message, the variables, the    *)
(* statics, the parameters and the host's own containers apart is          *)
(* clone_value, wherever it is called.  Literals stand for every value     *)
(* that cannot be changed; the operation budget is left out.               *)
(*                                                                         *)
(* An expression is the sequence of its nodes in the order in which they   *)
(* are executed: a node refers to earlier ones by their number.            *)
(***************************************************************************)
EXTENDS MessageTree, FiniteSets

CONSTANTS
  MaxItems, MaxDepth, Keys, VarWrites, IndexWrites, FieldWrites, Bindings,   \* see Values
  HostStarts,     \* [heap, held]: what the host may pass to the run
  MaxOperations,  \* bound: how many operations the script does
  HostWrites      \* bound: how often the host changes one of its own

VARIABLES
  heap,        \* the containers in use: address -> [kind, items]
  next,        \* how often addresses have been given out
  held,        \* what each holder holds; the holders are named below
  live,        \* live_bindings, of which each takes over from the one before
  phase,       \* "new", "running" or "halted"
  failed,      \* the operation that ended the run
  operations,  \* how much the script has done
  hostWrites   \* how often the host has changed a container

allVars == <<heap, next, held, live, phase, failed, operations, hostWrites>>

\* The run's holders: ScriptRun.vars, .externs, .msg, and a binding's static.
Var(n) == <<"var", n>>
Extern(n) == <<"extern", n>>
Msg == <<"msg", "msg">>
Static == <<"static", "s">>
\* The host's: external_params, and the message of the last result.
Param(n) == <<"param", n>>
Received == <<"received", "msg">>

OfHost == {h \in DOMAIN held : h[1] \in {"param", "received"}}

ASSUME ContainersAssumption ==
  LET isExpression(e) ==
        /\ Len(e) \in Nat \ {0}
        /\ \A i \in 1..Len(e) : e[i].op \in {"lit", "name", "part", "list", "object"}
  IN  /\ MaxDepth \in Nat
      /\ \A w \in VarWrites \cup IndexWrites \cup FieldWrites : isExpression(w.expr)
      /\ \A w \in IndexWrites : w.accessors \in Seq([by : {"dot", "index"}, key : STRING]) \ {<<>>}
      /\ \A w \in FieldWrites \cup Bindings : w.path \in Seq(STRING)
      /\ \A b \in Bindings : isExpression(b.init) /\ isExpression(b.update) /\ isExpression(b.result)
      /\ \A b, c \in Bindings : Overlap(b.path, c.path)

\* The host's own containers have addresses that the machine never gives out.
ASSUME HostAssumption ==
  \A start \in HostStarts :
    /\ \A h \in DOMAIN start.held : h[1] = "param" /\ (start.held[h].ref => start.held[h].to \in DOMAIN start.heap)
    /\ \A a \in DOMAIN start.heap :
         LET items == start.heap[a].items
         IN  a[1] = 0 /\ \A k \in DOMAIN items : items[k].ref => items[k].to \in DOMAIN start.heap

\* A value is something that cannot change, or the address of a container.
Lit(k) == [ref |-> FALSE, to |-> k]
Ref(a) == [ref |-> TRUE, to |-> a]
Nothing == Lit(0)

Cell(kind, items) == [kind |-> kind, items |-> items]

\* A table with the entries of another that it does not have.
Joined(f, g) == [x \in DOMAIN f \cup DOMAIN g |-> IF x \in DOMAIN f THEN f[x] ELSE g[x]]

-----------------------------------------------------------------------------
(* Evaluation threads a record: whether it still goes well, the containers  *)
(* that there are now, what the last part of it gave and the parts before.  *)

Begin == [ok |-> TRUE, heap |-> heap, next |-> next, value |-> Nothing, snapshot |-> Nothing, values |-> <<>>]
Failed(s) == [s EXCEPT !.ok = FALSE]
Giving(s, v) == [s EXCEPT !.value = v]

\* Addresses that are given out together have a number in common, and a name.
New(s, kind, items) ==
  [s EXCEPT !.heap = With(@, <<s.next, <<>>>>, Cell(kind, items)), !.next = @ + 1, !.value = Ref(<<s.next, <<>>>>)]

Is(kind, s, v) == v.ref /\ v.to \in DOMAIN s.heap /\ s.heap[v.to].kind = kind
Items(s, v) == s.heap[v.to].items
Put(s, container, key, v) ==
  LET cells == [s.heap EXCEPT ![container.to] = Cell(@.kind, With(@.items, key, v))]
  IN  [s EXCEPT !.heap = cells]

\* What clone_value visits from a value v: node -> value, shared containers as
\* often as they are met.  A node is named by its parent and the key in that.
Children(cells, nodes) ==
  LET keys(p) == IF nodes[p].ref THEN DOMAIN cells[nodes[p].to].items ELSE {}
  IN  [q \in UNION {{<<p, k>> : k \in keys(p)} : p \in DOMAIN nodes} |-> cells[nodes[q[1]].to].items[q[2]]]

Deeper(cells, above) == [all |-> Joined(above.all, above.last), last |-> Children(cells, above.last)]

Visited(cells, name, v) ==
  LET visit[depth \in 0..(MaxDepth + 1)] ==
        IF depth = 0 THEN [all |-> <<>>, last |-> [p \in {<<name>>} |-> v]] ELSE Deeper(cells, visit[depth - 1])
  IN  visit[MaxDepth + 1]

\* clone_value: too deep also if it is cyclic.
CopyAs(name, s) ==
  LET visited == Visited(s.heap, name, s.value)
      place(p) == <<s.next, p>>
      copied(a) ==
        LET cell == s.heap[visited.all[a[2]].to]
        IN  Cell(cell.kind, [k \in DOMAIN cell.items |->
                               IF cell.items[k].ref THEN Ref(place(<<a[2], k>>)) ELSE cell.items[k]])
      copies == {place(p) : p \in {p \in DOMAIN visited.all : visited.all[p].ref}}
  IN  IF ~s.ok THEN s
      ELSE IF visited.last # <<>> \/ Cardinality(DOMAIN visited.all) > MaxItems THEN Failed(s)
      ELSE [s EXCEPT !.heap = Joined(@, [a \in copies |-> copied(a)]), !.next = @ + 1,
                     !.value = IF @.ref THEN Ref(place(<<name>>)) ELSE @]

Clone(s) == CopyAs("", s)

-----------------------------------------------------------------------------
(* Expressions.  A name gives the container itself where the code does.     *)

Remembered(s) == [s EXCEPT !.snapshot = s.value]

Snapshot(s) ==
  IF s.snapshot # Nothing THEN Giving(s, s.snapshot) ELSE Remembered(Clone(Giving(s, held[Msg])))

IndexInto(s, key) ==
  IF s.ok /\ s.value.ref /\ key \in DOMAIN Items(s, s.value)
  THEN Giving(s, Items(s, s.value)[key]) ELSE Failed(s)

\* `own`: the statics and variables of a live block.
Named(name, own, s) ==
  IF name \in DOMAIN own THEN Giving(s, own[name])
  ELSE IF Extern(name) \in DOMAIN held THEN Clone(Giving(s, held[Extern(name)]))
  ELSE IF Var(name) \in DOMAIN held THEN Giving(s, held[Var(name)])
  ELSE IF name = "msg" THEN Snapshot(s)
  ELSE IF name \in DOMAIN Items(s, held[Msg]) THEN IndexInto(Snapshot(s), name)
  ELSE Failed(s)

Execute(node, own, s) ==
  LET items == [k \in DOMAIN node.items |-> s.values[node.items[k]]]
  IN  IF ~s.ok THEN s
      ELSE CASE node.op = "lit" -> Giving(s, Lit(node.value))
             [] node.op = "name" -> Named(node.name, own, s)
             [] node.op = "part" -> IndexInto(Giving(s, s.values[node.of]), node.key)
             [] node.op = "list" -> New(s, "list", items)
             [] node.op = "object" -> New(s, "dict", items)

\* Every evaluation has a scope, and so a snapshot, of its own.
Scoped(s) == [s EXCEPT !.snapshot = Nothing, !.values = <<>>]
Recorded(s) == [s EXCEPT !.values = Append(@, s.value)]

Evaluate(e, own, s) ==
  LET run[i \in 0..Len(e)] == IF i = 0 THEN Scoped(s) ELSE Recorded(Execute(e[i], own, run[i - 1]))
  IN  run[Len(e)]

-----------------------------------------------------------------------------
(* What an operation leaves behind: Python frees what cannot be reached.     *)

Targets(values) == {values[k].to : k \in {k \in DOMAIN values : values[k].ref}}

\* More rounds than there are containers would not find more.
Rounds(cells) == IF IsFiniteSet(DOMAIN cells) THEN Cardinality(DOMAIN cells) ELSE 0

\* With what these hold.
Further(cells, before) ==
  before \cup ((UNION {Targets(cells[a].items) : a \in before}) \cap DOMAIN cells)

InUse(cells, holders) ==
  LET met[n \in 0..Rounds(cells)] ==
        IF n = 0 THEN Targets(holders) \cap DOMAIN cells ELSE Further(cells, met[n - 1])
  IN  met[Rounds(cells)]

Keep(s, holders) ==
  /\ heap' = Restrict(s.heap, InUse(s.heap, holders))
  /\ next' = s.next /\ held' = holders

Raises(s, holders, operation) ==
  /\ phase' = "halted" /\ failed' = operation
  /\ Keep(s, holders)

\* What an operation gives goes to a holder.  The others and the bindings are as
\* the operation leaves them, also if it fails.
Gives(s, holder, others, bindings, operation) ==
  /\ live' = bindings
  /\ IF s.ok THEN Keep(s, With(others, holder, s.value)) /\ UNCHANGED <<phase, failed>>
     ELSE Raises(s, others, operation)

\* What is held is changed in place.
Changes(s, operation) ==
  /\ UNCHANGED live
  /\ IF s.ok THEN Keep(s, held) /\ UNCHANGED <<phase, failed>> ELSE Raises(s, held, operation)

-----------------------------------------------------------------------------
Init ==
  /\ \E start \in HostStarts :
       /\ heap = With(start.heap, <<1, <<>>>>, Cell("dict", <<>>))
       /\ held = With(start.held, Msg, Ref(<<1, <<>>>>))
  /\ next = 2 /\ live = <<>> /\ phase = "new" /\ failed = <<>>
  /\ operations = 0 /\ hostWrites = 0

\* Faulty variant: what the host passes is used as it is.
ParameterItself(name, s) == s

Parameter(name, s) == CopyAs(name, s)

\* One parameter after the other, all from what the host holds.
NewRun ==
  /\ phase = "new"
  /\ LET names == {h[2] : h \in OfHost}
         copies == [n \in names |-> Parameter(n, Giving(Begin, held[Param(n)]))]
         of(a) == CHOOSE n \in names : a \in DOMAIN copies[n].heap
         all == [Begin EXCEPT !.next = @ + 1,
                   !.heap = [a \in DOMAIN @ \cup UNION {DOMAIN copies[n].heap : n \in names} |->
                              IF a \in DOMAIN @ THEN @[a] ELSE copies[of(a)].heap[a]]]
         given == [h \in {Extern(n) : n \in names} |-> copies[h[2]].value]
     IN  IF \A n \in names : copies[n].ok
         THEN phase' = "running" /\ Keep(all, Joined(held, given)) /\ UNCHANGED failed
         ELSE Raises(Begin, held, <<"new run">>)
  /\ UNCHANGED live

SetVar(w) == Gives(Clone(Evaluate(w.expr, <<>>, Begin)), Var(w.name), held, live, <<"write", w>>)

Element(s) == Clone(s)

\* Whether a container has a place for what an accessor names.
Fits(s, container, accessor) ==
  \/ Is("dict", s, container) /\ (accessor.by = "dot" \/ accessor.key \in Keys)
  \/ Is("list", s, container) /\ accessor.by = "index" /\ accessor.key \in DOMAIN Items(s, container)

\* The object in s.value gets an empty object of its own, which is where it goes on.
Vivify(s, key) ==
  LET made == New(s, "dict", <<>>) IN Put(made, s.value, key, made.value)

\* From the container in s.value into one of its own.
Descend(s, accessor) ==
  IF ~s.ok \/ ~Fits(s, s.value, accessor) THEN Failed(s)
  ELSE IF accessor.key \in DOMAIN Items(s, s.value) THEN Giving(s, Items(s, s.value)[accessor.key])
  ELSE IF accessor.by = "dot" THEN Vivify(s, accessor.key)
  ELSE Failed(s)

\* s.value written where the accessors lead from a container.
Walk(container, accessors, s) ==
  LET n == Len(accessors)
      way[i \in 0..(n - 1)] == IF i = 0 THEN Giving(s, container) ELSE Descend(way[i - 1], accessors[i])
      at == way[n - 1]
  IN  IF ~at.ok \/ ~Fits(at, at.value, accessors[n]) THEN Failed(at)
      ELSE Put(at, at.value, accessors[n].key, s.value)

WriteInside(name, accessors, s) ==
  IF Var(name) \in DOMAIN held THEN Walk(held[Var(name)], accessors, s) ELSE Failed(s)

SetVarIndex(w) ==
  Changes(WriteInside(w.name, w.accessors, Element(Evaluate(w.expr, <<>>, Begin))), <<"write", w>>)

\* _set_path and the writing of live values: whatever is no object gives way.
Enter(s, key) ==
  IF key \in DOMAIN Items(s, s.value) /\ Is("dict", s, Items(s, s.value)[key])
  THEN Giving(s, Items(s, s.value)[key]) ELSE Vivify(s, key)

PutAt(message, path, s) ==
  LET n == Len(path)
      way[i \in 0..(n - 1)] == IF i = 0 THEN Giving(s, message) ELSE Enter(way[i - 1], path[i])
  IN  Put(way[n - 1], way[n - 1].value, path[n], s.value)

Enveloped(s) ==
  IF Is("dict", s, s.value) THEN s ELSE New(s, "dict", [k \in {"data"} |-> s.value])

\* A message with s.value written at a path; gives the message.
PutInto(message, path, s) ==
  IF ~s.ok THEN s
  ELSE IF path = <<>> THEN Enveloped(s) ELSE Giving(PutAt(message, path, s), message)

WithoutStatic == Restrict(held, DOMAIN held \ {Static})

\* The binding that a write overlaps is gone first of all.
SetField(w) ==
  LET taken == live # <<>> /\ Overlap(w.path, live[1].path)
      left == IF taken THEN WithoutStatic ELSE held
  IN  Gives(PutInto(held[Msg], w.path, Clone(Evaluate(w.expr, <<>>, Begin))),
            Msg, left, IF taken THEN <<>> ELSE live, <<"write", w>>)

Bind(b) == Gives(Clone(Evaluate(b.init, <<>>, Begin)), Static, WithoutStatic, <<b>>, <<"bind", b>>)

-----------------------------------------------------------------------------
\* Faulty variant: live values are written into the message itself.
BaseItself(s) == s

Base(s) == Clone(s)

\* _eval_live_block for a block `s = update; return result;`.
Updated(base) == Clone(Evaluate(live[1].update, [n \in {"s"} |-> held[Static]], base))
Result(updated) == Clone(Evaluate(live[1].result, [n \in {"s"} |-> updated.value], updated))

WithLive(base, updated) ==
  [message |-> Clone(PutInto(base.value, live[1].path, Result(updated))),
   held |-> IF updated.ok THEN With(held, Static, updated.value) ELSE held]

\* _current_msg
Assembled(base) ==
  IF live = <<>> THEN [message |-> Clone(base), held |-> held] ELSE WithLive(base, Updated(base))

HandOver(assembled) == Gives(assembled.message, Received, assembled.held, live, <<"send">>)

Send == HandOver(Assembled(Base(Giving(Begin, held[Msg]))))

\* The host changes what it has passed or received, and may tie knots.
HostChanges ==
  /\ phase # "halted" /\ hostWrites < HostWrites
  /\ hostWrites' = hostWrites + 1
  /\ \E a \in InUse(heap, Restrict(held, OfHost)) :
       \E key \in IF heap[a].kind = "dict" THEN DOMAIN heap[a].items \cup Keys ELSE DOMAIN heap[a].items,
          v \in {Lit(9)} \cup {held[h] : h \in OfHost} : Keep(Put(Begin, Ref(a), key, v), held)
  /\ UNCHANGED <<live, phase, failed, operations>>

Instruction ==
  \/ Send
  \/ \E w \in VarWrites : SetVar(w)
  \/ \E w \in IndexWrites : SetVarIndex(w)
  \/ \E w \in FieldWrites : SetField(w)
  \/ \E b \in Bindings : Bind(b)

Next ==
  \/ NewRun /\ UNCHANGED <<operations, hostWrites>>
  \/ /\ phase = "running" /\ operations < MaxOperations
     /\ Instruction
     /\ operations' = operations + 1 /\ UNCHANGED hostWrites
  \/ HostChanges

Spec == Init /\ [][Next]_allVars

-----------------------------------------------------------------------------
\* Whatever holds a container: a holder or a container, at one of its keys.
Holders(a) ==
  LET at(values) == {k \in DOMAIN values : values[k].ref /\ values[k].to = a}
  IN  {<<h>> : h \in at(held)} \cup UNION {{<<b, k>> : k \in at(heap[b].items)} : b \in DOMAIN heap}

\* Every container of the run has one holder, through every chain of copies,
\* reads and writes in place; none can be reached from anything the host has
\* passed or received, however the host ties its own together.  README
\* "Container assignment has value semantics ... Later mutation does not modify
\* another assignment or a previously returned message" (resources.py:61-97).
NothingIsShared ==
  \A a \in InUse(heap, Restrict(held, DOMAIN held \ OfHost)) : Cardinality(Holders(a)) = 1
=============================================================================
