---------------------------- MODULE MCContainers ----------------------------
(* Scripts over one or two variables, a parameter, a few fields and a static. *)
EXTENDS ContainerHistory

\* The nodes of an expression that comes after n others.
After(n, e) ==
  [i \in DOMAIN e |->
     CASE e[i].op = "part" -> [e[i] EXCEPT !.of = @ + n]
       [] e[i].op \in {"list", "object"} -> [e[i] EXCEPT !.items = [k \in DOMAIN @ |-> @[k] + n]]
       [] OTHER -> e[i]]

Const(k) == <<[op |-> "lit", value |-> k]>>
Name(n) == <<[op |-> "name", name |-> n]>>
Part(e, key) == Append(e, [op |-> "part", of |-> Len(e), key |-> key])
Array(e, f) ==
  e \o After(Len(e), f) \o <<[op |-> "list", items |-> ("0" :> Len(e)) @@ ("1" :> (Len(e) + Len(f)))]>>
Json(key, e) == Append(e, [op |-> "object", items |-> key :> Len(e)])

MCKeys == {"k", "a", "b", "data"}
Dot(k) == [by |-> "dot", key |-> k]
At(k) == [by |-> "index", key |-> k]

Empty == <<>>
Of(name) == <<0, name>>

\* The host passes an object, one container twice, or one that holds itself.
MCHostStarts ==
  {[heap |-> Of("o") :> Cell("dict", "k" :> Lit(1)), held |-> Param("p") :> Ref(Of("o"))],
   [heap |-> (Of("o") :> Cell("dict", Empty)) @@ (Of("l") :> Cell("list", ("0" :> Ref(Of("o"))) @@ ("1" :> Ref(Of("o"))))),
    held |-> Param("p") :> Ref(Of("l"))],
   [heap |-> Of("o") :> Cell("dict", "k" :> Ref(Of("o"))), held |-> Param("p") :> Ref(Of("o"))]}

MCVarWrites ==
  {[name |-> "x", expr |-> Json("k", Const(0))], [name |-> "x", expr |-> Array(Name("msg"), Const(0))]}

MCIndexWrites ==
  {[name |-> "x", accessors |-> <<Dot("k")>>, expr |-> Name("x")],
   [name |-> "x", accessors |-> <<Dot("b"), At("k")>>, expr |-> Const(0)],
   [name |-> "x", accessors |-> <<At("0"), Dot("k"), Dot("b")>>, expr |-> Part(Name("x"), "0")]}

MCFieldWrites ==
  {[path |-> <<"a">>, expr |-> Part(Name("x"), "k")], [path |-> <<"a", "k">>, expr |-> Name("p")],
   [path |-> <<>>, expr |-> Array(Name("x"), Const(0))]}

MCBindings ==
  {[path |-> <<"a", "b">>, init |-> Const(0), update |-> Json("k", Name("s")), result |-> Name("s")],
   [path |-> <<>>, init |-> Name("p"), update |-> Name("s"), result |-> Array(Name("x"), Name("s"))]}

-----------------------------------------------------------------------------
\* States that differ in the addresses alone are one: no operation looks at more
\* of an address than whether it is another's.  Here containers are numbered in
\* the order in which they are met.  (TLC puts off working out a function;
\* comparing the heap with itself makes it do so.)
RECURSIVE Met(_, _)
Met(v, seen) ==
  IF ~v.ref \/ v.to \in Range(seen) THEN seen
  ELSE LET child(key, sofar) == Met(heap[v.to].items[key], sofar)
       IN  FoldSet(child, Append(seen, v.to), DOMAIN heap[v.to].items)

MCView ==
  LET order == FoldSet(LAMBDA h, sofar : Met(held[h], sofar), <<>>, DOMAIN held)
      numbered(values) ==
        [k \in DOMAIN values |->
           IF values[k].ref THEN Ref(CHOOSE i \in DOMAIN order : order[i] = values[k].to) ELSE values[k]]
  IN  <<heap = heap, [i \in DOMAIN order |-> [heap[order[i]] EXCEPT !.items = numbered(@)]], numbered(held),
        live, phase, failed, published, operations, hostWrites>>
=============================================================================
