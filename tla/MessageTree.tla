---------------------------- MODULE MessageTree ----------------------------
(***************************************************************************)
(* Message values.  A value - a number, a string, an array, or an object   *)
(* nested to any depth - is a tree: a function from the paths that exist   *)
(* in it, the root <<>> among them, to what is found there.  An object     *)
(* node says only that it is one; a leaf has a type and some data.         *)
(***************************************************************************)
EXTENDS Integers, SequencesExt

Object == [type |-> "object"]
Leaf(type, data) == [type |-> type, data |-> data]

EmptyObject == [q \in {<<>>} |-> Object]
Scalar(leaf) == [q \in {<<>>} |-> leaf]

\* A table with one more entry, or one entry replaced.
With(f, x, v) == [y \in DOMAIN f \cup {x} |-> IF y = x THEN v ELSE f[y]]

IsObject(tree) == tree[<<>>].type = "object"

StrictPrefixes(p) == Prefixes(p) \ {p}

\* A value: closed under prefixes, objects wherever something is below.
IsTree(tree) ==
  /\ tree = [q \in DOMAIN tree |-> tree[q]]
  /\ <<>> \in DOMAIN tree /\ DOMAIN tree \subseteq Seq(STRING)
  /\ \A q \in DOMAIN tree : \A r \in StrictPrefixes(q) : r \in DOMAIN tree /\ tree[r] = Object

\* Two fields overlap when one of them lies inside the other.
Overlap(p, q) == IsPrefix(p, q) \/ IsPrefix(q, p)

Suffix(p, q) == SubSeq(q, Len(p) + 1, Len(q))      \* q = p \o Suffix(p, q)

Subtree(tree, p) ==
  [r \in {Suffix(p, q) : q \in {q \in DOMAIN tree : IsPrefix(p, q)}} |-> tree[p \o r]]

\* The tree with each value of `values` stored at its path.  Storing replaces
\* whatever was there, and makes an object of everything above it.
Overlay(tree, values) ==
  LET stored == UNION {{p \o r : r \in DOMAIN values[p]} : p \in DOMAIN values}
      above == UNION {StrictPrefixes(p) : p \in DOMAIN values}
      kept == {q \in DOMAIN tree : \A p \in DOMAIN values : ~IsPrefix(p, q)}
      valueAt(q) == LET p == CHOOSE p \in DOMAIN values : IsPrefix(p, q)
                    IN  values[p][Suffix(p, q)]
  IN  [q \in stored \cup above \cup kept |->
         IF q \in stored THEN valueAt(q)
         ELSE IF q \in above THEN Object ELSE tree[q]]

\* The one field name the code brings along.  The provers do not see by
\* themselves that a literal is a string.
ASSUME DataIsAName == "data" \in STRING

\* Faulty variant: a scalar is published as it is.
EnvelopeOfNone(tree) == tree

\* A message is an object: anything else published whole becomes its `data`.
Envelope(tree) ==
  IF IsObject(tree) THEN tree ELSE Overlay(EmptyObject, [q \in {<<"data">>} |-> tree])

EnvelopeAt(p, tree) == IF p = <<>> THEN Envelope(tree) ELSE tree

Store(tree, p, value) ==
  IF p = <<>> THEN Envelope(value) ELSE Overlay(tree, [q \in {p} |-> value])

\* Same paths, same types: a value that a strict schema accepts for `template`.
Conforms(template, tree) ==
  /\ DOMAIN tree = DOMAIN template
  /\ \A q \in DOMAIN template : tree[q].type = template[q].type
-----------------------------------------------------------------------------
(* Scalars an expression may give. *)
Number(k) == Scalar(Leaf("int", <<"lit", k>>))
Seconds(k) == Scalar(Leaf("float", <<"lit", k>>))
Truth(b) == Scalar(Leaf("bool", <<"lit", IF b THEN 1 ELSE 0>>))

\* Right-hand sides.  `values` are the trees an expression may give, `reads`
\* the timers it reads; `timers` are those of the live blocks inside, which
\* the compiler creates just before the assignment.
ExprValue(values, reads) ==
  [op |-> "expr", values |-> values, reads |-> reads, timers |-> {}]
DefaultValue == [op |-> "default", values |-> {}, reads |-> {}, timers |-> {}]
\* An array literal is also a plain value when its elements are all values:
\* `default` and live blocks have no meaning inside a plain array.
ArrayValue(elements) ==
  LET at == DOMAIN elements
  IN  [op |-> "array", elements |-> elements,
       values |-> IF \A i \in at : elements[i].values # {}
                  THEN {Scalar(Leaf("array", <<"lit", Len(elements)>>))} ELSE {},
       reads |-> UNION {elements[i].reads : i \in at},
       timers |-> UNION {elements[i].timers : i \in at}]
\* A live block: the timer behind its `_t`, the types of what it returns, and
\* the timers its static initialisers and its body read, and the other `names`
\* its body reads.  Every block stands for one with a static counter that its
\* body increments.
LiveValue(timer, shape, initReads, bodyReads) ==
  [op |-> "live", timer |-> timer, shape |-> shape, bodyReads |-> bodyReads, names |-> {},
   values |-> {}, reads |-> initReads, timers |-> {timer}]
LiveReading(names, v) == [v EXCEPT !.names = names]
=============================================================================
