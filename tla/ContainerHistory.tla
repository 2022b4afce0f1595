-------------------------- MODULE ContainerHistory --------------------------
(***************************************************************************)
(* Containers with a note of the value that each message had when it was   *)
(* handed over, and what the containers of a run look like as values.      *)
(***************************************************************************)
EXTENDS Containers

VARIABLE published   \* the last message that was handed over

historyVars == <<allVars, published>>

\* The value a container stands for, down to a depth: one that holds itself has none.
RECURSIVE TreeTo(_, _, _)
TreeTo(depth, cells, v) ==
  IF ~v.ref THEN Number(v.to)
  ELSE LET cell == cells[v.to]
           parts == [k \in IF depth = 0 THEN {} ELSE DOMAIN cell.items |-> TreeTo(depth - 1, cells, cell.items[k])]
       IN  [q \in {<<>>} \cup UNION {{<<k>> \o r : r \in DOMAIN parts[k]} : k \in DOMAIN parts} |->
              IF q = <<>> THEN [type |-> IF cell.kind = "dict" THEN "object" ELSE "list"]
              ELSE parts[Head(q)][Tail(q)]]

HInit == Init /\ published = <<>>

\* A run's containers never hold themselves.
TreeOf(cells, v) == TreeTo(Cardinality(DOMAIN cells), cells, v)

\* Only Send gives the host another message.
IsHandedOver ==
  Received \in DOMAIN held' /\ ~(Received \in DOMAIN held /\ held[Received] = held'[Received])

HNext ==
  /\ Next
  /\ published' = IF IsHandedOver THEN TreeOf(heap', held'[Received]) ELSE published

HSpec == HInit /\ [][HNext]_historyVars

-----------------------------------------------------------------------------
\* The names of one kind that hold something, and the values they hold.
Values_(kind) ==
  LET names == IF phase = "halted" THEN {} ELSE {h[2] : h \in {h \in DOMAIN held : h[1] = kind}}
  IN  [n \in names |-> TreeOf(heap, held[<<kind, n>>])]

\* What is passed that has no end is cut where it is too deep to be copied.
Passed ==
  LET names == IF phase = "new" THEN {h[2] : h \in OfHost} ELSE {}
  IN  [n \in names |-> TreeTo(MaxDepth + 1, heap, held[Param(n)])]

AsValues == INSTANCE Values WITH
  passed <- Passed,
  vars <- Values_("var"), externs <- Values_("extern"), static <- Values_("static"),
  msg <- IF phase = "halted" THEN EmptyObject ELSE TreeOf(heap, held[Msg]),
  live <- IF phase = "halted" THEN <<>> ELSE live

\* Containers that are changed in place and copied behave as values that never
\* change, an operation fails only if it must, and what the host does with its
\* own is no step of the run (vm.py:276-281, vm.py:381-446, vm.py:520-601).
ContainersAreValues == AsValues!Spec
=============================================================================
