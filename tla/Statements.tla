----------------------------- MODULE Statements -----------------------------
(***************************************************************************)
(* The statements of a program: as its author writes them, and as the      *)
(* parser hands them to the compiler.  Most are the same in both; an       *)
(* author declares names and writes to paths, the parser tells variables,  *)
(* timers, parameters and fields apart.  An optional part is a sequence of *)
(* at most one element.                                                    *)
(***************************************************************************)
EXTENDS MessageTree

\* An expression, see ScriptRun: the names it reads and what it may give.
Expression(op, names, values) == [op |-> op, names |-> names, values |-> values]
Constant(tree) == Expression("any", <<>>, {tree})

\* What authors write.
Declare(name, e) == [op |-> "var", name |-> name, expr |-> e]
DeclareTimer(name, kind) == [op |-> "timer", name |-> name, kind |-> kind]
Write(path, v) == [op |-> "write", path |-> path, value |-> v]

\* ast_nodes.VarDecl and Reassign.  VarIndexAssign writes inside a container.
SetTo(name, e) == [op |-> "set", name |-> name, expr |-> e]
SetIndex(name, path, e) == [op |-> "index", name |-> name, path |-> path, expr |-> e]

\* ExternDecl: the host has resolved it before the first step.
Extern(name) == [op |-> "extern", name |-> name]

Timer(name, kind) == [op |-> "create", name |-> name, kind |-> kind]
Reset(name) == [op |-> "reset", name |-> name]
Seed(e) == [op |-> "seed", expr |-> e]

\* Statements that are the same in both.  A gap in the schedule, and a send; `kind` is "wall", "tick" or "inf".
WaitFor(e) == [op |-> "wait", duration |-> e]
SendFor(value, period, kind, duration) ==
  [op |-> "send", value |-> value, period |-> period, kind |-> kind, duration |-> duration]

\* A message field, or the whole message at <<>>.
AssignTo(path, v) == [op |-> "assign", path |-> path, value |-> v]

If(e, then, else) == [op |-> "if", expr |-> e, then |-> then, else |-> else]
Repeat(count, body) == [op |-> "repeat", count |-> count, body |-> body]
For(name, start, end, body) ==
  [op |-> "for", name |-> name, start |-> start, end |-> end, body |-> body]

\* What a macro call expands to.
Block(body) == [op |-> "block", body |-> body]
=============================================================================
