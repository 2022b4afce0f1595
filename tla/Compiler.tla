------------------------------ MODULE Compiler ------------------------------
(***************************************************************************)
(* The compiler: from the statements of a program to the tape of           *)
(* instructions ScriptRun executes.  Blocks become jumps, a live block a   *)
(* private latching timer and a binding, a `for` loop a counter, a bound   *)
(* and a guarded back edge.  Compiling fails (`failed`) where the code     *)
(* raises a ScriptError.                                                   *)
(***************************************************************************)
EXTENDS Parser

CONSTANT MaxHzPeriod      \* 1 / max_hz, the period of a send that names no rate

Zero == Constant(Number(0))

\* The compiler's state: the tape so far and the counter of fresh names.
Emit(c, instr) == [c EXCEPT !.tape = Append(@, instr)]
Here(c) == Len(c.tape) + 1                  \* index of the next instruction
Patch(c, at, instr) == [c EXCEPT !.tape[at] = instr]
Fail(c) == [c EXCEPT !.failed = TRUE]

FreshName(c, prefix) == "__" \o prefix \o "_" \o ToString(c.unique + 1)
Bump(c) == [c EXCEPT !.unique = @ + 1]

Branch(e, target) == [op |-> "branch", expr |-> e, target |-> target]
Jump(target) == [op |-> "jump", target |-> target]
Loop(name, e, nonnegative) ==
  [op |-> "loop", name |-> name, expr |-> e, nonnegative |-> nonnegative]

Clear(name) == [op |-> "clear", name |-> name]
Create(name, kind) == [op |-> "create", name |-> name, kind |-> kind]
Field(path, v) == [op |-> "field", path |-> path, value |-> v]
SendTicks(period, kind, duration) ==
  [op |-> "send", period |-> period, kind |-> kind, duration |-> duration]

\* `send dur inf;` anywhere but at the end of an endless loop's body.
StuckMidBody(body) ==
  \E i \in DOMAIN body : i < Len(body) /\ body[i].op = "send" /\ body[i].kind = "inf"

RECURSIVE CompileBlock(_, _), CompileStmt(_, _), CompileValue(_, _), CompileElements(_, _, _)

\* [value, unit]: the compiled right-hand side and the timers it needed.
CompileValue(v, c) ==
  CASE v.op = "array" -> CompileElements(v.elements, <<>>, c)
    [] v.op = "live" ->
         LET timer == FreshName(c, "live")
             own(reads) == {IF n = "_t" THEN timer ELSE n : n \in reads}
             value == [v EXCEPT !.timer = timer, !.timers = {timer},
                                !.reads = own(@), !.bodyReads = own(@)]
         IN  [value |-> value,
              unit |-> Emit(Bump(c), Create(timer, "latching"))]
    [] OTHER -> [value |-> v, unit |-> c]

CompileElements(elements, done, c) ==
  IF elements = <<>>
  THEN [value |-> ArrayValue(done), unit |-> c]
  ELSE LET first == CompileValue(Head(elements), c)
       IN  CompileElements(Tail(elements), Append(done, first.value), first.unit)

CompileAssign(path, v, c) ==
  LET compiled == CompileValue(v, c)
  IN  Emit(compiled.unit, Field(path, compiled.value))

CompileIf(s, c) ==
  LET thenPart == CompileBlock(s.then, Emit(c, Branch(s.expr, -1)))
      elseStart == Here(thenPart) + 1
      elsePart == CompileBlock(s.else, Emit(Patch(thenPart, Here(c), Branch(s.expr, elseStart)), Jump(-1)))
  IN  IF s.else = <<>>
      THEN Patch(thenPart, Here(c), Branch(s.expr, Here(thenPart)))
      ELSE Patch(elsePart, elseStart - 1, Jump(Here(elsePart)))

Guard(name, bound, target) ==
  Branch(Expression("less", <<name, bound>>, {}), target)

\* Where a bounded loop goes for its next lap.  Faulty variant: to the bound,
\* which is computed anew.
ToTheBound(guarded) == Here(guarded) - 2
ToTheGuard(guarded) == Here(guarded) - 1

\* A loop from `start` to before `end`; `end` is <<>> for an endless one.
CompileFor(name, start, end, body, counted, c) ==
  LET entered == Emit(c, Loop(name, start, FALSE))
      bound == FreshName(c, "bound")
      guarded == Emit(Emit(Bump(entered), Loop(bound, end[1], counted)), Branch(Zero, -1))
      lap(u, top) == Emit(Emit(CompileBlock(body, u),
                               SetTo(name, Expression("next", <<name>>, {}))),
                          Jump(top))
      endless == lap(entered, Here(entered))
      bounded == lap(guarded, ToTheGuard(guarded))
      test == Guard(name, bound, Here(bounded))
  IN  IF end = <<>>
      THEN IF StuckMidBody(body) THEN Fail(endless) ELSE endless
      ELSE Emit(Emit(Patch(bounded, Here(guarded) - 1, test), Clear(name)), Clear(bound))

CompileRepeat(s, c) ==
  IF s.count = <<>>
  THEN LET lap == Emit(CompileBlock(s.body, c), Jump(Here(c)))
       IN  IF StuckMidBody(s.body) THEN Fail(lap) ELSE lap
  ELSE CompileFor(FreshName(c, "count"), Zero, s.count, s.body, TRUE, Bump(c))

\* A send publishes `value` first if it has one, and goes at the highest rate
\* if it names none.  A literal rate or duration is an expression here, and
\* refused when the send is entered, not when it is compiled.
CompileSend(s, c) ==
  LET assigned == IF s.value = <<>> THEN c ELSE CompileAssign(<<>>, s.value[1], c)
      period == IF s.period = <<>> THEN Constant(Seconds(MaxHzPeriod))
                ELSE s.period[1]
  IN  Emit(assigned, SendTicks(period, s.kind, s.duration))

CompileStmt(s, c) ==
  CASE s.op = "assign" -> CompileAssign(s.path, s.value, c)
    [] s.op = "if" -> CompileIf(s, c)
    [] s.op = "repeat" -> CompileRepeat(s, c)
    [] s.op = "for" -> CompileFor(s.name, s.start, s.end, s.body, FALSE, c)
    [] s.op = "send" -> CompileSend(s, c)
    [] s.op = "block" -> CompileBlock(s.body, c)
    [] s.op = "extern" -> c
    [] s.op \in {"set", "index", "create", "reset", "seed", "wait"} -> Emit(c, s)

CompileBlock(stmts, c) ==
  IF stmts = <<>> THEN c ELSE CompileBlock(Tail(stmts), CompileStmt(Head(stmts), c))

Compile(body, unique) ==
  CompileBlock(body, [tape |-> <<>>, unique |-> unique, failed |-> FALSE])

\* compile_script: the tape of a source that parses and compiles.
CompileScript(source, unique) ==
  LET parsed == Parse(source)
      compiled == Compile(parsed.stmts, unique)
  IN  IF parsed.scope.failed \/ compiled.failed THEN {} ELSE {compiled.tape}
=============================================================================
