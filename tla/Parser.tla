------------------------------- MODULE Parser -------------------------------
(***************************************************************************)
(* The parser's part that is not about text: which names are in scope, and *)
(* so what a statement means.  All variables, timers and loop counters of  *)
(* a script share one flat table at run time; a name may be declared once  *)
(* in overlapping scopes, and `name = e` is a variable's reassignment, a   *)
(* write inside its container, or a message field, by what is in scope.    *)
(***************************************************************************)
EXTENDS Statements

\* The parser's state: known_vars, timer_names, extern_names.
Fresh_ == [known |-> {}, timers |-> {}, externs |-> {}, failed |-> FALSE]
Reject(p) == [p EXCEPT !.failed = TRUE]

\* Names that begin with `__` are reserved too, but for those of the compiler and
\* of macro calls: no source here has one of its own.
Reserved == {"t", "_t", "and", "or", "not"}

DeclareVar(name, p) ==
  IF name \in Reserved \cup p.known THEN Reject(p) ELSE [p EXCEPT !.known = @ \cup {name}]

LeaveFor(name, p) == [p EXCEPT !.known = @ \ {name}]

\* An expression that may give any of the values of a right-hand side.
AsExpression(v) == Expression("any", SetToSeq(v.reads), v.values)

\* `name.a.b = v;`: by name, into a variable, or into the message.  What is written
\* to a variable is an expression: it may be an array, but there is no live block in
\* it; `default` there is the name of nothing, and raises when it is evaluated.
ParseWrite(path, v, p) ==
  LET name == path[1]
  IN  IF name \in p.externs \cup p.timers THEN [stmt |-> <<>>, scope |-> Reject(p)]
      ELSE IF name \notin p.known
      THEN [stmt |-> AssignTo(IF name = "msg" THEN Tail(path) ELSE path, v), scope |-> p]
      ELSE IF v.timers # {} THEN [stmt |-> <<>>, scope |-> Reject(p)]
      ELSE [stmt |-> IF Len(path) = 1 THEN SetTo(name, AsExpression(v))
                                      ELSE SetIndex(name, Tail(path), AsExpression(v)),
            scope |-> p]

\* Only timers can be reset.
ParseReset(name, p) ==
  [stmt |-> Reset(name), scope |-> IF name \in p.timers THEN p ELSE Reject(p)]

RECURSIVE ParseStmt(_, _), ParseBlock(_, _, _)

\* The counter is declared for the body, and forgotten after it.
ParseFor(s, p) ==
  LET body == ParseBlock(s.body, <<>>, DeclareVar(s.name, p))
  IN  [stmt |-> [s EXCEPT !.body = body.stmts], scope |-> LeaveFor(s.name, body.scope)]

\* What a branch or the body of a repeat declares stays in scope after it.
ParseIf(s, p) ==
  LET thenPart == ParseBlock(s.then, <<>>, p)
      elsePart == ParseBlock(s.else, <<>>, thenPart.scope)
  IN  [stmt |-> If(s.expr, thenPart.stmts, elsePart.stmts), scope |-> elsePart.scope]

ParseRepeat(s, p) ==
  LET body == ParseBlock(s.body, <<>>, p)
  IN  [stmt |-> [s EXCEPT !.body = body.stmts], scope |-> body.scope]

ParseStmt(s, p) ==
  CASE s.op = "var" -> [stmt |-> SetTo(s.name, s.expr), scope |-> DeclareVar(s.name, p)]
    [] s.op = "timer" ->
         [stmt |-> Timer(s.name, s.kind),
          scope |-> [DeclareVar(s.name, p) EXCEPT !.timers = @ \cup {s.name}]]
    [] s.op = "extern" ->
         [stmt |-> s, scope |-> [DeclareVar(s.name, p) EXCEPT !.externs = @ \cup {s.name}]]
    [] s.op = "write" -> ParseWrite(s.path, s.value, p)
    [] s.op = "reset" -> ParseReset(s.name, p)
    [] s.op = "if" -> ParseIf(s, p)
    [] s.op \in {"repeat", "block"} -> ParseRepeat(s, p)
    [] s.op = "for" -> ParseFor(s, p)
    [] s.op \in {"send", "seed", "wait"} -> [stmt |-> s, scope |-> p]

ParseBlock(source, stmts, p) ==
  IF source = <<>> THEN [stmts |-> stmts, scope |-> p]
  ELSE LET first == ParseStmt(Head(source), p)
       IN  ParseBlock(Tail(source), Append(stmts, first.stmt), first.scope)

\* Parse(source).scope.failed: the source is rejected with a ScriptError.
Parse(source) == ParseBlock(source, <<>>, Fresh_)
=============================================================================
