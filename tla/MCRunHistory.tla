---------------------------- MODULE MCRunHistory ----------------------------
(* The scripts of MCScriptRun, and loops whose number of laps their source     *)
(* says, run with their history.                                              *)
EXTENDS RunHistory, MCScriptRun

Tick == SendFor(<<>>, <<>>, "tick", AnyOf({1}))

\* for i in a..b { send dur 1t; }
Range_(a, b) == For("i", AnyOf({a}), <<AnyOf({b})>>, <<Tick>>)

Larger(a, b) == IF a > b THEN a ELSE b

\* A source the parser and the compiler accept, with the sends it says.
Counted(source, unique, externals, sends) ==
  {[tape |-> tape, externs |-> externals, sends |-> sends] : tape \in CompileScript(source, unique)}

\* for i in 0..2 { send dur 1t; `inner` } `after`, where inner and after are any
\* two statements about a name - another loop, a variable, a write that may be
\* to a field - and how many sends the source says.  The parser refuses some.
\* What a body that writes its own counter should do is nowhere said.
Loop_(name) == [stmt |-> For(name, AnyOf({0}), <<AnyOf({2})>>, <<Tick>>), sends |-> 2]
Plain(stmt) == [stmt |-> stmt, sends |-> 0]
Names == {"i", "j"}
Parts_ == {Loop_(n) : n \in Names} \cup {Plain(Declare(n, AnyOf({5}))) : n \in Names}
Around(inner, after, unique, externals) ==
  Counted(<<For("i", AnyOf({0}), <<AnyOf({2})>>, <<Tick, inner.stmt>>), after.stmt>>,
          unique, externals, 2 + 2 * inner.sends + after.sends)
Writes(names) == {Plain(Write(<<n>>, Given({5}))) : n \in names}
FamilyPrograms ==
  UNION {Around(inner, after, 90, <<>>) :
           inner \in Parts_ \cup Writes({"j"}), after \in Parts_ \cup Writes(Names)}

\* for i in 0..2 { a = live i; send dur 1t; }
ReadingCounter ==
  For("i", AnyOf({0}), <<AnyOf({2})>>, <<Write(<<"a">>, LiveReading({"i"}, Counting({}))), Tick>>)

\* Ranges of any length; loops, alone and nested, whose bound is written inside
\* them, with a counter of the same name used again after its loop; a counted repeat of an
\* extern number of laps around nothing but a wait and a send; and a live block
\* that reads the counter of its loop, replaced after the loop or kept.
LoopPrograms ==
  UNION {Counted(<<Range_(a, b)>>, 10 * a + b, <<>>, Larger(0, b - a)) : a \in 0..2, b \in 0..3}
  \cup
  Counted(<< Declare("n", AnyOf({2})),
             Repeat(<<Name("n")>>,
                    << Write(<<"n">>, Given({3})), For("i", AnyOf({1}), <<Name("n")>>, <<Tick>>) >>),
             Range_(0, 1) >>, 50, <<>>, 5)
  \cup
  Counted(<< For("i", AnyOf({0}), <<AnyOf({2})>>, <<
               For("j", Name("i"), <<AnyOf({2})>>, << If(AnyReading("j"), <<WaitFor(AnyOf({1}))>>, <<>>), Tick >>) >>) >>,
          60, <<>>, 3)
  \cup
  Counted(<<Extern("n"), Repeat(<<Name("n")>>, <<WaitFor(AnyOf({1})), Tick>>)>>, 70, "n" :> {Number(2)}, 2)
  \cup
  Counted(<< Declare("n", AnyOf({2})), For("i", AnyOf({0}), <<Name("n")>>, <<Write(<<"n">>, Given({3})), Tick>>) >>,
          75, <<>>, 2)
  \cup
  Counted(<<ReadingCounter, Write(<<"a">>, Given({0})), Tick>>, 80, <<>>, 3)
  \cup
  Counted(<<ReadingCounter, Tick>>, 85, <<>>, 3)
  \cup FamilyPrograms

\* A name used for a counter and, where the two are not in scope together, for
\* a parameter of the host's or for a timer.
\*   for i in 0..2 { send dur 1t; } extern i = 7;
\*   repeat 2 { for i in 0..2 { send hz 0.5 dur 1t; } var i = timer(); }
HiddenPrograms ==
  Counted(<<Range_(0, 2), Extern("i")>>, 0, "i" :> {Number(7)}, 2)
  \cup
  Counted(<< Repeat(<<AnyOf({2})>>, <<
               For("i", AnyOf({0}), <<AnyOf({2})>>, <<SendFor(<<>>, <<AnyOf({2})>>, "tick", AnyOf({1}))>>),
               DeclareTimer("i", "eager") >>) >>, 0, <<>>, 4)

Sends == {k \in DOMAIN trace : trace[k].kind = "send"}

\* README "A `for` counter exists only for its loop", "Bounds are captured when
\* entering the loop", and test_vm.py test_bounded_for_loop_halts_with_exactly_
\* n_ticks: a script that runs to its end has gone round every loop exactly as
\* often as its source says, whatever happens meanwhile to what its bounds were
\* computed from, and whatever else the script calls by the counter's name where
\* the parser lets it (parser.py:372-389, compiler.py:276-298, vm.py:261-269).
LoopsRunAsOftenAsWritten ==
  "sends" \in DOMAIN program /\ ip > Len(program.tape) =>
    Cardinality(Sends) = program.sends

AllPrograms == MCPrograms \cup LoopPrograms

AllTimerName == TimersOf(AllPrograms)
AllPlacement == PlacementOf(AllPrograms)
HiddenTimerName == TimersOf(HiddenPrograms)
=============================================================================
