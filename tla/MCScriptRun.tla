---------------------------- MODULE MCScriptRun ----------------------------
(* Small scripts, parsed, compiled by Compiler and run by ScriptRun.          *)
EXTENDS ScriptRun, Compiler

ExactAdd(t, d) == t + d
NoSchema == <<>>
NoFields == <<>>

\* What the expressions of a source may read and give.
Name(n) == Expression("name", <<n>>, {})
AnyOf(ks) == Expression("any", <<>>, {Number(k) : k \in ks})
AnyReading(n) == Expression("any", <<n>>, {Truth(TRUE), Truth(FALSE)})

Once == SendFor(<<>>, <<>>, "tick", AnyOf({1}))
Counting(bodyReads) == LiveValue("", Number(0), {}, bodyReads)
CountingObject == LiveValue("", EmptyObject @@ (<<"b">> :> Leaf("int", <<"lit", 0>>)), {"_t"}, {"_t"})
Given(ks) == ExprValue({Number(k) : k \in ks}, {})
Static(k) == Given({k})

\* extern rate; repeat 2 { a = live ...; wait (rate); send hz (rate) dur 2t; }
Paced == <<
  Extern("rate"),
  Repeat(<<AnyOf({2})>>, <<
    Write(<<"a">>, Counting({"_t"})), Block(<<WaitFor(Name("rate"))>>),
    SendFor(<<>>, <<Name("rate")>>, "tick", AnyOf({2})) >>) >>

\* A binding made again on every lap, taken over from below or above, or not.
Rebinding == <<
  For("k", AnyOf({0}), <<>>, <<
    Write(<<"a">>, CountingObject),
    Once,
    If(AnyReading("t"), <<Write(<<"a", "b">>, Static(5))>>,
       <<Write(<<"msg">>, ExprValue({EmptyObject}, {}))>>),
    SendFor(<<>>, <<AnyOf({1, 2})>>, "wall", AnyOf({3})) >>) >>

\* Timers read, reset and created again around sends; a computed wall duration.
Clocks == <<
  DeclareTimer("late", "latching"), DeclareTimer("early", "eager"),
  WaitFor(AnyOf({1})),
  For("i", AnyOf({0}), <<AnyOf({0, 2})>>, <<
    If(AnyReading("late"), <<Reset("late")>>, <<>>),
    SendFor(<<Counting({"late"})>>, <<>>, "wall", Name("early")),
    Seed(Name("early")) >>),
  SendFor(<<>>, <<>>, "inf", Zero) >>

\* A loop that never yields, and one that yields only some of the time.
Spinning == <<
  Declare("x", Constant(EmptyObject)),
  If(AnyReading("x"), <<Write(<<"x", "y", "z">>, Given({0, 1}))>>,
     <<Write(<<"x">>, ArrayValue(<<Static(1), Static(2)>>))>>),
  Repeat(<<>>, <<
    If(Name("x"), <<Once, Write(<<"x">>, Given({0, 1}))>>, <<>>) >>) >>

\* Any of three bindings on each lap, one inside another, or none.
Undecided == <<
  Repeat(<<AnyOf({3})>>, <<
    If(AnyReading("t"), <<Write(<<"a">>, CountingObject)>>, <<>>),
    If(AnyReading("t"), <<Write(<<"a", "b">>, Counting({"_t"}))>>, <<>>),
    If(AnyReading("t"), <<Write(<<"msg">>, Counting({"_t"}))>>, <<Write(<<"c">>, Static(1))>>),
    SendFor(<<>>, <<>>, "tick", AnyOf({1, 2})) >>) >>

\* What comes after an endless send of an endless loop: does not compile.
Stuck == <<Repeat(<<>>, <<SendFor(<<>>, <<>>, "inf", Zero), WaitFor(AnyOf({1}))>>)>>

\* The scripts that compile; `unique` keeps the names of two scripts apart.
Source(source, unique, externals) ==
  {[tape |-> tape, externs |-> externals] : tape \in CompileScript(source, unique)}

MCPrograms ==
  Source(Paced, 10, "rate" :> {Number(1), Number(2)}) \cup Source(Rebinding, 20, <<>>)
    \cup Source(Clocks, 30, <<>>) \cup Source(Spinning, 40, <<>>)
    \cup Source(Undecided, 50, <<>>) \cup Source(Stuck, 60, <<>>)

\* With a strict schema {a: {b: Int, c: Float}, d: Int}: positional fills with
\* live blocks inside, laps that bind them again, whole values and defaults.
StrictSchema ==
  EmptyObject @@ (<<"a">> :> Object) @@ (<<"a", "b">> :> Leaf("int", <<"lit", 0>>))
              @@ (<<"a", "c">> :> Leaf("float", <<"lit", 0>>)) @@ (<<"d">> :> Leaf("int", <<"lit", 0>>))
StrictOrder == <<"a", "b", "c", "d">>

Filling == <<
  Declare("n", AnyOf({1, 2})),
  Repeat(<<Name("n")>>, <<
    SendFor(<<ArrayValue(<<ArrayValue(<<Counting({"_t"}), DefaultValue>>), Static(1)>>)>>,
            <<>>, "tick", AnyOf({2})),
    If(AnyReading("n"), <<Write(<<"a">>, DefaultValue)>>,
       <<Write(<<"a">>, ArrayValue(<<Static(2), ExprValue({Number(3), Seconds(3)}, {})>>))>>),
    Once >>),
  Write(<<"d">>, Counting({})),
  Write(<<"x">>, Static(1)) >>

SchemaPrograms == Source(Filling, 0, <<>>)

Instructions(progs) == UNION {Range(prog.tape) : prog \in progs}

TimersOf(progs) == {x.name : x \in {x \in Instructions(progs) : x.op = "create"}}

\* The fields a compiled assignment may apply: its own and, without end, those
\* of a positional fill; here fills are nested at most once.
Parts(x) == IF x[2].op = "array" /\ Len(FieldsAt(x[1])) = Len(x[2].elements)
            THEN {<<Append(x[1], FieldsAt(x[1])[i]), x[2].elements[i]>> : i \in DOMAIN x[2].elements}
            ELSE {}
WithParts(S) == S \cup UNION {Parts(x) : x \in S}
PlacementOf(progs) ==
  WithParts(WithParts({<<x.path, x.value>> : x \in {x \in Instructions(progs) : x.op = "field"}}))

SchemaTimerName == TimersOf(SchemaPrograms)
SchemaPlacement == PlacementOf(SchemaPrograms)
=============================================================================
