------------------------------ MODULE MCMacros ------------------------------
(* Small scripts with two macros, and what they must expand to.               *)
EXTENDS Macros

Plain(n) == Word(n, "plain")
Reads(n) == Use(<<Plain(n)>>)

SeqsUpTo(S, k) == UNION {[1..n -> S] : n \in 0..k}

\* f(p) { ... }: a local, uses of it, of the parameter, and of text like it.
FBodies == SeqsUpTo({Decl("n"), Reads("n"), Use(<<Plain("p"), Word("n", "member")>>),
                     Use(<<Word("p", "string"), Word("p", "key")>>)}, 2)

\* g(p, n) { ... }: calls of f and of itself with what it is given, or of whatever it is given.
GBodies == SeqsUpTo({Call("f", <<Plain("p")>>), Call("f", <<Plain("n")>>), Decl("m"), Reads("m"),
                     Call("p", <<Plain("m")>>), Call("g", <<Plain("p"), Plain("n")>>)}, 2)

Scripts ==
  {<<Func("f", <<"p">>, f), Func("g", <<"p", "n">>, g), Decl("n"), Call("g", <<Plain(a), Plain("n")>>)>> \o rest :
     f \in FBodies, g \in GBodies, a \in {"n", "5", "f"},
     rest \in {<<>>, <<Call("f", <<Plain("m")>>), Reads("n")>>}}

\* Declarations and calls the parser refuses, a loop, an accumulator, and a
\* chain of macros that grows too long.
OtherScripts ==
  {<<Func("f", <<>>, <<>>), Func("f", <<>>, <<>>)>>,
   <<Func("f", <<"p", "p">>, <<>>)>>,
   <<Func("f", <<"p">>, <<Decl("p")>>)>>,
   <<Func("f", <<"p">>, <<>>), Call("f", <<>>)>>,
   <<Func("f", <<"p">>, <<Reads("p")>>), Decl("n"), Call("f", <<Word("n", "sum")>>)>>,
   <<Call("f", <<>>), Func("f", <<>>, <<>>)>>,
   <<Decl("n"), Decl("n")>>,
   <<Func("f", <<>>, <<Call("g", <<>>)>>), Func("g", <<>>, <<Call("f", <<>>)>>), Call("f", <<>>)>>,
   <<Func("f", <<"p">>, <<Decl("i"), Reads("p"), EndOf("i"), Reads("i"), Use(<<Word("p", "bang")>>)>>),
     Decl("i"), Call("f", <<Plain("i")>>), EndOf("i"), Decl("i"), Call("f", <<Plain("i")>>)>>,
   <<Func("f", <<>>, <<Reads("n"), Reads("n")>>), Func("g", <<>>, <<Call("f", <<>>), Call("f", <<>>)>>),
     Func("h", <<>>, <<Call("g", <<>>), Call("g", <<>>)>>), Call("h", <<>>)>>}

MCSources == Scripts \cup OtherScripts

\* The scripts are those the theorem is about.
ASSUME ScriptsAreHygienic == \A script \in MCSources : IsHygienic(script, 1..4)

\* A parameter as the upper bound of a range.
RangeSources ==
  {<<Func("f", <<"p">>, <<Decl("i"), Use(<<Word("p", "range")>>), EndOf("i")>>), Decl("n"), Call("f", <<Plain("n")>>)>>}

-----------------------------------------------------------------------------
(* The same without text: a call is its macro's items in place, each name   *)
(* looked up in what the parameters and the locals of that call stand for.  *)

Nothing == [ok |-> TRUE, macros |-> <<>>, calls |-> 0, size |-> 0, known |-> {}, means |-> <<>>]

RECURSIVE Items(_, _, _, _)
Items(items, env, chain, s) ==
  LET x == Head(items)
      meaning(w) == IF w.place \in OnlyText THEN <<"text", 0, w.name>>
                    ELSE IF w.name \in DOMAIN env THEN env[w.name] ELSE <<"script", 0, w.name>>
      meanings == [i \in DOMAIN x.words |-> meaning(x.words[i])]
      first == meanings[1]
      called == s.macros[first[3]]
      inside == [w \in Range(called.params) \cup Locals(called.body) |->
                   IF w \in Range(called.params)
                   THEN meanings[1 + CHOOSE i \in DOMAIN called.params : called.params[i] = w]
                   ELSE <<"local", s.calls + 1, w>>]
      faulty ==
        CASE x.op = "func" -> \/ x.name \in DOMAIN s.macros
                              \/ \E i, j \in DOMAIN x.params : i # j /\ x.params[i] = x.params[j]
                              \/ \E i \in DOMAIN x.params : x.params[i] \in Locals(x.body)
          [] x.op = "decl" -> first \in s.known
          [] x.op = "call" -> \/ first[1] # "script" \/ first[3] \notin DOMAIN s.macros
                              \/ \E i \in DOMAIN x.words : x.words[i].place = "sum"
                              \/ Len(x.words) # 1 + Len(called.params)
                              \/ first[3] \in chain
                              \/ s.size + Len(called.body) > MaxExpanded
          [] OTHER -> FALSE
      after ==
        CASE x.op = "func" -> [s EXCEPT !.macros = With(@, x.name, [params |-> x.params, body |-> x.body])]
          [] x.op = "decl" -> [s EXCEPT !.known = @ \cup {first}, !.means = @ \o meanings]
          [] x.op = "end" -> [s EXCEPT !.known = @ \ {first}]
          [] x.op = "use" -> [s EXCEPT !.means = @ \o meanings]
          [] x.op = "call" -> Items(called.body, inside, chain \cup {first[3]},
                                    [s EXCEPT !.calls = @ + 1, !.size = @ + Len(called.body)])
  IN  IF items = <<>> \/ ~s.ok THEN s
      ELSE IF faulty THEN [s EXCEPT !.ok = FALSE]
      ELSE Items(Tail(items), env, chain, after)

VARIABLE source
MCInit == /\ source \in Sources /\ text = Substituted(source, <<>>)
          /\ pos = 1 /\ callers = <<>> /\ expanding = <<>>
          /\ macros = <<>> /\ calls = 0 /\ expanded = 0
          /\ known = {} /\ out = <<>> /\ status = "parsing"
MCSpec == MCInit /\ [][Next /\ UNCHANGED source]_<<macroVars, source>>

\* README "expanded inline": what is parsed is what the author would have
\* written without macros, every call's items in its place, once for each call,
\* and a script is rejected only if that is too long or something in it is
\* refused - never for a name that expansion has made up.
ParsedAsWrittenOut ==
  LET written == Items(source, <<>>, {}, Nothing)
  IN  /\ status = "rejected" => ~written.ok
      /\ status = "parsed" => written.ok /\ written.means = [i \in DOMAIN out |-> out[i].means]
=============================================================================
