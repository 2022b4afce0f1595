------------------------------- MODULE Macros -------------------------------
(***************************************************************************)
(* Macros: `func name(params) { body }` records text, and a call is parsed *)
(* as that text with the arguments put in and the macro's own locals given *)
(* fresh names.  A text is a sequence of items here, and an item matters   *)
(* only by the names in it.  With each name goes what its author meant by  *)
(* it - a name of the script, or a local of one call - which the code does *)
(* not know and never consults.                                            *)
(***************************************************************************)
EXTENDS MessageTree

CONSTANTS
  Sources,       \* the scripts to parse
  MaxExpanded    \* _MAX_EXPANDED_CHARS, in items

VARIABLES
  text,        \* self.text: the items being parsed
  pos,         \* self.pos
  callers,     \* saved_text, saved_pos of the expansions under way
  expanding,   \* _expanding: their macros
  macros,      \* self.macros: name -> [params, body]
  calls,       \* _macro_call_counter
  expanded,    \* _expanded_chars
  known,       \* known_vars
  out,         \* the names the parser has handed on, as it read them
  status       \* "parsing", "parsed" or "rejected"

frameVars == <<text, pos, callers, expanding>>
callVars == <<macros, calls, expanded>>
macroVars == <<frameVars, callVars, known, out, status>>

-----------------------------------------------------------------------------
(* A name in a text: how it is spelt, and its place.  "plain" is anywhere   *)
(* an expression, a declaration or a path begins; "range" comes after the   *)
(* dots of `0..n`; "member" after a dot; "key" before a colon; "string"     *)
(* inside quotes; "bang" among the arguments of an accumulator like         *)
(* rand_walk!; "sum" is part of a computed argument.  A number or a string  *)
(* for an argument is a name nobody declares.                               *)

Word(name, place) == [name |-> name, place |-> place]

Func(name, params, body) == [op |-> "func", name |-> name, params |-> params, body |-> body]
\* A declaration; the end of the loop whose counter it is; any use of names; a call.
Decl(name) == [op |-> "decl", words |-> <<Word(name, "plain")>>]
EndOf(name) == [op |-> "end", words |-> <<Word(name, "plain")>>]
Use(words) == [op |-> "use", words |-> words]
Call(name, args) == [op |-> "call", words |-> <<Word(name, "plain")>> \o args]

OnlyText == {"member", "key", "string"}

\* Faulty variant: what comes after a dot is substituted too.
IsProtectedFromKeys(place) == place \in {"range", "key", "string"}

\* _substitute leaves a name alone after a dot, before a colon, in a string.
IsProtected(place) == place \in {"range", "member", "key", "string"}

Locals(body) == {body[i].words[1].name : i \in {i \in DOMAIN body : body[i].op = "decl"}}

Renamed(macro, id, local) == "__" \o macro \o "_" \o ToString(id) \o "_" \o local

\* Faulty variant: locals get the same name in every call.
RenamedOnce(macro, id, local) == "__" \o macro \o "_" \o local

FreshName(macro, id, local) == Renamed(macro, id, local)

\* What each parameter and each local stands for: a spelling and a meaning.
Mapping(macro, params, args, body, id) ==
  [w \in Range(params) \cup Locals(body) |->
     IF w \in Range(params)
     THEN LET i == CHOOSE i \in DOMAIN params : params[i] = w
          IN  [name |-> args[i].name, means |-> args[i].means]
     ELSE [name |-> FreshName(macro, id, w), means |-> <<"local", id, w>>]]

Substituted(body, mapping) ==
  LET word(w) ==
        [name |-> IF w.name \in DOMAIN mapping /\ ~IsProtected(w.place)
                  THEN mapping[w.name].name ELSE w.name,
         place |-> w.place,
         means |-> IF w.place \in OnlyText THEN <<"text", 0, w.name>>
                   ELSE IF w.name \in DOMAIN mapping THEN mapping[w.name].means
                   ELSE <<"script", 0, w.name>>]
      item(x) == IF x.op = "func" THEN x
                 ELSE [x EXCEPT !.words = [i \in DOMAIN x.words |-> word(x.words[i])]]
  IN  [i \in DOMAIN body |-> item(body[i])]

-----------------------------------------------------------------------------
Init ==
  /\ \E source \in Sources : text = Substituted(source, <<>>)
  /\ pos = 1 /\ callers = <<>> /\ expanding = <<>>
  /\ macros = <<>> /\ calls = 0 /\ expanded = 0
  /\ known = {} /\ out = <<>> /\ status = "parsing"

At(op) == status = "parsing" /\ pos <= Len(text) /\ text[pos].op = op
Item == text[pos]
Words == Item.words

\* A ScriptError unwinds all expansions; the parser is thrown away.
Reject == status' = "rejected" /\ UNCHANGED <<frameVars, callVars, known, out>>

Goes == pos' = pos + 1 /\ UNCHANGED <<text, callers, expanding, status>>

\* _parse_func_decl: the body is only recorded.
ParseFunc ==
  /\ At("func")
  /\ IF \/ Item.name \in DOMAIN macros
        \/ Cardinality(Range(Item.params)) # Len(Item.params)
        \/ Locals(Item.body) \cap Range(Item.params) # {}
     THEN Reject
     ELSE /\ macros' = With(macros, Item.name, [params |-> Item.params, body |-> Item.body])
          /\ Goes /\ UNCHANGED <<calls, expanded, known, out>>

ParseDecl ==
  /\ At("decl")
  /\ IF Words[1].name \in known THEN Reject
     ELSE /\ known' = known \cup {Words[1].name}
          /\ out' = out \o Words
          /\ Goes /\ UNCHANGED callVars

LeaveLoop ==
  /\ At("end")
  /\ known' = known \ {Words[1].name}
  /\ Goes /\ UNCHANGED <<callVars, out>>

ParseUse ==
  /\ At("use")
  /\ out' = out \o Words
  /\ Goes /\ UNCHANGED <<callVars, known>>

\* Faulty variant: a macro is kept from expanding inside itself directly only.
IsExpandingNow(name) == expanding # <<>> /\ name = Last(expanding)
IsExpanding(name) == name \in Range(expanding)

\* _try_parse_macro_call and _expand_macro_call
ParseCall ==
  /\ At("call")
  /\ LET name == Words[1].name
         args == Tail(Words)
         accepted ==
           /\ name \in DOMAIN macros
           /\ \A i \in DOMAIN args : args[i].place # "sum"
           /\ Len(args) = Len(macros[name].params)
           /\ ~IsExpanding(name)
         body == macros[name].body
         mapping == Mapping(name, macros[name].params, args, body, calls + 1)
     IN  IF ~accepted THEN Reject
         ELSE IF expanded + Len(body) > MaxExpanded THEN Reject
         ELSE /\ calls' = calls + 1
              /\ expanded' = expanded + Len(body)
              /\ callers' = Append(callers, [text |-> text, pos |-> pos + 1])
              /\ expanding' = Append(expanding, name)
              /\ text' = Substituted(body, mapping)
              /\ pos' = 1
              /\ UNCHANGED <<macros, known, out, status>>

EndOfText ==
  /\ status = "parsing" /\ pos > Len(text)
  /\ IF callers = <<>>
     THEN status' = "parsed" /\ UNCHANGED frameVars
     ELSE /\ text' = Last(callers).text
          /\ pos' = Last(callers).pos
          /\ callers' = Front(callers)
          /\ expanding' = Front(expanding)
          /\ UNCHANGED status
  /\ UNCHANGED <<callVars, known, out>>

Next == ParseFunc \/ ParseDecl \/ LeaveLoop \/ ParseUse \/ ParseCall \/ EndOfText

Spec == Init /\ [][Next]_macroVars

-----------------------------------------------------------------------------
\* What a name the parser hands on will refer to.  An accumulator becomes a live
\* block with a static called `value`, in which its arguments are evaluated.
RefersTo(w) ==
  IF w.place \in OnlyText THEN <<"text", w.name>>
  ELSE IF w.place = "bang" /\ w.name = "value" THEN <<"accumulator", w.name>>
  ELSE <<"slot", w.name>>

\* Where nothing but a script's macros can confuse its names: there are none
\* after the dots of a range, none is `value`, and those made up for locals, in
\* calls numbered by ids, are neither spelt in it nor made up twice.  A macro
\* is declared outside of others.
FuncsOf(source) == {x \in Range(source) : x.op = "func"}
ItemsOf(source) == (Range(source) \ FuncsOf(source)) \cup UNION {Range(f.body) : f \in FuncsOf(source)}
IsSequence(s) == s \in Seq(Range(s))

NamesOf(source) ==
  UNION {{x.words[i].name : i \in {i \in DOMAIN x.words : x.words[i].place \notin OnlyText}} :
           x \in ItemsOf(source)}

IsHygienic(source, ids) ==
  /\ IsSequence(source)
  /\ \A f \in FuncsOf(source) : IsSequence(f.params) /\ IsSequence(f.body)
  /\ \A x \in ItemsOf(source) :
       /\ x = [op |-> x.op, words |-> x.words] /\ x.op # "func"
       /\ IsSequence(x.words) /\ Len(x.words) > 0
       /\ \A i \in DOMAIN x.words : x.words[i].place # "range"
       /\ x.op = "call" => \A i \in 2..Len(x.words) : x.words[i].place \in {"plain", "sum"}
  /\ "value" \notin NamesOf(source)
  /\ \A f \in FuncsOf(source), i \in ids : \A v \in Locals(f.body) :
       /\ Renamed(f.name, i, v) \notin NamesOf(source) \cup {"value"}
       /\ \A g \in FuncsOf(source), j \in ids : \A w \in Locals(g.body) :
            Renamed(f.name, i, v) = Renamed(g.name, j, w) => i = j /\ v = w

\* README "Local variable renaming preserves field names and object keys", and
\* parser.py:726-730 "fully parameter-substituted and hygienically renamed": two
\* names refer to the same thing just when their authors meant the same, across
\* calls inside calls, arguments handed down, and locals of several calls that
\* share one table at run time; and text stays as it was (parser.py:130-169,
\* parser.py:772-816).
NamesReferAsWritten ==
  \A i, j \in DOMAIN out :
    /\ (RefersTo(out[i]) = RefersTo(out[j])) <=> (out[i].means = out[j].means)
    /\ out[i].place \in OnlyText => out[i].name = out[i].means[3]

\* No macro is expanded inside itself, so calls nest no deeper than there are
\* macros: the parser recurses into each (parser.py:773-775).
NestingIsBounded ==
  /\ \A i, j \in DOMAIN expanding : expanding[i] = expanding[j] => i = j
  /\ Range(expanding) \subseteq DOMAIN macros
  /\ Len(callers) = Len(expanding)
=============================================================================
