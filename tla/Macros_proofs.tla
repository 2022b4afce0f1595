--------------------------- MODULE Macros_proofs ---------------------------
(***************************************************************************)
(* For every script: no macro is expanded inside itself, so the parser     *)
(* recurses no deeper than the script has macros; and, where nothing but   *)
(* its macros could confuse its names, each refers to what was meant.      *)
(***************************************************************************)
EXTENDS Macros, SequenceTheorems, TLAPS

\* What the stacks are made of does not matter, only that they are stacks.
Stacks ==
  /\ expanding \in Seq(Range(expanding))
  /\ callers \in Seq(Range(callers))

Inv == Stacks /\ NestingIsBounded

LEMMA AppendedRange ==
  ASSUME NEW s, s \in Seq(Range(s)), NEW x
  PROVE  /\ Append(s, x) \in Seq(Range(Append(s, x)))
         /\ Range(Append(s, x)) = Range(s) \cup {x}
         /\ Len(Append(s, x)) = Len(s) + 1
         /\ \A i \in 1..Len(s) : Append(s, x)[i] = s[i]
         /\ Append(s, x)[Len(s) + 1] = x
<1> DEFINE S == Range(s) \cup {x}
<1>1. s \in Seq(S) /\ x \in S
  BY SeqMonotonic, Range(s) \subseteq S
<1>2. /\ Append(s, x) \in Seq(S)
      /\ Len(Append(s, x)) = Len(s) + 1
      /\ \A i \in 1..Len(s) : Append(s, x)[i] = s[i]
      /\ Append(s, x)[Len(s) + 1] = x
  BY <1>1
<1>3. Range(Append(s, x)) = S
  BY <1>1, <1>2 DEF Range
<1> QED
  BY <1>2, <1>3

LEMMA FrontOfSeq ==
  ASSUME NEW S, NEW s \in Seq(S), Len(s) > 0
  PROVE  /\ Front(s) \in Seq(S)
         /\ Len(Front(s)) = Len(s) - 1
         /\ DOMAIN Front(s) = 1..(Len(s) - 1)
         /\ \A i \in 1..(Len(s) - 1) : Front(s)[i] = s[i]
<1> DEFINE n == Len(s) - 1
<1>1. n \in Nat /\ n <= Len(s)
  OBVIOUS
<1>2. \A i \in 1..n : s[i] \in S
  OBVIOUS
<1>3. n \in Nat => (IF 1 <= n THEN n - 1 + 1 ELSE 0) = n
  OBVIOUS
<1>4. \A i \in 1..n : 1 + i - 1 = i /\ i \in 1..(n - 1 + 1)
  BY <1>1
<1> HIDE DEF n
<1>5. /\ SubSeq(s, 1, n) \in Seq(S)
      /\ Len(SubSeq(s, 1, n)) = n
      /\ \A i \in 1..n : SubSeq(s, 1, n)[i] = s[i]
  BY <1>1, <1>2, <1>3, <1>4, SubSeqProperties
<1> QED
  BY <1>5 DEF Front, n

LEMMA FrontRange ==
  ASSUME NEW s, s \in Seq(Range(s)), Len(s) > 0
  PROVE  /\ Front(s) \in Seq(Range(Front(s)))
         /\ Range(Front(s)) \subseteq Range(s)
         /\ Len(Front(s)) = Len(s) - 1
         /\ \A i \in DOMAIN Front(s) : i \in DOMAIN s /\ Front(s)[i] = s[i]
<1> DEFINE f == Front(s)
<1>1. /\ f \in Seq(Range(s))
      /\ Len(f) = Len(s) - 1
      /\ DOMAIN f = 1..(Len(s) - 1)
      /\ \A i \in 1..(Len(s) - 1) : f[i] = s[i]
  BY FrontOfSeq
<1>2. DOMAIN s = 1..Len(s) /\ Len(s) \in Nat
  OBVIOUS
<1>3. \A i \in DOMAIN f : i \in DOMAIN s /\ f[i] = s[i]
  BY <1>1, <1>2
<1>4. Range(f) \subseteq Range(s)
  BY <1>3 DEF Range
<1>5. f \in Seq(Range(f))
  BY <1>1, SeqOfRange
<1> QED
  BY <1>1, <1>3, <1>4, <1>5

LEMMA EmptyStack ==
  /\ <<>> \in Seq(Range(<<>>))
  /\ Len(<<>>) = 0
  /\ DOMAIN <<>> = {}
  /\ Range(<<>>) = {}
<1>1. <<>> \in Seq({}) /\ Len(<<>>) = 0
  OBVIOUS
<1>2. DOMAIN <<>> = {}
  BY <1>1
<1> QED
  BY <1>1, <1>2 DEF Range

LEMMA InvInit == Init => Inv
BY EmptyStack DEF Init, Inv, Stacks, NestingIsBounded

\* A call goes one deeper, into a macro that is declared and not under way.
LEMMA CallKeepsInv ==
  ASSUME Inv, ParseCall
  PROVE  Inv'
<1> DEFINE name == Words[1].name
<1>1. CASE UNCHANGED <<frameVars, callVars>>
  BY <1>1 DEF Inv, Stacks, NestingIsBounded, frameVars, callVars
<1>2. CASE ~UNCHANGED <<frameVars, callVars>>
  <2>1. PICK c : /\ callers' = Append(callers, c)
                 /\ expanding' = Append(expanding, name)
                 /\ macros' = macros
                 /\ name \in DOMAIN macros
                 /\ name \notin Range(expanding)
    BY <1>2 DEF ParseCall, Reject, IsExpanding
  <2>2. Stacks'
    BY <2>1, AppendedRange DEF Inv, Stacks
  <2>3. Range(expanding)' \subseteq DOMAIN macros'
    BY <2>1, AppendedRange DEF Inv, Stacks, NestingIsBounded
  <2>4. Len(callers)' = Len(expanding)'
    BY <2>1, AppendedRange DEF Inv, Stacks, NestingIsBounded
  <2>5. ASSUME NEW i \in DOMAIN expanding', NEW j \in DOMAIN expanding',
               expanding'[i] = expanding'[j]
        PROVE  i = j
    <3>1. /\ DOMAIN expanding = 1..Len(expanding) /\ Len(expanding) \in Nat
          /\ DOMAIN expanding' = 1..(Len(expanding) + 1)
          /\ \A k \in 1..Len(expanding) : expanding'[k] = expanding[k]
          /\ expanding'[Len(expanding) + 1] = name
      BY <2>1, <2>2, AppendedRange DEF Inv, Stacks
    <3>2. \A k \in 1..Len(expanding) : expanding'[k] # name
      BY <2>1, <3>1 DEF Range
    <3> QED
      BY <2>5, <3>1, <3>2 DEF Inv, NestingIsBounded
  <2> QED
    BY <2>2, <2>3, <2>4, <2>5 DEF Inv, NestingIsBounded
<1> QED
  BY <1>1, <1>2

\* The end of an expansion takes up the caller's text again.
LEMMA EndKeepsInv ==
  ASSUME Inv, EndOfText
  PROVE  Inv'
<1>1. CASE callers = <<>>
  BY <1>1 DEF EndOfText, Inv, Stacks, NestingIsBounded, frameVars, callVars
<1>2. CASE callers # <<>>
  <2>1. callers' = Front(callers) /\ expanding' = Front(expanding) /\ macros' = macros
    BY <1>2 DEF EndOfText, callVars
  <2>2. Len(callers) > 0 /\ Len(expanding) > 0
    BY <1>2 DEF Inv, Stacks, NestingIsBounded
  <2>3. /\ Front(callers) \in Seq(Range(Front(callers))) /\ Front(expanding) \in Seq(Range(Front(expanding)))
        /\ Range(Front(expanding)) \subseteq Range(expanding)
        /\ Len(Front(callers)) = Len(callers) - 1 /\ Len(Front(expanding)) = Len(expanding) - 1
        /\ \A i \in DOMAIN Front(expanding) : i \in DOMAIN expanding /\ Front(expanding)[i] = expanding[i]
    BY <2>2, FrontRange DEF Inv, Stacks
  <2>4. Stacks'
    BY <2>1, <2>3 DEF Stacks
  <2>5. \A i, j \in DOMAIN Front(expanding) :
          Front(expanding)[i] = Front(expanding)[j] => i = j
    BY <2>3 DEF Inv, NestingIsBounded
  <2>6. NestingIsBounded'
    BY <2>1, <2>3, <2>5 DEF Inv, NestingIsBounded
  <2> QED
    BY <2>4, <2>6 DEF Inv
<1> QED
  BY <1>1, <1>2

LEMMA InvStep == Inv /\ [Next]_macroVars => Inv'
<1> SUFFICES ASSUME Inv, [Next]_macroVars
             PROVE  Inv'
  OBVIOUS
<1>1. CASE ParseFunc
  BY <1>1 DEF ParseFunc, Reject, Goes, With, Inv, Stacks, NestingIsBounded, frameVars, callVars
<1>2. CASE ParseDecl
  BY <1>2 DEF ParseDecl, Reject, Goes, Inv, Stacks, NestingIsBounded, frameVars, callVars
<1>3. CASE LeaveLoop
  BY <1>3 DEF LeaveLoop, Goes, Inv, Stacks, NestingIsBounded, callVars
<1>4. CASE ParseUse
  BY <1>4 DEF ParseUse, Goes, Inv, Stacks, NestingIsBounded, callVars
<1>5. CASE ParseCall
  BY <1>5, CallKeepsInv
<1>6. CASE EndOfText
  BY <1>6, EndKeepsInv
<1>7. CASE UNCHANGED macroVars
  BY <1>7 DEF macroVars, Inv, Stacks, NestingIsBounded, frameVars, callVars
<1> QED
  BY <1>1, <1>2, <1>3, <1>4, <1>5, <1>6, <1>7 DEF Next

\* However the macros of a script call each other, the parser recurses into each
\* at most once at a time (the cycle guard of parser.py:773-775).
THEOREM ExpansionIsNotRecursive == Spec => []NestingIsBounded
<1>1. Inv => NestingIsBounded
  BY DEF Inv
<1> QED
  BY <1>1, InvInit, InvStep, PTL DEF Spec
-----------------------------------------------------------------------------
(* Names.  `owner` says which macro each call has expanded: of every name    *)
(* in use it is known what it means, and so how it is spelt.                 *)

Denotes(name, means, source, owner) ==
  \/ means = <<"script", 0, name>> /\ name \in NamesOf(source)
  \/ \E id \in DOMAIN owner : \E v \in Locals(owner[id].body) :
       means = <<"local", id, v>> /\ name = Renamed(owner[id].name, id, v)

WordOK(w, source, owner) ==
  IF w.place \in OnlyText THEN w.means = <<"text", 0, w.name>>
  ELSE Denotes(w.name, w.means, source, owner)

ItemOK(x, source, owner) ==
  IF x.op = "func" THEN x \in FuncsOf(source)
  ELSE /\ IsSequence(x.words) /\ Len(x.words) > 0
       /\ \A i \in 1..Len(x.words) : WordOK(x.words[i], source, owner)
       /\ x.op = "call" => \A i \in 2..Len(x.words) : x.words[i].place \in {"plain", "sum"}

TextOK(t, source, owner) ==
  IsSequence(t) /\ \A i \in 1..Len(t) : ItemOK(t[i], source, owner)

NamesInv(source, owner) ==
  /\ calls \in Nat /\ owner \in [1..calls -> FuncsOf(source)]
  /\ pos \in Nat \ {0} /\ TextOK(text, source, owner)
  /\ \A k \in 1..Len(callers) : callers[k].pos \in Nat \ {0} /\ TextOK(callers[k].text, source, owner)
  /\ \A name \in DOMAIN macros :
       \E f \in FuncsOf(source) : f.name = name /\ macros[name] = [params |-> f.params, body |-> f.body]
  /\ IsSequence(out) /\ \A i \in 1..Len(out) : WordOK(out[i], source, owner)

Hygienic(source) == IsHygienic(source, Nat \ {0})

\* What a parameter or a local stands for is a name in use.
MappingOK(mapping, source, owner) ==
  \A w \in DOMAIN mapping : Denotes(mapping[w].name, mapping[w].means, source, owner)

LEMMA SequenceOfItems ==
  ASSUME NEW n \in Nat, NEW s, s = [i \in 1..n |-> s[i]]
  PROVE  IsSequence(s) /\ Len(s) = n
<1>1. \A i \in 1..n : s[i] \in Range(s)
  BY DEF Range
<1>2. [i \in 1..n |-> s[i]] \in Seq(Range(s)) /\ Len([i \in 1..n |-> s[i]]) = n
  BY <1>1
<1> QED
  BY <1>2 DEF IsSequence

\* Putting names in place of names keeps a text in order.
LEMMA SubstitutionNames ==
  ASSUME NEW source, Hygienic(source), NEW owner, NEW mapping, MappingOK(mapping, source, owner),
         NEW body, IsSequence(body), Range(body) \subseteq ItemsOf(source) \cup FuncsOf(source)
  PROVE  TextOK(Substituted(body, mapping), source, owner)
<1> DEFINE word(w) ==
             [name |-> IF w.name \in DOMAIN mapping /\ ~IsProtected(w.place)
                       THEN mapping[w.name].name ELSE w.name,
              place |-> w.place,
              means |-> IF w.place \in OnlyText THEN <<"text", 0, w.name>>
                        ELSE IF w.name \in DOMAIN mapping THEN mapping[w.name].means
                        ELSE <<"script", 0, w.name>>]
           item(x) == IF x.op = "func" THEN x
                      ELSE [x EXCEPT !.words = [i \in DOMAIN x.words |-> word(x.words[i])]]
           t == [i \in DOMAIN body |-> item(body[i])]
<1>1. DOMAIN body = 1..Len(body) /\ Len(body) \in Nat
  BY DEF IsSequence
<1>2. ASSUME NEW i \in 1..Len(body) PROVE ItemOK(item(body[i]), source, owner)
  <2> DEFINE x == body[i]
  <2>1. x \in Range(body)
    BY <1>1 DEF Range
  <2>2. CASE x.op = "func"
    <3>1. x \in FuncsOf(source)
      BY <2>1, <2>2 DEF Hygienic, IsHygienic
    <3> QED
      BY <2>2, <3>1 DEF ItemOK
  <2>3. CASE x.op # "func"
    <3> DEFINE ws == [k \in DOMAIN x.words |-> word(x.words[k])]
    <3>1. x \in ItemsOf(source)
      BY <2>1, <2>3 DEF FuncsOf
    <3>2. /\ x = [op |-> x.op, words |-> x.words]
          /\ IsSequence(x.words) /\ Len(x.words) > 0
          /\ \A k \in DOMAIN x.words : x.words[k].place # "range"
          /\ x.op = "call" => \A k \in 2..Len(x.words) : x.words[k].place \in {"plain", "sum"}
      BY <3>1 DEF Hygienic, IsHygienic
    <3>3. item(x).op = x.op /\ item(x).words = ws
      BY <2>3, <3>2
    <3>4. DOMAIN x.words = 1..Len(x.words) /\ Len(x.words) \in Nat
      BY <3>2 DEF IsSequence
    <3>5. IsSequence(ws) /\ Len(ws) = Len(x.words)
      <4>1. ws = [k \in 1..Len(x.words) |-> ws[k]]
        BY <3>4
      <4> HIDE DEF ws
      <4> QED
        BY <3>4, <4>1, SequenceOfItems
    <3>6. ASSUME NEW k \in 1..Len(x.words) PROVE WordOK(ws[k], source, owner)
      <4> DEFINE w == x.words[k]
      <4>1. /\ ws[k].place = w.place /\ w.place # "range"
            /\ ws[k].name = word(w).name /\ ws[k].means = word(w).means
        BY <3>2, <3>4
      <4>2. CASE w.place \in OnlyText
        <5>1. ws[k].name = w.name /\ ws[k].means = <<"text", 0, w.name>>
          BY <4>1, <4>2 DEF OnlyText, IsProtected
        <5> QED
          BY <4>1, <4>2, <5>1 DEF WordOK
      <4>3. CASE w.place \notin OnlyText /\ w.name \in DOMAIN mapping
        <5>1. ws[k].name = mapping[w.name].name /\ ws[k].means = mapping[w.name].means
          BY <4>1, <4>3 DEF OnlyText, IsProtected
        <5> QED
          BY <4>1, <4>3, <5>1 DEF WordOK, MappingOK
      <4>4. CASE w.place \notin OnlyText /\ w.name \notin DOMAIN mapping
        <5>1. w.name \in NamesOf(source)
          BY <3>1, <3>4, <4>4 DEF NamesOf
        <5>2. ws[k].name = w.name /\ ws[k].means = <<"script", 0, w.name>>
          BY <4>1, <4>4
        <5> QED
          BY <4>1, <4>4, <5>1, <5>2 DEF WordOK, Denotes
      <4> QED
        BY <4>2, <4>3, <4>4
    <3>7. x.op = "call" => \A k \in 2..Len(ws) : ws[k].place \in {"plain", "sum"}
      <4>1. \A k \in 2..Len(ws) : k \in 1..Len(x.words) /\ k \in 2..Len(x.words)
        BY <3>4, <3>5
      <4>2. \A k \in 1..Len(x.words) : ws[k].place = x.words[k].place
        BY <3>4
      <4> QED
        BY <3>2, <4>1, <4>2
    <3> QED
      BY <2>3, <3>2, <3>3, <3>5, <3>6, <3>7 DEF ItemOK
  <2> QED
    BY <2>2, <2>3
<1>3. IsSequence(t) /\ Len(t) = Len(body) /\ \A i \in 1..Len(body) : t[i] = item(body[i])
  <2>1. t = [i \in 1..Len(body) |-> t[i]] /\ \A i \in 1..Len(body) : t[i] = item(body[i])
    BY <1>1
  <2> HIDE DEF t
  <2> QED
    BY <1>1, <2>1, SequenceOfItems
<1>4. Substituted(body, mapping) = t
  BY DEF Substituted
<1>5. TextOK(t, source, owner)
  <2> HIDE DEF t, item
  <2> QED
    BY <1>1, <1>2, <1>3 DEF TextOK
<1> QED
  BY <1>4, <1>5

-----------------------------------------------------------------------------
(* Another call: what was known of names stays known.                        *)

Extends(owner, more) ==
  DOMAIN owner \subseteq DOMAIN more /\ \A id \in DOMAIN owner : more[id] = owner[id]

LEMMA WordStaysOK ==
  ASSUME NEW source, NEW owner, NEW more, Extends(owner, more), NEW w, WordOK(w, source, owner)
  PROVE  WordOK(w, source, more)
BY DEF WordOK, Denotes, Extends

LEMMA TextStaysOK ==
  ASSUME NEW source, NEW owner, NEW more, Extends(owner, more), NEW t, TextOK(t, source, owner)
  PROVE  TextOK(t, source, more)
<1>1. ASSUME NEW i \in 1..Len(t) PROVE ItemOK(t[i], source, more)
  <2>1. ItemOK(t[i], source, owner)
    BY DEF TextOK
  <2> QED
    BY <2>1, WordStaysOK DEF ItemOK
<1> QED
  BY <1>1 DEF TextOK

\* The arguments of a call: atomic, and one for every parameter.
LEMMA CallMapping ==
  ASSUME NEW source, Hygienic(source), NEW n \in Nat, NEW owner, NEW more, Extends(owner, more),
         NEW words, IsSequence(words), Len(words) > 0,
         \A i \in 1..Len(words) : WordOK(words[i], source, owner),
         \A i \in 2..Len(words) : words[i].place \in {"plain", "sum"},
         NEW f \in FuncsOf(source), n + 1 \in DOMAIN more, more[n + 1] = f,
         Len(Tail(words)) = Len(f.params)
  PROVE  MappingOK(Mapping(f.name, f.params, Tail(words), f.body, n + 1), source, more)
<1> DEFINE args == Tail(words)
           mapping == Mapping(f.name, f.params, args, f.body, n + 1)
           place(w) == CHOOSE i \in DOMAIN f.params : f.params[i] = w
<1>1. IsSequence(f.params) /\ DOMAIN f.params = 1..Len(f.params) /\ Len(f.params) \in Nat
  BY DEF Hygienic, IsHygienic, IsSequence
<1>2. /\ Len(words) \in Nat /\ Len(args) = Len(words) - 1
      /\ \A i \in 1..Len(args) : i + 1 \in 2..Len(words) /\ args[i] = words[i + 1]
  BY DEF IsSequence
<1>3. ASSUME NEW i \in 1..Len(args) PROVE Denotes(args[i].name, args[i].means, source, more)
  <2>1. i + 1 \in 1..Len(words) /\ i + 1 \in 2..Len(words) /\ args[i] = words[i + 1]
    BY <1>2
  <2>2. WordOK(args[i], source, owner) /\ args[i].place \in {"plain", "sum"}
    BY <2>1
  <2>3. WordOK(args[i], source, more)
    BY <2>2, WordStaysOK
  <2> QED
    BY <2>2, <2>3 DEF WordOK, OnlyText
<1>4. DOMAIN mapping = Range(f.params) \cup Locals(f.body)
  BY DEF Mapping
<1>5. ASSUME NEW w \in Range(f.params)
      PROVE  Denotes(mapping[w].name, mapping[w].means, source, more)
  <2>1. place(w) \in 1..Len(args)
    BY <1>1 DEF Range
  <2>2. mapping[w] = [name |-> args[place(w)].name, means |-> args[place(w)].means]
    BY DEF Mapping
  <2> QED
    BY <1>3, <2>1, <2>2
<1>6. ASSUME NEW w \in Locals(f.body), w \notin Range(f.params)
      PROVE  Denotes(mapping[w].name, mapping[w].means, source, more)
  <2>1. mapping[w] = [name |-> Renamed(f.name, n + 1, w), means |-> <<"local", n + 1, w>>]
    BY <1>6 DEF Mapping, FreshName
  <2> QED
    BY <2>1 DEF Denotes
<1> QED
  BY <1>4, <1>5, <1>6 DEF MappingOK

LEMMA MoreWords ==
  ASSUME NEW source, NEW owner, NEW s, NEW t, IsSequence(s), IsSequence(t),
         \A i \in 1..Len(s) : WordOK(s[i], source, owner),
         \A i \in 1..Len(t) : WordOK(t[i], source, owner)
  PROVE  IsSequence(s \o t) /\ \A i \in 1..Len(s \o t) : WordOK((s \o t)[i], source, owner)
<1>1. /\ Len(s) \in Nat /\ Len(t) \in Nat /\ Len(s \o t) = Len(s) + Len(t)
      /\ s \o t = [i \in 1..Len(s) + Len(t) |-> (s \o t)[i]]
      /\ \A i \in 1..Len(s) + Len(t) :
           (s \o t)[i] = IF i <= Len(s) THEN s[i] ELSE t[i - Len(s)]
  <2> DEFINE S == Range(s) \cup Range(t)
  <2>1. s \in Seq(S) /\ t \in Seq(S)
    BY SeqMonotonic, Range(s) \subseteq S, Range(t) \subseteq S DEF IsSequence
  <2> HIDE DEF S
  <2>2. Len(s) \in Nat /\ Len(t) \in Nat
    BY <2>1
  <2>3. s \o t \in Seq(S) /\ Len(s \o t) = Len(s) + Len(t)
        /\ \A i \in 1..Len(s) + Len(t) : (s \o t)[i] = IF i <= Len(s) THEN s[i] ELSE t[i - Len(s)]
    BY <2>1, ConcatProperties
  <2>4. \A q \in Seq(S) : q = [i \in 1..Len(q) |-> q[i]]
    OBVIOUS
  <2>5. s \o t = [i \in 1..Len(s \o t) |-> (s \o t)[i]]
    BY <2>3, <2>4
  <2> QED
    BY <2>2, <2>3, <2>5
<1> QED
  BY <1>1, SequenceOfItems


-----------------------------------------------------------------------------
(* The steps of the parser. *)

LEMMA ItemInHand ==
  ASSUME NEW source, NEW owner, NamesInv(source, owner), pos <= Len(text)
  PROVE  ItemOK(Item, source, owner)
<1>1. pos \in 1..Len(text)
  BY DEF NamesInv, TextOK, IsSequence
<1> QED
  BY <1>1 DEF NamesInv, TextOK, Item

\* What a step that goes on in the same text may change.
LEMMA GoingOn ==
  ASSUME NEW source, NEW owner, NamesInv(source, owner), Goes, UNCHANGED callVars,
         \/ UNCHANGED out
         \/ out' = out \o Words /\ IsSequence(Words) /\ \A i \in 1..Len(Words) : WordOK(Words[i], source, owner)
  PROVE  NamesInv(source, owner)'
<1>1. IsSequence(out') /\ \A i \in 1..Len(out') : WordOK(out'[i], source, owner)
  <2>1. IsSequence(out) /\ \A i \in 1..Len(out) : WordOK(out[i], source, owner)
    BY DEF NamesInv
  <2>2. CASE UNCHANGED out
    BY <2>1, <2>2
  <2>3. CASE ~UNCHANGED out
    <3>1. /\ out' = out \o Words /\ IsSequence(Words)
          /\ \A i \in 1..Len(Words) : WordOK(Words[i], source, owner)
      BY <2>3
    <3>2. /\ IsSequence(out \o Words)
          /\ \A i \in 1..Len(out \o Words) : WordOK((out \o Words)[i], source, owner)
      BY <2>1, <3>1, MoreWords
    <3> QED
      BY <3>1, <3>2
  <2> QED
    BY <2>2, <2>3
<1>2. pos' \in Nat \ {0}
  BY DEF NamesInv, Goes
<1> QED
  BY <1>1, <1>2 DEF NamesInv, Goes, callVars

LEMMA FuncKeepsNames ==
  ASSUME NEW source, NEW owner, NamesInv(source, owner), ParseFunc
  PROVE  NamesInv(source, owner)'
<1>1. CASE Reject
  BY <1>1 DEF Reject, NamesInv, frameVars, callVars
<1>2. CASE ~Reject
  <2>1. /\ macros' = With(macros, Item.name, [params |-> Item.params, body |-> Item.body])
        /\ Goes /\ UNCHANGED <<calls, expanded, known, out>> /\ pos <= Len(text) /\ Item.op = "func"
    BY <1>2 DEF ParseFunc, At, Item
  <2>2. Item \in FuncsOf(source)
    BY <2>1, ItemInHand DEF ItemOK
  <2>3. ASSUME NEW name \in DOMAIN macros'
        PROVE  \E f \in FuncsOf(source) :
                 f.name = name /\ macros'[name] = [params |-> f.params, body |-> f.body]
    <3>1. CASE name = Item.name
      BY <2>1, <2>2, <3>1 DEF With
    <3>2. CASE name # Item.name
      <4>1. name \in DOMAIN macros /\ macros'[name] = macros[name]
        BY <2>1, <2>3, <3>2 DEF With
      <4> QED
        BY <4>1 DEF NamesInv
    <3> QED
      BY <3>1, <3>2
  <2>4. pos' \in Nat \ {0}
    BY <2>1 DEF NamesInv, Goes
  <2> QED
    BY <2>1, <2>3, <2>4 DEF NamesInv, Goes
<1> QED
  BY <1>1, <1>2

LEMMA WordsKeepNames ==
  ASSUME NEW source, NEW owner, NamesInv(source, owner), ParseDecl \/ LeaveLoop \/ ParseUse
  PROVE  NamesInv(source, owner)'
<1>1. CASE UNCHANGED <<frameVars, callVars, out>>
  BY <1>1 DEF NamesInv, frameVars, callVars
<1>2. CASE LeaveLoop
  BY <1>2, GoingOn DEF LeaveLoop, callVars
<1>3. CASE ~UNCHANGED <<frameVars, callVars, out>> /\ ~LeaveLoop
  <2>1. pos <= Len(text) /\ Item.op # "func" /\ Goes /\ UNCHANGED callVars /\ out' = out \o Words
    BY <1>3 DEF ParseDecl, ParseUse, Reject, At, Item, callVars
  <2>2. IsSequence(Words) /\ \A i \in 1..Len(Words) : WordOK(Words[i], source, owner)
    BY <2>1, ItemInHand DEF ItemOK, Words
  <2> QED
    BY <2>1, <2>2, GoingOn
<1> QED
  BY <1>1, <1>2, <1>3

\* A call gets a number of its own, and so do the names of its locals.
LEMMA CallKeepsNames ==
  ASSUME NEW source, Hygienic(source), NEW owner, NamesInv(source, owner), Stacks, ParseCall
  PROVE  \E more : NamesInv(source, more)'
<1>1. CASE Reject
  BY <1>1 DEF Reject, NamesInv, frameVars, callVars
<1>2. CASE ~Reject
  <2> DEFINE name == Words[1].name
             args == Tail(Words)
             params == macros[name].params
             body == macros[name].body
             mapping == Mapping(name, params, args, body, calls + 1)
             caller == [text |-> text, pos |-> pos + 1]
  <2>1. /\ pos <= Len(text) /\ Item.op = "call" /\ name \in DOMAIN macros /\ Len(args) = Len(params)
        /\ calls' = calls + 1 /\ callers' = Append(callers, caller)
        /\ text' = Substituted(body, mapping) /\ pos' = 1
        /\ UNCHANGED <<macros, out>>
    BY <1>2 DEF ParseCall, At, Item
  <2>2. PICK f \in FuncsOf(source) : f.name = name /\ macros[name] = [params |-> f.params, body |-> f.body]
    BY <2>1 DEF NamesInv
  <2>3. params = f.params /\ body = f.body /\ f.name = name
    BY <2>2
  <2>4. PICK more :
          /\ calls \in Nat /\ calls' \in Nat /\ more \in [1..calls' -> FuncsOf(source)]
          /\ calls + 1 \in DOMAIN more /\ more[calls + 1] = f /\ Extends(owner, more)
    <3> DEFINE extended == [id \in 1..calls + 1 |-> IF id = calls + 1 THEN f ELSE owner[id]]
    <3>1. /\ calls \in Nat /\ calls' \in Nat /\ extended \in [1..calls' -> FuncsOf(source)]
          /\ calls + 1 \in DOMAIN extended /\ extended[calls + 1] = f /\ Extends(owner, extended)
      BY <2>1 DEF NamesInv, Extends
    <3> HIDE DEF extended
    <3> QED
      BY <3>1
  <2>5. /\ IsSequence(Words) /\ Len(Words) > 0
        /\ \A i \in 1..Len(Words) : WordOK(Words[i], source, owner)
        /\ \A i \in 2..Len(Words) : Words[i].place \in {"plain", "sum"}
    BY <2>1, ItemInHand DEF ItemOK, Words
  <2>6. MappingOK(mapping, source, more)
    <3>1. MappingOK(Mapping(f.name, f.params, args, f.body, calls + 1), source, more)
      BY <2>1, <2>3, <2>4, <2>5, CallMapping
    <3> QED
      BY <2>3, <3>1
  <2>7. TextOK(text', source, more)
    <3>1. IsSequence(f.body)
      BY DEF Hygienic, IsHygienic
    <3>2. Range(f.body) \subseteq ItemsOf(source)
      BY DEF ItemsOf
    <3> QED
      BY <2>1, <2>3, <2>6, <3>1, <3>2, SubstitutionNames
  <2>8. ASSUME NEW k \in 1..Len(callers')
        PROVE  callers'[k].pos \in Nat \ {0} /\ TextOK(callers'[k].text, source, more)
    <3>1. /\ Len(callers') = Len(callers) + 1 /\ Len(callers) \in Nat
          /\ \A i \in 1..Len(callers) : callers'[i] = callers[i]
          /\ callers'[Len(callers) + 1] = caller
      BY <2>1, AppendedRange DEF Stacks
    <3>2. CASE k \in 1..Len(callers)
      BY <2>4, <3>1, <3>2, TextStaysOK DEF NamesInv
    <3>3. CASE k = Len(callers) + 1
      <4>1. caller.pos \in Nat \ {0} /\ TextOK(caller.text, source, more)
        BY <2>4, TextStaysOK DEF NamesInv
      <4> QED
        BY <3>1, <3>3, <4>1
    <3> QED
      BY <3>1, <3>2, <3>3
  <2>9. /\ IsSequence(out') /\ \A i \in 1..Len(out') : WordOK(out'[i], source, more)
        /\ \A n \in DOMAIN macros' :
             \E g \in FuncsOf(source) : g.name = n /\ macros'[n] = [params |-> g.params, body |-> g.body]
    <3>1. \A i \in 1..Len(out) : WordOK(out[i], source, more)
      BY <2>4, WordStaysOK DEF NamesInv
    <3> QED
      BY <2>1, <3>1 DEF NamesInv
  <2>10. NamesInv(source, more)'
    <3>1. calls' \in Nat /\ more \in [1..calls' -> FuncsOf(source)] /\ pos' \in Nat \ {0}
      BY <2>1, <2>4
    <3> QED
      BY <3>1, <2>7, <2>8, <2>9 DEF NamesInv
  <2> QED
    BY <2>10
<1> QED
  BY <1>1, <1>2

LEMMA EndKeepsNames ==
  ASSUME NEW source, NEW owner, NamesInv(source, owner), Stacks, EndOfText
  PROVE  NamesInv(source, owner)'
<1>1. CASE callers = <<>>
  BY <1>1 DEF EndOfText, NamesInv, frameVars, callVars
<1>2. CASE callers # <<>>
  <2>1. /\ callers' = Front(callers) /\ text' = Last(callers).text /\ pos' = Last(callers).pos
        /\ UNCHANGED <<callVars, out>>
    BY <1>2 DEF EndOfText
  <2>2. Len(callers) > 0 /\ Len(callers) \in Nat /\ DOMAIN callers = 1..Len(callers)
    BY <1>2 DEF Stacks
  <2>3. pos' \in Nat \ {0} /\ TextOK(text', source, owner)
    BY <2>1, <2>2 DEF NamesInv, Last
  <2>4. /\ Len(callers') = Len(callers) - 1
        /\ \A k \in 1..Len(callers') : k \in 1..Len(callers) /\ callers'[k] = callers[k]
    <3>1. callers \in Seq(Range(callers))
      BY DEF Stacks
    <3>2. Len(Front(callers)) = Len(callers) - 1 /\ \A k \in 1..Len(callers) - 1 : Front(callers)[k] = callers[k]
      BY <2>2, <3>1, FrontOfSeq
    <3> QED
      BY <2>1, <2>2, <3>2
  <2> QED
    BY <2>1, <2>3, <2>4 DEF NamesInv, callVars
<1> QED
  BY <1>1, <1>2


NamesKnown == \E source \in Sources : \E owner : NamesInv(source, owner)

LEMMA NamesInit ==
  ASSUME \A source \in Sources : Hygienic(source), Init
  PROVE  NamesKnown
<1>1. PICK source \in Sources : text = Substituted(source, <<>>)
  BY DEF Init
<1> DEFINE owner == [id \in {} |-> id]
<1>2. TextOK(text, source, owner)
  <2>1. IsSequence(source) /\ Range(source) \subseteq ItemsOf(source) \cup FuncsOf(source)
    BY DEF Hygienic, IsHygienic, ItemsOf
  <2>2. MappingOK(<<>>, source, owner)
    BY EmptyStack DEF MappingOK
  <2> QED
    BY <1>1, <2>1, <2>2, SubstitutionNames
<1>3. owner \in [1..0 -> FuncsOf(source)]
  OBVIOUS
<1>4. /\ pos = 1 /\ callers = <<>> /\ macros = <<>> /\ calls = 0 /\ out = <<>>
      /\ DOMAIN macros = {} /\ Len(callers) = 0 /\ Len(out) = 0 /\ IsSequence(out)
  BY EmptyStack DEF Init, IsSequence
<1> HIDE DEF owner
<1>5. NamesInv(source, owner)
  BY <1>2, <1>3, <1>4 DEF NamesInv
<1> QED
  BY <1>5 DEF NamesKnown

LEMMA NamesStep ==
  ASSUME \A source \in Sources : Hygienic(source), Inv, NamesKnown, [Next]_macroVars
  PROVE  NamesKnown'
<1>1. PICK source \in Sources : \E owner : NamesInv(source, owner)
  BY DEF NamesKnown
<1>2. PICK owner : NamesInv(source, owner)
  BY <1>1
<1>3. Hygienic(source) /\ Stacks
  BY DEF Inv
<1>4. \E more : NamesInv(source, more)'
  <2>1. CASE ParseFunc
    BY <1>2, <2>1, FuncKeepsNames
  <2>2. CASE ParseDecl \/ LeaveLoop \/ ParseUse
    BY <1>2, <2>2, WordsKeepNames
  <2>3. CASE ParseCall
    BY <1>2, <1>3, <2>3, CallKeepsNames
  <2>4. CASE EndOfText
    BY <1>2, <1>3, <2>4, EndKeepsNames
  <2>5. CASE UNCHANGED macroVars
    BY <1>2, <2>5 DEF NamesInv, macroVars, frameVars, callVars
  <2> QED
    BY <2>1, <2>2, <2>3, <2>4, <2>5 DEF Next
<1> QED
  BY <1>4 DEF NamesKnown

\* Two names in use are spelt the same just when they mean the same.
LEMMA SpeltAsMeant ==
  ASSUME NEW source, Hygienic(source), NEW owner, NEW n \in Nat, owner \in [1..n -> FuncsOf(source)],
         NEW a, NEW b, NEW r, NEW s, Denotes(a, r, source, owner), Denotes(b, s, source, owner)
  PROVE  (a = b <=> r = s) /\ a # "value" /\ r[1] # "text"
<1> DEFINE Script(x, m) == m = <<"script", 0, x>> /\ x \in NamesOf(source)
           Local(x, m, id, v) == m = <<"local", id, v>> /\ x = Renamed(owner[id].name, id, v)
<1>1. ASSUME NEW id \in 1..n, NEW v \in Locals(owner[id].body)
      PROVE  /\ Renamed(owner[id].name, id, v) \notin NamesOf(source) \cup {"value"}
             /\ \A jd \in 1..n : \A w \in Locals(owner[jd].body) :
                  Renamed(owner[id].name, id, v) = Renamed(owner[jd].name, jd, w) => id = jd /\ v = w
  <2>1. 1..n \subseteq Nat \ {0} /\ \A k \in 1..n : owner[k] \in FuncsOf(source)
    OBVIOUS
  <2>2. \A f \in FuncsOf(source), k \in Nat \ {0} : \A u \in Locals(f.body) :
          /\ Renamed(f.name, k, u) \notin NamesOf(source) \cup {"value"}
          /\ \A g \in FuncsOf(source), l \in Nat \ {0} : \A w \in Locals(g.body) :
               Renamed(f.name, k, u) = Renamed(g.name, l, w) => k = l /\ u = w
    BY DEF Hygienic, IsHygienic
  <2>3. /\ Renamed(owner[id].name, id, v) \notin NamesOf(source) \cup {"value"}
        /\ \A g \in FuncsOf(source), l \in Nat \ {0} : \A w \in Locals(g.body) :
             Renamed(owner[id].name, id, v) = Renamed(g.name, l, w) => id = l /\ v = w
    <3> DEFINE f == owner[id]
    <3>1. f \in FuncsOf(source) /\ id \in Nat \ {0} /\ v \in Locals(f.body)
      BY <2>1
    <3> HIDE DEF f
    <3>2. /\ Renamed(f.name, id, v) \notin NamesOf(source) \cup {"value"}
          /\ \A g \in FuncsOf(source), l \in Nat \ {0} : \A w \in Locals(g.body) :
               Renamed(f.name, id, v) = Renamed(g.name, l, w) => id = l /\ v = w
      BY <2>2, <3>1
    <3> QED
      BY <3>2 DEF f
  <2> QED
    BY <2>1, <2>3
<1>2. "value" \notin NamesOf(source)
  BY DEF Hygienic, IsHygienic
<1>3. CASE Script(a, r) /\ Script(b, s)
  BY <1>2, <1>3
<1>4. CASE Script(a, r) /\ \E id \in 1..n : \E v \in Locals(owner[id].body) : Local(b, s, id, v)
  <2>1. PICK id \in 1..n : \E v \in Locals(owner[id].body) : Local(b, s, id, v)
    BY <1>4
  <2>2. PICK v \in Locals(owner[id].body) : Local(b, s, id, v)
    BY <2>1
  <2>3. b \notin NamesOf(source) \cup {"value"}
    BY <1>1, <2>2
  <2> QED
    BY <1>2, <1>4, <2>2, <2>3
<1>5. CASE Script(b, s) /\ \E id \in 1..n : \E v \in Locals(owner[id].body) : Local(a, r, id, v)
  <2>1. PICK id \in 1..n : \E v \in Locals(owner[id].body) : Local(a, r, id, v)
    BY <1>5
  <2>2. PICK v \in Locals(owner[id].body) : Local(a, r, id, v)
    BY <2>1
  <2>3. a \notin NamesOf(source) \cup {"value"}
    BY <1>1, <2>2
  <2> QED
    BY <1>2, <1>5, <2>2, <2>3
<1>6. CASE /\ \E id \in 1..n : \E v \in Locals(owner[id].body) : Local(a, r, id, v)
           /\ \E id \in 1..n : \E v \in Locals(owner[id].body) : Local(b, s, id, v)
  <2>1. PICK id \in 1..n : \E v \in Locals(owner[id].body) : Local(a, r, id, v)
    BY <1>6
  <2>2. PICK v \in Locals(owner[id].body) : Local(a, r, id, v)
    BY <2>1
  <2>3. PICK jd \in 1..n : \E w \in Locals(owner[jd].body) : Local(b, s, jd, w)
    BY <1>6
  <2>4. PICK w \in Locals(owner[jd].body) : Local(b, s, jd, w)
    BY <2>3
  <2>5. a = b => id = jd /\ v = w
    BY <1>1, <2>2, <2>4
  <2>6. r = s => id = jd /\ v = w
    BY <2>2, <2>4
  <2>7. a # "value"
    BY <1>1, <2>2
  <2> QED
    BY <2>2, <2>4, <2>5, <2>6, <2>7
<1> QED
  BY <1>3, <1>4, <1>5, <1>6 DEF Denotes

\* Wherever nothing but its macros could confuse the names of a script, they do
\* not: calls inside calls, arguments handed down and the locals of any number
\* of calls each refer to what their author meant, and field names, keys and
\* strings are as written (parser.py:130-169, parser.py:772-816).
THEOREM MacrosAreHygienic ==
  ASSUME \A source \in Sources : IsHygienic(source, Nat \ {0})
  PROVE  Spec => []NamesReferAsWritten
<1>0. \A source \in Sources : Hygienic(source)
  BY DEF Hygienic
<1>1. Init => Inv /\ NamesKnown
  BY <1>0, InvInit, NamesInit
<1>2. Inv /\ NamesKnown /\ [Next]_macroVars => (Inv /\ NamesKnown)'
  BY <1>0, InvStep, NamesStep
<1>3. NamesKnown => NamesReferAsWritten
  <2> SUFFICES ASSUME NamesKnown, NEW i \in DOMAIN out, NEW j \in DOMAIN out
               PROVE  /\ (RefersTo(out[i]) = RefersTo(out[j])) <=> (out[i].means = out[j].means)
                      /\ out[i].place \in OnlyText => out[i].name = out[i].means[3]
    BY DEF NamesReferAsWritten
  <2>1. PICK source \in Sources : \E owner : NamesInv(source, owner)
    BY DEF NamesKnown
  <2>2. PICK owner : NamesInv(source, owner)
    BY <2>1
  <2> DEFINE v == out[i]
             w == out[j]
  <2>3. WordOK(v, source, owner) /\ WordOK(w, source, owner)
    BY <2>2 DEF NamesInv, IsSequence
  <2>4. calls \in Nat /\ owner \in [1..calls -> FuncsOf(source)] /\ Hygienic(source)
    BY <1>0, <2>2 DEF NamesInv
  <2>5. CASE v.place \in OnlyText /\ w.place \in OnlyText
    BY <2>3, <2>5 DEF WordOK, RefersTo
  <2>6. CASE v.place \in OnlyText /\ w.place \notin OnlyText
    <3>1. w.name # "value" /\ w.means[1] # "text"
      BY <2>3, <2>4, <2>6, SpeltAsMeant DEF WordOK
    <3> QED
      BY <2>3, <2>6, <3>1 DEF WordOK, RefersTo
  <2>7. CASE v.place \notin OnlyText /\ w.place \in OnlyText
    <3>1. v.name # "value" /\ v.means[1] # "text"
      BY <2>3, <2>4, <2>7, SpeltAsMeant DEF WordOK
    <3> QED
      BY <2>3, <2>7, <3>1 DEF WordOK, RefersTo
  <2>8. CASE v.place \notin OnlyText /\ w.place \notin OnlyText
    <3>1. v.name # "value" /\ w.name # "value" /\ (v.name = w.name <=> v.means = w.means)
      BY <2>3, <2>4, <2>8, SpeltAsMeant DEF WordOK
    <3> QED
      BY <2>8, <3>1 DEF RefersTo
  <2> QED
    BY <2>5, <2>6, <2>7, <2>8
<1> QED
  BY <1>1, <1>2, <1>3, PTL DEF Spec
=============================================================================
