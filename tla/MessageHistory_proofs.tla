----------------------- MODULE MessageHistory_proofs -----------------------
(***************************************************************************)
(* Message assembly implements Ownership: for every schema and every set   *)
(* of assignments, in whatever order they are made and the clock moves,    *)
(* what is published is what the log of writes and sends says.             *)
(***************************************************************************)
EXTENDS MessageHistory, Message_proofs, FiniteSetTheorems

Base == IF HasSchema THEN Schema ELSE EmptyObject

-----------------------------------------------------------------------------
(* Ownership speaks of paths and trees in the same words. *)

LEMMA SamePrefix ==
  ASSUME NEW p, NEW q
  PROVE  /\ Authored!IsPrefix(p, q) <=> IsPrefix(p, q)
         /\ Authored!IsStrictPrefix(p, q) <=> IsStrictPrefix(p, q)
BY DEF Authored!IsPrefix, IsPrefix, Authored!IsStrictPrefix, IsStrictPrefix

LEMMA SameOverlap ==
  ASSUME NEW p, NEW q
  PROVE  Authored!Overlap(p, q) <=> Overlap(p, q)
BY SamePrefix DEF Authored!Overlap, Overlap

LEMMA SameSuffix ==
  ASSUME NEW p, NEW q
  PROVE  Authored!Suffix(p, q) = Suffix(p, q)
BY DEF Authored!Suffix, Suffix

LEMMA SamePrefixes ==
  ASSUME NEW p
  PROVE  Authored!Prefixes(p) = Prefixes(p) /\ Authored!StrictPrefixes(p) = StrictPrefixes(p)
BY DEF Authored!Prefixes, Prefixes, Authored!StrictPrefixes, StrictPrefixes

LEMMA SameNodes ==
  /\ Authored!Object = Object
  /\ Authored!EmptyObject = EmptyObject
  /\ \A type, data : Authored!Leaf(type, data) = Leaf(type, data)
BY DEF Authored!Object, Object, Authored!EmptyObject, EmptyObject, Authored!Leaf, Leaf

LEMMA SameMax ==
  ASSUME NEW S
  PROVE  Authored!Max(S) = Max(S) /\ Authored!Min(S) = Min(S)
BY DEF Authored!Max, Max, Authored!Min, Min

LEMMA SameCardinality ==
  ASSUME NEW S
  PROVE  Authored!Cardinality(S) = Cardinality(S)
BY DEF Authored!Cardinality, Cardinality

LEMMA SameOverlay ==
  ASSUME NEW tree, NEW values
  PROVE  Authored!Overlay(tree, values) = Overlay(tree, values)
<1>1. \A p, q : Authored!IsPrefix(p, q) <=> IsPrefix(p, q)
  BY SamePrefix
<1>2. \A p, q : Authored!Suffix(p, q) = Suffix(p, q)
  BY SameSuffix
<1>3. \A p : Authored!StrictPrefixes(p) = StrictPrefixes(p)
  BY SamePrefixes
<1>4. Authored!Object = Object
  BY SameNodes
<1> DEFINE stored == UNION {{p \o r : r \in DOMAIN values[p]} : p \in DOMAIN values}
           above == UNION {StrictPrefixes(p) : p \in DOMAIN values}
           kept == {q \in DOMAIN tree : \A p \in DOMAIN values : ~IsPrefix(p, q)}
           owner(q) == CHOOSE p \in DOMAIN values : IsPrefix(p, q)
           theirs == {q \in DOMAIN tree : \A p \in DOMAIN values : ~Authored!IsPrefix(p, q)}
           theirAbove == UNION {Authored!StrictPrefixes(p) : p \in DOMAIN values}
           theirOwner(q) == CHOOSE p \in DOMAIN values : Authored!IsPrefix(p, q)
           valueAt(q) == values[owner(q)][Suffix(owner(q), q)]
           theirValueAt(q) == values[theirOwner(q)][Authored!Suffix(theirOwner(q), q)]
<1>5. Overlay(tree, values) = [q \in stored \cup above \cup kept |->
         IF q \in stored THEN valueAt(q) ELSE IF q \in above THEN Object ELSE tree[q]]
  BY DEF Overlay
<1>6. Authored!Overlay(tree, values) = [q \in stored \cup theirAbove \cup theirs |->
         IF q \in stored THEN theirValueAt(q) ELSE IF q \in theirAbove THEN Authored!Object ELSE tree[q]]
  BY DEF Authored!Overlay
<1>7. theirAbove = above
  BY <1>3
<1>8. theirs = kept
  BY <1>1
<1>9. ASSUME NEW q PROVE theirValueAt(q) = valueAt(q)
  <2>1. theirOwner(q) = owner(q)
    BY <1>1
  <2>2. Authored!Suffix(theirOwner(q), q) = Suffix(theirOwner(q), q)
    BY <1>2
  <2> QED
    BY <2>1, <2>2
<1> HIDE DEF stored, above, kept, theirs, theirAbove, valueAt, theirValueAt
<1> QED
  BY <1>4, <1>5, <1>6, <1>7, <1>8, <1>9

LEMMA SameEnvelope ==
  ASSUME NEW p, NEW tree
  PROVE  Authored!EnvelopeAt(p, tree) = EnvelopeAt(p, tree)
BY SameOverlay, SameNodes DEF Authored!EnvelopeAt, EnvelopeAt, Authored!Envelope, Envelope,
   Authored!IsObject, IsObject

-----------------------------------------------------------------------------
(* The log. *)

IsLog(l) == \E S : l \in Seq(S)

EntryOK(e) ==
  /\ e.op \in {"static", "live", "claim", "send"}
  /\ e.path \in Path
  /\ e.at \in Nat
  /\ e.op = "static" => IsTree(e.value)
  /\ e.op = "live" => <<e.path, e.value>> \in Placement /\ e.value.op = "live"

EntriesOK == IsLog(log) /\ \A i \in DOMAIN log : EntryOK(log[i])

\* One more entry.
LEMMA Appended ==
  ASSUME NEW l, IsLog(l), NEW e
  PROVE  /\ IsLog(Append(l, e))
         /\ Len(l) \in Nat /\ DOMAIN l = 1..Len(l)
         /\ Len(Append(l, e)) = Len(l) + 1
         /\ DOMAIN Append(l, e) = 1..(Len(l) + 1)
         /\ \A i \in DOMAIN l : i \in DOMAIN Append(l, e) /\ Append(l, e)[i] = l[i]
         /\ Append(l, e)[Len(l) + 1] = e
         /\ SubSeq(Append(l, e), 1, Len(l)) = l
<1>1. PICK S : l \in Seq(S)
  BY DEF IsLog
<1> DEFINE T == S \cup {e}
<1>2. l \in Seq(T) /\ e \in T
  BY <1>1
<1> HIDE DEF T
<1>3. /\ Append(l, e) \in Seq(T)
      /\ Len(l) \in Nat /\ DOMAIN l = 1..Len(l)
      /\ Len(Append(l, e)) = Len(l) + 1
      /\ DOMAIN Append(l, e) = 1..(Len(l) + 1)
      /\ \A i \in 1..Len(l) : Append(l, e)[i] = l[i]
      /\ Append(l, e)[Len(l) + 1] = e
  BY <1>2
<1>4. SubSeq(Append(l, e), 1, Len(l)) = l
  <2>1. /\ SubSeq(Append(l, e), 1, Len(l)) \in Seq(T)
        /\ Len(SubSeq(Append(l, e), 1, Len(l))) = Len(l)
        /\ \A i \in 1..Len(l) : SubSeq(Append(l, e), 1, Len(l))[i] = Append(l, e)[i]
    BY <1>3
  <2> QED
    BY <1>2, <1>3, <2>1, SeqEqual
<1> QED
  BY <1>3, <1>4 DEF IsLog

-----------------------------------------------------------------------------
(* Static writes.  What the log says of path q, said of the tree `m`: the    *)
(* last static write that touches q decides, and without one the base.  The  *)
(* last one is named, not chosen, so that a later one can take its place.    *)

TouchedBy(e, q) ==
  e.op = "static" /\ (IsPrefix(e.path, q) \/ IsStrictPrefix(q, e.path))

ShownBy(e, q, m) ==
  /\ IsStrictPrefix(q, e.path) => q \in DOMAIN m /\ m[q] = Object
  /\ ~IsStrictPrefix(q, e.path) =>
       /\ q \in DOMAIN m <=> Suffix(e.path, q) \in DOMAIN e.value
       /\ q \in DOMAIN m => m[q] = e.value[Suffix(e.path, q)]

FromBase(q, m) ==
  /\ q \in DOMAIN m <=> q \in DOMAIN Base
  /\ q \in DOMAIN m => m[q] = Base[q]

LastToTouch(l, i, q) ==
  /\ i \in DOMAIN l /\ TouchedBy(l[i], q)
  /\ \A j \in DOMAIN l : TouchedBy(l[j], q) => j <= i

Answers(l, q, m) ==
  \/ (\A i \in DOMAIN l : ~TouchedBy(l[i], q)) /\ FromBase(q, m)
  \/ \E i \in DOMAIN l : LastToTouch(l, i, q) /\ ShownBy(l[i], q, m)

StaticsLogged == \A q \in Path : Answers(log, q, msg)

\* An entry that does not touch q.
LEMMA UntouchedAnswers ==
  ASSUME NEW l, IsLog(l), NEW e, NEW q, NEW m, NEW n,
         Answers(l, q, m), ~TouchedBy(e, q),
         q \in DOMAIN n <=> q \in DOMAIN m, q \in DOMAIN n => n[q] = m[q]
  PROVE  Answers(Append(l, e), q, n)
<1> DEFINE k == Append(l, e)
<1>1. /\ Len(l) \in Nat /\ DOMAIN l = 1..Len(l) /\ DOMAIN k = 1..(Len(l) + 1)
      /\ \A i \in DOMAIN l : i \in DOMAIN k /\ k[i] = l[i]
      /\ k[Len(l) + 1] = e
  BY Appended
<1> HIDE DEF k
<1>2. \A j \in DOMAIN k : TouchedBy(k[j], q) => j \in DOMAIN l /\ TouchedBy(l[j], q)
  <2> SUFFICES ASSUME NEW j \in DOMAIN k, TouchedBy(k[j], q) PROVE j \in DOMAIN l /\ TouchedBy(l[j], q)
    OBVIOUS
  <2>1. j = Len(l) + 1 \/ j \in DOMAIN l
    BY <1>1
  <2> QED
    BY <1>1, <2>1
<1>3. CASE (\A i \in DOMAIN l : ~TouchedBy(l[i], q)) /\ FromBase(q, m)
  <2>1. (\A i \in DOMAIN k : ~TouchedBy(k[i], q)) /\ FromBase(q, n)
    BY <1>2, <1>3 DEF FromBase
  <2> QED
    BY <2>1 DEF Answers, k
<1>4. ASSUME NEW i \in DOMAIN l, LastToTouch(l, i, q), ShownBy(l[i], q, m)
      PROVE  Answers(k, q, n)
  <2>1. i \in DOMAIN k /\ k[i] = l[i]
    BY <1>1
  <2>2. LastToTouch(k, i, q)
    BY <1>2, <1>4, <2>1 DEF LastToTouch
  <2>3. ShownBy(k[i], q, n)
    BY <1>4, <2>1 DEF ShownBy
  <2> QED
    BY <2>1, <2>2, <2>3 DEF Answers
<1> QED
  BY <1>3, <1>4 DEF Answers, k

\* An entry that does.
LEMMA TouchedAnswers ==
  ASSUME NEW l, IsLog(l), NEW e, NEW q, NEW n, TouchedBy(e, q), ShownBy(e, q, n)
  PROVE  Answers(Append(l, e), q, n)
<1> DEFINE k == Append(l, e)
<1>1. /\ Len(l) \in Nat /\ DOMAIN k = 1..(Len(l) + 1) /\ k[Len(l) + 1] = e
  BY Appended
<1> HIDE DEF k
<1>2. Len(l) + 1 \in DOMAIN k /\ \A j \in DOMAIN k : j <= Len(l) + 1
  BY <1>1
<1>3. LastToTouch(k, Len(l) + 1, q)
  BY <1>1, <1>2 DEF LastToTouch
<1> QED
  BY <1>1, <1>2, <1>3 DEF Answers, k

\* Storing a value is what its entry says, and changes nothing it does not touch.
LEMMA StoreIsShown ==
  ASSUME NEW m, IsTree(m), NEW p \in Path, NEW tree, IsTree(tree), NEW q \in Path,
         NEW e, e.op = "static", e.path = p, e.value = EnvelopeAt(p, tree)
  PROVE  /\ TouchedBy(e, q) => ShownBy(e, q, Store(m, p, tree))
         /\ ~TouchedBy(e, q) => /\ q \in DOMAIN Store(m, p, tree) <=> q \in DOMAIN m
                                /\ q \in DOMAIN Store(m, p, tree) => Store(m, p, tree)[q] = m[q]
<1> DEFINE values == [x \in {p} |-> tree]
<1>1. IsStrictPrefix(q, p) <=> q \in StrictPrefixes(p)
  BY StrictPrefix DEF IsStrictPrefix
<1>2. CASE p = <<>>
  <2>1. IsPrefix(p, q) /\ Suffix(p, q) = q /\ ~IsStrictPrefix(q, p)
    BY <1>2, RootOfPaths DEF IsStrictPrefix
  <2>2. Store(m, p, tree) = e.value
    BY <1>2 DEF Store, EnvelopeAt
  <2> QED
    BY <2>1, <2>2 DEF TouchedBy, ShownBy
<1>3. CASE p # <<>>
  <2>1. AreValues(values) /\ p \in DOMAIN values /\ values[p] = tree
    BY OneValue
  <2>2. Store(m, p, tree) = Overlay(m, values) /\ e.value = tree
    BY <1>3 DEF Store, EnvelopeAt
  <2>3. DOMAIN values = {p}
    OBVIOUS
  <2> HIDE DEF values
  <2>4. CASE IsPrefix(p, q)
    <3>1. ~IsStrictPrefix(q, p)
      BY <2>4, PrefixOrder DEF IsStrictPrefix
    <3>2. /\ q \in DOMAIN Overlay(m, values) <=> Suffix(p, q) \in DOMAIN values[p]
          /\ q \in DOMAIN Overlay(m, values) => Overlay(m, values)[q] = values[p][Suffix(p, q)]
      BY <2>1, <2>4, OverlayBelow
    <3> QED
      BY <2>1, <2>2, <2>4, <3>1, <3>2 DEF TouchedBy, ShownBy
  <2>5. CASE IsStrictPrefix(q, p)
    <3>1. q \in DOMAIN Overlay(m, values) /\ Overlay(m, values)[q] = Object
      BY <1>1, <2>1, <2>5, OverlayAbove
    <3> QED
      BY <2>2, <2>5, <3>1 DEF TouchedBy, ShownBy
  <2>6. CASE ~IsPrefix(p, q) /\ ~IsStrictPrefix(q, p)
    <3>1. Beside(values, q) /\ q \notin Above(values)
      BY <1>1, <2>3, <2>6 DEF Beside, Above
    <3>2. /\ q \in DOMAIN Overlay(m, values) <=> q \in DOMAIN m
          /\ q \in DOMAIN Overlay(m, values) => Overlay(m, values)[q] = m[q]
      BY <2>1, <3>1, OverlayBeside
    <3> QED
      BY <2>2, <2>6, <3>2 DEF TouchedBy
  <2> QED
    BY <2>4, <2>5, <2>6
<1> QED
  BY <1>2, <1>3

LEMMA StaticAnswers ==
  ASSUME NEW l, IsLog(l), NEW m, IsTree(m), NEW p \in Path, NEW tree, IsTree(tree),
         NEW e, e.op = "static", e.path = p, e.value = EnvelopeAt(p, tree),
         \A q \in Path : Answers(l, q, m)
  PROVE  \A q \in Path : Answers(Append(l, e), q, Store(m, p, tree))
<1> SUFFICES ASSUME NEW q \in Path PROVE Answers(Append(l, e), q, Store(m, p, tree))
  OBVIOUS
<1>1. /\ TouchedBy(e, q) => ShownBy(e, q, Store(m, p, tree))
      /\ ~TouchedBy(e, q) => /\ q \in DOMAIN Store(m, p, tree) <=> q \in DOMAIN m
                             /\ q \in DOMAIN Store(m, p, tree) => Store(m, p, tree)[q] = m[q]
  BY StoreIsShown
<1> QED
  BY <1>1, TouchedAnswers, UntouchedAnswers

LEMMA OtherAnswers ==
  ASSUME NEW l, IsLog(l), NEW m, NEW e, e.op # "static",
         \A q \in Path : Answers(l, q, m)
  PROVE  \A q \in Path : Answers(Append(l, e), q, m)
BY UntouchedAnswers DEF TouchedBy

LEMMA LastIsMax ==
  ASSUME NEW S \in SUBSET Int, NEW i \in S, \A j \in S : j <= i
  PROVE  Authored!Max(S) = i
<1>1. \A x \in S : (\A y \in S : x >= y) => x = i
  OBVIOUS
<1>2. \A y \in S : i >= y
  OBVIOUS
<1>3. (CHOOSE x \in S : \A y \in S : x >= y) = i
  BY <1>1, <1>2
<1> QED
  BY <1>3 DEF Authored!Max

LEMMA BaseIsTree == IsTree(Base)
BY EmptyObjectIsTree, ValueAssumption DEF Base

LEMMA LogIsIndexed ==
  ASSUME NEW l, IsLog(l)
  PROVE  DOMAIN l = 1..Len(l) /\ Len(l) \in Nat /\ DOMAIN l \in SUBSET Int /\ 0 \notin DOMAIN l
<1>1. PICK S : l \in Seq(S)
  BY DEF IsLog
<1> QED
  BY <1>1

\* The tree of which everything the log says is true is Ownership's message.
LEMMA StaticsAreAuthored ==
  ASSUME EntriesOK, IsTree(msg), StaticsLogged
  PROVE  Authored!StaticMessage = msg
<1> DEFINE touching(q) == {i \in DOMAIN log : Authored!Touches(i, q)}
           last(q) == IF touching(q) = {} THEN 0 ELSE Authored!Max(touching(q))
           present(q) == IF last(q) = 0 THEN q \in DOMAIN Base ELSE Authored!Says(last(q), q)
           above(i, q) == Authored!IsStrictPrefix(q, log[i].path)
           at(q) == IF last(q) = 0 THEN Base[q]
                    ELSE IF above(last(q), q) THEN Authored!Object
                    ELSE log[last(q)].value[Authored!Suffix(log[last(q)].path, q)]
           paths == {q \in Authored!StaticPaths : present(q)}
<1>1. Authored!StaticMessage = [q \in paths |-> at(q)]
  BY DEF Authored!StaticMessage, Base
<1>2. ASSUME NEW q
      PROVE  /\ \A i \in DOMAIN log : i \in touching(q) <=> TouchedBy(log[i], q)
             /\ \A i : Authored!Says(i, q) <=>
                         IsStrictPrefix(q, log[i].path) \/ Suffix(log[i].path, q) \in DOMAIN log[i].value
             /\ \A i : above(i, q) <=> IsStrictPrefix(q, log[i].path)
             /\ \A i : Authored!Suffix(log[i].path, q) = Suffix(log[i].path, q)
  <2>1. \A i : /\ Authored!IsPrefix(log[i].path, q) <=> IsPrefix(log[i].path, q)
               /\ Authored!IsStrictPrefix(q, log[i].path) <=> IsStrictPrefix(q, log[i].path)
               /\ Authored!Suffix(log[i].path, q) = Suffix(log[i].path, q)
    BY SamePrefix, SameSuffix
  <2> QED
    BY <2>1 DEF Authored!Touches, Authored!Says, TouchedBy
<1>3. DOMAIN log \in SUBSET Int /\ 0 \notin DOMAIN log
  BY LogIsIndexed DEF EntriesOK
<1>4. ASSUME NEW q \in Path
      PROVE  (present(q) <=> q \in DOMAIN msg) /\ (q \in DOMAIN msg => at(q) = msg[q] /\ q \in Authored!StaticPaths)
  <2>1. CASE (\A i \in DOMAIN log : ~TouchedBy(log[i], q)) /\ FromBase(q, msg)
    <3>1. touching(q) = {} /\ last(q) = 0
      BY <1>2, <2>1
    <3>2. q \in DOMAIN Base => q \in Authored!StaticPaths
      BY DEF Authored!StaticPaths, Base
    <3> QED
      BY <2>1, <3>1, <3>2 DEF FromBase
  <2>2. ASSUME NEW i \in DOMAIN log, LastToTouch(log, i, q), ShownBy(log[i], q, msg)
        PROVE  (present(q) <=> q \in DOMAIN msg) /\ (q \in DOMAIN msg => at(q) = msg[q] /\ q \in Authored!StaticPaths)
    <3>1. touching(q) \in SUBSET Int /\ i \in touching(q) /\ \A j \in touching(q) : j <= i
      BY <1>2, <1>3, <2>2 DEF LastToTouch
    <3>2. last(q) = i /\ i # 0
      <4>1. Authored!Max(touching(q)) = i
        BY <3>1, LastIsMax
      <4> QED
        BY <1>3, <3>1, <4>1
    <3>3. Authored!Object = Object
      BY SameNodes
    <3>4. present(q) <=> IsStrictPrefix(q, log[i].path) \/ Suffix(log[i].path, q) \in DOMAIN log[i].value
      BY <1>2, <3>2
    <3>5. at(q) = IF IsStrictPrefix(q, log[i].path) THEN Object ELSE log[i].value[Suffix(log[i].path, q)]
      BY <1>2, <3>2, <3>3
    <3>6. /\ log[i].op = "static" /\ log[i].path \in Path
          /\ IsPrefix(log[i].path, q) \/ IsStrictPrefix(q, log[i].path)
      BY <2>2 DEF LastToTouch, TouchedBy, EntriesOK, EntryOK
    <3>7. present(q) => q \in Authored!StaticPaths
      <4>1. CASE IsStrictPrefix(q, log[i].path)
        <5>1. q \in StrictPrefixes(log[i].path)
          BY <3>6, <4>1, StrictPrefix DEF IsStrictPrefix
        <5>2. q \in Authored!Prefixes(log[i].path)
          BY <5>1, SamePrefixes DEF StrictPrefixes
        <5> QED
          BY <3>6, <5>2 DEF Authored!StaticPaths
      <4>2. CASE ~IsStrictPrefix(q, log[i].path) /\ present(q)
        <5>1. Suffix(log[i].path, q) \in DOMAIN log[i].value /\ log[i].path \o Suffix(log[i].path, q) = q
          BY <3>4, <3>6, <4>2, SuffixOfPath
        <5>2. q \in {log[i].path \o r : r \in DOMAIN log[i].value}
          BY <5>1
        <5> QED
          BY <3>6, <5>2 DEF Authored!StaticPaths
      <4> QED
        BY <4>1, <4>2
    <3> HIDE DEF present, at
    <3> QED
      BY <2>2, <3>4, <3>5, <3>7 DEF ShownBy
  <2>3. Answers(log, q, msg)
    BY DEF StaticsLogged
  <2> HIDE DEF present, at
  <2> QED
    BY <2>1, <2>2, <2>3 DEF Answers
<1>5. ASSUME NEW q \in Authored!StaticPaths PROVE q \in Path
  <2>1. CASE q \in DOMAIN Base
    BY <2>1, BaseIsTree, TreePaths
  <2>2. ASSUME NEW i \in DOMAIN log, log[i].op = "static", q \in Authored!Prefixes(log[i].path)
        PROVE  q \in Path
    <3>1. log[i].path \in Path
      BY DEF EntriesOK, EntryOK
    <3>2. q \in Prefixes(log[i].path)
      BY <2>2, SamePrefixes
    <3>3. q = log[i].path \/ q \in StrictPrefixes(log[i].path)
      BY <3>2 DEF StrictPrefixes
    <3> QED
      BY <3>1, <3>3, StrictPrefix
  <2>3. ASSUME NEW i \in DOMAIN log, log[i].op = "static", NEW r \in DOMAIN log[i].value, q = log[i].path \o r
        PROVE  q \in Path
    <3>1. log[i].path \in Path /\ IsTree(log[i].value)
      BY <2>3 DEF EntriesOK, EntryOK
    <3> QED
      BY <2>3, <3>1, TreePaths, SuffixOfExtended
  <2> QED
    BY <2>1, <2>2, <2>3 DEF Authored!StaticPaths, Base
<1>6. paths = DOMAIN msg
  BY <1>4, <1>5, TreePaths
<1>7. \A q \in DOMAIN msg : at(q) = msg[q]
  BY <1>4, TreePaths
<1> HIDE DEF paths, at
<1> QED
  BY <1>1, <1>6, <1>7 DEF IsTree

-----------------------------------------------------------------------------
(* Live bindings.  Entry i is in force while nothing written since overlaps  *)
(* it; since then its block has counted the sends, and its timer has run     *)
(* from the bind or from the first send after it.                            *)

Writes(e) == e.op \in {"static", "live", "claim"}

InForce(l, i) ==
  /\ i \in DOMAIN l /\ l[i].op = "live"
  /\ \A j \in DOMAIN l : j > i /\ Writes(l[j]) => ~Overlap(l[i].path, l[j].path)

Sends(l, i) == {j \in DOMAIN l : j > i /\ l[j].op = "send"}

Counted(l, i, k) == IsFiniteSet(Sends(l, i)) /\ Cardinality(Sends(l, i)) = k

FirstSend(l, i, f) == f \in Sends(l, i) /\ \A j \in Sends(l, i) : f <= j

RunsFrom(l, i, offset) ==
  IF l[i].value.timer \in l[i].value.reads THEN offset = l[i].at
  ELSE \/ Sends(l, i) = {} /\ offset = Unlatched
       \/ \E f \in DOMAIN l : FirstSend(l, i, f) /\ offset = l[f].at

BindingsLogged ==
  /\ \A p \in DOMAIN live_bindings : \E i \in DOMAIN log : InForce(log, i) /\ log[i].path = p
  /\ \A i \in DOMAIN log : InForce(log, i) =>
       log[i].path \in DOMAIN live_bindings /\ live_bindings[log[i].path] = log[i].value

CountersLogged ==
  \A i \in DOMAIN log : InForce(log, i) => Counted(log, i, statics[log[i].value.timer])

\* Apart from the blocks that an assignment under way has given a new timer.
StartsLogged(names) ==
  \A i \in DOMAIN log :
    InForce(log, i) /\ log[i].value.timer \in log[i].value.bodyReads
                    /\ log[i].value.timer \notin names =>
      RunsFrom(log, i, timers[log[i].value.timer].offset)

LiveLogged(names) == BindingsLogged /\ CountersLogged /\ StartsLogged(names)

LEMMA MoreInForce ==
  ASSUME NEW l, IsLog(l), NEW e, NEW i
  PROVE  InForce(Append(l, e), i) <=>
           \/ InForce(l, i) /\ (Writes(e) => ~Overlap(l[i].path, e.path))
           \/ i = Len(l) + 1 /\ e.op = "live"
<1> DEFINE k == Append(l, e)
<1>1. /\ Len(l) \in Nat /\ DOMAIN l = 1..Len(l) /\ DOMAIN k = 1..(Len(l) + 1)
      /\ \A j \in DOMAIN l : j \in DOMAIN k /\ k[j] = l[j]
      /\ k[Len(l) + 1] = e
  BY Appended
<1> HIDE DEF k
<1>2. CASE i \in DOMAIN l
  <2>1. k[i] = l[i] /\ i \in DOMAIN k /\ i < Len(l) + 1
    BY <1>1, <1>2
  <2>2. (\A j \in DOMAIN k : j > i /\ Writes(k[j]) => ~Overlap(k[i].path, k[j].path)) <=>
          /\ \A j \in DOMAIN l : j > i /\ Writes(l[j]) => ~Overlap(l[i].path, l[j].path)
          /\ Writes(e) => ~Overlap(l[i].path, e.path)
    <3>1. \A j \in DOMAIN k : j \in DOMAIN l \/ j = Len(l) + 1
      BY <1>1
    <3>2. Len(l) + 1 \in DOMAIN k /\ Len(l) + 1 > i
      BY <1>1, <2>1
    <3> QED
      BY <1>1, <2>1, <3>1, <3>2
  <2> QED
    BY <1>2, <2>1, <2>2 DEF InForce, k
<1>3. CASE i = Len(l) + 1
  <2>1. k[i] = e /\ i \in DOMAIN k /\ i \notin DOMAIN l
    BY <1>1, <1>3
  <2>2. \A j \in DOMAIN k : ~(j > i)
    BY <1>1, <1>3
  <2> QED
    BY <1>3, <2>1, <2>2 DEF InForce, k
<1>4. CASE i \notin DOMAIN l /\ i # Len(l) + 1
  <2>1. i \notin DOMAIN k
    BY <1>1, <1>4
  <2> QED
    BY <1>4, <2>1 DEF InForce, k
<1> QED
  BY <1>2, <1>3, <1>4

LEMMA MoreSends ==
  ASSUME NEW l, IsLog(l), NEW e
  PROVE  /\ \A i \in DOMAIN l :
              Sends(Append(l, e), i) = Sends(l, i) \cup IF e.op = "send" THEN {Len(l) + 1} ELSE {}
         /\ Sends(Append(l, e), Len(l) + 1) = {}
<1> DEFINE k == Append(l, e)
<1>1. /\ Len(l) \in Nat /\ DOMAIN l = 1..Len(l) /\ DOMAIN k = 1..(Len(l) + 1)
      /\ \A j \in DOMAIN l : j \in DOMAIN k /\ k[j] = l[j]
      /\ k[Len(l) + 1] = e
  BY Appended
<1> HIDE DEF k
<1>2. ASSUME NEW i \in DOMAIN l
      PROVE  Sends(k, i) = Sends(l, i) \cup IF e.op = "send" THEN {Len(l) + 1} ELSE {}
  <2>1. \A j : j \in DOMAIN k <=> j \in DOMAIN l \/ j = Len(l) + 1
    BY <1>1
  <2>2. Len(l) + 1 > i
    BY <1>1
  <2> QED
    BY <1>1, <2>1, <2>2 DEF Sends
<1>3. \A j \in DOMAIN k : ~(j > Len(l) + 1)
  BY <1>1
<1> QED
  BY <1>2, <1>3 DEF Sends, k

\* An entry in force keeps what it has when something else is written.
LEMMA MoreWritten ==
  ASSUME NEW l, IsLog(l), NEW e, e.op # "send", NEW i \in DOMAIN l
  PROVE  /\ Append(l, e)[i] = l[i] /\ Sends(Append(l, e), i) = Sends(l, i)
         /\ \A n : Counted(l, i, n) => Counted(Append(l, e), i, n)
         /\ \A offset : RunsFrom(l, i, offset) => RunsFrom(Append(l, e), i, offset)
<1>1. Append(l, e)[i] = l[i] /\ \A f \in DOMAIN l : f \in DOMAIN Append(l, e) /\ Append(l, e)[f] = l[f]
  BY Appended
<1>2. Sends(Append(l, e), i) = Sends(l, i)
  <2>1. Sends(Append(l, e), i) = Sends(l, i) \cup IF e.op = "send" THEN {Len(l) + 1} ELSE {}
    BY MoreSends
  <2> QED
    BY <2>1
<1> QED
  BY <1>1, <1>2 DEF Counted, RunsFrom, FirstSend

\* A block just bound has not counted anything, and its timer runs when its
\* initialisers have read it.
LEMMA JustBound ==
  ASSUME NEW l, IsLog(l), NEW e, e.op = "live"
  PROVE  /\ Append(l, e)[Len(l) + 1] = e
         /\ Counted(Append(l, e), Len(l) + 1, 0)
         /\ RunsFrom(Append(l, e), Len(l) + 1, IF e.value.timer \in e.value.reads THEN e.at ELSE Unlatched)
<1>1. Append(l, e)[Len(l) + 1] = e /\ Sends(Append(l, e), Len(l) + 1) = {}
  BY Appended, MoreSends
<1>2. IsFiniteSet({}) /\ Cardinality({}) = 0
  BY FS_EmptySet
<1> QED
  BY <1>1, <1>2 DEF Counted, RunsFrom

\* A send counts, and starts the timers that it reads.
LEMMA JustSent ==
  ASSUME NEW l, IsLog(l), NEW e, e.op = "send", NEW i \in DOMAIN l,
         \A f \in DOMAIN l : l[f].at # Unlatched
  PROVE  /\ Append(l, e)[i] = l[i]
         /\ \A n \in Nat : Counted(l, i, n) => Counted(Append(l, e), i, n + 1)
         /\ \A offset : RunsFrom(l, i, offset) =>
              RunsFrom(Append(l, e), i, IF offset = Unlatched THEN e.at ELSE offset)
<1>1. /\ Len(l) \in Nat /\ DOMAIN l = 1..Len(l) /\ DOMAIN Append(l, e) = 1..(Len(l) + 1)
      /\ Append(l, e)[Len(l) + 1] = e /\ Append(l, e)[i] = l[i]
      /\ \A f \in DOMAIN l : f \in DOMAIN Append(l, e) /\ Append(l, e)[f] = l[f]
  BY Appended
<1>2. Sends(Append(l, e), i) = Sends(l, i) \cup {Len(l) + 1}
  BY MoreSends
<1>3. Len(l) + 1 \notin Sends(l, i) /\ \A f \in Sends(l, i) : f \in DOMAIN l /\ f <= Len(l) + 1
  BY <1>1 DEF Sends
<1>4. ASSUME NEW n \in Nat, Counted(l, i, n) PROVE Counted(Append(l, e), i, n + 1)
  <2> DEFINE before == Sends(l, i)
  <2>1. IsFiniteSet(before) /\ Cardinality(before) = n /\ Len(l) + 1 \notin before
    BY <1>3, <1>4 DEF Counted
  <2>2. Sends(Append(l, e), i) = before \cup {Len(l) + 1}
    BY <1>2
  <2> HIDE DEF before
  <2>3. IsFiniteSet(before \cup {Len(l) + 1}) /\ Cardinality(before \cup {Len(l) + 1}) = n + 1
    BY <2>1, FS_AddElement
  <2> QED
    BY <2>2, <2>3 DEF Counted
<1>5. ASSUME NEW offset, RunsFrom(l, i, offset)
      PROVE  RunsFrom(Append(l, e), i, IF offset = Unlatched THEN e.at ELSE offset)
  <2>1. CASE l[i].value.timer \in l[i].value.reads
    BY <1>1, <1>5, <2>1 DEF RunsFrom
  <2>2. CASE l[i].value.timer \notin l[i].value.reads /\ Sends(l, i) = {} /\ offset = Unlatched
    <3>1. FirstSend(Append(l, e), i, Len(l) + 1)
      BY <1>1, <1>2, <2>2 DEF FirstSend
    <3>2. Len(l) + 1 \in DOMAIN Append(l, e)
      BY <1>1
    <3> QED
      BY <1>1, <2>2, <3>1, <3>2 DEF RunsFrom
  <2>3. ASSUME l[i].value.timer \notin l[i].value.reads, NEW f \in DOMAIN l, FirstSend(l, i, f), offset = l[f].at
        PROVE  RunsFrom(Append(l, e), i, IF offset = Unlatched THEN e.at ELSE offset)
    <3>1. FirstSend(Append(l, e), i, f)
      BY <1>2, <1>3, <2>3 DEF FirstSend
    <3> QED
      BY <1>1, <1>5, <2>3, <3>1 DEF RunsFrom
  <2> QED
    BY <1>5, <2>1, <2>2, <2>3 DEF RunsFrom
<1> QED
  BY <1>1, <1>4, <1>5

-----------------------------------------------------------------------------
(* What a send publishes.                                                    *)

LEMMA FirstIsMin ==
  ASSUME NEW S \in SUBSET Int, NEW i \in S, \A j \in S : i <= j
  PROVE  Authored!Min(S) = i
<1>1. \A x \in S : (\A y \in S : x =< y) => x = i
  OBVIOUS
<1>2. \A y \in S : i =< y
  OBVIOUS
<1>3. (CHOOSE x \in S : \A y \in S : x =< y) = i
  BY <1>1, <1>2
<1> QED
  BY <1>3 DEF Authored!Min

\* Where Ownership lets a block's time begin.
StartedAt(i) ==
  IF log[i].value.timer \in log[i].value.reads THEN log[i].at
  ELSE IF Sends(log, i) # {} THEN log[Authored!Min(Sends(log, i))].at ELSE master_t

LEMMA SentSince ==
  ASSUME EntriesOK, NEW i, NEW offset, RunsFrom(log, i, offset), i \in DOMAIN log
  PROVE  StartedAt(i) = IF offset = Unlatched THEN master_t ELSE offset
<1>1. DOMAIN log \in SUBSET Int
  BY LogIsIndexed DEF EntriesOK
<1>2. ASSUME NEW f \in DOMAIN log PROVE log[f].at # Unlatched
  <2>1. log[f].at \in Nat
    BY DEF EntriesOK, EntryOK
  <2> QED
    BY <2>1 DEF Unlatched
<1>3. CASE log[i].value.timer \in log[i].value.reads
  BY <1>2, <1>3 DEF RunsFrom, StartedAt
<1>4. CASE log[i].value.timer \notin log[i].value.reads /\ Sends(log, i) = {} /\ offset = Unlatched
  BY <1>4 DEF StartedAt
<1>5. ASSUME log[i].value.timer \notin log[i].value.reads,
             NEW f \in DOMAIN log, FirstSend(log, i, f), offset = log[f].at
      PROVE  StartedAt(i) = IF offset = Unlatched THEN master_t ELSE offset
  <2>1. Sends(log, i) \in SUBSET Int
    BY <1>1 DEF Sends
  <2>2. Authored!Min(Sends(log, i)) = f
    BY <1>5, <2>1, FirstIsMin DEF FirstSend
  <2> QED
    BY <1>2, <1>5, <2>2 DEF StartedAt, FirstSend
<1> QED
  BY <1>3, <1>4, <1>5 DEF RunsFrom

LEMMA BindingsInForce ==
  ASSUME EntriesOK
  PROVE  /\ \A i : i \in Authored!InForce <=> InForce(log, i)
         /\ \A i : Authored!SendsSince(i) = Sends(log, i)
<1>1. \A p, q : Authored!Overlap(p, q) <=> Overlap(p, q)
  BY SameOverlap
<1> QED
  BY <1>1 DEF Authored!InForce, Authored!IsWrite, Authored!SendsSince, InForce, Writes, Sends

\* What a binding contributes to a send is what Ownership says of its entry.
LEMMA LiveIsAuthored ==
  ASSUME EntriesOK, TimersTypeOK, LiveTimersExist, LiveLogged({}),
         NEW reads, NEW i, InForce(log, i)
  PROVE  /\ log[i].path \in DOMAIN live_bindings
         /\ Authored!LiveMessage(i) =
              LiveValues(Latched(reads \cup ReadAt(DOMAIN live_bindings)))[log[i].path]
<1> DEFINE p == log[i].path
           b == log[i].value
           now == Latched(reads \cup ReadAt(DOMAIN live_bindings))
           startedAt == IF b.timer \in b.reads THEN log[i].at
                        ELSE IF Authored!SendsSince(i) # {} THEN log[Authored!Min(Authored!SendsSince(i))].at
                        ELSE master_t
           age == IF b.timer \in b.bodyReads THEN master_t - startedAt ELSE 0
           count == Cardinality(Authored!SendsSince(i)) + 1
           theirAge == IF b.timer \in b.bodyReads THEN master_t - now[b.timer].offset ELSE 0
<1>1. i \in DOMAIN log /\ p \in DOMAIN live_bindings /\ live_bindings[p] = b
  BY DEF LiveLogged, BindingsLogged, InForce
<1>2. Authored!SendsSince(i) = Sends(log, i)
  BY BindingsInForce
<1>3. count = statics[b.timer] + 1
  BY <1>1, <1>2 DEF LiveLogged, CountersLogged, Counted
<1>4. age = theirAge
  <2>1. CASE b.timer \notin b.bodyReads
    BY <2>1
  <2>2. CASE b.timer \in b.bodyReads
    <3>1. b.timer \in DOMAIN timers
      BY <1>1 DEF LiveTimersExist
    <3>2. b.timer \in reads \cup ReadAt(DOMAIN live_bindings)
      BY <1>1, <2>2 DEF ReadAt
    <3>3. RunsFrom(log, i, timers[b.timer].offset)
      BY <1>1, <2>2 DEF LiveLogged, StartsLogged
    <3>4. now[b.timer].offset = IF timers[b.timer].offset = Unlatched THEN master_t ELSE timers[b.timer].offset
      BY <3>1, <3>2, LatchedReading
    <3>5. startedAt = StartedAt(i)
      BY <1>2 DEF StartedAt
    <3>6. startedAt = now[b.timer].offset
      BY <1>1, <3>3, <3>4, <3>5, SentSince
    <3> HIDE DEF startedAt, now
    <3> QED
      BY <3>6
  <2> QED
    BY <2>1, <2>2
<1>5. Authored!LiveMessage(i) = Authored!EnvelopeAt(p,
        [q \in DOMAIN b.shape |->
           IF b.shape[q].type = "object" THEN Authored!Object
           ELSE Authored!Leaf(b.shape[q].type, <<b.timer, count, age>>)])
  BY SameCardinality DEF Authored!LiveMessage
<1>6. LiveTree(b, now) =
        [q \in DOMAIN b.shape |->
           IF b.shape[q].type = "object" THEN Object
           ELSE Leaf(b.shape[q].type, <<b.timer, statics[b.timer] + 1, theirAge>>)]
  BY DEF LiveTree
<1>7. LiveValues(now)[p] = EnvelopeAt(p, LiveTree(b, now))
  BY <1>1 DEF LiveValues
<1> HIDE DEF age, theirAge, count, now
<1>8. Authored!LiveMessage(i) = Authored!EnvelopeAt(p, LiveTree(b, now))
  BY <1>3, <1>4, <1>5, <1>6, SameNodes
<1>9. Authored!LiveMessage(i) = LiveValues(now)[p]
  BY <1>7, <1>8, SameEnvelope
<1> QED
  BY <1>1, <1>9 DEF now

LEMMA SendIsAuthored ==
  ASSUME EntriesOK, TimersTypeOK, IsTree(msg), LiveTimersExist, StaticsLogged, LiveLogged({}),
         NEW reads
  PROVE  Authored!Message = Overlay(msg, LiveValues(Latched(reads \cup ReadAt(DOMAIN live_bindings))))
<1> DEFINE values == LiveValues(Latched(reads \cup ReadAt(DOMAIN live_bindings)))
           paths == {log[i].path : i \in Authored!InForce}
           owner(p) == CHOOSE i \in Authored!InForce : log[i].path = p
           theirs == [p \in paths |-> Authored!LiveMessage(owner(p))]
<1>1. Authored!Message = Authored!Overlay(Authored!StaticMessage, theirs)
  BY DEF Authored!Message
<1>2. Authored!StaticMessage = msg
  BY StaticsAreAuthored
<1>3. values = [p \in DOMAIN live_bindings |-> values[p]] /\ DOMAIN values = DOMAIN live_bindings
  BY DEF LiveValues
<1>4. paths = DOMAIN live_bindings
  BY BindingsInForce DEF LiveLogged, BindingsLogged, InForce
<1> HIDE DEF values
<1>5. ASSUME NEW p \in paths PROVE Authored!LiveMessage(owner(p)) = values[p]
  <2>1. owner(p) \in Authored!InForce /\ log[owner(p)].path = p
    OBVIOUS
  <2>2. InForce(log, owner(p))
    BY <2>1, BindingsInForce
  <2> HIDE DEF owner
  <2> QED
    BY <2>1, <2>2, LiveIsAuthored DEF values
<1> HIDE DEF paths, owner
<1>6. theirs = values
  BY <1>3, <1>4, <1>5
<1> QED
  BY <1>1, <1>2, <1>6, SameOverlay DEF values

-----------------------------------------------------------------------------
(* Writes take bindings over.                                                *)

HistoryInv ==
  /\ LiveInv /\ ValueInv
  /\ EntriesOK
  /\ StaticsLogged
  /\ PendingApart
  /\ ~halted => LiveLogged(PendingTimers) /\ Unstarted(PendingTimers)

\* A binding that a write at p leaves alone, and its timer with it.
LEMMA LeftAlone ==
  ASSUME HistoryInv, ~halted, NEW p, NEW v, <<p, v>> \in Placement,
         NEW i, InForce(log, i), ~Overlap(log[i].path, p)
  PROVE  LET q == log[i].path
             b == log[i].value
         IN  /\ i \in DOMAIN log
             /\ q \in DOMAIN KeptBindings(p) /\ KeptBindings(p)[q] = b
             /\ KeptStatics(p)[b.timer] = statics[b.timer]
             /\ b.timer \in DOMAIN KeptStatics(p) /\ b.timer \in DOMAIN timers
             /\ b.timer \notin v.timers /\ b.timer \notin v.reads
<1> DEFINE q == log[i].path
<1>1. i \in DOMAIN log /\ q \in DOMAIN live_bindings /\ live_bindings[q] = log[i].value
  BY DEF HistoryInv, LiveLogged, BindingsLogged, InForce
<1>2. q \in DOMAIN KeptBindings(p)
  BY <1>1, Kept, OverlapIsSymmetric DEF Owned
<1> HIDE DEF q
<1>3. LET b == live_bindings[q]
      IN  /\ KeptBindings(p)[q] = b
          /\ b.timer \in DOMAIN KeptStatics(p) /\ KeptStatics(p)[b.timer] = statics[b.timer]
          /\ b.timer \in DOMAIN timers
          /\ b.timer \notin v.timers /\ b.timer \notin v.reads
  BY <1>2, KeptAlone DEF HistoryInv
<1> QED
  BY <1>1, <1>2, <1>3 DEF q

\* A write logged as e, with the timers it reads.
Written(p, v, e) ==
  /\ <<p, v>> \in Placement
  /\ e.path = p /\ Writes(e)
  /\ log' = Append(log, e)
  /\ DOMAIN timers' = DOMAIN timers
  /\ \A n \in DOMAIN timers : n \notin v.reads => timers'[n] = timers[n]
  /\ PendingTimers' \subseteq PendingTimers
  /\ PendingTimers \subseteq PendingTimers' \cup v.timers

\* The entries in force before.
LEMMA OldInForce ==
  ASSUME HistoryInv, ~halted, NEW p, NEW v, NEW e, Written(p, v, e),
         NEW i \in DOMAIN log, InForce(log', i)
  PROVE  LET b == log[i].value
         IN  /\ log'[i] = log[i]
             /\ log[i].path \in DOMAIN KeptBindings(p) /\ KeptBindings(p)[log[i].path] = b
             /\ b.timer \in DOMAIN KeptStatics(p)
             /\ b.timer \notin v.timers
             /\ Counted(log', i, KeptStatics(p)[b.timer])
             /\ b.timer \in b.bodyReads /\ b.timer \notin PendingTimers' =>
                  RunsFrom(log', i, timers'[b.timer].offset)
<1> DEFINE b == log[i].value
<1>1. IsLog(log) /\ log' = Append(log, e) /\ Writes(e) /\ e.path = p /\ e.op # "send"
  BY DEF HistoryInv, EntriesOK, Written, Writes
<1>2. InForce(log, i) /\ ~Overlap(log[i].path, p)
  <2>1. i # Len(log) + 1
    BY <1>1, LogIsIndexed
  <2> QED
    BY <1>1, <2>1, MoreInForce
<1>3. /\ log[i].path \in DOMAIN KeptBindings(p) /\ KeptBindings(p)[log[i].path] = b
      /\ KeptStatics(p)[b.timer] = statics[b.timer]
      /\ b.timer \in DOMAIN KeptStatics(p) /\ b.timer \in DOMAIN timers
      /\ b.timer \notin v.timers /\ b.timer \notin v.reads
  BY <1>2, LeftAlone DEF Written
<1>4. /\ log'[i] = log[i]
      /\ \A n : Counted(log, i, n) => Counted(log', i, n)
      /\ \A offset : RunsFrom(log, i, offset) => RunsFrom(log', i, offset)
  BY <1>1, MoreWritten
<1>5. Counted(log, i, statics[b.timer])
  BY <1>2 DEF HistoryInv, LiveLogged, CountersLogged
<1>6. ASSUME b.timer \in b.bodyReads, b.timer \notin PendingTimers'
      PROVE  RunsFrom(log', i, timers'[b.timer].offset)
  <2>1. b.timer \notin PendingTimers
    BY <1>3, <1>6 DEF Written
  <2>2. RunsFrom(log, i, timers[b.timer].offset)
    BY <1>2, <1>6, <2>1 DEF HistoryInv, LiveLogged, StartsLogged
  <2>3. timers'[b.timer] = timers[b.timer]
    BY <1>3 DEF Written
  <2> QED
    BY <1>4, <2>2, <2>3
<1> HIDE DEF b
<1>7. Counted(log', i, KeptStatics(p)[b.timer])
  BY <1>3, <1>4, <1>5
<1> QED
  BY <1>3, <1>4, <1>6, <1>7 DEF b

\* And the bindings that are left.
LEMMA OldBindings ==
  ASSUME HistoryInv, ~halted, NEW p, NEW v, NEW e, Written(p, v, e),
         NEW q \in DOMAIN KeptBindings(p)
  PROVE  \E i \in DOMAIN log : InForce(log', i) /\ log'[i] = log[i] /\ log[i].path = q
<1>1. IsLog(log) /\ log' = Append(log, e) /\ e.path = p
  BY DEF HistoryInv, EntriesOK, Written
<1>2. q \in DOMAIN live_bindings /\ ~Overlap(q, p)
  <2>1. q \in DOMAIN live_bindings \ Owned(p)
    BY Kept
  <2>2. ~Overlap(p, q)
    BY <2>1 DEF Owned
  <2> QED
    BY <2>1, <2>2, OverlapIsSymmetric
<1>3. PICK i \in DOMAIN log : InForce(log, i) /\ log[i].path = q
  BY <1>2 DEF HistoryInv, LiveLogged, BindingsLogged
<1>4. InForce(log', i)
  BY <1>1, <1>2, <1>3, MoreInForce
<1> QED
  BY <1>1, <1>3, <1>4, Appended

\* A static value, or the claim of a fill.
LEMMA ClaimIsLogged ==
  ASSUME HistoryInv, ~halted, NEW p, NEW v, NEW e, Written(p, v, e), e.op # "live", Claim(p)
  PROVE  LiveLogged(PendingTimers)'
<1>1. IsLog(log) /\ log' = Append(log, e)
  BY DEF HistoryInv, EntriesOK, Written
<1>2. live_bindings' = KeptBindings(p) /\ statics' = KeptStatics(p)
  BY DEF Claim
<1>3. ASSUME NEW i, InForce(log', i) PROVE i \in DOMAIN log
  BY <1>1, <1>3, MoreInForce DEF InForce
<1>4. BindingsLogged'
  <2>1. \A q \in DOMAIN live_bindings' : \E i \in DOMAIN log' : InForce(log', i) /\ log'[i].path = q
    BY <1>2, OldBindings DEF InForce
  <2>2. ASSUME NEW i \in DOMAIN log', InForce(log', i)
        PROVE  log'[i].path \in DOMAIN live_bindings' /\ live_bindings'[log'[i].path] = log'[i].value
    BY <1>2, <1>3, <2>2, OldInForce
  <2> QED
    BY <2>1, <2>2 DEF BindingsLogged
<1>5. ASSUME NEW i \in DOMAIN log', InForce(log', i) PROVE Counted(log', i, statics'[log'[i].value.timer])
  BY <1>2, <1>3, <1>5, OldInForce
<1>6. ASSUME NEW i \in DOMAIN log', InForce(log', i), log'[i].value.timer \in log'[i].value.bodyReads,
             log'[i].value.timer \notin PendingTimers'
      PROVE  RunsFrom(log', i, timers'[log'[i].value.timer].offset)
  BY <1>2, <1>3, <1>6, OldInForce
<1> QED
  BY <1>4, <1>5, <1>6 DEF LiveLogged, CountersLogged, StartsLogged

\* A live block: it counts from here, and its timer is one that nothing has
\* started since the assignment created it.
LEMMA BindIsLogged ==
  ASSUME HistoryInv, ~halted, NEW p, NEW v, NEW e, Written(p, v, e),
         e.op = "live", e.value = v, e.at = master_t,
         ApplyLive(p, v), v.timers \subseteq PendingTimers
  PROVE  LiveLogged(PendingTimers)'
<1>1. /\ IsLog(log) /\ log' = Append(log, e) /\ e.path = p /\ Writes(e)
      /\ <<p, v>> \in Placement /\ v.op = "live"
      /\ <<p, v>>[1] = p /\ <<p, v>>[2] = v
  BY DEF HistoryInv, EntriesOK, Written, ApplyLive
<1>2. /\ v.timers = {v.timer} /\ v.timer \in PendingTimers
      /\ \A x \in Placement : x[2].op = "live" /\ x[2].timer = v.timer => x = <<p, v>>
      /\ p \in Path
  BY <1>1, PlacementAssumption DEF Path
<1>3. /\ DOMAIN live_bindings' = {p} \cup DOMAIN KeptBindings(p) /\ live_bindings'[p] = v
      /\ \A q \in DOMAIN KeptBindings(p) : q # p => live_bindings'[q] = KeptBindings(p)[q]
      /\ statics'[v.timer] = 0
      /\ \A n \in DOMAIN KeptStatics(p) : n # v.timer => statics'[n] = KeptStatics(p)[n]
      /\ timers' = Latched(v.reads)
  BY DEF ApplyLive, With
<1>4. v.timer \in DOMAIN timers /\ timers[v.timer].offset = Unlatched
  BY <1>1, <1>2 DEF HistoryInv, Unstarted, IsUnlatched
<1>5. timers'[v.timer].offset = IF v.timer \in v.reads THEN master_t ELSE Unlatched
  BY <1>3, <1>4, LatchedReading DEF HistoryInv, ValueInv
<1>6. /\ log'[Len(log) + 1] = e /\ Len(log) + 1 \in DOMAIN log'
      /\ Counted(log', Len(log) + 1, 0)
      /\ RunsFrom(log', Len(log) + 1, IF v.timer \in v.reads THEN master_t ELSE Unlatched)
      /\ InForce(log', Len(log) + 1)
      /\ \A i : InForce(log', i) => i \in DOMAIN log \/ i = Len(log) + 1
  <2>1. log'[Len(log) + 1] = e /\ Counted(log', Len(log) + 1, 0)
    BY <1>1, JustBound
  <2>2. RunsFrom(log', Len(log) + 1, IF v.timer \in v.reads THEN master_t ELSE Unlatched)
    BY <1>1, JustBound
  <2>3. InForce(log', Len(log) + 1)
    BY <1>1, MoreInForce
  <2>4. \A i : InForce(log', i) => i \in DOMAIN log \/ i = Len(log) + 1
    BY <1>1, MoreInForce DEF InForce
  <2> QED
    BY <2>1, <2>2, <2>3, <2>4 DEF InForce
<1>7. ASSUME NEW i \in DOMAIN log, InForce(log', i)
      PROVE  /\ log'[i] = log[i]
             /\ log[i].path \in DOMAIN KeptBindings(p) /\ KeptBindings(p)[log[i].path] = log[i].value
             /\ log[i].path # p
             /\ log[i].value.timer \in DOMAIN KeptStatics(p)
             /\ log[i].value.timer # v.timer
             /\ Counted(log', i, KeptStatics(p)[log[i].value.timer])
             /\ log[i].value.timer \in log[i].value.bodyReads /\ log[i].value.timer \notin PendingTimers' =>
                  RunsFrom(log', i, timers'[log[i].value.timer].offset)
  <2>1. log[i].path # p
    <3>1. p \notin DOMAIN KeptBindings(p)
      BY <1>2, Kept, OverlapWithItself DEF Owned, Path
    <3> QED
      BY <1>7, <3>1, OldInForce
  <2> QED
    BY <1>2, <1>7, <2>1, OldInForce
<1>8. BindingsLogged'
  <2>1. ASSUME NEW q \in DOMAIN live_bindings'
        PROVE  \E i \in DOMAIN log' : InForce(log', i) /\ log'[i].path = q
    <3>1. CASE q = p
      BY <1>1, <1>6, <3>1
    <3>2. CASE q \in DOMAIN KeptBindings(p)
      BY <3>2, OldBindings DEF InForce
    <3> QED
      BY <1>3, <3>1, <3>2
  <2>2. ASSUME NEW i \in DOMAIN log', InForce(log', i)
        PROVE  log'[i].path \in DOMAIN live_bindings' /\ live_bindings'[log'[i].path] = log'[i].value
    <3>1. CASE i = Len(log) + 1
      BY <1>1, <1>3, <1>6, <3>1
    <3>2. CASE i \in DOMAIN log
      BY <1>3, <1>7, <2>2, <3>2
    <3> QED
      BY <1>6, <2>2, <3>1, <3>2
  <2> QED
    BY <2>1, <2>2 DEF BindingsLogged
<1>9. ASSUME NEW i \in DOMAIN log', InForce(log', i)
      PROVE  /\ Counted(log', i, statics'[log'[i].value.timer])
             /\ log'[i].value.timer \in log'[i].value.bodyReads /\ log'[i].value.timer \notin PendingTimers' =>
                  RunsFrom(log', i, timers'[log'[i].value.timer].offset)
  <2>1. CASE i = Len(log) + 1
    <3>1. log'[i].value = v
      BY <1>6, <2>1
    <3>2. Counted(log', i, statics'[v.timer])
      BY <1>3, <1>6, <2>1
    <3>3. RunsFrom(log', i, timers'[v.timer].offset)
      BY <1>5, <1>6, <2>1
    <3> QED
      BY <3>1, <3>2, <3>3
  <2>2. CASE i \in DOMAIN log
    <3>1. statics'[log[i].value.timer] = KeptStatics(p)[log[i].value.timer]
      BY <1>3, <1>7, <1>9, <2>2
    <3> QED
      BY <1>7, <1>9, <2>2, <3>1
  <2> QED
    BY <1>6, <1>9, <2>1, <2>2
<1> QED
  BY <1>8, <1>9 DEF LiveLogged, CountersLogged, StartsLogged

-----------------------------------------------------------------------------
(* The steps.                                                                *)

Logged == EntriesOK /\ StaticsLogged /\ PendingApart /\ (~halted => LiveLogged(PendingTimers))

LEMMA EntryRecorded ==
  ASSUME HistoryInv, NEW op, NEW p, NEW v, Record(op, p, v)
  PROVE  \E e : /\ e.op = op /\ e.path = p /\ e.value = v /\ e.at = master_t
                /\ e.at \in Nat /\ log' = Append(log, e)
<1>1. master_t \in Nat
  BY ClockAssumption DEF HistoryInv, ValueInv, TimersTypeOK, Time
<1>2. /\ Event(op, p, v).op = op /\ Event(op, p, v).path = p
      /\ Event(op, p, v).value = v /\ Event(op, p, v).at = master_t
  BY DEF Event
<1> QED
  BY <1>1, <1>2 DEF Record

LEMMA OneMoreEntry ==
  ASSUME EntriesOK, NEW e, EntryOK(e), log' = Append(log, e)
  PROVE  EntriesOK'
<1>1. /\ IsLog(log') /\ Len(log) \in Nat /\ DOMAIN log = 1..Len(log) /\ DOMAIN log' = 1..(Len(log) + 1)
      /\ \A i \in DOMAIN log : log'[i] = log[i]
      /\ log'[Len(log) + 1] = e
  BY Appended DEF EntriesOK
<1>2. \A i \in DOMAIN log' : i \in DOMAIN log \/ i = Len(log) + 1
  BY <1>1
<1> QED
  BY <1>1, <1>2 DEF EntriesOK

LEMMA StaticStep ==
  ASSUME HistoryInv, ~halted, fill # <<>>,
         NEW p, NEW v, p = Head(fill).path, v = Head(fill).value,
         NEW tree \in StaticValues(p, v), WriteValue(p, tree, v.reads),
         Record("static", p, EnvelopeAt(p, tree))
  PROVE  Logged'
<1>1. /\ <<p, v>> \in Placement /\ fill \in Seq(FillItem)
      /\ EntriesOK /\ StaticsLogged /\ PendingApart /\ IsTree(msg)
  BY PendingIsPlaced DEF HistoryInv, LiveInv, BindingInv, ValueInv
<1>2. PICK e : /\ e.op = "static" /\ e.path = p /\ e.value = EnvelopeAt(p, tree) /\ e.at = master_t
               /\ e.at \in Nat /\ log' = Append(log, e)
  BY EntryRecorded
<1>3. p \in Path /\ IsTree(tree)
  BY <1>1, StaticValuesAreTrees
<1>4. EntriesOK'
  <2>1. IsTree(EnvelopeAt(p, tree))
    BY <1>3, EnvelopeIsObject DEF EnvelopeAt
  <2>2. EntryOK(e)
    BY <1>2, <1>3, <2>1 DEF EntryOK
  <2> QED
    BY <1>1, <1>2, <2>2, OneMoreEntry
<1>5. StaticsLogged'
  <2>1. msg' = Store(msg, p, tree) /\ IsLog(log)
    BY <1>1 DEF WriteValue, EntriesOK
  <2>2. \A q \in Path : Answers(Append(log, e), q, Store(msg, p, tree))
    BY <1>1, <1>2, <1>3, <2>1, StaticAnswers DEF StaticsLogged
  <2> QED
    BY <1>2, <2>1, <2>2 DEF StaticsLogged
<1>6. /\ PendingApart' /\ PendingTimers' \subseteq PendingTimers
      /\ PendingTimers \subseteq PendingTimers' \cup v.timers
  BY <1>1, CallDone DEF WriteValue
<1>7. Written(p, v, e)
  BY <1>1, <1>2, <1>6, TimersStay DEF Written, Writes, WriteValue, Latched
<1>8. LiveLogged(PendingTimers)'
  BY <1>2, <1>7, ClaimIsLogged DEF WriteValue
<1> QED
  BY <1>4, <1>5, <1>6, <1>8 DEF Logged

LEMMA FillStep ==
  ASSUME HistoryInv, ~halted, fill # <<>>,
         NEW p, NEW v, p = Head(fill).path, v = Head(fill).value,
         ApplyFill(p, v), Record("claim", p, v)
  PROVE  Logged'
<1>1. /\ <<p, v>> \in Placement /\ fill \in Seq(FillItem)
      /\ EntriesOK /\ StaticsLogged /\ PendingApart
  BY PendingIsPlaced DEF HistoryInv, LiveInv, BindingInv
<1>2. PICK e : /\ e.op = "claim" /\ e.path = p /\ e.at \in Nat /\ log' = Append(log, e)
  BY EntryRecorded
<1>3. EntriesOK'
  <2>1. <<p, v>>[1] = p
    OBVIOUS
  <2>2. EntryOK(e)
    BY <1>1, <1>2, <2>1, PlacementAssumption DEF EntryOK, Path
  <2> QED
    BY <1>1, <1>2, <2>2, OneMoreEntry
<1>4. StaticsLogged'
  BY <1>1, <1>2, OtherAnswers DEF StaticsLogged, EntriesOK, ApplyFill
<1>5. /\ PendingApart' /\ PendingTimers' \subseteq PendingTimers
      /\ PendingTimers \subseteq PendingTimers' \cup v.timers
  BY <1>1, CallOpened DEF ApplyFill
<1>6. Written(p, v, e)
  BY <1>1, <1>2, <1>5 DEF Written, Writes, ApplyFill, clockVars
<1>7. LiveLogged(PendingTimers)'
  BY <1>2, <1>6, ClaimIsLogged DEF ApplyFill
<1> QED
  BY <1>3, <1>4, <1>5, <1>7 DEF Logged

LEMMA BindStep ==
  ASSUME HistoryInv, ~halted, fill # <<>>,
         NEW p, NEW v, p = Head(fill).path, v = Head(fill).value,
         ApplyLive(p, v), Record("live", p, v)
  PROVE  Logged'
<1>1. /\ <<p, v>> \in Placement /\ fill \in Seq(FillItem)
      /\ EntriesOK /\ StaticsLogged /\ PendingApart
  BY PendingIsPlaced DEF HistoryInv, LiveInv, BindingInv
<1>2. PICK e : /\ e.op = "live" /\ e.path = p /\ e.value = v /\ e.at = master_t
               /\ e.at \in Nat /\ log' = Append(log, e)
  BY EntryRecorded
<1>3. EntriesOK'
  <2>1. <<p, v>>[1] = p
    OBVIOUS
  <2>2. EntryOK(e)
    BY <1>1, <1>2, <2>1, PlacementAssumption DEF EntryOK, Path, ApplyLive
  <2> QED
    BY <1>1, <1>2, <2>2, OneMoreEntry
<1>4. StaticsLogged'
  BY <1>1, <1>2, OtherAnswers DEF StaticsLogged, EntriesOK, ApplyLive
<1>5. /\ PendingApart' /\ PendingTimers' \subseteq PendingTimers
      /\ PendingTimers \subseteq PendingTimers' \cup v.timers
  BY <1>1, CallDone DEF ApplyLive
<1>6. Written(p, v, e)
  BY <1>1, <1>2, <1>5, TimersStay DEF Written, Writes, ApplyLive, Latched
<1>7. v.timers \subseteq PendingTimers
  <2>1. Head(fill) = fill[1] /\ 1 \in DOMAIN fill
    BY <1>1
  <2> QED
    BY <2>1 DEF PendingTimers
<1>8. LiveLogged(PendingTimers)'
  BY <1>2, <1>6, <1>7, BindIsLogged
<1> QED
  BY <1>3, <1>4, <1>5, <1>8 DEF Logged

\* What raises ends the run; nothing is published after it.
LEMMA RaiseStep ==
  ASSUME HistoryInv, UNCHANGED <<log, msg>>, halted',
         fill' = <<>> \/ fill' = fill
  PROVE  Logged'
BY NothingBound DEF HistoryInv, Logged, EntriesOK, StaticsLogged, PendingApart

LEMMA AssignStep ==
  ASSUME HistoryInv, ~halted, NEW x \in Placement, Assign(x[1], x[2]), UNCHANGED log
  PROVE  Logged'
<1>1. /\ fill = <<>> /\ fill' = <<[path |-> x[1], value |-> x[2]]>>
      /\ timers' = Created(x[2].timers, "latching")
      /\ UNCHANGED <<halted, msg, live_bindings, statics>>
  BY DEF Assign, bindingVars
<1>2. DOMAIN fill' = {1} /\ fill'[1].value = x[2]
  BY <1>1
<1>3. PendingTimers = {} /\ PendingTimers' = x[2].timers
  <2>1. DOMAIN fill = {}
    BY <1>1, NothingBound
  <2> QED
    BY <1>2, <2>1 DEF PendingTimers
<1>4. EntriesOK' /\ StaticsLogged' /\ PendingApart'
  BY <1>1, <1>2 DEF HistoryInv, EntriesOK, StaticsLogged, PendingApart
<1>5. LiveLogged(PendingTimers)
  BY DEF HistoryInv
<1>6. BindingsLogged' /\ CountersLogged'
  BY <1>1, <1>5 DEF LiveLogged, BindingsLogged, CountersLogged
<1>7. StartsLogged(PendingTimers)'
  <2> SUFFICES ASSUME NEW i \in DOMAIN log, InForce(log, i),
                      log[i].value.timer \in log[i].value.bodyReads, log[i].value.timer \notin x[2].timers
               PROVE  RunsFrom(log, i, timers'[log[i].value.timer].offset)
    BY <1>3 DEF StartsLogged
  <2>1. log[i].value.timer \in DOMAIN timers
    BY <1>5 DEF LiveLogged, BindingsLogged, HistoryInv, LiveInv, LiveTimersExist
  <2>2. timers'[log[i].value.timer] = timers[log[i].value.timer]
    BY <1>1, <2>1 DEF Created
  <2> QED
    BY <1>3, <1>5, <2>2 DEF LiveLogged, StartsLogged
<1> QED
  BY <1>4, <1>6, <1>7 DEF Logged, LiveLogged

LEMMA SendStep ==
  ASSUME HistoryInv, ~halted, fill = <<>>, NEW d \in Delay, NEW others, Publish(d, others),
         Record("send", <<>>, <<>>)
  PROVE  Logged'
<1> DEFINE reads == others \cup ReadAt(DOMAIN live_bindings)
<1>1. PICK e : e.op = "send" /\ e.path = <<>> /\ e.at = master_t /\ e.at \in Nat /\ log' = Append(log, e)
  BY EntryRecorded
<1>2. /\ EntriesOK /\ StaticsLogged /\ LiveLogged(PendingTimers) /\ IsLog(log) /\ TimersTypeOK /\ StaticsTypeOK
      /\ LiveTimersExist /\ DOMAIN statics = {live_bindings[p].timer : p \in DOMAIN live_bindings}
      /\ PendingApart
  BY DEF HistoryInv, EntriesOK, ValueInv, LiveInv, BindingInv, StaticsFollowBindings
<1>3. /\ fill' = fill /\ msg' = msg /\ live_bindings' = live_bindings /\ statics' = Ticked(DOMAIN live_bindings)
      /\ timers' = Latched(reads)
  BY DEF Publish
<1> HIDE DEF reads
<1>4. EntriesOK'
  <2>1. EntryOK(e)
    BY <1>1, EmptySeq DEF EntryOK, Path
  <2> QED
    BY <1>1, <1>2, <2>1, OneMoreEntry
<1>5. StaticsLogged' /\ PendingApart'
  BY <1>1, <1>2, <1>3, OtherAnswers DEF StaticsLogged, PendingApart
<1>6. PendingTimers = {} /\ PendingTimers' = {}
  BY <1>3, NothingBound DEF PendingTimers
<1>7. \A i : InForce(log', i) <=> InForce(log, i)
  BY <1>1, <1>2, MoreInForce DEF Writes
<1>8. ASSUME NEW i, InForce(log, i)
      PROVE  /\ i \in DOMAIN log /\ i \in DOMAIN log' /\ log'[i] = log[i]
             /\ log[i].path \in DOMAIN live_bindings /\ live_bindings[log[i].path] = log[i].value
             /\ \A n \in Nat : Counted(log, i, n) => Counted(log', i, n + 1)
             /\ \A offset : RunsFrom(log, i, offset) =>
                  RunsFrom(log', i, IF offset = Unlatched THEN master_t ELSE offset)
  <2>1. i \in DOMAIN log
    BY <1>8 DEF InForce
  <2>2. ASSUME NEW f \in DOMAIN log PROVE log[f].at # Unlatched
    <3>1. log[f].at \in Nat
      BY <1>2 DEF EntriesOK, EntryOK
    <3> QED
      BY <3>1 DEF Unlatched
  <2>3. i \in DOMAIN log'
    BY <1>1, <1>2, <2>1, Appended
  <2>4. log[i].path \in DOMAIN live_bindings /\ live_bindings[log[i].path] = log[i].value
    BY <1>2, <1>8, <2>1 DEF LiveLogged, BindingsLogged
  <2>5. /\ log'[i] = log[i]
        /\ \A n \in Nat : Counted(log, i, n) => Counted(log', i, n + 1)
        /\ \A offset : RunsFrom(log, i, offset) =>
             RunsFrom(log', i, IF offset = Unlatched THEN e.at ELSE offset)
    BY <1>1, <1>2, <2>1, <2>2, JustSent
  <2> QED
    BY <1>1, <2>1, <2>3, <2>4, <2>5
<1>9. BindingsLogged'
  <2>1. ASSUME NEW p \in DOMAIN live_bindings PROVE \E i \in DOMAIN log' : InForce(log', i) /\ log'[i].path = p
    <3>1. PICK i \in DOMAIN log : InForce(log, i) /\ log[i].path = p
      BY <1>2 DEF LiveLogged, BindingsLogged
    <3> QED
      BY <1>7, <1>8, <3>1
  <2> QED
    BY <1>3, <1>7, <1>8, <2>1 DEF BindingsLogged
<1>10. CountersLogged'
  <2> SUFFICES ASSUME NEW i, InForce(log, i) PROVE Counted(log', i, statics'[log[i].value.timer])
    BY <1>7, <1>8 DEF CountersLogged
  <2>1. log[i].value.timer \in DOMAIN statics /\ statics[log[i].value.timer] \in Nat
    BY <1>2, <1>8 DEF StaticsTypeOK
  <2>2. statics'[log[i].value.timer] = statics[log[i].value.timer] + 1
    BY <1>3, <1>8, <2>1 DEF Ticked
  <2>3. Counted(log, i, statics[log[i].value.timer])
    BY <1>2, <1>8 DEF LiveLogged, CountersLogged
  <2>4. Counted(log', i, statics[log[i].value.timer] + 1)
    BY <1>8, <2>1, <2>3
  <2> QED
    BY <2>2, <2>4
<1>11. StartsLogged(PendingTimers)'
  <2> SUFFICES ASSUME NEW i, InForce(log, i), log[i].value.timer \in log[i].value.bodyReads
               PROVE  RunsFrom(log', i, timers'[log[i].value.timer].offset)
    BY <1>7, <1>8 DEF StartsLogged
  <2> DEFINE n == log[i].value.timer
  <2>1. n \in DOMAIN timers /\ n \in reads
    BY <1>2, <1>8 DEF LiveTimersExist, ReadAt, reads
  <2>2. timers'[n].offset = IF timers[n].offset = Unlatched THEN master_t ELSE timers[n].offset
    BY <1>2, <1>3, <2>1, LatchedReading
  <2>3. RunsFrom(log, i, timers[n].offset)
    BY <1>2, <1>6, <1>8 DEF LiveLogged, StartsLogged
  <2>4. RunsFrom(log', i, IF timers[n].offset = Unlatched THEN master_t ELSE timers[n].offset)
    BY <1>8, <2>3
  <2> QED
    BY <2>2, <2>4
<1> QED
  BY <1>4, <1>5, <1>9, <1>10, <1>11 DEF Logged, LiveLogged

\* Only time passes, or nothing happens.
LEMMA IdleStep ==
  ASSUME HistoryInv, UNCHANGED <<log, msg, fill, live_bindings, statics, timers, halted>>
  PROVE  Logged'
<1>1. EntriesOK' /\ StaticsLogged' /\ PendingApart'
  BY DEF HistoryInv, EntriesOK, StaticsLogged, PendingApart
<1>2. PendingTimers' = PendingTimers
  BY DEF PendingTimers
<1>3. LiveLogged(PendingTimers) => LiveLogged(PendingTimers)'
  BY <1>2 DEF LiveLogged, BindingsLogged, CountersLogged, StartsLogged
<1> QED
  BY <1>1, <1>3 DEF HistoryInv, Logged

LEMMA LogStepsAreMessageSteps == [LogNext]_logVars => [MessageNext]_messageVars
<1>1. ASSUME NEW p, NEW v, LogApply(p, v) PROVE ApplyField(p, v)
  BY <1>1 DEF LogApply, ApplyField, ApplyStatic
<1>2. LogNext => MessageNext
  <2> SUFFICES ASSUME LogNext PROVE MessageNext
    OBVIOUS
  <2>1. CASE \E x \in Placement : Assign(x[1], x[2])
    BY <2>1 DEF LogNext, MessageNext
  <2>2. CASE fill # <<>> /\ LogApply(Head(fill).path, Head(fill).value)
    BY <1>1, <2>2 DEF LogNext, MessageNext, ApplyNext
  <2>3. CASE fill = <<>> /\ \E d \in Delay : Publish(d, {})
    BY <2>3 DEF LogNext, MessageNext, Send
  <2>4. CASE fill = <<>> /\ \E d \in Delay : PublishRaises({})
    BY <2>4 DEF LogNext, MessageNext, Send
  <2>5. CASE \E d \in Delay : Wait(d)
    BY <2>5 DEF LogNext, MessageNext
  <2> QED
    BY <2>1, <2>2, <2>3, <2>4, <2>5 DEF LogNext
<1>3. UNCHANGED logVars => UNCHANGED messageVars
  BY DEF logVars
<1> QED
  BY <1>2, <1>3

LEMMA HistoryInit == LogInit => HistoryInv
<1> SUFFICES ASSUME LogInit PROVE HistoryInv
  OBVIOUS
<1>1. /\ MessageInit /\ log = <<>> /\ fill = <<>> /\ live_bindings = <<>> /\ timers = <<>>
      /\ msg = Base
  BY DEF LogInit, MessageInit, TimersInit, Base
<1>2. DOMAIN log = {} /\ DOMAIN fill = {} /\ DOMAIN live_bindings = {}
  BY <1>1, NothingBound
<1>3. LiveInv /\ ValueInv
  <2>1. BindingInv /\ ValueInv
    BY <1>1, BindingInit, ValueInit
  <2> QED
    BY <1>2, <2>1 DEF LiveInv, LiveTimersExist, PendingTimersExist
<1>4. EntriesOK
  BY <1>1, <1>2 DEF EntriesOK, IsLog
<1>5. StaticsLogged
  BY <1>1, <1>2 DEF StaticsLogged, Answers, FromBase
<1>6. PendingApart
  BY <1>2 DEF PendingApart
<1>7. LiveLogged(PendingTimers) /\ Unstarted(PendingTimers)
  BY <1>2 DEF LiveLogged, BindingsLogged, CountersLogged, StartsLogged, Unstarted, PendingTimers
<1> QED
  BY <1>3, <1>4, <1>5, <1>6, <1>7 DEF HistoryInv

LEMMA UnstartedStep ==
  ASSUME HistoryInv, [LogNext]_logVars, ~halted'
  PROVE  Unstarted(PendingTimers)'
<1>1. ASSUME ~halted, NEW x \in Placement, Assign(x[1], x[2]) PROVE Unstarted(PendingTimers)'
  <2>1. fill' = <<[path |-> x[1], value |-> x[2]]>> /\ timers' = Created(x[2].timers, "latching")
    BY <1>1 DEF Assign
  <2>2. DOMAIN fill' = {1} /\ fill'[1].value = x[2]
    BY <2>1
  <2>3. PendingTimers' = x[2].timers
    BY <2>2 DEF PendingTimers
  <2> QED
    BY <2>1, <2>3 DEF Unstarted, IsUnlatched, Created, Fresh
<1>2. ASSUME ~halted, fill # <<>>, LogApply(Head(fill).path, Head(fill).value)
      PROVE  Unstarted(PendingTimers)'
  <2>1. CallMade(Head(fill).path, Head(fill).value)
    BY <1>2 DEF LogApply, CallMade, ApplyStatic, FieldRaises
  <2> QED
    BY <1>2, <2>1, CallKeepsUnstarted DEF HistoryInv, LiveInv, BindingInv
<1>3. ASSUME fill = <<>>, fill' = fill PROVE Unstarted(PendingTimers)'
  BY <1>3, NothingBound DEF Unstarted, PendingTimers
<1>4. ASSUME NEW d \in Delay, Publish(d, {}) \/ Wait(d), fill = <<>> PROVE fill' = fill
  BY <1>4 DEF Publish, Wait
<1>5. CASE UNCHANGED logVars
  <2>1. UNCHANGED <<halted, timers, fill>>
    BY <1>5 DEF logVars, messageVars, clockVars
  <2>2. PendingTimers' = PendingTimers
    BY <2>1 DEF PendingTimers
  <2> QED
    BY <2>1, <2>2 DEF HistoryInv, Unstarted, IsUnlatched
<1> QED
  BY <1>1, <1>2, <1>3, <1>4, <1>5 DEF LogNext, PublishRaises, Wait

LEMMA HistoryStep == HistoryInv /\ [LogNext]_logVars => HistoryInv'
<1> SUFFICES ASSUME HistoryInv, [LogNext]_logVars PROVE HistoryInv'
  OBVIOUS
<1>1. LiveInv' /\ ValueInv'
  <2>1. [MessageNext]_messageVars /\ LiveInv /\ BindingInv /\ ValueInv
    BY LogStepsAreMessageSteps DEF HistoryInv, LiveInv
  <2> QED
    BY <2>1, LiveStep, ValueStep
<1>2. Logged'
  <2>1. ASSUME ~halted, NEW x \in Placement, Assign(x[1], x[2]), UNCHANGED log PROVE Logged'
    BY <2>1, AssignStep
  <2>2. ASSUME ~halted, fill # <<>>, LogApply(Head(fill).path, Head(fill).value) PROVE Logged'
    <3> DEFINE p == Head(fill).path
               v == Head(fill).value
    <3>1. ASSUME NEW tree \in StaticValues(p, v), WriteValue(p, tree, v.reads),
                 Record("static", p, EnvelopeAt(p, tree))
          PROVE  Logged'
      BY <2>2, <3>1, StaticStep
    <3>2. CASE ApplyFill(p, v) /\ Record("claim", p, v)
      BY <2>2, <3>2, FillStep
    <3>3. CASE ApplyLive(p, v) /\ Record("live", p, v)
      BY <2>2, <3>3, BindStep
    <3>4. CASE FieldRaises(p, v) /\ UNCHANGED log
      BY <3>4, RaiseStep DEF FieldRaises
    <3> QED
      BY <2>2, <3>1, <3>2, <3>3, <3>4 DEF LogApply
  <2>3. ASSUME ~halted, NEW d \in Delay, fill = <<>>, Publish(d, {}), Record("send", <<>>, <<>>) PROVE Logged'
    BY <2>3, SendStep
  <2>4. CASE PublishRaises({}) /\ UNCHANGED log
    BY <2>4, RaiseStep DEF PublishRaises
  <2>5. ASSUME NEW d \in Delay, Wait(d), UNCHANGED log PROVE Logged'
    BY <2>5, IdleStep DEF Wait, bindingVars
  <2>6. CASE UNCHANGED logVars
    BY <2>6, IdleStep DEF logVars, messageVars, clockVars
  <2> QED
    BY <2>1, <2>2, <2>3, <2>4, <2>5, <2>6 DEF LogNext
<1>3. ~halted' => Unstarted(PendingTimers)'
  BY UnstartedStep
<1> QED
  BY <1>1, <1>2, <1>3 DEF HistoryInv, Logged

-----------------------------------------------------------------------------
(* The refinement.                                                           *)

LEMMA EventIsAuthored ==
  ASSUME EntriesOK, NEW op, NEW ops, op \in ops, NEW p, NEW v, Record(op, p, v)
  PROVE  Authored!Event(ops)
<1> DEFINE e == Event(op, p, v)
<1>1. e.op = op /\ e.at = master_t /\ log' = Append(log, e)
  BY DEF Event, Record
<1> HIDE DEF e
<1>2. /\ Len(log') = Len(log) + 1 /\ log'[Len(log) + 1] = e
      /\ SubSeq(log', 1, Len(log)) = log
  BY <1>1, Appended DEF EntriesOK
<1>3. Authored!Last(log') = e
  BY <1>2 DEF Authored!Last
<1> QED
  BY <1>1, <1>2, <1>3 DEF Authored!Event

LEMMA AuthoredInit == LogInit => Authored!OwnershipInit
BY DEF LogInit, MessageInit, TimersInit, Authored!OwnershipInit

LEMMA ApplyIsAuthored ==
  ASSUME EntriesOK, NEW p, NEW v, LogApply(p, v)
  PROVE  Authored!OwnershipNext \/ UNCHANGED Authored!ownershipVars
<1>1. ASSUME NEW op \in {"static", "live", "claim"}, NEW w, Record(op, p, w),
             UNCHANGED <<published, master_t>>
      PROVE  Authored!OwnershipNext
  <2>1. Authored!Event({"static", "live", "claim"})
    BY <1>1, EventIsAuthored
  <2> QED
    BY <1>1, <2>1 DEF Authored!OwnershipNext, Authored!Write
<1>2. ASSUME NEW tree, WriteValue(p, tree, v.reads), Record("static", p, EnvelopeAt(p, tree))
      PROVE  Authored!OwnershipNext
  BY <1>1, <1>2 DEF WriteValue
<1>3. CASE ApplyFill(p, v) /\ Record("claim", p, v)
  BY <1>1, <1>3 DEF ApplyFill, clockVars
<1>4. CASE ApplyLive(p, v) /\ Record("live", p, v)
  BY <1>1, <1>4 DEF ApplyLive
<1>5. CASE FieldRaises(p, v) /\ UNCHANGED log
  BY <1>5 DEF FieldRaises, Authored!ownershipVars
<1> QED
  BY <1>2, <1>3, <1>4, <1>5 DEF LogApply

\* Whatever else the send reads.
LEMMA PublishIsAuthored ==
  ASSUME HistoryInv, ~halted, fill = <<>>, NEW d, NEW reads, Publish(d, reads),
         Record("send", <<>>, <<>>)
  PROVE  Authored!OwnershipNext
<1>1. Authored!Event({"send"})
  BY EventIsAuthored DEF HistoryInv
<1>2. LiveLogged({})
  <2>1. PendingTimers = {}
    BY NothingBound DEF PendingTimers
  <2> QED
    BY <2>1 DEF HistoryInv
<1>3. Authored!Message = Overlay(msg, LiveValues(Latched(reads \cup ReadAt(DOMAIN live_bindings))))
  BY <1>2, SendIsAuthored DEF HistoryInv, LiveInv, ValueInv
<1>4. published' = Overlay(msg, LiveValues(Latched(reads \cup ReadAt(DOMAIN live_bindings)))) /\ Advance(d)
  BY DEF Publish
<1>5. master_t' > master_t
  BY <1>4 DEF Advance, CanAdvance
<1> QED
  BY <1>1, <1>3, <1>4, <1>5 DEF Authored!OwnershipNext, Authored!Send

\* Every step is a write, a send, the passing of time, or none of the author's
\* business.
LEMMA AuthoredStep ==
  HistoryInv /\ [LogNext]_logVars => [Authored!OwnershipNext]_(Authored!ownershipVars)
<1> SUFFICES ASSUME HistoryInv, [LogNext]_logVars
             PROVE  Authored!OwnershipNext \/ UNCHANGED Authored!ownershipVars
  OBVIOUS
<1>1. EntriesOK
  BY DEF HistoryInv
<1>2. ASSUME UNCHANGED <<log, published, master_t>> PROVE UNCHANGED Authored!ownershipVars
  BY <1>2 DEF Authored!ownershipVars
<1>3. ASSUME NEW p, NEW v, LogApply(p, v)
      PROVE  Authored!OwnershipNext \/ UNCHANGED Authored!ownershipVars
  BY <1>1, <1>3, ApplyIsAuthored
<1>4. ASSUME ~halted, fill = <<>>, NEW d \in Delay, Publish(d, {}), Record("send", <<>>, <<>>)
      PROVE  Authored!OwnershipNext
  BY <1>4, PublishIsAuthored
<1>5. ASSUME NEW d \in Delay, Wait(d), UNCHANGED log PROVE Authored!OwnershipNext
  BY <1>5 DEF Wait, Advance, CanAdvance, Authored!OwnershipNext, Authored!Pass
<1>6. ASSUME NEW x \in Placement, Assign(x[1], x[2]), UNCHANGED log PROVE UNCHANGED Authored!ownershipVars
  BY <1>2, <1>6 DEF Assign
<1>7. CASE PublishRaises({}) /\ UNCHANGED log
  BY <1>2, <1>7 DEF PublishRaises
<1>8. CASE UNCHANGED logVars
  BY <1>2, <1>8 DEF logVars, messageVars, clockVars
<1> QED
  BY <1>3, <1>4, <1>5, <1>6, <1>7, <1>8 DEF LogNext

\* What a run publishes is what its author wrote, for every schema, every set
\* of assignments, and every order of writes, sends and waits: the last static
\* write that touched a field, and the live bindings that no later write has
\* overlapped, each with its own count of sends and its own clock (vm.py:450-493,
\* vm.py:561-601).
THEOREM RunsPublishWhatWasAuthored == LogSpec => PublishesWhatWasAuthored
BY HistoryInit, HistoryStep, AuthoredInit, AuthoredStep, PTL
   DEF LogSpec, PublishesWhatWasAuthored, Authored!OwnershipSpec
=============================================================================
