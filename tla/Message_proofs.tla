--------------------------- MODULE Message_proofs ---------------------------
(***************************************************************************)
(* For every schema and every set of assignments a script may make: live   *)
(* bindings never overlap, statics live exactly as long as bindings, every *)
(* live block in force finds its own timer; with a strict schema the       *)
(* message has its fields and their types at every moment.                 *)
(***************************************************************************)
EXTENDS Message, SequenceTheorems, TLAPS

Path == Seq(STRING)

-----------------------------------------------------------------------------
(* Paths.  q lies at or below p just when it is p continued by Suffix(p, q). *)

LEMMA PrefixByElements ==
  ASSUME NEW p \in Path, NEW q \in Path
  PROVE  IsPrefix(p, q) <=> Len(p) <= Len(q) /\ \A i \in 1..Len(p) : p[i] = q[i]
<1>1. Len(p) \in Nat /\ Len(q) \in Nat
  BY LenProperties DEF Path
<1>2. p = SubSeq(p, 1, Len(p))
  BY SubSeqFull DEF Path
<1>3. ASSUME Len(p) <= Len(q)
      PROVE  /\ SubSeq(q, 1, Len(p)) \in Seq(STRING)
             /\ Len(SubSeq(q, 1, Len(p))) = Len(p)
             /\ \A i \in 1..Len(p) : SubSeq(q, 1, Len(p))[i] = q[i]
  <2>1. \A i \in 1..Len(p) : q[i] \in STRING
    BY <1>1, <1>3, ElementOfSeq DEF Path
  <2> QED
    BY <1>1, <2>1, SubSeqProperties
<1>4. ASSUME Len(p) <= Len(q), \A i \in 1..Len(p) : p[i] = q[i]
      PROVE  SubSeq(q, 1, Len(p)) = p
  BY <1>3, <1>4, SeqEqual DEF Path
<1> QED
  BY <1>1, <1>2, <1>3, <1>4 DEF IsPrefix

LEMMA SuffixOfPath ==
  ASSUME NEW p \in Path, NEW q \in Path, IsPrefix(p, q)
  PROVE  /\ Suffix(p, q) \in Path
         /\ Len(Suffix(p, q)) = Len(q) - Len(p)
         /\ p \o Suffix(p, q) = q
<1>1. Len(p) \in Nat /\ Len(q) \in Nat /\ Len(p) <= Len(q)
  BY LenProperties, PrefixByElements DEF Path
<1>2. \A i \in Len(p) + 1 .. Len(q) : q[i] \in STRING
  BY <1>1, ElementOfSeq DEF Path
<1>3. /\ Suffix(p, q) \in Seq(STRING)
      /\ Len(Suffix(p, q)) = Len(q) - Len(p)
      /\ \A i \in 1 .. Len(q) - Len(p) : Suffix(p, q)[i] = q[Len(p) + i]
  BY <1>1, <1>2, SubSeqProperties DEF Suffix
<1>4. /\ p \o Suffix(p, q) \in Seq(STRING)
      /\ Len(p \o Suffix(p, q)) = Len(q)
      /\ \A i \in 1..Len(q) : (p \o Suffix(p, q))[i] =
                                IF i <= Len(p) THEN p[i] ELSE Suffix(p, q)[i - Len(p)]
  BY <1>1, <1>3, ConcatProperties DEF Path
<1>5. \A i \in 1..Len(q) : (p \o Suffix(p, q))[i] = q[i]
  <2> SUFFICES ASSUME NEW i \in 1..Len(q) PROVE (p \o Suffix(p, q))[i] = q[i]
    OBVIOUS
  <2>1. CASE i <= Len(p)
    BY <1>1, <1>4, <2>1, PrefixByElements
  <2>2. CASE ~(i <= Len(p))
    <3>1. i - Len(p) \in 1 .. Len(q) - Len(p) /\ Len(p) + (i - Len(p)) = i
      BY <1>1, <2>2
    <3> QED
      BY <1>3, <1>4, <2>2, <3>1
  <2> QED
    BY <2>1, <2>2
<1> QED
  BY <1>3, <1>4, <1>5, SeqEqual DEF Path

LEMMA SuffixOfExtended ==
  ASSUME NEW p \in Path, NEW r \in Path
  PROVE  p \o r \in Path /\ IsPrefix(p, p \o r) /\ Suffix(p, p \o r) = r
<1>1. Len(p) \in Nat /\ Len(r) \in Nat
  BY LenProperties DEF Path
<1>2. /\ p \o r \in Path
      /\ Len(p \o r) = Len(p) + Len(r)
      /\ \A i \in 1 .. Len(p) + Len(r) : (p \o r)[i] = IF i <= Len(p) THEN p[i] ELSE r[i - Len(p)]
  BY ConcatProperties DEF Path
<1>3. IsPrefix(p, p \o r)
  <2>1. Len(p) <= Len(p \o r) /\ \A i \in 1..Len(p) : p[i] = (p \o r)[i]
    BY <1>1, <1>2
  <2> QED
    BY <1>2, <2>1, PrefixByElements
<1>4. Suffix(p, p \o r) \in Path /\ p \o Suffix(p, p \o r) = p \o r
  BY <1>2, <1>3, SuffixOfPath
<1>5. \A s, t, v \in Seq(STRING) : s \o t = s \o v => t = v
  BY ConcatSimplifications
<1> QED
  BY <1>2, <1>3, <1>4, <1>5 DEF Path

LEMMA PrefixOrder ==
  ASSUME NEW p \in Path, NEW q \in Path, NEW r \in Path
  PROVE  /\ IsPrefix(p, p)
         /\ IsPrefix(p, q) /\ IsPrefix(q, p) => p = q
         /\ IsPrefix(p, q) /\ IsPrefix(q, r) => IsPrefix(p, r)
         /\ IsPrefix(p, r) /\ IsPrefix(q, r) => Overlap(p, q)
<1>1. Len(p) \in Nat /\ Len(q) \in Nat /\ Len(r) \in Nat
  BY LenProperties DEF Path
<1>2. /\ IsPrefix(p, p) <=> Len(p) <= Len(p) /\ \A i \in 1..Len(p) : p[i] = p[i]
      /\ IsPrefix(p, q) <=> Len(p) <= Len(q) /\ \A i \in 1..Len(p) : p[i] = q[i]
      /\ IsPrefix(q, p) <=> Len(q) <= Len(p) /\ \A i \in 1..Len(q) : q[i] = p[i]
      /\ IsPrefix(p, r) <=> Len(p) <= Len(r) /\ \A i \in 1..Len(p) : p[i] = r[i]
      /\ IsPrefix(q, r) <=> Len(q) <= Len(r) /\ \A i \in 1..Len(q) : q[i] = r[i]
  BY PrefixByElements
<1>3. IsPrefix(p, p)
  BY <1>1, <1>2
<1>4. ASSUME IsPrefix(p, q), IsPrefix(q, p) PROVE p = q
  <2>1. Len(p) = Len(q) /\ \A i \in 1..Len(p) : p[i] = q[i]
    BY <1>1, <1>2, <1>4
  <2> QED
    BY <2>1, SeqEqual DEF Path
<1>5. ASSUME IsPrefix(p, q), IsPrefix(q, r) PROVE IsPrefix(p, r)
  <2>1. Len(p) <= Len(r)
    BY <1>1, <1>2, <1>5
  <2>2. ASSUME NEW i \in 1..Len(p) PROVE p[i] = r[i]
    <3>1. i \in 1..Len(q)
      BY <1>1, <1>2, <1>5
    <3> QED
      BY <1>2, <1>5, <3>1
  <2> QED
    BY <1>2, <2>1, <2>2
<1>6. ASSUME IsPrefix(p, r), IsPrefix(q, r) PROVE Overlap(p, q)
  <2>1. CASE Len(p) <= Len(q)
    <3>1. ASSUME NEW i \in 1..Len(p) PROVE p[i] = q[i]
      <4>1. i \in 1..Len(q)
        BY <1>1, <2>1
      <4> QED
        BY <1>2, <1>6, <4>1
    <3> QED
      BY <1>2, <2>1, <3>1 DEF Overlap
  <2>2. CASE Len(q) <= Len(p)
    <3>1. ASSUME NEW i \in 1..Len(q) PROVE q[i] = p[i]
      <4>1. i \in 1..Len(p)
        BY <1>1, <2>2
      <4> QED
        BY <1>2, <1>6, <4>1
    <3> QED
      BY <1>2, <2>2, <3>1 DEF Overlap
  <2> QED
    BY <1>1, <2>1, <2>2
<1> QED
  BY <1>3, <1>4, <1>5, <1>6

LEMMA RootOfPaths ==
  ASSUME NEW p \in Path
  PROVE  /\ <<>> \in Path /\ IsPrefix(<<>>, p) /\ Suffix(<<>>, p) = p /\ <<>> \o p = p
         /\ IsPrefix(p, <<>>) => p = <<>>
<1>1. <<>> \in Path /\ Len(<<>>) = 0 /\ Len(p) \in Nat
  BY EmptySeq, LenProperties DEF Path
<1>2. IsPrefix(<<>>, p)
  BY <1>1, PrefixByElements
<1>3. <<>> \o p = p
  BY ConcatEmptySeq DEF Path
<1>4. Suffix(<<>>, p) = p
  BY <1>1, SubSeqFull DEF Suffix, Path
<1> QED
  BY <1>1, <1>2, <1>3, <1>4, PrefixOrder

LEMMA StrictPrefix ==
  ASSUME NEW p \in Path
  PROVE  \A r : r \in StrictPrefixes(p) <=> r \in Path /\ IsPrefix(r, p) /\ r # p
<1>1. Len(p) \in Nat /\ SubSeq(p, 1, Len(p)) = p
  BY LenProperties, SubSeqFull DEF Path
<1>2. ASSUME NEW l \in 0..Len(p)
      PROVE  SubSeq(p, 1, l) \in Path /\ IsPrefix(SubSeq(p, 1, l), p)
  <2>1. \A i \in 1..l : p[i] \in STRING
    BY <1>1, ElementOfSeq DEF Path
  <2>2. SubSeq(p, 1, l) \in Path /\ Len(SubSeq(p, 1, l)) = l
        /\ \A i \in 1..l : SubSeq(p, 1, l)[i] = p[i]
    BY <1>1, <2>1, SubSeqProperties DEF Path
  <2>3. Len(SubSeq(p, 1, l)) <= Len(p) /\ \A i \in 1..Len(SubSeq(p, 1, l)) : SubSeq(p, 1, l)[i] = p[i]
    BY <1>1, <2>2
  <2> QED
    BY <2>2, <2>3, PrefixByElements
<1>3. ASSUME NEW r \in Path, IsPrefix(r, p) PROVE r \in Prefixes(p)
  <2>1. Len(r) \in 0..Len(p) /\ SubSeq(r, 1, Len(r)) = r /\ SubSeq(p, 1, Len(r)) = r
    <3>1. Len(r) \in Nat /\ SubSeq(r, 1, Len(r)) = r
      BY LenProperties, SubSeqFull DEF Path
    <3> QED
      BY <1>1, <1>3, <3>1 DEF IsPrefix
  <2> QED
    BY <2>1 DEF Prefixes
<1> QED
  BY <1>2, <1>3 DEF StrictPrefixes, Prefixes

LEMMA SuffixOrder ==
  ASSUME NEW p \in Path, NEW q \in Path, NEW r \in Path,
         IsPrefix(p, r), IsPrefix(r, q), r # q
  PROVE  Suffix(p, r) \in StrictPrefixes(Suffix(p, q))
<1>1. IsPrefix(p, q)
  BY PrefixOrder
<1>2. /\ Suffix(p, r) \in Path /\ Suffix(p, q) \in Path
      /\ Len(Suffix(p, r)) = Len(r) - Len(p) /\ p \o Suffix(p, r) = r
      /\ Len(Suffix(p, q)) = Len(q) - Len(p) /\ p \o Suffix(p, q) = q
  BY <1>1, SuffixOfPath
<1>3. Suffix(p, r) # Suffix(p, q)
  BY <1>2
<1>4. Len(p) \in Nat /\ Len(q) \in Nat /\ Len(r) \in Nat
  BY LenProperties DEF Path
<1>5. /\ Len(p) <= Len(r) /\ Len(r) <= Len(q)
      /\ \A i \in 1..Len(r) : r[i] = q[i]
  BY PrefixByElements
<1>6. \A i \in 1 .. Len(r) - Len(p) : Suffix(p, r)[i] = Suffix(p, q)[i]
  <2> SUFFICES ASSUME NEW i \in 1 .. Len(r) - Len(p) PROVE Suffix(p, r)[i] = Suffix(p, q)[i]
    OBVIOUS
  <2>1. Suffix(p, r)[i] = r[Len(p) + i] /\ Suffix(p, q)[i] = q[Len(p) + i]
    BY <1>4, <1>5 DEF Suffix, Path
  <2>2. Len(p) + i \in 1..Len(r)
    BY <1>4
  <2> QED
    BY <1>5, <2>1, <2>2
<1>7. IsPrefix(Suffix(p, r), Suffix(p, q))
  <2>1. Len(Suffix(p, r)) <= Len(Suffix(p, q))
    BY <1>2, <1>4, <1>5
  <2>2. \A i \in 1..Len(Suffix(p, r)) : Suffix(p, r)[i] = Suffix(p, q)[i]
    BY <1>2, <1>6
  <2> QED
    BY <1>2, <2>1, <2>2, PrefixByElements
<1> QED
  BY <1>2, <1>3, <1>7, StrictPrefix

-----------------------------------------------------------------------------
(* Bindings. *)

\* Bindings come from the script's own live blocks, and so do the calls that
\* are still to be made.  Without this a write that removes one binding could
\* remove the statics of another.
BindingsPlaced ==
  \A p \in DOMAIN live_bindings :
    <<p, live_bindings[p]>> \in Placement /\ live_bindings[p].op = "live"

BindingInv ==
  /\ LiveAntichain
  /\ BindingsPlaced
  /\ StaticsFollowBindings
  /\ fill \in Seq(FillItem)

LEMMA NothingBound == DOMAIN <<>> = {}
<1>1. <<>> \in Seq({}) /\ Len(<<>>) = 0
  OBVIOUS
<1> QED
  BY <1>1

LEMMA OverlapIsSymmetric ==
  ASSUME NEW p, NEW q
  PROVE  Overlap(p, q) <=> Overlap(q, p)
BY DEF Overlap

LEMMA OverlapWithItself ==
  ASSUME NEW p \in Seq(STRING)
  PROVE  Overlap(p, p)
BY DEF Overlap, IsPrefix

\* A call that is still to be made is one the script makes.
LEMMA PendingIsPlaced ==
  ASSUME fill \in Seq(FillItem), fill # <<>>
  PROVE  /\ <<Head(fill).path, Head(fill).value>> \in Placement
         /\ Tail(fill) \in Seq(FillItem)
<1>1. Head(fill) \in FillItem /\ Tail(fill) \in Seq(FillItem)
  OBVIOUS
<1>2. PICK x \in Placement : Head(fill) = [path |-> x[1], value |-> x[2]]
  BY <1>1 DEF FillItem
<1>3. x = <<x[1], x[2]>>
  BY PlacementAssumption
<1> QED
  BY <1>1, <1>2, <1>3

\* The elements of a positional fill are calls the script makes.
LEMMA ElementsArePlaced ==
  ASSUME NEW p, NEW v, <<p, v>> \in Placement, v.op = "array",
         Len(FieldsAt(p)) = Len(v.elements)
  PROVE  Elements(p, v) \in Seq(FillItem)
<1>1. /\ Len(v.elements) \in Nat
      /\ \A i \in 1..Len(v.elements) :
           <<Append(p, FieldsAt(p)[i]), v.elements[i]>> \in Placement
  <2>1. <<p, v>>[1] = p /\ <<p, v>>[2] = v
    OBVIOUS
  <2> QED
    BY <2>1, PlacementAssumption
<1>2. \A i \in 1..Len(v.elements) :
        [path |-> Append(p, FieldsAt(p)[i]), value |-> v.elements[i]] \in FillItem
  <2> SUFFICES ASSUME NEW i \in 1..Len(v.elements)
               PROVE  [path |-> Append(p, FieldsAt(p)[i]), value |-> v.elements[i]] \in FillItem
    OBVIOUS
  <2> DEFINE x == <<Append(p, FieldsAt(p)[i]), v.elements[i]>>
  <2>1. x \in Placement /\ x[1] = Append(p, FieldsAt(p)[i]) /\ x[2] = v.elements[i]
    BY <1>1
  <2> QED
    BY <2>1 DEF FillItem
<1> QED
  BY <1>1, <1>2 DEF Elements

\* One timer, one binding.
LEMMA TimersTellBindings ==
  ASSUME BindingsPlaced,
         NEW p \in DOMAIN live_bindings, NEW q \in DOMAIN live_bindings,
         live_bindings[p].timer = live_bindings[q].timer
  PROVE  p = q
<1>1. /\ <<p, live_bindings[p]>> \in Placement /\ live_bindings[p].op = "live"
      /\ <<q, live_bindings[q]>> \in Placement /\ live_bindings[q].op = "live"
  BY DEF BindingsPlaced
<1>2. <<p, live_bindings[p]>> = <<q, live_bindings[q]>>
  BY <1>1, PlacementAssumption
<1> QED
  BY <1>2

\* What is left after a path has been claimed.
LEMMA Kept ==
  ASSUME NEW p
  PROVE  /\ DOMAIN KeptBindings(p) = DOMAIN live_bindings \ Owned(p)
         /\ \A q \in DOMAIN KeptBindings(p) : KeptBindings(p)[q] = live_bindings[q]
         /\ DOMAIN KeptStatics(p) =
              DOMAIN statics \ {live_bindings[q].timer : q \in Owned(p)}
BY DEF KeptBindings, KeptStatics, Restrict

LEMMA ClaimedStatics ==
  ASSUME BindingsPlaced, NEW p,
         DOMAIN statics = {live_bindings[q].timer : q \in DOMAIN live_bindings}
  PROVE  DOMAIN KeptStatics(p) =
           {live_bindings[q].timer : q \in DOMAIN live_bindings \ Owned(p)}
<1>1. \A q \in DOMAIN live_bindings, r \in DOMAIN live_bindings :
        live_bindings[q].timer = live_bindings[r].timer => q = r
  BY TimersTellBindings
<1>2. Owned(p) \subseteq DOMAIN live_bindings
  BY DEF Owned
<1>3. DOMAIN KeptStatics(p) = DOMAIN statics \ {live_bindings[q].timer : q \in Owned(p)}
  BY Kept
<1> QED
  BY <1>1, <1>2, <1>3

\* Claiming a path, with or without binding something at it, leaves no overlap.
LEMMA ClaimKeepsAntichain ==
  ASSUME LiveAntichain, NEW p,
         DOMAIN live_bindings' \subseteq {p} \cup (DOMAIN live_bindings \ Owned(p))
  PROVE  LiveAntichain'
BY OverlapIsSymmetric DEF LiveAntichain, Owned

LEMMA ClaimKeepsBindings ==
  ASSUME BindingInv, NEW p, Claim(p)
  PROVE  LiveAntichain' /\ BindingsPlaced' /\ (~halted => StaticsFollowBindings')
<1>1. /\ DOMAIN live_bindings' = DOMAIN live_bindings \ Owned(p)
      /\ \A q \in DOMAIN live_bindings' : live_bindings'[q] = live_bindings[q]
  BY Kept DEF Claim
<1>2. LiveAntichain'
  BY <1>1, ClaimKeepsAntichain DEF BindingInv
<1>3. BindingsPlaced'
  BY <1>1 DEF BindingInv, BindingsPlaced
<1>4. ASSUME ~halted PROVE StaticsFollowBindings'
  <2>1. DOMAIN statics = {live_bindings[q].timer : q \in DOMAIN live_bindings}
    BY <1>4 DEF BindingInv, StaticsFollowBindings
  <2>2. DOMAIN statics' = {live_bindings[q].timer : q \in DOMAIN live_bindings \ Owned(p)}
    BY <2>1, ClaimedStatics DEF BindingInv, Claim
  <2>3. DOMAIN statics' = {live_bindings'[q].timer : q \in DOMAIN live_bindings'}
    BY <1>1, <2>2
  <2> QED
    BY <2>3 DEF StaticsFollowBindings
<1> QED
  BY <1>2, <1>3, <1>4

LEMMA BindKeepsBindings ==
  ASSUME BindingInv, NEW p, NEW v, <<p, v>> \in Placement, ApplyLive(p, v)
  PROVE  LiveAntichain' /\ BindingsPlaced' /\ (~halted => StaticsFollowBindings')
<1>1. /\ DOMAIN live_bindings' = {p} \cup (DOMAIN live_bindings \ Owned(p))
      /\ live_bindings'[p] = v
      /\ \A q \in DOMAIN live_bindings' \ {p} : live_bindings'[q] = live_bindings[q]
  BY Kept DEF ApplyLive, With
<1>2. LiveAntichain'
  BY <1>1, ClaimKeepsAntichain DEF BindingInv
<1>3. BindingsPlaced'
  BY <1>1 DEF BindingInv, BindingsPlaced, ApplyLive
<1>4. ASSUME ~halted PROVE StaticsFollowBindings'
  <2>1. DOMAIN statics = {live_bindings[q].timer : q \in DOMAIN live_bindings}
    BY <1>4 DEF BindingInv, StaticsFollowBindings
  <2>2. DOMAIN KeptStatics(p) = {live_bindings[q].timer : q \in DOMAIN live_bindings \ Owned(p)}
    BY <2>1, ClaimedStatics DEF BindingInv
  <2>3. DOMAIN statics' = {v.timer} \cup {live_bindings[q].timer : q \in DOMAIN live_bindings \ Owned(p)}
    BY <2>2 DEF ApplyLive, With
  <2>4. p \in Owned(p) \/ p \notin DOMAIN live_bindings
    <3>1. <<p, v>>[1] = p
      OBVIOUS
    <3> QED
      BY <3>1, OverlapWithItself, PlacementAssumption DEF Owned
  <2>5. DOMAIN statics' = {live_bindings'[q].timer : q \in DOMAIN live_bindings'}
    BY <1>1, <2>3, <2>4
  <2> QED
    BY <2>5 DEF StaticsFollowBindings
<1> QED
  BY <1>2, <1>3, <1>4

\* Nothing is bound or released when only clocks, counters or fields move.
LEMMA SameBindings ==
  ASSUME BindingInv, UNCHANGED live_bindings, DOMAIN statics' = DOMAIN statics
  PROVE  LiveAntichain' /\ BindingsPlaced' /\ (~halted => StaticsFollowBindings')
BY DEF BindingInv, LiveAntichain, BindingsPlaced, StaticsFollowBindings

\* A step that raises ends the run, which may lose statics but no ownership.
LEMMA RaisedBindings ==
  ASSUME BindingInv, NEW p, NEW v, <<p, v>> \in Placement, FieldRaises(p, v)
  PROVE  BindingInv'
<1>1. CASE v.op = "live"
  <2>1. /\ DOMAIN live_bindings' = {p} \cup (DOMAIN live_bindings \ Owned(p))
        /\ live_bindings'[p] = v
        /\ \A q \in DOMAIN live_bindings' \ {p} : live_bindings'[q] = live_bindings[q]
    BY <1>1, Kept DEF FieldRaises, With
  <2>2. LiveAntichain' /\ BindingsPlaced'
    BY <1>1, <2>1, ClaimKeepsAntichain DEF BindingInv, BindingsPlaced
  <2> QED
    BY <2>2 DEF BindingInv, StaticsFollowBindings, FieldRaises
<1>2. CASE v.op # "live"
  <2>1. /\ DOMAIN live_bindings' = DOMAIN live_bindings \ Owned(p)
        /\ \A q \in DOMAIN live_bindings' : live_bindings'[q] = live_bindings[q]
    BY <1>2, Kept DEF FieldRaises
  <2>2. LiveAntichain' /\ BindingsPlaced'
    BY <2>1, ClaimKeepsAntichain DEF BindingInv, BindingsPlaced
  <2> QED
    BY <2>2 DEF BindingInv, StaticsFollowBindings, FieldRaises
<1> QED
  BY <1>1, <1>2

\* One call of _apply_field, whatever it does.
LEMMA ApplyKeepsBindings ==
  ASSUME BindingInv, ~halted, ApplyNext
  PROVE  BindingInv'
<1> DEFINE p == Head(fill).path
           v == Head(fill).value
<1>1. <<p, v>> \in Placement /\ Tail(fill) \in Seq(FillItem)
  BY PendingIsPlaced DEF BindingInv, ApplyNext
<1>2. CASE ApplyStatic(p, v)
  <2>1. Claim(p) /\ fill' = Tail(fill)
    BY <1>2 DEF ApplyStatic, WriteValue
  <2> QED
    BY <1>1, <2>1, ClaimKeepsBindings DEF BindingInv
<1>3. CASE ApplyFill(p, v)
  <2>1. Claim(p) /\ fill' = Elements(p, v) \o Tail(fill)
    BY <1>3 DEF ApplyFill
  <2>2. Elements(p, v) \in Seq(FillItem)
    BY <1>1, <1>3, ElementsArePlaced DEF ApplyFill
  <2> QED
    BY <1>1, <2>1, <2>2, ClaimKeepsBindings DEF BindingInv
<1>4. CASE ApplyLive(p, v)
  <2>1. fill' = Tail(fill)
    BY <1>4 DEF ApplyLive
  <2> QED
    BY <1>1, <1>4, <2>1, BindKeepsBindings DEF BindingInv
<1>5. CASE FieldRaises(p, v)
  BY <1>1, <1>5, RaisedBindings
<1> QED
  BY <1>2, <1>3, <1>4, <1>5 DEF ApplyNext, ApplyField

LEMMA PublishKeepsBindings ==
  ASSUME BindingInv, ~halted, NEW delay, NEW reads,
         Publish(delay, reads) \/ PublishRaises(reads)
  PROVE  BindingInv'
<1>1. UNCHANGED <<live_bindings, fill>> /\ DOMAIN statics' = DOMAIN statics
  BY DEF Publish, PublishRaises, Ticked
<1> QED
  BY <1>1, SameBindings DEF BindingInv

LEMMA BindingInit == MessageInit => BindingInv
<1> SUFFICES ASSUME MessageInit PROVE BindingInv
  OBVIOUS
<1>1. DOMAIN live_bindings = {} /\ DOMAIN statics = {}
  BY NothingBound DEF MessageInit
<1>2. fill \in Seq(FillItem)
  BY DEF MessageInit
<1> QED
  BY <1>1, <1>2 DEF BindingInv, LiveAntichain, BindingsPlaced, StaticsFollowBindings

LEMMA BindingStep == BindingInv /\ [MessageNext]_messageVars => BindingInv'
<1> SUFFICES ASSUME BindingInv, [MessageNext]_messageVars PROVE BindingInv'
  OBVIOUS
<1>1. ASSUME ~halted, NEW x \in Placement, Assign(x[1], x[2]) PROVE BindingInv'
  <2>1. fill' \in Seq(FillItem)
    BY <1>1 DEF Assign, FillItem
  <2> QED
    BY <1>1, <2>1, SameBindings DEF Assign, BindingInv, bindingVars
<1>2. ASSUME ~halted, ApplyNext PROVE BindingInv'
  BY <1>2, ApplyKeepsBindings
<1>3. ASSUME ~halted, NEW d \in Delay, Send(d) PROVE BindingInv'
  BY <1>3, PublishKeepsBindings DEF Send
<1>4. ASSUME ~halted, NEW d \in Delay, Wait(d) PROVE BindingInv'
  BY <1>4, SameBindings DEF Wait, BindingInv, bindingVars
<1>5. CASE UNCHANGED messageVars
  <2>1. UNCHANGED <<halted, live_bindings, statics, fill>>
    BY <1>5 DEF messageVars, clockVars
  <2> QED
    BY <2>1 DEF BindingInv, LiveAntichain, BindingsPlaced, StaticsFollowBindings
<1> QED
  BY <1>1, <1>2, <1>3, <1>4, <1>5 DEF MessageNext

\* No two live bindings overlap, whatever a script assigns and in whatever
\* order, also when an assignment fails half way (vm.py:450-465).
THEOREM LiveBindingsNeverOverlap == MessageSpec => []LiveAntichain
<1>1. BindingInv => LiveAntichain
  BY DEF BindingInv
<1> QED
  BY <1>1, BindingInit, BindingStep, PTL DEF MessageSpec

\* A run that has not failed holds statics for the bindings in force and for
\* no other (vm.py:452-465).
THEOREM StaticsLiveAsLongAsBindings == MessageSpec => []StaticsFollowBindings
<1>1. BindingInv => StaticsFollowBindings
  BY DEF BindingInv
<1> QED
  BY <1>1, BindingInit, BindingStep, PTL DEF MessageSpec

-----------------------------------------------------------------------------
(* A live block finds its own timer. *)

\* The timers of an assignment are created before any of its calls is made, so
\* those of the pending calls exist, down to the elements of nested fills.
PendingTimersExist ==
  \A i \in DOMAIN fill : fill[i].value.timers \subseteq DOMAIN timers

LiveInv == BindingInv /\ LiveTimersExist /\ PendingTimersExist

\* Timers are created, reset and started, and none is ever removed.
LEMMA TimersStay ==
  ASSUME NEW names, NEW kind
  PROVE  DOMAIN Latched(names) = DOMAIN timers
         /\ DOMAIN Created(names, kind) = DOMAIN timers \cup names
BY DEF Latched, Created

\* What is left to do after a call has been made.
LEMMA TailTimers ==
  ASSUME NEW S, NEW f \in Seq(S), f # <<>>, NEW T,
         \A i \in DOMAIN f : f[i].value.timers \subseteq T
  PROVE  /\ Head(f).value.timers \subseteq T
         /\ \A i \in DOMAIN Tail(f) : Tail(f)[i].value.timers \subseteq T
         /\ Tail(f) \in Seq(S)
<1>1. Head(f) = f[1] /\ 1 \in DOMAIN f
  OBVIOUS
<1>2. \A i \in DOMAIN Tail(f) : i + 1 \in DOMAIN f /\ Tail(f)[i] = f[i + 1]
  OBVIOUS
<1> QED
  BY <1>1, <1>2

LEMMA JoinedTimers ==
  ASSUME NEW S, NEW f \in Seq(S), NEW g \in Seq(S), NEW T,
         \A i \in DOMAIN f : f[i].value.timers \subseteq T,
         \A i \in DOMAIN g : g[i].value.timers \subseteq T
  PROVE  \A i \in DOMAIN (f \o g) : (f \o g)[i].value.timers \subseteq T
<1> SUFFICES ASSUME NEW i \in DOMAIN (f \o g)
             PROVE  (f \o g)[i].value.timers \subseteq T
  OBVIOUS
<1>1. CASE i \in DOMAIN f
  BY <1>1
<1>2. CASE i \notin DOMAIN f
  <2>1. i - Len(f) \in DOMAIN g /\ (f \o g)[i] = g[i - Len(f)]
    BY <1>2
  <2> QED
    BY <2>1
<1> QED
  BY <1>1, <1>2

LEMMA ElementsTimers ==
  ASSUME NEW p, NEW v, <<p, v>> \in Placement, v.op = "array",
         Len(FieldsAt(p)) = Len(v.elements)
  PROVE  \A i \in DOMAIN Elements(p, v) : Elements(p, v)[i].value.timers \subseteq v.timers
<1>1. <<p, v>>[2] = v
  OBVIOUS
<1>2. \A i \in 1..Len(v.elements) : v.elements[i].timers \subseteq v.timers
  BY <1>1, PlacementAssumption
<1> QED
  BY <1>2 DEF Elements

LEMMA OwnTimer ==
  ASSUME NEW p, NEW v, <<p, v>> \in Placement, v.op = "live"
  PROVE  v.timer \in v.timers
<1>1. <<p, v>>[2] = v
  OBVIOUS
<1> QED
  BY <1>1, PlacementAssumption

LEMMA KeptTimers ==
  ASSUME LiveTimersExist, NEW p
  PROVE  \A q \in DOMAIN KeptBindings(p) : KeptBindings(p)[q].timer \in DOMAIN timers
BY Kept DEF LiveTimersExist

LEMMA ApplyKeepsTimers ==
  ASSUME LiveInv, ~halted, ApplyNext
  PROVE  LiveTimersExist' /\ PendingTimersExist'
<1> DEFINE p == Head(fill).path
           v == Head(fill).value
<1>1. <<p, v>> \in Placement /\ fill \in Seq(FillItem) /\ fill # <<>>
  BY PendingIsPlaced DEF LiveInv, BindingInv, ApplyNext
<1>2. /\ v.timers \subseteq DOMAIN timers
      /\ \A i \in DOMAIN Tail(fill) : Tail(fill)[i].value.timers \subseteq DOMAIN timers
      /\ Tail(fill) \in Seq(FillItem)
  BY <1>1, TailTimers DEF LiveInv, PendingTimersExist
<1>3. \A q \in DOMAIN KeptBindings(p) : KeptBindings(p)[q].timer \in DOMAIN timers
  BY KeptTimers DEF LiveInv
<1>4. v.op = "live" =>
        \A q \in DOMAIN With(KeptBindings(p), p, v) : With(KeptBindings(p), p, v)[q].timer \in DOMAIN timers
  BY <1>1, <1>2, <1>3, OwnTimer DEF With
<1> HIDE DEF p, v
<1>5. CASE ApplyStatic(p, v)
  <2>1. live_bindings' = KeptBindings(p) /\ fill' = Tail(fill) /\ DOMAIN timers' = DOMAIN timers
    BY <1>5, TimersStay DEF ApplyStatic, WriteValue, Claim
  <2> QED
    BY <1>2, <1>3, <2>1 DEF LiveTimersExist, PendingTimersExist
<1>6. CASE ApplyFill(p, v)
  <2>1. /\ live_bindings' = KeptBindings(p) /\ fill' = Elements(p, v) \o Tail(fill)
        /\ timers' = timers /\ v.op = "array" /\ Len(FieldsAt(p)) = Len(v.elements)
    BY <1>6 DEF ApplyFill, Claim, clockVars
  <2>2. Elements(p, v) \in Seq(FillItem)
    BY <1>1, <2>1, ElementsArePlaced DEF p, v
  <2>3. \A i \in DOMAIN Elements(p, v) : Elements(p, v)[i].value.timers \subseteq DOMAIN timers
    BY <1>1, <1>2, <2>1, ElementsTimers
  <2>4. \A i \in DOMAIN fill' : fill'[i].value.timers \subseteq DOMAIN timers
    BY <1>2, <2>1, <2>2, <2>3, JoinedTimers
  <2> QED
    BY <1>3, <2>1, <2>4 DEF LiveTimersExist, PendingTimersExist
<1>7. CASE ApplyLive(p, v)
  <2>1. /\ live_bindings' = With(KeptBindings(p), p, v) /\ fill' = Tail(fill)
        /\ DOMAIN timers' = DOMAIN timers /\ v.op = "live"
    BY <1>7, TimersStay DEF ApplyLive
  <2> QED
    BY <1>2, <1>4, <2>1 DEF LiveTimersExist, PendingTimersExist
<1>8. CASE FieldRaises(p, v)
  <2>1. /\ live_bindings' = IF v.op = "live" THEN With(KeptBindings(p), p, v) ELSE KeptBindings(p)
        /\ fill' = <<>> /\ DOMAIN timers' = DOMAIN timers
    BY <1>8, TimersStay DEF FieldRaises
  <2> QED
    BY <1>3, <1>4, <2>1, NothingBound DEF LiveTimersExist, PendingTimersExist
<1> QED
  BY <1>5, <1>6, <1>7, <1>8 DEF ApplyNext, ApplyField, p, v

LEMMA LiveStep == LiveInv /\ [MessageNext]_messageVars => LiveInv'
<1> SUFFICES ASSUME LiveInv, [MessageNext]_messageVars PROVE LiveTimersExist' /\ PendingTimersExist'
  BY BindingStep DEF LiveInv
<1>1. ASSUME NEW x \in Placement, Assign(x[1], x[2]) PROVE LiveTimersExist' /\ PendingTimersExist'
  <2>1. /\ DOMAIN timers' = DOMAIN timers \cup x[2].timers
        /\ fill' = <<[path |-> x[1], value |-> x[2]]>> /\ live_bindings' = live_bindings
    BY <1>1, TimersStay DEF Assign, bindingVars
  <2>2. \A i \in DOMAIN fill' : fill'[i].value = x[2]
    BY <2>1
  <2> QED
    BY <2>1, <2>2 DEF LiveInv, LiveTimersExist, PendingTimersExist
<1>2. ASSUME ~halted, ApplyNext PROVE LiveTimersExist' /\ PendingTimersExist'
  BY <1>2, ApplyKeepsTimers
<1>3. ASSUME NEW d \in Delay, Send(d) \/ Wait(d) \/ UNCHANGED messageVars
      PROVE  LiveTimersExist' /\ PendingTimersExist'
  <2>1. UNCHANGED <<live_bindings, fill>> /\ DOMAIN timers' = DOMAIN timers
    BY <1>3, TimersStay DEF Send, Publish, PublishRaises, Wait, bindingVars, messageVars, clockVars
  <2> QED
    BY <2>1 DEF LiveInv, LiveTimersExist, PendingTimersExist
<1>4. CASE UNCHANGED messageVars
  BY <1>4 DEF LiveInv, LiveTimersExist, PendingTimersExist, messageVars, clockVars
<1> QED
  BY <1>1, <1>2, <1>3, <1>4 DEF MessageNext

\* A live block in force always has its timer, and `_t` inside it a meaning:
\* also inside nested fills, and after one that failed (vm.py:109, vm.py:488).
THEOREM LiveBlocksKeepTheirTimers == MessageSpec => []LiveTimersExist
<1>1. MessageInit => LiveInv
  BY BindingInit, NothingBound DEF LiveInv, LiveTimersExist, PendingTimersExist, MessageInit
<1>2. LiveInv => LiveTimersExist
  BY DEF LiveInv
<1> QED
  BY <1>1, <1>2, LiveStep, PTL DEF MessageSpec
-----------------------------------------------------------------------------
(* The calls still to be made. *)

LEMMA LatchedReading ==
  ASSUME TimersTypeOK, NEW names, NEW n \in DOMAIN timers
  PROVE  /\ n \in DOMAIN Latched(names)
         /\ Latched(names)[n].offset =
              IF n \in names /\ timers[n].offset = Unlatched THEN master_t ELSE timers[n].offset
BY DEF TimersTypeOK, TimerState, Latched, IsUnlatched

\* Blocks whose assignment is under way have a timer again, not yet started.
PendingTimers == UNION {fill[k].value.timers : k \in DOMAIN fill}

PendingApart ==
  \A i, j \in DOMAIN fill : i # j => ~Overlap(fill[i].path, fill[j].path)

LEMMA SiblingsApart ==
  ASSUME NEW p \in Path, NEW f, NEW g, Append(p, f) \in Path, Append(p, g) \in Path
  PROVE  /\ IsPrefix(p, Append(p, f))
         /\ Overlap(Append(p, f), Append(p, g)) => f = g
<1> DEFINE S == STRING \cup {f, g}
<1>1. p \in Seq(S) /\ f \in S /\ g \in S
  BY DEF Path
<1> HIDE DEF S
<1>2. /\ Len(p) \in Nat /\ Len(Append(p, f)) = Len(p) + 1 /\ Len(Append(p, g)) = Len(p) + 1
      /\ \A i \in 1..Len(p) : Append(p, f)[i] = p[i]
      /\ Append(p, f)[Len(p) + 1] = f /\ Append(p, g)[Len(p) + 1] = g
  BY <1>1
<1>3. IsPrefix(p, Append(p, f))
  <2>1. Len(p) <= Len(Append(p, f)) /\ \A i \in 1..Len(p) : p[i] = Append(p, f)[i]
    BY <1>2
  <2> QED
    BY <2>1, PrefixByElements
<1>4. ASSUME Overlap(Append(p, f), Append(p, g)) PROVE f = g
  <2>1. Len(p) + 1 \in 1..Len(Append(p, f)) /\ Len(p) + 1 \in 1..Len(Append(p, g))
    BY <1>2
  <2>2. Append(p, f)[Len(p) + 1] = Append(p, g)[Len(p) + 1]
    BY <1>4, <2>1, PrefixByElements DEF Overlap
  <2> QED
    BY <1>2, <2>2
<1> QED
  BY <1>3, <1>4

LEMMA ApartBelow ==
  ASSUME NEW p \in Path, NEW q \in Path, NEW r \in Path, IsPrefix(p, q), ~Overlap(p, r)
  PROVE  ~Overlap(q, r) /\ ~Overlap(r, q)
<1>1. IsPrefix(q, r) => IsPrefix(p, r)
  BY PrefixOrder
<1>2. IsPrefix(r, q) => Overlap(p, r)
  BY PrefixOrder
<1> QED
  BY <1>1, <1>2 DEF Overlap

LEMMA PendingPaths ==
  ASSUME fill \in Seq(FillItem), NEW k \in DOMAIN fill
  PROVE  /\ fill[k].path \in Path
         /\ <<fill[k].path, fill[k].value>> \in Placement
<1>1. fill[k] \in FillItem
  OBVIOUS
<1>2. PICK x \in Placement : fill[k] = [path |-> x[1], value |-> x[2]]
  BY <1>1 DEF FillItem
<1> QED
  BY <1>2, PlacementAssumption DEF Path

\* A call that makes no further ones.
LEMMA CallDone ==
  ASSUME fill \in Seq(FillItem), fill # <<>>, PendingApart, fill' = Tail(fill)
  PROVE  /\ PendingApart'
         /\ PendingTimers' \subseteq PendingTimers
         /\ PendingTimers \subseteq PendingTimers' \cup Head(fill).value.timers
         /\ \A n \in PendingTimers' :
              \E k \in DOMAIN fill : n \in fill[k].value.timers /\ ~Overlap(fill[k].path, Head(fill).path)
<1>1. Head(fill) = fill[1] /\ 1 \in DOMAIN fill
  OBVIOUS
<1>2. \A i \in DOMAIN fill' : i + 1 \in DOMAIN fill /\ i + 1 # 1 /\ fill'[i] = fill[i + 1]
  OBVIOUS
<1>3. \A k \in DOMAIN fill : k # 1 => k - 1 \in DOMAIN fill' /\ fill[k] = fill'[k - 1]
  OBVIOUS
<1>4. \A i, j \in DOMAIN fill' : i # j => i + 1 # j + 1
  OBVIOUS
<1>5. PendingApart'
  BY <1>2, <1>4 DEF PendingApart
<1>6. ASSUME NEW n \in PendingTimers'
      PROVE  \E k \in DOMAIN fill : n \in fill[k].value.timers /\ ~Overlap(fill[k].path, Head(fill).path)
  <2>1. PICK i \in DOMAIN fill' : n \in fill'[i].value.timers
    BY DEF PendingTimers
  <2>2. i + 1 \in DOMAIN fill /\ i + 1 # 1 /\ fill'[i] = fill[i + 1]
    BY <1>2
  <2>3. ~Overlap(fill[i + 1].path, fill[1].path)
    BY <1>1, <2>2 DEF PendingApart
  <2> QED
    BY <1>1, <2>1, <2>2, <2>3
<1>7. PendingTimers' \subseteq PendingTimers
  BY <1>6 DEF PendingTimers
<1>8. ASSUME NEW n \in PendingTimers PROVE n \in PendingTimers' \/ n \in Head(fill).value.timers
  <2>1. PICK k \in DOMAIN fill : n \in fill[k].value.timers
    BY DEF PendingTimers
  <2>2. CASE k = 1
    BY <1>1, <2>1, <2>2
  <2>3. CASE k # 1
    <3>1. k - 1 \in DOMAIN fill' /\ n \in fill'[k - 1].value.timers
      BY <1>3, <2>1, <2>3
    <3> QED
      BY <3>1 DEF PendingTimers
  <2> QED
    BY <2>2, <2>3
<1> QED
  BY <1>5, <1>6, <1>7, <1>8

\* Each call in h is one of f, or one of g's but the first; all of those are there.
OpensInto(f, g, h) ==
  /\ \A i \in DOMAIN h : /\ i \in Nat
                         /\ \/ i \in 1..Len(f) /\ h[i] = f[i]
                            \/ /\ i - Len(f) + 1 \in DOMAIN g /\ i - Len(f) + 1 # 1
                               /\ h[i] = g[i - Len(f) + 1]
  /\ \A k \in DOMAIN g : k # 1 =>
       k + Len(f) - 1 \in DOMAIN h /\ h[k + Len(f) - 1] = g[k]

LEMMA Opened ==
  ASSUME NEW S, NEW f \in Seq(S), NEW g \in Seq(S), g # <<>>
  PROVE  OpensInto(f, g, f \o Tail(g))
<1> DEFINE h == f \o Tail(g)
<1>1. /\ Tail(g) \in Seq(S) /\ Len(f) \in Nat /\ Len(g) \in Nat /\ Len(g) >= 1 /\ Len(Tail(g)) = Len(g) - 1
      /\ DOMAIN g = 1..Len(g)
      /\ \A k \in 1 .. Len(g) - 1 : Tail(g)[k] = g[k + 1]
  OBVIOUS
<1>2. /\ DOMAIN h = 1 .. Len(f) + Len(g) - 1
      /\ \A i \in 1 .. Len(f) + Len(g) - 1 : h[i] = IF i <= Len(f) THEN f[i] ELSE Tail(g)[i - Len(f)]
  BY <1>1, ConcatProperties
<1> HIDE DEF h
<1>3. ASSUME NEW i \in DOMAIN h
      PROVE  /\ i \in Nat
             /\ \/ i \in 1..Len(f) /\ h[i] = f[i]
                \/ /\ i - Len(f) + 1 \in DOMAIN g /\ i - Len(f) + 1 # 1
                   /\ h[i] = g[i - Len(f) + 1]
  <2>1. CASE i <= Len(f)
    BY <1>1, <1>2, <2>1
  <2>2. CASE ~(i <= Len(f))
    <3>1. i - Len(f) \in 1 .. Len(g) - 1 /\ h[i] = Tail(g)[i - Len(f)]
      BY <1>1, <1>2, <2>2
    <3>2. h[i] = g[i - Len(f) + 1]
      BY <1>1, <3>1
    <3> QED
      BY <1>1, <1>2, <3>1, <3>2
  <2> QED
    BY <1>1, <1>2, <2>1, <2>2
<1>4. ASSUME NEW k \in DOMAIN g, k # 1
      PROVE  k + Len(f) - 1 \in DOMAIN h /\ h[k + Len(f) - 1] = g[k]
  <2>1. /\ k + Len(f) - 1 \in 1 .. Len(f) + Len(g) - 1 /\ ~(k + Len(f) - 1 <= Len(f))
        /\ (k + Len(f) - 1) - Len(f) = k - 1 /\ k - 1 \in 1 .. Len(g) - 1 /\ (k - 1) + 1 = k
    BY <1>1, <1>4
  <2>2. h[k + Len(f) - 1] = Tail(g)[k - 1]
    BY <1>2, <2>1
  <2>3. Tail(g)[k - 1] = g[k]
    BY <1>1, <2>1
  <2> QED
    BY <1>2, <2>1, <2>2, <2>3
<1> QED
  BY <1>3, <1>4 DEF OpensInto, h

\* A positional fill, which becomes the calls for its elements.
LEMMA CallOpened ==
  ASSUME fill \in Seq(FillItem), fill # <<>>, PendingApart,
         NEW p, NEW v, p = Head(fill).path, v = Head(fill).value,
         v.op = "array", Len(FieldsAt(p)) = Len(v.elements),
         fill' = Elements(p, v) \o Tail(fill)
  PROVE  /\ PendingApart'
         /\ PendingTimers' \subseteq PendingTimers
         /\ PendingTimers \subseteq PendingTimers' \cup v.timers
<1> DEFINE n == Len(v.elements)
           name(i) == FieldsAt(p)[i]
           later(i) == i - n + 1
           Before(i) == i \in 1..n /\ fill'[i].path = Append(p, name(i)) /\ fill'[i].value = v.elements[i]
           Later(i) == later(i) \in DOMAIN fill /\ later(i) # 1 /\ fill'[i] = fill[later(i)]
<1>1. <<p, v>> \in Placement /\ fill[1].path = p /\ fill[1].value = v /\ 1 \in DOMAIN fill
  BY PendingIsPlaced
<1>2. /\ n \in Nat /\ p \in Path
      /\ \A i \in 1..n : v.elements[i].timers \subseteq v.timers
      /\ \A i \in 1..n : <<Append(p, name(i)), v.elements[i]>> \in Placement
      /\ \A i, j \in 1..n : name(i) = name(j) => i = j
  <2>1. <<p, v>>[1] = p /\ <<p, v>>[2] = v
    OBVIOUS
  <2> QED
    BY <1>1, <2>1, PlacementAssumption DEF Path
<1>3. ASSUME NEW i \in 1..n PROVE Append(p, name(i)) \in Path
  <2>1. <<Append(p, name(i)), v.elements[i]>> \in Placement
    BY <1>2
  <2>2. <<Append(p, name(i)), v.elements[i]>>[1] = Append(p, name(i))
    OBVIOUS
  <2> QED
    BY <2>1, <2>2, PlacementAssumption DEF Path
<1>4. /\ Elements(p, v) \in Seq(FillItem) /\ Len(Elements(p, v)) = n
      /\ \A i \in 1..n : /\ Elements(p, v)[i].path = Append(p, name(i))
                         /\ Elements(p, v)[i].value = v.elements[i]
  <2>1. Elements(p, v) \in Seq(FillItem)
    BY <1>1, ElementsArePlaced
  <2>2. Elements(p, v) = [i \in 1..n |-> [path |-> Append(p, name(i)), value |-> v.elements[i]]]
    BY DEF Elements
  <2> HIDE DEF n, name
  <2>3. DOMAIN Elements(p, v) = 1..n
    BY <2>2
  <2>4. Len(Elements(p, v)) = n
    BY <1>2, <2>1, <2>3, LenProperties
  <2> QED
    BY <2>1, <2>2, <2>4
<1> HIDE DEF n, name
<1>5. /\ \A i \in DOMAIN fill' : /\ i \in Nat
                                 /\ \/ i \in 1..n /\ fill'[i] = Elements(p, v)[i]
                                    \/ Later(i)
      /\ \A k \in DOMAIN fill : k # 1 => k + n - 1 \in DOMAIN fill' /\ fill'[k + n - 1] = fill[k]
  <2> DEFINE made == Elements(p, v)
  <2>1. made \in Seq(FillItem) /\ Len(made) = n /\ fill' = made \o Tail(fill)
    BY <1>4
  <2> HIDE DEF made
  <2>2. OpensInto(made, fill, fill')
    BY <2>1, Opened
  <2> QED
    BY <2>1, <2>2 DEF OpensInto, made
<1> HIDE DEF later
<1>6. \A i \in DOMAIN fill' : Before(i) \/ Later(i)
  <2> SUFFICES ASSUME NEW i \in DOMAIN fill', i \in 1..n, fill'[i] = Elements(p, v)[i] PROVE Before(i)
    BY <1>5
  <2>1. Elements(p, v)[i].path = Append(p, name(i)) /\ Elements(p, v)[i].value = v.elements[i]
    BY <1>4
  <2> QED
    BY <2>1
<1>7. ASSUME NEW i, Before(i), NEW j, Later(j)
      PROVE  ~Overlap(fill'[i].path, fill'[j].path) /\ ~Overlap(fill'[j].path, fill'[i].path)
  <2>1. fill'[j].path \in Path /\ ~Overlap(p, fill'[j].path)
    BY <1>1, <1>7, PendingPaths DEF PendingApart
  <2>2. fill'[i].path \in Path /\ IsPrefix(p, fill'[i].path)
    BY <1>2, <1>3, <1>7, SiblingsApart
  <2> QED
    BY <1>2, <2>1, <2>2, ApartBelow
<1>8. ASSUME NEW i, Before(i), NEW j, Before(j), i # j
      PROVE  ~Overlap(fill'[i].path, fill'[j].path)
  <2>1. Append(p, name(i)) \in Path /\ Append(p, name(j)) \in Path /\ name(i) # name(j)
    BY <1>2, <1>3, <1>8
  <2>2. ~Overlap(Append(p, name(i)), Append(p, name(j)))
    BY <1>2, <2>1, SiblingsApart
  <2> QED
    BY <1>8, <2>2
<1>9. ASSUME NEW i \in Nat, Later(i), NEW j \in Nat, Later(j), i # j
      PROVE  ~Overlap(fill'[i].path, fill'[j].path)
  <2>1. later(i) # later(j)
    BY <1>2, <1>9 DEF later
  <2> QED
    BY <1>9, <2>1 DEF PendingApart
<1>10. ASSUME NEW i \in DOMAIN fill', NEW t \in fill'[i].value.timers PROVE t \in PendingTimers
  <2>1. CASE Before(i)
    <3>1. t \in v.timers
      BY <1>2, <1>10, <2>1
    <3> QED
      BY <1>1, <3>1 DEF PendingTimers
  <2>2. CASE Later(i)
    BY <1>10, <2>2 DEF PendingTimers
  <2> QED
    BY <1>6, <2>1, <2>2
<1>11. ASSUME NEW k \in DOMAIN fill, NEW t \in fill[k].value.timers, t \notin v.timers
       PROVE  t \in PendingTimers'
  <2>1. k # 1
    BY <1>1, <1>11
  <2>2. k + n - 1 \in DOMAIN fill' /\ t \in fill'[k + n - 1].value.timers
    BY <1>5, <1>11, <2>1
  <2> QED
    BY <2>2 DEF PendingTimers
<1> HIDE DEF Before, Later
<1>12. PendingApart'
  <2> SUFFICES ASSUME NEW i \in DOMAIN fill', NEW j \in DOMAIN fill', i # j
               PROVE  ~Overlap(fill'[i].path, fill'[j].path)
    BY DEF PendingApart
  <2>1. i \in Nat /\ j \in Nat /\ (Before(i) \/ Later(i)) /\ (Before(j) \/ Later(j))
    BY <1>5, <1>6
  <2> QED
    BY <1>7, <1>8, <1>9, <2>1
<1>13. PendingTimers' \subseteq PendingTimers
  BY <1>10 DEF PendingTimers
<1>14. PendingTimers \subseteq PendingTimers' \cup v.timers
  <2> SUFFICES ASSUME NEW t \in PendingTimers, t \notin v.timers PROVE t \in PendingTimers'
    OBVIOUS
  <2>1. PICK k \in DOMAIN fill : t \in fill[k].value.timers
    BY DEF PendingTimers
  <2> QED
    BY <1>11, <2>1
<1> QED
  BY <1>12, <1>13, <1>14
-----------------------------------------------------------------------------
(* What a block counts and when its `_t` starts live in different tables.      *)

\* The timers of these blocks are there, and nothing has started them yet.
Unstarted(names) ==
  \A x \in Placement : x[2].op = "live" /\ x[2].timer \in names =>
    x[2].timer \in DOMAIN timers /\ IsUnlatched(x[2].timer)

\* A binding no send has evaluated has a timer that has not started; one that
\* has been evaluated has a running timer, unless it is about to be bound again.
BindingsAfresh(names) ==
  \A p \in DOMAIN live_bindings :
    LET b == live_bindings[p]
    IN  /\ statics[b.timer] = 0 /\ b.timer \notin b.reads => IsUnlatched(b.timer)
        /\ statics[b.timer] > 0 /\ b.timer \in b.bodyReads => ~IsUnlatched(b.timer) \/ b.timer \in names

\* Reading a block's private timer takes the block, or what holds it.
LEMMA PrivateReads ==
  ASSUME NEW x \in Placement, x[2].op = "live",
         NEW p, NEW v, <<p, v>> \in Placement
  PROVE  /\ x[2].timer \in v.timers => IsPrefix(p, x[1])
         /\ x[2].timer \in v.reads => x[2].timer \in v.timers
         /\ v.op = "live" /\ x[2].timer \in v.timers => x = <<p, v>>
<1>1. <<p, v>>[1] = p /\ <<p, v>>[2] = v
  OBVIOUS
<1> QED
  BY <1>1, PlacementAssumption, PrivacyAssumption

\* What a binding has is its own as long as no write overlaps it.
LEMMA KeptAlone ==
  ASSUME LiveInv, ~halted, NEW p, NEW v, <<p, v>> \in Placement,
         NEW q \in DOMAIN KeptBindings(p)
  PROVE  LET b == live_bindings[q]
         IN  /\ q \in DOMAIN live_bindings /\ KeptBindings(p)[q] = b
             /\ b.timer \in DOMAIN KeptStatics(p) /\ KeptStatics(p)[b.timer] = statics[b.timer]
             /\ b.timer \in DOMAIN timers
             /\ b.timer \notin v.timers /\ b.timer \notin v.reads
<1> DEFINE b == live_bindings[q]
<1>1. q \in DOMAIN live_bindings \ Owned(p) /\ KeptBindings(p)[q] = b
  BY Kept
<1>2. BindingsPlaced /\ LiveTimersExist /\ DOMAIN statics = {live_bindings[r].timer : r \in DOMAIN live_bindings}
  BY DEF LiveInv, BindingInv, StaticsFollowBindings
<1>3. DOMAIN KeptStatics(p) = {live_bindings[r].timer : r \in DOMAIN live_bindings \ Owned(p)}
  BY <1>2, ClaimedStatics
<1>4. b.timer \in DOMAIN KeptStatics(p)
  BY <1>1, <1>3
<1>5. KeptStatics(p)[b.timer] = statics[b.timer]
  BY <1>4 DEF KeptStatics, Restrict
<1>6. b.timer \in DOMAIN timers
  BY <1>1, <1>2 DEF LiveTimersExist
<1>7. b.timer \notin v.timers /\ b.timer \notin v.reads
  <2> DEFINE x == <<q, b>>
  <2>1. x \in Placement /\ x[2].op = "live" /\ x[2].timer = b.timer /\ x[1] = q
    BY <1>1, <1>2 DEF BindingsPlaced
  <2> HIDE DEF x
  <2>2. /\ x[2].timer \in v.timers => IsPrefix(p, x[1])
        /\ x[2].timer \in v.reads => x[2].timer \in v.timers
    BY <2>1, PrivateReads
  <2>3. ~IsPrefix(p, q)
    BY <1>1 DEF Owned, Overlap
  <2> QED
    BY <2>1, <2>2, <2>3
<1> QED
  BY <1>1, <1>4, <1>5, <1>6, <1>7

\* A call that succeeds touches only the timers it reads.
CallMade(p, v) == ApplyStatic(p, v) \/ ApplyFill(p, v) \/ ApplyLive(p, v)

LEMMA CallKeepsPending ==
  ASSUME fill \in Seq(FillItem), fill # <<>>, PendingApart,
         NEW p, NEW v, p = Head(fill).path, v = Head(fill).value, CallMade(p, v)
  PROVE  /\ PendingApart' /\ PendingTimers' \subseteq PendingTimers
         /\ PendingTimers \subseteq PendingTimers' \cup v.timers
         /\ DOMAIN timers' = DOMAIN timers
         /\ \A n \in DOMAIN timers : n \notin v.reads => timers'[n] = timers[n]
<1>1. CASE ApplyStatic(p, v)
  <2>1. fill' = Tail(fill) /\ timers' = Latched(v.reads)
    BY <1>1 DEF ApplyStatic, WriteValue
  <2> QED
    BY <2>1, CallDone DEF Latched
<1>2. CASE ApplyFill(p, v)
  <2>1. /\ fill' = Elements(p, v) \o Tail(fill) /\ timers' = timers
        /\ v.op = "array" /\ Len(FieldsAt(p)) = Len(v.elements)
    BY <1>2 DEF ApplyFill, clockVars
  <2> QED
    BY <2>1, CallOpened
<1>3. CASE ApplyLive(p, v)
  <2>1. fill' = Tail(fill) /\ timers' = Latched(v.reads)
    BY <1>3 DEF ApplyLive
  <2> QED
    BY <2>1, CallDone DEF Latched
<1> QED
  BY <1>1, <1>2, <1>3 DEF CallMade

\* A call starts none of the timers of the calls after it.
LEMMA CallKeepsUnstarted ==
  ASSUME fill \in Seq(FillItem), fill # <<>>, PendingApart, Unstarted(PendingTimers),
         NEW p, NEW v, p = Head(fill).path, v = Head(fill).value, CallMade(p, v)
  PROVE  Unstarted(PendingTimers)'
<1>1. <<p, v>> \in Placement
  BY PendingIsPlaced
<1>2. /\ PendingTimers' \subseteq PendingTimers
      /\ DOMAIN timers' = DOMAIN timers
      /\ \A n \in DOMAIN timers : n \notin v.reads => timers'[n] = timers[n]
  BY CallKeepsPending
<1> SUFFICES ASSUME NEW x \in Placement, x[2].op = "live", x[2].timer \in PendingTimers'
             PROVE  x[2].timer \in DOMAIN timers' /\ timers'[x[2].timer].offset = Unlatched
  BY DEF Unstarted, IsUnlatched
<1>3. x[2].timer \in DOMAIN timers /\ timers[x[2].timer].offset = Unlatched
  BY <1>2 DEF Unstarted, IsUnlatched
<1>4. /\ x[2].timer \in v.reads => x[2].timer \in v.timers
      /\ v.op = "live" /\ x[2].timer \in v.timers => x = <<p, v>>
  BY <1>1, PrivateReads
<1>5. CASE ApplyStatic(p, v)
  <2>1. v.timers = {}
    <3>1. <<p, v>>[2] = v
      OBVIOUS
    <3>2. v.timers # {} => v.op \in {"live", "array"} /\ v.values = {}
      BY <1>1, <3>1, PrivacyAssumption
    <3> QED
      BY <1>5, <3>2 DEF ApplyStatic, StaticValues
  <2> QED
    BY <1>2, <1>3, <1>4, <2>1
<1>6. CASE ApplyFill(p, v)
  BY <1>3, <1>6 DEF ApplyFill, clockVars
<1>7. CASE ApplyLive(p, v)
  <2>1. v.op = "live" /\ fill' = Tail(fill)
    BY <1>7 DEF ApplyLive
  <2>2. PICK k \in DOMAIN fill : x[2].timer \in fill[k].value.timers /\ ~Overlap(fill[k].path, p)
    BY <2>1, CallDone
  <2>3. x[2].timer \notin v.timers
    <3>1. IsPrefix(fill[k].path, x[1])
      BY <2>2, PendingPaths, PrivateReads
    <3>2. x = <<p, v>> => x[1] = p
      OBVIOUS
    <3> QED
      BY <1>4, <2>1, <2>2, <3>1, <3>2 DEF Overlap
  <2> QED
    BY <1>2, <1>3, <1>4, <2>3
<1> QED
  BY <1>5, <1>6, <1>7 DEF CallMade

\* A binding starts with a timer that nothing has started since its assignment
\* created it, and the others keep theirs.
LEMMA CallKeepsAfresh ==
  ASSUME LiveInv, ~halted, TimersTypeOK, fill # <<>>, PendingApart,
         Unstarted(PendingTimers), BindingsAfresh(PendingTimers),
         NEW p, NEW v, p = Head(fill).path, v = Head(fill).value, CallMade(p, v)
  PROVE  BindingsAfresh(PendingTimers)'
<1>1. fill \in Seq(FillItem) /\ <<p, v>> \in Placement
  BY PendingIsPlaced DEF LiveInv, BindingInv
<1>2. /\ PendingTimers \subseteq PendingTimers' \cup v.timers
      /\ \A n \in DOMAIN timers : n \notin v.reads => timers'[n] = timers[n]
  BY <1>1, CallKeepsPending
<1>3. ASSUME NEW q \in DOMAIN KeptBindings(p), live_bindings'[q] = KeptBindings(p)[q],
             statics'[live_bindings[q].timer] = KeptStatics(p)[live_bindings[q].timer]
      PROVE  LET b == live_bindings'[q]
             IN  /\ statics'[b.timer] = 0 /\ b.timer \notin b.reads => timers'[b.timer].offset = Unlatched
                 /\ statics'[b.timer] > 0 /\ b.timer \in b.bodyReads =>
                      timers'[b.timer].offset # Unlatched \/ b.timer \in PendingTimers'
  <2> DEFINE b == live_bindings[q]
  <2>1. /\ q \in DOMAIN live_bindings /\ live_bindings'[q] = b
        /\ statics'[b.timer] = statics[b.timer]
        /\ b.timer \in DOMAIN timers /\ b.timer \notin v.timers /\ b.timer \notin v.reads
    BY <1>1, <1>3, KeptAlone
  <2>2. timers'[b.timer] = timers[b.timer]
    BY <1>2, <2>1
  <2>3. /\ statics[b.timer] = 0 /\ b.timer \notin b.reads => timers[b.timer].offset = Unlatched
        /\ statics[b.timer] > 0 /\ b.timer \in b.bodyReads =>
             timers[b.timer].offset # Unlatched \/ b.timer \in PendingTimers
    BY <2>1 DEF BindingsAfresh, IsUnlatched
  <2> HIDE DEF b
  <2> QED
    BY <1>2, <2>1, <2>2, <2>3
<1>4. CASE Claim(p)
  <2>1. live_bindings' = KeptBindings(p) /\ statics' = KeptStatics(p)
    BY <1>4 DEF Claim
  <2> QED
    BY <1>3, <2>1 DEF BindingsAfresh, IsUnlatched
<1>5. CASE ApplyLive(p, v)
  <2>1. /\ DOMAIN live_bindings' = {p} \cup DOMAIN KeptBindings(p) /\ live_bindings'[p] = v
        /\ \A q \in DOMAIN KeptBindings(p) : q # p => live_bindings'[q] = KeptBindings(p)[q]
        /\ statics'[v.timer] = 0
        /\ \A n \in DOMAIN KeptStatics(p) : n # v.timer => statics'[n] = KeptStatics(p)[n]
        /\ timers' = Latched(v.reads) /\ v.op = "live"
    BY <1>5 DEF ApplyLive, With
  <2>2. v.timer \in v.timers /\ v.timer \in PendingTimers
    <3>1. v.timer \in v.timers
      BY <1>1, <2>1, OwnTimer
    <3>2. Head(fill) = fill[1] /\ 1 \in DOMAIN fill
      BY <1>1
    <3> QED
      BY <3>1, <3>2 DEF PendingTimers
  <2>3. v.timer \in DOMAIN timers /\ timers[v.timer].offset = Unlatched
    <3> DEFINE x == <<p, v>>
    <3>1. x \in Placement /\ x[2] = v
      BY <1>1
    <3> HIDE DEF x
    <3> QED
      BY <2>1, <2>2, <3>1 DEF Unstarted, IsUnlatched
  <2>4. v.timer \notin v.reads => timers'[v.timer].offset = Unlatched
    BY <2>1, <2>3, LatchedReading
  <2>5. ASSUME NEW q \in DOMAIN live_bindings', q # p
        PROVE  LET b == live_bindings'[q]
               IN  /\ statics'[b.timer] = 0 /\ b.timer \notin b.reads => timers'[b.timer].offset = Unlatched
                   /\ statics'[b.timer] > 0 /\ b.timer \in b.bodyReads =>
                        timers'[b.timer].offset # Unlatched \/ b.timer \in PendingTimers'
    <3>1. q \in DOMAIN KeptBindings(p) /\ live_bindings'[q] = KeptBindings(p)[q]
      BY <2>1, <2>5
    <3>2. live_bindings[q].timer \in DOMAIN KeptStatics(p) /\ live_bindings[q].timer # v.timer
      BY <1>1, <2>2, <3>1, KeptAlone
    <3> QED
      BY <1>3, <2>1, <3>1, <3>2
  <2> SUFFICES ASSUME NEW q \in DOMAIN live_bindings'
               PROVE  LET b == live_bindings'[q]
                      IN  /\ statics'[b.timer] = 0 /\ b.timer \notin b.reads => timers'[b.timer].offset = Unlatched
                          /\ statics'[b.timer] > 0 /\ b.timer \in b.bodyReads =>
                               timers'[b.timer].offset # Unlatched \/ b.timer \in PendingTimers'
    BY DEF BindingsAfresh, IsUnlatched
  <2>6. CASE q = p
    <3>1. live_bindings'[q] = v /\ statics'[v.timer] = 0
      BY <2>1, <2>6
    <3> QED
      BY <2>4, <3>1
  <2> QED
    BY <2>5, <2>6
<1> QED
  BY <1>4, <1>5 DEF CallMade, ApplyStatic, WriteValue, ApplyFill

-----------------------------------------------------------------------------
(* Storing values in a tree: what is found below, above and beside them.     *)

Stored(values) == UNION {{p \o r : r \in DOMAIN values[p]} : p \in DOMAIN values}
Above(values) == UNION {StrictPrefixes(p) : p \in DOMAIN values}
Beside(values, q) == \A p \in DOMAIN values : ~IsPrefix(p, q)

\* Values to be stored: trees at places of which none lies inside another.
AreValues(values) ==
  /\ DOMAIN values \subseteq Path
  /\ \A p \in DOMAIN values : IsTree(values[p])
  /\ \A p, q \in DOMAIN values : p # q => ~Overlap(p, q)

LEMMA TreePaths ==
  ASSUME NEW tree, IsTree(tree)
  PROVE  /\ DOMAIN tree \subseteq Path /\ <<>> \in DOMAIN tree
         /\ \A q \in DOMAIN tree : \A r \in StrictPrefixes(q) : r \in DOMAIN tree /\ tree[r] = Object
BY DEF IsTree, Path

LEMMA OverlayDomain ==
  ASSUME NEW tree, NEW values
  PROVE  DOMAIN Overlay(tree, values) =
           Stored(values) \cup Above(values) \cup {q \in DOMAIN tree : Beside(values, q)}
BY DEF Overlay, Stored, Above, Beside

LEMMA OverlayIsAFunction ==
  ASSUME NEW tree, NEW values
  PROVE  Overlay(tree, values) =
           [q \in DOMAIN Overlay(tree, values) |-> Overlay(tree, values)[q]]
<1> DEFINE places == Stored(values) \cup Above(values) \cup {q \in DOMAIN tree : Beside(values, q)}
           owner(q) == CHOOSE p \in DOMAIN values : IsPrefix(p, q)
           at(q) == IF q \in Stored(values) THEN values[owner(q)][Suffix(owner(q), q)]
                    ELSE IF q \in Above(values) THEN Object ELSE tree[q]
<1>1. Overlay(tree, values) = [q \in places |-> at(q)]
  BY DEF Overlay, Stored, Above, Beside
<1> HIDE DEF places, at
<1> QED
  BY <1>1

LEMMA StoredBelow ==
  ASSUME NEW values, AreValues(values), NEW q \in Path
  PROVE  q \in Stored(values) <=>
           \E p \in DOMAIN values : IsPrefix(p, q) /\ Suffix(p, q) \in DOMAIN values[p]
<1>1. ASSUME NEW p \in DOMAIN values, NEW r \in DOMAIN values[p], q = p \o r
      PROVE  IsPrefix(p, q) /\ Suffix(p, q) = r
  <2>1. p \in Path /\ r \in Path
    BY TreePaths DEF AreValues
  <2> QED
    BY <1>1, <2>1, SuffixOfExtended
<1>2. ASSUME NEW p \in DOMAIN values, IsPrefix(p, q)
      PROVE  p \o Suffix(p, q) = q
  BY <1>2, SuffixOfPath DEF AreValues
<1> QED
  BY <1>1, <1>2 DEF Stored

LEMMA OverlayBelow ==
  ASSUME NEW tree, NEW values, AreValues(values),
         NEW p \in DOMAIN values, NEW q \in Path, IsPrefix(p, q)
  PROVE  /\ q \in DOMAIN Overlay(tree, values) <=> Suffix(p, q) \in DOMAIN values[p]
         /\ q \in DOMAIN Overlay(tree, values) => Overlay(tree, values)[q] = values[p][Suffix(p, q)]
<1>1. \A o \in DOMAIN values : IsPrefix(o, q) => o = p
  BY PrefixOrder DEF AreValues
<1>2. q \notin Above(values)
  <2> SUFFICES ASSUME NEW o \in DOMAIN values, q \in StrictPrefixes(o) PROVE FALSE
    BY DEF Above
  <2>1. o \in Path /\ p \in Path
    BY DEF AreValues
  <2>2. IsPrefix(q, o) /\ q # o
    BY <2>1, StrictPrefix
  <2>3. o # p
    BY <2>1, <2>2, PrefixOrder
  <2>4. IsPrefix(p, o)
    BY <2>1, <2>2, PrefixOrder
  <2> QED
    BY <2>3, <2>4 DEF AreValues, Overlap
<1>3. ~Beside(values, q)
  BY DEF Beside
<1>4. q \in DOMAIN Overlay(tree, values) <=> q \in Stored(values)
  BY <1>2, <1>3, OverlayDomain
<1>5. q \in Stored(values) <=> Suffix(p, q) \in DOMAIN values[p]
  BY <1>1, StoredBelow
<1>6. ASSUME q \in Stored(values)
      PROVE  Overlay(tree, values)[q] = values[p][Suffix(p, q)]
  <2> DEFINE owner == CHOOSE o \in DOMAIN values : IsPrefix(o, q)
  <2>1. owner = p
    BY <1>1
  <2>2. q \in DOMAIN Overlay(tree, values)
    BY <1>4, <1>6
  <2>3. Overlay(tree, values)[q] = values[owner][Suffix(owner, q)]
    BY <1>6, <2>2 DEF Overlay, Stored
  <2> QED
    BY <2>1, <2>3
<1> QED
  BY <1>4, <1>5, <1>6

LEMMA OverlayAbove ==
  ASSUME NEW tree, NEW values, AreValues(values),
         NEW p \in DOMAIN values, NEW q \in StrictPrefixes(p)
  PROVE  q \in DOMAIN Overlay(tree, values) /\ Overlay(tree, values)[q] = Object
<1>1. p \in Path
  BY DEF AreValues
<1>2. q \in Path /\ IsPrefix(q, p) /\ q # p
  BY <1>1, StrictPrefix
<1>3. q \in Above(values)
  BY DEF Above
<1>4. q \notin Stored(values)
  <2> SUFFICES ASSUME NEW o \in DOMAIN values, IsPrefix(o, q) PROVE FALSE
    BY <1>2, StoredBelow
  <2>1. o \in Path
    BY DEF AreValues
  <2>2. IsPrefix(o, p)
    BY <1>1, <1>2, <2>1, PrefixOrder
  <2>3. o = p
    BY <2>2 DEF AreValues, Overlap
  <2> QED
    BY <1>1, <1>2, <2>3, PrefixOrder
<1>5. q \in DOMAIN Overlay(tree, values)
  BY <1>3, OverlayDomain
<1> QED
  BY <1>3, <1>4, <1>5 DEF Overlay, Stored, Above

LEMMA OverlayBeside ==
  ASSUME NEW tree, NEW values, AreValues(values),
         NEW q \in Path, Beside(values, q), q \notin Above(values)
  PROVE  /\ q \in DOMAIN Overlay(tree, values) <=> q \in DOMAIN tree
         /\ q \in DOMAIN Overlay(tree, values) => Overlay(tree, values)[q] = tree[q]
<1>1. q \notin Stored(values)
  BY StoredBelow DEF Beside
<1>2. q \in DOMAIN Overlay(tree, values) <=> q \in DOMAIN tree
  BY <1>1, OverlayDomain
<1> QED
  BY <1>1, <1>2 DEF Overlay, Stored, Above

LEMMA OverlayPaths ==
  ASSUME NEW tree, DOMAIN tree \subseteq Path, NEW values, AreValues(values)
  PROVE  DOMAIN Overlay(tree, values) \subseteq Path
<1> SUFFICES ASSUME NEW q \in DOMAIN Overlay(tree, values) PROVE q \in Path
  OBVIOUS
<1>1. CASE q \in Stored(values)
  <2>1. PICK p \in DOMAIN values : \E r \in DOMAIN values[p] : q = p \o r
    BY <1>1 DEF Stored
  <2> QED
    BY <2>1, TreePaths, SuffixOfExtended DEF AreValues
<1>2. CASE q \in Above(values)
  BY <1>2, StrictPrefix DEF Above, AreValues
<1>3. CASE q \in DOMAIN tree
  BY <1>3
<1> QED
  BY <1>1, <1>2, <1>3, OverlayDomain

\* Storing values in a tree gives a tree.
LEMMA OverlayIsTree ==
  ASSUME NEW tree, IsTree(tree), NEW values, AreValues(values)
  PROVE  IsTree(Overlay(tree, values))
<1> DEFINE result == Overlay(tree, values)
<1>1. \A q \in DOMAIN result : q \in Path
  BY TreePaths, OverlayPaths
<1>2. \A q \in Path : q \in Above(values) => q \in DOMAIN result /\ result[q] = Object
  BY OverlayAbove DEF Above
<1>3. <<>> \in DOMAIN result
  <2>1. <<>> \in Path
    BY EmptySeq DEF Path
  <2>2. CASE <<>> \in DOMAIN values
    BY <2>1, <2>2, OverlayBelow, TreePaths, RootOfPaths DEF AreValues
  <2>3. CASE \E p \in DOMAIN values : p # <<>>
    <3>1. PICK p \in DOMAIN values : p # <<>>
      BY <2>3
    <3>2. p \in Path
      BY DEF AreValues
    <3>3. <<>> \in StrictPrefixes(p)
      BY <3>1, <3>2, RootOfPaths, StrictPrefix
    <3> QED
      BY <3>3, OverlayAbove
  <2>4. CASE DOMAIN values = {}
    <3>1. Beside(values, <<>>)
      BY <2>4 DEF Beside
    <3> QED
      BY <3>1, OverlayDomain, TreePaths
  <2> QED
    BY <2>2, <2>3, <2>4
<1>4. ASSUME NEW q \in DOMAIN result, NEW r \in StrictPrefixes(q)
      PROVE  r \in DOMAIN result /\ result[r] = Object
  <2>1. q \in Path
    BY <1>1
  <2>2. r \in Path /\ IsPrefix(r, q) /\ r # q
    BY <2>1, StrictPrefix
  <2>3. CASE r \in Above(values)
    BY <1>2, <2>2, <2>3
  <2>4. CASE \E p \in DOMAIN values : IsPrefix(p, r)
    <3>1. PICK p \in DOMAIN values : IsPrefix(p, r)
      BY <2>4
    <3>2. p \in Path /\ IsTree(values[p])
      BY DEF AreValues
    <3>3. IsPrefix(p, q)
      BY <2>1, <2>2, <3>1, <3>2, PrefixOrder
    <3>4. Suffix(p, q) \in DOMAIN values[p]
      BY <2>1, <3>3, OverlayBelow
    <3>5. Suffix(p, r) \in StrictPrefixes(Suffix(p, q))
      BY <2>1, <2>2, <3>1, <3>2, <3>3, SuffixOrder
    <3>6. Suffix(p, r) \in DOMAIN values[p] /\ values[p][Suffix(p, r)] = Object
      BY <3>2, <3>4, <3>5, TreePaths
    <3> QED
      BY <2>2, <3>1, <3>6, OverlayBelow
  <2>5. CASE r \notin Above(values) /\ Beside(values, r)
    <3>1. q \notin Above(values)
      <4> SUFFICES ASSUME NEW p \in DOMAIN values, q \in StrictPrefixes(p) PROVE r \in Above(values)
        BY <2>5 DEF Above
      <4>1. p \in Path
        BY DEF AreValues
      <4>2. IsPrefix(q, p) /\ q # p
        BY <4>1, StrictPrefix
      <4>3. IsPrefix(r, p) /\ r # p
        BY <2>1, <2>2, <4>1, <4>2, PrefixOrder
      <4> QED
        BY <2>2, <4>1, <4>3, StrictPrefix DEF Above
    <3>2. Beside(values, q)
      <4> SUFFICES ASSUME NEW p \in DOMAIN values, IsPrefix(p, q) PROVE FALSE
        BY DEF Beside
      <4>1. p \in Path
        BY DEF AreValues
      <4>2. Overlap(p, r)
        BY <2>1, <2>2, <4>1, PrefixOrder
      <4>3. IsPrefix(r, p) /\ r # p
        BY <2>5, <2>2, <4>1, <4>2, PrefixOrder DEF Overlap, Beside
      <4> QED
        BY <2>2, <2>5, <4>1, <4>3, StrictPrefix DEF Above
    <3>3. q \in DOMAIN tree
      BY <2>1, <3>1, <3>2, OverlayBeside
    <3>4. r \in DOMAIN tree /\ tree[r] = Object
      BY <3>3, TreePaths
    <3> QED
      BY <2>2, <2>5, <3>4, OverlayBeside
  <2> QED
    BY <2>3, <2>4, <2>5 DEF Beside
<1>5. result = [q \in DOMAIN result |-> result[q]]
  BY OverlayIsAFunction
<1> HIDE DEF result
<1> QED
  BY <1>1, <1>3, <1>4, <1>5 DEF IsTree, Path, result
LEMMA OverlayIsObject ==
  ASSUME NEW tree, IsObject(tree), IsTree(tree), NEW values, AreValues(values),
         <<>> \in DOMAIN values => IsObject(values[<<>>])
  PROVE  IsObject(Overlay(tree, values))
<1>1. <<>> \in Path /\ <<>> \in DOMAIN Overlay(tree, values)
  BY EmptySeq, OverlayIsTree DEF Path, IsTree
<1>2. CASE <<>> \in DOMAIN values
  <2>1. IsPrefix(<<>>, <<>>) /\ Suffix(<<>>, <<>>) = <<>>
    BY <1>1, RootOfPaths
  <2>2. Overlay(tree, values)[<<>>] = values[<<>>][<<>>]
    BY <1>1, <1>2, <2>1, OverlayBelow
  <2> QED
    BY <1>2, <2>2 DEF IsObject
<1>3. CASE <<>> \in Above(values)
  <2>1. Overlay(tree, values)[<<>>] = Object
    BY <1>3, OverlayAbove DEF Above
  <2> QED
    BY <2>1 DEF IsObject, Object
<1>4. CASE <<>> \notin DOMAIN values /\ <<>> \notin Above(values)
  <2>1. Beside(values, <<>>)
    BY <1>1, <1>4, RootOfPaths DEF Beside, AreValues
  <2>2. Overlay(tree, values)[<<>>] = tree[<<>>]
    BY <1>1, <1>4, <2>1, OverlayBeside
  <2> QED
    BY <2>2 DEF IsObject
<1> QED
  BY <1>2, <1>3, <1>4

-----------------------------------------------------------------------------
(* The message a run assembles is an object, whatever is written into it.    *)

LEMMA OneValue ==
  ASSUME NEW p \in Path, NEW tree, IsTree(tree)
  PROVE  AreValues([q \in {p} |-> tree])
BY DEF AreValues

LEMMA EmptyObjectIsTree == IsTree(EmptyObject) /\ IsObject(EmptyObject)
<1>1. <<>> \in Path
  BY EmptySeq DEF Path
<1>2. StrictPrefixes(<<>>) = {}
  BY <1>1, StrictPrefix, RootOfPaths
<1> QED
  BY <1>1, <1>2 DEF IsTree, IsObject, EmptyObject, Object, Path

LEMMA EnvelopeIsObject ==
  ASSUME NEW tree, IsTree(tree)
  PROVE  IsTree(Envelope(tree)) /\ IsObject(Envelope(tree))
<1>1. <<"data">> \in Path
  BY DataIsAName DEF Path
<1>2. AreValues([q \in {<<"data">>} |-> tree])
  BY <1>1, OneValue
<1> QED
  BY <1>1, <1>2, EmptyObjectIsTree, OverlayIsTree, OverlayIsObject DEF Envelope

LEMMA StoreIsObject ==
  ASSUME NEW m, IsTree(m), IsObject(m), NEW p \in Path, NEW tree, IsTree(tree)
  PROVE  IsTree(Store(m, p, tree)) /\ IsObject(Store(m, p, tree))
<1>1. CASE p = <<>>
  BY <1>1, EnvelopeIsObject DEF Store
<1>2. CASE p # <<>>
  <2>1. AreValues([q \in {p} |-> tree])
    BY OneValue
  <2> QED
    BY <1>2, <2>1, OverlayIsTree, OverlayIsObject DEF Store
<1> QED
  BY <1>1, <1>2

\* What follows p in a tree is a tree.
LEMMA SubtreeAt ==
  ASSUME NEW tree, IsTree(tree), NEW p \in Path
  PROVE  /\ \A r : r \in DOMAIN Subtree(tree, p) <=> r \in Path /\ p \o r \in DOMAIN tree
         /\ \A r \in DOMAIN Subtree(tree, p) : Subtree(tree, p)[r] = tree[p \o r]
<1>1. DOMAIN tree \subseteq Path
  BY TreePaths
<1>2. \A q \in DOMAIN tree : IsPrefix(p, q) => Suffix(p, q) \in Path /\ p \o Suffix(p, q) = q
  BY <1>1, SuffixOfPath
<1>3. \A r \in Path : IsPrefix(p, p \o r) /\ Suffix(p, p \o r) = r
  BY SuffixOfExtended
<1> QED
  BY <1>2, <1>3 DEF Subtree

LEMMA ExtendedOrder ==
  ASSUME NEW p \in Path, NEW r \in Path, NEW s \in StrictPrefixes(r)
  PROVE  p \o s \in StrictPrefixes(p \o r)
<1>1. s \in Path /\ IsPrefix(s, r) /\ s # r
  BY StrictPrefix
<1>2. /\ p \o r \in Path /\ p \o s \in Path
      /\ Suffix(p, p \o r) = r /\ Suffix(p, p \o s) = s
  BY <1>1, SuffixOfExtended
<1>3. Suffix(s, r) \in Path /\ s \o Suffix(s, r) = r
  BY <1>1, SuffixOfPath
<1>4. (p \o s) \o Suffix(s, r) = p \o r
  <2>1. p \in Seq(STRING) /\ s \in Seq(STRING) /\ Suffix(s, r) \in Seq(STRING)
    BY <1>1, <1>3 DEF Path
  <2>2. (p \o s) \o Suffix(s, r) = p \o (s \o Suffix(s, r))
    BY <2>1, ConcatAssociative
  <2> QED
    BY <1>3, <2>2
<1>5. IsPrefix(p \o s, p \o r)
  BY <1>2, <1>3, <1>4, SuffixOfExtended
<1> QED
  BY <1>1, <1>2, <1>5, StrictPrefix

LEMMA SubtreeIsTree ==
  ASSUME NEW tree, IsTree(tree), NEW p \in DOMAIN tree
  PROVE  IsTree(Subtree(tree, p))
<1>1. p \in Path
  BY TreePaths
<1>2. DOMAIN Subtree(tree, p) \subseteq Seq(STRING)
  BY <1>1, SubtreeAt DEF Path
<1>3. <<>> \in DOMAIN Subtree(tree, p)
  <2>1. <<>> \in Path /\ p \o <<>> = p
    BY <1>1, EmptySeq, ConcatEmptySeq DEF Path
  <2> QED
    BY <1>1, <2>1, SubtreeAt
<1>4. ASSUME NEW r \in DOMAIN Subtree(tree, p), NEW s \in StrictPrefixes(r)
      PROVE  s \in DOMAIN Subtree(tree, p) /\ Subtree(tree, p)[s] = Object
  <2>1. r \in Path /\ p \o r \in DOMAIN tree
    BY <1>1, SubtreeAt
  <2>2. s \in Path
    BY <2>1, StrictPrefix
  <2>3. p \o s \in DOMAIN tree /\ tree[p \o s] = Object
    BY <1>1, <2>1, ExtendedOrder, TreePaths
  <2> QED
    BY <1>1, <2>2, <2>3, SubtreeAt
<1>5. Subtree(tree, p) = [r \in DOMAIN Subtree(tree, p) |-> Subtree(tree, p)[r]]
  BY DEF Subtree
<1> QED
  BY <1>2, <1>3, <1>4, <1>5 DEF IsTree

LEMMA StaticValuesAreTrees ==
  ASSUME NEW p, NEW v, <<p, v>> \in Placement, NEW tree \in StaticValues(p, v)
  PROVE  p \in Path /\ IsTree(tree)
<1>1. <<p, v>>[1] = p /\ <<p, v>>[2] = v
  OBVIOUS
<1>2. p \in Path
  BY <1>1, PlacementAssumption DEF Path
<1>3. CASE tree \in v.values
  <2>1. \A x \in <<p, v>>[2].values : IsTree(x)
    BY ValueAssumption
  <2> QED
    BY <1>1, <1>2, <1>3, <2>1
<1>4. CASE tree \in DefaultAt(p)
  <2>1. p \in DOMAIN Schema /\ tree = Subtree(Schema, p)
    BY <1>4 DEF DefaultAt
  <2>2. IsTree(Schema)
    BY <2>1, ValueAssumption DEF HasSchema
  <2> QED
    BY <1>2, <2>1, <2>2, SubtreeIsTree
<1> QED
  BY <1>2, <1>3, <1>4 DEF StaticValues

LEMMA LiveTreeIsTree ==
  ASSUME NEW b, IsTree(b.shape), NEW table
  PROVE  IsTree(LiveTree(b, table))
<1> DEFINE live == LiveTree(b, table)
<1>1. DOMAIN live = DOMAIN b.shape
  BY DEF LiveTree
<1>2. \A q \in DOMAIN live : b.shape[q] = Object => live[q] = Object
  BY DEF LiveTree, Object
<1>3. live = [q \in DOMAIN live |-> live[q]]
  BY DEF LiveTree
<1> HIDE DEF live
<1> QED
  BY <1>1, <1>2, <1>3 DEF IsTree, live

LEMMA LiveValuesAreValues ==
  ASSUME LiveAntichain, BindingsPlaced, NEW table
  PROVE  /\ AreValues(LiveValues(table))
         /\ \A p \in DOMAIN LiveValues(table) : p = <<>> => IsObject(LiveValues(table)[p])
<1>1. ASSUME NEW p \in DOMAIN live_bindings
      PROVE  p \in Path /\ IsTree(LiveTree(live_bindings[p], table))
  <2>1. <<p, live_bindings[p]>> \in Placement /\ live_bindings[p].op = "live"
    BY DEF BindingsPlaced
  <2>2. <<p, live_bindings[p]>>[1] = p /\ <<p, live_bindings[p]>>[2] = live_bindings[p]
    OBVIOUS
  <2>3. p \in Path /\ IsTree(live_bindings[p].shape)
    BY <2>1, <2>2, PlacementAssumption, ValueAssumption DEF Path
  <2> QED
    BY <2>3, LiveTreeIsTree
<1>2. /\ DOMAIN LiveValues(table) = DOMAIN live_bindings
      /\ \A p \in DOMAIN live_bindings :
           LiveValues(table)[p] = EnvelopeAt(p, LiveTree(live_bindings[p], table))
  BY DEF LiveValues
<1>3. \A p \in DOMAIN live_bindings :
        IsTree(LiveValues(table)[p]) /\ (p = <<>> => IsObject(LiveValues(table)[p]))
  BY <1>1, <1>2, EnvelopeIsObject DEF EnvelopeAt
<1> QED
  BY <1>1, <1>2, <1>3 DEF AreValues, LiveAntichain

-----------------------------------------------------------------------------
(* Clocks, timers and statics. *)

LEMMA LatchedTypes ==
  ASSUME TimersTypeOK, NEW names
  PROVE  /\ DOMAIN Latched(names) \subseteq TimerName
         /\ Latched(names) \in [DOMAIN Latched(names) -> TimerState]
BY ClockAssumption DEF TimersTypeOK, Latched, IsUnlatched, TimerState, Time, Unlatched, TimerKind

LEMMA FreshTypes ==
  ASSUME TimersTypeOK, NEW kind \in TimerKind
  PROVE  Fresh(kind) \in TimerState
BY ClockAssumption DEF TimersTypeOK, Fresh, TimerState, Time, Unlatched, TimerKind

LEMMA CreatedTypes ==
  ASSUME TimersTypeOK, NEW names \in SUBSET TimerName, NEW kind \in TimerKind
  PROVE  /\ DOMAIN Created(names, kind) \subseteq TimerName
         /\ Created(names, kind) \in [DOMAIN Created(names, kind) -> TimerState]
BY FreshTypes DEF TimersTypeOK, Created

\* Timers that are created, reset or read, and a clock that moves.
LEMMA TimersStayTyped ==
  ASSUME TimersTypeOK, halted' \in BOOLEAN,
         master_t' = master_t \/ \E d \in Delay : Advance(d),
         \/ timers' = timers
         \/ \E names : timers' = Latched(names)
         \/ \E names \in SUBSET TimerName, kind \in TimerKind : timers' = Created(names, kind)
         \/ \E n \in DOMAIN timers : timers' = [timers EXCEPT ![n] = Fresh(timers[n].kind)]
  PROVE  TimersTypeOK'
<1>1. master_t' \in Time
  BY ClockAssumption DEF TimersTypeOK, Advance, CanAdvance, Time
<1>2. DOMAIN timers' \subseteq TimerName /\ timers' \in [DOMAIN timers' -> TimerState]
  <2>1. CASE timers' = timers
    BY <2>1 DEF TimersTypeOK
  <2>2. CASE \E names : timers' = Latched(names)
    BY <2>2, LatchedTypes
  <2>3. CASE \E names \in SUBSET TimerName, kind \in TimerKind : timers' = Created(names, kind)
    BY <2>3, CreatedTypes
  <2>4. CASE \E n \in DOMAIN timers : timers' = [timers EXCEPT ![n] = Fresh(timers[n].kind)]
    <3>1. PICK n \in DOMAIN timers : timers' = [timers EXCEPT ![n] = Fresh(timers[n].kind)]
      BY <2>4
    <3>2. Fresh(timers[n].kind) \in TimerState
      BY FreshTypes DEF TimersTypeOK, TimerState
    <3> QED
      BY <3>1, <3>2 DEF TimersTypeOK
  <2> QED
    BY <2>1, <2>2, <2>3, <2>4
<1> QED
  BY <1>1, <1>2 DEF TimersTypeOK

StaticsTypeOK == DOMAIN statics \subseteq TimerName /\ statics \in [DOMAIN statics -> Nat]

LEMMA KeptStaticsTypes ==
  ASSUME StaticsTypeOK, NEW p
  PROVE  /\ DOMAIN KeptStatics(p) \subseteq TimerName
         /\ KeptStatics(p) \in [DOMAIN KeptStatics(p) -> Nat]
BY DEF StaticsTypeOK, KeptStatics, Restrict

LEMMA NewStaticsTypes ==
  ASSUME StaticsTypeOK, NEW p, NEW n \in TimerName
  PROVE  /\ DOMAIN With(KeptStatics(p), n, 0) \subseteq TimerName
         /\ With(KeptStatics(p), n, 0) \in [DOMAIN With(KeptStatics(p), n, 0) -> Nat]
BY KeptStaticsTypes DEF With

LEMMA TickedTypes ==
  ASSUME StaticsTypeOK, NEW paths
  PROVE  /\ DOMAIN Ticked(paths) \subseteq TimerName
         /\ Ticked(paths) \in [DOMAIN Ticked(paths) -> Nat]
BY DEF StaticsTypeOK, Ticked

-----------------------------------------------------------------------------
(* Everything the component keeps is well formed. *)

ValueInv ==
  /\ TimersTypeOK
  /\ IsTree(msg) /\ IsObject(msg)
  /\ published # <<>> => IsTree(published) /\ IsObject(published)
  /\ StaticsTypeOK

LEMMA WellFormed == BindingInv /\ ValueInv => MessageTypeOK
BY DEF BindingInv, BindingsPlaced, ValueInv, StaticsTypeOK, MessageTypeOK

\* Nothing is written or sent.
LEMMA SameValues ==
  ASSUME ValueInv, TimersTypeOK', UNCHANGED <<msg, published>>, StaticsTypeOK'
  PROVE  ValueInv'
BY DEF ValueInv

LEMMA ApplyKeepsValues ==
  ASSUME BindingInv, ValueInv, ApplyNext
  PROVE  ValueInv'
<1> DEFINE p == Head(fill).path
           v == Head(fill).value
<1>1. <<p, v>> \in Placement
  BY PendingIsPlaced DEF BindingInv, ApplyNext
<1> HIDE DEF p, v
<1>2. CASE ApplyStatic(p, v)
  <2>1. PICK tree \in StaticValues(p, v) : WriteValue(p, tree, v.reads)
    BY <1>2 DEF ApplyStatic
  <2>2. p \in Path /\ IsTree(tree)
    BY <1>1, StaticValuesAreTrees
  <2>3. IsTree(msg') /\ IsObject(msg')
    BY <2>1, <2>2, StoreIsObject DEF WriteValue, ValueInv
  <2>4. TimersTypeOK'
    <3>1. /\ halted' = halted /\ master_t' = master_t /\ timers' = Latched(v.reads)
          /\ TimersTypeOK /\ halted \in BOOLEAN
      BY <2>1 DEF WriteValue, ValueInv, TimersTypeOK
    <3> QED
      BY <3>1, TimersStayTyped
  <2>5. StaticsTypeOK' /\ published' = published
    BY <2>1, KeptStaticsTypes DEF WriteValue, Claim, StaticsTypeOK, ValueInv
  <2> QED
    BY <2>3, <2>4, <2>5 DEF ValueInv
<1>3. CASE ApplyFill(p, v)
  <2>1. UNCHANGED <<halted, master_t, timers, msg, published>> /\ statics' = KeptStatics(p)
    BY <1>3 DEF ApplyFill, Claim, clockVars
  <2>2. TimersTypeOK' /\ StaticsTypeOK'
    BY <2>1, KeptStaticsTypes DEF ValueInv, TimersTypeOK, StaticsTypeOK
  <2> QED
    BY <2>1, <2>2, SameValues
<1>4. CASE ApplyLive(p, v)
  <2>1. /\ UNCHANGED <<halted, master_t, msg, published>> /\ timers' = Latched(v.reads)
        /\ statics' = With(KeptStatics(p), v.timer, 0) /\ v.op = "live"
    BY <1>4 DEF ApplyLive
  <2>2. v.timer \in TimerName
    <3>1. <<p, v>>[2] = v
      OBVIOUS
    <3> QED
      BY <1>1, <2>1, <3>1, PlacementAssumption, OwnTimer
  <2>3. StaticsTypeOK'
    BY <2>1, <2>2, NewStaticsTypes DEF ValueInv, StaticsTypeOK
  <2>4. TimersTypeOK'
    <3>1. TimersTypeOK /\ halted \in BOOLEAN
      BY DEF ValueInv, TimersTypeOK
    <3> QED
      BY <2>1, <3>1, TimersStayTyped
  <2> QED
    BY <2>1, <2>3, <2>4, SameValues
<1>5. CASE FieldRaises(p, v)
  <2>1. /\ halted' = TRUE /\ UNCHANGED <<master_t, msg, published>>
        /\ \E reads : timers' = Latched(reads)
        /\ statics' = KeptStatics(p)
    BY <1>5 DEF FieldRaises
  <2>2. StaticsTypeOK'
    BY <2>1, KeptStaticsTypes DEF ValueInv, StaticsTypeOK
  <2>3. TimersTypeOK'
    BY <2>1, TimersStayTyped DEF ValueInv
  <2> QED
    BY <2>1, <2>2, <2>3, SameValues
<1> QED
  BY <1>2, <1>3, <1>4, <1>5 DEF ApplyNext, ApplyField, p, v

LEMMA PublishKeepsValues ==
  ASSUME BindingInv, ValueInv, NEW delay \in Delay, NEW reads, Publish(delay, reads)
  PROVE  ValueInv'
<1> DEFINE now == Latched(reads \cup ReadAt(DOMAIN live_bindings))
           values == LiveValues(now)
<1>1. /\ Advance(delay) /\ timers' = now /\ published' = Overlay(msg, values)
      /\ statics' = Ticked(DOMAIN live_bindings) /\ UNCHANGED <<halted, msg>>
  BY DEF Publish
<1>2. AreValues(values) /\ (<<>> \in DOMAIN values => IsObject(values[<<>>]))
  BY LiveValuesAreValues DEF BindingInv
<1>3. IsTree(published') /\ IsObject(published')
  BY <1>1, <1>2, OverlayIsTree, OverlayIsObject DEF ValueInv
<1>4. StaticsTypeOK'
  BY <1>1, TickedTypes DEF ValueInv, StaticsTypeOK
<1>5. TimersTypeOK'
  <2>1. TimersTypeOK /\ halted' \in BOOLEAN
    BY <1>1 DEF ValueInv, TimersTypeOK
  <2> QED
    BY <1>1, <2>1, TimersStayTyped
<1> QED
  BY <1>1, <1>3, <1>4, <1>5 DEF ValueInv

LEMMA RaisingKeepsValues ==
  ASSUME ValueInv, NEW reads, PublishRaises(reads)
  PROVE  ValueInv'
<1>1. PICK ran : /\ halted' = TRUE /\ UNCHANGED <<master_t, msg, published>>
                 /\ statics' = Ticked(ran) /\ timers' = Latched(reads \cup ReadAt(ran))
  BY DEF PublishRaises
<1>2. StaticsTypeOK'
  BY <1>1, TickedTypes DEF ValueInv, StaticsTypeOK
<1>3. TimersTypeOK'
  BY <1>1, TimersStayTyped DEF ValueInv
<1> QED
  BY <1>1, <1>2, <1>3, SameValues

\* What the component does, except for assembling a message.
LEMMA ClockKeepsValues ==
  ASSUME ValueInv, TimersTypeOK', UNCHANGED <<msg, statics, published>>
  PROVE  ValueInv'
BY DEF ValueInv, StaticsTypeOK

LEMMA ValueInit == MessageInit => ValueInv
<1> SUFFICES ASSUME MessageInit PROVE ValueInv
  OBVIOUS
<1>1. IsTree(msg) /\ IsObject(msg)
  BY ValueAssumption, EmptyObjectIsTree DEF MessageInit
<1>2. StaticsTypeOK
  <2>1. DOMAIN statics = {} /\ statics = [n \in DOMAIN statics |-> statics[n]]
    BY NothingBound DEF MessageInit
  <2> QED
    BY <2>1 DEF StaticsTypeOK
<1>3. TimersTypeOK
  <2>1. DOMAIN timers = {} /\ timers = [n \in DOMAIN timers |-> timers[n]]
    BY NothingBound DEF MessageInit, TimersInit
  <2>2. halted \in BOOLEAN
    BY Zenon DEF MessageInit, TimersInit
  <2>3. master_t \in Time
    BY ClockAssumption DEF MessageInit, TimersInit, Time
  <2> QED
    BY <2>1, <2>2, <2>3 DEF TimersTypeOK
<1> QED
  BY <1>1, <1>2, <1>3 DEF ValueInv, MessageInit

LEMMA ValueStep == BindingInv /\ ValueInv /\ [MessageNext]_messageVars => ValueInv'
<1> SUFFICES ASSUME BindingInv, ValueInv, [MessageNext]_messageVars PROVE ValueInv'
  OBVIOUS
<1> TimersTypeOK /\ halted \in BOOLEAN
  BY DEF ValueInv, TimersTypeOK
<1>1. ASSUME NEW x \in Placement, Assign(x[1], x[2]) PROVE ValueInv'
  <2>1. /\ UNCHANGED <<halted, master_t, msg, statics, published>>
        /\ timers' = Created(x[2].timers, "latching")
    BY <1>1 DEF Assign, bindingVars
  <2>2. x[2].timers \in SUBSET TimerName /\ "latching" \in TimerKind
    BY PlacementAssumption DEF TimerKind
  <2>3. TimersTypeOK'
    BY <2>1, <2>2, TimersStayTyped
  <2> QED
    BY <2>1, <2>3, ClockKeepsValues
<1>2. ASSUME ApplyNext PROVE ValueInv'
  BY <1>2, ApplyKeepsValues
<1>3. ASSUME NEW d \in Delay, Send(d) PROVE ValueInv'
  BY <1>3, PublishKeepsValues, RaisingKeepsValues DEF Send
<1>4. ASSUME NEW d \in Delay, Wait(d) PROVE ValueInv'
  <2>1. /\ UNCHANGED <<halted, timers, msg, statics, published>>
        /\ Advance(d)
    BY <1>4 DEF Wait, bindingVars
  <2>2. TimersTypeOK'
    BY <2>1, TimersStayTyped
  <2> QED
    BY <2>1, <2>2, ClockKeepsValues
<1>5. CASE UNCHANGED messageVars
  <2>1. UNCHANGED <<halted, master_t, timers, msg, statics, published>>
    BY <1>5 DEF messageVars, clockVars
  <2>2. TimersTypeOK'
    BY <2>1 DEF TimersTypeOK
  <2> QED
    BY <2>1, <2>2, ClockKeepsValues
<1> QED
  BY <1>1, <1>2, <1>3, <1>4, <1>5 DEF MessageNext

\* What is assembled and what is published is an object with values all the way
\* down, for any schema, any assignments and any order of them: a scalar or an
\* array published whole becomes an object's `data`, and no write leaves a
\* field below something that is not an object (vm.py:520-535, vm.py:561-568).
THEOREM MessagesAreObjects == MessageSpec => []MessageTypeOK
<1>1. BindingInv /\ ValueInv => MessageTypeOK
  BY WellFormed
<1> QED
  BY <1>1, BindingInit, BindingStep, ValueInit, ValueStep, PTL DEF MessageSpec

-----------------------------------------------------------------------------
(* A strict schema. *)

\* The whole schema is the default at the root.
LEMMA WholeSchema ==
  ASSUME HasSchema, NEW tree, Conforms(Subtree(Schema, <<>>), tree)
  PROVE  Conforms(Schema, tree)
<1>1. IsTree(Schema) /\ <<>> \in Path
  BY ValueAssumption, EmptySeq DEF Path
<1>2. \A q \in Path : <<>> \o q = q
  BY RootOfPaths
<1>3. DOMAIN Schema \subseteq Path
  BY <1>1, TreePaths
<1>4. /\ \A r : r \in DOMAIN Subtree(Schema, <<>>) <=> r \in Path /\ <<>> \o r \in DOMAIN Schema
      /\ \A r \in DOMAIN Subtree(Schema, <<>>) : Subtree(Schema, <<>>)[r] = Schema[<<>> \o r]
  BY <1>1, SubtreeAt
<1>5. DOMAIN Subtree(Schema, <<>>) = DOMAIN Schema
  BY <1>2, <1>3, <1>4
<1>6. \A q \in DOMAIN Schema : Subtree(Schema, <<>>)[q] = Schema[q]
  BY <1>2, <1>3, <1>4, <1>5
<1> QED
  BY <1>5, <1>6 DEF Conforms

\* A value that conforms to a part of the schema leaves the message conforming
\* when it is stored there.
LEMMA StoreConforms ==
  ASSUME HasSchema, Conforms(Schema, msg),
         NEW p \in DOMAIN Schema, p # <<>>,
         NEW tree, IsTree(tree), Conforms(Subtree(Schema, p), tree)
  PROVE  Conforms(Schema, Overlay(msg, [q \in {p} |-> tree]))
<1> DEFINE values == [q \in {p} |-> tree]
           result == Overlay(msg, values)
<1>1. IsTree(Schema) /\ DOMAIN Schema \subseteq Path /\ DOMAIN msg = DOMAIN Schema
  BY ValueAssumption, TreePaths DEF Conforms
<1>2. p \in Path /\ AreValues(values) /\ DOMAIN values = {p} /\ values[p] = tree
  BY <1>1, OneValue
<1>3. Above(values) = StrictPrefixes(p) /\ StrictPrefixes(p) \subseteq DOMAIN Schema
  BY <1>1, <1>2, TreePaths DEF Above
<1>4. \A q \in Path : Suffix(p, q) \in DOMAIN tree /\ IsPrefix(p, q) <=> q \in DOMAIN Schema /\ IsPrefix(p, q)
  <2> SUFFICES ASSUME NEW q \in Path, IsPrefix(p, q)
               PROVE  Suffix(p, q) \in DOMAIN tree <=> q \in DOMAIN Schema
    OBVIOUS
  <2>1. Suffix(p, q) \in Path /\ p \o Suffix(p, q) = q
    BY <1>2, SuffixOfPath
  <2> DEFINE r == Suffix(p, q)
  <2>2. r \in Path /\ p \o r = q
    BY <2>1
  <2> HIDE DEF r
  <2>3. r \in DOMAIN Subtree(Schema, p) <=> p \o r \in DOMAIN Schema
    BY <1>1, <1>2, <2>2, SubtreeAt
  <2>4. r \in DOMAIN tree <=> q \in DOMAIN Schema
    BY <2>2, <2>3 DEF Conforms
  <2> QED
    BY <2>4 DEF r
<1>5. ASSUME NEW q \in Path, IsPrefix(p, q)
      PROVE  /\ q \in DOMAIN result <=> q \in DOMAIN Schema
             /\ q \in DOMAIN Schema => result[q].type = Schema[q].type
  <2>1. /\ q \in DOMAIN result <=> Suffix(p, q) \in DOMAIN tree
        /\ q \in DOMAIN result => result[q] = tree[Suffix(p, q)]
    BY <1>2, <1>5, OverlayBelow
  <2>2. q \in DOMAIN result <=> q \in DOMAIN Schema
    BY <1>4, <1>5, <2>1
  <2>3. ASSUME q \in DOMAIN Schema PROVE result[q].type = Schema[q].type
    <3>1. Suffix(p, q) \in Path /\ p \o Suffix(p, q) = q
      BY <1>2, <1>5, SuffixOfPath
    <3>2. /\ Suffix(p, q) \in DOMAIN Subtree(Schema, p)
          /\ Subtree(Schema, p)[Suffix(p, q)] = Schema[q]
      <4>1. \A r \in DOMAIN Subtree(Schema, p) : Subtree(Schema, p)[r] = Schema[p \o r]
        BY <1>1, <1>2, SubtreeAt
      <4>2. Suffix(p, q) \in DOMAIN Subtree(Schema, p)
        <5>1. \A r : r \in DOMAIN Subtree(Schema, p) <=> r \in Path /\ p \o r \in DOMAIN Schema
          BY <1>1, <1>2, SubtreeAt
        <5> QED
          BY <2>3, <3>1, <5>1
      <4> QED
        BY <3>1, <4>1, <4>2
    <3>3. tree[Suffix(p, q)].type = Schema[q].type
      BY <3>2 DEF Conforms
    <3> QED
      BY <2>1, <2>2, <2>3, <3>3
  <2> QED
    BY <2>2, <2>3
<1>6. ASSUME NEW q \in StrictPrefixes(p)
      PROVE  q \in DOMAIN result /\ q \in DOMAIN Schema /\ result[q].type = Schema[q].type
  <2>1. q \in DOMAIN Schema /\ Schema[q] = Object
    BY <1>1, TreePaths
  <2>2. q \in DOMAIN result /\ result[q] = Object
    BY <1>2, OverlayAbove
  <2> QED
    BY <2>1, <2>2
<1>7. ASSUME NEW q \in Path, ~IsPrefix(p, q), q \notin StrictPrefixes(p)
      PROVE  /\ q \in DOMAIN result <=> q \in DOMAIN Schema
             /\ q \in DOMAIN Schema => result[q].type = Schema[q].type
  <2>1. Beside(values, q) /\ q \notin Above(values)
    BY <1>2, <1>3, <1>7 DEF Beside
  <2>2. /\ q \in DOMAIN result <=> q \in DOMAIN msg
        /\ q \in DOMAIN result => result[q] = msg[q]
    BY <1>2, <2>1, OverlayBeside
  <2> QED
    BY <1>1, <2>2 DEF Conforms
<1>8. DOMAIN result \subseteq Path
  BY <1>1, <1>2, OverlayPaths
<1> HIDE DEF result
<1>9. DOMAIN result = DOMAIN Schema
  BY <1>1, <1>5, <1>6, <1>7, <1>8
<1>10. ASSUME NEW q \in DOMAIN Schema PROVE result[q].type = Schema[q].type
  BY <1>1, <1>5, <1>6, <1>7
<1> QED
  BY <1>9, <1>10 DEF Conforms, result

LEMMA ApplyKeepsShape ==
  ASSUME BindingInv, StrictMessageConforms, ApplyNext
  PROVE  StrictMessageConforms'
<1> DEFINE p == Head(fill).path
           v == Head(fill).value
<1>1. <<p, v>> \in Placement
  BY PendingIsPlaced DEF BindingInv, ApplyNext
<1> HIDE DEF p, v
<1>2. CASE ApplyStatic(p, v)
  <2> SUFFICES ASSUME HasSchema, Strict PROVE Conforms(Schema, msg')
    BY DEF StrictMessageConforms, HasSchema
  <2>1. PICK tree \in StaticValues(p, v) : WriteValue(p, tree, v.reads)
    BY <1>2 DEF ApplyStatic
  <2>2. p \in DOMAIN Schema /\ Conforms(Subtree(Schema, p), EnvelopeAt(p, tree))
    BY <2>1 DEF WriteValue, SchemaAccepts
  <2>3. Conforms(Schema, msg)
    BY DEF StrictMessageConforms
  <2>4. CASE p = <<>>
    BY <2>1, <2>2, <2>4, WholeSchema DEF WriteValue, Store, EnvelopeAt
  <2>5. CASE p # <<>>
    <3>1. IsTree(tree) /\ EnvelopeAt(p, tree) = tree
      BY <1>1, <2>5, StaticValuesAreTrees DEF EnvelopeAt
    <3> QED
      BY <2>1, <2>2, <2>3, <2>5, <3>1, StoreConforms DEF WriteValue, Store
  <2> QED
    BY <2>4, <2>5
<1>3. CASE ApplyFill(p, v) \/ ApplyLive(p, v) \/ FieldRaises(p, v)
  <2>1. msg' = msg
    BY <1>3 DEF ApplyFill, ApplyLive, FieldRaises
  <2> QED
    BY <2>1 DEF StrictMessageConforms, HasSchema
<1> QED
  BY <1>2, <1>3 DEF ApplyNext, ApplyField, p, v

\* Only assignments change the message.
LEMMA SameShape ==
  ASSUME StrictMessageConforms, UNCHANGED msg
  PROVE  StrictMessageConforms'
BY DEF StrictMessageConforms, HasSchema

LEMMA ShapeInit == MessageInit => StrictMessageConforms
BY DEF MessageInit, StrictMessageConforms, Conforms

LEMMA ShapeStep ==
  BindingInv /\ StrictMessageConforms /\ [MessageNext]_messageVars => StrictMessageConforms'
<1> SUFFICES ASSUME BindingInv, StrictMessageConforms, [MessageNext]_messageVars
             PROVE  StrictMessageConforms'
  OBVIOUS
<1>1. CASE ApplyNext
  BY <1>1, ApplyKeepsShape
<1>2. ASSUME NEW x \in Placement, Assign(x[1], x[2]) PROVE StrictMessageConforms'
  BY <1>2, SameShape DEF Assign
<1>3. ASSUME NEW d \in Delay, Send(d) \/ Wait(d) PROVE StrictMessageConforms'
  BY <1>3, SameShape DEF Send, Wait, Publish, PublishRaises
<1>4. CASE UNCHANGED messageVars
  BY <1>4, SameShape DEF messageVars
<1> QED
  BY <1>1, <1>2, <1>3, <1>4 DEF MessageNext

\* With a strict schema the message has just the schema's fields and their
\* types at every moment, for every schema and whatever is assigned in whatever
\* order, also when an assignment fails half way (schema.py:88, vm.py:520).
THEOREM StrictSchemasHold == MessageSpec => []StrictMessageConforms
BY BindingInit, BindingStep, ShapeInit, ShapeStep, PTL DEF MessageSpec
=============================================================================
