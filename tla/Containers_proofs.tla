-------------------------- MODULE Containers_proofs --------------------------
(***************************************************************************)
(* For every script and every host: no container of a run is held twice,   *)
(* and none can be reached from what the host has.                         *)
(***************************************************************************)
EXTENDS Containers, WellFoundedInduction, FiniteSetTheorems, TLAPS

\* Induction in a form that needs no operator for a parameter.
LEMMA SetInduction ==
  ASSUME NEW S, 0 \in S, \A n \in Nat : n \in S => n + 1 \in S
  PROVE  Nat \subseteq S
<1> SUFFICES ASSUME Nat \ S # {} PROVE FALSE
  OBVIOUS
<1>1. PICK x \in Nat \ S : \A y \in Nat \ S : ~(<<y, x>> \in OpToRel(<, Nat))
  BY NatLessThanWellFounded, WFMin
<1>2. x - 1 \in Nat /\ x = (x - 1) + 1
  OBVIOUS
<1>3. <<x - 1, x>> \in OpToRel(<, Nat)
  BY <1>2 DEF OpToRel
<1> QED
  BY <1>1, <1>2, <1>3

-----------------------------------------------------------------------------
(* What can be reached.                                                      *)

\* The rounds of InUse.
Reached(cells, holders) ==
  CHOOSE met : met = [n \in 0..Rounds(cells) |->
    IF n = 0 THEN Targets(holders) \cap DOMAIN cells ELSE Further(cells, met[n - 1])]

LEMMA InUseIsReached ==
  ASSUME NEW cells, NEW holders
  PROVE  InUse(cells, holders) = Reached(cells, holders)[Rounds(cells)]
BY DEF InUse, Reached

LEMMA RoundsAreANumber ==
  ASSUME NEW cells
  PROVE  Rounds(cells) \in Nat
BY FS_CardinalityType DEF Rounds

LEMMA FurtherElements ==
  ASSUME NEW cells, NEW before, NEW c
  PROVE  c \in Further(cells, before) <=>
           c \in before \/ (c \in DOMAIN cells /\ \E a \in before : c \in Targets(cells[a].items))
BY DEF Further

LEMMA ReachedRounds ==
  ASSUME NEW cells, NEW holders
  PROVE  LET met == Reached(cells, holders)
         IN  met = [n \in 0..Rounds(cells) |->
                      IF n = 0 THEN Targets(holders) \cap DOMAIN cells ELSE Further(cells, met[n - 1])]
<1> DEFINE start == Targets(holders) \cap DOMAIN cells
           rounds(m, f) == f = [n \in 0..m |-> IF n = 0 THEN start ELSE Further(cells, f[n - 1])]
           S == {m \in Nat : \E f : rounds(m, f)}
<1>1. 0 \in S
  <2> DEFINE f == [n \in 0..0 |-> start]
  <2>1. rounds(0, f)
    OBVIOUS
  <2> QED
    BY <2>1
<1>2. ASSUME NEW m \in Nat, m \in S PROVE m + 1 \in S
  <2>1. PICK f : rounds(m, f)
    BY <1>2
  <2> DEFINE g == [n \in 0..(m + 1) |-> IF n \in 0..m THEN f[n] ELSE Further(cells, f[m])]
  <2>2. rounds(m + 1, g)
    <3> SUFFICES ASSUME NEW n \in 0..(m + 1)
                 PROVE  g[n] = IF n = 0 THEN start ELSE Further(cells, g[n - 1])
      OBVIOUS
    <3>1. CASE n = m + 1
      BY <3>1
    <3>2. CASE n \in 0..m
      <4>1. g[n] = f[n] /\ (n # 0 => g[n - 1] = f[n - 1])
        BY <3>2
      <4>2. f[n] = IF n = 0 THEN start ELSE Further(cells, f[n - 1])
        BY <2>1, <3>2
      <4> QED
        BY <4>1, <4>2
    <3> QED
      BY <3>1, <3>2
  <2> HIDE DEF g, rounds
  <2> QED
    BY <2>2
<1>3. \E f : rounds(Rounds(cells), f)
  <2>1. Nat \subseteq S
    <3> HIDE DEF S
    <3> QED
      BY <1>1, <1>2, SetInduction
  <2> QED
    BY <2>1, RoundsAreANumber
<1> QED
  BY <1>3 DEF Reached

\* Whatever is closed under what containers hold has all that can be reached.
LEMMA ReachedWithin ==
  ASSUME NEW cells, NEW holders, NEW G,
         Targets(holders) \cap DOMAIN cells \subseteq G,
         \A a \in G \cap DOMAIN cells : Targets(cells[a].items) \cap DOMAIN cells \subseteq G
  PROVE  InUse(cells, holders) \subseteq G \cap DOMAIN cells
<1> DEFINE met == Reached(cells, holders)
           S == {n \in Nat : n <= Rounds(cells) => met[n] \subseteq G \cap DOMAIN cells}
<1>0. Rounds(cells) \in Nat
  BY RoundsAreANumber
<1>r. met = [n \in 0..Rounds(cells) |->
              IF n = 0 THEN Targets(holders) \cap DOMAIN cells ELSE Further(cells, met[n - 1])]
  BY ReachedRounds
<1> HIDE DEF met
<1>1. \A n \in 0..Rounds(cells) :
        met[n] = IF n = 0 THEN Targets(holders) \cap DOMAIN cells ELSE Further(cells, met[n - 1])
  BY <1>r
<1>2. 0 \in S
  BY <1>0, <1>1
<1>3. ASSUME NEW n \in Nat, n \in S PROVE n + 1 \in S
  <2> SUFFICES ASSUME n + 1 <= Rounds(cells) PROVE met[n + 1] \subseteq G \cap DOMAIN cells
    OBVIOUS
  <2>1. met[n + 1] = Further(cells, met[n])
    BY <1>0, <1>1
  <2>2. met[n] \subseteq G \cap DOMAIN cells
    BY <1>0, <1>3
  <2>3. ASSUME NEW c \in met[n + 1], c \notin met[n]
        PROVE  c \in G /\ c \in DOMAIN cells
    <3>1. c \in DOMAIN cells /\ \E a \in met[n] : c \in Targets(cells[a].items)
      BY <2>1, <2>3, FurtherElements
    <3> QED
      BY <2>2, <3>1
  <2> QED
    BY <2>2, <2>3
<1>4. Nat \subseteq S
  <2> HIDE DEF S
  <2> QED
    BY <1>2, <1>3, SetInduction
<1> QED
  BY <1>0, <1>4, InUseIsReached DEF met

\* What can be reached is held by a holder or by something else that can be.
LEMMA ReachedIsHeld ==
  ASSUME NEW cells, NEW holders, NEW a \in InUse(cells, holders)
  PROVE  \/ \E h \in DOMAIN holders : holders[h].ref /\ holders[h].to = a
         \/ \E b \in DOMAIN cells : \E k \in DOMAIN cells[b].items :
              cells[b].items[k].ref /\ cells[b].items[k].to = a
<1> DEFINE held_ == {c \in DOMAIN cells :
             \/ \E h \in DOMAIN holders : holders[h].ref /\ holders[h].to = c
             \/ \E b \in DOMAIN cells : \E k \in DOMAIN cells[b].items :
                  cells[b].items[k].ref /\ cells[b].items[k].to = c}
<1>1. Targets(holders) \cap DOMAIN cells \subseteq held_
  BY DEF Targets
<1>2. \A b \in held_ \cap DOMAIN cells : Targets(cells[b].items) \cap DOMAIN cells \subseteq held_
  BY DEF Targets
<1> HIDE DEF held_
<1>3. a \in held_
  BY <1>1, <1>2, ReachedWithin
<1> QED
  BY <1>3 DEF held_

-----------------------------------------------------------------------------
(* Who owns what.  R has the containers of the run and H those of the host.  *)

IsHosts(h) == h[1] \in {"param", "received"}
Older(a, n) == a[1] \in Nat /\ a[1] < n

\* Nobody's container is held by the other.
Apart(cells, holders, R, H) ==
  /\ \A a \in R : a \notin H
  /\ \A h \in DOMAIN holders : holders[h].ref => holders[h].to \in IF IsHosts(h) THEN H ELSE R
  /\ \A b \in DOMAIN cells : \A k \in DOMAIN cells[b].items : cells[b].items[k].ref =>
       /\ b \in R => cells[b].items[k].to \in R
       /\ b \in H => cells[b].items[k].to \in H

\* No container of the run is held twice.
HeldOnce(cells, holders, R) ==
  /\ \A g, h \in DOMAIN holders :
       holders[g].ref /\ holders[h].ref /\ holders[g].to = holders[h].to /\ holders[g].to \in R => g = h
  /\ \A h \in DOMAIN holders, b \in R \cap DOMAIN cells : \A k \in DOMAIN cells[b].items :
       ~(holders[h].ref /\ cells[b].items[k].ref /\ holders[h].to = cells[b].items[k].to)
  /\ \A b, c \in R \cap DOMAIN cells : \A k \in DOMAIN cells[b].items, l \in DOMAIN cells[c].items :
       cells[b].items[k].ref /\ cells[c].items[l].ref /\ cells[b].items[k].to = cells[c].items[l].to
         => b = c /\ k = l

IsState(s) == DOMAIN s = {"ok", "heap", "next", "value", "snapshot", "values"}

\* The containers of a state, with holders that need not be those of the machine:
\* what an operation has in its hands is held as well.
Sound(s, holders, R, H) ==
  /\ IsState(s) /\ s.next \in Nat
  /\ \A a \in DOMAIN s.heap \cup R \cup H : Older(a, s.next)
  /\ Apart(s.heap, holders, R, H) /\ HeldOnce(s.heap, holders, R)

\* With containers that have come since.
SoundLater(s, holders, R, H) ==
  \E R2, H2 : R \subseteq R2 /\ H \subseteq H2 /\ Sound(s, holders, R2, H2)

\* No container goes away while an operation lasts.
Grows(s, t) == DOMAIN s.heap \subseteq DOMAIN t.heap

LEMMA GivingFields ==
  ASSUME NEW s, IsState(s), NEW v
  PROVE  LET t == Giving(s, v)
         IN  IsState(t) /\ t.value = v /\ t.ok = s.ok /\ t.heap = s.heap /\ t.next = s.next
BY DEF IsState, Giving

LEMMA FailedFields ==
  ASSUME NEW s, IsState(s)
  PROVE  LET t == Failed(s)
         IN  IsState(t) /\ t.value = s.value /\ ~t.ok /\ t.heap = s.heap /\ t.next = s.next
BY DEF IsState, Failed

\* Cells that are nobody's do no harm.
LEMMA StaysSound ==
  ASSUME NEW s, NEW holders, NEW R, NEW H, Sound(s, holders, R, H),
         NEW t, IsState(t), t.next \in Nat, s.next <= t.next,
         \A a \in DOMAIN t.heap : Older(a, t.next),
         \A a \in R \cup H : a \in DOMAIN t.heap => a \in DOMAIN s.heap /\ t.heap[a] = s.heap[a]
  PROVE  Sound(t, holders, R, H)
<1>1. \A a \in DOMAIN t.heap \cup R \cup H : Older(a, t.next)
  BY DEF Sound, Older
<1>2. Apart(t.heap, holders, R, H)
  BY DEF Sound, Apart
<1>3. HeldOnce(t.heap, holders, R)
  BY DEF Sound, HeldOnce
<1> QED
  BY <1>1, <1>2, <1>3 DEF Sound

LEMMA NewFields ==
  ASSUME NEW s, IsState(s), s.next \in Nat, NEW kind, NEW items
  PROVE  LET a == <<s.next, <<>>>>
             t == New(s, kind, items)
         IN  /\ IsState(t) /\ t.next = s.next + 1 /\ t.ok = s.ok /\ t.value = Ref(a)
             /\ t.heap = With(s.heap, a, Cell(kind, items))
BY DEF IsState, New

LEMMA NewIsSound ==
  ASSUME NEW s, NEW holders, NEW R, NEW H, Sound(s, holders, R, H), NEW kind, NEW items
  PROVE  Sound(New(s, kind, items), holders, R, H) /\ Grows(s, New(s, kind, items))
<1> DEFINE a == <<s.next, <<>>>>
           t == New(s, kind, items)
<1>1. /\ IsState(t) /\ t.next = s.next + 1 /\ s.next \in Nat
      /\ t.heap = With(s.heap, a, Cell(kind, items))
  BY NewFields DEF Sound
<1>2. a[1] = s.next
  OBVIOUS
<1> HIDE DEF t, a
<1>3. \A c \in R \cup H \cup DOMAIN s.heap : c # a
  BY <1>2 DEF Sound, Older
<1>4. /\ DOMAIN t.heap = DOMAIN s.heap \cup {a}
      /\ \A c \in DOMAIN s.heap : c # a => t.heap[c] = s.heap[c]
  BY <1>1 DEF With
<1>5. \A c \in DOMAIN t.heap : Older(c, t.next)
  BY <1>1, <1>2, <1>4 DEF Sound, Older
<1>6. \A c \in R \cup H : c \in DOMAIN t.heap => c \in DOMAIN s.heap /\ t.heap[c] = s.heap[c]
  BY <1>3, <1>4
<1> QED
  BY <1>1, <1>4, <1>5, <1>6, StaysSound DEF t, Grows

-----------------------------------------------------------------------------
(* Copies.                                                                   *)

\* The cells of a copy that is called `name` and made from number n on.
AreCopies(cells, more, n) ==
  /\ DOMAIN cells \subseteq DOMAIN more
  /\ \A a \in DOMAIN cells : more[a] = cells[a]
  /\ \A a \in DOMAIN more \ DOMAIN cells :
       /\ a = <<n, a[2]>>
       /\ \A k \in DOMAIN more[a].items : more[a].items[k].ref => more[a].items[k].to = <<n, <<a[2], k>>>>

LEMMA CopyFields ==
  ASSUME NEW s, IsState(s), s.next \in Nat, NEW name
  PROVE  LET t == CopyAs(name, s)
         IN  /\ IsState(t) /\ t.next \in {s.next, s.next + 1}
             /\ t.heap # s.heap => t.next = s.next + 1
             /\ AreCopies(s.heap, t.heap, s.next)
             /\ t.ok => s.ok /\ t.next = s.next + 1 /\ (t.value.ref => t.value.to = <<s.next, <<name>>>>)
             /\ t.ok /\ s.value.ref => t.value = Ref(<<s.next, <<name>>>>)
<1> DEFINE visited == Visited(s.heap, name, s.value)
           place(p) == <<s.next, p>>
           copied(a) ==
             LET cell == s.heap[visited.all[a[2]].to]
             IN  Cell(cell.kind, [k \in DOMAIN cell.items |->
                                    IF cell.items[k].ref THEN Ref(place(<<a[2], k>>)) ELSE cell.items[k]])
           copies == {place(p) : p \in {p \in DOMAIN visited.all : visited.all[p].ref}}
           made == [s EXCEPT !.heap = Joined(@, [a \in copies |-> copied(a)]), !.next = @ + 1,
                             !.value = IF @.ref THEN Ref(place(<<name>>)) ELSE @]
           t == CopyAs(name, s)
<1>1. \/ t = s /\ ~s.ok
      \/ t = Failed(s)
      \/ t = made /\ s.ok
  BY DEF CopyAs
<1>2. AreCopies(s.heap, s.heap, s.next)
  BY DEF AreCopies
<1>3. /\ IsState(made) /\ made.next = s.next + 1 /\ made.ok = s.ok
      /\ made.heap = Joined(s.heap, [a \in copies |-> copied(a)])
      /\ made.value = IF s.value.ref THEN Ref(place(<<name>>)) ELSE s.value
  BY DEF IsState
<1>4. \A a \in copies : a = <<s.next, a[2]>>
  OBVIOUS
<1>5. \A a \in copies : \A k \in DOMAIN copied(a).items :
        copied(a).items[k].ref => copied(a).items[k].to = <<s.next, <<a[2], k>>>>
  BY DEF Cell, Ref
<1> HIDE DEF copied, copies
<1>6. AreCopies(s.heap, made.heap, s.next)
  <2> DEFINE more == Joined(s.heap, [a \in copies |-> copied(a)])
  <2>1. /\ DOMAIN more = DOMAIN s.heap \cup copies
        /\ \A a \in DOMAIN more : more[a] = IF a \in DOMAIN s.heap THEN s.heap[a] ELSE copied(a)
    BY DEF Joined
  <2> HIDE DEF more
  <2>2. AreCopies(s.heap, more, s.next)
    BY <1>4, <1>5, <2>1 DEF AreCopies
  <2> QED
    BY <1>3, <2>2 DEF more
<1> HIDE DEF made, t
<1>7. Failed(s).heap = s.heap /\ Failed(s).next = s.next /\ ~Failed(s).ok /\ IsState(Failed(s))
  BY FailedFields
<1>8. made.value.ref => made.value.to = <<s.next, <<name>>>>
  BY <1>3 DEF Ref
<1> QED
  BY <1>1, <1>2, <1>3, <1>6, <1>7, <1>8 DEF t

\* A copy is nobody's until somebody holds it.
LEMMA CopyIsSound ==
  ASSUME NEW s, NEW holders, NEW R, NEW H, Sound(s, holders, R, H), NEW name
  PROVE  Sound(CopyAs(name, s), holders, R, H) /\ Grows(s, CopyAs(name, s))
<1> DEFINE t == CopyAs(name, s)
<1>1. /\ IsState(t) /\ t.next \in {s.next, s.next + 1} /\ s.next \in Nat
      /\ t.heap # s.heap => t.next = s.next + 1
      /\ AreCopies(s.heap, t.heap, s.next)
  BY CopyFields DEF Sound
<1> HIDE DEF t
<1>2. \A a \in DOMAIN t.heap \ DOMAIN s.heap : a[1] = s.next
  BY <1>1 DEF AreCopies
<1>3. \A a \in DOMAIN t.heap : Older(a, t.next)
  <2> SUFFICES ASSUME NEW a \in DOMAIN t.heap PROVE Older(a, t.next)
    OBVIOUS
  <2>1. CASE a \in DOMAIN s.heap
    BY <1>1, <2>1 DEF Sound, Older
  <2>2. CASE a \notin DOMAIN s.heap
    BY <1>1, <1>2, <2>2 DEF Older
  <2> QED
    BY <2>1, <2>2
<1>4. \A a \in R \cup H : a \in DOMAIN t.heap => a \in DOMAIN s.heap /\ t.heap[a] = s.heap[a]
  BY <1>1, <1>2 DEF Sound, Older, AreCopies
<1>5. Grows(s, t)
  BY <1>1 DEF AreCopies, Grows
<1> QED
  BY <1>1, <1>3, <1>4, <1>5, StaysSound DEF t

LEMMA Names ==
  \A x, y, z, v : /\ <<x>> # <<y, z>> /\ <<>> # <<y, z>>
                  /\ <<x>> = <<y>> => x = y
                  /\ <<x, y>> = <<z, v>> => x = z /\ y = v
OBVIOUS

\* What no copy of an item is called.
IsRoot(name) == \A p, k : name # <<p, k>>

\* Copies with different names can be held by as many holders, of the run or of the host.
LEMMA CopiesAreHeld ==
  ASSUME NEW s, NEW holders, NEW R, NEW H, Sound(s, holders, R, H),
         NEW t, IsState(t), t.next = s.next + 1, AreCopies(s.heap, t.heap, s.next),
         NEW more, NEW names, NEW hosts \in BOOLEAN,
         \A h \in DOMAIN more : /\ more[h].ref => more[h].to = <<s.next, names[h]>>
                                /\ IsHosts(h) = hosts,
         \A h \in DOMAIN more : IsRoot(names[h]),
         \A g, h \in DOMAIN more : names[g] = names[h] => g = h
  PROVE  SoundLater(t, Joined(holders, more), R, H)
<1> DEFINE n == s.next
           new == DOMAIN t.heap \ DOMAIN s.heap
           C == new \cup (UNION {Targets(t.heap[a].items) : a \in new}) \cup Targets(more)
           R2 == IF hosts THEN R ELSE R \cup C
           H2 == IF hosts THEN H \cup C ELSE H
           both == Joined(holders, more)
<1>1. n \in Nat /\ \A a \in DOMAIN s.heap \cup R \cup H : Older(a, n)
  BY DEF Sound
<1>2. /\ DOMAIN both = DOMAIN holders \cup DOMAIN more
      /\ \A h \in DOMAIN both : both[h] = IF h \in DOMAIN holders THEN holders[h] ELSE more[h]
  BY DEF Joined
<1> HIDE DEF both, n
<1>3. \A a \in new : /\ a = <<n, a[2]>>
                     /\ \A k \in DOMAIN t.heap[a].items :
                          t.heap[a].items[k].ref => t.heap[a].items[k].to = <<n, <<a[2], k>>>>
  BY DEF AreCopies, n
<1>c. \A c : c \in C <=> \/ c \in new
                         \/ \E a \in new : \E k \in DOMAIN t.heap[a].items :
                              t.heap[a].items[k].ref /\ t.heap[a].items[k].to = c
                         \/ \E h \in DOMAIN more : more[h].ref /\ more[h].to = c
  <2> DEFINE T(a) == Targets(t.heap[a].items)
             M == Targets(more)
  <2>1. \A c : c \in C <=> c \in new \/ (\E a \in new : c \in T(a)) \/ c \in M
    OBVIOUS
  <2>2. \A c, a : c \in T(a) <=>
          \E k \in DOMAIN t.heap[a].items : t.heap[a].items[k].ref /\ t.heap[a].items[k].to = c
    BY DEF Targets
  <2>3. \A c : c \in M <=> \E h \in DOMAIN more : more[h].ref /\ more[h].to = c
    BY DEF Targets
  <2> HIDE DEF T, new, C, M
  <2> QED
    BY <2>1, <2>2, <2>3
<1> HIDE DEF C, new
<1>4. \A a \in C : a[1] = n
  BY <1>3, <1>c DEF n
<1>5. \A a \in new : \A k \in DOMAIN t.heap[a].items : t.heap[a].items[k].ref => t.heap[a].items[k].to \in C
  BY <1>c
<1>6. \A h \in DOMAIN more : more[h].ref => more[h].to \in C
  BY <1>c
<1>7. \A a \in C : a \in DOMAIN t.heap => a \in new
  BY <1>1, <1>4 DEF Older, new
<1>8. \A a \in C : a \notin R /\ a \notin H
  BY <1>1, <1>4 DEF Older
<1>9. \A a \in R \cup H : a \in DOMAIN t.heap => a \in DOMAIN s.heap /\ t.heap[a] = s.heap[a]
  <2>1. \A a \in R \cup H : a \notin new
    BY <1>1, <1>3 DEF Older
  <2> QED
    BY <2>1 DEF AreCopies, new
<1>10. \A h \in DOMAIN both : both[h].ref =>
         \/ h \in DOMAIN holders /\ both[h] = holders[h] /\ both[h].to \in IF IsHosts(h) THEN H ELSE R
         \/ h \in DOMAIN more /\ both[h] = more[h] /\ both[h].to \in C /\ IsHosts(h) = hosts
              /\ both[h].to = <<n, names[h]>>
  BY <1>2, <1>6 DEF Sound, Apart, n
<1>11. \A b \in C \cap DOMAIN t.heap : \A k \in DOMAIN t.heap[b].items : t.heap[b].items[k].ref =>
         t.heap[b].items[k].to \in C /\ t.heap[b].items[k].to = <<n, <<b[2], k>>>> /\ b = <<n, b[2]>>
  BY <1>3, <1>5, <1>7
<1>12. \A b \in DOMAIN t.heap : \A k \in DOMAIN t.heap[b].items : t.heap[b].items[k].ref =>
         /\ b \in R => b \in DOMAIN s.heap /\ t.heap[b] = s.heap[b] /\ t.heap[b].items[k].to \in R
         /\ b \in H => t.heap[b].items[k].to \in H
  BY <1>9 DEF Sound, Apart
<1>13. Apart(t.heap, both, R2, H2)
  <2>1. \A a \in R2 : a \notin H2
    BY <1>8 DEF Sound, Apart
  <2>2. \A h \in DOMAIN both : both[h].ref => both[h].to \in IF IsHosts(h) THEN H2 ELSE R2
    BY <1>10
  <2>3. \A b \in DOMAIN t.heap : \A k \in DOMAIN t.heap[b].items : t.heap[b].items[k].ref =>
          /\ b \in R2 => t.heap[b].items[k].to \in R2
          /\ b \in H2 => t.heap[b].items[k].to \in H2
    BY <1>11, <1>12
  <2> QED
    BY <2>1, <2>2, <2>3 DEF Apart
<1>14. HeldOnce(t.heap, both, R2)
  <2> DEFINE item(b, k) == t.heap[b].items[k]
  <2>1. \A b \in R2 \cap DOMAIN t.heap : \A k \in DOMAIN t.heap[b].items : item(b, k).ref =>
          \/ b \in R /\ b \in DOMAIN s.heap /\ t.heap[b] = s.heap[b] /\ item(b, k).to \in R
          \/ b \in C /\ item(b, k).to \in C /\ item(b, k).to = <<n, <<b[2], k>>>> /\ b = <<n, b[2]>>
    BY <1>11, <1>12
  <2>2. ASSUME NEW g \in DOMAIN both, NEW h \in DOMAIN both,
               both[g].ref, both[h].ref, both[g].to = both[h].to, both[g].to \in R2
        PROVE  g = h
    <3>1. CASE both[g].to \in C
      <4>1. names[g] = names[h] /\ g \in DOMAIN more /\ h \in DOMAIN more
        BY <1>8, <1>10, <2>2, <3>1, Names
      <4> QED
        BY <4>1
    <3>2. CASE both[g].to \in R
      BY <1>8, <1>10, <2>2, <3>2 DEF Sound, HeldOnce, Apart
    <3> QED
      BY <2>2, <3>1, <3>2
  <2>3. ASSUME NEW h \in DOMAIN both, NEW b \in R2 \cap DOMAIN t.heap, NEW k \in DOMAIN t.heap[b].items,
               both[h].ref, item(b, k).ref, both[h].to = item(b, k).to
        PROVE  FALSE
    <3>1. CASE b \in C
      BY <1>8, <1>10, <2>1, <2>3, <3>1, Names DEF IsRoot
    <3>2. CASE b \in R
      BY <1>8, <1>10, <2>1, <2>3, <3>2 DEF Sound, HeldOnce
    <3> QED
      BY <3>1, <3>2
  <2>4. ASSUME NEW b \in R2 \cap DOMAIN t.heap, NEW c \in R2 \cap DOMAIN t.heap,
               NEW k \in DOMAIN t.heap[b].items, NEW l \in DOMAIN t.heap[c].items,
               item(b, k).ref, item(c, l).ref, item(b, k).to = item(c, l).to
        PROVE  b = c /\ k = l
    <3>1. CASE b \in C
      <4>1. c \in C
        BY <1>8, <2>1, <2>4, <3>1
      <4>2. b[2] = c[2] /\ k = l
        BY <1>8, <2>1, <2>4, <3>1, <4>1, Names
      <4> QED
        BY <1>8, <2>1, <2>4, <3>1, <4>1, <4>2
    <3>2. CASE b \in R
      <4>1. c \in R
        BY <1>8, <2>1, <2>4, <3>2
      <4> QED
        BY <1>8, <2>1, <2>4, <3>2, <4>1 DEF Sound, HeldOnce
    <3> QED
      BY <3>1, <3>2
  <2> HIDE DEF R2
  <2> QED
    BY <2>2, <2>3, <2>4 DEF HeldOnce
<1>15. \A a \in DOMAIN t.heap \cup R2 \cup H2 : Older(a, t.next)
  <2>1. \A a \in DOMAIN s.heap \cup R \cup H : Older(a, t.next)
    BY <1>1 DEF Older, n
  <2>2. \A a \in new \cup C : Older(a, t.next)
    BY <1>1, <1>3, <1>4 DEF Older, n
  <2> QED
    BY <2>1, <2>2 DEF new
<1>16. Sound(t, both, R2, H2)
  <2> HIDE DEF R2, H2
  <2> QED
    BY <1>1, <1>13, <1>14, <1>15 DEF Sound, n
<1> QED
  BY <1>16 DEF both, SoundLater

LEMMA CopyIsHeld ==
  ASSUME NEW s, NEW holders, NEW R, NEW H, Sound(s, holders, R, H), NEW name,
         CopyAs(name, s).ok, NEW h, h \notin DOMAIN holders
  PROVE  LET t == CopyAs(name, s)
         IN  SoundLater(t, With(holders, h, t.value), R, H)
<1> DEFINE t == CopyAs(name, s)
           more == [x \in {h} |-> t.value]
           names == [x \in {h} |-> <<name>>]
<1>1. /\ IsState(t) /\ t.next = s.next + 1 /\ AreCopies(s.heap, t.heap, s.next)
      /\ t.value.ref => t.value.to = <<s.next, <<name>>>>
  BY CopyFields DEF Sound
<1> HIDE DEF t
<1>2. \A g \in DOMAIN more : /\ more[g].ref => more[g].to = <<s.next, names[g]>>
                             /\ IsHosts(g) = IsHosts(h)
  BY <1>1
<1>n. \A g \in DOMAIN more : IsRoot(names[g])
  BY Names DEF IsRoot
<1>3. \A f, g \in DOMAIN more : names[f] = names[g] => f = g
  OBVIOUS
<1>4. IsHosts(h) \in BOOLEAN
  BY DEF IsHosts
<1>5. Joined(holders, more) = With(holders, h, t.value)
  BY DEF Joined, With
<1> HIDE DEF more, names
<1>6. SoundLater(t, Joined(holders, more), R, H)
  BY <1>1, <1>2, <1>n, <1>3, <1>4, CopiesAreHeld
<1> QED
  BY <1>5, <1>6 DEF t

-----------------------------------------------------------------------------
(* What is copied.                                                           *)

First(name, v) == [all |-> <<>>, last |-> [p \in {<<name>>} |-> v]]

\* The rounds of Visited.
Visits(cells, name, v) ==
  CHOOSE visit : visit = [depth \in 0..(MaxDepth + 1) |->
    IF depth = 0 THEN First(name, v)
    ELSE Deeper(cells, visit[depth - 1])]

LEMMA VisitedIsVisits ==
  ASSUME NEW cells, NEW name, NEW v
  PROVE  Visited(cells, name, v) = Visits(cells, name, v)[MaxDepth + 1]
BY DEF Visited, Visits, First

LEMMA VisitsRounds ==
  ASSUME NEW cells, NEW name, NEW v
  PROVE  LET visit == Visits(cells, name, v)
         IN  visit = [depth \in 0..(MaxDepth + 1) |->
               IF depth = 0 THEN First(name, v)
               ELSE Deeper(cells, visit[depth - 1])]
<1> DEFINE start == First(name, v)
           then(i, t) == Deeper(cells, t)
           states(m, f) == f = [i \in 0..m |-> IF i = 0 THEN start ELSE then(i, f[i - 1])]
           S == {m \in Nat : \E f : states(m, f)}
<1> HIDE DEF then, start
<1>1. 0 \in S
  <2> DEFINE f == [i \in 0..0 |-> start]
  <2>1. states(0, f)
    OBVIOUS
  <2> QED
    BY <2>1
<1>2. ASSUME NEW m \in Nat, m \in S PROVE m + 1 \in S
  <2>1. PICK f : states(m, f)
    BY <1>2
  <2> DEFINE g == [i \in 0..(m + 1) |-> IF i \in 0..m THEN f[i] ELSE then(i, f[m])]
  <2>2. states(m + 1, g)
    <3> SUFFICES ASSUME NEW i \in 0..(m + 1)
                 PROVE  g[i] = IF i = 0 THEN start ELSE then(i, g[i - 1])
      OBVIOUS
    <3>1. CASE i = m + 1
      BY <3>1
    <3>2. CASE i \in 0..m
      <4>1. g[i] = f[i] /\ (i # 0 => g[i - 1] = f[i - 1])
        BY <3>2
      <4>2. f[i] = IF i = 0 THEN start ELSE then(i, f[i - 1])
        BY <2>1, <3>2
      <4> QED
        BY <4>1, <4>2
    <3> QED
      BY <3>1, <3>2
  <2> HIDE DEF g, states
  <2> QED
    BY <2>2
<1>3. \E f : states(MaxDepth + 1, f)
  <2>1. Nat \subseteq S
    <3> HIDE DEF S
    <3> QED
      BY <1>1, <1>2, SetInduction
  <2>2. MaxDepth + 1 \in Nat
    BY ContainersAssumption
  <2> QED
    BY <2>1, <2>2
<1> QED
  BY <1>3 DEF Visits, then, start

\* The value itself is copied under the name of the copy.
LEMMA RootIsVisited ==
  ASSUME NEW cells, NEW name, NEW v
  PROVE  LET all == Visited(cells, name, v).all IN <<name>> \in DOMAIN all /\ all[<<name>>] = v
<1> DEFINE visit == Visits(cells, name, v)
           there(f) == <<name>> \in DOMAIN f /\ f[<<name>>] = v
           S == {i \in Nat : i <= MaxDepth => there(visit[i + 1].all)}
<1>0. MaxDepth \in Nat
  BY ContainersAssumption
<1>1. visit = [depth \in 0..(MaxDepth + 1) |->
        IF depth = 0 THEN First(name, v)
        ELSE Deeper(cells, visit[depth - 1])]
  BY VisitsRounds
<1> HIDE DEF visit
<1>2. visit[0].all = <<>> /\ visit[0].last = [p \in {<<name>>} |-> v]
  BY <1>0, <1>1 DEF First
<1>3. \A i \in 1..(MaxDepth + 1) : visit[i].all = Joined(visit[i - 1].all, visit[i - 1].last)
  BY <1>0, <1>1 DEF Deeper
<1>4. 0 \in S
  <2>1. visit[1].all = Joined(visit[0].all, visit[0].last)
    BY <1>0, <1>3
  <2>2. DOMAIN visit[0].all = {} /\ DOMAIN visit[0].last = {<<name>>} /\ visit[0].last[<<name>>] = v
    BY <1>2
  <2>3. there(visit[1].all)
    BY <2>1, <2>2 DEF Joined
  <2> QED
    BY <2>3
<1>5. ASSUME NEW i \in Nat, i \in S PROVE i + 1 \in S
  <2> SUFFICES ASSUME i + 1 <= MaxDepth PROVE there(visit[(i + 1) + 1].all)
    OBVIOUS
  <2>1. there(visit[i + 1].all)
    BY <1>0, <1>5
  <2>2. visit[(i + 1) + 1].all = Joined(visit[i + 1].all, visit[i + 1].last)
    BY <1>0, <1>3
  <2> QED
    BY <2>1, <2>2 DEF Joined
<1>6. Nat \subseteq S
  <2> HIDE DEF S
  <2> QED
    BY <1>4, <1>5, SetInduction
<1> QED
  BY <1>0, <1>6, VisitedIsVisits DEF visit

\* A copy is there.
LEMMA CopyIsThere ==
  ASSUME NEW s, IsState(s), NEW name, CopyAs(name, s).ok, s.value.ref
  PROVE  CopyAs(name, s).value.ref /\ CopyAs(name, s).value.to \in DOMAIN CopyAs(name, s).heap
<1> DEFINE visited == Visited(s.heap, name, s.value)
           place(p) == <<s.next, p>>
           copied(a) ==
             LET cell == s.heap[visited.all[a[2]].to]
             IN  Cell(cell.kind, [k \in DOMAIN cell.items |->
                                    IF cell.items[k].ref THEN Ref(place(<<a[2], k>>)) ELSE cell.items[k]])
           copies == {place(p) : p \in {p \in DOMAIN visited.all : visited.all[p].ref}}
           cells == Joined(s.heap, [a \in copies |-> copied(a)])
           made == [s EXCEPT !.heap = Joined(@, [a \in copies |-> copied(a)]), !.next = @ + 1,
                             !.value = IF @.ref THEN Ref(place(<<name>>)) ELSE @]
<1>1. CopyAs(name, s) = made
  <2>1. s.ok
    BY DEF CopyAs
  <2>2. ~Failed(s).ok
    BY FailedFields
  <2> QED
    BY <2>1, <2>2 DEF CopyAs
<1>2. made.value = Ref(place(<<name>>)) /\ made.heap = cells
  BY DEF IsState
<1>3. place(<<name>>) \in copies
  <2>1. <<name>> \in DOMAIN visited.all /\ visited.all[<<name>>] = s.value
    BY RootIsVisited
  <2> HIDE DEF visited
  <2> QED
    BY <2>1
<1> HIDE DEF copies, copied, made, visited
<1>4. copies \subseteq DOMAIN cells
  BY DEF Joined
<1> QED
  BY <1>1, <1>2, <1>3, <1>4 DEF Ref

-----------------------------------------------------------------------------
(* Changes of who holds what.                                                *)

\* A holder may pass on what it holds to another one of its side, or drop it.
PassesOn(holders, others, from) ==
  /\ \A h \in DOMAIN others : others[h].ref =>
       from[h] \in DOMAIN holders /\ holders[from[h]] = others[h] /\ IsHosts(from[h]) = IsHosts(h)
  /\ \A g, h \in DOMAIN others : others[g].ref /\ others[h].ref /\ from[g] = from[h] => g = h

LEMMA PassedOn ==
  ASSUME NEW s, NEW holders, NEW R, NEW H, Sound(s, holders, R, H), NEW others, NEW from,
         PassesOn(holders, others, from)
  PROVE  Sound(s, others, R, H)
<1>1. Apart(s.heap, others, R, H)
  BY DEF Sound, Apart, PassesOn
<1>2. HeldOnce(s.heap, others, R)
  <2>1. ASSUME NEW g \in DOMAIN others, NEW h \in DOMAIN others,
               others[g].ref, others[h].ref, others[g].to = others[h].to, others[g].to \in R
        PROVE  g = h
    BY <2>1 DEF Sound, HeldOnce, PassesOn
  <2>2. ASSUME NEW h \in DOMAIN others, NEW b \in R \cap DOMAIN s.heap, NEW k \in DOMAIN s.heap[b].items,
               others[h].ref, s.heap[b].items[k].ref, others[h].to = s.heap[b].items[k].to
        PROVE  FALSE
    BY <2>2 DEF Sound, HeldOnce, PassesOn
  <2> QED
    BY <2>1, <2>2 DEF HeldOnce, Sound
<1> QED
  BY <1>1, <1>2 DEF Sound

LEMMA PutFields ==
  ASSUME NEW s, IsState(s), NEW container, NEW key, NEW v
  PROVE  LET t == Put(s, container, key, v)
         IN  /\ IsState(t) /\ t.next = s.next /\ t.ok = s.ok /\ t.value = s.value
             /\ DOMAIN t.heap = DOMAIN s.heap
             /\ \A a \in DOMAIN s.heap : t.heap[a] =
                  IF a = container.to THEN Cell(s.heap[a].kind, With(s.heap[a].items, key, v)) ELSE s.heap[a]
<1> DEFINE cells == [s.heap EXCEPT ![container.to] = Cell(@.kind, With(@.items, key, v))]
<1>1. Put(s, container, key, v) = [s EXCEPT !.heap = cells]
  BY DEF Put
<1>2. /\ DOMAIN cells = DOMAIN s.heap
      /\ \A a \in DOMAIN s.heap : cells[a] =
           IF a = container.to THEN Cell(s.heap[a].kind, With(s.heap[a].items, key, v)) ELSE s.heap[a]
  OBVIOUS
<1> HIDE DEF cells
<1> QED
  BY <1>1, <1>2 DEF IsState

\* What an item of a cell is after something was put somewhere.
LEMMA PutItems ==
  ASSUME NEW s, IsState(s), NEW container, NEW key, NEW v
  PROVE  LET t == Put(s, container, key, v)
         IN  \A b \in DOMAIN t.heap : \A k \in DOMAIN t.heap[b].items :
               \/ b = container.to /\ k = key /\ t.heap[b].items[k] = v
               \/ /\ b \in DOMAIN s.heap /\ k \in DOMAIN s.heap[b].items
                  /\ t.heap[b].items[k] = s.heap[b].items[k] /\ ~(b = container.to /\ k = key)
<1> DEFINE t == Put(s, container, key, v)
<1>1. /\ DOMAIN t.heap = DOMAIN s.heap
      /\ \A a \in DOMAIN s.heap : t.heap[a] =
           IF a = container.to THEN Cell(s.heap[a].kind, With(s.heap[a].items, key, v)) ELSE s.heap[a]
  BY PutFields
<1> HIDE DEF t
<1>2. \A kind, items : Cell(kind, items).items = items
  BY DEF Cell
<1>3. \A items : /\ DOMAIN With(items, key, v) = DOMAIN items \cup {key}
                 /\ \A k \in DOMAIN items \cup {key} : With(items, key, v)[k] = IF k = key THEN v ELSE items[k]
  BY DEF With
<1>4. ASSUME NEW b \in DOMAIN t.heap, NEW k \in DOMAIN t.heap[b].items
      PROVE  \/ b = container.to /\ k = key /\ t.heap[b].items[k] = v
             \/ /\ b \in DOMAIN s.heap /\ k \in DOMAIN s.heap[b].items
                /\ t.heap[b].items[k] = s.heap[b].items[k] /\ ~(b = container.to /\ k = key)
  <2>1. CASE b = container.to
    <3>1. t.heap[b].items = With(s.heap[b].items, key, v)
      BY <1>1, <1>2, <2>1
    <3>2. b \in DOMAIN s.heap
      BY <1>1
    <3> DEFINE items == s.heap[b].items
    <3>3. /\ k \in DOMAIN items \cup {key}
          /\ t.heap[b].items[k] = IF k = key THEN v ELSE items[k]
      BY <1>3, <3>1
    <3> QED
      BY <2>1, <3>2, <3>3
  <2>2. CASE b # container.to
    BY <1>1, <1>4, <2>2
  <2> QED
    BY <2>1, <2>2
<1> QED
  BY <1>4 DEF t

\* What a holder of the run has can be put into a container of the run.
LEMMA PutIsSound ==
  ASSUME NEW s, NEW holders, NEW R, NEW H, NEW l, NEW v, Sound(s, With(holders, l, v), R, H),
         l \notin DOMAIN holders, ~IsHosts(l), NEW container, container.to \in R, NEW key
  PROVE  Sound(Put(s, container, key, v), holders, R, H)
<1> DEFINE t == Put(s, container, key, v)
           item(b, k) == t.heap[b].items[k]
           all == With(holders, l, v)
<1>1. IsState(s) /\ IsState(t) /\ t.next = s.next /\ DOMAIN t.heap = DOMAIN s.heap
  BY PutFields DEF Sound
<1>2. \A b \in DOMAIN t.heap : \A k \in DOMAIN t.heap[b].items :
        \/ b = container.to /\ k = key /\ item(b, k) = v
        \/ /\ b \in DOMAIN s.heap /\ k \in DOMAIN s.heap[b].items
           /\ item(b, k) = s.heap[b].items[k] /\ ~(b = container.to /\ k = key)
  BY <1>1, PutItems
<1>3. /\ l \in DOMAIN all /\ all[l] = v
      /\ \A h \in DOMAIN holders : h \in DOMAIN all /\ all[h] = holders[h] /\ h # l
  BY DEF With
<1>4. v.ref => v.to \in R
  BY <1>3 DEF Sound, Apart
<1> HIDE DEF t, all
<1>5. Apart(t.heap, holders, R, H)
  BY <1>1, <1>2, <1>3, <1>4 DEF Sound, Apart, all
<1>6. HeldOnce(t.heap, holders, R)
  <2>1. Apart(s.heap, all, R, H) /\ HeldOnce(s.heap, all, R)
    BY DEF Sound, all
  <2>2. ASSUME NEW h \in DOMAIN holders, NEW b \in R \cap DOMAIN t.heap, NEW k \in DOMAIN t.heap[b].items,
               holders[h].ref, item(b, k).ref, holders[h].to = item(b, k).to
        PROVE  FALSE
    <3>1. CASE item(b, k) = v
      BY <1>3, <1>4, <2>1, <2>2, <3>1 DEF HeldOnce
    <3>2. CASE item(b, k) # v
      BY <1>1, <1>2, <1>3, <2>1, <2>2, <3>2 DEF HeldOnce
    <3> QED
      BY <3>1, <3>2
  <2>3. ASSUME NEW b \in R \cap DOMAIN t.heap, NEW c \in R \cap DOMAIN t.heap,
               NEW k \in DOMAIN t.heap[b].items, NEW m \in DOMAIN t.heap[c].items,
               item(b, k).ref, item(c, m).ref, item(b, k).to = item(c, m).to
        PROVE  b = c /\ k = m
    <3> USE <1>1, <1>2, <1>3, <2>1, <2>3 DEF HeldOnce
    <3>1. CASE b = container.to /\ k = key /\ item(b, k) = v
      BY <3>1
    <3>2. CASE c = container.to /\ m = key /\ item(c, m) = v
      BY <3>2
    <3>3. CASE ~(b = container.to /\ k = key) /\ ~(c = container.to /\ m = key)
      BY <3>3
    <3> QED
      BY <3>1, <3>2, <3>3
  <2> QED
    BY <1>3, <2>1, <2>2, <2>3 DEF HeldOnce
<1> QED
  BY <1>1, <1>5, <1>6 DEF Sound, t

\* The host may do what it likes with what is its own.
LEMMA HostPutIsSound ==
  ASSUME NEW s, NEW holders, NEW R, NEW H, Sound(s, holders, R, H),
         NEW container, container.to \in H, NEW key, NEW v, v.ref => v.to \in H
  PROVE  Sound(Put(s, container, key, v), holders, R, H)
<1> DEFINE t == Put(s, container, key, v)
<1>1. IsState(s) /\ IsState(t) /\ t.next = s.next /\ DOMAIN t.heap = DOMAIN s.heap
  BY PutFields DEF Sound
<1>2. \A b \in DOMAIN t.heap : \A k \in DOMAIN t.heap[b].items :
        \/ b = container.to /\ k = key /\ t.heap[b].items[k] = v
        \/ /\ b \in DOMAIN s.heap /\ k \in DOMAIN s.heap[b].items
           /\ t.heap[b].items[k] = s.heap[b].items[k] /\ ~(b = container.to /\ k = key)
  BY <1>1, PutItems
<1>3. container.to \notin R
  BY DEF Sound, Apart
<1> HIDE DEF t
<1>4. Apart(t.heap, holders, R, H)
  BY <1>1, <1>2, <1>3 DEF Sound, Apart
<1>5. HeldOnce(t.heap, holders, R)
  BY <1>1, <1>2, <1>3 DEF Sound, HeldOnce
<1> QED
  BY <1>1, <1>4, <1>5 DEF Sound, t

LEMMA SameCells ==
  ASSUME NEW s, NEW holders, NEW R, NEW H, Sound(s, holders, R, H),
         NEW t, IsState(t), t.heap = s.heap, t.next = s.next
  PROVE  Sound(t, holders, R, H)
BY DEF Sound

LEMMA GivingIsSound ==
  ASSUME NEW s, NEW holders, NEW R, NEW H, Sound(s, holders, R, H), NEW v
  PROVE  Sound(Giving(s, v), holders, R, H) /\ Grows(s, Giving(s, v))
BY GivingFields, SameCells DEF Sound, Grows

LEMMA FailedIsSound ==
  ASSUME NEW s, NEW holders, NEW R, NEW H, Sound(s, holders, R, H)
  PROVE  Sound(Failed(s), holders, R, H) /\ Grows(s, Failed(s))
BY FailedFields, SameCells DEF Sound, Grows

\* A new empty object can be held.
LEMMA NewIsHeld ==
  ASSUME NEW s, NEW holders, NEW R, NEW H, Sound(s, holders, R, H),
         NEW h, h \notin DOMAIN holders, ~IsHosts(h)
  PROVE  LET t == New(s, "dict", <<>>)
         IN  SoundLater(t, With(holders, h, t.value), R, H)
<1> DEFINE a == <<s.next, <<>>>>
           t == New(s, "dict", <<>>)
           more == [x \in {h} |-> t.value]
           names == [x \in {h} |-> <<>>]
<1>1. /\ IsState(t) /\ t.next = s.next + 1 /\ t.value = Ref(a)
      /\ t.heap = With(s.heap, a, Cell("dict", <<>>))
  BY NewFields DEF Sound
<1> HIDE DEF t
<1>2. a \notin DOMAIN s.heap
  BY DEF Sound, Older
<1>3. DOMAIN Cell("dict", <<>>).items = {}
  BY DEF Cell
<1>4. AreCopies(s.heap, t.heap, s.next)
  <2>1. DOMAIN t.heap = DOMAIN s.heap \cup {a} /\ t.heap[a] = Cell("dict", <<>>)
    BY <1>1 DEF With
  <2>2. \A b \in DOMAIN s.heap : t.heap[b] = s.heap[b]
    BY <1>1, <1>2 DEF With
  <2> QED
    BY <1>3, <2>1, <2>2 DEF AreCopies
<1>5. \A g \in DOMAIN more : /\ more[g].ref => more[g].to = <<s.next, names[g]>>
                             /\ IsHosts(g) = IsHosts(h)
  BY <1>1 DEF Ref
<1>b. IsHosts(h) \in BOOLEAN
  BY DEF IsHosts
<1>6. \A g \in DOMAIN more : IsRoot(names[g])
  BY Names DEF IsRoot
<1>7. \A f, g \in DOMAIN more : names[f] = names[g] => f = g
  OBVIOUS
<1>8. Joined(holders, more) = With(holders, h, t.value)
  BY DEF Joined, With
<1> HIDE DEF more, names
<1>9. SoundLater(t, Joined(holders, more), R, H)
  BY <1>1, <1>4, <1>5, <1>b, <1>6, <1>7, CopiesAreHeld
<1> QED
  BY <1>8, <1>9 DEF t

-----------------------------------------------------------------------------
(* Evaluation.                                                               *)

LEMMA GrowsOn ==
  ASSUME NEW s, NEW t, NEW u, Grows(s, t), Grows(t, u)
  PROVE  Grows(s, u)
BY DEF Grows

LEMMA IndexIntoIsSound ==
  ASSUME NEW s, NEW holders, NEW R, NEW H, Sound(s, holders, R, H), NEW key
  PROVE  Sound(IndexInto(s, key), holders, R, H) /\ Grows(s, IndexInto(s, key))
BY GivingIsSound, FailedIsSound DEF IndexInto

LEMMA SnapshotIsSound ==
  ASSUME NEW s, NEW holders, NEW R, NEW H, Sound(s, holders, R, H)
  PROVE  Sound(Snapshot(s), holders, R, H) /\ Grows(s, Snapshot(s))
<1> DEFINE copy == Clone(Giving(s, held[Msg]))
           t == [copy EXCEPT !.snapshot = copy.value]
<1>1. Sound(Giving(s, held[Msg]), holders, R, H) /\ Grows(s, Giving(s, held[Msg]))
  BY GivingIsSound
<1>2. Sound(copy, holders, R, H) /\ Grows(s, copy)
  BY <1>1, CopyIsSound, GrowsOn DEF Clone
<1> HIDE DEF copy
<1>3. IsState(t) /\ t.heap = copy.heap /\ t.next = copy.next
  BY <1>2 DEF Sound, IsState
<1>4. Sound(t, holders, R, H) /\ Grows(s, t)
  BY <1>2, <1>3, SameCells DEF Grows
<1> HIDE DEF t
<1>5. Snapshot(s) = IF s.snapshot # Nothing THEN Giving(s, s.snapshot) ELSE t
  BY DEF Snapshot, Remembered, t, copy
<1> QED
  BY <1>4, <1>5, GivingIsSound

LEMMA NamedIsSound ==
  ASSUME NEW s, NEW holders, NEW R, NEW H, Sound(s, holders, R, H), NEW name, NEW own
  PROVE  Sound(Named(name, own, s), holders, R, H) /\ Grows(s, Named(name, own, s))
<1> DEFINE good(t) == Sound(t, holders, R, H) /\ Grows(s, t)
<1>1. good(Giving(s, own[name])) /\ good(Giving(s, held[Var(name)])) /\ good(Giving(s, held[Extern(name)]))
  BY GivingIsSound
<1>2. good(Clone(Giving(s, held[Extern(name)])))
  BY <1>1, CopyIsSound, GrowsOn DEF Clone
<1>3. good(Snapshot(s))
  BY SnapshotIsSound
<1>4. good(IndexInto(Snapshot(s), name))
  BY <1>3, IndexIntoIsSound, GrowsOn
<1>5. good(Failed(s))
  BY FailedIsSound
<1> HIDE DEF good
<1>6. good(Named(name, own, s))
  BY <1>1, <1>2, <1>3, <1>4, <1>5 DEF Named
<1> QED
  BY <1>6 DEF good

LEMMA ExecuteIsSound ==
  ASSUME NEW s, NEW holders, NEW R, NEW H, Sound(s, holders, R, H), NEW own, NEW node,
         node.op \in {"lit", "name", "part", "list", "object"}
  PROVE  Sound(Execute(node, own, s), holders, R, H) /\ Grows(s, Execute(node, own, s))
<1> DEFINE items == [k \in DOMAIN node.items |-> s.values[node.items[k]]]
           good(t) == Sound(t, holders, R, H) /\ Grows(s, t)
<1>0. good(s)
  BY DEF Grows
<1>1. good(Giving(s, Lit(node.value))) /\ good(Giving(s, s.values[node.of]))
  BY GivingIsSound
<1>2. good(Named(node.name, own, s))
  BY NamedIsSound
<1>3. good(IndexInto(Giving(s, s.values[node.of]), node.key))
  BY <1>1, IndexIntoIsSound, GrowsOn
<1>4. good(New(s, "list", items)) /\ good(New(s, "dict", items))
  BY NewIsSound
<1> HIDE DEF good
<1>5. good(Execute(node, own, s))
  BY <1>0, <1>1, <1>2, <1>3, <1>4 DEF Execute
<1> QED
  BY <1>5 DEF good

IsExpression(e) ==
  /\ Len(e) \in Nat \ {0}
  /\ \A i \in 1..Len(e) : e[i].op \in {"lit", "name", "part", "list", "object"}

\* The states that an evaluation goes through.
Run(e, own, s) ==
  CHOOSE run : run = [i \in 0..Len(e) |->
    IF i = 0 THEN Scoped(s) ELSE Recorded(Execute(e[i], own, run[i - 1]))]

LEMMA EvaluateIsRun ==
  ASSUME NEW e, NEW own, NEW s
  PROVE  Evaluate(e, own, s) = Run(e, own, s)[Len(e)]
BY DEF Evaluate, Run

LEMMA RunStates ==
  ASSUME NEW e, Len(e) \in Nat, NEW own, NEW s
  PROVE  LET run == Run(e, own, s)
         IN  run = [i \in 0..Len(e) |->
               IF i = 0 THEN Scoped(s) ELSE Recorded(Execute(e[i], own, run[i - 1]))]
<1> DEFINE start == Scoped(s)
           then(i, t) == Recorded(Execute(e[i], own, t))
           states(m, f) == f = [i \in 0..m |-> IF i = 0 THEN start ELSE then(i, f[i - 1])]
           S == {m \in Nat : \E f : states(m, f)}
<1> HIDE DEF then, start
<1>1. 0 \in S
  <2> DEFINE f == [i \in 0..0 |-> start]
  <2>1. states(0, f)
    OBVIOUS
  <2> QED
    BY <2>1
<1>2. ASSUME NEW m \in Nat, m \in S PROVE m + 1 \in S
  <2>1. PICK f : states(m, f)
    BY <1>2
  <2> DEFINE g == [i \in 0..(m + 1) |-> IF i \in 0..m THEN f[i] ELSE then(i, f[m])]
  <2>2. states(m + 1, g)
    <3> SUFFICES ASSUME NEW i \in 0..(m + 1)
                 PROVE  g[i] = IF i = 0 THEN start ELSE then(i, g[i - 1])
      OBVIOUS
    <3>1. CASE i = m + 1
      BY <3>1
    <3>2. CASE i \in 0..m
      <4>1. g[i] = f[i] /\ (i # 0 => g[i - 1] = f[i - 1])
        BY <3>2
      <4>2. f[i] = IF i = 0 THEN start ELSE then(i, f[i - 1])
        BY <2>1, <3>2
      <4> QED
        BY <4>1, <4>2
    <3> QED
      BY <3>1, <3>2
  <2> HIDE DEF g, states
  <2> QED
    BY <2>2
<1>3. \E f : states(Len(e), f)
  <2>1. Nat \subseteq S
    <3> HIDE DEF S
    <3> QED
      BY <1>1, <1>2, SetInduction
  <2> QED
    BY <2>1
<1> QED
  BY <1>3 DEF Run, then, start

LEMMA EvaluateIsSound ==
  ASSUME NEW s, NEW holders, NEW R, NEW H, Sound(s, holders, R, H), NEW own, NEW e, IsExpression(e)
  PROVE  LET t == Evaluate(e, own, s) IN Sound(t, holders, R, H) /\ (t.ok => s.ok) /\ Grows(s, t)
<1> DEFINE run == Run(e, own, s)
           good(t) == Sound(t, holders, R, H) /\ (t.ok => s.ok) /\ Grows(s, t)
           S == {i \in Nat : i <= Len(e) => good(run[i])}
<1>0. Len(e) \in Nat
  BY DEF IsExpression
<1>1. run = [i \in 0..Len(e) |-> IF i = 0 THEN Scoped(s) ELSE Recorded(Execute(e[i], own, run[i - 1]))]
  BY <1>0, RunStates
<1> HIDE DEF run
<1>2. run[0] = Scoped(s) /\ \A i \in 1..Len(e) : run[i] = Recorded(Execute(e[i], own, run[i - 1]))
  BY <1>0, <1>1
<1>3. 0 \in S
  <2>1. IsState(Scoped(s)) /\ Scoped(s).heap = s.heap /\ Scoped(s).next = s.next /\ Scoped(s).ok = s.ok
    BY DEF Scoped, Sound, IsState
  <2> QED
    BY <1>2, <2>1, SameCells DEF Grows
<1>4. ASSUME NEW i \in Nat, i \in S PROVE i + 1 \in S
  <2> SUFFICES ASSUME i + 1 <= Len(e) PROVE good(run[i + 1])
    OBVIOUS
  <2> DEFINE done == Execute(e[i + 1], own, run[i])
  <2>1. good(run[i])
    BY <1>0, <1>4
  <2>2. run[i + 1] = Recorded(done)
    BY <1>0, <1>2
  <2>3. Sound(done, holders, R, H) /\ Grows(run[i], done)
    BY <1>0, <2>1, ExecuteIsSound DEF IsExpression
  <2>4. done.ok => run[i].ok
    BY DEF Execute
  <2> HIDE DEF done
  <2>5. /\ IsState(run[i + 1]) /\ run[i + 1].heap = done.heap /\ run[i + 1].next = done.next
        /\ run[i + 1].ok = done.ok
    BY <2>2, <2>3 DEF Recorded, Sound, IsState
  <2> QED
    BY <2>1, <2>3, <2>4, <2>5, SameCells DEF Grows
<1>5. Nat \subseteq S
  <2> HIDE DEF S
  <2> QED
    BY <1>3, <1>4, SetInduction
<1> QED
  BY <1>0, <1>5, EvaluateIsRun DEF run

\* What an expression gives is copied, and then held.
LEMMA ValueIsHeld ==
  ASSUME NEW s, NEW holders, NEW R, NEW H, Sound(s, holders, R, H), NEW own, NEW e, IsExpression(e),
         NEW h, h \notin DOMAIN holders
  PROVE  LET t == Clone(Evaluate(e, own, s))
         IN  /\ Sound(t, holders, R, H)
             /\ t.ok => s.ok /\ SoundLater(t, With(holders, h, t.value), R, H)
             /\ Grows(s, t)
<1> DEFINE v == Evaluate(e, own, s)
<1>1. Sound(v, holders, R, H) /\ (v.ok => s.ok) /\ Grows(s, v)
  BY EvaluateIsSound
<1> HIDE DEF v
<1>2. Sound(Clone(v), holders, R, H) /\ Grows(s, Clone(v))
  BY <1>1, CopyIsSound, GrowsOn DEF Clone
<1>3. Clone(v).ok => v.ok
  BY <1>1, CopyFields DEF Clone, Sound
<1>4. Clone(v).ok => SoundLater(Clone(v), With(holders, h, Clone(v).value), R, H)
  BY <1>1, CopyIsHeld DEF Clone
<1> QED
  BY <1>1, <1>2, <1>3, <1>4 DEF v

-----------------------------------------------------------------------------
(* Writing.                                                                  *)

Loose(what) == <<"loose", what>>

\* What is in hands while something is made for it.
NoneMade(holders) == Loose("made") \notin DOMAIN holders

LEMMA Taken ==
  ASSUME NEW holders, NEW h, h \notin DOMAIN holders, NEW v
  PROVE  /\ h \in DOMAIN With(holders, h, v) /\ With(holders, h, v)[h] = v
         /\ DOMAIN With(holders, h, v) = DOMAIN holders \cup {h}
         /\ \A g \in DOMAIN holders : With(holders, h, v)[g] = holders[g]
BY DEF With

LEMMA VivifyIsSound ==
  ASSUME NEW s, NEW holders, NEW R, NEW H, Sound(s, holders, R, H), NoneMade(holders),
         s.value.to \in R, NEW key
  PROVE  LET t == Vivify(s, key)
         IN  /\ t.ok = s.ok /\ t.value.ref /\ t.value.to \in DOMAIN t.heap /\ DOMAIN s.heap \subseteq DOMAIN t.heap
             /\ \E R2, H2 : R \subseteq R2 /\ H \subseteq H2 /\ Sound(t, holders, R2, H2) /\ t.value.to \in R2
<1> DEFINE made == New(s, "dict", <<>>)
           t == Put(made, s.value, key, made.value)
           l == Loose("made")
<1>1. ~IsHosts(l)
  BY DEF IsHosts, Loose
<1>2. PICK R2, H2 : R \subseteq R2 /\ H \subseteq H2 /\ Sound(made, With(holders, l, made.value), R2, H2)
  BY <1>1, NewIsHeld DEF NoneMade, SoundLater
<1>3. /\ IsState(made) /\ made.ok = s.ok /\ made.value.ref /\ made.value.to \in DOMAIN made.heap
      /\ DOMAIN s.heap \subseteq DOMAIN made.heap
  <2>1. /\ IsState(made) /\ made.ok = s.ok /\ made.value = Ref(<<s.next, <<>>>>)
        /\ made.heap = With(s.heap, <<s.next, <<>>>>, Cell("dict", <<>>))
    BY NewFields DEF Sound
  <2> HIDE DEF made
  <2> QED
    BY <2>1 DEF With, Ref
<1> HIDE DEF made, l
<1>4. Sound(t, holders, R2, H2)
  BY <1>1, <1>2, PutIsSound DEF NoneMade, l
<1>5. t.ok = made.ok /\ t.value = made.value /\ DOMAIN t.heap = DOMAIN made.heap
  BY <1>3, PutFields
<1>6. made.value.to \in R2
  <2>1. l \in DOMAIN With(holders, l, made.value) /\ With(holders, l, made.value)[l] = made.value
    BY DEF With
  <2> QED
    BY <1>1, <1>2, <1>3, <2>1 DEF Sound, Apart
<1> HIDE DEF t
<1>7. /\ t.ok = s.ok /\ t.value.ref /\ t.value.to \in DOMAIN t.heap /\ DOMAIN s.heap \subseteq DOMAIN t.heap
      /\ \E R3, H3 : R \subseteq R3 /\ H \subseteq H3 /\ Sound(t, holders, R3, H3) /\ t.value.to \in R3
  BY <1>2, <1>3, <1>4, <1>5, <1>6
<1> QED
  BY <1>7 DEF t, made, Vivify

LEMMA DescendIsSound ==
  ASSUME NEW s, NEW holders, NEW R, NEW H, Sound(s, holders, R, H), NoneMade(holders),
         s.value.ref => s.value.to \in R, NEW accessor
  PROVE  LET t == Descend(s, accessor)
         IN  /\ t.ok => s.ok
             /\ Grows(s, t)
             /\ \E R2, H2 : /\ R \subseteq R2 /\ H \subseteq H2 /\ Sound(t, holders, R2, H2)
                            /\ t.value.ref => t.value.to \in R2
<1> DEFINE goal(t) == /\ t.ok => s.ok
                      /\ Grows(s, t)
                      /\ \E R2, H2 : /\ R \subseteq R2 /\ H \subseteq H2 /\ Sound(t, holders, R2, H2)
                                     /\ t.value.ref => t.value.to \in R2
           item == Items(s, s.value)[accessor.key]
<1>1. goal(Failed(s))
  <2>1. /\ ~Failed(s).ok /\ Failed(s).value = s.value /\ Sound(Failed(s), holders, R, H)
        /\ Grows(s, Failed(s))
    BY FailedFields, FailedIsSound DEF Sound
  <2> QED
    BY <2>1
<1>2. ASSUME Fits(s, s.value, accessor) PROVE s.value.ref /\ s.value.to \in R /\ s.value.to \in DOMAIN s.heap
  BY <1>2 DEF Fits, Is
<1>3. ASSUME Fits(s, s.value, accessor), accessor.key \in DOMAIN Items(s, s.value)
      PROVE  goal(Giving(s, item))
  <2>1. item.ref => item.to \in R
    BY <1>2, <1>3 DEF Sound, Apart, Items
  <2> HIDE DEF item
  <2>2. Giving(s, item).value = item /\ Giving(s, item).ok = s.ok
    BY GivingFields DEF Sound
  <2>3. Sound(Giving(s, item), holders, R, H) /\ Grows(s, Giving(s, item))
    BY GivingIsSound
  <2> QED
    BY <2>1, <2>2, <2>3
<1>4. ASSUME Fits(s, s.value, accessor) PROVE goal(Vivify(s, accessor.key))
  BY <1>2, <1>4, VivifyIsSound DEF Grows
<1> HIDE DEF goal
<1>5. goal(Descend(s, accessor))
  BY <1>1, <1>3, <1>4 DEF Descend
<1> QED
  BY <1>5 DEF goal

\* The way of Walk.
WayDown(container, accessors, s) ==
  CHOOSE way : way = [i \in 0..(Len(accessors) - 1) |->
    IF i = 0 THEN Giving(s, container) ELSE Descend(way[i - 1], accessors[i])]

LEMMA WayDownStates ==
  ASSUME NEW container, NEW accessors, Len(accessors) \in Nat \ {0}, NEW s
  PROVE  LET way == WayDown(container, accessors, s)
         IN  way = [i \in 0..(Len(accessors) - 1) |->
               IF i = 0 THEN Giving(s, container) ELSE Descend(way[i - 1], accessors[i])]
<1> DEFINE start == Giving(s, container)
           then(i, t) == Descend(t, accessors[i])
           states(m, f) == f = [i \in 0..m |-> IF i = 0 THEN start ELSE then(i, f[i - 1])]
           S == {m \in Nat : \E f : states(m, f)}
<1> HIDE DEF then, start
<1>1. 0 \in S
  <2> DEFINE f == [i \in 0..0 |-> start]
  <2>1. states(0, f)
    OBVIOUS
  <2> QED
    BY <2>1
<1>2. ASSUME NEW m \in Nat, m \in S PROVE m + 1 \in S
  <2>1. PICK f : states(m, f)
    BY <1>2
  <2> DEFINE g == [i \in 0..(m + 1) |-> IF i \in 0..m THEN f[i] ELSE then(i, f[m])]
  <2>2. states(m + 1, g)
    <3> SUFFICES ASSUME NEW i \in 0..(m + 1)
                 PROVE  g[i] = IF i = 0 THEN start ELSE then(i, g[i - 1])
      OBVIOUS
    <3>1. CASE i = m + 1
      BY <3>1
    <3>2. CASE i \in 0..m
      <4>1. g[i] = f[i] /\ (i # 0 => g[i - 1] = f[i - 1])
        BY <3>2
      <4>2. f[i] = IF i = 0 THEN start ELSE then(i, f[i - 1])
        BY <2>1, <3>2
      <4> QED
        BY <4>1, <4>2
    <3> QED
      BY <3>1, <3>2
  <2> HIDE DEF g, states
  <2> QED
    BY <2>2
<1>3. \E f : states(Len(accessors) - 1, f)
  <2>1. Nat \subseteq S
    <3> HIDE DEF S
    <3> QED
      BY <1>1, <1>2, SetInduction
  <2> QED
    BY <2>1
<1> QED
  BY <1>3 DEF WayDown, then, start

\* What a write has come to: the value put into a container of the run.
WrittenBelow(t, v, holders, R, H) ==
  \E R2, H2, u, at, key :
    /\ R \subseteq R2 /\ H \subseteq H2 /\ Sound(u, holders, R2, H2) /\ at.to \in R2
    /\ t = Put(u, at, key, v)

\* A write inside a variable: it may fail, but then after steps that do no harm.
LEMMA WalkIsSound ==
  ASSUME NEW s, NEW holders, NEW R, NEW H, Sound(s, holders, R, H), NoneMade(holders),
         NEW container, container.ref => container.to \in R,
         NEW accessors, Len(accessors) \in Nat \ {0}
  PROVE  LET t == Walk(container, accessors, s)
         IN  /\ Grows(s, t)
             /\ \/ ~t.ok /\ SoundLater(t, holders, R, H)
                \/ t.ok /\ s.ok /\ WrittenBelow(t, s.value, holders, R, H)
<1> DEFINE n == Len(accessors)
           way == WayDown(container, accessors, s)
           good(t) == /\ t.ok => s.ok
                      /\ Grows(s, t)
                      /\ \E R2, H2 : /\ R \subseteq R2 /\ H \subseteq H2 /\ Sound(t, holders, R2, H2)
                                     /\ t.value.ref => t.value.to \in R2
           S == {i \in Nat : i < n => good(way[i])}
           at == way[n - 1]
<1>1. way = [i \in 0..(n - 1) |-> IF i = 0 THEN Giving(s, container) ELSE Descend(way[i - 1], accessors[i])]
  BY WayDownStates
<1>2. Walk(container, accessors, s) =
        IF ~at.ok \/ ~Fits(at, at.value, accessors[n]) THEN Failed(at) ELSE Put(at, at.value, accessors[n].key, s.value)
  BY DEF Walk, WayDown
<1> HIDE DEF way
<1>3. way[0] = Giving(s, container) /\ \A i \in 1..(n - 1) : way[i] = Descend(way[i - 1], accessors[i])
  BY <1>1
<1>4. 0 \in S
  <2>1. way[0].value = container /\ way[0].ok = s.ok
    BY <1>3, GivingFields DEF Sound
  <2>2. Sound(way[0], holders, R, H) /\ Grows(s, way[0])
    BY <1>3, GivingIsSound
  <2> QED
    BY <2>1, <2>2
<1>5. ASSUME NEW i \in Nat, i \in S PROVE i + 1 \in S
  <2> SUFFICES ASSUME i + 1 < n PROVE good(way[i + 1])
    OBVIOUS
  <2>1. good(way[i])
    BY <1>5
  <2>2. way[i + 1] = Descend(way[i], accessors[i + 1])
    BY <1>3
  <2>3. PICK R1, H1 : /\ R \subseteq R1 /\ H \subseteq H1 /\ Sound(way[i], holders, R1, H1)
                      /\ way[i].value.ref => way[i].value.to \in R1
    BY <2>1
  <2>4. /\ way[i + 1].ok => way[i].ok
        /\ Grows(way[i], way[i + 1])
        /\ \E R2, H2 : /\ R1 \subseteq R2 /\ H1 \subseteq H2 /\ Sound(way[i + 1], holders, R2, H2)
                       /\ way[i + 1].value.ref => way[i + 1].value.to \in R2
    BY <2>2, <2>3, DescendIsSound
  <2> QED
    BY <2>1, <2>3, <2>4, GrowsOn
<1>6. good(at)
  <2>1. Nat \subseteq S
    <3> HIDE DEF S
    <3> QED
      BY <1>4, <1>5, SetInduction
  <2> QED
    BY <2>1
<1> HIDE DEF at
<1>7. PICK R2, H2 : /\ R \subseteq R2 /\ H \subseteq H2 /\ Sound(at, holders, R2, H2)
                    /\ at.value.ref => at.value.to \in R2
  BY <1>6
<1>8. ~Failed(at).ok /\ Sound(Failed(at), holders, R2, H2) /\ Grows(s, Failed(at))
  BY <1>6, <1>7, FailedIsSound, FailedFields, GrowsOn DEF Sound
<1>9. ASSUME at.ok, Fits(at, at.value, accessors[n])
      PROVE  /\ Put(at, at.value, accessors[n].key, s.value).ok /\ s.ok
             /\ at.value.to \in R2
             /\ Grows(s, Put(at, at.value, accessors[n].key, s.value))
  BY <1>6, <1>7, <1>9, PutFields DEF Sound, Fits, Is, Grows
<1> QED
  BY <1>2, <1>7, <1>8, <1>9 DEF SoundLater, WrittenBelow

LEMMA EnterIsSound ==
  ASSUME NEW s, NEW holders, NEW R, NEW H, Sound(s, holders, R, H), NoneMade(holders),
         s.value.ref, s.value.to \in R \cap DOMAIN s.heap, NEW key
  PROVE  LET t == Enter(s, key)
         IN  /\ t.ok = s.ok /\ t.value.ref /\ t.value.to \in DOMAIN t.heap /\ DOMAIN s.heap \subseteq DOMAIN t.heap
             /\ \E R2, H2 : R \subseteq R2 /\ H \subseteq H2 /\ Sound(t, holders, R2, H2) /\ t.value.to \in R2
<1> DEFINE goal(t) ==
             /\ t.ok = s.ok /\ t.value.ref /\ t.value.to \in DOMAIN t.heap /\ DOMAIN s.heap \subseteq DOMAIN t.heap
             /\ \E R2, H2 : R \subseteq R2 /\ H \subseteq H2 /\ Sound(t, holders, R2, H2) /\ t.value.to \in R2
           item == Items(s, s.value)[key]
<1>1. ASSUME key \in DOMAIN Items(s, s.value), Is("dict", s, item) PROVE goal(Giving(s, item))
  <2>1. item.ref /\ item.to \in R /\ item.to \in DOMAIN s.heap
    BY <1>1 DEF Sound, Apart, Items, Is
  <2> HIDE DEF item
  <2>2. Giving(s, item).value = item /\ Giving(s, item).ok = s.ok /\ Giving(s, item).heap = s.heap
    BY GivingFields DEF Sound
  <2>3. Sound(Giving(s, item), holders, R, H)
    BY GivingIsSound
  <2> QED
    BY <2>1, <2>2, <2>3
<1>2. goal(Vivify(s, key))
  BY VivifyIsSound
<1> HIDE DEF goal
<1>3. goal(Enter(s, key))
  BY <1>1, <1>2 DEF Enter
<1> QED
  BY <1>3 DEF goal

\* The way of PutAt.
WayIn(message, path, s) ==
  CHOOSE way : way = [i \in 0..(Len(path) - 1) |->
    IF i = 0 THEN Giving(s, message) ELSE Enter(way[i - 1], path[i])]

LEMMA WayInStates ==
  ASSUME NEW message, NEW path, Len(path) \in Nat \ {0}, NEW s
  PROVE  LET way == WayIn(message, path, s)
         IN  way = [i \in 0..(Len(path) - 1) |->
               IF i = 0 THEN Giving(s, message) ELSE Enter(way[i - 1], path[i])]
<1> DEFINE start == Giving(s, message)
           then(i, t) == Enter(t, path[i])
           states(m, f) == f = [i \in 0..m |-> IF i = 0 THEN start ELSE then(i, f[i - 1])]
           S == {m \in Nat : \E f : states(m, f)}
<1> HIDE DEF then, start
<1>1. 0 \in S
  <2> DEFINE f == [i \in 0..0 |-> start]
  <2>1. states(0, f)
    OBVIOUS
  <2> QED
    BY <2>1
<1>2. ASSUME NEW m \in Nat, m \in S PROVE m + 1 \in S
  <2>1. PICK f : states(m, f)
    BY <1>2
  <2> DEFINE g == [i \in 0..(m + 1) |-> IF i \in 0..m THEN f[i] ELSE then(i, f[m])]
  <2>2. states(m + 1, g)
    <3> SUFFICES ASSUME NEW i \in 0..(m + 1)
                 PROVE  g[i] = IF i = 0 THEN start ELSE then(i, g[i - 1])
      OBVIOUS
    <3>1. CASE i = m + 1
      BY <3>1
    <3>2. CASE i \in 0..m
      <4>1. g[i] = f[i] /\ (i # 0 => g[i - 1] = f[i - 1])
        BY <3>2
      <4>2. f[i] = IF i = 0 THEN start ELSE then(i, f[i - 1])
        BY <2>1, <3>2
      <4> QED
        BY <4>1, <4>2
    <3> QED
      BY <3>1, <3>2
  <2> HIDE DEF g, states
  <2> QED
    BY <2>2
<1>3. \E f : states(Len(path) - 1, f)
  <2>1. Nat \subseteq S
    <3> HIDE DEF S
    <3> QED
      BY <1>1, <1>2, SetInduction
  <2> QED
    BY <2>1
<1> QED
  BY <1>3 DEF WayIn, then, start

\* A write inside a message, which is an object of the run.
LEMMA PutAtIsSound ==
  ASSUME NEW s, NEW holders, NEW R, NEW H, Sound(s, holders, R, H), NoneMade(holders),
         NEW message, message.ref, message.to \in R \cap DOMAIN s.heap,
         NEW path, Len(path) \in Nat \ {0}
  PROVE  LET t == PutAt(message, path, s)
         IN  /\ t.ok = s.ok /\ DOMAIN s.heap \subseteq DOMAIN t.heap
             /\ WrittenBelow(t, s.value, holders, R, H)
<1> DEFINE n == Len(path)
           way == WayIn(message, path, s)
           good(t) == /\ t.ok = s.ok /\ t.value.ref /\ t.value.to \in DOMAIN t.heap /\ DOMAIN s.heap \subseteq DOMAIN t.heap
                      /\ \E R2, H2 : R \subseteq R2 /\ H \subseteq H2 /\ Sound(t, holders, R2, H2) /\ t.value.to \in R2
           S == {i \in Nat : i < n => good(way[i])}
           at == way[n - 1]
<1>1. way = [i \in 0..(n - 1) |-> IF i = 0 THEN Giving(s, message) ELSE Enter(way[i - 1], path[i])]
  BY WayInStates
<1>2. PutAt(message, path, s) = Put(at, at.value, path[n], s.value)
  BY DEF PutAt, WayIn
<1> HIDE DEF way
<1>3. way[0] = Giving(s, message) /\ \A i \in 1..(n - 1) : way[i] = Enter(way[i - 1], path[i])
  BY <1>1
<1>4. 0 \in S
  <2>1. way[0].value = message /\ way[0].ok = s.ok /\ way[0].heap = s.heap
    BY <1>3, GivingFields DEF Sound
  <2>2. Sound(way[0], holders, R, H)
    BY <1>3, GivingIsSound
  <2> QED
    BY <2>1, <2>2
<1>5. ASSUME NEW i \in Nat, i \in S PROVE i + 1 \in S
  <2> SUFFICES ASSUME i + 1 < n PROVE good(way[i + 1])
    OBVIOUS
  <2>1. good(way[i])
    BY <1>5
  <2>2. way[i + 1] = Enter(way[i], path[i + 1])
    BY <1>3
  <2>3. PICK R1, H1 : /\ R \subseteq R1 /\ H \subseteq H1 /\ Sound(way[i], holders, R1, H1)
                      /\ way[i].value.to \in R1
    BY <2>1
  <2>4. LET t == way[i + 1]
        IN  /\ t.ok = way[i].ok /\ t.value.ref /\ t.value.to \in DOMAIN t.heap
            /\ DOMAIN way[i].heap \subseteq DOMAIN t.heap
            /\ \E R2, H2 : R1 \subseteq R2 /\ H1 \subseteq H2 /\ Sound(t, holders, R2, H2) /\ t.value.to \in R2
    BY <2>1, <2>2, <2>3, EnterIsSound
  <2> QED
    BY <2>1, <2>3, <2>4
<1>6. good(at)
  <2>1. Nat \subseteq S
    <3> HIDE DEF S
    <3> QED
      BY <1>4, <1>5, SetInduction
  <2> QED
    BY <2>1
<1> HIDE DEF at
<1>7. PICK R2, H2 : R \subseteq R2 /\ H \subseteq H2 /\ Sound(at, holders, R2, H2) /\ at.value.to \in R2
  BY <1>6
<1>8. LET t == Put(at, at.value, path[n], s.value)
      IN  t.ok = at.ok /\ DOMAIN t.heap = DOMAIN at.heap
  BY <1>7, PutFields DEF Sound
<1> QED
  BY <1>2, <1>6, <1>7, <1>8 DEF WrittenBelow

LEMMA Swapped ==
  ASSUME NEW holders, NEW g, NEW h, g # h, NEW v, NEW w
  PROVE  With(With(holders, g, v), h, w) = With(With(holders, h, w), g, v)
BY DEF With

\* One holder takes over what another one has.
LEMMA TakenOver ==
  ASSUME NEW s, NEW holders, NEW R, NEW H, NEW g, NEW h, NEW v, Sound(s, With(holders, g, v), R, H),
         g \notin DOMAIN holders, IsHosts(g) = IsHosts(h)
  PROVE  Sound(s, With(holders, h, v), R, H)
<1> DEFINE all == With(holders, g, v)
           others == With(holders, h, v)
           from == [x \in DOMAIN others |-> IF x = h THEN g ELSE x]
<1>1. \A x \in DOMAIN others : from[x] \in DOMAIN all /\ all[from[x]] = others[x] /\ IsHosts(from[x]) = IsHosts(x)
  BY DEF With
<1>2. \A x, y \in DOMAIN others : from[x] = from[y] => x = y
  BY DEF With
<1> HIDE DEF from, all, others
<1>3. PassesOn(all, others, from)
  BY <1>1, <1>2 DEF PassesOn
<1>4. Sound(s, others, R, H)
  BY <1>3, PassedOn DEF all
<1> QED
  BY <1>4 DEF others

\* What is held no more.
LEMMA Dropped ==
  ASSUME NEW s, NEW holders, NEW R, NEW H, NEW h, NEW v, Sound(s, With(holders, h, v), R, H),
         h \notin DOMAIN holders
  PROVE  Sound(s, holders, R, H)
<1> DEFINE all == With(holders, h, v)
           from == [x \in DOMAIN holders |-> x]
<1>1. \A x \in DOMAIN holders : from[x] \in DOMAIN all /\ all[from[x]] = holders[x] /\ IsHosts(from[x]) = IsHosts(x)
  BY DEF With
<1>2. \A x, y \in DOMAIN holders : from[x] = from[y] => x = y
  OBVIOUS
<1> HIDE DEF from, all
<1>3. PassesOn(all, holders, from)
  BY <1>1, <1>2 DEF PassesOn
<1> QED
  BY <1>3, PassedOn DEF all

\* A message that is no object becomes one.
LEMMA EnvelopedIsHeld ==
  ASSUME NEW s, NEW holders, NEW R, NEW H, NEW l, l \notin DOMAIN holders, ~IsHosts(l),
         Sound(s, With(holders, l, s.value), R, H), NoneMade(With(holders, l, s.value))
  PROVE  LET t == Enveloped(s)
         IN  /\ t.ok = s.ok /\ t.value.ref /\ t.value.to \in DOMAIN t.heap
             /\ Grows(s, t)
             /\ SoundLater(t, With(holders, l, t.value), R, H)
<1> DEFINE v == s.value
           a == <<s.next, <<>>>>
           made == New(s, "dict", <<>>)
           put == Put(made, made.value, "data", v)
           t == New(s, "dict", [k \in {"data"} |-> v])
           m == Loose("made")
           whole == Cell("dict", [k \in {"data"} |-> v])
<1>1. CASE Is("dict", s, s.value)
  BY <1>1 DEF Enveloped, Is, SoundLater, Grows
<1>2. CASE ~Is("dict", s, s.value)
  <2>1. ~IsHosts(m) /\ m # l /\ m \notin DOMAIN holders
    <3>1. ~IsHosts(m)
      BY DEF IsHosts, Loose
    <3>2. DOMAIN With(holders, l, v) = DOMAIN holders \cup {l}
      BY DEF With
    <3>3. m \notin DOMAIN With(holders, l, v)
      BY DEF NoneMade
    <3> QED
      BY <3>1, <3>2, <3>3
  <2>2. PICK R2, H2 : /\ R \subseteq R2 /\ H \subseteq H2
                      /\ Sound(made, With(With(holders, l, v), m, made.value), R2, H2)
    BY <2>1, NewIsHeld DEF NoneMade, SoundLater
  <2>3. /\ IsState(made) /\ made.next = s.next + 1 /\ made.ok = s.ok /\ made.value = Ref(a)
        /\ made.heap = With(s.heap, a, Cell("dict", <<>>))
    BY NewFields DEF Sound
  <2>4. /\ IsState(t) /\ t.next = s.next + 1 /\ t.ok = s.ok /\ t.value = Ref(a)
        /\ t.heap = With(s.heap, a, whole)
    BY NewFields DEF Sound
  <2> HIDE DEF made, t, m, a, v
  <2>5. Sound(made, With(With(holders, m, made.value), l, v), R2, H2)
    BY <2>1, <2>2, Swapped
  <2>6. made.value.to \in R2
    <3>1. With(With(holders, l, v), m, made.value)[m] = made.value
          /\ m \in DOMAIN With(With(holders, l, v), m, made.value)
      BY DEF With
    <3>2. made.value.ref
      BY <2>3 DEF Ref
    <3> QED
      BY <2>1, <2>2, <3>1, <3>2 DEF Sound, Apart
  <2>7. l \notin DOMAIN With(holders, m, made.value)
    BY <2>1 DEF With
  <2>8. Sound(put, With(holders, m, made.value), R2, H2)
    BY <2>5, <2>6, <2>7, PutIsSound
  <2>9. /\ IsState(put) /\ put.next = made.next /\ DOMAIN put.heap = DOMAIN made.heap
        /\ \A b \in DOMAIN made.heap : put.heap[b] =
             IF b = a THEN Cell(made.heap[b].kind, With(made.heap[b].items, "data", v)) ELSE made.heap[b]
    <3>1. made.value.to = a
      BY <2>3 DEF Ref
    <3> QED
      BY <2>3, <3>1, PutFields
  <2>10. /\ DOMAIN t.heap = DOMAIN put.heap
         /\ \A b \in DOMAIN t.heap : t.heap[b] = put.heap[b]
    <3>1. /\ DOMAIN made.heap = DOMAIN s.heap \cup {a} /\ made.heap[a] = Cell("dict", <<>>)
          /\ \A b \in DOMAIN s.heap : b # a => made.heap[b] = s.heap[b]
      BY <2>3 DEF With
    <3>2. /\ DOMAIN t.heap = DOMAIN s.heap \cup {a} /\ t.heap[a] = whole
          /\ \A b \in DOMAIN s.heap : b # a => t.heap[b] = s.heap[b]
      BY <2>4 DEF With
    <3>3. Cell(Cell("dict", <<>>).kind, With(Cell("dict", <<>>).items, "data", v)) = whole
      <4>1. With(<<>>, "data", v) = [k \in {"data"} |-> v]
        BY DEF With
      <4> QED
        BY <4>1 DEF Cell
    <3> HIDE DEF whole
    <3> QED
      BY <2>9, <3>1, <3>2, <3>3
  <2>11. Sound(t, With(holders, m, made.value), R2, H2)
    <3>1. /\ t.next = put.next /\ put.next \in Nat
          /\ \A b \in DOMAIN put.heap : Older(b, put.next)
      BY <2>3, <2>4, <2>8, <2>9 DEF Sound
    <3> HIDE DEF put
    <3> QED
      BY <2>4, <2>8, <2>10, <3>1, StaysSound
  <2>12. IsHosts(m) = IsHosts(l)
    BY <2>1 DEF IsHosts
  <2>13. Sound(t, With(holders, l, t.value), R2, H2)
    BY <2>1, <2>3, <2>4, <2>11, <2>12, TakenOver
  <2>14. t.value.ref /\ t.value.to \in DOMAIN t.heap /\ Grows(s, t)
    BY <2>4 DEF Ref, With, Grows
  <2>15. Enveloped(s) = t
    BY <1>2 DEF Enveloped, t, v
  <2> QED
    BY <2>2, <2>4, <2>13, <2>14, <2>15 DEF SoundLater
<1> QED
  BY <1>1, <1>2

\* A value that is held becomes the message or goes into it.
LEMMA PutIntoIsSound ==
  ASSUME NEW s, NEW holders, NEW R, NEW H, NEW l, l \notin DOMAIN holders, ~IsHosts(l), s.ok,
         Sound(s, With(holders, l, s.value), R, H), NoneMade(With(holders, l, s.value)),
         NEW message, message.ref, message.to \in R \cap DOMAIN s.heap,
         NEW path, path = <<>> \/ Len(path) \in Nat \ {0}
  PROVE  LET t == PutInto(message, path, s)
         IN  /\ t.ok /\ t.value.ref /\ t.value.to \in DOMAIN t.heap /\ Grows(s, t)
             /\ \/ SoundLater(t, With(holders, l, t.value), R, H)
                \/ t.value = message /\ SoundLater(t, holders, R, H)
<1>1. CASE path = <<>>
  <2> DEFINE t == Enveloped(s)
  <2>1. /\ t.ok = s.ok /\ t.value.ref /\ t.value.to \in DOMAIN t.heap
        /\ Grows(s, t) /\ SoundLater(t, With(holders, l, t.value), R, H)
    BY EnvelopedIsHeld
  <2>2. PutInto(message, path, s) = t
    BY <1>1 DEF PutInto
  <2> HIDE DEF t
  <2> QED
    BY <2>1, <2>2
<1>2. CASE path # <<>>
  <2> DEFINE p == PutAt(message, path, s)
             t == Giving(p, message)
  <2>1. Len(path) \in Nat \ {0}
    BY <1>2
  <2>2. /\ p.ok = s.ok /\ DOMAIN s.heap \subseteq DOMAIN p.heap
        /\ WrittenBelow(p, s.value, With(holders, l, s.value), R, H)
    BY <2>1, PutAtIsSound
  <2> HIDE DEF p
  <2>3. PICK R2, H2, u, at, key :
          /\ R \subseteq R2 /\ H \subseteq H2 /\ Sound(u, With(holders, l, s.value), R2, H2) /\ at.to \in R2
          /\ p = Put(u, at, key, s.value)
    BY <2>2 DEF WrittenBelow
  <2>4. Sound(p, holders, R2, H2)
    BY <2>3, PutIsSound
  <2>5. Sound(t, holders, R2, H2)
    BY <2>4, GivingIsSound
  <2>6. t.ok = p.ok /\ t.value = message /\ t.heap = p.heap
    BY <2>4, GivingFields DEF Sound
  <2>7. PutInto(message, path, s) = t
    BY <1>2 DEF PutInto, p
  <2> HIDE DEF t
  <2> QED
    BY <2>2, <2>3, <2>5, <2>6, <2>7 DEF SoundLater, Grows
<1> QED
  BY <1>1, <1>2

-----------------------------------------------------------------------------
(* The invariant.                                                            *)

\* What a holder has can be reached.
LEMMA HeldIsReached ==
  ASSUME NEW cells, NEW holders
  PROVE  Targets(holders) \cap DOMAIN cells \subseteq InUse(cells, holders)
<1> DEFINE met == Reached(cells, holders)
           start == Targets(holders) \cap DOMAIN cells
           S == {n \in Nat : n <= Rounds(cells) => start \subseteq met[n]}
<1>0. Rounds(cells) \in Nat
  BY RoundsAreANumber
<1>1. met = [n \in 0..Rounds(cells) |-> IF n = 0 THEN start ELSE Further(cells, met[n - 1])]
  BY ReachedRounds
<1> HIDE DEF met, start
<1>2. met[0] = start /\ \A n \in 1..Rounds(cells) : met[n] = Further(cells, met[n - 1])
  BY <1>0, <1>1
<1>3. 0 \in S
  BY <1>2
<1>4. ASSUME NEW n \in Nat, n \in S PROVE n + 1 \in S
  <2> SUFFICES ASSUME n + 1 <= Rounds(cells) PROVE start \subseteq met[n + 1]
    OBVIOUS
  <2>1. start \subseteq met[n] /\ met[n + 1] = Further(cells, met[n])
    BY <1>0, <1>2, <1>4
  <2> QED
    BY <2>1, FurtherElements
<1>5. Nat \subseteq S
  <2> HIDE DEF S
  <2> QED
    BY <1>3, <1>4, SetInduction
<1> QED
  BY <1>0, <1>5, InUseIsReached DEF met, start

MessageIsThere(cells, holders) == Msg \in DOMAIN holders /\ holders[Msg].ref /\ holders[Msg].to \in DOMAIN cells

\* Nothing is in an operation's hands.
NothingLoose(holders) == \A h \in DOMAIN holders : h[1] # "loose"

\* Every container there is belongs to the run or to the host, is Sound, and can be told from later ones.
Owned ==
  \E R, H : DOMAIN heap \subseteq R \cup H /\ Sound(Begin, held, R, H)

IInv ==
  /\ Owned
  /\ MessageIsThere(heap, held)
  /\ NothingLoose(held)
  /\ live = <<>> \/ \E b \in Bindings : live = <<b>>

IsSound(s, holders) == \E R, H : Sound(s, holders, R, H)

LEMMA BeginFields ==
  /\ IsState(Begin) /\ Begin.heap = heap /\ Begin.next = next /\ Begin.ok
  /\ IsState(Begin)' /\ Begin.heap' = heap' /\ Begin.next' = next'
BY DEF IsState, Begin

\* What can be reached from the holders is all there is.
LEMMA ReachedIsOwned ==
  ASSUME NEW s, NEW holders, NEW R, NEW H, Sound(s, holders, R, H)
  PROVE  InUse(s.heap, holders) \subseteq (R \cup H) \cap DOMAIN s.heap
<1>1. Targets(holders) \cap DOMAIN s.heap \subseteq R \cup H
  BY DEF Sound, Apart, Targets
<1>2. \A a \in (R \cup H) \cap DOMAIN s.heap : Targets(s.heap[a].items) \cap DOMAIN s.heap \subseteq R \cup H
  BY DEF Sound, Apart, Targets
<1> QED
  BY <1>1, <1>2, ReachedWithin

LEMMA KeepIsOwned ==
  ASSUME NEW s, NEW holders, IsSound(s, holders), Keep(s, holders),
         MessageIsThere(s.heap, holders), NothingLoose(holders)
  PROVE  Owned' /\ MessageIsThere(heap, held)' /\ NothingLoose(held)'
<1> DEFINE kept == InUse(s.heap, holders)
<1>1. PICK R, H : Sound(s, holders, R, H)
  BY DEF IsSound
<1>2. kept \subseteq (R \cup H) \cap DOMAIN s.heap
  BY <1>1, ReachedIsOwned
<1>3. /\ DOMAIN heap' = kept /\ \A a \in kept : heap'[a] = s.heap[a]
      /\ next' = s.next /\ held' = holders
  BY DEF Keep, Restrict
<1> HIDE DEF kept
<1>4. Sound(Begin', holders, R, H)
  <2> DEFINE t == Begin'
  <2>1. IsState(t) /\ t.heap = heap' /\ t.next = next'
    BY DEF Begin, IsState
  <2> HIDE DEF t
  <2>2. t.next \in Nat /\ s.next <= t.next /\ \A a \in DOMAIN t.heap : Older(a, t.next)
    BY <1>1, <1>2, <1>3, <2>1 DEF Sound
  <2>3. \A a \in R \cup H : a \in DOMAIN t.heap => a \in DOMAIN s.heap /\ t.heap[a] = s.heap[a]
    BY <1>2, <1>3, <2>1
  <2>4. Sound(t, holders, R, H)
    BY <1>1, <2>1, <2>2, <2>3, StaysSound
  <2> QED
    BY <2>4 DEF t
<1>5. Owned'
  BY <1>2, <1>3, <1>4 DEF Owned
<1>6. MessageIsThere(heap, held)'
  <2>1. holders[Msg].to \in Targets(holders) \cap DOMAIN s.heap
    BY DEF MessageIsThere, Targets
  <2>2. holders[Msg].to \in kept
    BY <2>1, HeldIsReached DEF kept
  <2> QED
    BY <1>3, <2>2 DEF MessageIsThere
<1>7. NothingLoose(held)'
  BY <1>3 DEF NothingLoose
<1> QED
  BY <1>5, <1>6, <1>7

\* An operation that fails leaves what it has done.
LEMMA RaisesIsOwned ==
  ASSUME IInv, NEW s, NEW holders, IsSound(s, holders), Grows(Begin, s), NothingLoose(holders),
         Msg \in DOMAIN holders, holders[Msg] = held[Msg],
         NEW operation, Raises(s, holders, operation)
  PROVE  Owned' /\ MessageIsThere(heap, held)' /\ NothingLoose(held)'
<1>1. MessageIsThere(s.heap, holders)
  BY BeginFields DEF IInv, MessageIsThere, Grows
<1>2. Keep(s, holders)
  BY DEF Raises
<1> QED
  BY <1>1, <1>2, KeepIsOwned

-----------------------------------------------------------------------------
(* The operations of the script.                                             *)

LEMMA Expressions ==
  /\ \A w \in VarWrites \cup IndexWrites \cup FieldWrites : IsExpression(w.expr)
  /\ \A b \in Bindings : IsExpression(b.init) /\ IsExpression(b.update) /\ IsExpression(b.result)
BY ContainersAssumption DEF IsExpression

LEMMA Paths ==
  /\ \A w \in IndexWrites : Len(w.accessors) \in Nat \ {0}
  /\ \A w \in FieldWrites \cup Bindings : w.path = <<>> \/ Len(w.path) \in Nat \ {0}
<1>1. \A w \in IndexWrites : w.accessors \in Seq([by : {"dot", "index"}, key : STRING]) /\ w.accessors # <<>>
  BY ContainersAssumption
<1>2. \A w \in FieldWrites \cup Bindings : w.path \in Seq(STRING)
  BY ContainersAssumption
<1>3. \A T : \A q \in Seq(T) : q # <<>> => Len(q) \in Nat \ {0}
  OBVIOUS
<1> QED
  BY <1>1, <1>2, <1>3

Value == Loose("value")

LEMMA Holdings ==
  /\ ~IsHosts(Msg) /\ ~IsHosts(Static) /\ IsHosts(Received)
  /\ \A n : ~IsHosts(Var(n)) /\ ~IsHosts(Extern(n)) /\ ~IsHosts(Loose(n)) /\ IsHosts(Param(n))
  /\ \A n : Msg # Var(n) /\ Msg # Extern(n)
  /\ Msg # Static /\ Msg # Received /\ Static # Received
BY DEF IsHosts, Msg, Static, Received, Var, Extern, Param, Loose

LEMMA LooseNames ==
  /\ Loose("made") # Value /\ Loose("made") # Loose("base") /\ Loose("made") # Loose("static")
  /\ Value # Loose("base") /\ Value # Loose("static") /\ Loose("base") # Loose("static")
  /\ \A n : Loose(n)[1] = "loose"
BY DEF Loose, Value

\* What a script's operation computes first.
LEMMA ValueOfOperation ==
  ASSUME IInv, NEW own, NEW e, IsExpression(e)
  PROVE  LET t == Clone(Evaluate(e, own, Begin))
         IN  /\ IsSound(t, held) /\ Grows(Begin, t)
             /\ t.ok => IsSound(t, With(held, Value, t.value))
<1>1. PICK R, H : Sound(Begin, held, R, H)
  BY DEF IInv, Owned
<1>2. Value \notin DOMAIN held
  BY LooseNames DEF IInv, NothingLoose, Value
<1> DEFINE t == Clone(Evaluate(e, own, Begin))
<1>3. /\ Sound(t, held, R, H) /\ Grows(Begin, t)
      /\ t.ok => SoundLater(t, With(held, Value, t.value), R, H)
  BY <1>1, <1>2, ValueIsHeld
<1> HIDE DEF t
<1>4. IsSound(t, held) /\ Grows(Begin, t) /\ (t.ok => IsSound(t, With(held, Value, t.value)))
  BY <1>3 DEF IsSound, SoundLater
<1> QED
  BY <1>4 DEF t

LEMMA Still ==
  ASSUME IInv, NEW s, Grows(Begin, s)
  PROVE  MessageIsThere(s.heap, held)
BY BeginFields DEF IInv, MessageIsThere, Grows

\* A holder of the run takes over what is in hands.
LEMMA ValueTaken ==
  ASSUME NEW s, NEW holders, NothingLoose(holders), NEW v, IsSound(s, With(holders, Value, v)), NEW h, ~IsHosts(h)
  PROVE  IsSound(s, With(holders, h, v))
<1>1. PICK R, H : Sound(s, With(holders, Value, v), R, H)
  BY DEF IsSound
<1>2. Value \notin DOMAIN holders
  BY LooseNames DEF NothingLoose, Value
<1>3. IsHosts(Value) = IsHosts(h)
  BY Holdings DEF IsHosts, Value
<1>4. Sound(s, With(holders, h, v), R, H)
  BY <1>1, <1>2, <1>3, TakenOver
<1> QED
  BY <1>4 DEF IsSound

\* Some of the holders are given up.
LEMMA SomeStay ==
  ASSUME NEW s, IsSound(s, held), NothingLoose(held),
         NEW left, DOMAIN left \subseteq DOMAIN held, \A h \in DOMAIN left : left[h] = held[h]
  PROVE  IsSound(s, left) /\ NothingLoose(left)
<1> DEFINE from == [x \in DOMAIN left |-> x]
<1>1. PassesOn(held, left, from)
  BY DEF PassesOn
<1>2. IsSound(s, left)
  BY <1>1, PassedOn DEF IsSound
<1> QED
  BY <1>2 DEF NothingLoose

LEMMA SetVarIsOwned ==
  ASSUME IInv, NEW w \in VarWrites, SetVar(w)
  PROVE  IInv'
<1> DEFINE s == Clone(Evaluate(w.expr, <<>>, Begin))
           holders == With(held, Var(w.name), s.value)
<1>1. /\ IsSound(s, held) /\ Grows(Begin, s)
      /\ s.ok => IsSound(s, With(held, Value, s.value))
  BY Expressions, ValueOfOperation
<1>2. live' = live /\ IF s.ok THEN Keep(s, holders) ELSE Raises(s, held, <<"write", w>>)
  BY DEF SetVar, Gives
<1> HIDE DEF s
<1>3. CASE s.ok
  <2>1. IsSound(s, holders)
    BY <1>1, <1>3, ValueTaken, Holdings DEF IInv
  <2>2. MessageIsThere(s.heap, held)
    BY <1>1, Still
  <2>3. MessageIsThere(s.heap, holders)
    BY <2>2, Holdings DEF MessageIsThere, With
  <2>4. NothingLoose(holders)
    BY DEF IInv, NothingLoose, With, Var
  <2>5. Owned' /\ MessageIsThere(heap, held)' /\ NothingLoose(held)'
    BY <1>2, <1>3, <2>1, <2>3, <2>4, KeepIsOwned
  <2> QED
    BY <1>2, <1>3, <2>5 DEF IInv
<1>4. CASE ~s.ok
  <2>1. Msg \in DOMAIN held /\ NothingLoose(held)
    BY DEF IInv, MessageIsThere
  <2>2. Owned' /\ MessageIsThere(heap, held)' /\ NothingLoose(held)'
    BY <1>1, <1>2, <1>4, <2>1, RaisesIsOwned
  <2> QED
    BY <1>2, <2>2 DEF IInv
<1> QED
  BY <1>3, <1>4

LEMMA BindIsOwned ==
  ASSUME IInv, NEW b \in Bindings, Bind(b)
  PROVE  IInv'
<1> DEFINE s == Clone(Evaluate(b.init, <<>>, Begin))
           left == WithoutStatic
           holders == With(left, Static, s.value)
<1>1. /\ IsSound(s, held) /\ Grows(Begin, s)
      /\ s.ok => IsSound(s, With(held, Value, s.value))
  BY Expressions, ValueOfOperation
<1>2. live' = <<b>> /\ IF s.ok THEN Keep(s, holders) ELSE Raises(s, left, <<"bind", b>>)
  BY DEF Bind, Gives
<1>0. /\ holders = With(held, Static, s.value)
      /\ DOMAIN left \subseteq DOMAIN held /\ \A h \in DOMAIN left : left[h] = held[h]
      /\ Msg \in DOMAIN held => Msg \in DOMAIN left
  <2> HIDE DEF s
  <2> QED
    BY Holdings DEF WithoutStatic, Restrict, With
<1> HIDE DEF s, left, holders
<1>3. CASE s.ok
  <2>1. IsSound(s, holders)
    BY <1>0, <1>1, <1>3, ValueTaken, Holdings DEF IInv
  <2>2. MessageIsThere(s.heap, held)
    BY <1>1, Still
  <2>3. MessageIsThere(s.heap, holders)
    BY <1>0, <2>2, Holdings DEF MessageIsThere, With
  <2>4. NothingLoose(holders)
    BY <1>0 DEF IInv, NothingLoose, With, Static
  <2>5. Owned' /\ MessageIsThere(heap, held)' /\ NothingLoose(held)'
    BY <1>2, <1>3, <2>1, <2>3, <2>4, KeepIsOwned
  <2> QED
    BY <1>2, <1>3, <2>5 DEF IInv
<1>4. CASE ~s.ok
  <2>1. IsSound(s, left) /\ NothingLoose(left) /\ Msg \in DOMAIN left /\ left[Msg] = held[Msg]
    BY <1>0, <1>1, SomeStay DEF IInv, MessageIsThere
  <2>2. Owned' /\ MessageIsThere(heap, held)' /\ NothingLoose(held)'
    BY <1>1, <1>2, <1>4, <2>1, RaisesIsOwned
  <2> QED
    BY <1>2, <2>2 DEF IInv
<1> QED
  BY <1>3, <1>4

\* A write inside a variable, of a value that is in hands if there is one.
LEMMA WalkIsOwned ==
  ASSUME NEW s, NothingLoose(held), IsSound(s, held), s.ok => IsSound(s, With(held, Value, s.value)),
         NEW h \in DOMAIN held, ~IsHosts(h), NEW accessors, Len(accessors) \in Nat \ {0}
  PROVE  IsSound(Walk(held[h], accessors, s), held) /\ Grows(s, Walk(held[h], accessors, s))
<1> DEFINE holders == IF s.ok THEN With(held, Value, s.value) ELSE held
           t == Walk(held[h], accessors, s)
<1>1. Value \notin DOMAIN held /\ Loose("made") \notin DOMAIN held
  BY LooseNames DEF NothingLoose, Value
<1>2. NoneMade(holders) /\ h \in DOMAIN holders /\ holders[h] = held[h]
  BY <1>1, LooseNames DEF NoneMade, With
<1>3. PICK R, H : Sound(s, holders, R, H)
  BY DEF IsSound
<1> HIDE DEF holders
<1>4. held[h].ref => held[h].to \in R
  BY <1>2, <1>3 DEF Sound, Apart
<1>5. /\ Grows(s, t)
      /\ \/ ~t.ok /\ SoundLater(t, holders, R, H)
         \/ t.ok /\ s.ok /\ WrittenBelow(t, s.value, holders, R, H)
  BY <1>2, <1>3, <1>4, WalkIsSound
<1> HIDE DEF t
<1>6. CASE ~t.ok /\ SoundLater(t, holders, R, H)
  <2>1. PICK R2, H2 : Sound(t, holders, R2, H2)
    BY <1>6 DEF SoundLater
  <2>2. Sound(t, held, R2, H2)
    BY <1>1, <2>1, Dropped DEF holders
  <2> QED
    BY <1>5, <2>2 DEF IsSound, t
<1>7. CASE t.ok /\ s.ok /\ WrittenBelow(t, s.value, holders, R, H)
  <2>1. PICK R2, H2, u, at, key :
          /\ Sound(u, With(held, Value, s.value), R2, H2) /\ at.to \in R2
          /\ t = Put(u, at, key, s.value)
    BY <1>7 DEF WrittenBelow, holders
  <2>2. Sound(t, held, R2, H2)
    BY <1>1, <2>1, Holdings, PutIsSound DEF Value
  <2> QED
    BY <1>5, <2>2 DEF IsSound, t
<1> QED
  BY <1>5, <1>6, <1>7

LEMMA SetVarIndexIsOwned ==
  ASSUME IInv, NEW w \in IndexWrites, SetVarIndex(w)
  PROVE  IInv'
<1> DEFINE value == Clone(Evaluate(w.expr, <<>>, Begin))
           s == IF Var(w.name) \in DOMAIN held THEN Walk(held[Var(w.name)], w.accessors, value) ELSE Failed(value)
<1>1. /\ IsSound(value, held) /\ Grows(Begin, value)
      /\ value.ok => IsSound(value, With(held, Value, value.value))
  BY Expressions, ValueOfOperation
<1>2. live' = live /\ IF s.ok THEN Keep(s, held) ELSE Raises(s, held, <<"write", w>>)
  BY DEF SetVarIndex, Changes, WriteInside, Element
<1> HIDE DEF value
<1>3. IsSound(s, held) /\ Grows(Begin, s)
  <2>1. CASE Var(w.name) \in DOMAIN held
    <3>1. IsSound(s, held) /\ Grows(value, s)
      BY <1>1, <2>1, Paths, Holdings, WalkIsOwned DEF IInv
    <3> QED
      BY <1>1, <3>1, GrowsOn
  <2>2. CASE Var(w.name) \notin DOMAIN held
    BY <1>1, <2>2, FailedIsSound, GrowsOn DEF IsSound
  <2> QED
    BY <2>1, <2>2
<1> HIDE DEF s
<1>4. CASE s.ok
  <2>1. MessageIsThere(s.heap, held)
    BY <1>3, Still
  <2>2. Owned' /\ MessageIsThere(heap, held)' /\ NothingLoose(held)'
    BY <1>2, <1>3, <1>4, <2>1, KeepIsOwned DEF IInv
  <2> QED
    BY <1>2, <1>4, <2>2 DEF IInv
<1>5. CASE ~s.ok
  <2>1. Msg \in DOMAIN held /\ NothingLoose(held)
    BY DEF IInv, MessageIsThere
  <2>2. Owned' /\ MessageIsThere(heap, held)' /\ NothingLoose(held)'
    BY <1>2, <1>3, <1>5, <2>1, RaisesIsOwned
  <2> QED
    BY <1>2, <2>2 DEF IInv
<1> QED
  BY <1>4, <1>5

\* A value in hands becomes the message, or has gone into the one there was.
LEMMA MessageTaken ==
  ASSUME NEW s, NothingLoose(held), Msg \in DOMAIN held, NEW v,
         IsSound(s, With(held, Value, v)) \/ (v = held[Msg] /\ IsSound(s, held)),
         NEW left, DOMAIN left \subseteq DOMAIN held, \A h \in DOMAIN left : left[h] = held[h]
  PROVE  IsSound(s, With(left, Msg, v))
<1> DEFINE others == With(left, Msg, v)
<1>1. DOMAIN others = DOMAIN left \cup {Msg} /\ others[Msg] = v /\ \A h \in DOMAIN left : h # Msg => others[h] = held[h]
  BY DEF With
<1>2. Value \notin DOMAIN held /\ IsHosts(Value) = IsHosts(Msg)
  BY LooseNames, Holdings DEF NothingLoose, Value, IsHosts
<1> HIDE DEF others
<1>3. CASE IsSound(s, With(held, Value, v))
  <2> DEFINE from == [x \in DOMAIN others |-> IF x = Msg THEN Value ELSE x]
             all == With(held, Value, v)
  <2>1. PICK R, H : Sound(s, all, R, H)
    BY <1>3 DEF IsSound
  <2>2. /\ Value \in DOMAIN all /\ all[Value] = v
        /\ \A h \in DOMAIN held : h \in DOMAIN all /\ all[h] = held[h]
    BY <1>2 DEF With
  <2>3. \A x \in DOMAIN others : from[x] = IF x = Msg THEN Value ELSE x
    OBVIOUS
  <2> HIDE DEF from, all
  <2>4. \A x \in DOMAIN others : from[x] \in DOMAIN all /\ all[from[x]] = others[x] /\ IsHosts(from[x]) = IsHosts(x)
    BY <1>1, <1>2, <2>2, <2>3
  <2>5. \A x, y \in DOMAIN others : from[x] = from[y] => x = y
    BY <1>1, <1>2, <2>3
  <2>6. PassesOn(all, others, from)
    BY <2>4, <2>5 DEF PassesOn
  <2>7. Sound(s, others, R, H)
    BY <2>1, <2>6, PassedOn
  <2> QED
    BY <2>7 DEF IsSound, others
<1>4. CASE v = held[Msg] /\ IsSound(s, held)
  <2> DEFINE from == [x \in DOMAIN others |-> x]
  <2>1. PICK R, H : Sound(s, held, R, H)
    BY <1>4 DEF IsSound
  <2>2. \A x \in DOMAIN others : from[x] \in DOMAIN held /\ held[from[x]] = others[x] /\ IsHosts(from[x]) = IsHosts(x)
    BY <1>1, <1>4
  <2>3. \A x, y \in DOMAIN others : from[x] = from[y] => x = y
    OBVIOUS
  <2> HIDE DEF from
  <2>4. PassesOn(held, others, from)
    BY <2>2, <2>3 DEF PassesOn
  <2>5. Sound(s, others, R, H)
    BY <2>1, <2>4, PassedOn
  <2> QED
    BY <2>5 DEF IsSound, others
<1> QED
  BY <1>3, <1>4

\* What is in hands becomes the message that another holder has, or goes into it.
LEMMA PutIntoHeld ==
  ASSUME NEW s, NEW holders, IsSound(s, With(holders, Value, s.value)), s.ok,
         Value \notin DOMAIN holders, NoneMade(With(holders, Value, s.value)),
         NEW h \in DOMAIN holders, ~IsHosts(h), holders[h].ref, holders[h].to \in DOMAIN s.heap,
         NEW path, path = <<>> \/ Len(path) \in Nat \ {0}
  PROVE  LET t == PutInto(holders[h], path, s)
         IN  /\ t.ok /\ t.value.ref /\ t.value.to \in DOMAIN t.heap /\ Grows(s, t)
             /\ \/ IsSound(t, With(holders, Value, t.value))
                \/ t.value = holders[h] /\ IsSound(t, holders)
<1> DEFINE message == holders[h]
           t == PutInto(message, path, s)
<1>1. PICK R, H : Sound(s, With(holders, Value, s.value), R, H)
  BY DEF IsSound
<1>2. h \in DOMAIN With(holders, Value, s.value) /\ With(holders, Value, s.value)[h] = message
  BY DEF With
<1>3. message.ref /\ message.to \in R \cap DOMAIN s.heap
  BY <1>1, <1>2 DEF Sound, Apart
<1>4. ~IsHosts(Value)
  BY Holdings DEF Value
<1> HIDE DEF message
<1>5. /\ t.ok /\ t.value.ref /\ t.value.to \in DOMAIN t.heap /\ Grows(s, t)
      /\ \/ SoundLater(t, With(holders, Value, t.value), R, H)
         \/ t.value = message /\ SoundLater(t, holders, R, H)
  BY <1>1, <1>3, <1>4, PutIntoIsSound
<1> HIDE DEF t
<1>6. /\ t.ok /\ t.value.ref /\ t.value.to \in DOMAIN t.heap /\ Grows(s, t)
      /\ \/ IsSound(t, With(holders, Value, t.value))
         \/ t.value = message /\ IsSound(t, holders)
  BY <1>5 DEF SoundLater, IsSound
<1> QED
  BY <1>6 DEF t, message

LEMMA SetFieldIsOwned ==
  ASSUME IInv, NEW w \in FieldWrites, SetField(w)
  PROVE  IInv'
<1> DEFINE value == Clone(Evaluate(w.expr, <<>>, Begin))
           s == PutInto(held[Msg], w.path, value)
           taken == live # <<>> /\ Overlap(w.path, live[1].path)
           left == IF taken THEN WithoutStatic ELSE held
           holders == With(left, Msg, s.value)
<1>1. /\ IsSound(value, held) /\ Grows(Begin, value)
      /\ value.ok => IsSound(value, With(held, Value, value.value))
  BY Expressions, ValueOfOperation
<1>2. /\ live' = IF taken THEN <<>> ELSE live
      /\ IF s.ok THEN Keep(s, holders) ELSE Raises(s, left, <<"write", w>>)
  BY DEF SetField, Gives
<1>3. DOMAIN left \subseteq DOMAIN held /\ \A h \in DOMAIN left : left[h] = held[h]
  BY DEF WithoutStatic, Restrict
<1>6. Msg \in DOMAIN held => Msg \in DOMAIN left
  BY Holdings DEF WithoutStatic, Restrict
<1> HIDE DEF value, taken, left
<1>4. CASE value.ok
  <2>1. IsSound(value, With(held, Value, value.value))
    BY <1>1, <1>4
  <2>2. Value \notin DOMAIN held /\ NoneMade(With(held, Value, value.value))
    BY LooseNames DEF IInv, NothingLoose, Value, NoneMade, With
  <2>3. Msg \in DOMAIN held /\ held[Msg].ref /\ held[Msg].to \in DOMAIN value.heap
    BY <1>1, Still DEF MessageIsThere
  <2>4. /\ s.ok /\ s.value.ref /\ s.value.to \in DOMAIN s.heap
        /\ \/ IsSound(s, With(held, Value, s.value))
           \/ s.value = held[Msg] /\ IsSound(s, held)
    BY <1>4, <2>1, <2>2, <2>3, Holdings, Paths, PutIntoHeld
  <2> HIDE DEF s
  <2>5. IsSound(s, holders)
    BY <1>3, <2>3, <2>4, MessageTaken DEF IInv, MessageIsThere
  <2>6. MessageIsThere(s.heap, holders)
    BY <2>4 DEF MessageIsThere, With
  <2>7. NothingLoose(holders)
    BY <1>3 DEF IInv, NothingLoose, With, Msg
  <2>8. Owned' /\ MessageIsThere(heap, held)' /\ NothingLoose(held)'
    BY <1>2, <2>4, <2>5, <2>6, <2>7, KeepIsOwned
  <2> QED
    BY <1>2, <2>4, <2>8 DEF IInv
<1>5. CASE ~value.ok
  <2>1. s = value
    BY <1>5 DEF PutInto
  <2> HIDE DEF s
  <2>2. IsSound(s, left) /\ NothingLoose(left) /\ Msg \in DOMAIN left /\ left[Msg] = held[Msg]
    BY <1>1, <1>3, <1>6, <2>1, SomeStay DEF IInv, MessageIsThere
  <2>3. Owned' /\ MessageIsThere(heap, held)' /\ NothingLoose(held)'
    BY <1>1, <1>2, <1>5, <2>1, <2>2, RaisesIsOwned
  <2> QED
    BY <1>2, <2>3 DEF IInv
<1> QED
  BY <1>4, <1>5

LEMMA HandedOn ==
  ASSUME NEW s, NEW holders, IsSound(s, holders), NEW others, NEW from, PassesOn(holders, others, from)
  PROVE  IsSound(s, others)
BY PassedOn DEF IsSound

LEMMA ValueOf ==
  ASSUME NEW s, NEW holders, IsSound(s, holders), NEW own, NEW e, IsExpression(e), NEW h, h \notin DOMAIN holders
  PROVE  LET t == Clone(Evaluate(e, own, s))
         IN  /\ IsSound(t, holders) /\ Grows(s, t)
             /\ t.ok => s.ok /\ IsSound(t, With(holders, h, t.value))
<1> DEFINE t == Clone(Evaluate(e, own, s))
<1>1. PICK R, H : Sound(s, holders, R, H)
  BY DEF IsSound
<1>2. /\ Sound(t, holders, R, H) /\ Grows(s, t)
      /\ t.ok => s.ok /\ SoundLater(t, With(holders, h, t.value), R, H)
  BY <1>1, ValueIsHeld
<1> HIDE DEF t
<1>3. IsSound(t, holders) /\ Grows(s, t) /\ (t.ok => s.ok /\ IsSound(t, With(holders, h, t.value)))
  BY <1>2 DEF IsSound, SoundLater
<1> QED
  BY <1>3 DEF t

WithoutReceived(others) == Restrict(others, DOMAIN others \ {Received})

\* The host gets a copy of the message.
LEMMA PublishIsOwned ==
  ASSUME IInv, NEW u, Grows(Begin, u), NEW others, IsSound(u, others),
         NothingLoose(others), Msg \in DOMAIN others, others[Msg] = held[Msg],
         live' = live,
         IF Clone(u).ok THEN Keep(Clone(u), With(others, Received, Clone(u).value))
         ELSE Raises(Clone(u), others, <<"send">>)
  PROVE  IInv'
<1> DEFINE s == Clone(u)
           rest == WithoutReceived(others)
           holders == With(others, Received, s.value)
<1>1. PICK R, H : Sound(u, others, R, H)
  BY DEF IsSound
<1>2. Sound(s, others, R, H) /\ Grows(u, s)
  BY <1>1, CopyIsSound DEF Clone
<1>3. IsSound(s, others) /\ Grows(Begin, s)
  BY <1>2, GrowsOn DEF IsSound
<1>4. CASE s.ok
  <2> DEFINE from == [x \in DOMAIN rest |-> x]
  <2>0. PassesOn(others, rest, from)
    BY DEF PassesOn, WithoutReceived, Restrict
  <2>1. Sound(u, rest, R, H)
    <3> HIDE DEF rest, from
    <3> QED
      BY <1>1, <2>0, PassedOn
  <2>2. Received \notin DOMAIN rest
    BY DEF WithoutReceived, Restrict
  <2>3. SoundLater(s, With(rest, Received, s.value), R, H)
    <3> HIDE DEF rest
    <3> QED
      BY <1>4, <2>1, <2>2, CopyIsHeld DEF Clone
  <2>4. With(rest, Received, s.value) = holders
    <3> HIDE DEF s
    <3> QED
      BY DEF WithoutReceived, Restrict, With
  <2> HIDE DEF s
  <2>5. IsSound(s, holders)
    BY <2>3, <2>4 DEF SoundLater, IsSound
  <2>6. MessageIsThere(s.heap, held)
    BY <1>3, Still
  <2>7. MessageIsThere(s.heap, holders)
    BY <2>6, Holdings DEF MessageIsThere, With
  <2>8. NothingLoose(holders)
    BY DEF NothingLoose, With, Received
  <2>9. Keep(s, holders)
    BY <1>4 DEF s
  <2>10. Owned' /\ MessageIsThere(heap, held)' /\ NothingLoose(held)'
    BY <2>5, <2>7, <2>8, <2>9, KeepIsOwned
  <2> QED
    BY <2>10 DEF IInv
<1>5. CASE ~s.ok
  <2>1. Raises(s, others, <<"send">>)
    BY <1>5
  <2> HIDE DEF s
  <2>2. Owned' /\ MessageIsThere(heap, held)' /\ NothingLoose(held)'
    BY <1>3, <2>1, RaisesIsOwned
  <2> QED
    BY <2>2 DEF IInv
<1> QED
  BY <1>4, <1>5

\* The message and the static that a live block gives, as far as they are made.
LEMMA LiveIsHeld ==
  ASSUME IInv, NEW base, IsSound(base, held), Grows(Begin, base),
         base.ok => /\ IsSound(base, With(held, Loose("base"), base.value))
                    /\ base.value.ref /\ base.value.to \in DOMAIN base.heap,
         NEW b \in Bindings, NEW own,
         NEW updated, updated = Clone(Evaluate(b.update, own, base)),
         NEW result, result = Clone(Evaluate(b.result, [n \in {"s"} |-> updated.value], updated))
  PROVE  LET u == PutInto(base.value, b.path, result)
             others == IF updated.ok THEN With(held, Static, updated.value) ELSE held
         IN  Grows(Begin, u) /\ IsSound(u, others)
<1> DEFINE H1 == With(held, Loose("base"), base.value)
           H2 == With(H1, Loose("static"), updated.value)
           H3 == With(H2, Value, result.value)
           u == PutInto(base.value, b.path, result)
           others == With(held, Static, updated.value)
<1>0. /\ Loose("base") \notin DOMAIN held /\ Loose("static") \notin DOMAIN H1 /\ Value \notin DOMAIN H2
      /\ NoneMade(H3)
  BY LooseNames DEF IInv, NothingLoose, Value, NoneMade, With
<1>1. IsSound(updated, held) /\ Grows(base, updated)
  BY <1>0, Expressions, ValueOf
<1>2. IsSound(result, held) /\ Grows(updated, result) /\ (result.ok => updated.ok)
  BY <1>0, <1>1, Expressions, ValueOf
<1>3. Grows(Begin, updated) /\ Grows(Begin, result) /\ Grows(base, result)
  BY <1>1, <1>2, GrowsOn
<1>4. ASSUME ~result.ok PROVE u = result
  BY <1>4 DEF PutInto
<1>5. ASSUME updated.ok
      PROVE  Grows(Begin, u) /\ IsSound(u, others)
  <2>1. updated.ok
    BY <1>5
  <2>2. base.ok
    BY <1>0, <2>1, Expressions, ValueOf
  <2>3. IsSound(base, H1)
    BY <2>2
  <2>4. IsSound(updated, H2)
    <3> HIDE DEF H1
    <3> QED
      BY <1>0, <2>1, <2>3, Expressions, ValueOf
  <2>5. IsSound(result, H2) /\ (result.ok => IsSound(result, H3))
    <3> HIDE DEF H2
    <3> QED
      BY <1>0, <2>4, Expressions, ValueOf
  <2>6. /\ Loose("base") \in DOMAIN H3 /\ H3[Loose("base")] = base.value
        /\ Loose("static") \in DOMAIN H2 /\ H2[Loose("static")] = updated.value
        /\ \A h \in DOMAIN held : h \in DOMAIN H2 /\ H2[h] = held[h] /\ h \in DOMAIN H3 /\ H3[h] = held[h]
    BY <1>0, LooseNames DEF With, IInv, NothingLoose, Value
  <2>7. LET message == H2[Loose("base")]
        IN  Loose("base") \in DOMAIN H2 /\ message = base.value /\ message.ref /\ message.to \in DOMAIN result.heap
    BY <1>0, <1>3, <2>2, LooseNames DEF With, Grows
  <2>8. ~IsHosts(Loose("base"))
    BY Holdings
  <2>9. result.ok =>
          LET t == PutInto(H2[Loose("base")], b.path, result)
          IN  /\ Grows(result, t)
              /\ IsSound(t, With(H2, Value, t.value)) \/ IsSound(t, H2)
    <3> HIDE DEF H2
    <3> QED
      BY <1>0, <2>5, <2>7, <2>8, Paths, PutIntoHeld
  <2> HIDE DEF u, H1, H2, H3
  <2>10. IsSound(u, H2) /\ Grows(result, u)
    <3>1. result.ok => Grows(result, u) /\ (IsSound(u, With(H2, Value, u.value)) \/ IsSound(u, H2))
      BY <2>7, <2>9 DEF u
    <3>3. ~result.ok => u = result /\ Grows(result, result)
      BY <1>4 DEF Grows
    <3>2. ASSUME IsSound(u, With(H2, Value, u.value)) PROVE IsSound(u, H2)
      BY <1>0, <3>2, Dropped DEF IsSound
    <3> QED
      BY <2>5, <3>1, <3>2, <3>3
  <2>11. IsSound(u, others)
    <3> DEFINE from == [x \in DOMAIN others |-> IF x = Static THEN Loose("static") ELSE x]
    <3>1. \A x \in DOMAIN others : /\ x = Static \/ x \in DOMAIN held
                                  /\ others[x] = IF x = Static THEN updated.value ELSE held[x]
      BY DEF With
    <3> HIDE DEF others
    <3>2. IsHosts(Static) = IsHosts(Loose("static"))
      BY Holdings DEF IsHosts
    <3>3. \A x \in DOMAIN others : x # Loose("static")
      <4>1. Static[1] # "loose"
        BY DEF Static
      <4> QED
        BY <3>1, <4>1, LooseNames DEF IInv, NothingLoose
    <3>4. PassesOn(H2, others, from)
      BY <2>6, <3>1, <3>2, <3>3 DEF PassesOn
    <3> QED
      BY <2>10, <3>4, HandedOn
  <2>12. Grows(Begin, u)
    BY <1>3, <2>10, GrowsOn
  <2> QED
    BY <2>11, <2>12
<1>6. ASSUME ~updated.ok
      PROVE  Grows(Begin, u) /\ IsSound(u, held)
  BY <1>2, <1>3, <1>4, <1>6
<1> QED
  BY <1>5, <1>6

LEMMA SendIsOwned ==
  ASSUME IInv, Send
  PROVE  IInv'
<1> DEFINE of == Giving(Begin, held[Msg])
           base == Clone(of)
           b == live[1]
           updated == Clone(Evaluate(b.update, [n \in {"s"} |-> held[Static]], base))
           result == Clone(Evaluate(b.result, [n \in {"s"} |-> updated.value], updated))
           u == PutInto(base.value, b.path, result)
           others == IF updated.ok THEN With(held, Static, updated.value) ELSE held
<1>1. Assembled(base) = IF live = <<>> THEN [message |-> Clone(base), held |-> held]
                  ELSE [message |-> Clone(u), held |-> others]
  BY DEF Assembled, WithLive, Updated, Result
<1>2. /\ live' = live
      /\ IF Assembled(base).message.ok
         THEN Keep(Assembled(base).message, With(Assembled(base).held, Received, Assembled(base).message.value))
         ELSE Raises(Assembled(base).message, Assembled(base).held, <<"send">>)
  BY DEF Send, HandOver, Gives, Base
<1>3. Msg \in DOMAIN held /\ held[Msg].ref /\ Loose("base") \notin DOMAIN held
  BY LooseNames DEF IInv, MessageIsThere, NothingLoose
<1>4. PICK R, H : Sound(Begin, held, R, H)
  BY DEF IInv, Owned
<1>5. Sound(of, held, R, H) /\ Grows(Begin, of) /\ of.value = held[Msg]
  BY <1>4, BeginFields, GivingFields, GivingIsSound
<1> HIDE DEF of
<1>6. IsSound(base, held) /\ Grows(Begin, base)
  BY <1>5, CopyIsSound, GrowsOn DEF Clone, IsSound
<1>7. ASSUME base.ok
      PROVE  /\ IsSound(base, With(held, Loose("base"), base.value))
             /\ base.value.ref /\ base.value.to \in DOMAIN base.heap
  <2>1. SoundLater(base, With(held, Loose("base"), base.value), R, H)
    BY <1>3, <1>5, <1>7, CopyIsHeld DEF Clone
  <2>2. base.value.ref /\ base.value.to \in DOMAIN base.heap
    BY <1>3, <1>5, <1>7, CopyIsThere DEF Clone, Sound
  <2> HIDE DEF base
  <2> QED
    BY <2>1, <2>2 DEF SoundLater, IsSound
<1> HIDE DEF base
<1>8. CASE live = <<>>
  <2>1. Assembled(base).message = Clone(base) /\ Assembled(base).held = held
    BY <1>1, <1>8
  <2>2. NothingLoose(held)
    BY DEF IInv
  <2>3. IF Clone(base).ok THEN Keep(Clone(base), With(held, Received, Clone(base).value))
        ELSE Raises(Clone(base), held, <<"send">>)
    BY <1>2, <2>1
  <2> QED
    BY <1>2, <1>3, <1>6, <2>2, <2>3, PublishIsOwned
<1>9. CASE live # <<>>
  <2>1. b \in Bindings
    BY <1>9 DEF IInv
  <2>2. Grows(Begin, u) /\ IsSound(u, others)
    <3> HIDE DEF b
    <3> QED
      BY <1>6, <1>7, <2>1, LiveIsHeld
  <2>3. Assembled(base).message = Clone(u) /\ Assembled(base).held = others
    BY <1>1, <1>9
  <2>4. IF Clone(u).ok THEN Keep(Clone(u), With(others, Received, Clone(u).value))
        ELSE Raises(Clone(u), others, <<"send">>)
    BY <1>2, <2>3
  <2>5. NothingLoose(others) /\ Msg \in DOMAIN others /\ others[Msg] = held[Msg]
    BY <1>3, Holdings DEF NothingLoose, With, IInv, Static
  <2> HIDE DEF u, others
  <2> QED
    BY <1>2, <2>2, <2>4, <2>5, PublishIsOwned
<1> QED
  BY <1>8, <1>9

-----------------------------------------------------------------------------
(* The start of a run, and the host.                                         *)

LEMMA BeginIsSound ==
  ASSUME IInv
  PROVE  IsSound(Begin, held) /\ Grows(Begin, Begin)
BY DEF IInv, Owned, IsSound, Grows

LEMMA NewRunIsOwned ==
  ASSUME IInv, NewRun
  PROVE  IInv'
<1> DEFINE names == {h[2] : h \in OfHost}
           param(n) == Giving(Begin, held[Param(n)])
           copies == [n \in names |-> CopyAs(n, param(n))]
           of(a) == CHOOSE n \in names : a \in DOMAIN copies[n].heap
           cells == [a \in DOMAIN heap \cup UNION {DOMAIN copies[n].heap : n \in names} |->
                       IF a \in DOMAIN heap THEN heap[a] ELSE copies[of(a)].heap[a]]
           all == [Begin EXCEPT !.next = @ + 1,
                     !.heap = [a \in DOMAIN @ \cup UNION {DOMAIN copies[n].heap : n \in names} |->
                                IF a \in DOMAIN @ THEN @[a] ELSE copies[of(a)].heap[a]]]
           given == [h \in {Extern(n) : n \in names} |-> copies[h[2]].value]
<1>1. /\ live' = live
      /\ IF \A n \in names : copies[n].ok
         THEN Keep(all, Joined(held, given)) ELSE Raises(Begin, held, <<"new run">>)
  BY DEF NewRun, Parameter
<1>2. IsState(all) /\ all.next = next + 1 /\ all.heap = cells
  BY DEF Begin, IsState
<1>3. PICK R, H : Sound(Begin, held, R, H)
  BY DEF IInv, Owned
<1>4. CASE \A n \in names : copies[n].ok
  <2>1. ASSUME NEW n \in names
        PROVE  /\ AreCopies(heap, copies[n].heap, next)
               /\ copies[n].value.ref => copies[n].value.to = <<next, <<n>>>>
    <3>1. IsState(param(n)) /\ param(n).heap = heap /\ param(n).next = next /\ next \in Nat
      BY <1>3, BeginFields, GivingFields DEF Sound
    <3>2. CopyAs(n, param(n)).ok
      BY <1>4
    <3> HIDE DEF param
    <3> QED
      BY <3>1, <3>2, CopyFields
  <2> HIDE DEF names, copies
  <2>2. \A a \in DOMAIN cells : a \in DOMAIN heap \/ \E n \in names : a \in DOMAIN copies[n].heap
    OBVIOUS
  <2>3. \A a \in DOMAIN cells \ DOMAIN heap : of(a) \in names /\ a \in DOMAIN copies[of(a)].heap
    BY <2>2
  <2>4. /\ DOMAIN heap \subseteq DOMAIN cells
        /\ \A a \in DOMAIN cells : cells[a] = IF a \in DOMAIN heap THEN heap[a] ELSE copies[of(a)].heap[a]
    OBVIOUS
  <2> HIDE DEF cells, of
  <2>5. AreCopies(heap, cells, next)
    BY <2>1, <2>3, <2>4 DEF AreCopies
  <2>6. AreCopies(Begin.heap, all.heap, Begin.next) /\ all.next = Begin.next + 1 /\ Begin.heap = heap
    BY <1>2, <2>5, BeginFields
  <2> HIDE DEF all
  <2> DEFINE called == [h \in DOMAIN given |-> <<h[2]>>]
  <2>7. \A h \in DOMAIN given : /\ h[2] \in names /\ h = Extern(h[2])
                               /\ given[h] = copies[h[2]].value /\ called[h] = <<h[2]>>
    BY DEF Extern
  <2> HIDE DEF given, called
  <2>8. \A h \in DOMAIN given : /\ given[h].ref => given[h].to = <<Begin.next, called[h]>>
                               /\ IsHosts(h) = IsHosts(Msg)
    BY <2>1, <2>7, Holdings, BeginFields DEF IsHosts
  <2>9. \A h \in DOMAIN given : IsRoot(called[h])
    BY <2>7, Names DEF IsRoot
  <2>10. \A g, h \in DOMAIN given : called[g] = called[h] => g = h
    BY <2>7, Names
  <2>11. IsHosts(Msg) \in BOOLEAN
    BY DEF IsHosts
  <2>12. SoundLater(all, Joined(held, given), R, H)
    BY <1>2, <1>3, <2>6, <2>8, <2>9, <2>10, <2>11, CopiesAreHeld
  <2>13. MessageIsThere(all.heap, Joined(held, given))
    BY <2>6, Still, BeginIsSound DEF MessageIsThere, Joined, AreCopies
  <2>14. NothingLoose(Joined(held, given))
    BY <2>7 DEF NothingLoose, Joined, IInv, Extern
  <2>15. Owned' /\ MessageIsThere(heap, held)' /\ NothingLoose(held)'
    BY <1>1, <1>4, <2>12, <2>13, <2>14, KeepIsOwned DEF SoundLater, IsSound
  <2> QED
    BY <1>1, <1>4, <2>15 DEF IInv
<1>5. CASE ~\A n \in names : copies[n].ok
  <2>1. Msg \in DOMAIN held /\ NothingLoose(held)
    BY DEF IInv, MessageIsThere
  <2>2. Owned' /\ MessageIsThere(heap, held)' /\ NothingLoose(held)'
    BY <1>1, <1>5, <2>1, BeginIsSound, RaisesIsOwned
  <2> QED
    BY <1>1, <2>2 DEF IInv
<1> QED
  BY <1>4, <1>5

LEMMA HostChangesIsOwned ==
  ASSUME IInv, HostChanges
  PROVE  IInv'
<1>1. PICK R, H : Sound(Begin, held, R, H)
  BY DEF IInv, Owned
<1> DEFINE hosts == Restrict(held, OfHost)
<1>2. PICK a \in InUse(heap, hosts) :
        \E key \in IF heap[a].kind = "dict" THEN DOMAIN heap[a].items \cup Keys ELSE DOMAIN heap[a].items,
           v \in {Lit(9)} \cup {held[h] : h \in OfHost} : Keep(Put(Begin, Ref(a), key, v), held)
  BY DEF HostChanges
<1>3. PICK key :
        \E v \in {Lit(9)} \cup {held[h] : h \in OfHost} : Keep(Put(Begin, Ref(a), key, v), held)
  BY <1>2
<1>4. PICK v \in {Lit(9)} \cup {held[h] : h \in OfHost} : Keep(Put(Begin, Ref(a), key, v), held)
  BY <1>3
<1>5. Apart(heap, held, R, H)
  BY <1>1, BeginFields DEF Sound
<1>6. \A h \in OfHost : h \in DOMAIN held /\ IsHosts(h)
  BY DEF OfHost, IsHosts
<1>7. a \in H
  <2>1. Targets(hosts) \cap DOMAIN heap \subseteq H
    BY <1>5, <1>6 DEF Apart, Targets, Restrict
  <2>2. \A b \in H \cap DOMAIN heap : Targets(heap[b].items) \cap DOMAIN heap \subseteq H
    BY <1>5 DEF Apart, Targets
  <2> HIDE DEF hosts
  <2> QED
    BY <1>2, <2>1, <2>2, ReachedWithin
<1>8. v.ref => v.to \in H
  BY <1>4, <1>5, <1>6 DEF Apart, Lit
<1> DEFINE t == Put(Begin, Ref(a), key, v)
<1>9. Sound(t, held, R, H)
  BY <1>1, <1>7, <1>8, HostPutIsSound DEF Ref
<1>10. DOMAIN t.heap = DOMAIN heap
  BY BeginFields, PutFields
<1> HIDE DEF t
<1>11. Owned' /\ MessageIsThere(heap, held)' /\ NothingLoose(held)'
  BY <1>4, <1>9, <1>10, KeepIsOwned DEF IsSound, IInv, MessageIsThere, t
<1> QED
  BY <1>11 DEF IInv, HostChanges

LEMMA InitIsOwned ==
  ASSUME Init
  PROVE  IInv
<1> DEFINE m == <<1, <<>>>>
<1>1. PICK start \in HostStarts :
        /\ heap = With(start.heap, m, Cell("dict", <<>>))
        /\ held = With(start.held, Msg, Ref(m))
  BY DEF Init
<1>2. next = 2 /\ live = <<>>
  BY DEF Init
<1> DEFINE H == DOMAIN start.heap
<1>3. /\ \A h \in DOMAIN start.held : h[1] = "param" /\ (start.held[h].ref => start.held[h].to \in H)
      /\ \A a \in H : LET items == start.heap[a].items
                      IN  a[1] = 0 /\ \A k \in DOMAIN items : items[k].ref => items[k].to \in H
  BY HostAssumption
<1>4. m[1] = 1
  OBVIOUS
<1> HIDE DEF m
<1>5. m \notin H
  BY <1>3, <1>4
<1>6. /\ DOMAIN heap = H \cup {m} /\ DOMAIN heap[m].items = {}
      /\ \A a \in H : heap[a] = start.heap[a]
  BY <1>1, <1>5 DEF With, Cell
<1>7. /\ DOMAIN held = DOMAIN start.held \cup {Msg} /\ held[Msg] = Ref(m)
      /\ \A h \in DOMAIN start.held : h # Msg /\ held[h] = start.held[h] /\ IsHosts(h) /\ h[1] # "loose"
  BY <1>1, <1>3 DEF With, Msg, IsHosts
<1> HIDE DEF H
<1>8. \A a \in DOMAIN heap : Older(a, next)
  BY <1>2, <1>3, <1>4, <1>6 DEF Older
<1>9. Apart(heap, held, {m}, H)
  <2>1. \A h \in DOMAIN held : held[h].ref => held[h].to \in IF IsHosts(h) THEN H ELSE {m}
    BY <1>3, <1>7, Holdings DEF Ref
  <2>2. \A b \in DOMAIN heap : \A k \in DOMAIN heap[b].items : heap[b].items[k].ref =>
          /\ b \in {m} => heap[b].items[k].to \in {m}
          /\ b \in H => heap[b].items[k].to \in H
    BY <1>3, <1>6
  <2> QED
    BY <1>5, <2>1, <2>2 DEF Apart
<1>10. HeldOnce(heap, held, {m})
  BY <1>3, <1>5, <1>6, <1>7 DEF HeldOnce
<1>11. Sound(Begin, held, {m}, H)
  <2>1. next \in Nat
    BY <1>2
  <2> QED
    BY <1>6, <1>8, <1>9, <1>10, <2>1, BeginFields DEF Sound
<1>12. Owned
  BY <1>6, <1>11 DEF Owned
<1> QED
  BY <1>2, <1>6, <1>7, <1>12 DEF IInv, MessageIsThere, NothingLoose, Ref, Msg

LEMMA NextIsOwned ==
  ASSUME IInv, [Next]_allVars
  PROVE  IInv'
<1>1. CASE NewRun
  BY <1>1, NewRunIsOwned
<1>2. CASE Instruction
  BY <1>2, SendIsOwned, SetVarIsOwned, SetVarIndexIsOwned, SetFieldIsOwned, BindIsOwned DEF Instruction
<1>3. CASE HostChanges
  BY <1>3, HostChangesIsOwned
<1>4. CASE UNCHANGED allVars
  <2>1. heap' = heap /\ next' = next /\ held' = held /\ live' = live
    BY <1>4 DEF allVars
  <2>2. Begin' = Begin
    BY <2>1 DEF Begin
  <2> QED
    BY <2>1, <2>2 DEF IInv, Owned, MessageIsThere, NothingLoose
<1> QED
  BY <1>1, <1>2, <1>3, <1>4 DEF Next

\* At any time every container is the run's or the host's, nothing of the one
\* is held by the other, and no container of the run is held twice.
THEOREM OwnedAlways == Spec => []IInv
<1>1. Init => IInv
  BY InitIsOwned
<1>2. IInv /\ [Next]_allVars => IInv'
  BY NextIsOwned
<1> QED
  BY <1>1, <1>2, PTL DEF Spec

\* Whatever the run can reach it holds once.
LEMMA OwnedIsHeldOnce ==
  ASSUME IInv
  PROVE  NothingIsShared
<1> DEFINE mine == Restrict(held, DOMAIN held \ OfHost)
<1>1. PICK R, H : DOMAIN heap \subseteq R \cup H /\ Sound(Begin, held, R, H)
  BY DEF IInv, Owned
<1>2. Apart(heap, held, R, H) /\ HeldOnce(heap, held, R)
  BY <1>1, BeginFields DEF Sound
<1>3. \A h \in DOMAIN mine : h \in DOMAIN held /\ mine[h] = held[h] /\ ~IsHosts(h)
  BY DEF Restrict, OfHost, IsHosts
<1> HIDE DEF mine
<1>4. InUse(heap, mine) \subseteq R \cap DOMAIN heap
  <2>1. Targets(mine) \cap DOMAIN heap \subseteq R
    BY <1>2, <1>3 DEF Apart, Targets
  <2>2. \A b \in R \cap DOMAIN heap : Targets(heap[b].items) \cap DOMAIN heap \subseteq R
    BY <1>2 DEF Apart, Targets
  <2> QED
    BY <2>1, <2>2, ReachedWithin
<1>5. ASSUME NEW a \in InUse(heap, mine) PROVE Cardinality(Holders(a)) = 1
  <2>1. a \in R
    BY <1>4
  <2>2. \A x : x \in Holders(a) <=>
          \/ \E h \in DOMAIN held : held[h].ref /\ held[h].to = a /\ x = <<h>>
          \/ \E b \in DOMAIN heap : \E k \in DOMAIN heap[b].items :
               heap[b].items[k].ref /\ heap[b].items[k].to = a /\ x = <<b, k>>
    BY DEF Holders
  <2>3. \A b \in DOMAIN heap : \A k \in DOMAIN heap[b].items :
          heap[b].items[k].ref /\ heap[b].items[k].to = a => b \in R
    BY <1>1, <1>2, <2>1 DEF Apart
  <2>4. \E x : x \in Holders(a)
    <3>1. \/ \E h \in DOMAIN mine : mine[h].ref /\ mine[h].to = a
          \/ \E b \in DOMAIN heap : \E k \in DOMAIN heap[b].items :
               heap[b].items[k].ref /\ heap[b].items[k].to = a
      BY ReachedIsHeld
    <3>2. CASE \E h \in DOMAIN mine : mine[h].ref /\ mine[h].to = a
      <4>1. PICK h \in DOMAIN held : held[h].ref /\ held[h].to = a
        BY <1>3, <3>2
      <4>2. <<h>> \in Holders(a)
        BY <2>2, <4>1
      <4> QED
        BY <4>2
    <3>3. CASE \E b \in DOMAIN heap : \E k \in DOMAIN heap[b].items :
                 heap[b].items[k].ref /\ heap[b].items[k].to = a
      <4>1. PICK b \in DOMAIN heap : \E k \in DOMAIN heap[b].items :
              heap[b].items[k].ref /\ heap[b].items[k].to = a
        BY <3>3
      <4>2. PICK k \in DOMAIN heap[b].items : heap[b].items[k].ref /\ heap[b].items[k].to = a
        BY <4>1
      <4>3. <<b, k>> \in Holders(a)
        BY <2>2, <4>2
      <4> QED
        BY <4>3
    <3> QED
      BY <3>1, <3>2, <3>3
  <2>5. \A x, y \in Holders(a) : x = y
    BY <1>2, <2>1, <2>2, <2>3 DEF HeldOnce
  <2>6. PICK x : Holders(a) = {x}
    <3>1. PICK x : x \in Holders(a)
      BY <2>4
    <3>2. Holders(a) = {x}
      BY <2>5, <3>1
    <3> QED
      BY <3>2
  <2> QED
    BY <2>6, FS_Singleton
<1> QED
  BY <1>5 DEF NothingIsShared, mine

\* For every script, every host and all that the host does to its own containers:
\* each container of the run has one holder, and none can be reached from what
\* the host has passed or received (resources.py:61-97, vm.py:276-281).
THEOREM ContainersAreNotShared == Spec => []NothingIsShared
<1>1. IInv => NothingIsShared
  BY OwnedIsHeldOnce
<1> QED
  BY <1>1, OwnedAlways, PTL
=============================================================================
