---------------------------- MODULE Timers_proofs ----------------------------
(***************************************************************************)
(* For every set of timers, every clock and every floating-point addition: *)
(* timers never run ahead of simulated time, and time never stands still.  *)
(***************************************************************************)
EXTENDS TimerHistory, TLAPS

ClockInv == TimersTypeOK /\ StartedInThePast

\* What Latched and Created leave in the table.
LEMMA LatchedTimers ==
  ASSUME ClockInv, NEW names
  PROVE  /\ DOMAIN Latched(names) = DOMAIN timers
         /\ Latched(names) \in [DOMAIN timers -> TimerState]
         /\ \A n \in DOMAIN timers : Latched(names)[n].offset <= master_t
BY ClockAssumption DEF ClockInv, TimersTypeOK, StartedInThePast, Latched, IsUnlatched,
   TimerState, Time, Unlatched, TimerKind

LEMMA FreshTimer ==
  ASSUME ClockInv, NEW kind \in TimerKind
  PROVE  Fresh(kind) \in TimerState /\ Fresh(kind).offset <= master_t
BY ClockAssumption DEF ClockInv, TimersTypeOK, Fresh, TimerState, Time, Unlatched, TimerKind

LEMMA CreatedTimers ==
  ASSUME ClockInv, NEW names \in SUBSET TimerName, NEW kind \in TimerKind
  PROVE  /\ DOMAIN Created(names, kind) \subseteq TimerName
         /\ Created(names, kind) \in [DOMAIN Created(names, kind) -> TimerState]
         /\ \A n \in DOMAIN Created(names, kind) : Created(names, kind)[n].offset <= master_t
BY FreshTimer DEF ClockInv, TimersTypeOK, StartedInThePast, Created

LEMMA AdvanceIsForward ==
  ASSUME ClockInv, NEW d \in Delay, Advance(d)
  PROVE  master_t' \in Time /\ master_t' > master_t
BY ClockAssumption DEF ClockInv, TimersTypeOK, Advance, CanAdvance, Time

\* A later clock keeps every offset in the past.
LEMMA LaterClock ==
  ASSUME ClockInv, master_t' \in Time, master_t' >= master_t, timers' = timers
  PROVE  StartedInThePast'
BY ClockAssumption DEF ClockInv, TimersTypeOK, StartedInThePast, TimerState, Time, Unlatched

LEMMA NoEntries == DOMAIN <<>> = {}
<1>1. <<>> \in Seq({}) /\ Len(<<>>) = 0
  OBVIOUS
<1> QED
  BY <1>1

LEMMA ClockInit == TimersInit => ClockInv
<1> SUFFICES ASSUME TimersInit PROVE ClockInv
  OBVIOUS
<1>1. DOMAIN timers = {}
  BY NoEntries DEF TimersInit
<1>2. timers \in [DOMAIN timers -> TimerState]
  <2>1. timers = [n \in DOMAIN timers |-> timers[n]]
    BY NoEntries DEF TimersInit
  <2> QED
    BY <1>1, <2>1
<1>3. halted \in BOOLEAN
  BY Zenon DEF TimersInit
<1>4. master_t \in Time
  BY ClockAssumption DEF TimersInit, Time
<1>5. StartedInThePast
  BY <1>1 DEF StartedInThePast
<1> QED
  BY <1>1, <1>2, <1>3, <1>4, <1>5 DEF ClockInv, TimersTypeOK

LEMMA ClockStep == ClockInv /\ [TimersNext]_clockVars => ClockInv'
<1> SUFFICES ASSUME ClockInv, [TimersNext]_clockVars PROVE ClockInv'
  OBVIOUS
<1>1. ASSUME NEW n \in TimerName, NEW kind \in TimerKind, CreateTimer(n, kind)
      PROVE  ClockInv'
  <2>1. {n} \in SUBSET TimerName
    OBVIOUS
  <2>2. timers' = Created({n}, kind) /\ UNCHANGED <<halted, master_t>>
    BY <1>1 DEF CreateTimer
  <2> QED
    BY <2>1, <2>2, CreatedTimers DEF ClockInv, TimersTypeOK, StartedInThePast
<1>2. ASSUME NEW n \in TimerName, ResetTimer(n) PROVE ClockInv'
  <2>1. timers[n].kind \in TimerKind /\ n \in DOMAIN timers
    BY <1>2 DEF ResetTimer, ClockInv, TimersTypeOK, TimerState
  <2>2. Fresh(timers[n].kind) \in TimerState /\ Fresh(timers[n].kind).offset <= master_t
    BY <2>1, FreshTimer
  <2> QED
    BY <1>2, <2>1, <2>2 DEF ResetTimer, ClockInv, TimersTypeOK, StartedInThePast
<1>3. ASSUME NEW n \in TimerName, Read({n}) PROVE ClockInv'
  <2>1. timers' = Latched({n}) /\ UNCHANGED <<halted, master_t>>
    BY <1>3 DEF Read
  <2> QED
    BY <2>1, LatchedTimers DEF ClockInv, TimersTypeOK, StartedInThePast
<1>4. ASSUME NEW d \in Delay, Advance(d), UNCHANGED <<halted, timers>> PROVE ClockInv'
  <2>1. master_t' \in Time /\ master_t' > master_t
    BY <1>4, AdvanceIsForward
  <2>2. master_t \in Nat /\ master_t' \in Nat
    BY <2>1, ClockAssumption DEF ClockInv, TimersTypeOK, Time
  <2>3. StartedInThePast'
    BY <1>4, <2>1, <2>2, LaterClock
  <2> QED
    BY <1>4, <2>1, <2>3 DEF ClockInv, TimersTypeOK
<1>5. CASE Raise
  BY <1>5 DEF Raise, ClockInv, TimersTypeOK, StartedInThePast
<1>6. CASE UNCHANGED clockVars
  BY <1>6 DEF clockVars, ClockInv, TimersTypeOK, StartedInThePast
<1> QED
  BY <1>1, <1>2, <1>3, <1>4, <1>5, <1>6 DEF TimersNext

\* A timer is always of a known kind, with an offset that is a point of time
\* the clock has reached, or none (vm.py:285-292, vm.py:361-364).
THEOREM TimersAreWellTyped == TimersSpec => []TimersTypeOK
<1>1. ClockInv => TimersTypeOK
  BY DEF ClockInv
<1> QED
  BY <1>1, ClockInit, ClockStep, PTL DEF TimersSpec

\* No timer has started in the future, so no reading is negative: whatever the
\* script creates, resets and reads, and in whatever order (vm.py:361-364).
THEOREM TimersStartInThePast == TimersSpec => []StartedInThePast
<1>1. ClockInv => StartedInThePast
  BY DEF ClockInv
<1> QED
  BY <1>1, ClockInit, ClockStep, PTL DEF TimersSpec

-----------------------------------------------------------------------------
(* Time never stands still: what the log says. *)

LogEntry == [op : TimerKind \cup {"reset", "read", "pass"}, timer : TimerName \cup {None}, at : Time]

\* Everything logged has happened by now, and a step that took time is over.
LogInv ==
  /\ log \in Seq(LogEntry)
  /\ \A i \in DOMAIN log : log[i].at <= master_t
  /\ \A i \in DOMAIN log : log[i].op = "pass" => log[i].at < master_t
  /\ ClockMovesForward

\* A step of the history is a step of the timers.
LEMMA HistoryStep == HNext => TimersNext
BY DEF HNext, TimersNext

LEMMA Logging ==
  ASSUME ClockInv, LogInv, ClockInv',
         NEW op \in TimerKind \cup {"reset", "read", "pass"}, NEW n \in TimerName \cup {None},
         Record(op, n), master_t' >= master_t, op = "pass" => master_t' > master_t
  PROVE  LogInv'
<1> DEFINE entry == [op |-> op, timer |-> n, at |-> master_t]
<1>1. master_t \in Nat /\ master_t' \in Nat /\ master_t \in Time /\ Time \subseteq Nat
  BY ClockAssumption DEF ClockInv, TimersTypeOK, Time
<1>2. entry \in LogEntry /\ log' = Append(log, entry)
  BY <1>1 DEF LogEntry, Record
<1>3. /\ log' \in Seq(LogEntry)
      /\ DOMAIN log = 1..Len(log) /\ DOMAIN log' = 1..(Len(log) + 1) /\ Len(log) \in Nat
      /\ \A i \in DOMAIN log : log'[i] = log[i]
      /\ log'[Len(log) + 1] = entry
  BY <1>2 DEF LogInv
<1>4. \A i \in DOMAIN log : log[i] \in LogEntry /\ log[i].at \in Nat
  <2>1. \A i \in DOMAIN log : log[i] \in LogEntry
    BY <1>3 DEF LogInv
  <2>2. \A e \in LogEntry : e.at \in Nat
    BY <1>1 DEF LogEntry
  <2> QED
    BY <2>1, <2>2
<1>5. \A i \in DOMAIN log' : log'[i].at <= master_t' /\ (log'[i].op = "pass" => log'[i].at < master_t')
  BY <1>1, <1>3, <1>4 DEF LogInv
<1>6. ClockMovesForward'
  BY <1>1, <1>3, <1>4 DEF LogInv, ClockMovesForward
<1> QED
  BY <1>3, <1>5, <1>6 DEF LogInv

LEMMA LogInit == HInit => ClockInv /\ LogInv
<1> SUFFICES ASSUME HInit PROVE ClockInv /\ LogInv
  OBVIOUS
<1>1. log \in Seq(LogEntry) /\ DOMAIN log = {}
  BY NoEntries DEF HInit
<1> QED
  BY <1>1, ClockInit DEF HInit, LogInv, ClockMovesForward

LEMMA LogStep == ClockInv /\ LogInv /\ [HNext]_historyVars => ClockInv' /\ LogInv'
<1> SUFFICES ASSUME ClockInv, LogInv, [HNext]_historyVars PROVE ClockInv' /\ LogInv'
  OBVIOUS
<1>1. CASE UNCHANGED historyVars
  <2>1. ClockInv'
    BY <1>1, ClockStep DEF historyVars, clockVars
  <2> QED
    BY <1>1, <2>1 DEF historyVars, LogInv, ClockMovesForward
<1>2. CASE HNext
  <2>1. ClockInv'
    BY <1>2, HistoryStep, ClockStep
  <2>2. master_t \in Nat /\ master_t' \in Nat
    BY <2>1, ClockAssumption DEF ClockInv, TimersTypeOK, Time
  <2>3. ASSUME NEW n \in TimerName, NEW op \in TimerKind \cup {"reset", "read"},
               Record(op, n), UNCHANGED master_t
        PROVE  LogInv'
    BY <2>1, <2>2, <2>3, Logging DEF TimerKind
  <2>4. ASSUME NEW d \in Delay, Advance(d), Record("pass", None) PROVE LogInv'
    <3>1. master_t' > master_t
      BY <2>4, AdvanceIsForward
    <3> QED
      BY <2>1, <2>2, <2>4, <3>1, Logging
  <2>5. ASSUME Raise, UNCHANGED log PROVE LogInv'
    BY <2>5 DEF Raise, LogInv, ClockMovesForward
  <2> QED
    BY <1>2, <2>1, <2>3, <2>4, <2>5 DEF HNext, CreateTimer, ResetTimer, Read
<1> QED
  BY <1>1, <1>2

\* Simulated time never stands still, however coarse the clock's floating-point
\* numbers are: what follows a step that takes time is later (vm.py:342-348).
THEOREM TimeMovesForward == HSpec => []ClockMovesForward
<1>1. ClockInv /\ LogInv => ClockMovesForward
  BY DEF LogInv
<1> QED
  BY <1>1, LogInit, LogStep, PTL DEF HSpec

-----------------------------------------------------------------------------
(* What a timer measures: its offset is what the log says of it. *)

EventsOf(l, n, ops) == {i \in DOMAIN l : l[i].timer = n /\ l[i].op \in ops}
Starting == TimerKind \cup {"reset"}

LastOf(i, S) == i \in S /\ \A j \in S : j <= i
FirstOf(i, S) == i \in S /\ \A j \in S : i <= j

ReadsAfter(l, n, s) == {i \in EventsOf(l, n, {"read"}) : i > s}

\* The state t of timer n is the one the log l accounts for: the latest
\* creation c gives its kind, the latest start s or the first read after it its
\* offset.  An invariant that names them needs no Max and Min: each event is
\* later than the ones before.
AccountsFrom(l, n, t, c, s) ==
  /\ LastOf(c, EventsOf(l, n, TimerKind)) /\ LastOf(s, EventsOf(l, n, Starting))
  /\ t.kind = l[c].op
  /\ t.kind = "eager" => t.offset = l[s].at
  /\ t.kind = "latching" =>
       \/ ReadsAfter(l, n, s) = {} /\ t.offset = Unlatched
       \/ \E r \in ReadsAfter(l, n, s) :
            FirstOf(r, ReadsAfter(l, n, s)) /\ t.offset = l[r].at

Accounts(l, n, t) ==
  \E c \in EventsOf(l, n, TimerKind), s \in EventsOf(l, n, Starting) :
    AccountsFrom(l, n, t, c, s)

MeasureInv == \A n \in DOMAIN timers : Accounts(log, n, timers[n])

LEMMA MaxIsLast ==
  ASSUME NEW S \in SUBSET Int, NEW i, LastOf(i, S)
  PROVE  Max(S) = i
<1>1. i \in S /\ \A y \in S : i >= y
  BY DEF LastOf
<1>2. \A x \in S : (\A y \in S : x >= y) => x = i
  BY <1>1
<1> QED
  BY <1>1, <1>2 DEF Max

LEMMA MinIsFirst ==
  ASSUME NEW S \in SUBSET Int, NEW i, FirstOf(i, S)
  PROVE  Min(S) = i
<1>1. i \in S /\ \A y \in S : i =< y
  BY DEF FirstOf
<1>2. \A x \in S : (\A y \in S : x =< y) => x = i
  BY <1>1
<1> QED
  BY <1>1, <1>2 DEF Min

LEMMA AccountedIsMeasured ==
  ASSUME log \in Seq(LogEntry), NEW n, NEW t \in TimerState, Accounts(log, n, t)
  PROVE  t.offset = MeasuredFrom(n)
<1>1. PICK c \in EventsOf(log, n, TimerKind), s \in EventsOf(log, n, Starting) :
        AccountsFrom(log, n, t, c, s)
  BY DEF Accounts
<1>2. \A ops : EventsOf(log, n, ops) = Events(n, ops) /\ Events(n, ops) \in SUBSET Int
  BY DEF EventsOf, Events
<1>3. Kind(n) = t.kind
  BY <1>1, <1>2, MaxIsLast DEF Kind, AccountsFrom
<1>4. LastStart(n) = s
  BY <1>1, <1>2, MaxIsLast DEF LastStart, Starting, AccountsFrom
<1>5. ReadsSinceStart(n) = ReadsAfter(log, n, s)
  BY <1>2, <1>4 DEF ReadsSinceStart, ReadsAfter
<1>6. ReadsSinceStart(n) \in SUBSET Int
  BY <1>2 DEF ReadsSinceStart
<1>7. CASE t.kind = "eager"
  BY <1>1, <1>3, <1>4, <1>7 DEF MeasuredFrom, AccountsFrom
<1>8. CASE t.kind = "latching"
  <2>1. CASE ReadsSinceStart(n) = {} /\ t.offset = Unlatched
    BY <1>3, <1>8, <2>1 DEF MeasuredFrom
  <2>2. ASSUME NEW r \in ReadsSinceStart(n), FirstOf(r, ReadsSinceStart(n)), t.offset = log[r].at
        PROVE  t.offset = MeasuredFrom(n)
    BY <1>3, <1>6, <1>8, <2>2, MinIsFirst DEF MeasuredFrom
  <2> QED
    BY <1>1, <1>5, <1>8, <2>1, <2>2 DEF AccountsFrom
<1> QED
  BY <1>7, <1>8 DEF TimerState, TimerKind

\* One more event in the log.
LEMMA MoreEvents ==
  ASSUME NEW l \in Seq(LogEntry), NEW e \in LogEntry, NEW n, NEW ops
  PROVE  /\ EventsOf(Append(l, e), n, ops) =
              EventsOf(l, n, ops) \cup IF e.timer = n /\ e.op \in ops THEN {Len(l) + 1} ELSE {}
         /\ Len(l) + 1 \in Nat
         /\ \A i \in EventsOf(l, n, ops) : i \in Nat /\ i < Len(l) + 1 /\ Append(l, e)[i] = l[i]
         /\ Append(l, e)[Len(l) + 1] = e
BY DEF EventsOf

\* Another timer's event, or a step that only takes time, changes nothing.
LEMMA OtherEvent ==
  ASSUME NEW l \in Seq(LogEntry), NEW e \in LogEntry, NEW n, NEW t,
         Accounts(l, n, t), e.timer # n \/ e.op = "pass"
  PROVE  Accounts(Append(l, e), n, t)
<1>1. /\ e.timer # n \/ e.op \notin TimerKind
      /\ e.timer # n \/ e.op \notin Starting
      /\ e.timer # n \/ e.op \notin {"read"}
  BY DEF TimerKind, Starting
<1>2. /\ EventsOf(Append(l, e), n, TimerKind) = EventsOf(l, n, TimerKind)
      /\ \A i \in EventsOf(l, n, TimerKind) : Append(l, e)[i] = l[i]
  BY <1>1 DEF EventsOf
<1>3. /\ EventsOf(Append(l, e), n, Starting) = EventsOf(l, n, Starting)
      /\ \A i \in EventsOf(l, n, Starting) : Append(l, e)[i] = l[i]
  BY <1>1 DEF EventsOf
<1>4. /\ EventsOf(Append(l, e), n, {"read"}) = EventsOf(l, n, {"read"})
      /\ \A i \in EventsOf(l, n, {"read"}) : Append(l, e)[i] = l[i]
  BY <1>1 DEF EventsOf
<1>5. PICK c \in EventsOf(l, n, TimerKind), s \in EventsOf(l, n, Starting) : AccountsFrom(l, n, t, c, s)
  BY DEF Accounts
<1>6. /\ ReadsAfter(Append(l, e), n, s) = ReadsAfter(l, n, s)
      /\ \A r \in ReadsAfter(l, n, s) : Append(l, e)[r] = l[r]
  BY <1>4 DEF ReadsAfter
<1>7. AccountsFrom(Append(l, e), n, t, c, s)
  BY <1>2, <1>3, <1>5, <1>6 DEF AccountsFrom
<1> QED
  BY <1>2, <1>3, <1>7 DEF Accounts

Started(kind, at) == [kind |-> kind, offset |-> IF kind = "eager" THEN at ELSE Unlatched]

\* A creation, or a reset, is the latest start: nothing has been read since.
LEMMA NoReadsYet ==
  ASSUME NEW l \in Seq(LogEntry), NEW e \in LogEntry, NEW n, e.timer = n, e.op \in Starting
  PROVE  /\ LastOf(Len(l) + 1, EventsOf(Append(l, e), n, Starting))
         /\ ReadsAfter(Append(l, e), n, Len(l) + 1) = {}
<1>1. e.op \notin {"read"}
  BY DEF Starting, TimerKind
<1>2. EventsOf(Append(l, e), n, {"read"}) = EventsOf(l, n, {"read"})
  BY <1>1 DEF EventsOf
<1>3. \A i \in EventsOf(l, n, {"read"}) : i \in Nat /\ i < Len(l) + 1
  BY MoreEvents
<1>4. Len(l) + 1 \in Nat
  OBVIOUS
<1>5. LastOf(Len(l) + 1, EventsOf(Append(l, e), n, Starting))
  BY <1>4, MoreEvents DEF LastOf
<1> QED
  BY <1>2, <1>3, <1>4, <1>5 DEF ReadsAfter

LEMMA CreationEvent ==
  ASSUME NEW l \in Seq(LogEntry), NEW e \in LogEntry, NEW n, e.timer = n, e.op \in TimerKind
  PROVE  Accounts(Append(l, e), n, Started(e.op, e.at))
<1> DEFINE k == Len(l) + 1
<1>1. LastOf(k, EventsOf(Append(l, e), n, TimerKind))
  BY MoreEvents DEF LastOf
<1>2. LastOf(k, EventsOf(Append(l, e), n, Starting))
      /\ ReadsAfter(Append(l, e), n, k) = {}
  BY NoReadsYet DEF Starting
<1>3. Append(l, e)[k] = e
  BY MoreEvents
<1> HIDE DEF k
<1>4. k \in EventsOf(Append(l, e), n, TimerKind) /\ k \in EventsOf(Append(l, e), n, Starting)
  BY <1>1, <1>2 DEF LastOf
<1> QED
  BY <1>1, <1>2, <1>3, <1>4 DEF Accounts, AccountsFrom, Started

LEMMA ResetEvent ==
  ASSUME NEW l \in Seq(LogEntry), NEW e \in LogEntry, NEW n, NEW t,
         Accounts(l, n, t), e.timer = n, e.op = "reset"
  PROVE  Accounts(Append(l, e), n, Started(t.kind, e.at))
<1> DEFINE k == Len(l) + 1
<1>1. PICK c \in EventsOf(l, n, TimerKind) :
        LastOf(c, EventsOf(l, n, TimerKind)) /\ t.kind = l[c].op
  BY DEF Accounts, AccountsFrom
<1>2. /\ EventsOf(Append(l, e), n, TimerKind) = EventsOf(l, n, TimerKind)
      /\ Append(l, e)[c] = l[c]
  <2>1. e.op \notin TimerKind
    BY DEF TimerKind
  <2>2. e.timer # n \/ e.op \notin TimerKind
    BY <2>1
  <2> QED
    BY <1>1, <2>2 DEF EventsOf
<1>3. LastOf(k, EventsOf(Append(l, e), n, Starting))
      /\ ReadsAfter(Append(l, e), n, k) = {}
  BY NoReadsYet DEF Starting
<1>4. Append(l, e)[k] = e
  BY MoreEvents
<1> HIDE DEF k
<1>5. k \in EventsOf(Append(l, e), n, Starting)
  BY <1>3 DEF LastOf
<1>6. AccountsFrom(Append(l, e), n, Started(t.kind, e.at), c, k)
  <2>1. Started(t.kind, e.at).kind = t.kind
        /\ Started(t.kind, e.at).offset = (IF t.kind = "eager" THEN e.at ELSE Unlatched)
    BY DEF Started
  <2> QED
    BY <1>1, <1>2, <1>3, <1>4, <2>1 DEF AccountsFrom
<1>7. c \in EventsOf(Append(l, e), n, TimerKind)
  BY <1>1, <1>2
<1> QED
  BY <1>5, <1>6, <1>7 DEF Accounts

\* A read starts a latching timer that has not started, and no other.
AfterRead(t, at) == IF t.offset = Unlatched THEN [t EXCEPT !.offset = at] ELSE t

LEMMA ReadEvent ==
  ASSUME NEW l \in Seq(LogEntry), NEW e \in LogEntry, NEW n, NEW t \in TimerState,
         Accounts(l, n, t), e.timer = n, e.op = "read"
  PROVE  Accounts(Append(l, e), n, AfterRead(t, e.at))
<1> DEFINE k == Len(l) + 1
<1>1. PICK c \in EventsOf(l, n, TimerKind), s \in EventsOf(l, n, Starting) : AccountsFrom(l, n, t, c, s)
  BY DEF Accounts
<1>2. /\ EventsOf(Append(l, e), n, TimerKind) = EventsOf(l, n, TimerKind)
      /\ EventsOf(Append(l, e), n, Starting) = EventsOf(l, n, Starting)
      /\ EventsOf(Append(l, e), n, {"read"}) = EventsOf(l, n, {"read"}) \cup {k}
  <2>1. e.op \notin TimerKind /\ e.op \notin Starting /\ e.op \in {"read"}
    BY DEF TimerKind, Starting
  <2>2. EventsOf(Append(l, e), n, {"read"}) = EventsOf(l, n, {"read"}) \cup {k}
    BY <2>1, MoreEvents
  <2> QED
    BY <2>1, <2>2 DEF EventsOf
<1>3. /\ k \in Nat /\ s \in Nat /\ s < k /\ Append(l, e)[k] = e
      /\ Append(l, e)[c] = l[c] /\ Append(l, e)[s] = l[s]
      /\ \A i \in EventsOf(l, n, {"read"}) : i \in Nat /\ i < k /\ Append(l, e)[i] = l[i]
  <2>1. Append(l, e)[c] = l[c]
    BY <1>1 DEF EventsOf
  <2>2. s \in Nat /\ s < k /\ Append(l, e)[s] = l[s]
    BY <1>1 DEF EventsOf
  <2>3. \A i \in EventsOf(l, n, {"read"}) : i \in Nat /\ i < k /\ Append(l, e)[i] = l[i]
    BY DEF EventsOf
  <2>4. k \in Nat /\ Append(l, e)[k] = e
    OBVIOUS
  <2> QED
    BY <2>1, <2>2, <2>3, <2>4
<1> HIDE DEF k
<1>4. /\ ReadsAfter(Append(l, e), n, s) = ReadsAfter(l, n, s) \cup {k}
      /\ \A r \in ReadsAfter(l, n, s) : r \in Nat /\ r < k /\ Append(l, e)[r] = l[r]
  BY <1>2, <1>3 DEF ReadsAfter
<1>5. \A i \in DOMAIN l : l[i].at # Unlatched
  <2>1. \A x \in LogEntry : x.at # Unlatched
    BY ClockAssumption DEF LogEntry, Time, Unlatched
  <2> QED
    BY <2>1
<1>6. ASSUME NEW u, AccountsFrom(Append(l, e), n, u, c, s) PROVE Accounts(Append(l, e), n, u)
  BY <1>2, <1>6 DEF Accounts
<1>7. CASE t.kind = "eager"
  <2>1. AfterRead(t, e.at) = t
    BY <1>1, <1>5, <1>7 DEF EventsOf, AccountsFrom, AfterRead
  <2>2. AccountsFrom(Append(l, e), n, t, c, s)
    BY <1>1, <1>2, <1>3, <1>7 DEF AccountsFrom
  <2> QED
    BY <1>6, <2>1, <2>2
<1>8. CASE t.kind = "latching" /\ ReadsAfter(l, n, s) = {} /\ t.offset = Unlatched
  <2>1. FirstOf(k, ReadsAfter(Append(l, e), n, s)) /\ k \in ReadsAfter(Append(l, e), n, s)
    BY <1>3, <1>4, <1>8 DEF FirstOf
  <2>2. AfterRead(t, e.at).kind = t.kind /\ AfterRead(t, e.at).offset = e.at
    BY <1>8 DEF TimerState, AfterRead
  <2>3. AccountsFrom(Append(l, e), n, AfterRead(t, e.at), c, s)
    BY <1>1, <1>2, <1>3, <1>8, <2>1, <2>2 DEF AccountsFrom
  <2> QED
    BY <1>6, <2>3
<1>9. ASSUME t.kind = "latching", NEW r \in ReadsAfter(l, n, s), FirstOf(r, ReadsAfter(l, n, s)),
             t.offset = l[r].at
      PROVE  Accounts(Append(l, e), n, AfterRead(t, e.at))
  <2>1. AfterRead(t, e.at) = t
    BY <1>5, <1>9 DEF EventsOf, ReadsAfter, AfterRead
  <2>2. /\ r \in ReadsAfter(Append(l, e), n, s) /\ Append(l, e)[r] = l[r]
        /\ r <= k /\ \A j \in ReadsAfter(l, n, s) : r <= j
    <3>1. r \in Nat /\ r < k /\ Append(l, e)[r] = l[r]
      BY <1>4, <1>9
    <3>2. r \in ReadsAfter(Append(l, e), n, s)
      BY <1>4, <1>9
    <3>3. \A j \in ReadsAfter(l, n, s) : r <= j
      BY <1>9 DEF FirstOf
    <3>4. r <= k
      BY <1>3, <3>1
    <3> QED
      BY <3>1, <3>2, <3>3, <3>4
  <2>3. FirstOf(r, ReadsAfter(Append(l, e), n, s))
    BY <1>4, <2>2 DEF FirstOf
  <2>4. AccountsFrom(Append(l, e), n, t, c, s)
    BY <1>1, <1>2, <1>3, <1>9, <2>2, <2>3 DEF AccountsFrom
  <2> QED
    BY <1>6, <2>1, <2>4
<1> QED
  BY <1>1, <1>7, <1>8, <1>9 DEF TimerState, TimerKind, AccountsFrom

LEMMA MeasureStep ==
  ClockInv /\ LogInv /\ MeasureInv /\ [HNext]_historyVars => MeasureInv'
<1> SUFFICES ASSUME ClockInv, LogInv, MeasureInv, [HNext]_historyVars PROVE MeasureInv'
  OBVIOUS
<1> USE DEF MeasureInv
<1>1. \A n \in DOMAIN timers : timers[n] \in TimerState
  BY DEF ClockInv, TimersTypeOK
<1>2. ASSUME NEW op \in Starting \cup {"read", "pass"}, NEW n \in TimerName \cup {None}, Record(op, n)
      PROVE  \E e \in LogEntry :
               e.op = op /\ e.timer = n /\ e.at = master_t /\ log' = Append(log, e)
  <2>1. [op |-> op, timer |-> n, at |-> master_t] \in LogEntry
    BY DEF LogEntry, Starting, ClockInv, TimersTypeOK
  <2> QED
    BY <1>2, <2>1 DEF Record
<1>3. ASSUME NEW n \in TimerName, NEW kind \in TimerKind, CreateTimer(n, kind), Record(kind, n)
      PROVE  MeasureInv'
  <2>1. PICK e \in LogEntry : e.op = kind /\ e.timer = n /\ e.at = master_t /\ log' = Append(log, e)
    <3>1. kind \in Starting \cup {"read", "pass"} /\ n \in TimerName \cup {None} /\ Record(kind, n)
      BY <1>3 DEF Starting
    <3> QED
      BY <1>2, <3>1, Zenon
  <2>2. DOMAIN timers' = DOMAIN timers \cup {n} /\ timers'[n] = Started(kind, master_t)
        /\ \A m \in DOMAIN timers \ {n} : timers'[m] = timers[m]
    BY <1>3 DEF CreateTimer, Created, Fresh, Started
  <2>3. Accounts(log', n, timers'[n])
    BY <2>1, <2>2, CreationEvent DEF LogInv
  <2>4. \A m \in DOMAIN timers \ {n} : Accounts(log', m, timers'[m])
    BY <2>1, <2>2, OtherEvent DEF LogInv
  <2> QED
    BY <2>2, <2>3, <2>4
<1>4. ASSUME NEW n \in TimerName, ResetTimer(n), Record("reset", n) PROVE MeasureInv'
  <2>1. PICK e \in LogEntry : e.op = "reset" /\ e.timer = n /\ e.at = master_t /\ log' = Append(log, e)
    <3>1. "reset" \in Starting \cup {"read", "pass"} /\ n \in TimerName \cup {None} /\ Record("reset", n)
      BY <1>4 DEF Starting
    <3> QED
      BY <1>2, <3>1, Zenon
  <2>2. n \in DOMAIN timers /\ DOMAIN timers' = DOMAIN timers
        /\ timers'[n] = Started(timers[n].kind, master_t)
        /\ \A m \in DOMAIN timers \ {n} : timers'[m] = timers[m]
    BY <1>4 DEF ResetTimer, Fresh, Started
  <2>3. Accounts(log', n, timers'[n])
    BY <2>1, <2>2, ResetEvent DEF LogInv
  <2>4. \A m \in DOMAIN timers \ {n} : Accounts(log', m, timers'[m])
    BY <2>1, <2>2, OtherEvent DEF LogInv
  <2> QED
    BY <2>2, <2>3, <2>4
<1>5. ASSUME NEW n \in TimerName, Read({n}), Record("read", n) PROVE MeasureInv'
  <2>1. PICK e \in LogEntry : e.op = "read" /\ e.timer = n /\ e.at = master_t /\ log' = Append(log, e)
    <3>1. "read" \in Starting \cup {"read", "pass"} /\ n \in TimerName \cup {None} /\ Record("read", n)
      BY <1>5
    <3> QED
      BY <1>2, <3>1, Zenon
  <2>2. n \in DOMAIN timers /\ DOMAIN timers' = DOMAIN timers
        /\ timers'[n] = AfterRead(timers[n], master_t)
        /\ \A m \in DOMAIN timers \ {n} : timers'[m] = timers[m]
    BY <1>5 DEF Read, Latched, IsUnlatched, AfterRead
  <2>3. Accounts(log', n, timers'[n])
    BY <1>1, <2>1, <2>2, ReadEvent DEF LogInv
  <2>4. \A m \in DOMAIN timers \ {n} : Accounts(log', m, timers'[m])
    BY <2>1, <2>2, OtherEvent DEF LogInv
  <2> QED
    BY <2>2, <2>3, <2>4
<1>6. ASSUME UNCHANGED timers, Record("pass", None) PROVE MeasureInv'
  <2>1. PICK e \in LogEntry : e.op = "pass" /\ log' = Append(log, e)
    BY <1>2, <1>6
  <2> QED
    BY <1>6, <2>1, OtherEvent DEF LogInv
<1>7. ASSUME UNCHANGED <<timers, log>> PROVE MeasureInv'
  BY <1>7
<1> QED
  BY <1>3, <1>4, <1>5, <1>6, <1>7 DEF HNext, Raise, historyVars

\* A timer's offset is what the history of its own operations says, for any
\* number of timers, events and kinds of clock, however the operations of other
\* timers and the passing of time are interleaved (vm.py:285-292, vm.py:361-364).
THEOREM TimersMeasureFromTheirStart == HSpec => []MeasuresFromStart
<1>1. HInit => MeasureInv
  BY NoEntries DEF HInit, TimersInit, MeasureInv
<1>2. ClockInv /\ LogInv /\ MeasureInv => MeasuresFromStart
  BY AccountedIsMeasured DEF MeasureInv, MeasuresFromStart, LogInv, ClockInv, TimersTypeOK
<1> QED
  BY <1>1, <1>2, LogInit, LogStep, MeasureStep, PTL DEF HSpec
=============================================================================
