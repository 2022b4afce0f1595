---------------------------- MODULE TimerHistory ----------------------------
(***************************************************************************)
(* Timers with a history variable: the log of what the script did to them, *)
(* and of the steps that took time.  From the log alone one can say what a *)
(* timer must measure.                                                     *)
(***************************************************************************)
EXTENDS Timers

CONSTANT MaxEvents      \* bound: how many events a behaviour has

VARIABLE log            \* the events so far: [op, timer, at]; a step that takes time has no timer

historyVars == <<halted, master_t, timers, log>>

Record(op, n) ==
  /\ Len(log) < MaxEvents
  /\ log' = Append(log, [op |-> op, timer |-> n, at |-> master_t])

None == ""

HInit == TimersInit /\ log = <<>>

HNext ==
  /\ ~halted
  /\ \/ \E n \in TimerName, kind \in TimerKind : CreateTimer(n, kind) /\ Record(kind, n)
     \/ \E n \in TimerName : ResetTimer(n) /\ Record("reset", n)
     \/ \E n \in TimerName : Read({n}) /\ Record("read", n)
     \/ \E d \in Delay : Advance(d) /\ UNCHANGED <<halted, timers>> /\ Record("pass", None)
     \/ \E d \in Delay : ~CanAdvance(d) /\ Raise /\ UNCHANGED log
     \/ \E n \in TimerName \ DOMAIN timers : Raise /\ UNCHANGED log

HSpec == HInit /\ [][HNext]_historyVars

-----------------------------------------------------------------------------
Events(n, ops) == {i \in DOMAIN log : log[i].timer = n /\ log[i].op \in ops}

LastStart(n) == Max(Events(n, TimerKind \cup {"reset"}))

Kind(n) == log[Max(Events(n, TimerKind))].op

ReadsSinceStart(n) == {i \in Events(n, {"read"}) : i > LastStart(n)}

\* What timer n measures from: an eager timer from its latest creation or
\* reset, a latching one from the first read after it.
MeasuredFrom(n) ==
  IF Kind(n) = "eager" THEN log[LastStart(n)].at
  ELSE IF ReadsSinceStart(n) = {} THEN Unlatched
  ELSE log[Min(ReadsSinceStart(n))].at

\* README "timer() starts at creation; latching_timer() starts on first actual
\* read. Reset re-zeros the eager timer or unlatches the latching timer": a
\* timer's offset is always what the history of its own operations says,
\* whatever happened to the other timers and however time passed between
\* (vm.py:285-292, vm.py:361-364).
MeasuresFromStart ==
  \A n \in DOMAIN timers : timers[n].offset = MeasuredFrom(n)

\* The clock never stands still: what comes after a step that takes time comes
\* at a later time, even where adding the delay would round away
\* (vm.py:342-348, "schedule exceeds simulated clock precision or range").
ClockMovesForward ==
  \A i, j \in DOMAIN log : i < j /\ log[i].op = "pass" => log[i].at < log[j].at
=============================================================================
