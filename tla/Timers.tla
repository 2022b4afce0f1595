------------------------------- MODULE Timers -------------------------------
(***************************************************************************)
(* Simulated time of one ScriptRun: the clock `master_t`, which only       *)
(* _advance_time moves, and the timers a script declares - the public ones *)
(* of `timer()` and `latching_timer()` and the private one behind the `_t` *)
(* of every live block.                                                    *)
(*                                                                         *)
(* Times are points of a finite grid of floating-point numbers, so adding  *)
(* a small delay to a large time may round back to that time.              *)
(***************************************************************************)
EXTENDS Integers, SequencesExt

CONSTANTS
  TimerName,        \* names of the script's timers and of its live blocks' timers
  Delay,            \* delays a step may ask for
  LatestTime,       \* the largest finite time; later ones are infinite
  FloatAdd(_, _)    \* floating-point sum of a time and a delay

ASSUME ClockAssumption ==
  /\ LatestTime \in Nat
  /\ Delay \subseteq Nat
  /\ \A t \in 0..LatestTime, d \in Delay : FloatAdd(t, d) \in Nat

VARIABLES
  halted,      \* ScriptRun.halted
  master_t,    \* ScriptRun.master_t
  timers       \* ScriptRun.timers: name -> TimerState

clockVars == <<halted, master_t, timers>>

Time == 0..LatestTime
TimerKind == {"eager", "latching"}
Unlatched == -1                        \* offset = None

TimerState == [kind : TimerKind, offset : Time \cup {Unlatched}]

TimersTypeOK ==
  /\ halted \in BOOLEAN
  /\ master_t \in Time
  /\ DOMAIN timers \subseteq TimerName
  /\ timers \in [DOMAIN timers -> TimerState]

TimersInit ==
  /\ halted = FALSE
  /\ master_t = 0
  /\ timers = <<>>

-----------------------------------------------------------------------------
\* Faulty variants, to see that the properties would notice: resetting any
\* timer starts it; every read starts a latching timer; the clock may become
\* infinite, or stand still.
ResetStarts(n) ==
  /\ n \in DOMAIN timers
  /\ timers' = [timers EXCEPT ![n].offset = master_t]
  /\ UNCHANGED <<halted, master_t>>
LatchedAgain(names) ==
  [n \in DOMAIN timers |->
     IF n \in names /\ timers[n].kind = "latching" THEN [timers[n] EXCEPT !.offset = master_t]
                                                   ELSE timers[n]]
CanAdvanceToInfinity(delay) == FloatAdd(master_t, delay) > master_t
CanStandStill(delay) == FloatAdd(master_t, delay) <= LatestTime

-----------------------------------------------------------------------------
\* A timer just created, or just reset: an eager one starts now, a latching
\* one waits for its first read.
Fresh(kind) ==
  [kind |-> kind, offset |-> IF kind = "eager" THEN master_t ELSE Unlatched]

Created(names, kind) ==
  [n \in DOMAIN timers \cup names |-> IF n \in names THEN Fresh(kind) ELSE timers[n]]

CreateTimer(n, kind) ==
  /\ timers' = Created({n}, kind)
  /\ UNCHANGED <<halted, master_t>>

ResetTimer(n) ==
  /\ n \in DOMAIN timers
  /\ timers' = [timers EXCEPT ![n] = Fresh(timers[n].kind)]
  /\ UNCHANGED <<halted, master_t>>

\* Reading timers starts the latching ones that have not started yet.
IsUnlatched(n) == timers[n].offset = Unlatched

Latched(names) ==
  [n \in DOMAIN timers |->
     IF n \in names /\ IsUnlatched(n) THEN [timers[n] EXCEPT !.offset = master_t]
                                      ELSE timers[n]]

Read(names) ==
  /\ names \subseteq DOMAIN timers
  /\ timers' = Latched(names)
  /\ UNCHANGED <<halted, master_t>>

Reading(n) ==
  IF IsUnlatched(n) THEN 0 ELSE master_t - timers[n].offset

\* The clock accepts a delay only if it really moves, to a finite time.
CanAdvance(delay) ==
  /\ FloatAdd(master_t, delay) <= LatestTime
  /\ FloatAdd(master_t, delay) > master_t

Advance(delay) ==
  /\ CanAdvance(delay)
  /\ master_t' = FloatAdd(master_t, delay)

\* Any error of a step ends the run: the ScriptError of the clock, the
\* KeyError of resetting a timer that was never created.
Raise ==
  /\ halted' = TRUE
  /\ UNCHANGED <<master_t, timers>>

TimersNext ==
  /\ ~halted
  /\ \/ \E n \in TimerName, kind \in TimerKind : CreateTimer(n, kind)
     \/ \E n \in TimerName : ResetTimer(n)
     \/ \E n \in TimerName : Read({n})
     \/ \E d \in Delay : Advance(d) /\ UNCHANGED <<halted, timers>>
     \/ \E d \in Delay : ~CanAdvance(d) /\ Raise
     \/ \E n \in TimerName \ DOMAIN timers : Raise

TimersSpec == TimersInit /\ [][TimersNext]_clockVars

-----------------------------------------------------------------------------
\* No timer has started in the future: every reading the program hands out is
\* a nonnegative number of simulated seconds (vm.py:361).
StartedInThePast ==
  \A n \in DOMAIN timers : timers[n].offset <= master_t
=============================================================================
