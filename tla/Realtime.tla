------------------------------ MODULE Realtime ------------------------------
(***************************************************************************)
(* The drivers run_realtime and run_async: they call step(), deliver what  *)
(* it sends to the host's callback, and sleep until the next deadline.     *)
(* Here a run is only the results it gives; step(), the callback and the   *)
(* sleeps take real time, and every sleep may last too long.  A host may   *)
(* drive the same ScriptRun again when a call is over, however it ended.   *)
(***************************************************************************)
EXTENDS Integers, SequencesExt

CONSTANTS
  Delay,        \* delays a result may ask for
  MaxBusy,      \* the longest step() or callback considered
  MaxOver,      \* the longest oversleep considered
  MaxLag,       \* the longest time considered between a look at `cancelled` and the step
  Slice,        \* 0.1 s: the longest sleep between two looks at `cancelled`
  MaxTicks,     \* max_ticks
  MaxCalls      \* how often the host drives the run

ASSUME DriverAssumption ==
  /\ Delay \subseteq Nat \ {0}
  /\ MaxBusy \in Nat /\ MaxOver \in Nat /\ MaxLag \in Nat
  /\ Slice \in Nat \ {0} /\ MaxTicks \in Nat \ {0} /\ MaxCalls \in Nat \ {0}

VARIABLES
  driver,       \* [async, predicate, policy]: which driver, and how it was called
  pc,           \* where the driver is
  now,          \* time.monotonic()
  deadline,     \* when the next step is due
  remaining,    \* how long is left to sleep
  delay,        \* result.delay of the last step
  ticks,        \* steps with a result in this call
  ended,        \* the run is over: step() answers None, or has raised
  cancelled,    \* what the predicate answers, from cancelled_at on
  cancelled_at,
  yielded,      \* run_async: other tasks have run since the last step
  total,        \* history: where the delays of this call put its next step
  last_start,   \* history: when the last step started
  sleep_start,  \* history: when the last sleep started
  calls,        \* history: calls of the driver so far
  late,         \* history: steps of this call that started when `cancelled` was true
  cut,          \* history: the last step's delay was not waited for: cancelled, or an error
  taken,        \* history: messages the run has given
  delivered,    \* history: messages whose callback has completed
  broken        \* history: callbacks that raised or were cancelled

hostHistory == <<calls, delivered, broken>>
runHistory == <<ended, taken, last_start, late>>
vars == <<driver, pc, now, deadline, remaining, delay, ticks, cancelled, cancelled_at,
          yielded, total, sleep_start, cut, runHistory, hostHistory>>
predicate == <<cancelled, cancelled_at>>

Policy == {"delay", "catch_up", "error"}

Init ==
  /\ driver \in [async : BOOLEAN, predicate : BOOLEAN, policy : Policy]
  /\ pc = "top" /\ now = 0 /\ deadline = 0 /\ remaining = 0 /\ delay = 0 /\ ticks = 0
  /\ cancelled = FALSE /\ cancelled_at = 0 /\ yielded = FALSE
  /\ total = 0 /\ last_start = 0 /\ sleep_start = 0 /\ late = 0 /\ ended = FALSE
  /\ calls = 1 /\ cut = TRUE /\ taken = 0 /\ delivered = 0 /\ broken = 0

\* Time passes; the predicate, if there is one, may turn true meanwhile.
Pass(time) ==
  /\ now' = now + time
  /\ \/ UNCHANGED <<cancelled, cancelled_at>>
     \/ /\ driver.predicate /\ ~cancelled
        /\ cancelled' = TRUE
        /\ cancelled_at' \in now..now'

Larger(a, b) == IF a > b THEN a ELSE b
Smaller(a, b) == IF a < b THEN a ELSE b

\* Faulty variants: what is left to sleep may be negative; a missed deadline
\* stays as it is, or every deadline starts anew; a cancellation is seen only
\* after the whole sleep, or only by the sleep; a late driver does not yield.
LeftSigned(until, at) == until - at
DeadlineKept == deadline + delay
DeadlineAnew == now + delay
WholeSleep(left) == left
MayStepCancelled == ticks < MaxTicks
YieldsIfSlept == FALSE

Left(until, at) == Larger(0, until - at)
SliceOf(left) == Smaller(left, Slice)
MayStep == ticks < MaxTicks /\ ~cancelled
YieldsAlways == driver.async

-----------------------------------------------------------------------------
Stop ==
  /\ pc = "top" /\ ~MayStep
  /\ pc' = "returned"
  /\ UNCHANGED <<driver, now, deadline, remaining, delay, ticks, predicate, yielded, total,
                 sleep_start, cut, runHistory, hostHistory>>

\* The predicate has answered: a step will start, whatever it would answer by then.
Look ==
  /\ pc = "top" /\ MayStep
  /\ \E lag \in IF driver.predicate THEN 0..MaxLag ELSE {0} : Pass(lag)
  /\ pc' = "stepping"
  /\ UNCHANGED <<driver, deadline, remaining, delay, ticks, yielded, total, sleep_start, cut,
                 runHistory, hostHistory>>

\* Faulty variant: the predicate is looked at when step() has given a result.
AfterStepLooking == IF cancelled' THEN {"returned"} ELSE {"delivering", "pacing"}

AfterStep == {"delivering", "pacing"}

\* The run gives a wait, or a message and the callback is called with it at
\* once; or it ends, or it raises.
Step ==
  /\ pc = "stepping"
  /\ \E busy \in 0..MaxBusy : Pass(busy)
  /\ last_start' = now
  /\ late' = IF cancelled THEN late + 1 ELSE late
  /\ \/ /\ ~ended
        /\ pc' \in AfterStep
        /\ delay' \in Delay
        /\ ticks' = ticks + 1
        /\ taken' \in IF pc' = "pacing" THEN {taken} ELSE {taken + 1}
        /\ yielded' = FALSE /\ cut' = FALSE
        /\ UNCHANGED ended
     \/ /\ pc' \in {"returned"} \cup IF ended THEN {} ELSE {"raised"}
        /\ ended' = TRUE /\ cut' = TRUE
        /\ UNCHANGED <<delay, ticks, yielded, taken>>
  /\ UNCHANGED <<driver, deadline, remaining, total, sleep_start, hostHistory>>

\* on_send is done, or has raised.  run_async awaits it when it can.
Deliver ==
  /\ pc = "delivering"
  /\ \E busy \in 0..MaxBusy : Pass(busy)
  /\ \/ pc' = "pacing" /\ delivered' = delivered + 1 /\ UNCHANGED <<broken, cut>>
     \/ pc' = "raised" /\ broken' = broken + 1 /\ cut' = TRUE /\ UNCHANGED delivered
  /\ yielded' \in IF driver.async THEN {yielded, TRUE} ELSE {yielded}
  /\ UNCHANGED <<driver, deadline, remaining, delay, ticks, total, sleep_start, runHistory, calls>>

\* `deadline += result.delay`, then _remaining.
Missed == now > deadline + delay

NextDeadline == IF Missed /\ driver.policy = "delay" THEN now ELSE deadline + delay

\* Faulty variant: after the last step allowed there is nothing to wait for.
AfterPacingUnlessLast == IF ticks = MaxTicks THEN "returned" ELSE "sleeping"

AfterPacing == "sleeping"

Pace ==
  /\ pc = "pacing"
  /\ total' = total + delay
  /\ \/ /\ Missed /\ driver.policy = "error"
        /\ pc' = "raised" /\ cut' = TRUE
        /\ UNCHANGED <<deadline, remaining, sleep_start>>
     \/ /\ ~(Missed /\ driver.policy = "error")
        /\ deadline' = NextDeadline
        /\ remaining' = Left(NextDeadline, now)
        /\ sleep_start' = now
        /\ pc' = AfterPacing
        /\ UNCHANGED cut
  /\ UNCHANGED <<driver, now, delay, ticks, predicate, yielded, runHistory, hostHistory>>

Overslept(time) == {time + over : over \in 0..MaxOver}

\* Without a predicate, one sleep; run_async yields to other tasks even when
\* nothing remains.
SleepThrough ==
  /\ pc = "sleeping" /\ ~driver.predicate
  /\ \/ /\ remaining > 0 \/ driver.async
        /\ \E time \in Overslept(remaining) : Pass(time)
        /\ yielded' = TRUE
     \/ /\ remaining = 0 /\ ~driver.async
        /\ UNCHANGED <<now, predicate, yielded>>
  /\ pc' = "top"
  /\ UNCHANGED <<driver, deadline, remaining, delay, ticks, total, sleep_start, cut, runHistory, hostHistory>>

\* With a predicate, slices of sleep, each after a look at it.
SleepSlice ==
  /\ pc = "sleeping" /\ driver.predicate /\ remaining > 0
  /\ \/ /\ cancelled
        /\ pc' = "returned" /\ cut' = TRUE
        /\ UNCHANGED <<now, remaining, predicate, yielded>>
     \/ /\ ~cancelled
        /\ \E time \in Overslept(SliceOf(remaining)) : Pass(time)
        /\ remaining' = Left(deadline, now')
        /\ yielded' = TRUE
        /\ UNCHANGED <<pc, cut>>
  /\ UNCHANGED <<driver, deadline, delay, ticks, total, sleep_start, runHistory, hostHistory>>

\* The deadline is reached; run_async yields once more.
SleepDone ==
  /\ pc = "sleeping" /\ driver.predicate /\ remaining = 0
  /\ \E time \in IF driver.async THEN Overslept(0) ELSE {0} : Pass(time)
  /\ yielded' = (yielded \/ YieldsAlways)
  /\ pc' = "top"
  /\ UNCHANGED <<driver, deadline, remaining, delay, ticks, total, sleep_start, cut, runHistory, hostHistory>>

\* Cancelling the task of run_async raises at whatever it awaits.
TaskCancelled ==
  /\ driver.async /\ pc \in {"delivering", "sleeping"}
  /\ pc' = "raised" /\ cut' = TRUE
  /\ broken' = IF pc = "delivering" THEN broken + 1 ELSE broken
  /\ UNCHANGED <<driver, now, deadline, remaining, delay, ticks, predicate, yielded, total,
                 sleep_start, runHistory, calls, delivered>>

\* The host drives the same run again, in the same way, now or later.
CallAgain ==
  /\ pc \in {"returned", "raised"} /\ calls < MaxCalls
  /\ now' \in now..now+MaxBusy
  /\ pc' = "top" /\ deadline' = now' /\ ticks' = 0 /\ total' = now'
  /\ cancelled' = FALSE /\ cancelled_at' = 0 /\ late' = 0
  /\ calls' = calls + 1
  /\ UNCHANGED <<driver, remaining, delay, yielded, sleep_start, cut, ended, taken, last_start, delivered, broken>>

Next ==
  \/ Stop \/ Look \/ Step \/ Deliver \/ Pace \/ SleepThrough \/ SleepSlice \/ SleepDone
  \/ TaskCancelled \/ CallAgain

Spec == Init /\ [][Next]_vars

-----------------------------------------------------------------------------
TypeOK ==
  /\ driver \in [async : BOOLEAN, predicate : BOOLEAN, policy : Policy]
  /\ pc \in {"top", "stepping", "delivering", "pacing", "sleeping", "returned", "raised"}
  /\ now \in Nat /\ deadline \in Nat /\ remaining \in Nat /\ delay \in Nat /\ ticks \in Nat
  /\ cancelled_at \in Nat /\ total \in Nat /\ last_start \in Nat /\ sleep_start \in Nat
  /\ late \in Nat /\ calls \in Nat /\ taken \in Nat /\ delivered \in Nat /\ broken \in Nat
  /\ cancelled \in BOOLEAN /\ yielded \in BOOLEAN /\ ended \in BOOLEAN /\ cut \in BOOLEAN

\* No step is early: when a step starts, real time is at least where the
\* delays of all the steps before it put it.  Only "delay" ever moves a
\* deadline away from that sum; "catch_up" and "error" never drift, however
\* late steps, callbacks and sleeps have been (realtime.py:26-33, README
\* "paces against cumulative monotonic deadlines").
NeverAheadOfSchedule ==
  pc = "stepping" =>
    /\ now >= deadline /\ deadline >= total
    /\ driver.policy # "delay" => deadline = total

\* How long after its deadline a step that was slept for may start: run_async
\* sleeps once more, and a predicate is looked at.
Overshoot == IF driver.async THEN 2 * MaxOver ELSE MaxOver
Slack == Overshoot + IF driver.predicate THEN MaxLag ELSE 0

\* Lateness does not accumulate: unless the driver catches up, a step starts
\* after its deadline by no more than the one sleep before it overslept and a look
\* at the predicate took - an overrun has been forgiven, or has ended the run
\* (realtime.py:28-32).
LatenessIsBounded ==
  pc = "stepping" /\ driver.policy # "catch_up" => now <= deadline + Slack

\* After an overrun "delay" does not send a burst to catch up: two steps are
\* always a delay apart, less what the first one overslept - also when one call
\* has come to its max_ticks and the next one goes on with the run, for the
\* delay of the last step is slept too (realtime.py:31-32, realtime.py:64-68).
NoBursts ==
  pc = "stepping" /\ ~cut /\ driver.policy = "delay" =>
    now - last_start >= delay - Slack

\* README "deliver one callback at a time, and propagate callback failures":
\* however calls end and are made again, no message is lost, repeated or left
\* undelivered but those whose own callback raised or was cancelled, at most
\* one in a call (realtime.py:58-63, realtime.py:97-104).
NoMessageIsLost ==
  /\ taken = delivered + broken + IF pc = "delivering" THEN 1 ELSE 0
  /\ broken <= calls - IF pc = "raised" THEN 0 ELSE 1

\* A cancellation during a sleep ends it within a slice (README "at most 100 ms
\* apart during sleeps", realtime.py:67-74).
CancelEndsSleep ==
  pc = "sleeping" /\ cancelled /\ cancelled_at > sleep_start =>
    now - cancelled_at <= Slice + MaxOver

\* A step and its callback, from a look at the predicate on, or a slice of sleep.
LongestUnseen == Larger(MaxLag + 2 * MaxBusy, Slice + MaxOver)

\* The predicate is looked at before a step and between slices, and may turn
\* true at any moment, also between the look and the step: whenever that is, and
\* however late the driver, at most one step starts afterwards, and the call is
\* over when that step, its callback or the slice is (realtime.py:56-58,
\* realtime.py:70-74, realtime.py:115).
CancelEndsCall ==
  /\ late <= 1
  /\ cancelled /\ pc \notin {"returned", "raised"} =>
       now - cancelled_at <= LongestUnseen + MaxOver

\* run_async lets other tasks run between any two steps, also when it is late
\* and never sleeps (realtime.py:107-115).
AsyncYieldsBetweenSteps ==
  [][ticks' > ticks /\ driver.async /\ ticks > 0 => yielded]_vars
=============================================================================
