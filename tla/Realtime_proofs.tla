-------------------------- MODULE Realtime_proofs --------------------------
(***************************************************************************)
(* For any delays, any lateness of steps, callbacks and sleeps, and any    *)
(* number of calls: no step is early, except when catching up lateness     *)
(* does not accumulate and "delay" sends no bursts, a cancellation ends a  *)
(* sleep and the call, run_async yields, and no message is lost.           *)
(***************************************************************************)
EXTENDS Realtime, TLAPS

USE DriverAssumption DEF predicate, runHistory, hostHistory

\* What time passing may do to the predicate.
Noticed ==
  \/ UNCHANGED <<cancelled, cancelled_at>>
  \/ driver.predicate /\ ~cancelled /\ cancelled' = TRUE /\ cancelled_at' \in now..now'

Clock == now \in Nat /\ cancelled_at \in Nat /\ cancelled \in BOOLEAN

LEMMA TimePasses ==
  ASSUME TypeOK, NEW time \in Nat, Pass(time)
  PROVE  Clock' /\ Noticed /\ now' = now + time
<1>1. now' = now + time /\ now \in Nat /\ cancelled \in BOOLEAN /\ cancelled_at \in Nat
  BY DEF Pass, TypeOK
<1>2. now' \in Nat
  BY <1>1
<1>3. Noticed
  BY Zenon DEF Pass, Noticed
<1>4. cancelled_at' \in Nat
  <2>1. cancelled_at' = cancelled_at \/ cancelled_at' \in now..now'
    BY <1>3 DEF Noticed
  <2> QED
    BY <1>1, <1>2, <2>1
<1>5. cancelled' \in BOOLEAN
  BY <1>1, <1>3, Zenon DEF Noticed
<1> QED
  BY <1>1, <1>2, <1>3, <1>4, <1>5 DEF Clock

\* Two facts of arithmetic, for primed values too.
LEMMA SumIsLarger ==
  ASSUME NEW x \in Nat, NEW y \in Nat
  PROVE  x >= x /\ x <= x + y
OBVIOUS

LEMMA Within ==
  ASSUME NEW x \in Nat, NEW y \in Nat, NEW z \in Nat, NEW m \in Nat, NEW n \in Nat,
         x <= y, z <= x + m + n
  PROVE  z - y <= m + n
OBVIOUS

LEMMA LeftIsNatural ==
  ASSUME NEW until \in Nat, NEW at \in Nat
  PROVE  /\ Left(until, at) \in Nat
         /\ at + Left(until, at) >= until
         /\ Left(until, at) > 0 => at + Left(until, at) = until
         /\ Left(until, at) = 0 => at >= until
BY DEF Left, Larger

LEMMA OversleepIsBounded ==
  ASSUME NEW time \in Nat, NEW slept \in Overslept(time)
  PROVE  slept \in Nat /\ slept >= time /\ slept <= time + MaxOver
BY DEF Overslept

-----------------------------------------------------------------------------
(* Types, and what each kind of step does to the clock and the predicate. *)

\* What a step that takes real time does.
Passed == now' >= now /\ Noticed

LEMMA BusyPasses ==
  ASSUME TypeOK, \E busy \in 0..MaxBusy : Pass(busy)
  PROVE  Clock' /\ Passed
<1>1. PICK busy \in 0..MaxBusy : Pass(busy)
  OBVIOUS
<1> QED
  BY <1>1, TimePasses DEF Clock, Passed, TypeOK

LEMMA SleepPasses ==
  ASSUME TypeOK, NEW long \in Nat, \E time \in Overslept(long) : Pass(time)
  PROVE  Clock' /\ Passed /\ now' >= now + long /\ now' <= now + long + MaxOver
<1>1. PICK time \in Overslept(long) : Pass(time)
  OBVIOUS
<1>2. time \in Nat /\ time >= long /\ time <= long + MaxOver
  BY OversleepIsBounded
<1> QED
  BY <1>1, <1>2, TimePasses DEF Clock, Passed, TypeOK

LEMMA LookPasses ==
  ASSUME TypeOK, Look
  PROVE  Clock' /\ Passed /\ now' <= now + IF driver.predicate THEN MaxLag ELSE 0
<1>1. CASE driver.predicate
  <2>1. PICK lag \in 0..MaxLag : Pass(lag)
    BY <1>1 DEF Look
  <2> QED
    BY <1>1, <2>1, TimePasses DEF Clock, Passed, TypeOK
<1>2. CASE ~driver.predicate
  BY <1>2, TimePasses DEF Look, TypeOK, Clock, Passed
<1> QED
  BY <1>1, <1>2

\* A whole sleep: none at all when nothing is left and the driver is not async.
LEMMA ThroughPasses ==
  ASSUME TypeOK, SleepThrough
  PROVE  /\ Clock' /\ Passed /\ yielded' \in BOOLEAN
         /\ now' >= now + remaining /\ now' <= now + remaining + MaxOver
<1>1. remaining \in Nat /\ now \in Nat
  BY DEF TypeOK
<1>2. CASE remaining = 0 /\ UNCHANGED <<now, predicate, yielded>>
  <2>1. Noticed
    BY <1>2, Zenon DEF Noticed
  <2> QED
    BY <1>1, <1>2, <2>1 DEF Clock, Passed, TypeOK
<1>3. CASE (\E time \in Overslept(remaining) : Pass(time)) /\ yielded' = TRUE
  BY <1>1, <1>3, SleepPasses
<1> QED
  BY <1>2, <1>3 DEF SleepThrough

LEMMA SlicePasses ==
  ASSUME TypeOK, SleepSlice, pc' # "returned"
  PROVE  /\ ~cancelled /\ Clock' /\ Passed
         /\ now' <= now + Slice + MaxOver /\ now' <= now + remaining + MaxOver
         /\ remaining' = Left(deadline, now') /\ UNCHANGED <<pc, cut>> /\ yielded' = TRUE
<1>1. SliceOf(remaining) \in Nat /\ SliceOf(remaining) <= remaining /\ SliceOf(remaining) <= Slice
  BY DEF SliceOf, Smaller, TypeOK
<1>2. (\E time \in Overslept(SliceOf(remaining)) : Pass(time)) /\ ~cancelled
  BY DEF SleepSlice
<1>3. Clock' /\ Passed /\ now' <= now + SliceOf(remaining) + MaxOver
  BY <1>1, <1>2, SleepPasses
<1>4. now \in Nat /\ now' \in Nat /\ remaining \in Nat
  BY <1>3 DEF Clock, TypeOK
<1>5. remaining' = Left(deadline, now') /\ UNCHANGED <<pc, cut>> /\ yielded' = TRUE
  BY DEF SleepSlice
<1> QED
  BY <1>1, <1>2, <1>3, <1>4, <1>5

LEMMA DonePasses ==
  ASSUME TypeOK, SleepDone
  PROVE  /\ Clock' /\ Passed /\ yielded' \in BOOLEAN
         /\ now' <= now + IF driver.async THEN MaxOver ELSE 0
<1>1. CASE driver.async
  BY <1>1, SleepPasses DEF SleepDone, TypeOK
<1>2. CASE ~driver.async
  BY <1>2, TimePasses DEF SleepDone, TypeOK, Clock, Passed
<1>3. yielded' \in BOOLEAN
  BY DEF SleepDone, YieldsAlways, TypeOK
<1> QED
  BY <1>1, <1>2, <1>3 DEF SleepDone

\* The rest of Realtime!TypeOK.
Counts == ticks \in Nat /\ late \in Nat /\ calls \in Nat /\ taken \in Nat /\ delivered \in Nat /\ broken \in Nat
Schedule ==
  /\ deadline \in Nat /\ remaining \in Nat /\ delay \in Nat
  /\ total \in Nat /\ last_start \in Nat /\ sleep_start \in Nat
Flags ==
  /\ driver \in [async : BOOLEAN, predicate : BOOLEAN, policy : Policy]
  /\ pc \in {"top", "stepping", "delivering", "pacing", "sleeping", "returned", "raised"}
  /\ yielded \in BOOLEAN /\ ended \in BOOLEAN /\ cut \in BOOLEAN

LEMMA TypesInit == Init => TypeOK
<1> SUFFICES ASSUME Init PROVE TypeOK
  OBVIOUS
<1>1. Clock /\ Counts /\ Schedule
  <2>1. cancelled \in BOOLEAN
    BY Zenon DEF Init
  <2> QED
    BY <2>1 DEF Init, Clock, Counts, Schedule
<1>2. Flags
  BY Zenon DEF Init, Flags
<1> QED
  BY <1>1, <1>2 DEF TypeOK, Clock, Counts, Schedule, Flags

LEMMA TypesStep == TypeOK /\ [Next]_vars => TypeOK'
<1> SUFFICES ASSUME TypeOK, [Next]_vars PROVE TypeOK'
  OBVIOUS
<1>0. Clock /\ Counts /\ Schedule /\ Flags
  BY DEF TypeOK, Clock, Counts, Schedule, Flags
<1>1. CASE Stop
  BY <1>1 DEF Stop, TypeOK
<1>11. CASE Look
  <2>1. Clock'
    BY <1>11, LookPasses
  <2> QED
    BY <1>0, <1>11, <2>1 DEF TypeOK, Clock, Look, Counts, Schedule, Flags
<1>2. CASE Step
  <2>1. Clock'
    BY <1>2, BusyPasses DEF Step
  <2>2. Counts' /\ Schedule'
    <3>1. CASE /\ delay' \in Delay /\ ticks' = ticks + 1
               /\ taken' \in IF pc' = "pacing" THEN {taken} ELSE {taken + 1}
      BY <1>0, <1>2, <3>1 DEF Step, Counts, Schedule, Clock
    <3>2. CASE UNCHANGED <<delay, ticks, taken>>
      BY <1>0, <1>2, <3>2 DEF Step, Counts, Schedule, Clock
    <3> QED
      BY <1>2, <3>1, <3>2 DEF Step
  <2>3. Flags'
    BY <1>0, <1>2 DEF Step, AfterStep, Flags
  <2> QED
    BY <2>1, <2>2, <2>3 DEF TypeOK, Clock, Counts, Schedule, Flags
<1>3. CASE Deliver
  <2>1. Clock'
    BY <1>3, BusyPasses DEF Deliver
  <2>2. Counts' /\ Schedule'
    BY <1>0, <1>3 DEF Deliver, Counts, Schedule
  <2>3. Flags'
    BY <1>0, <1>3 DEF Deliver, Flags
  <2> QED
    BY <2>1, <2>2, <2>3 DEF TypeOK, Clock, Counts, Schedule, Flags
<1>4. CASE Pace
  <2>1. NextDeadline \in Nat /\ Left(NextDeadline, now) \in Nat
    <3>1. NextDeadline \in Nat /\ now \in Nat
      BY <1>0 DEF NextDeadline, Missed, Clock, Schedule
    <3> QED
      BY <3>1, LeftIsNatural
  <2>2. Clock' /\ Counts'
    BY <1>0, <1>4 DEF Pace, Clock, Counts
  <2>3. Schedule'
    BY <1>0, <1>4, <2>1 DEF Pace, Schedule, Clock
  <2>4. Flags'
    BY <1>0, <1>4 DEF Pace, AfterPacing, Flags
  <2> QED
    BY <2>2, <2>3, <2>4 DEF TypeOK, Clock, Counts, Schedule, Flags
<1>5. CASE SleepThrough
  <2>1. Clock' /\ yielded' \in BOOLEAN
    BY <1>5, ThroughPasses
  <2> QED
    BY <1>0, <1>5, <2>1 DEF TypeOK, Clock, SleepThrough, Counts, Schedule, Flags
<1>6. CASE SleepSlice
  <2>1. CASE pc' = "returned"
    BY <1>6, <2>1 DEF SleepSlice, TypeOK
  <2>2. CASE pc' # "returned"
    <3>1. Clock' /\ remaining' = Left(deadline, now') /\ UNCHANGED <<pc, cut>> /\ yielded' = TRUE
      BY <1>6, <2>2, SlicePasses
    <3>2. remaining' \in Nat
      BY <1>0, <3>1, LeftIsNatural DEF Clock, Schedule
    <3> QED
      BY <1>0, <1>6, <3>1, <3>2 DEF TypeOK, Clock, SleepSlice, Counts, Schedule, Flags
  <2> QED
    BY <2>1, <2>2
<1>7. CASE SleepDone
  <2>1. Clock' /\ yielded' \in BOOLEAN
    BY <1>7, DonePasses
  <2> QED
    BY <1>0, <1>7, <2>1 DEF TypeOK, Clock, SleepDone, Counts, Schedule, Flags
<1>8. CASE TaskCancelled
  <2>1. Clock' /\ Counts' /\ Schedule'
    BY <1>0, <1>8 DEF TaskCancelled, Clock, Counts, Schedule
  <2>2. Flags'
    BY <1>0, <1>8 DEF TaskCancelled, Flags
  <2> QED
    BY <2>1, <2>2 DEF TypeOK, Clock, Counts, Schedule, Flags
<1>9. CASE CallAgain
  <2>1. now' \in Nat
    BY <1>0, <1>9 DEF CallAgain, Clock
  <2>2. Clock' /\ Counts' /\ Schedule'
    <3>1. cancelled' \in BOOLEAN
      BY <1>9, Zenon DEF CallAgain
    <3> QED
      BY <1>0, <1>9, <2>1, <3>1 DEF CallAgain, Clock, Counts, Schedule
  <2>3. Flags'
    BY <1>0, <1>9 DEF CallAgain, Flags
  <2> QED
    BY <2>2, <2>3 DEF TypeOK, Clock, Counts, Schedule, Flags
<1>10. CASE UNCHANGED vars
  BY <1>10 DEF vars, TypeOK
<1> QED
  BY <1>1, <1>2, <1>3, <1>4, <1>5, <1>6, <1>7, <1>8, <1>9, <1>10, <1>11 DEF Next

\* Every variable keeps its type, whatever the delays, the host and the clock do.
THEOREM DriversAreWellTyped == Spec => []TypeOK
BY TypesInit, TypesStep, PTL DEF Spec

-----------------------------------------------------------------------------
(* The schedule. *)

Going == pc \in {"top", "stepping", "delivering", "pacing", "sleeping"}

\* While a call goes on, its deadline is where the delays put it, or later
\* after an overrun; a sleep has just what is left until then, and starts in
\* time unless the driver catches up.
ScheduleInv ==
  /\ Going => deadline >= total
  /\ Going /\ driver.policy # "delay" => deadline = total
  /\ pc \in {"top", "stepping"} => now >= deadline
  /\ pc = "sleeping" => now + remaining >= deadline
  /\ pc = "sleeping" /\ remaining > 0 => now + remaining = deadline
  /\ pc = "sleeping" /\ driver.policy # "catch_up" =>
       now <= deadline + IF driver.predicate THEN MaxOver ELSE 0
  /\ pc = "top" /\ driver.policy # "catch_up" => now <= deadline + Overshoot
  /\ pc = "stepping" /\ driver.policy # "catch_up" => now <= deadline + Slack

LEMMA SlackIsNatural ==
  /\ Overshoot \in Nat /\ Slack \in Nat
  /\ Slack = Overshoot + IF driver.predicate THEN MaxLag ELSE 0
  /\ ~driver.async => Overshoot = MaxOver
  /\ driver.async => Overshoot = MaxOver + MaxOver
BY DEF Slack, Overshoot

LEMMA ScheduleInit == Init => ScheduleInv
<1> SUFFICES ASSUME Init PROVE ScheduleInv
  OBVIOUS
<1>1. pc = "top" /\ now = 0 /\ deadline = 0 /\ total = 0
  BY DEF Init
<1> QED
  BY <1>1, SlackIsNatural DEF ScheduleInv, Going

LEMMA ScheduleStep == TypeOK /\ ScheduleInv /\ [Next]_vars => ScheduleInv'
<1> SUFFICES ASSUME TypeOK, ScheduleInv, [Next]_vars PROVE ScheduleInv'
  OBVIOUS
<1>0. TypeOK' /\ Overshoot \in Nat
  BY TypesStep, SlackIsNatural
<1>1. CASE Stop \/ TaskCancelled
  BY <1>1 DEF Stop, TaskCancelled, ScheduleInv, Going
<1>10. CASE Look
  <2>1. now' >= now /\ now' <= now + IF driver.predicate THEN MaxLag ELSE 0
    BY <1>10, LookPasses DEF Passed
  <2>2. pc = "top" /\ pc' = "stepping" /\ UNCHANGED <<driver, deadline, total>>
    BY <1>10 DEF Look
  <2>3. now' \in Nat /\ now \in Nat /\ deadline \in Nat
    BY <1>0 DEF TypeOK
  <2>4. Slack' = Slack
    BY <2>2 DEF Slack, Overshoot
  <2>5. driver.policy # "catch_up" => now' <= deadline + Slack
    BY <2>1, <2>2, <2>3, SlackIsNatural DEF ScheduleInv
  <2>6. now' >= deadline
    BY <2>1, <2>2, <2>3 DEF ScheduleInv
  <2> QED
    BY <2>2, <2>4, <2>5, <2>6 DEF ScheduleInv, Going
<1>2. CASE Step
  BY <1>2 DEF Step, AfterStep, ScheduleInv, Going
<1>3. CASE Deliver
  BY <1>3 DEF Deliver, ScheduleInv, Going
<1>4. CASE Pace
  <2>1. NextDeadline \in Nat /\ total' \in Nat /\ NextDeadline >= total'
    BY <1>4 DEF Pace, NextDeadline, Missed, ScheduleInv, TypeOK, Going
  <2>2. driver.policy # "delay" => NextDeadline = total'
    BY <1>4 DEF Pace, NextDeadline, ScheduleInv, TypeOK, Going
  <2>3. CASE pc' = "raised"
    BY <2>3 DEF ScheduleInv, Going
  <2>4. CASE pc' = "sleeping"
    <3>1. /\ deadline' = NextDeadline /\ remaining' = Left(NextDeadline, now)
          /\ ~(Missed /\ driver.policy = "error") /\ now' = now /\ driver' = driver
      BY <1>4, <2>4 DEF Pace
    <3>2. now \in Nat /\ deadline + delay \in Nat /\ driver.policy \in Policy
      BY DEF TypeOK
    <3>3. driver.policy # "catch_up" => now <= NextDeadline
      BY <3>1, <3>2 DEF NextDeadline, Missed, Policy
    <3>4. /\ remaining' \in Nat /\ now + remaining' >= NextDeadline
          /\ remaining' > 0 => now + remaining' = NextDeadline
      BY <2>1, <3>1, <3>2, LeftIsNatural
    <3> QED
      BY <2>1, <2>2, <2>4, <3>1, <3>2, <3>3, <3>4 DEF ScheduleInv, Going
  <2> QED
    BY <1>4, <2>3, <2>4 DEF Pace, AfterPacing
<1>5. CASE SleepThrough
  <2>1. now' >= now + remaining /\ now' <= now + remaining + MaxOver
    BY <1>5, ThroughPasses
  <2>2. /\ pc' = "top" /\ pc = "sleeping" /\ ~driver.predicate
        /\ UNCHANGED <<driver, deadline, total>>
    BY <1>5 DEF SleepThrough
  <2>3. now' \in Nat /\ now \in Nat /\ remaining \in Nat /\ deadline \in Nat
    BY <1>0 DEF TypeOK
  <2>4. now' >= deadline
    BY <2>1, <2>2, <2>3 DEF ScheduleInv
  <2>5. driver.policy # "catch_up" => now' <= deadline + Overshoot
    BY <2>1, <2>2, <2>3, SlackIsNatural DEF ScheduleInv
  <2> QED
    BY <2>2, <2>4, <2>5 DEF ScheduleInv, Going, Overshoot
<1>6. CASE SleepSlice
  <2>1. CASE pc' = "returned"
    BY <2>1 DEF ScheduleInv, Going
  <2>2. CASE pc' # "returned"
    <3>1. /\ pc = "sleeping" /\ driver.predicate /\ remaining > 0 /\ pc' = pc
          /\ UNCHANGED <<driver, deadline, total>>
      BY <1>6, <2>2 DEF SleepSlice
    <3>2. now' <= now + remaining + MaxOver /\ remaining' = Left(deadline, now')
      BY <1>6, <2>2, SlicePasses
    <3>3. now' \in Nat /\ now \in Nat /\ deadline \in Nat /\ remaining \in Nat
      BY <1>0 DEF TypeOK
    <3>4. /\ now' + remaining' >= deadline
          /\ remaining' > 0 => now' + remaining' = deadline
      BY <3>2, <3>3, LeftIsNatural
    <3> QED
      BY <3>1, <3>2, <3>3, <3>4 DEF ScheduleInv, Going
  <2> QED
    BY <2>1, <2>2
<1>7. CASE SleepDone
  <2>1. /\ pc = "sleeping" /\ remaining = 0 /\ pc' = "top" /\ driver.predicate
        /\ UNCHANGED <<driver, deadline, total>>
    BY <1>7 DEF SleepDone
  <2>2. now' >= now /\ now' <= now + IF driver.async THEN MaxOver ELSE 0
    BY <1>7, DonePasses DEF Passed
  <2>3. now' \in Nat /\ now \in Nat /\ deadline \in Nat
    BY <1>0 DEF TypeOK
  <2>4. driver.policy # "catch_up" => now' <= deadline + Overshoot
    BY <2>1, <2>2, <2>3, SlackIsNatural DEF ScheduleInv
  <2> QED
    BY <2>1, <2>2, <2>3, <2>4 DEF ScheduleInv, Going, Overshoot
<1>8. CASE CallAgain
  <2>1. pc' = "top" /\ deadline' = now' /\ total' = now' /\ driver' = driver /\ now' \in Nat
    BY <1>0, <1>8 DEF CallAgain, TypeOK
  <2>2. Overshoot' = Overshoot
    BY <2>1 DEF Overshoot
  <2>3. now' >= now' /\ now' <= now' + Overshoot
    BY <1>0, <2>1, SumIsLarger
  <2> QED
    BY <2>1, <2>2, <2>3 DEF ScheduleInv, Going
<1>9. CASE UNCHANGED vars
  BY <1>9 DEF vars, ScheduleInv, Going, Slack, Overshoot
<1> QED
  BY <1>1, <1>2, <1>3, <1>4, <1>5, <1>6, <1>7, <1>8, <1>9, <1>10 DEF Next

\* No step starts before the delays of the steps before it are over, and only
\* "delay" ever drifts from their sum (realtime.py:26-33).
THEOREM NoStepIsEarly == Spec => []NeverAheadOfSchedule
<1>1. ScheduleInv => NeverAheadOfSchedule
  BY DEF ScheduleInv, NeverAheadOfSchedule, Going
<1> QED
  BY <1>1, TypesInit, TypesStep, ScheduleInit, ScheduleStep, PTL DEF Spec

\* Unless the driver catches up, a step starts at most the slack of its sleep
\* late, however long the steps before it took (realtime.py:28-32).
THEOREM LatenessDoesNotAccumulate == Spec => []LatenessIsBounded
<1>1. ScheduleInv => LatenessIsBounded
  BY DEF ScheduleInv, LatenessIsBounded
<1> QED
  BY <1>1, TypesInit, TypesStep, ScheduleInit, ScheduleStep, PTL DEF Spec

-----------------------------------------------------------------------------
(* Steps are a delay apart, also from one call to the next. *)

\* With "delay", a deadline is never more than a delay less the slack after
\* the step before it; a call that ends in peace has slept to its deadline.
BurstInv ==
  driver.policy = "delay" /\ ~cut =>
    /\ pc # "raised"
    /\ pc \in {"delivering", "pacing"} => deadline >= last_start - Slack
    /\ pc = "sleeping" => deadline >= last_start + delay - Slack
    /\ pc \in {"top", "stepping", "returned"} => now >= last_start + delay - Slack

LEMMA BurstInit == Init => BurstInv
BY DEF Init, BurstInv

LEMMA BurstStep == TypeOK /\ ScheduleInv /\ BurstInv /\ [Next]_vars => BurstInv'
<1> SUFFICES ASSUME TypeOK, ScheduleInv, BurstInv, [Next]_vars,
                    driver'.policy = "delay", ~cut'
             PROVE  /\ pc' # "raised"
                    /\ pc' \in {"delivering", "pacing"} => deadline' >= last_start' - Slack'
                    /\ pc' = "sleeping" => deadline' >= last_start' + delay' - Slack'
                    /\ pc' \in {"top", "stepping", "returned"} => now' >= last_start' + delay' - Slack'
  BY DEF BurstInv
<1>0. /\ driver' = driver /\ Slack' = Slack /\ Slack \in Nat
      /\ now \in Nat /\ deadline \in Nat /\ delay \in Nat /\ last_start \in Nat
      /\ now' \in Nat /\ deadline' \in Nat /\ delay' \in Nat /\ last_start' \in Nat
  <2>1. driver' = driver
    BY DEF Next, Stop, Look, Step, Deliver, Pace, SleepThrough, SleepSlice, SleepDone, TaskCancelled, CallAgain, vars
  <2> QED
    BY <2>1, TypesStep, SlackIsNatural DEF TypeOK, Slack, Overshoot
<1>1. CASE Stop
  BY <1>0, <1>1 DEF Stop, BurstInv
<1>10. CASE Look
  <2>1. now' >= now
    BY <1>10, LookPasses DEF Passed
  <2>2. now >= last_start + delay - Slack
    BY <1>0, <1>10 DEF Look, BurstInv
  <2>3. pc' = "stepping" /\ UNCHANGED <<delay, last_start>>
    BY <1>10 DEF Look
  <2> QED
    BY <1>0, <2>1, <2>2, <2>3
<1>2. CASE Step
  <2>1. pc = "stepping" /\ last_start' = now /\ deadline' = deadline /\ pc' \in {"delivering", "pacing"}
    BY <1>2 DEF Step, AfterStep
  <2>2. now <= deadline + Slack
    BY <1>0, <2>1 DEF ScheduleInv
  <2>3. deadline >= now - Slack
    BY <1>0, <2>2
  <2> QED
    BY <1>0, <2>1, <2>3
<1>3. CASE Deliver
  BY <1>0, <1>3 DEF Deliver, BurstInv
<1>4. CASE Pace
  <2>1. /\ pc = "pacing" /\ pc' = "sleeping" /\ ~cut
        /\ UNCHANGED <<delay, last_start>> /\ deadline' = NextDeadline
    BY <1>4 DEF Pace, AfterPacing
  <2>2. deadline' >= deadline + delay
    BY <1>0, <2>1 DEF NextDeadline, Missed
  <2>3. deadline >= last_start - Slack
    BY <1>0, <2>1 DEF BurstInv
  <2> QED
    BY <1>0, <2>1, <2>2, <2>3
<1>5. CASE SleepThrough \/ SleepDone
  <2>1. /\ pc = "sleeping" /\ pc' = "top" /\ ~cut
        /\ UNCHANGED <<deadline, delay, last_start>>
    BY <1>5 DEF SleepThrough, SleepDone
  <2>2. now' >= deadline
    BY <2>1, ScheduleStep DEF ScheduleInv
  <2>3. deadline >= last_start + delay - Slack
    BY <1>0, <2>1 DEF BurstInv
  <2> QED
    BY <1>0, <2>1, <2>2, <2>3
<1>6. CASE SleepSlice
  BY <1>0, <1>6 DEF SleepSlice, BurstInv
<1>7. CASE TaskCancelled
  BY <1>7 DEF TaskCancelled
<1>8. CASE CallAgain
  BY <1>0, <1>8 DEF CallAgain, BurstInv
<1>9. CASE UNCHANGED vars
  BY <1>0, <1>9 DEF vars, BurstInv
<1> QED
  BY <1>1, <1>2, <1>3, <1>4, <1>5, <1>6, <1>7, <1>8, <1>9, <1>10 DEF Next

\* With "delay", steps are a delay apart less the slack of a sleep, after any
\* overrun and from one call to the next (realtime.py:31-32).
THEOREM StepsComeInNoBursts == Spec => []NoBursts
<1>1. TypeOK /\ BurstInv => NoBursts
  <2> SUFFICES ASSUME TypeOK, BurstInv, pc = "stepping", ~cut, driver.policy = "delay"
               PROVE  now - last_start >= delay - Slack
    BY DEF NoBursts
  <2>1. now >= last_start + delay - Slack
    BY DEF BurstInv
  <2>2. now \in Nat /\ last_start \in Nat /\ delay \in Nat /\ Slack \in Nat
    BY SlackIsNatural DEF TypeOK
  <2> QED
    BY <2>1, <2>2
<1> QED
  BY <1>1, TypesInit, TypesStep, ScheduleInit, ScheduleStep, BurstInit, BurstStep, PTL DEF Spec

-----------------------------------------------------------------------------
(* Cancellation. *)

\* A predicate that is true has turned so in the past; during a sleep, since
\* the last look at it, or before the sleep began.
CancelInv ==
  /\ cancelled => cancelled_at <= now
  /\ sleep_start <= now
  /\ CancelEndsSleep

LEMMA CancelInit == Init => CancelInv
BY DEF Init, CancelInv, CancelEndsSleep

\* Time that passes outside a sleep.
LEMMA CancelledInThePast ==
  ASSUME TypeOK, TypeOK', CancelInv, Passed, pc' # "sleeping", sleep_start' = sleep_start
  PROVE  CancelInv'
<1>1. now' >= now /\ now \in Nat /\ now' \in Nat /\ cancelled_at \in Nat /\ sleep_start \in Nat
  BY DEF Passed, TypeOK
<1>2. cancelled' => cancelled_at' <= now'
  <2>1. CASE UNCHANGED <<cancelled, cancelled_at>>
    <3>1. cancelled => cancelled_at <= now'
      BY <1>1 DEF CancelInv
    <3> QED
      BY <2>1, <3>1
  <2>2. CASE cancelled_at' \in now..now'
    BY <1>1, <2>2
  <2> QED
    BY <2>1, <2>2 DEF Passed, Noticed
<1>3. sleep_start' <= now'
  BY <1>1 DEF CancelInv
<1> QED
  BY <1>2, <1>3 DEF CancelInv, CancelEndsSleep

LEMMA CancelStep == TypeOK /\ CancelInv /\ [Next]_vars => CancelInv'
<1> SUFFICES ASSUME TypeOK, CancelInv, [Next]_vars PROVE CancelInv'
  OBVIOUS
<1>0. TypeOK'
  BY TypesStep
<1>1. CASE Stop \/ TaskCancelled
  BY <1>1 DEF Stop, TaskCancelled, CancelInv, CancelEndsSleep
<1>10. CASE Look
  BY <1>0, <1>10, LookPasses, CancelledInThePast DEF Look
<1>2. CASE Step
  BY <1>0, <1>2, BusyPasses, CancelledInThePast DEF Step, AfterStep
<1>3. CASE Deliver
  BY <1>0, <1>3, BusyPasses, CancelledInThePast DEF Deliver
<1>4. CASE Pace
  <2>1. UNCHANGED <<now, cancelled, cancelled_at>>
    BY <1>4 DEF Pace
  <2>2. now \in Nat /\ cancelled_at \in Nat
    BY DEF TypeOK
  <2>3. CASE sleep_start' = now
    BY <2>1, <2>2, <2>3 DEF CancelInv, CancelEndsSleep
  <2>4. CASE sleep_start' = sleep_start /\ pc' = "raised"
    BY <2>1, <2>2, <2>4 DEF CancelInv, CancelEndsSleep
  <2>5. sleep_start' = now \/ (sleep_start' = sleep_start /\ pc' = "raised")
    BY <1>4 DEF Pace
  <2> QED
    BY <2>3, <2>4, <2>5
<1>5. CASE SleepThrough
  BY <1>0, <1>5, ThroughPasses, CancelledInThePast DEF SleepThrough
<1>6. CASE SleepSlice
  <2>1. CASE pc' = "returned"
    <3>1. UNCHANGED <<now, cancelled, cancelled_at, sleep_start>>
      BY <1>6, <2>1 DEF SleepSlice
    <3> QED
      BY <2>1, <3>1 DEF CancelInv, CancelEndsSleep
  <2>2. CASE pc' # "returned"
    <3>1. ~cancelled /\ Passed /\ now' <= now + Slice + MaxOver
      BY <1>6, <2>2, SlicePasses
    <3>2. sleep_start' = sleep_start /\ sleep_start <= now
      BY <1>6 DEF SleepSlice, CancelInv
    <3>3. /\ now \in Nat /\ now' \in Nat /\ now' >= now /\ sleep_start \in Nat
          /\ cancelled_at \in Nat /\ cancelled_at' \in Nat
      BY <1>0, <3>1 DEF TypeOK, Passed
    <3>4. cancelled' => cancelled_at' \in now..now'
      BY <3>1 DEF Passed, Noticed
    <3>5. cancelled' => cancelled_at' <= now' /\ now' - cancelled_at' <= Slice + MaxOver
      <4> SUFFICES ASSUME cancelled'
                   PROVE  cancelled_at' <= now' /\ now' - cancelled_at' <= Slice + MaxOver
        OBVIOUS
      <4>1. cancelled_at' >= now /\ cancelled_at' <= now'
        BY <3>3, <3>4
      <4>2. Slice \in Nat /\ now <= cancelled_at'
        BY <3>3, <4>1
      <4> QED
        BY <3>1, <3>3, <4>1, <4>2, Within
    <3>6. sleep_start' <= now'
      BY <3>2, <3>3
    <3> QED
      BY <3>5, <3>6 DEF CancelInv, CancelEndsSleep
  <2> QED
    BY <2>1, <2>2
<1>7. CASE SleepDone
  BY <1>0, <1>7, DonePasses, CancelledInThePast DEF SleepDone
<1>8. CASE CallAgain
  <2>1. ~cancelled' /\ sleep_start' = sleep_start /\ now' >= now
    BY <1>8 DEF CallAgain, TypeOK
  <2>2. now \in Nat /\ now' \in Nat /\ sleep_start \in Nat
    BY <1>0 DEF TypeOK
  <2> QED
    BY <2>1, <2>2 DEF CancelInv, CancelEndsSleep
<1>9. CASE UNCHANGED vars
  BY <1>9 DEF vars, CancelInv, CancelEndsSleep
<1> QED
  BY <1>1, <1>2, <1>3, <1>4, <1>5, <1>6, <1>7, <1>8, <1>9, <1>10 DEF Next

\* A predicate that turns true during a sleep ends it within a slice and what
\* the slice overslept, however long the delay (realtime.py:70-74).
THEOREM CancellationIsNoticed == Spec => []CancelEndsSleep
<1>1. CancelInv => CancelEndsSleep
  BY DEF CancelInv
<1> QED
  BY <1>1, TypesInit, TypesStep, CancelInit, CancelStep, PTL DEF Spec

LEMMA LongestUnseenIsLonger ==
  /\ LongestUnseen \in Nat /\ MaxLag + 2 * MaxBusy \in Nat
  /\ MaxLag + MaxBusy + MaxBusy <= LongestUnseen
  /\ Slice + MaxOver <= LongestUnseen
BY DEF LongestUnseen, Larger

LEMMA Sums ==
  /\ MaxLag \in Nat /\ MaxBusy \in Nat /\ MaxOver \in Nat
  /\ (MaxLag + MaxBusy) \in Nat /\ (MaxLag + MaxBusy + MaxBusy) \in Nat
  /\ (LongestUnseen + MaxOver) \in Nat
  /\ MaxLag + MaxBusy <= MaxLag + MaxBusy
  /\ MaxLag + MaxBusy <= MaxLag + MaxBusy + MaxBusy
  /\ (MaxLag + MaxBusy) + MaxBusy <= MaxLag + MaxBusy + MaxBusy
  /\ LongestUnseen + MaxOver <= LongestUnseen + MaxOver
<1>1. MaxLag \in Nat /\ MaxBusy \in Nat /\ MaxOver \in Nat
  BY DriverAssumption
<1> QED
  BY <1>1, LongestUnseenIsLonger

LEMMA Later ==
  ASSUME NEW x \in Nat, NEW y \in Nat, NEW at \in Nat, NEW b \in Nat, NEW more \in Nat, NEW c \in Nat,
         b + more <= c, x <= at + b, y <= x + more
  PROVE  y <= at + c
OBVIOUS

LEMMA AtLeast ==
  ASSUME NEW x \in Nat, NEW y \in Nat, NEW at \in x..y, NEW b \in Nat
  PROVE  x <= at + b
OBVIOUS

\* What has turned true while some time passed was not true before that.
LEMMA JustTurned ==
  ASSUME TypeOK, TypeOK', Passed, NEW more \in Nat, cancelled_at' \in now..now', now' <= now + more
  PROVE  now' <= cancelled_at' + more
<1>1. now \in Nat /\ now' \in Nat /\ cancelled_at' \in Nat
  BY DEF TypeOK
<1>2. 0 \in Nat /\ 0 + more <= more
  OBVIOUS
<1>3. now <= cancelled_at' + 0
  BY <1>1, <1>2, AtLeast
<1> QED
  BY <1>1, <1>2, <1>3, Later

\* What was true for no longer than b is, some time later, true for no longer
\* than b and that time.
LEMMA TrueForLonger ==
  ASSUME TypeOK, TypeOK', Passed, NEW b \in Nat, NEW more \in Nat, NEW c \in Nat, b + more <= c,
         cancelled => now <= cancelled_at + b, now' <= now + more
  PROVE  cancelled' => now' <= cancelled_at' + c
<1>1. now \in Nat /\ now' \in Nat /\ cancelled_at \in Nat /\ cancelled_at' \in Nat
  BY DEF TypeOK
<1>2. CASE UNCHANGED <<cancelled, cancelled_at>>
  <2>1. ASSUME cancelled PROVE now' <= cancelled_at + c
    BY <1>1, <2>1, Later
  <2> QED
    BY <1>2, <2>1, Zenon
<1>3. CASE cancelled_at' \in now..now'
  <2>1. now <= cancelled_at' + b
    BY <1>1, <1>3, AtLeast
  <2> QED
    BY <1>1, <2>1, Later
<1> QED
  BY <1>2, <1>3 DEF Passed, Noticed

\* For how long the predicate may have been true without being looked at, at each
\* place of the driver's loop, and how many steps have started by then.
UnseenInv ==
  /\ cancelled => driver.predicate
  /\ late > 0 => cancelled /\ late = 1
  /\ pc = "stepping" => late = 0
  /\ pc = "stepping" /\ cancelled => now <= cancelled_at + MaxLag
  /\ pc = "delivering" /\ cancelled => now <= cancelled_at + (MaxLag + MaxBusy)
  /\ pc = "pacing" /\ cancelled => now <= cancelled_at + (MaxLag + MaxBusy + MaxBusy)
  /\ pc = "sleeping" /\ cancelled => now <= cancelled_at + LongestUnseen
  /\ pc = "top" /\ cancelled => now <= cancelled_at + (LongestUnseen + MaxOver)

LEMMA UnseenInit == Init => UnseenInv
BY DEF Init, UnseenInv

LEMMA UnseenStep == TypeOK /\ UnseenInv /\ [Next]_vars => UnseenInv'
<1> SUFFICES ASSUME TypeOK, UnseenInv, [Next]_vars PROVE UnseenInv'
  OBVIOUS
<1>0. /\ TypeOK'
      /\ now \in Nat /\ now' \in Nat /\ late \in Nat /\ cancelled_at \in Nat /\ cancelled_at' \in Nat
      /\ LongestUnseen \in Nat
  BY TypesStep, LongestUnseenIsLonger DEF TypeOK
<1>1. CASE Stop \/ TaskCancelled
  BY <1>1 DEF Stop, TaskCancelled, UnseenInv
<1>2. CASE Look
  <2>1. pc = "top" /\ ~cancelled /\ pc' = "stepping" /\ UNCHANGED <<driver, late>>
    BY <1>2 DEF Look, MayStep
  <2>2. Passed /\ now' <= now + MaxLag
    BY <1>0, <1>2, LookPasses
  <2>3. late = 0
    BY <1>0, <2>1 DEF UnseenInv
  <2>4. cancelled' => now' <= cancelled_at' + MaxLag
    BY <1>0, <2>1, <2>2, JustTurned DEF Passed, Noticed
  <2>5. cancelled' => driver'.predicate
    BY <2>1, <2>2 DEF Passed, Noticed
  <2> QED
    BY <2>1, <2>3, <2>4, <2>5 DEF UnseenInv
<1>3. CASE Step
  <2>1. /\ pc = "stepping" /\ pc' \in {"delivering", "pacing", "returned", "raised"} /\ driver' = driver
        /\ late' = IF cancelled THEN late + 1 ELSE late
    BY <1>3 DEF Step, AfterStep
  <2>2. PICK busy \in 0..MaxBusy : Pass(busy)
    BY <1>3 DEF Step
  <2>3. Passed /\ now' <= now + MaxBusy
    BY <1>0, <2>2, BusyPasses, TimePasses
  <2>4. cancelled' => now' <= cancelled_at' + (MaxLag + MaxBusy)
    <3>1. cancelled => now <= cancelled_at + MaxLag
      BY <2>1 DEF UnseenInv
    <3> QED
      BY <1>0, <2>3, <3>1, Sums, TrueForLonger
  <2>5. /\ cancelled => cancelled'
        /\ cancelled' => driver'.predicate
    BY <2>1, <2>3 DEF Passed, Noticed, UnseenInv
  <2>6. late' > 0 => cancelled /\ late' = 1
    BY <1>0, <2>1 DEF UnseenInv
  <2>7. cancelled' => now' <= cancelled_at' + (MaxLag + MaxBusy + MaxBusy)
    <3>1. cancelled => now <= cancelled_at + MaxLag
      BY <2>1 DEF UnseenInv
    <3> QED
      BY <1>0, <2>3, <3>1, Sums, TrueForLonger
  <2> QED
    BY <2>1, <2>4, <2>5, <2>6, <2>7 DEF UnseenInv
<1>4. CASE Deliver
  <2>1. pc = "delivering" /\ pc' \in {"pacing", "raised"} /\ UNCHANGED <<driver, late>>
    BY <1>4 DEF Deliver
  <2>2. PICK busy \in 0..MaxBusy : Pass(busy)
    BY <1>4 DEF Deliver
  <2>3. Passed /\ now' <= now + MaxBusy
    BY <1>0, <2>2, BusyPasses, TimePasses
  <2>4. cancelled' => now' <= cancelled_at' + (MaxLag + MaxBusy + MaxBusy)
    <3>1. cancelled => now <= cancelled_at + (MaxLag + MaxBusy)
      BY <1>0, <2>1 DEF UnseenInv
    <3> QED
      BY <1>0, <2>3, <3>1, Sums, TrueForLonger
  <2>5. /\ cancelled => cancelled'
        /\ cancelled' => driver'.predicate
    BY <2>1, <2>3 DEF Passed, Noticed, UnseenInv
  <2> QED
    BY <2>1, <2>4, <2>5 DEF UnseenInv
<1>5. CASE Pace
  <2>1. /\ pc = "pacing" /\ pc' \in {"sleeping", "raised"}
        /\ UNCHANGED <<driver, late, now, cancelled, cancelled_at>>
    BY <1>5 DEF Pace, AfterPacing
  <2>2. cancelled => now <= cancelled_at + LongestUnseen
    BY <1>0, <2>1, LongestUnseenIsLonger DEF UnseenInv
  <2> QED
    BY <2>1, <2>2 DEF UnseenInv
<1>6. CASE SleepThrough
  <2>1. ~driver.predicate /\ pc' = "top" /\ UNCHANGED <<driver, late>>
    BY <1>6 DEF SleepThrough
  <2>2. ~cancelled /\ Noticed
    BY <1>6, <2>1, ThroughPasses DEF Passed, UnseenInv
  <2>3. ~cancelled'
    BY <2>1, <2>2, Zenon DEF Noticed
  <2>4. late <= 0
    BY <1>0, <2>2 DEF UnseenInv
  <2> QED
    BY <1>0, <2>1, <2>3, <2>4 DEF UnseenInv
<1>7. CASE SleepSlice
  <2>1. driver' = driver /\ late' = late /\ pc = "sleeping"
    BY <1>7 DEF SleepSlice
  <2>2. CASE pc' = "returned"
    <3>1. UNCHANGED <<now, cancelled, cancelled_at>>
      BY <1>7, <2>2 DEF SleepSlice
    <3> QED
      BY <2>1, <2>2, <3>1 DEF UnseenInv
  <2>3. CASE pc' # "returned"
    <3>1. ~cancelled /\ Passed /\ now' <= now + (Slice + MaxOver) /\ pc' = pc
      BY <1>0, <1>7, <2>3, SlicePasses
    <3>2. now' <= now + LongestUnseen
      BY <1>0, <3>1, LongestUnseenIsLonger
    <3>3. cancelled' => now' <= cancelled_at' + LongestUnseen
      BY <1>0, <3>1, <3>2, JustTurned DEF Passed, Noticed
    <3>4. cancelled' => driver'.predicate
      BY <2>1, <3>1 DEF Passed, Noticed
    <3> QED
      BY <2>1, <3>1, <3>3, <3>4 DEF UnseenInv
  <2> QED
    BY <2>2, <2>3
<1>8. CASE SleepDone
  <2>1. pc = "sleeping" /\ pc' = "top" /\ driver' = driver /\ late' = late
    BY <1>8 DEF SleepDone
  <2>2. Passed /\ now' <= now + MaxOver
    BY <1>0, <1>8, DonePasses
  <2>3. cancelled' => now' <= cancelled_at' + (LongestUnseen + MaxOver)
    <3>1. cancelled => now <= cancelled_at + LongestUnseen
      BY <2>1 DEF UnseenInv
    <3> QED
      BY <1>0, <2>2, <3>1, Sums, TrueForLonger
  <2>4. /\ cancelled => cancelled'
        /\ cancelled' => driver'.predicate
    BY <2>1, <2>2 DEF Passed, Noticed, UnseenInv
  <2> QED
    BY <2>1, <2>3, <2>4 DEF UnseenInv
<1>9. CASE CallAgain
  BY <1>9 DEF CallAgain, UnseenInv
<1>10. CASE UNCHANGED vars
  BY <1>10 DEF vars, UnseenInv
<1> QED
  BY <1>1, <1>2, <1>3, <1>4, <1>5, <1>6, <1>7, <1>8, <1>9, <1>10 DEF Next

\* Whenever the predicate turns true, at most one step starts afterwards, and
\* the call ends with that step, its callback or the slice of sleep, for any
\* delays and any lateness (realtime.py:56-58, realtime.py:70-74).
THEOREM CancellationEndsTheCall == Spec => []CancelEndsCall
<1>1. TypeOK /\ CancelInv /\ UnseenInv => CancelEndsCall
  <2> SUFFICES ASSUME TypeOK, CancelInv, UnseenInv
               PROVE  /\ late <= 1
                      /\ cancelled /\ pc \notin {"returned", "raised"} =>
                           now - cancelled_at <= LongestUnseen + MaxOver
    BY DEF CancelEndsCall
  <2>1. /\ late \in Nat /\ now \in Nat /\ cancelled_at \in Nat /\ LongestUnseen \in Nat
        /\ pc \in {"top", "stepping", "delivering", "pacing", "sleeping", "returned", "raised"}
    BY LongestUnseenIsLonger DEF TypeOK
  <2>2. late <= 1
    BY <2>1 DEF UnseenInv
  <2>3. cancelled /\ pc \notin {"returned", "raised"} => now <= cancelled_at + (LongestUnseen + MaxOver)
    BY <2>1, LongestUnseenIsLonger DEF UnseenInv
  <2> QED
    BY <2>1, <2>2, <2>3
<1> QED
  BY <1>1, TypesInit, TypesStep, CancelInit, CancelStep, UnseenInit, UnseenStep, PTL DEF Spec

-----------------------------------------------------------------------------
(* Messages, and other tasks. *)

LEMMA NoneIsLostAtFirst == Init => NoMessageIsLost
BY DEF Init, NoMessageIsLost

LEMMA NoneIsLostByStep == TypeOK /\ NoMessageIsLost /\ [Next]_vars => NoMessageIsLost'
<1> SUFFICES ASSUME TypeOK, NoMessageIsLost, [Next]_vars PROVE NoMessageIsLost'
  OBVIOUS
<1>0. calls \in Nat /\ taken \in Nat /\ delivered \in Nat /\ broken \in Nat
  BY DEF TypeOK
<1>1. CASE Stop \/ Look \/ Pace \/ SleepThrough \/ SleepSlice \/ SleepDone
  BY <1>0, <1>1 DEF Stop, Look, Pace, AfterPacing, SleepThrough, SleepSlice, SleepDone, NoMessageIsLost
<1>2. CASE Step
  BY <1>0, <1>2 DEF Step, AfterStep, NoMessageIsLost
<1>3. CASE Deliver
  BY <1>0, <1>3 DEF Deliver, NoMessageIsLost
<1>4. CASE TaskCancelled
  BY <1>0, <1>4 DEF TaskCancelled, NoMessageIsLost
<1>5. CASE CallAgain
  BY <1>0, <1>5 DEF CallAgain, NoMessageIsLost
<1>6. CASE UNCHANGED vars
  BY <1>6 DEF vars, NoMessageIsLost
<1> QED
  BY <1>1, <1>2, <1>3, <1>4, <1>5, <1>6 DEF Next

\* However often the host drives a run, and however its calls end, every
\* message the run gives is delivered, but for those whose own callback raised
\* or was cancelled: at most one in a call (realtime.py:58-63).
THEOREM MessagesAreDelivered == Spec => []NoMessageIsLost
BY TypesInit, TypesStep, NoneIsLostAtFirst, NoneIsLostByStep, PTL DEF Spec

YieldInv == driver.async /\ pc \in {"top", "stepping"} /\ ticks > 0 => yielded

LEMMA YieldStep == YieldInv /\ [Next]_vars => YieldInv'
<1> SUFFICES ASSUME YieldInv, [Next]_vars, driver'.async, pc' \in {"top", "stepping"}, ticks' > 0
             PROVE  yielded'
  BY DEF YieldInv
<1>1. CASE SleepThrough \/ SleepDone
  BY <1>1 DEF SleepThrough, SleepDone, YieldsAlways
<1>2. CASE UNCHANGED vars
  BY <1>2 DEF vars, YieldInv
<1>4. CASE Look
  BY <1>4 DEF Look, YieldInv
<1>3. ~(Stop \/ Step \/ Deliver \/ Pace \/ SleepSlice \/ TaskCancelled \/ CallAgain)
  <2>1. ~(Stop \/ Step \/ Deliver \/ Pace)
    BY DEF Stop, Step, AfterStep, Deliver, Pace, AfterPacing
  <2>2. ~(SleepSlice \/ TaskCancelled \/ CallAgain)
    BY DEF SleepSlice, TaskCancelled, CallAgain
  <2> QED
    BY <2>1, <2>2
<1> QED
  BY <1>1, <1>2, <1>3, <1>4 DEF Next

\* run_async lets other tasks run between any two steps (realtime.py:107-115).
THEOREM AsyncDriversYield == Spec => AsyncYieldsBetweenSteps
<1>1. Init => YieldInv
  BY DEF Init, YieldInv
<1>2. TypeOK /\ YieldInv /\ [Next]_vars =>
        [ticks' > ticks /\ driver.async /\ ticks > 0 => yielded]_vars
  <2> SUFFICES ASSUME TypeOK, YieldInv, Next, ticks' > ticks, driver.async, ticks > 0 PROVE yielded
    BY DEF vars
  <2>1. ticks' # ticks /\ ticks' # 0
    BY DEF TypeOK
  <2>2. Step
    BY <2>1 DEF Next, Stop, Look, Deliver, Pace, SleepThrough, SleepSlice, SleepDone, TaskCancelled, CallAgain
  <2> QED
    BY <2>2 DEF Step, YieldInv
<1> QED
  BY <1>1, <1>2, YieldStep, TypesInit, TypesStep, PTL DEF Spec, AsyncYieldsBetweenSteps
=============================================================================
