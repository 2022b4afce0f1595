------------------------- MODULE RunHistory_proofs -------------------------
(***************************************************************************)
(* For every set of compiled scripts: the results a host is given are one  *)
(* gapless timeline; on a clock that adds exactly, every visit to a send   *)
(* lasts just as long as the script says; and what is published is what    *)
(* the script's author wrote.                                              *)
(***************************************************************************)
EXTENDS RunHistory, ScriptRun_proofs, MessageHistory_proofs

TraceEntry ==
  [kind : {"send", "wait"}, at : Nat, fresh : BOOLEAN, delay : Nat, timestamp : Nat,
   sequence : Nat, duration : Int]

\* The timeline so far, and the time at which it goes on.
TimelineInv ==
  /\ trace \in Seq(TraceEntry)
  /\ master_t \in Time /\ send_duration \in Int
  /\ sequence = Len(trace)
  /\ ResultsAreATimeline
  /\ master_t = IF trace = <<>> THEN 0
                ELSE FloatAdd(trace[Len(trace)].timestamp, trace[Len(trace)].delay)

-----------------------------------------------------------------------------
(* Steps that hand back a message or a wait, and the others. *)

LEMMA FieldsTakeNoTime ==
  ASSUME NEW p, NEW v, ApplyStatic(p, v) \/ ApplyFill(p, v) \/ ApplyLive(p, v)
  PROVE  UNCHANGED <<halted, master_t>>
BY DEF ApplyStatic, WriteValue, ApplyFill, ApplyLive, clockVars

\* A step that hands back nothing: neither the clock nor the send in progress
\* moves, unless the run ends.
Quiet ==
  /\ UNCHANGED <<master_t, sequence, program>>
  /\ halted' \/ UNCHANGED <<send_ip, send_ticks_done, send_period, send_duration>>

LEMMA OtherStepsAreQuiet ==
  ASSUME RunNext, ~DoSendTick, ~DoWaitTick
  PROVE  Quiet
<1>1. CASE CallStep \/ CallAfterEnd
  BY <1>1 DEF CallStep, CallAfterEnd, Quiet, messageVars, clockVars, hostVars, sendVars
<1>2. CASE \/ ExecLoopValue \/ ExecClearVar \/ ExecSetVar \/ ExecSetVarIndex \/ ExecSeed
           \/ ExecCreateTimer \/ ExecResetTimer \/ ExecJump \/ ExecJumpIfFalse \/ ExecSetField
  BY <1>2 DEF ExecLoopValue, ExecClearVar, ExecSetVar, ExecSetVarIndex, ExecSeed, ExecCreateTimer,
     CreateTimer, ExecResetTimer, ResetTimer, ExecJump, ExecJumpIfFalse, ExecSetField, Instant,
     ReadFor, Quiet, clockVars, hostVars, sendVars, resultVars
<1>3. CASE ApplyPending
  <2>1. UNCHANGED <<halted, master_t>>
    BY <1>3, FieldsTakeNoTime DEF ApplyPending
  <2> QED
    BY <1>3, <2>1 DEF ApplyPending, Quiet, hostVars, sendVars, resultVars
<1>4. CASE PendingRaises
  BY <1>4 DEF PendingRaises, FieldRaises, Quiet, hostVars
<1>5. CASE RunOff \/ InstantRaises \/ BudgetExceeded \/ SendRaises \/ WaitRaises
  BY <1>5 DEF RunOff, InstantRaises, BudgetExceeded, Fails, SendRaises, PublishRaises, WaitRaises,
     Quiet, hostVars
<1> QED
  BY <1>1, <1>2, <1>3, <1>4, <1>5 DEF RunNext, Stepping

\* What a tick of a send, or a wait, puts at the end of the timeline.
LEMMA Yielding ==
  ASSUME RunInv, TimelineInv, HNext, DoSendTick \/ DoWaitTick
  PROVE  /\ sequence' = sequence + 1 /\ master_t' \in Time
         /\ Yield \in TraceEntry /\ trace' = Append(trace, Yield)
         /\ Yield.at = ip /\ Yield.fresh = (executed > 0)
         /\ Yield.timestamp = master_t /\ Yield.sequence = sequence
         /\ master_t' = FloatAdd(master_t, Yield.delay)
         /\ send_duration' \in Int
         /\ Yield.kind = "send" <=> DoSendTick
<1>1. sequence \in Nat /\ master_t \in Nat /\ ip \in Nat
  BY ClockAssumption DEF TimelineInv, Time, RunInv, PlaceInv
<1>2. sequence' = sequence + 1
  BY DEF DoSendTick, DoWaitTick
<1>3. trace' = Append(trace, Yield)
  BY <1>1, <1>2 DEF HNext, Yields
<1>4. ASSUME NEW d \in Delay, Advance(d) PROVE master_t' \in Time /\ d \in Nat
  BY <1>4, ClockAssumption DEF Advance, CanAdvance, Time, TimelineInv
<1>5. CASE DoSendTick
  <2>1. PICK period \in IF Entering THEN Periods ELSE {send_period},
             duration \in IF Entering THEN Durations ELSE {send_duration} :
          /\ period \in Delay /\ Publish(period, ScheduleReads)
          /\ send_duration' = duration
          /\ result' = Outcome("send", period, master_t, sequence)
    BY <1>5 DEF DoSendTick, Return
  <2>2. duration \in Int
    <3>1. \A x \in Durations : x \in Int
      BY DEF Durations, IsPositive, IsNumber
    <3> QED
      BY <3>1 DEF TimelineInv
  <2>3. master_t' \in Time /\ period \in Nat /\ master_t' = FloatAdd(master_t, period)
    BY <1>4, <2>1 DEF Publish, Advance
  <2>4. Yield = [kind |-> "send", at |-> ip, fresh |-> executed > 0, delay |-> period,
                 timestamp |-> master_t, sequence |-> sequence, duration |-> duration]
    BY <2>1 DEF Yield, Outcome
  <2> QED
    BY <1>1, <1>2, <1>3, <1>5, <2>1, <2>2, <2>3, <2>4 DEF TraceEntry
<1>6. CASE DoWaitTick
  <2>1. PICK v \in Eval(Instr.duration) :
          /\ AsInteger(v) \in Delay /\ Advance(AsInteger(v))
          /\ result' = Outcome("wait", AsInteger(v), master_t, sequence)
    BY <1>6 DEF DoWaitTick, Return
  <2>2. send_duration' = send_duration /\ send_duration \in Int
    BY <1>6 DEF DoWaitTick, sendVars, TimelineInv
  <2>3. /\ master_t' \in Time /\ AsInteger(v) \in Nat
        /\ master_t' = FloatAdd(master_t, AsInteger(v))
    BY <1>4, <2>1 DEF Advance
  <2>4. Yield = [kind |-> "wait", at |-> ip, fresh |-> executed > 0, delay |-> AsInteger(v),
                 timestamp |-> master_t, sequence |-> sequence, duration |-> send_duration]
    BY <2>1, <2>2 DEF Yield, Outcome
  <2>5. ~DoSendTick
    BY <1>6 DEF DoWaitTick, DoSendTick, At
  <2> QED
    BY <1>1, <1>2, <1>3, <2>2, <2>3, <2>4, <2>5 DEF TraceEntry
<1> QED
  BY <1>5, <1>6

LEMMA NothingTraced == ASSUME trace = <<>> PROVE trace \in Seq(TraceEntry) /\ Len(trace) = 0
OBVIOUS

LEMMA QuietTrace ==
  ASSUME HNext, UNCHANGED sequence
  PROVE  UNCHANGED trace
BY DEF HNext, Yields

\* One more result at the end of a sequence.
LEMMA OneMore ==
  ASSUME NEW t \in Seq(TraceEntry), NEW e \in TraceEntry
  PROVE  /\ Append(t, e) \in Seq(TraceEntry) /\ Append(t, e) # <<>>
         /\ Len(t) \in Nat /\ Len(Append(t, e)) = Len(t) + 1
         /\ DOMAIN t = 1..Len(t) /\ DOMAIN Append(t, e) = 1..(Len(t) + 1)
         /\ Append(t, e)[Len(t) + 1] = e
         /\ \A i \in 1..Len(t) : Append(t, e)[i] = t[i] /\ t[i] \in TraceEntry
OBVIOUS

LEMMA TimelineGrows ==
  ASSUME NEW t \in Seq(TraceEntry), NEW e \in TraceEntry, NEW now,
         \A k \in DOMAIN t :
           /\ t[k].sequence = k - 1
           /\ t[k].timestamp = IF k = 1 THEN 0 ELSE FloatAdd(t[k-1].timestamp, t[k-1].delay),
         now = IF t = <<>> THEN 0 ELSE FloatAdd(t[Len(t)].timestamp, t[Len(t)].delay),
         e.sequence = Len(t), e.timestamp = now
  PROVE  \A k \in DOMAIN Append(t, e) :
           /\ Append(t, e)[k].sequence = k - 1
           /\ Append(t, e)[k].timestamp =
                IF k = 1 THEN 0 ELSE FloatAdd(Append(t, e)[k-1].timestamp, Append(t, e)[k-1].delay)
<1> DEFINE u == Append(t, e)
<1>1. /\ Len(t) \in Nat /\ DOMAIN t = 1..Len(t) /\ DOMAIN u = 1..(Len(t) + 1)
      /\ u[Len(t) + 1] = e /\ \A i \in 1..Len(t) : u[i] = t[i]
  BY OneMore
<1>2. t = <<>> <=> Len(t) = 0
  OBVIOUS
<1> HIDE DEF u
<1> SUFFICES ASSUME NEW k \in DOMAIN u
             PROVE  /\ u[k].sequence = k - 1
                    /\ u[k].timestamp = IF k = 1 THEN 0 ELSE FloatAdd(u[k-1].timestamp, u[k-1].delay)
  BY DEF u
<1>3. CASE k \in 1..Len(t)
  <2>1. u[k] = t[k] /\ (k # 1 => k - 1 \in 1..Len(t) /\ u[k-1] = t[k-1])
    BY <1>1, <1>3
  <2> QED
    BY <1>1, <1>3, <2>1
<1>4. CASE k = Len(t) + 1
  <2>1. u[k] = e /\ k - 1 = Len(t) /\ (k # 1 => u[k-1] = t[Len(t)])
    BY <1>1, <1>4
  <2> QED
    BY <1>1, <1>2, <1>4, <2>1
<1> QED
  BY <1>1, <1>3, <1>4

LEMMA TimelineInit == HInit => RunInv /\ TimelineInv
<1> SUFFICES ASSUME HInit PROVE RunInv /\ TimelineInv
  OBVIOUS
<1>1. RunInv
  BY RunInvInit DEF HInit
<1>2. trace = <<>> /\ sequence = 0 /\ master_t = 0 /\ send_duration = 0
  BY DEF HInit, RunInit, MessageInit, TimersInit
<1>3. DOMAIN trace = {}
  BY <1>2, NothingBound
<1> QED
  BY <1>1, <1>2, <1>3, NothingTraced, ClockAssumption DEF TimelineInv, ResultsAreATimeline, Time

LEMMA TimelineStep ==
  RunInv /\ TimelineInv /\ [HNext]_historyVars => RunInv' /\ TimelineInv'
<1> SUFFICES ASSUME RunInv, TimelineInv, [HNext]_historyVars PROVE RunInv' /\ TimelineInv'
  OBVIOUS
<1>1. RunInv'
  BY RunInvStep DEF HNext, historyVars
<1>2. ASSUME HNext, DoSendTick \/ DoWaitTick PROVE TimelineInv'
  <2>1. /\ sequence' = sequence + 1 /\ master_t' \in Time /\ send_duration' \in Int
        /\ Yield \in TraceEntry /\ trace' = Append(trace, Yield)
        /\ Yield.timestamp = master_t /\ Yield.sequence = sequence
        /\ master_t' = FloatAdd(master_t, Yield.delay)
    BY <1>2, Yielding
  <2> DEFINE e == Yield
  <2> HIDE DEF e
  <2>2. /\ trace' \in Seq(TraceEntry) /\ trace' # <<>>
        /\ Len(trace') = Len(trace) + 1 /\ trace'[Len(trace')] = e
    BY <2>1, OneMore DEF TimelineInv, e
  <2>3. ResultsAreATimeline'
    BY <2>1, TimelineGrows DEF TimelineInv, ResultsAreATimeline, e
  <2> QED
    BY <2>1, <2>2, <2>3 DEF TimelineInv, e
<1>3. ASSUME HNext, ~DoSendTick, ~DoWaitTick PROVE TimelineInv'
  <2>1. Quiet
    BY <1>3, OtherStepsAreQuiet DEF HNext
  <2>2. UNCHANGED <<trace, sequence, master_t>>
    BY <1>3, <2>1, QuietTrace DEF Quiet
  <2>3. send_duration' \in Int
    <3>1. CASE SendRaises
      <4>1. \A x \in Durations : x \in Int
        BY DEF Durations, IsPositive, IsNumber
      <4> QED
        BY <3>1, <4>1 DEF SendRaises, TimelineInv
    <3>2. CASE ~SendRaises
      <4>1. UNCHANGED send_duration
        BY <1>3, <3>2 DEF HNext, RunNext, Stepping, CallStep, CallAfterEnd, RunOff, ExecLoopValue, ExecClearVar,
           ExecSetVar, ExecSetVarIndex, ExecSeed, ExecCreateTimer, ExecResetTimer, ExecJump,
           ExecJumpIfFalse, ExecSetField, ApplyPending, PendingRaises, InstantRaises, BudgetExceeded,
           WaitRaises, Fails, Instant, sendVars
      <4> QED
        BY <4>1 DEF TimelineInv
    <3> QED
      BY <3>1, <3>2
  <2> QED
    BY <2>2, <2>3 DEF TimelineInv, ResultsAreATimeline
<1>4. ASSUME UNCHANGED historyVars PROVE TimelineInv'
  BY <1>4 DEF historyVars, runVars, messageVars, clockVars, sendVars, resultVars, TimelineInv,
     ResultsAreATimeline
<1> QED
  BY <1>1, <1>2, <1>3, <1>4

\* The results of any script are numbered without a gap, and each starts when
\* the delay of the one before it is over, whatever floating-point addition
\* makes of that (vm.py:314-327, vm.py:350-357).
THEOREM ResultsAreGapless == HSpec => []ResultsAreATimeline
<1>1. TimelineInv => ResultsAreATimeline
  BY DEF TimelineInv
<1> QED
  BY <1>1, TimelineInit, TimelineStep, PTL DEF HSpec

-----------------------------------------------------------------------------
(* How long a send lasts, on a clock that adds exactly. *)

ExactClock == \A t, d \in Nat : FloatAdd(t, d) = t + d

\* IsVisit, said of any timeline t.
VisitOf(t, k, m) ==
  /\ t[k].kind = "send"
  /\ k > 1 => t[k].at # t[k-1].at \/ t[k].fresh
  /\ \A i \in k+1..m : t[i].at = t[k].at /\ ~t[i].fresh

\* The ticks from k to m keep one rate, and were all due.
Covered(t, tape, k, m) ==
  LET kind == tape[t[k].at].kind
      due == t[k].duration
  IN  /\ \A i \in k..m : t[i].delay = t[k].delay
      /\ t[m].timestamp = t[k].timestamp + (m - k) * t[k].delay
      /\ kind = "tick" => m - k < due
      /\ kind = "wall" => (m - k) * t[k].delay < due

UsedUp(t, tape, k, m) ==
  SendIsDone(tape[t[k].at].kind, m - k + 1, t[k].delay, t[k].duration)

VisitsCovered(t, tape) ==
  \A k, m \in DOMAIN t :
    k <= m /\ VisitOf(t, k, m) =>
      /\ Covered(t, tape, k, m)
      /\ m < Len(t) /\ ~VisitOf(t, k, m + 1) => UsedUp(t, tape, k, m)

\* Where the machine stands after the latest result: at its send, with the
\* ticks of this visit counted, or beyond it, with the visit used up.
StandsAfter ==
  LET n == Len(trace)
      last == trace[n]
  IN  /\ fill # <<>> => executed > 0
      /\ ~halted /\ send_ip # None => n > 0 /\ send_ip = last.at /\ (phase = "stepping" => executed = 0)
      /\ ~halted /\ send_ip = None /\ (phase = "idle" \/ executed = 0) => n = 0 \/ ip = last.at + 1
      /\ \A k \in DOMAIN trace : VisitOf(trace, k, n) =>
           /\ ~halted /\ send_ip # None =>
                /\ send_ticks_done = n - k + 1
                /\ send_period = trace[k].delay /\ send_duration = trace[k].duration
           /\ send_ip = None \/ ip # last.at => UsedUp(trace, program.tape, k, n)

VisitInv ==
  /\ RunInv /\ TimelineInv
  /\ executed \in Nat
  /\ VisitsCovered(trace, program.tape)
  /\ StandsAfter

LEMMA Visits == ASSUME NEW k, NEW m PROVE IsVisit(k, m) = VisitOf(trace, k, m)
BY DEF IsVisit, VisitOf

\* How a result extends the visits, or begins one.
LEMMA VisitsGrow ==
  ASSUME NEW t \in Seq(TraceEntry), NEW e \in TraceEntry
  PROVE  LET n == Len(t)
             u == Append(t, e)
         IN  /\ \A k, m \in 1..n : VisitOf(u, k, m) <=> VisitOf(t, k, m)
             /\ \A k \in 1..n : VisitOf(u, k, n + 1) <=> VisitOf(t, k, n) /\ e.at = t[k].at /\ ~e.fresh
             /\ VisitOf(u, n + 1, n + 1) <=> e.kind = "send" /\ (n > 0 => e.at # t[n].at \/ e.fresh)
             /\ \A k \in 1..n : VisitOf(t, k, n) => t[k].at = t[n].at
<1> DEFINE n == Len(t)
           u == Append(t, e)
<1>1. n \in Nat /\ u[n + 1] = e /\ \A i \in 1..n : u[i] = t[i]
  BY OneMore
<1> HIDE DEF u, n
<1>2. ASSUME NEW k \in 1..n
      PROVE  u[k] = t[k] /\ (k > 1 => k - 1 \in 1..n /\ u[k-1] = t[k-1])
  BY <1>1
<1>3. ASSUME NEW k \in 1..n, NEW m \in 1..n PROVE VisitOf(u, k, m) <=> VisitOf(t, k, m)
  <2>1. \A i \in k+1..m : i \in 1..n /\ u[i] = t[i]
    BY <1>1
  <2> QED
    BY <1>2, <2>1 DEF VisitOf
<1>4. ASSUME NEW k \in 1..n
      PROVE  VisitOf(u, k, n + 1) <=> VisitOf(t, k, n) /\ e.at = t[k].at /\ ~e.fresh
  <2>1. n + 1 \in k+1..n+1 /\ \A i \in k+1..n+1 : i = n + 1 \/ (i \in k+1..n /\ u[i] = t[i])
    BY <1>1
  <2>2. \A i \in k+1..n : i \in k+1..n+1 /\ u[i] = t[i]
    BY <1>1
  <2> QED
    BY <1>1, <1>2, <2>1, <2>2 DEF VisitOf
<1>5. VisitOf(u, n + 1, n + 1) <=> e.kind = "send" /\ (n > 0 => e.at # t[n].at \/ e.fresh)
  <2>1. (n + 1) + 1..n + 1 = {} /\ (n + 1 > 1 <=> n > 0) /\ (n + 1) - 1 = n /\ (n > 0 => u[n] = t[n])
    BY <1>1
  <2> QED
    BY <1>1, <2>1 DEF VisitOf
<1>6. ASSUME NEW k \in 1..n, VisitOf(t, k, n) PROVE t[k].at = t[n].at
  <2>1. k = n \/ n \in k+1..n
    BY <1>1
  <2> QED
    BY <1>6, <2>1 DEF VisitOf
<1> QED
  BY <1>3, <1>4, <1>5, <1>6 DEF u, n

LEMMA OldVisits ==
  ASSUME NEW t \in Seq(TraceEntry), NEW e \in TraceEntry, NEW tape, VisitsCovered(t, tape),
         NEW k \in 1..Len(t), NEW m \in 1..Len(t), k <= m, VisitOf(t, k, m)
  PROVE  /\ Covered(Append(t, e), tape, k, m)
         /\ m < Len(t) /\ ~VisitOf(Append(t, e), k, m + 1) => UsedUp(Append(t, e), tape, k, m)
         /\ UsedUp(t, tape, k, m) => UsedUp(Append(t, e), tape, k, m)
<1> DEFINE u == Append(t, e)
<1>1. Len(t) \in Nat /\ DOMAIN t = 1..Len(t) /\ \A i \in 1..Len(t) : u[i] = t[i]
  BY OneMore
<1>2. m < Len(t) => (VisitOf(u, k, m + 1) <=> VisitOf(t, k, m + 1))
  <2>1. m < Len(t) => m + 1 \in 1..Len(t)
    BY <1>1
  <2> QED
    BY <2>1, VisitsGrow
<1> HIDE DEF u
<1>3. /\ Covered(t, tape, k, m)
      /\ m < Len(t) /\ ~VisitOf(t, k, m + 1) => UsedUp(t, tape, k, m)
  BY <1>1 DEF VisitsCovered
<1>4. UsedUp(t, tape, k, m) => UsedUp(u, tape, k, m)
  BY <1>1 DEF UsedUp
<1>5. Covered(u, tape, k, m)
  <2>1. \A i \in k..m : u[i] = t[i]
    BY <1>1
  <2> QED
    BY <1>1, <1>3, <2>1 DEF Covered
<1> QED
  BY <1>2, <1>3, <1>4, <1>5 DEF u

\* A result that begins something new ends the visits before it.
LEMMA NewVisit ==
  ASSUME NEW t \in Seq(TraceEntry), NEW e \in TraceEntry, NEW tape, VisitsCovered(t, tape),
         Len(t) > 0 => e.at # t[Len(t)].at \/ e.fresh,
         \A k \in 1..Len(t) : VisitOf(t, k, Len(t)) => UsedUp(t, tape, k, Len(t)),
         e.kind = "send" /\ tape[e.at].kind # "inf" => e.duration > 0
  PROVE  /\ VisitsCovered(Append(t, e), tape)
         /\ \A k \in 1..Len(t) : ~VisitOf(Append(t, e), k, Len(t) + 1)
<1> DEFINE n == Len(t)
           u == Append(t, e)
<1>1. n \in Nat /\ DOMAIN t = 1..n /\ DOMAIN u = 1..(n + 1) /\ Len(u) = n + 1 /\ u[n + 1] = e
  BY OneMore
<1>2. \A k \in 1..n : ~VisitOf(u, k, n + 1)
  BY <1>1, VisitsGrow
<1>3. VisitOf(u, n + 1, n + 1) => Covered(u, tape, n + 1, n + 1)
  <2>1. ASSUME VisitOf(u, n + 1, n + 1), tape[e.at].kind # "inf" PROVE e.duration > 0
    BY <2>1, VisitsGrow
  <2>2. (n + 1) - (n + 1) = 0 /\ 0 * e.delay = 0 /\ e.timestamp + 0 = e.timestamp
        /\ e.duration \in Int /\ e.delay \in Nat /\ e.timestamp \in Nat
    BY <1>1 DEF TraceEntry
  <2>3. \A i \in n+1..n+1 : i = n + 1
    BY <1>1
  <2> QED
    BY <1>1, <2>1, <2>2, <2>3 DEF Covered
<1>4. ASSUME NEW k \in 1..n, NEW m \in 1..n, k <= m, VisitOf(u, k, m)
      PROVE  Covered(u, tape, k, m) /\ (~VisitOf(u, k, m + 1) => UsedUp(u, tape, k, m))
  <2>1. VisitOf(t, k, m)
    BY <1>4, VisitsGrow
  <2>2. /\ Covered(u, tape, k, m)
        /\ m < n /\ ~VisitOf(u, k, m + 1) => UsedUp(u, tape, k, m)
        /\ UsedUp(t, tape, k, m) => UsedUp(u, tape, k, m)
    BY <1>4, <2>1, OldVisits
  <2>3. m < n \/ m = n
    <3>1. n \in Nat
      BY <1>1
    <3> HIDE DEF n
    <3> QED
      BY <3>1
  <2> QED
    BY <2>1, <2>2, <2>3
<1> HIDE DEF u, n
<1>5. ASSUME NEW k \in 1..(n + 1), NEW m \in 1..(n + 1), k <= m, VisitOf(u, k, m)
      PROVE  Covered(u, tape, k, m) /\ (m < n + 1 /\ ~VisitOf(u, k, m + 1) => UsedUp(u, tape, k, m))
  <2>1. CASE m \in 1..n
    <3>1. k \in 1..n
      BY <1>1, <1>5, <2>1
    <3> QED
      BY <1>4, <1>5, <2>1, <3>1
  <2>2. CASE m = n + 1
    <3>1. k = n + 1
      BY <1>1, <1>2, <1>5, <2>2
    <3> QED
      BY <1>1, <1>3, <1>5, <2>2, <3>1
  <2> QED
    BY <1>1, <2>1, <2>2
<1>6. VisitsCovered(u, tape)
  BY <1>1, <1>5 DEF VisitsCovered
<1> QED
  BY <1>2, <1>6 DEF u, n

\* Another tick: what `Covered` says of it, in numbers alone.
LEMMA OnceMore ==
  ASSUME NEW a \in Int, NEW d \in Int, NEW start \in Int, NEW at, at = (start + a * d) + d
  PROVE  at = start + (a + 1) * d
OBVIOUS

\* A result that goes on with the latest visit, which was not used up.
LEMMA SameVisit ==
  ASSUME NEW t \in Seq(TraceEntry), NEW e \in TraceEntry, NEW tape, VisitsCovered(t, tape),
         Len(t) > 0, e.at = t[Len(t)].at, ~e.fresh,
         e.timestamp = t[Len(t)].timestamp + t[Len(t)].delay,
         \A k \in 1..Len(t) : VisitOf(t, k, Len(t)) =>
           e.delay = t[k].delay /\ ~UsedUp(t, tape, k, Len(t))
  PROVE  /\ VisitsCovered(Append(t, e), tape)
         /\ \A k \in 1..(Len(t) + 1) : VisitOf(Append(t, e), k, Len(t) + 1) =>
              k <= Len(t) /\ VisitOf(t, k, Len(t))
<1> DEFINE n == Len(t)
           u == Append(t, e)
<1>1. /\ n \in Nat /\ n \in 1..n /\ DOMAIN t = 1..n /\ DOMAIN u = 1..(n + 1) /\ Len(u) = n + 1
      /\ u[n + 1] = e /\ \A i \in 1..n : u[i] = t[i] /\ t[i] \in TraceEntry
  BY OneMore
<1>2. /\ ~VisitOf(u, n + 1, n + 1)
      /\ \A k \in 1..n : VisitOf(t, k, n) => t[k].at = t[n].at
      /\ \A k \in 1..n : VisitOf(u, k, n + 1) <=> VisitOf(t, k, n)
  BY <1>1, VisitsGrow
<1>3. ASSUME NEW k \in 1..n, VisitOf(t, k, n) PROVE Covered(u, tape, k, n + 1)
  <2>1. Covered(t, tape, k, n) /\ ~UsedUp(t, tape, k, n) /\ e.delay = t[k].delay
    BY <1>1, <1>3 DEF VisitsCovered
  <2>2. /\ t[n].delay = t[k].delay /\ t[n].timestamp = t[k].timestamp + (n - k) * t[k].delay
        /\ \A i \in k..n : t[i].delay = t[k].delay
    BY <1>1, <2>1 DEF Covered
  <2>3. t[k].delay \in Int /\ t[k].timestamp \in Int /\ t[k].duration \in Int
    <3>1. \A x \in TraceEntry : x.delay \in Int /\ x.timestamp \in Int /\ x.duration \in Int
      BY DEF TraceEntry
    <3> QED
      BY <1>1, <3>1
  <2>4. n - k \in Int /\ (n + 1) - k = (n - k) + 1
    <3>1. n \in Nat
      BY <1>1
    <3> HIDE DEF n
    <3> QED
      BY <3>1
  <2>5. e.timestamp = t[k].timestamp + ((n - k) + 1) * t[k].delay
    <3>1. e.timestamp = (t[k].timestamp + (n - k) * t[k].delay) + t[k].delay
      BY <2>2
    <3> QED
      BY <2>3, <2>4, <3>1, OnceMore
  <2>6. /\ tape[t[k].at].kind = "tick" => (n - k) + 1 < t[k].duration
        /\ tape[t[k].at].kind = "wall" => ((n - k) + 1) * t[k].delay < t[k].duration
    <3> DEFINE ticks == (n - k) + 1
    <3>1. ticks \in Int /\ ~SendIsDone(tape[t[k].at].kind, ticks, t[k].delay, t[k].duration)
      BY <2>1, <2>4 DEF UsedUp
    <3> HIDE DEF ticks
    <3>2. /\ tape[t[k].at].kind = "tick" => ~(ticks >= t[k].duration)
          /\ tape[t[k].at].kind = "wall" => ~(ticks * t[k].delay >= t[k].duration)
      BY <3>1 DEF SendIsDone
    <3>3. ticks * t[k].delay \in Int
      BY <2>3, <3>1
    <3>4. /\ tape[t[k].at].kind = "tick" => ticks < t[k].duration
          /\ tape[t[k].at].kind = "wall" => ticks * t[k].delay < t[k].duration
      BY <2>3, <3>1, <3>2, <3>3
    <3> QED
      BY <3>4 DEF ticks
  <2>7. \A i \in k..n+1 : u[i].delay = t[k].delay
    BY <1>1, <2>1, <2>2
  <2> QED
    BY <1>1, <2>4, <2>5, <2>6, <2>7 DEF Covered
<1>4. ASSUME NEW k \in 1..n, NEW m \in 1..n, k <= m, VisitOf(u, k, m)
      PROVE  Covered(u, tape, k, m) /\ (~VisitOf(u, k, m + 1) => UsedUp(u, tape, k, m))
  <2>1. VisitOf(t, k, m)
    BY <1>4, VisitsGrow
  <2>2. /\ Covered(u, tape, k, m)
        /\ m < n /\ ~VisitOf(u, k, m + 1) => UsedUp(u, tape, k, m)
    BY <1>4, <2>1, OldVisits
  <2>3. m = n => VisitOf(u, k, m + 1)
    BY <1>2, <2>1
  <2>4. m < n \/ m = n
    BY <1>1
  <2> QED
    BY <2>2, <2>3, <2>4
<1> HIDE DEF u, n
<1>5. ASSUME NEW k \in 1..(n + 1), NEW m \in 1..(n + 1), k <= m, VisitOf(u, k, m)
      PROVE  Covered(u, tape, k, m) /\ (m < n + 1 /\ ~VisitOf(u, k, m + 1) => UsedUp(u, tape, k, m))
  <2>1. CASE m \in 1..n
    <3>1. k \in 1..n
      BY <1>1, <1>5, <2>1
    <3> QED
      BY <1>4, <1>5, <2>1, <3>1
  <2>2. CASE m = n + 1
    <3>1. k \in 1..n
      BY <1>1, <1>2, <1>5, <2>2
    <3> QED
      BY <1>1, <1>2, <1>3, <1>5, <2>2, <3>1
  <2> QED
    BY <1>1, <2>1, <2>2
<1>6. VisitsCovered(u, tape)
  BY <1>1, <1>5 DEF VisitsCovered
<1>7. \A k \in 1..(n + 1) : VisitOf(u, k, n + 1) => k <= n /\ VisitOf(t, k, n)
  BY <1>1, <1>2
<1> QED
  BY <1>6, <1>7 DEF u, n

\* What it takes for StandsAfter to hold with the same results.
LEMMA QuietStands ==
  ASSUME VisitInv, HNext, ~DoSendTick, ~DoWaitTick
  PROVE  StandsAfter' /\ executed' \in Nat /\ UNCHANGED <<program, trace>>
<1>1. UNCHANGED <<program, trace>>
  BY OtherStepsAreQuiet, QuietTrace DEF HNext, Quiet
<1>2. executed \in Nat /\ ip \in Nat \ {0} /\ (fill # <<>> => phase = "stepping") /\ (halted => phase = "idle")
  BY DEF VisitInv, RunInv, PlaceInv
<1>3. StandsAfter
  BY DEF VisitInv
<1>4. phase = "stepping" /\ Instr.op # "send" => ~halted /\ send_ip = None
  BY DEF VisitInv, RunInv, PlaceInv, SendInv, SendInProgress
<1>5. CASE CallStep
  <2>1. /\ phase = "idle" /\ fill = <<>> /\ executed' = 0 /\ phase' = "stepping"
        /\ UNCHANGED <<halted, fill, ip, send_ip, send_ticks_done, send_period, send_duration>>
    BY <1>2, <1>5 DEF CallStep, messageVars, clockVars, sendVars
  <2> QED
    BY <1>1, <1>3, <2>1 DEF StandsAfter
<1>6. CASE CallAfterEnd
  <2>1. UNCHANGED <<halted, fill, ip, send_ip, send_ticks_done, send_period, send_duration, executed, phase>>
    BY <1>6 DEF CallAfterEnd, messageVars, clockVars, sendVars
  <2> QED
    BY <1>1, <1>2, <1>3, <2>1 DEF StandsAfter
<1>7. ASSUME phase = "stepping", phase' = "stepping", send_ip = None, ~halted,
             executed' \in Nat, executed' > 0, UNCHANGED <<halted, send_ip>>
      PROVE  StandsAfter'
  BY <1>1, <1>3, <1>7 DEF StandsAfter
<1>8. CASE \/ ExecLoopValue \/ ExecClearVar \/ ExecSetVar \/ ExecSetVarIndex \/ ExecSeed
           \/ ExecCreateTimer \/ ExecResetTimer \/ ExecJump \/ ExecJumpIfFalse \/ ExecSetField
  <2>1. PICK op \in InstantOps : Instant(op) /\ UNCHANGED halted
    BY <1>8 DEF ExecLoopValue, ExecClearVar, ExecSetVar, ExecSetVarIndex, ExecSeed, ExecCreateTimer,
       CreateTimer, ExecResetTimer, ResetTimer, ExecJump, ExecJumpIfFalse, ExecSetField, ReadFor,
       clockVars, InstantOps, InstantEvaluates
  <2>2. /\ phase = "stepping" /\ Instr.op # "send" /\ executed' = executed + 1
        /\ UNCHANGED <<phase, send_ip>>
    BY <2>1 DEF Instant, At, InstantOps, InstantEvaluates, resultVars, sendVars
  <2> QED
    BY <1>1, <1>2, <1>4, <1>7, <2>1, <2>2
<1>9. CASE ApplyPending
  <2>1. /\ phase = "stepping" /\ fill # <<>> /\ UNCHANGED <<phase, send_ip, executed, halted>>
    BY <1>9, FieldsTakeNoTime DEF ApplyPending, resultVars, sendVars
  <2>2. executed > 0 /\ Instr.op # "send"
    BY <1>3, <2>1 DEF StandsAfter, VisitInv, RunInv, PlaceInv
  <2> QED
    BY <1>1, <1>2, <1>4, <1>7, <2>1, <2>2
<1>10. CASE PendingRaises \/ RunOff \/ InstantRaises \/ BudgetExceeded \/ SendRaises \/ WaitRaises
  <2>1. /\ halted' = TRUE /\ fill' = <<>> /\ UNCHANGED <<ip, executed>> /\ send_ip' \in {send_ip, ip}
    BY <1>10 DEF PendingRaises, FieldRaises, RunOff, InstantRaises, BudgetExceeded, SendRaises,
       PublishRaises, WaitRaises, Fails, MessageKept, At, sendVars
  <2>2. send_ip' = None => send_ip = None
    BY <1>2, <2>1 DEF None
  <2> QED
    BY <1>1, <1>2, <1>3, <2>1, <2>2 DEF StandsAfter
<1> QED
  BY <1>1, <1>2, <1>5, <1>6, <1>8, <1>9, <1>10 DEF HNext, RunNext, Stepping

\* A result that does not follow on from the one before begins a visit.
LEMMA VisitBegins ==
  ASSUME NEW t \in Seq(TraceEntry), NEW e \in TraceEntry, NEW count \in Nat,
         e.fresh = (count > 0), count = 0 => Len(t) = 0 \/ e.at = t[Len(t)].at + 1,
         Len(t) > 0
  PROVE  e.at # t[Len(t)].at \/ e.fresh
<1> DEFINE last == t[Len(t)].at
<1>1. last \in Nat
  <2>1. Len(t) \in 1..Len(t)
    OBVIOUS
  <2>2. \A x \in TraceEntry : x.at \in Nat
    BY DEF TraceEntry
  <2>3. t[Len(t)] \in TraceEntry
    BY <2>1
  <2> QED
    BY <2>2, <2>3
<1>2. CASE count = 0
  <2>1. e.at = last + 1
    BY <1>2
  <2>2. last + 1 # last
    <3> HIDE DEF last
    <3> QED
      BY <1>1
  <2> QED
    BY <2>1, <2>2
<1>3. CASE count # 0
  <2>1. count > 0
    BY <1>3
  <2> QED
    BY <2>1
<1> QED
  BY <1>2, <1>3

LEMMA WaitStands ==
  ASSUME VisitInv, HNext, DoWaitTick
  PROVE  VisitsCovered(trace', program.tape) /\ StandsAfter'
<1> DEFINE n == Len(trace)
           e == Yield
           u == Append(trace, e)
<1>1. /\ e \in TraceEntry /\ trace' = u /\ e.at = ip /\ e.fresh = (executed > 0)
      /\ e.kind # "send"
  <2>1. ~DoSendTick
    BY DEF DoWaitTick, DoSendTick, At
  <2> QED
    BY <2>1, Yielding DEF VisitInv
<1>2. trace \in Seq(TraceEntry) /\ executed \in Nat /\ ip \in Nat \ {0}
  BY DEF VisitInv, TimelineInv, RunInv, PlaceInv
<1>3. /\ phase = "stepping" /\ fill = <<>> /\ fill' = <<>> /\ ip' = ip + 1 /\ phase' = "idle"
      /\ UNCHANGED <<program, halted, send_ip>> /\ send_ip = None /\ ~halted
  <2>1. Instr.op = "wait" /\ phase = "stepping"
    BY DEF DoWaitTick, At
  <2>2. send_ip = None /\ ~halted
    BY <2>1 DEF VisitInv, RunInv, PlaceInv, SendInv, SendInProgress
  <2> QED
    BY <2>1, <2>2 DEF DoWaitTick, At, MessageKept, Return, hostVars, sendVars
<1> HIDE DEF e
<1>4. n \in Nat /\ DOMAIN trace = 1..n /\ Len(u) = n + 1 /\ DOMAIN u = 1..(n + 1) /\ u[n + 1] = e
  BY <1>1, <1>2, OneMore
<1>5. /\ n > 0 => e.at # trace[n].at \/ e.fresh
      /\ \A k \in 1..n : VisitOf(trace, k, n) => UsedUp(trace, program.tape, k, n)
  <2>1. executed = 0 => n = 0 \/ ip = trace[n].at + 1
    BY <1>3 DEF VisitInv, StandsAfter
  <2>3. n > 0 => e.at # trace[n].at \/ e.fresh
    BY <1>1, <1>2, <2>1, VisitBegins
  <2>4. \A k \in 1..n : VisitOf(trace, k, n) => UsedUp(trace, program.tape, k, n)
    BY <1>3, <1>4 DEF VisitInv, StandsAfter
  <2> QED
    BY <2>3, <2>4
<1>6. /\ VisitsCovered(u, program.tape)
      /\ \A k \in 1..n : ~VisitOf(u, k, n + 1)
  BY <1>1, <1>2, <1>5, NewVisit DEF VisitInv
<1>7. ~VisitOf(u, n + 1, n + 1)
  BY <1>1, <1>2, VisitsGrow
<1> HIDE DEF n, u
<1>8. \A k \in DOMAIN u : ~VisitOf(u, k, n + 1)
  BY <1>4, <1>6, <1>7
<1>9. StandsAfter'
  BY <1>1, <1>3, <1>4, <1>8 DEF StandsAfter
<1> QED
  BY <1>1, <1>6, <1>9

\* A tick, and the result it gives.
LEMMA TickFacts ==
  ASSUME VisitInv, HNext, DoSendTick
  PROVE  LET n == Len(trace)
             e == Yield
             ticks == (IF Entering THEN 0 ELSE send_ticks_done) + 1
             done == SendIsDone(Instr.kind, ticks, e.delay, e.duration)
         IN  /\ e \in TraceEntry /\ trace' = Append(trace, e) /\ e.kind = "send"
             /\ e.at = ip /\ e.fresh = (executed > 0) /\ e.timestamp = master_t
             /\ send_ip' = (IF done THEN None ELSE ip) /\ ip' = (IF done THEN ip + 1 ELSE ip)
             /\ send_ticks_done' = ticks /\ send_period' = e.delay /\ send_duration' = e.duration
             /\ Entering /\ Instr.kind # "inf" => e.duration > 0
             /\ ~Entering => e.delay = send_period /\ e.duration = send_duration
<1>1. /\ Yield \in TraceEntry /\ trace' = Append(trace, Yield) /\ Yield.kind = "send"
      /\ Yield.at = ip /\ Yield.fresh = (executed > 0) /\ Yield.timestamp = master_t
  BY Yielding DEF VisitInv
<1>2. PICK period \in IF Entering THEN Periods ELSE {send_period},
           duration \in IF Entering THEN Durations ELSE {send_duration} :
        LET ticks == (IF Entering THEN 0 ELSE send_ticks_done) + 1
            done == SendIsDone(Instr.kind, ticks, period, duration)
        IN  /\ send_ip' = (IF done THEN None ELSE ip)
            /\ ip' = IF done THEN ip + 1 ELSE ip
            /\ send_ticks_done' = ticks
            /\ send_period' = period
            /\ send_duration' = duration
            /\ result' = Outcome("send", period, master_t, sequence)
  BY DEF DoSendTick, NextSend, Return
<1>3. Yield.delay = period /\ Yield.duration = duration
  BY <1>2 DEF Yield, Outcome
<1>4. Entering /\ Instr.kind # "inf" => duration > 0
  BY <1>2 DEF Durations, IsPositive
<1> QED
  BY <1>1, <1>2, <1>3, <1>4

LEMMA TickStands ==
  ASSUME ExactClock, VisitInv, HNext, DoSendTick
  PROVE  VisitsCovered(trace', program.tape) /\ StandsAfter'
<1> DEFINE n == Len(trace)
           e == Yield
           u == Append(trace, e)
           tape == program.tape
           ticks == (IF Entering THEN 0 ELSE send_ticks_done) + 1
           done == SendIsDone(Instr.kind, ticks, e.delay, e.duration)
<1>1. /\ e \in TraceEntry /\ trace' = u /\ e.kind = "send"
      /\ e.at = ip /\ e.fresh = (executed > 0) /\ e.timestamp = master_t
      /\ send_ip' = (IF done THEN None ELSE ip) /\ ip' = (IF done THEN ip + 1 ELSE ip)
      /\ send_ticks_done' = ticks /\ send_period' = e.delay /\ send_duration' = e.duration
      /\ Entering /\ Instr.kind # "inf" => e.duration > 0
      /\ ~Entering => e.delay = send_period /\ e.duration = send_duration
  BY TickFacts
<1>2. trace \in Seq(TraceEntry) /\ executed \in Nat /\ ip \in Nat \ {0} /\ send_ticks_done \in Nat
  BY DEF VisitInv, TimelineInv, RunInv, PlaceInv, SendInv
<1>3. /\ phase = "stepping" /\ Instr.op = "send" /\ fill = <<>> /\ fill' = <<>> /\ phase' = "idle"
      /\ UNCHANGED <<program, halted>> /\ ~halted
  <2>1. phase = "stepping" /\ Instr.op = "send" /\ fill = <<>> /\ phase' = "idle"
    BY DEF DoSendTick, At, Return
  <2>2. ~halted
    BY <2>1 DEF VisitInv, RunInv, PlaceInv
  <2> QED
    BY <2>1, <2>2 DEF DoSendTick, Publish, hostVars
<1>4. Instr.kind = tape[e.at].kind
  BY <1>1 DEF Instr
<1> HIDE DEF e, ticks, done
<1>5. n \in Nat /\ DOMAIN trace = 1..n /\ Len(u) = n + 1 /\ DOMAIN u = 1..(n + 1) /\ u[n + 1] = e
      /\ \A i \in 1..n : u[i] = trace[i] /\ trace[i] \in TraceEntry
  BY <1>1, <1>2, OneMore
\* In either case the ticks of the visit that goes on are counted.
<1>6. ASSUME VisitsCovered(u, tape),
             \A k \in 1..(n + 1) : VisitOf(u, k, n + 1) =>
               /\ ticks = (n + 1) - k + 1 /\ u[k].at = ip
               /\ e.delay = u[k].delay /\ e.duration = u[k].duration
      PROVE  VisitsCovered(trace', tape) /\ StandsAfter'
  <2>1. \A k \in DOMAIN u : VisitOf(u, k, n + 1) =>
          /\ ticks = (n + 1) - k + 1 /\ e.delay = u[k].delay /\ e.duration = u[k].duration
          /\ done <=> UsedUp(u, tape, k, n + 1)
    BY <1>1, <1>4, <1>5, <1>6 DEF UsedUp, done
  <2>2. None # ip /\ n + 1 > 0
    BY <1>2, <1>5 DEF None
  <2> HIDE DEF n, u
  <2>3. /\ trace' = u /\ Len(u) = n + 1 /\ u[n + 1] = e
        /\ fill' = <<>> /\ phase' = "idle" /\ program' = program /\ ~halted'
    BY <1>1, <1>3, <1>5 DEF u
  <2>4. CASE done
    <3>1. send_ip' = None /\ ip' = e.at + 1
      BY <1>1, <2>4
    <3>2. \A k \in DOMAIN u : VisitOf(u, k, n + 1) => UsedUp(u, tape, k, n + 1)
      BY <2>1, <2>4
    <3> QED
      BY <1>1, <1>6, <2>3, <3>1, <3>2 DEF StandsAfter
  <2>5. CASE ~done
    <3>1. send_ip' = e.at /\ ip' = e.at /\ e.at # None /\ n + 1 > 0
      BY <1>1, <2>2, <2>5
    <3>2. \A k \in DOMAIN u : VisitOf(u, k, n + 1) =>
            /\ send_ticks_done' = (n + 1) - k + 1
            /\ send_period' = u[k].delay /\ send_duration' = u[k].duration
      BY <1>1, <2>1
    <3> QED
      BY <1>1, <1>6, <2>3, <3>1, <3>2 DEF StandsAfter
  <2> QED
    BY <1>6, <2>3, <2>4, <2>5
<1>7. CASE Entering
  <2>1. send_ip = None /\ ticks = 1
    BY <1>3, <1>7 DEF VisitInv, RunInv, SendInv, SendInProgress, Entering, ticks
  <2>2. n > 0 => e.at # trace[n].at \/ e.fresh
    <3>1. executed = 0 => n = 0 \/ ip = trace[n].at + 1
      BY <1>3, <2>1 DEF VisitInv, StandsAfter
    <3> QED
      BY <1>1, <1>2, <3>1, VisitBegins
  <2>3. \A k \in 1..n : VisitOf(trace, k, n) => UsedUp(trace, tape, k, n)
    BY <1>5, <2>1 DEF VisitInv, StandsAfter
  <2>4. /\ VisitsCovered(u, tape)
        /\ \A k \in 1..n : ~VisitOf(u, k, n + 1)
    BY <1>1, <1>2, <1>4, <1>7, <2>2, <2>3, NewVisit DEF VisitInv
  <2>5. \A k \in 1..(n + 1) : VisitOf(u, k, n + 1) => k = n + 1
    BY <1>5, <2>4
  <2>6. (n + 1) - (n + 1) + 1 = 1
    BY <1>5
  <2> QED
    BY <1>1, <1>5, <1>6, <2>1, <2>4, <2>5, <2>6
<1>8. CASE ~Entering
  <2>1. send_ip = ip /\ send_ip # None /\ ticks = send_ticks_done + 1
    BY <1>2, <1>8 DEF Entering, None, ticks
  <2>2. /\ executed = 0 /\ n > 0 /\ trace[n].at = ip
        /\ \A k \in 1..n : VisitOf(trace, k, n) =>
             /\ send_ticks_done = n - k + 1
             /\ send_period = trace[k].delay /\ send_duration = trace[k].duration
    BY <1>3, <1>5, <2>1 DEF VisitInv, StandsAfter
  <2>3. ~SendIsDone(Instr.kind, send_ticks_done, send_period, send_duration)
    BY <1>3, <2>1 DEF VisitInv, RunInv, SendInv, SendInProgress
  <2>4. \A k \in 1..n : VisitOf(trace, k, n) => trace[k].at = trace[n].at
    BY <1>1, <1>2, VisitsGrow
  <2>5. \A k \in 1..n : VisitOf(trace, k, n) => e.delay = trace[k].delay /\ ~UsedUp(trace, tape, k, n)
    BY <1>1, <1>4, <1>8, <2>2, <2>3, <2>4 DEF UsedUp
  <2>6. e.timestamp = trace[n].timestamp + trace[n].delay
    <3>1. \A x \in TraceEntry : x.timestamp \in Nat /\ x.delay \in Nat
      BY DEF TraceEntry
    <3>2. n \in 1..n /\ trace # <<>>
      BY <1>5, <2>2
    <3>3. master_t = FloatAdd(trace[n].timestamp, trace[n].delay)
      BY <3>2 DEF VisitInv, TimelineInv
    <3> QED
      BY <1>1, <1>5, <3>1, <3>2, <3>3 DEF ExactClock
  <2>7. ~e.fresh /\ e.at = trace[n].at
    <3>1. ~(executed > 0)
      BY <2>2
    <3> QED
      BY <1>1, <2>2, <3>1, Zenon
  <2>8. /\ VisitsCovered(u, tape)
        /\ \A k \in 1..(n + 1) : VisitOf(u, k, n + 1) => k <= n /\ VisitOf(trace, k, n)
    BY <1>1, <1>2, <2>2, <2>5, <2>6, <2>7, SameVisit DEF VisitInv
  <2>9. ASSUME NEW k \in 1..(n + 1), VisitOf(u, k, n + 1)
        PROVE  /\ ticks = (n + 1) - k + 1 /\ u[k].at = ip
               /\ e.delay = u[k].delay /\ e.duration = u[k].duration
    <3>1. k \in 1..n /\ VisitOf(trace, k, n)
      BY <1>5, <2>8, <2>9
    <3>2. send_ticks_done = n - k + 1 /\ n \in Nat /\ k \in Nat
      BY <1>5, <2>2, <3>1
    <3>3. ticks = (n + 1) - k + 1
      <4> HIDE DEF n
      <4> QED
        BY <2>1, <3>2
    <3> QED
      BY <1>1, <1>5, <1>8, <2>2, <2>4, <2>5, <3>1, <3>3
  <2> QED
    BY <1>6, <2>8, <2>9
<1> QED
  BY <1>7, <1>8

LEMMA VisitInit == HInit => VisitInv
<1> SUFFICES ASSUME HInit PROVE VisitInv
  OBVIOUS
<1>1. /\ RunInv /\ TimelineInv
      /\ trace = <<>> /\ executed = 0 /\ send_ip = None /\ fill = <<>>
  BY TimelineInit DEF HInit, RunInit, MessageInit
<1>2. DOMAIN trace = {} /\ Len(trace) = 0
  BY <1>1, NothingBound, NothingTraced
<1> QED
  BY <1>1, <1>2 DEF VisitInv, VisitsCovered, StandsAfter

LEMMA VisitStep ==
  ASSUME ExactClock
  PROVE  VisitInv /\ [HNext]_historyVars => VisitInv'
<1> SUFFICES ASSUME VisitInv, [HNext]_historyVars PROVE VisitInv'
  OBVIOUS
<1>1. RunInv' /\ TimelineInv'
  BY TimelineStep DEF VisitInv
<1>2. CASE HNext /\ ~DoSendTick /\ ~DoWaitTick
  BY <1>1, <1>2, QuietStands DEF VisitInv
<1>3. CASE HNext /\ (DoSendTick \/ DoWaitTick)
  <2>1. UNCHANGED <<program, executed>>
    BY <1>3 DEF DoSendTick, DoWaitTick, hostVars
  <2>2. VisitsCovered(trace', program.tape) /\ StandsAfter'
    BY <1>3, WaitStands, TickStands
  <2> QED
    BY <1>1, <2>1, <2>2 DEF VisitInv
<1>4. CASE UNCHANGED historyVars
  BY <1>1, <1>4 DEF historyVars, runVars, messageVars, clockVars, hostVars, sendVars, resultVars,
     VisitInv, StandsAfter
<1> QED
  BY <1>2, <1>3, <1>4

LEMMA CoveredSends == VisitInv => SendsCoverTheirDuration
<1> SUFFICES ASSUME VisitInv, NEW k \in DOMAIN trace, NEW m \in DOMAIN trace, k <= m, IsVisit(k, m)
             PROVE  LET kind == program.tape[trace[k].at].kind
                        due == trace[k].duration
                        elapsed(i) == trace[i].timestamp - trace[k].timestamp
                    IN  /\ \A i \in k..m : trace[i].delay = trace[k].delay
                        /\ kind = "tick" => m - k + 1 <= due
                        /\ kind = "wall" => elapsed(m) < due
                        /\ IsWholeVisit(k, m) =>
                             /\ kind = "tick" => m - k + 1 = due
                             /\ kind = "wall" => elapsed(m) + trace[m].delay >= due
                             /\ kind # "inf"
  BY DEF SendsCoverTheirDuration
<1> DEFINE kind == program.tape[trace[k].at].kind
           due == trace[k].duration
           rate == trace[k].delay
           past == m - k
<1>1. /\ trace \in Seq(TraceEntry) /\ DOMAIN trace = 1..Len(trace) /\ Len(trace) \in Nat
      /\ k \in Nat /\ m \in Nat
  BY DEF VisitInv, TimelineInv
<1>2. /\ due \in Int /\ rate \in Nat /\ trace[k].timestamp \in Nat /\ past \in Nat
  <2>1. \A x \in TraceEntry : x.delay \in Nat /\ x.timestamp \in Nat /\ x.duration \in Int
    BY DEF TraceEntry
  <2>2. trace[k] \in TraceEntry
    BY <1>1
  <2> QED
    BY <1>1, <2>1, <2>2
<1>3. /\ VisitOf(trace, k, m)
      /\ Covered(trace, program.tape, k, m)
      /\ m < Len(trace) /\ ~VisitOf(trace, k, m + 1) => UsedUp(trace, program.tape, k, m)
  BY Visits DEF VisitInv, VisitsCovered
<1>4. IsWholeVisit(k, m) => UsedUp(trace, program.tape, k, m)
  <2>1. CASE m < Len(trace)
    BY <1>3, <2>1, Visits DEF IsWholeVisit
  <2>2. CASE m = Len(trace)
    BY <1>3, <2>2 DEF IsWholeVisit, VisitInv, StandsAfter
  <2> QED
    BY <1>1, <2>1, <2>2
<1>5. /\ \A i \in k..m : trace[i].delay = rate
      /\ trace[m].timestamp = trace[k].timestamp + past * rate
      /\ kind = "tick" => past < due
      /\ kind = "wall" => past * rate < due
  BY <1>3 DEF Covered
<1>6. trace[m].delay = rate
  BY <1>1, <1>5
<1>7. UsedUp(trace, program.tape, k, m) = SendIsDone(kind, past + 1, rate, due)
  BY DEF UsedUp
<1> HIDE DEF kind, due, rate, past
<1>8. past * rate \in Nat /\ (past + 1) * rate = past * rate + rate
  BY <1>2
<1>9. trace[m].timestamp - trace[k].timestamp = past * rate
  BY <1>2, <1>5, <1>8
<1>10. SendIsDone(kind, past + 1, rate, due) =>
         /\ kind = "tick" => past + 1 >= due
         /\ kind = "wall" => past * rate + rate >= due
         /\ kind # "inf"
  BY <1>8 DEF SendIsDone
<1>11. /\ \A i \in k..m : trace[i].delay = rate
       /\ kind = "tick" => past + 1 <= due
       /\ kind = "wall" => trace[m].timestamp - trace[k].timestamp < due
       /\ IsWholeVisit(k, m) =>
            /\ kind = "tick" => past + 1 = due
            /\ kind = "wall" => (trace[m].timestamp - trace[k].timestamp) + trace[m].delay >= due
            /\ kind # "inf"
  BY <1>2, <1>4, <1>5, <1>6, <1>7, <1>9, <1>10
<1> QED
  BY <1>11 DEF kind, due, rate, past

\* On a clock that adds exactly, every visit to a send of any script keeps one
\* rate, never sends a tick more than the script says, and is left only when
\* its ticks or its seconds are used up, on every lap of the loops around it
\* (vm.py:301-312, vm.py:329-340).  A clock that rounds may be off by what it
\* rounds: the code counts ticks, not the time they took.
THEOREM SendsLastAsWritten == ExactClock => (HSpec => []SendsCoverTheirDuration)
<1> SUFFICES ASSUME ExactClock PROVE HSpec => []SendsCoverTheirDuration
  OBVIOUS
<1>1. VisitInv /\ [HNext]_historyVars => VisitInv'
  BY VisitStep
<1> QED
  BY <1>1, VisitInit, CoveredSends, PTL DEF HSpec

-----------------------------------------------------------------------------
(* What a script publishes is what its author wrote.  The invariant is that  *)
(* of MessageHistory_proofs, except that the timers not to be counted on     *)
(* are those that the machine has created for an assignment still to come.   *)

WrittenInv ==
  /\ EntriesOK /\ StaticsLogged
  /\ ~halted => LiveLogged(Waiting)

\* Away from the instructions that prepare an assignment this is just the
\* invariant of message assembly.
LEMMA InMessageTerms ==
  ASSUME AfreshRun, WrittenInv, fill # <<>> \/ Prepared = {}
  PROVE  HistoryInv
<1>1. Waiting = PendingTimers
  BY NothingBound DEF Waiting, PendingTimers
<1>2. LiveInv /\ ValueInv /\ PendingApart
  BY DEF AfreshRun, RunInv, AfreshInv, LiveInv
<1>3. ~halted => LiveLogged(PendingTimers) /\ Unstarted(PendingTimers)
  BY <1>1 DEF WrittenInv, AfreshRun, AfreshInv
<1> QED
  BY <1>2, <1>3 DEF HistoryInv, WrittenInv

LEMMA FromMessageTerms ==
  ASSUME Logged', Waiting' = PendingTimers'
  PROVE  WrittenInv'
BY DEF Logged, WrittenInv, LiveLogged, StartsLogged

\* The log grows with fields and messages only.
LEMMA LogStays ==
  ASSUME HNext, fill = <<>> \/ halted', UNCHANGED sequence \/ result'.kind # "send"
  PROVE  UNCHANGED log
BY DEF HNext, Yields

LEMMA FieldsAreLogged ==
  ASSUME HNext, fill # <<>>, ~halted'
  PROVE  log' = Append(log, FieldEvent)
BY DEF HNext

\* What the tree shows at a field just written is what was written.
LEMMA WrittenBack ==
  ASSUME NEW m, NEW p \in Path, NEW tree, IsTree(tree), IsTree(Store(m, p, tree))
  PROVE  Subtree(Store(m, p, tree), p) = EnvelopeAt(p, tree)
<1> DEFINE stored == Store(m, p, tree)
<1>1. /\ \A r : r \in DOMAIN Subtree(stored, p) <=> r \in Path /\ p \o r \in DOMAIN stored
      /\ \A r \in DOMAIN Subtree(stored, p) : Subtree(stored, p)[r] = stored[p \o r]
  BY SubtreeAt
<1>2. Subtree(stored, p) = [r \in DOMAIN Subtree(stored, p) |-> Subtree(stored, p)[r]]
  BY DEF Subtree
<1>3. CASE p = <<>>
  <2>1. stored = EnvelopeAt(p, tree) /\ IsTree(EnvelopeAt(p, tree))
    BY <1>3 DEF Store, EnvelopeAt
  <2>2. \A r \in Path : p \o r = r
    BY <1>3, EmptySeq, ConcatEmptySeq DEF Path
  <2>3. DOMAIN stored \subseteq Path /\ stored = [r \in DOMAIN stored |-> stored[r]]
    BY <2>1, TreePaths DEF IsTree
  <2> HIDE DEF stored
  <2>4. DOMAIN Subtree(stored, p) = DOMAIN stored
    BY <1>1, <2>2, <2>3
  <2>5. \A r \in DOMAIN stored : Subtree(stored, p)[r] = stored[r]
    BY <1>1, <2>2, <2>3, <2>4
  <2>6. Subtree(stored, p) = stored
    BY <1>2, <2>3, <2>4, <2>5
  <2> QED
    BY <2>1, <2>6 DEF stored
<1>4. CASE p # <<>>
  <2> DEFINE values == [x \in {p} |-> tree]
  <2>1. AreValues(values) /\ p \in DOMAIN values /\ values[p] = tree
    BY OneValue
  <2>2. stored = Overlay(m, values) /\ EnvelopeAt(p, tree) = tree
    BY <1>4 DEF Store, EnvelopeAt
  <2>3. DOMAIN tree \subseteq Path /\ tree = [r \in DOMAIN tree |-> tree[r]]
    BY TreePaths DEF IsTree
  <2> HIDE DEF stored, values
  <2>4. ASSUME NEW r \in Path
        PROVE  /\ p \o r \in DOMAIN stored <=> r \in DOMAIN tree
               /\ p \o r \in DOMAIN stored => stored[p \o r] = tree[r]
    <3>1. p \o r \in Path /\ IsPrefix(p, p \o r) /\ Suffix(p, p \o r) = r
      BY SuffixOfExtended
    <3> QED
      BY <2>1, <2>2, <3>1, OverlayBelow
  <2>5. DOMAIN Subtree(stored, p) = DOMAIN tree
    BY <1>1, <2>3, <2>4
  <2>6. \A r \in DOMAIN tree : Subtree(stored, p)[r] = tree[r]
    BY <1>1, <2>3, <2>4, <2>5
  <2>7. Subtree(stored, p) = tree
    BY <1>2, <2>3, <2>5, <2>6
  <2> QED
    BY <2>2, <2>7 DEF stored
<1> QED
  BY <1>3, <1>4

\* The entry made of a call of _apply_field says what the call did.
LEMMA FieldEventsAreWrites ==
  ASSUME AfreshRun, HNext, ApplyPending
  PROVE  LogApply(Head(fill).path, Head(fill).value)
<1> DEFINE p == Head(fill).path
           v == Head(fill).value
<1>1. phase = "stepping" /\ fill # <<>> /\ CallMade(p, v)
  BY DEF ApplyPending, CallMade
<1>2. ~halted /\ ~halted'
  BY <1>1, FieldsTakeNoTime DEF AfreshRun, RunInv, PlaceInv, CallMade
<1>3. log' = Append(log, FieldEvent)
  BY <1>1, <1>2, FieldsAreLogged
<1>4. FieldEvent = IF v.op = "live" THEN Event("live", p, v)
                   ELSE IF StaticValues(p, v) = {} THEN Event("claim", p, v)
                   ELSE Event("static", p, Subtree(msg', p))
  BY DEF FieldEvent
<1>5. <<p, v>> \in Placement /\ IsTree(msg)
  BY <1>1, PendingIsPlaced DEF AfreshRun, RunInv, BindingInv, ValueInv
<1> HIDE DEF p, v
<1>6. ASSUME v.op = "live" PROVE StaticValues(p, v) = {}
  <2>1. <<p, v>>[2] = v
    OBVIOUS
  <2>2. v.timers = {v.timer}
    BY <1>5, <1>6, <2>1, PlacementAssumption
  <2>3. v.values = {}
    BY <1>5, <2>1, <2>2, PrivacyAssumption
  <2> QED
    BY <1>6, <2>3 DEF StaticValues
<1>7. ASSUME NEW tree \in StaticValues(p, v), WriteValue(p, tree, v.reads)
      PROVE  LogApply(p, v)
  <2>1. p \in Path /\ IsTree(tree)
    BY <1>5, StaticValuesAreTrees
  <2>2. msg' = Store(msg, p, tree) /\ IsTree(msg')
    BY <1>5, <1>7, <2>1, StoreIsObject DEF WriteValue, AfreshRun, ValueInv
  <2>3. Subtree(msg', p) = EnvelopeAt(p, tree)
    BY <2>1, <2>2, WrittenBack
  <2>4. v.op # "live" /\ StaticValues(p, v) # {}
    BY <1>6, <1>7
  <2>5. Record("static", p, EnvelopeAt(p, tree))
    BY <1>3, <1>4, <2>3, <2>4 DEF Record
  <2> QED
    BY <1>7, <2>5 DEF LogApply
<1>8. ASSUME ApplyFill(p, v) PROVE LogApply(p, v)
  <2>1. v.op = "array" /\ ~PlainAt(p)
    BY <1>8 DEF ApplyFill, PlainAt, TypeAt
  <2>2. StaticValues(p, v) = {} /\ v.op # "live"
    BY <2>1 DEF StaticValues
  <2>3. Record("claim", p, v)
    BY <1>3, <1>4, <2>2 DEF Record
  <2> QED
    BY <1>8, <2>3 DEF LogApply
<1>9. ASSUME ApplyLive(p, v) PROVE LogApply(p, v)
  <2>1. v.op = "live"
    BY <1>9 DEF ApplyLive
  <2>2. Record("live", p, v)
    BY <1>3, <1>4, <2>1 DEF Record
  <2> QED
    BY <1>9, <2>2 DEF LogApply
<1> QED
  BY <1>1, <1>7, <1>8, <1>9 DEF CallMade, ApplyStatic, p, v

LEMMA SentIsLogged ==
  ASSUME RunInv, sequence \in Nat, HNext, DoSendTick
  PROVE  Record("send", <<>>, <<>>) /\ \E period \in Delay : Publish(period, ScheduleReads)
<1>1. PICK period \in Delay : /\ Publish(period, ScheduleReads)
                              /\ result' = Outcome("send", period, master_t, sequence)
  BY DEF DoSendTick, Return
<1>2. fill = <<>> /\ sequence' = sequence + 1
  BY DEF DoSendTick, At
<1>3. result'.kind = "send"
  BY <1>1 DEF Outcome
<1>4. log' = Append(log, Event("send", <<>>, <<>>))
  BY <1>2, <1>3 DEF HNext, Yields
<1> QED
  BY <1>1, <1>4 DEF Record

-----------------------------------------------------------------------------
(* The invariant, step by step. *)

\* A binding in force reads a timer of its own, and that exists.
LEMMA StartsOfBindings ==
  ASSUME AfreshRun, BindingsLogged, NEW i \in DOMAIN log, InForce(log, i)
  PROVE  log[i].value.timer \in PrivateTimers \cap DOMAIN timers
<1>1. log[i].path \in DOMAIN live_bindings /\ live_bindings[log[i].path] = log[i].value
  BY DEF BindingsLogged
<1> QED
  BY <1>1, BoundTimersArePrivate DEF AfreshRun, RunInv, BindingInv, AfreshInv, LiveTimersExist

\* The log and what it speaks of stay; the timers that move are waited for.
LEMMA TimersMove ==
  ASSUME AfreshRun, WrittenInv, ~halted, UNCHANGED <<log, msg, live_bindings, statics>>,
         Waiting \subseteq Waiting',
         \A n \in (PrivateTimers \cap DOMAIN timers) \ Waiting' : timers'[n].offset = timers[n].offset
  PROVE  WrittenInv'
<1>1. EntriesOK' /\ StaticsLogged'
  BY DEF WrittenInv, EntriesOK, StaticsLogged
<1>2. BindingsLogged /\ CountersLogged /\ StartsLogged(Waiting)
  BY DEF WrittenInv, LiveLogged
<1>3. BindingsLogged' /\ CountersLogged'
  BY <1>2 DEF BindingsLogged, CountersLogged
<1>4. StartsLogged(Waiting)'
  <2> SUFFICES ASSUME NEW i \in DOMAIN log, InForce(log, i),
                      log[i].value.timer \in log[i].value.bodyReads, log[i].value.timer \notin Waiting'
               PROVE  RunsFrom(log, i, timers'[log[i].value.timer].offset)
    BY DEF StartsLogged
  <2>1. log[i].value.timer \in PrivateTimers \cap DOMAIN timers
    BY <1>2, StartsOfBindings
  <2>2. timers'[log[i].value.timer].offset = timers[log[i].value.timer].offset
    BY <2>1
  <2>3. RunsFrom(log, i, timers[log[i].value.timer].offset)
    BY <1>2 DEF StartsLogged
  <2> QED
    BY <2>2, <2>3
<1> QED
  BY <1>1, <1>3, <1>4 DEF WrittenInv, LiveLogged

LEMMA PlainKeepsWritten ==
  ASSUME AfreshRun, WrittenInv, ~halted, Plain, UNCHANGED <<log, msg>>
  PROVE  WrittenInv'
<1>1. Waiting = {} /\ Waiting' = {}
  BY DEF Waiting, Plain
<1>2. \A n \in PrivateTimers \cap DOMAIN timers : timers'[n].offset = timers[n].offset
  BY DEF Plain, PrivateKept
<1> QED
  BY <1>1, <1>2, TimersMove DEF Plain

LEMMA CreatingKeepsWritten ==
  ASSUME AfreshRun, WrittenInv, HNext, ExecCreateTimer
  PROVE  WrittenInv'
<1>1. /\ fill = <<>> /\ fill' = fill /\ ip <= Len(program.tape) /\ Instr.op = "create" /\ phase = "stepping"
      /\ timers' = Created({Instr.name}, Instr.kind) /\ ip' = ip + 1
      /\ UNCHANGED <<halted, program, msg, live_bindings, statics, sequence>>
  BY DEF ExecCreateTimer, CreateTimer, Instant, At, MessageKept, bindingVars, hostVars, resultVars
<1>2. ~halted /\ log' = log
  BY <1>1, LogStays DEF AfreshRun, RunInv, PlaceInv
<1>3. Waiting = Prepared /\ Waiting' = Prepared'
  BY <1>1 DEF Waiting
<1>4. Prepared' = Prepared \cup ({Instr.name} \cap PrivateTimers)
  <2>1. Prepared' = PreparedBefore(program.tape, ip + 1) \cap PrivateTimers
    BY <1>1 DEF Prepared
  <2> QED
    BY <1>1, <2>1, OnTheCompiledTape DEF AfreshRun, RunInv
<1>5. \A n \in DOMAIN timers : n # Instr.name => timers'[n] = timers[n]
  BY <1>1 DEF Created
<1>6. \A n \in (PrivateTimers \cap DOMAIN timers) \ Waiting' : timers'[n].offset = timers[n].offset
  BY <1>3, <1>4, <1>5
<1> QED
  BY <1>1, <1>2, <1>3, <1>4, <1>6, TimersMove

LEMMA SettingKeepsWritten ==
  ASSUME AfreshRun, WrittenInv, HNext, ExecSetField
  PROVE  WrittenInv'
<1>1. /\ fill = <<>> /\ phase = "stepping"
      /\ UNCHANGED <<halted, timers, msg, live_bindings, statics, sequence>>
  BY DEF ExecSetField, Instant, At, bindingVars, clockVars, resultVars
<1>2. ~halted /\ log' = log
  BY <1>1, LogStays DEF AfreshRun, RunInv, PlaceInv
<1>3. Waiting' = Waiting
  BY SettingWaits DEF AfreshRun
<1> QED
  BY <1>1, <1>2, <1>3, TimersMove

LEMMA ApplyingKeepsWritten ==
  ASSUME AfreshRun, WrittenInv, HNext, ApplyPending
  PROVE  WrittenInv'
<1> DEFINE p == Head(fill).path
           v == Head(fill).value
<1>1. ~halted /\ ~halted' /\ fill # <<>> /\ HistoryInv /\ LogApply(p, v)
  BY InMessageTerms, FieldEventsAreWrites, FieldsTakeNoTime DEF ApplyPending, AfreshRun, RunInv, PlaceInv
<1>2. ASSUME NEW tree \in StaticValues(p, v), WriteValue(p, tree, v.reads),
             Record("static", p, EnvelopeAt(p, tree))
      PROVE  Logged'
  BY <1>1, <1>2, StaticStep
<1>3. CASE ApplyFill(p, v) /\ Record("claim", p, v)
  <2>1. Logged'
    BY <1>1, <1>3, FillStep
  <2> QED
    BY <2>1, ApplyingWaits, FromMessageTerms DEF AfreshRun
<1>4. CASE ApplyLive(p, v) /\ Record("live", p, v)
  <2>1. Logged'
    BY <1>1, <1>4, BindStep
  <2> QED
    BY <2>1, ApplyingWaits, FromMessageTerms DEF AfreshRun
<1>5. ~FieldRaises(p, v)
  BY <1>1 DEF FieldRaises
<1> HIDE DEF p, v
<1>6. Waiting' = PendingTimers'
  BY ApplyingWaits DEF AfreshRun
<1> QED
  BY <1>1, <1>2, <1>3, <1>4, <1>5, <1>6, FromMessageTerms DEF LogApply

LEMMA SendingKeepsWritten ==
  ASSUME AfreshRun, WrittenInv, sequence \in Nat, HNext, DoSendTick
  PROVE  WrittenInv'
<1>1. /\ fill = <<>> /\ ip <= Len(program.tape) /\ Instr.op = "send" /\ phase = "stepping"
      /\ ip' \in {ip, ip + 1} /\ UNCHANGED program
  BY DEF DoSendTick, At, hostVars
<1>2. Prepared = {} /\ Prepared' = {}
  BY <1>1, AwayFromAssignments DEF AfreshRun
<1>3. ~halted /\ HistoryInv
  BY <1>1, <1>2, InMessageTerms DEF AfreshRun, RunInv, PlaceInv
<1>4. PICK period \in Delay : Publish(period, ScheduleReads)
  BY SentIsLogged DEF AfreshRun
<1>5. Logged'
  BY <1>1, <1>3, <1>4, SentIsLogged, SendStep DEF AfreshRun
<1>6. fill' = <<>>
  BY <1>1, <1>4 DEF Publish
<1>7. Waiting' = PendingTimers'
  BY <1>2, <1>6, NothingBound DEF Waiting, PendingTimers
<1> QED
  BY <1>5, <1>7, FromMessageTerms

\* The run has ended: what the log says of bindings no longer matters.
LEMMA EndingKeepsWritten ==
  ASSUME WrittenInv, HNext, halted', UNCHANGED <<msg, sequence>>
  PROVE  WrittenInv'
<1>1. log' = log
  BY LogStays
<1> QED
  BY <1>1 DEF WrittenInv, EntriesOK, StaticsLogged

LEMMA WrittenStep ==
  AfreshRun /\ WrittenInv /\ RegistersTypeOK /\ [HNext]_historyVars => WrittenInv'
<1> SUFFICES ASSUME AfreshRun, WrittenInv, RegistersTypeOK, [HNext]_historyVars PROVE WrittenInv'
  OBVIOUS
<1>1. sequence \in Nat
  BY DEF RegistersTypeOK
<1>2. ASSUME UNCHANGED <<halted, timers, live_bindings, statics, fill, program, ip, msg, log>>
      PROVE  WrittenInv'
  <2>1. Prepared' = Prepared /\ PendingTimers' = PendingTimers
    BY <1>2 DEF Prepared, PendingTimers
  <2>2. Waiting' = Waiting
    BY <1>2, <2>1 DEF Waiting
  <2> QED
    BY <1>2, <2>2 DEF WrittenInv, EntriesOK, StaticsLogged, LiveLogged, BindingsLogged,
       CountersLogged, StartsLogged
<1>3. CASE UNCHANGED historyVars
  BY <1>2, <1>3 DEF historyVars, runVars, messageVars, clockVars, hostVars
<1>4. ASSUME HNext, CallStep \/ CallAfterEnd PROVE WrittenInv'
  <2>1. /\ UNCHANGED <<halted, timers, live_bindings, statics, fill, program, ip, msg, sequence>>
        /\ fill = <<>> \/ halted'
    BY <1>4 DEF CallStep, CallAfterEnd, messageVars, clockVars, hostVars, AfreshRun, RunInv, PlaceInv
  <2> QED
    BY <1>2, <1>4, <2>1, LogStays
<1>5. ASSUME HNext, \/ ExecLoopValue \/ ExecSetVar \/ ExecSetVarIndex \/ ExecSeed \/ ExecJumpIfFalse
                    \/ ExecClearVar \/ ExecResetTimer \/ ExecJump \/ DoWaitTick
      PROVE  WrittenInv'
  <2>1. fill = <<>> /\ msg' = msg /\ phase = "stepping" /\ (UNCHANGED sequence \/ DoWaitTick)
    BY <1>5 DEF ExecLoopValue, ExecSetVar, ExecSetVarIndex, ExecSeed, ExecJumpIfFalse,
       ExecClearVar, ExecResetTimer, ExecJump, DoWaitTick, Instant, At, MessageKept, resultVars
  <2>2. DoWaitTick => result'.kind = "wait"
    BY DEF DoWaitTick, Return, Outcome
  <2>3. ~halted /\ log' = log
    BY <1>5, <2>1, <2>2, LogStays DEF AfreshRun, RunInv, PlaceInv
  <2>4. Plain
    BY <1>5, ReadingsArePlain, OthersArePlain DEF AfreshRun
  <2> QED
    BY <2>1, <2>3, <2>4, PlainKeepsWritten
<1>6. ASSUME HNext, RunOff \/ InstantRaises \/ BudgetExceeded \/ SendRaises \/ WaitRaises \/ PendingRaises
      PROVE  WrittenInv'
  <2>1. halted' /\ UNCHANGED <<msg, sequence>>
    BY <1>6 DEF RunOff, InstantRaises, BudgetExceeded, Fails, MessageKept, SendRaises, PublishRaises,
       WaitRaises, PendingRaises, FieldRaises
  <2> QED
    BY <1>6, <2>1, EndingKeepsWritten
<1> QED
  BY <1>1, <1>3, <1>4, <1>5, <1>6, CreatingKeepsWritten, SettingKeepsWritten, ApplyingKeepsWritten,
     SendingKeepsWritten DEF HNext, RunNext, Stepping

LEMMA WrittenInit == HInit => WrittenInv
<1> SUFFICES ASSUME HInit PROVE WrittenInv
  OBVIOUS
<1>1. log = <<>> /\ live_bindings = <<>> /\ msg = Base
  BY DEF HInit, RunInit, MessageInit, Base
<1>2. DOMAIN log = {} /\ DOMAIN live_bindings = {}
  BY <1>1, NothingBound
<1>3. EntriesOK
  BY <1>1, <1>2 DEF EntriesOK, IsLog
<1>4. StaticsLogged
  BY <1>1, <1>2 DEF StaticsLogged, Answers, FromBase
<1>5. LiveLogged(Waiting)
  BY <1>2 DEF LiveLogged, BindingsLogged, CountersLogged, StartsLogged
<1> QED
  BY <1>3, <1>4, <1>5 DEF WrittenInv

-----------------------------------------------------------------------------
\* Every step of the machine is a write, a send, the passing of time, or none
\* of the author's business.
LEMMA RunIsAuthored ==
  AfreshRun /\ WrittenInv /\ RegistersTypeOK /\ [HNext]_historyVars =>
    [Authored!OwnershipNext]_(Authored!ownershipVars)
<1> SUFFICES ASSUME AfreshRun, WrittenInv, RegistersTypeOK, [HNext]_historyVars
             PROVE  Authored!OwnershipNext \/ UNCHANGED Authored!ownershipVars
  OBVIOUS
<1>1. ASSUME UNCHANGED <<log, published, master_t>> PROVE UNCHANGED Authored!ownershipVars
  BY <1>1 DEF Authored!ownershipVars
<1>2. CASE UNCHANGED historyVars
  BY <1>1, <1>2 DEF historyVars, runVars, messageVars, clockVars
<1>3. ASSUME HNext, ApplyPending PROVE Authored!OwnershipNext \/ UNCHANGED Authored!ownershipVars
  BY <1>3, FieldEventsAreWrites, ApplyIsAuthored DEF WrittenInv
<1>4. ASSUME HNext, DoSendTick PROVE Authored!OwnershipNext
  <2>1. /\ fill = <<>> /\ ip <= Len(program.tape) /\ Instr.op = "send" /\ phase = "stepping"
    BY <1>4 DEF DoSendTick, At
  <2>2. Prepared = {}
    BY <2>1, OnTheCompiledTape DEF AfreshRun, RunInv
  <2>3. ~halted /\ HistoryInv
    BY <2>1, <2>2, InMessageTerms DEF AfreshRun, RunInv, PlaceInv
  <2>4. Record("send", <<>>, <<>>) /\ \E period \in Delay : Publish(period, ScheduleReads)
    BY <1>4, SentIsLogged DEF AfreshRun, RegistersTypeOK
  <2> QED
    BY <2>1, <2>3, <2>4, PublishIsAuthored
<1>5. ASSUME HNext, DoWaitTick PROVE Authored!OwnershipNext
  <2>1. fill = <<>> /\ published' = published /\ result'.kind = "wait" /\ master_t' > master_t
    BY <1>5 DEF DoWaitTick, At, MessageKept, Return, Outcome, Advance, CanAdvance
  <2>2. log' = log
    BY <1>5, <2>1, LogStays
  <2> QED
    BY <2>1, <2>2 DEF Authored!OwnershipNext, Authored!Pass
<1>6. ASSUME HNext, ~ApplyPending, ~DoSendTick, ~DoWaitTick
      PROVE  UNCHANGED <<log, published, master_t>>
  <2>1. UNCHANGED <<master_t, sequence>>
    BY <1>6, OtherStepsAreQuiet DEF HNext, Quiet
  <2>2. CASE CallStep \/ CallAfterEnd
    <3>1. published' = published /\ (fill = <<>> \/ halted')
      BY <2>2 DEF CallStep, CallAfterEnd, messageVars, clockVars, AfreshRun, RunInv, PlaceInv
    <3> QED
      BY <1>6, <2>1, <3>1, LogStays
  <2>3. CASE \/ ExecLoopValue \/ ExecSetVar \/ ExecSetVarIndex \/ ExecSeed \/ ExecJumpIfFalse
             \/ ExecClearVar \/ ExecResetTimer \/ ExecJump \/ ExecCreateTimer \/ ExecSetField
    <3>1. published' = published /\ fill = <<>>
      BY <2>3 DEF ExecLoopValue, ExecSetVar, ExecSetVarIndex, ExecSeed, ExecJumpIfFalse,
         ExecClearVar, ExecResetTimer, ExecJump, ExecCreateTimer, ExecSetField, Instant, At, MessageKept
    <3> QED
      BY <1>6, <2>1, <3>1, LogStays
  <2>4. CASE RunOff \/ InstantRaises \/ BudgetExceeded \/ SendRaises \/ WaitRaises \/ PendingRaises
    <3>1. published' = published /\ halted'
      BY <2>4 DEF RunOff, InstantRaises, BudgetExceeded, Fails, MessageKept, SendRaises, PublishRaises,
         WaitRaises, PendingRaises, FieldRaises
    <3> QED
      BY <1>6, <2>1, <3>1, LogStays
  <2> QED
    BY <1>6, <2>2, <2>3, <2>4 DEF HNext, RunNext, Stepping
<1> QED
  BY <1>1, <1>2, <1>3, <1>4, <1>5, <1>6

\* What a compiled script publishes is what its author wrote, in every script
\* and whatever the host gives it: between the message and the script stand a
\* tape of instructions, the order in which they create and bind, and loops that
\* come back to them (compiler.py:227-238, vm.py:450-493, vm.py:561-601).
THEOREM ScriptsPublishWhatWasAuthored == HSpec => RunPublishesWhatWasAuthored
<1> DEFINE Inv == AfreshRun /\ WrittenInv /\ RegistersTypeOK
<1>1. HInit => Inv
  BY WrittenInit, RunInvInit, ValueInit, AfreshInit, RegistersInit DEF HInit, RunInit, AfreshRun
<1>2. Inv /\ [HNext]_historyVars => Inv'
  <2>1. [HNext]_historyVars => [RunNext]_runVars
    BY DEF HNext, historyVars
  <2> QED
    BY <2>1, WrittenStep, RunInvStep, RunValueStep, AfreshStep, RegistersStep DEF AfreshRun
<1>3. HInit => Authored!OwnershipInit
  BY DEF HInit, RunInit, MessageInit, TimersInit, Authored!OwnershipInit
<1>4. Inv /\ [HNext]_historyVars => [Authored!OwnershipNext]_(Authored!ownershipVars)
  BY RunIsAuthored
<1> QED
  BY <1>1, <1>2, <1>3, <1>4, PTL DEF HSpec, RunPublishesWhatWasAuthored, Authored!OwnershipSpec
=============================================================================
