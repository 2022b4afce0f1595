-------------------------- MODULE ScriptRun_proofs --------------------------
(***************************************************************************)
(* For every set of compiled scripts: a run that has ended stays as it is, *)
(* a send is left only when it is done, bindings never overlap and statics *)
(* follow them, and time moves only with the results handed to the host.   *)
(***************************************************************************)
EXTENDS ScriptRun, Message_proofs

\* Where the machine is.  Calls of _apply_field are pending only while step()
\* is at a SetField, and nothing goes on after an error.
PlaceInv ==
  /\ program \in Programs
  /\ ip \in Nat \ {0}
  /\ halted => phase = "idle"
  /\ fill # <<>> => phase = "stepping" /\ ip <= Len(program.tape) /\ Instr.op = "field"

SendInv == SendInProgress /\ send_ticks_done \in Nat

RunInv == PlaceInv /\ SendInv /\ BindingInv

\* The instruction about to be executed is one of the tape.
LEMMA OnTheTape ==
  ASSUME PlaceInv, ip <= Len(program.tape)
  PROVE  /\ Instr.op = "field" => <<Instr.path, Instr.value>> \in Placement
         /\ Instr.op \in {"jump", "branch"} => Instr.target \in Nat \ {0}
         /\ Instr.op = "create" => Instr.name \in TimerName /\ Instr.kind \in TimerKind
<1>1. program \in Programs /\ Len(program.tape) \in Nat /\ ip \in 1..Len(program.tape)
  BY RunAssumption DEF PlaceInv
<1> QED
  BY <1>1, RunAssumption DEF Instr

-----------------------------------------------------------------------------
(* Kinds of steps. *)

\* An instruction that leaves the message alone and goes on.
GoesOn ==
  /\ \E op \in InstantOps \cup {"wait"} : At({op})
  /\ UNCHANGED <<halted, hostVars, sendVars, msg, bindingVars, fill, published>>
  /\ ip' \in Nat \ {0}

LEMMA GoingOn == RunInv /\ GoesOn => RunInv'
<1> SUFFICES ASSUME RunInv, GoesOn PROVE RunInv'
  OBVIOUS
<1>1. phase = "stepping" /\ fill = <<>> /\ ip <= Len(program.tape) /\ Instr.op # "send"
  BY DEF GoesOn, At, InstantOps, InstantEvaluates
<1>2. ~halted /\ send_ip = None
  BY <1>1 DEF RunInv, PlaceInv, SendInv, SendInProgress
<1>3. PlaceInv'
  BY <1>1, <1>2 DEF GoesOn, RunInv, PlaceInv, hostVars
<1>4. SendInv'
  BY <1>2 DEF GoesOn, RunInv, SendInv, SendInProgress, sendVars
<1>5. BindingInv'
  BY <1>2, SameBindings DEF GoesOn, RunInv, BindingInv, bindingVars
<1> QED
  BY <1>3, <1>4, <1>5 DEF RunInv

\* A step that ends the run and leaves the bindings alone.
EndsRun ==
  /\ phase = "stepping" /\ halted' = TRUE /\ phase' = "idle"
  /\ UNCHANGED <<program, ip, live_bindings>>
  /\ fill = <<>> /\ fill' = <<>>
  /\ send_ticks_done' \in {send_ticks_done, 0}

LEMMA Ending == RunInv /\ EndsRun => RunInv'
<1> SUFFICES ASSUME RunInv, EndsRun PROVE RunInv'
  OBVIOUS
<1>1. PlaceInv' /\ SendInv'
  BY DEF EndsRun, RunInv, PlaceInv, SendInv, SendInProgress
<1>2. BindingInv'
  BY DEF EndsRun, RunInv, BindingInv, LiveAntichain, BindingsPlaced, StaticsFollowBindings
<1> QED
  BY <1>1, <1>2 DEF RunInv

\* The instructions that go on.
LEMMA InstantsGoOn ==
  ASSUME RunInv,
         \/ ExecLoopValue \/ ExecClearVar \/ ExecSetVar \/ ExecSetVarIndex \/ ExecSeed
         \/ ExecCreateTimer \/ ExecResetTimer \/ ExecJump \/ ExecJumpIfFalse
  PROVE  GoesOn
<1>1. ip + 1 \in Nat \ {0}
  BY DEF RunInv, PlaceInv
<1>2. CASE ExecLoopValue
  BY <1>1, <1>2 DEF ExecLoopValue, GoesOn, Instant, InstantOps, InstantEvaluates, ReadFor, MessageKept
<1>3. CASE ExecClearVar
  BY <1>1, <1>3 DEF ExecClearVar, GoesOn, Instant, InstantOps, InstantEvaluates, clockVars, MessageKept
<1>4. CASE ExecSetVar
  BY <1>1, <1>4 DEF ExecSetVar, GoesOn, Instant, InstantOps, InstantEvaluates, ReadFor, MessageKept
<1>5. CASE ExecSetVarIndex
  BY <1>1, <1>5 DEF ExecSetVarIndex, GoesOn, Instant, InstantOps, InstantEvaluates, ReadFor, MessageKept
<1>6. CASE ExecSeed
  BY <1>1, <1>6 DEF ExecSeed, GoesOn, Instant, InstantOps, InstantEvaluates, ReadFor, MessageKept
<1>7. CASE ExecCreateTimer
  BY <1>1, <1>7 DEF ExecCreateTimer, CreateTimer, GoesOn, Instant, InstantOps, MessageKept
<1>8. CASE ExecResetTimer
  BY <1>1, <1>8 DEF ExecResetTimer, ResetTimer, GoesOn, Instant, InstantOps, InstantEvaluates, MessageKept
<1>9. CASE ExecJump
  <2>1. Instr.target \in Nat \ {0}
    BY <1>9, OnTheTape DEF ExecJump, Instant, At, RunInv
  <2> QED
    BY <1>9, <2>1 DEF ExecJump, GoesOn, Instant, InstantOps, clockVars, MessageKept
<1>10. CASE ExecJumpIfFalse
  <2>1. Instr.target \in Nat \ {0}
    BY <1>10, OnTheTape DEF ExecJumpIfFalse, Instant, At, RunInv
  <2>2. ip' \in {ip + 1, Instr.target}
    BY <1>10 DEF ExecJumpIfFalse
  <2> QED
    BY <1>1, <1>10, <2>1, <2>2
       DEF ExecJumpIfFalse, GoesOn, Instant, InstantOps, InstantEvaluates, ReadFor, MessageKept
<1> QED
  BY <1>2, <1>3, <1>4, <1>5, <1>6, <1>7, <1>8, <1>9, <1>10

LEMMA WaitGoesOn ==
  ASSUME RunInv, DoWaitTick
  PROVE  GoesOn
<1>1. ip + 1 \in Nat \ {0}
  BY DEF RunInv, PlaceInv
<1> QED
  BY <1>1 DEF DoWaitTick, GoesOn, MessageKept

LEMMA RaisesEnd ==
  ASSUME RunInv, RunOff \/ InstantRaises \/ BudgetExceeded \/ SendRaises \/ WaitRaises
  PROVE  EndsRun
<1>1. CASE RunOff
  BY <1>1 DEF RunOff, EndsRun, Return, hostVars, bindingVars, sendVars
<1>2. CASE InstantRaises
  BY <1>2 DEF InstantRaises, Fails, At, EndsRun, Return, MessageKept, hostVars, bindingVars, sendVars
<1>3. CASE SendRaises
  BY <1>3 DEF SendRaises, PublishRaises, At, EndsRun, Return, hostVars
<1>4. CASE WaitRaises
  BY <1>4 DEF WaitRaises, Fails, At, EndsRun, Return, MessageKept, hostVars, bindingVars, sendVars
<1>5. CASE BudgetExceeded
  BY <1>5 DEF BudgetExceeded, Fails, At, EndsRun, Return, MessageKept, hostVars, bindingVars, sendVars
<1> QED
  BY <1>1, <1>2, <1>3, <1>4, <1>5

-----------------------------------------------------------------------------
(* Assignments and sends. *)

LEMMA FieldIsPending ==
  ASSUME RunInv, ExecSetField
  PROVE  RunInv'
<1>1. /\ phase = "stepping" /\ ip <= Len(program.tape) /\ Instr.op = "field"
      /\ UNCHANGED <<halted, hostVars, sendVars, resultVars, ip, live_bindings, statics>>
  BY DEF ExecSetField, Instant, At, clockVars, bindingVars
<1>2. ~halted
  BY <1>1 DEF RunInv, PlaceInv
<1>3. fill' \in Seq(FillItem)
  <2>1. <<Instr.path, Instr.value>> \in Placement
    BY <1>1, OnTheTape DEF RunInv
  <2>2. <<Instr.path, Instr.value>>[1] = Instr.path /\ <<Instr.path, Instr.value>>[2] = Instr.value
    OBVIOUS
  <2>3. [path |-> Instr.path, value |-> Instr.value] \in FillItem
    BY <2>1, <2>2 DEF FillItem
  <2> QED
    BY <2>3 DEF ExecSetField
<1>4. PlaceInv' /\ SendInv'
  BY <1>1, <1>2 DEF RunInv, PlaceInv, SendInv, SendInProgress, hostVars, sendVars, resultVars, Instr
<1>5. BindingInv'
  BY <1>1, <1>2, <1>3, SameBindings DEF RunInv, BindingInv
<1> QED
  BY <1>4, <1>5 DEF RunInv

LEMMA PendingGoesOn ==
  ASSUME RunInv, ApplyPending
  PROVE  RunInv'
<1>1. /\ phase = "stepping" /\ fill # <<>> /\ UNCHANGED <<hostVars, sendVars, resultVars>>
      /\ ip' = IF fill' = <<>> THEN ip + 1 ELSE ip
  BY DEF ApplyPending
<1>2. ~halted /\ Instr.op = "field" /\ ip <= Len(program.tape) /\ send_ip = None
  BY <1>1 DEF RunInv, PlaceInv, SendInv, SendInProgress
<1>3. UNCHANGED halted
  BY DEF ApplyPending, ApplyStatic, WriteValue, ApplyFill, ApplyLive, clockVars
<1>4. BindingInv'
  BY <1>1, <1>2, ApplyKeepsBindings DEF RunInv, ApplyPending, ApplyNext, ApplyField
<1>5. PlaceInv' /\ SendInv'
  BY <1>1, <1>2, <1>3
     DEF RunInv, PlaceInv, SendInv, SendInProgress, hostVars, sendVars, resultVars, Instr
<1> QED
  BY <1>4, <1>5 DEF RunInv

LEMMA PendingEnds ==
  ASSUME RunInv, PendingRaises
  PROVE  RunInv'
<1>1. /\ phase = "stepping" /\ fill # <<>> /\ halted' = TRUE /\ fill' = <<>> /\ phase' = "idle"
      /\ UNCHANGED <<hostVars, ip, sendVars>>
  BY DEF PendingRaises, FieldRaises, Return
<1>2. BindingInv'
  BY <1>1, ApplyKeepsBindings DEF RunInv, PlaceInv, PendingRaises, ApplyNext, ApplyField
<1>3. PlaceInv' /\ SendInv'
  BY <1>1 DEF RunInv, PlaceInv, SendInv, SendInProgress, hostVars, sendVars
<1> QED
  BY <1>2, <1>3 DEF RunInv

\* A tick that does not finish its send leaves it in progress.
LEMMA TickKeepsSend ==
  ASSUME RunInv, DoSendTick
  PROVE  RunInv'
<1>1. /\ phase = "stepping" /\ phase' = "idle" /\ fill = <<>>
      /\ ip <= Len(program.tape) /\ Instr.op = "send"
      /\ UNCHANGED hostVars
  BY DEF DoSendTick, At, Return
<1>2. PICK period, duration :
        LET ticks == (IF Entering THEN 0 ELSE send_ticks_done) + 1
            done == SendIsDone(Instr.kind, ticks, period, duration)
        IN  /\ Publish(period, ScheduleReads)
            /\ send_ip' = IF done THEN None ELSE ip
            /\ ip' = IF done THEN ip + 1 ELSE ip
            /\ send_ticks_done' = ticks
            /\ send_period' = period
            /\ send_duration' = duration
  BY DEF DoSendTick, NextSend
<1>3. UNCHANGED <<halted, fill>>
  BY <1>2 DEF Publish
<1>4. BindingInv'
  BY <1>1, <1>2, PublishKeepsBindings DEF RunInv, PlaceInv
<1>5. PlaceInv'
  BY <1>1, <1>2, <1>3 DEF RunInv, PlaceInv, hostVars
<1>6. send_ticks_done' \in Nat /\ send_ticks_done' >= 1
  BY <1>2 DEF RunInv, SendInv
<1>7. SendInProgress'
  BY <1>1, <1>2, <1>6 DEF SendInProgress, hostVars, Instr, None
<1> QED
  BY <1>4, <1>5, <1>6, <1>7 DEF RunInv, SendInv

LEMMA RunInvStep == RunInv /\ [RunNext]_runVars => RunInv'
<1> SUFFICES ASSUME RunInv, [RunNext]_runVars PROVE RunInv'
  OBVIOUS
<1>1. CASE CallStep
  <2>1. /\ UNCHANGED <<messageVars, program, ip, sendVars>>
        /\ ~halted /\ phase = "idle"
    BY <1>1 DEF CallStep, hostVars
  <2> QED
    BY <2>1 DEF RunInv, PlaceInv, SendInv, SendInProgress, BindingInv, LiveAntichain, BindingsPlaced,
       StaticsFollowBindings, messageVars, clockVars, sendVars, Instr
<1>2. CASE CallAfterEnd \/ UNCHANGED runVars
  <2>1. UNCHANGED <<messageVars, program, ip, sendVars, phase>>
    BY <1>2 DEF CallAfterEnd, hostVars, runVars, resultVars
  <2> QED
    BY <2>1 DEF RunInv, PlaceInv, SendInv, SendInProgress, BindingInv, LiveAntichain, BindingsPlaced,
       StaticsFollowBindings, messageVars, clockVars, sendVars, Instr
<1>3. CASE RunOff \/ InstantRaises \/ BudgetExceeded \/ SendRaises \/ WaitRaises
  BY <1>3, RaisesEnd, Ending
<1>4. CASE \/ ExecLoopValue \/ ExecClearVar \/ ExecSetVar \/ ExecSetVarIndex \/ ExecSeed
           \/ ExecCreateTimer \/ ExecResetTimer \/ ExecJump \/ ExecJumpIfFalse
  BY <1>4, InstantsGoOn, GoingOn
<1>5. CASE ExecSetField
  BY <1>5, FieldIsPending
<1>6. CASE ApplyPending
  BY <1>6, PendingGoesOn
<1>7. CASE PendingRaises
  BY <1>7, PendingEnds
<1>8. CASE DoSendTick
  BY <1>8, TickKeepsSend
<1>9. CASE DoWaitTick
  BY <1>9, WaitGoesOn, GoingOn
<1> QED
  BY <1>1, <1>2, <1>3, <1>4, <1>5, <1>6, <1>7, <1>8, <1>9 DEF RunNext, Stepping

LEMMA RunInvInit == RunInit => RunInv
<1> SUFFICES ASSUME RunInit PROVE RunInv
  OBVIOUS
<1>1. MessageInit /\ program \in Programs /\ ip = 1 /\ send_ip = None /\ send_ticks_done = 0
      /\ phase = "idle"
  BY DEF RunInit
<1>2. fill = <<>>
  BY <1>1 DEF MessageInit
<1> QED
  BY <1>1, <1>2, BindingInit DEF RunInv, PlaceInv, SendInv, SendInProgress

-----------------------------------------------------------------------------
\* A send is left only by finishing it, in every script: a later visit never
\* inherits ticks or a schedule (vm.py:301, vm.py:320-323).
THEOREM SendsAreFinished == RunSpec => []SendInProgress
<1>1. RunInv => SendInProgress
  BY DEF RunInv, SendInv
<1> QED
  BY <1>1, RunInvInit, RunInvStep, PTL DEF RunSpec

\* The bindings of a running script never overlap (vm.py:450-465).
THEOREM RunBindingsNeverOverlap == RunSpec => []LiveAntichain
<1>1. RunInv => LiveAntichain
  BY DEF RunInv, BindingInv
<1> QED
  BY <1>1, RunInvInit, RunInvStep, PTL DEF RunSpec

\* The statics of a running script are those of its bindings in force, however
\* its loops bind them again (vm.py:452-465).
THEOREM RunStaticsFollowBindings == RunSpec => []StaticsFollowBindings
<1>1. RunInv => StaticsFollowBindings
  BY DEF RunInv, BindingInv
<1> QED
  BY <1>1, RunInvInit, RunInvStep, PTL DEF RunSpec

\* What the host has been told is what the machine remembers.
EndInv == phase = "idle" /\ result.kind \in {"end", "error"} => halted

LEMMA EndInvInit == RunInit => EndInv
BY DEF RunInit, EndInv, Nothing, Outcome

LEMMA EndInvStep == EndInv /\ [RunNext]_runVars => EndInv'
<1> SUFFICES ASSUME EndInv, [RunNext]_runVars PROVE EndInv'
  OBVIOUS
<1>1. CASE CallStep
  BY <1>1 DEF CallStep, EndInv
<1>2. CASE CallAfterEnd
  BY <1>2 DEF CallAfterEnd, messageVars, clockVars, EndInv
<1>3. CASE RunOff \/ InstantRaises \/ BudgetExceeded \/ WaitRaises
  BY <1>3 DEF RunOff, InstantRaises, BudgetExceeded, WaitRaises, Fails, EndInv
<1>4. CASE PendingRaises \/ SendRaises
  BY <1>4 DEF PendingRaises, FieldRaises, SendRaises, PublishRaises, EndInv
<1>5. CASE \/ ExecLoopValue \/ ExecClearVar \/ ExecSetVar \/ ExecSetVarIndex \/ ExecSeed
           \/ ExecCreateTimer \/ ExecResetTimer \/ ExecJump \/ ExecJumpIfFalse \/ ExecSetField
  <2>1. \E op \in InstantOps : Instant(op)
    BY <1>5 DEF ExecLoopValue, ExecClearVar, ExecSetVar, ExecSetVarIndex, ExecSeed, ExecCreateTimer,
       ExecResetTimer, ExecJump, ExecJumpIfFalse, ExecSetField, InstantOps, InstantEvaluates
  <2>2. phase = "stepping" /\ phase' = phase
    BY <2>1 DEF Instant, At, resultVars
  <2> QED
    BY <2>2 DEF EndInv
<1>6. CASE ApplyPending
  BY <1>6 DEF ApplyPending, resultVars, EndInv
<1>7. CASE DoSendTick
  <2>1. result'.kind = "send"
    BY <1>7 DEF DoSendTick, Return, Outcome
  <2> QED
    BY <2>1 DEF EndInv
<1>8. CASE DoWaitTick
  <2>1. result'.kind = "wait"
    BY <1>8 DEF DoWaitTick, Return, Outcome
  <2> QED
    BY <2>1 DEF EndInv
<1>9. CASE UNCHANGED runVars
  BY <1>9 DEF runVars, messageVars, clockVars, resultVars, EndInv
<1> QED
  BY <1>1, <1>2, <1>3, <1>4, <1>5, <1>6, <1>7, <1>8, <1>9 DEF RunNext, Stepping

\* Nothing happens in a run once the host has been told that it is over
\* (vm.py:211-212, vm.py:238-239).
THEOREM EndedRunsStay == RunSpec => EndedRunsStayAsTheyAre
<1>1. RunInv /\ EndInv /\ [RunNext]_runVars =>
        [HasEnded => /\ UNCHANGED <<messageVars, hostVars, vars, ip, sendVars, sequence>>
                     /\ result' = Nothing("end")]_runVars
  <2> SUFFICES ASSUME RunInv, EndInv, RunNext, HasEnded
               PROVE  /\ UNCHANGED <<messageVars, hostVars, vars, ip, sendVars, sequence>>
                      /\ result' = Nothing("end")
    OBVIOUS
  <2>1. phase = "idle" /\ halted
    BY DEF RunInv, PlaceInv, EndInv, HasEnded
  <2>2. ~Stepping
    BY <2>1 DEF Stepping, RunOff, ExecLoopValue, ExecClearVar, ExecSetVar, ExecSetVarIndex, ExecSeed,
       ExecCreateTimer, ExecResetTimer, ExecJump, ExecJumpIfFalse, ExecSetField, ApplyPending,
       PendingRaises, InstantRaises, BudgetExceeded, DoSendTick, SendRaises, DoWaitTick, WaitRaises, Instant, At
  <2>3. CallAfterEnd
    BY <2>1, <2>2 DEF RunNext, CallStep
  <2> QED
    BY <2>3 DEF CallAfterEnd
<1> QED
  BY <1>1, RunInvInit, RunInvStep, EndInvInit, EndInvStep, PTL DEF RunSpec, EndedRunsStayAsTheyAre

\* Simulated time moves only with a result, by the delay it asks for
\* (vm.py:314-327, vm.py:350-357).
THEOREM TimeMovesOnlyWithResults == RunSpec => TimeMovesWithResults
<1>1. [RunNext]_runVars =>
        [master_t' # master_t =>
           /\ phase = "stepping" /\ phase' = "idle"
           /\ result'.timestamp = master_t
           /\ result'.sequence = sequence
           /\ master_t' = FloatAdd(master_t, result'.delay)]_runVars
  <2> SUFFICES ASSUME RunNext, master_t' # master_t
               PROVE  /\ phase = "stepping" /\ phase' = "idle"
                      /\ result'.timestamp = master_t
                      /\ result'.sequence = sequence
                      /\ master_t' = FloatAdd(master_t, result'.delay)
    OBVIOUS
  <2>1. DoSendTick \/ DoWaitTick
    <3>1. ~CallStep /\ ~CallAfterEnd /\ ~ExecClearVar /\ ~ExecJump /\ ~ExecSetField
      BY DEF CallStep, CallAfterEnd, ExecClearVar, ExecJump, ExecSetField, messageVars, clockVars
    <3>2. /\ ~ExecLoopValue /\ ~ExecSetVar /\ ~ExecSetVarIndex /\ ~ExecSeed /\ ~ExecJumpIfFalse
          /\ ~ExecCreateTimer /\ ~ExecResetTimer
      BY DEF ExecLoopValue, ExecSetVar, ExecSetVarIndex, ExecSeed, ExecJumpIfFalse, ReadFor,
         ExecCreateTimer, CreateTimer, ExecResetTimer, ResetTimer
    <3>3. ~ApplyPending
      BY DEF ApplyPending, ApplyStatic, WriteValue, ApplyFill, ApplyLive, clockVars
    <3>4. ~RunOff /\ ~PendingRaises /\ ~InstantRaises /\ ~BudgetExceeded /\ ~SendRaises /\ ~WaitRaises
      BY DEF RunOff, PendingRaises, FieldRaises, InstantRaises, BudgetExceeded, Fails, SendRaises,
         PublishRaises, WaitRaises
    <3> QED
      BY <3>1, <3>2, <3>3, <3>4 DEF RunNext, Stepping
  <2>2. CASE DoSendTick
    BY <2>2 DEF DoSendTick, Publish, Advance, At, Return, Outcome
  <2>3. CASE DoWaitTick
    BY <2>3 DEF DoWaitTick, Advance, At, Return, Outcome
  <2> QED
    BY <2>1, <2>2, <2>3
<1> QED
  BY <1>1, PTL DEF RunSpec, TimeMovesWithResults

-----------------------------------------------------------------------------
(* The message inside a running script. *)

\* Clocks and timers move and nothing is written or sent.
Ticking ==
  /\ halted' \in {halted, TRUE}
  /\ master_t' = master_t \/ \E d \in Delay : Advance(d)
  /\ \/ timers' = timers
     \/ \E names : timers' = Latched(names)
     \/ \E names \in SUBSET TimerName, kind \in TimerKind : timers' = Created(names, kind)
     \/ \E n \in DOMAIN timers : timers' = [timers EXCEPT ![n] = Fresh(timers[n].kind)]
  /\ UNCHANGED <<msg, statics, published>>

\* Every step is one of the component's, or leaves the message alone.
MessageStep ==
  \/ Ticking
  \/ ApplyNext
  \/ \E period \in Delay : \E reads : Publish(period, reads)
  \/ \E reads : PublishRaises(reads)

LEMMA RunStepsAreMessageSteps ==
  ASSUME RunInv, [RunNext]_runVars
  PROVE  MessageStep
<1>1. CASE CallStep \/ CallAfterEnd \/ UNCHANGED runVars
  BY <1>1 DEF CallStep, CallAfterEnd, runVars, messageVars, clockVars, MessageStep, Ticking
<1>2. CASE ExecClearVar \/ ExecJump \/ ExecSetField
  BY <1>2 DEF ExecClearVar, ExecJump, ExecSetField, MessageKept, bindingVars, clockVars, MessageStep, Ticking
<1>3. CASE ExecLoopValue \/ ExecSetVar \/ ExecSetVarIndex \/ ExecSeed \/ ExecJumpIfFalse
  <2>1. MessageKept /\ \E names : timers' = Latched(names) /\ UNCHANGED <<halted, master_t>>
    BY <1>3 DEF ExecLoopValue, ExecSetVar, ExecSetVarIndex, ExecSeed, ExecJumpIfFalse, ReadFor
  <2> QED
    BY <2>1 DEF MessageKept, bindingVars, MessageStep, Ticking
<1>4. CASE ExecCreateTimer
  <2>1. Instr.name \in TimerName /\ Instr.kind \in TimerKind
    BY <1>4, OnTheTape DEF ExecCreateTimer, Instant, At, RunInv
  <2>2. /\ timers' = Created({Instr.name}, Instr.kind)
        /\ UNCHANGED <<halted, master_t>> /\ MessageKept
    BY <1>4 DEF ExecCreateTimer, CreateTimer
  <2>3. {Instr.name} \in SUBSET TimerName
    BY <2>1
  <2> QED
    BY <2>1, <2>2, <2>3 DEF MessageKept, bindingVars, MessageStep, Ticking
<1>5. CASE ExecResetTimer
  <2>1. /\ \E n \in DOMAIN timers : timers' = [timers EXCEPT ![n] = Fresh(timers[n].kind)]
        /\ UNCHANGED <<halted, master_t>> /\ MessageKept
    BY <1>5 DEF ExecResetTimer, ResetTimer
  <2> QED
    BY <2>1 DEF MessageKept, bindingVars, MessageStep, Ticking
<1>6. CASE ApplyPending \/ PendingRaises
  BY <1>6 DEF ApplyPending, PendingRaises, ApplyNext, ApplyField, MessageStep
<1>7. CASE RunOff
  BY <1>7 DEF RunOff, bindingVars, MessageStep, Ticking
<1>8. CASE InstantRaises \/ BudgetExceeded \/ WaitRaises
  <2>1. /\ timers' = timers \/ \E names : timers' = Latched(names)
        /\ Fails
    BY <1>8 DEF InstantRaises, BudgetExceeded, WaitRaises
  <2> QED
    BY <2>1 DEF Fails, MessageKept, bindingVars, MessageStep, Ticking
<1>9. CASE DoSendTick
  BY <1>9 DEF DoSendTick, MessageStep
<1>10. CASE SendRaises
  BY <1>10 DEF SendRaises, MessageStep
<1>11. CASE DoWaitTick
  <2>1. /\ \E d \in Delay : Advance(d)
        /\ \E names : timers' = Latched(names)
        /\ UNCHANGED halted /\ MessageKept
    BY <1>11 DEF DoWaitTick
  <2> QED
    BY <2>1 DEF MessageKept, bindingVars, MessageStep, Ticking
<1> QED
  BY <1>1, <1>2, <1>3, <1>4, <1>5, <1>6, <1>7, <1>8, <1>9, <1>10, <1>11 DEF RunNext, Stepping

LEMMA RunValueStep == RunInv /\ ValueInv /\ [RunNext]_runVars => ValueInv'
<1> SUFFICES ASSUME RunInv, ValueInv, [RunNext]_runVars PROVE ValueInv'
  OBVIOUS
<1>1. CASE Ticking
  <2>1. TimersTypeOK /\ halted' \in BOOLEAN
    BY <1>1 DEF Ticking, ValueInv, TimersTypeOK
  <2>2. TimersTypeOK'
    BY <1>1, <2>1, TimersStayTyped DEF Ticking
  <2> QED
    BY <1>1, <2>2, ClockKeepsValues DEF Ticking
<1>2. CASE ApplyNext
  BY <1>2, ApplyKeepsValues DEF RunInv
<1>3. CASE \E period \in Delay : \E reads : Publish(period, reads)
  BY <1>3, PublishKeepsValues DEF RunInv
<1>4. CASE \E reads : PublishRaises(reads)
  BY <1>4, RaisingKeepsValues
<1> QED
  BY <1>1, <1>2, <1>3, <1>4, RunStepsAreMessageSteps DEF MessageStep

LEMMA RunShapeStep ==
  RunInv /\ StrictMessageConforms /\ [RunNext]_runVars => StrictMessageConforms'
<1> SUFFICES ASSUME RunInv, StrictMessageConforms, [RunNext]_runVars
             PROVE  StrictMessageConforms'
  OBVIOUS
<1>1. CASE ApplyNext
  BY <1>1, ApplyKeepsShape DEF RunInv
<1>2. CASE msg' = msg
  BY <1>2, SameShape
<1> QED
  BY <1>1, <1>2, RunStepsAreMessageSteps DEF MessageStep, Ticking, Publish, PublishRaises

\* The machine's own registers.
RegistersTypeOK ==
  /\ send_ip \in Nat /\ send_period \in Nat /\ send_duration \in Nat
  /\ sequence \in Nat
  /\ executed \in 0..StepBudget
  /\ phase \in {"idle", "stepping"}
  /\ result \in [kind : {"new", "send", "wait", "end", "error"}, delay : Nat,
                 timestamp : Nat, sequence : Nat]

\* A schedule is a number of units of time or ticks.
LEMMA SchedulesAreNumbers ==
  /\ \A period \in Periods : period \in Nat
  /\ \A duration \in Durations : duration \in Nat
BY RunAssumption DEF Periods, Durations, IsPositive, IsNumber

LEMMA OutcomesAreResults ==
  ASSUME NEW kind \in {"new", "send", "wait", "end", "error"},
         NEW delay \in Nat, NEW timestamp \in Nat, NEW number \in Nat
  PROVE  Outcome(kind, delay, timestamp, number) \in
           [kind : {"new", "send", "wait", "end", "error"}, delay : Nat, timestamp : Nat, sequence : Nat]
BY DEF Outcome

LEMMA NothingIsAResult ==
  /\ Nothing("new") \in [kind : {"new", "send", "wait", "end", "error"}, delay : Nat,
                         timestamp : Nat, sequence : Nat]
  /\ Nothing("end") \in [kind : {"new", "send", "wait", "end", "error"}, delay : Nat,
                         timestamp : Nat, sequence : Nat]
  /\ Nothing("error") \in [kind : {"new", "send", "wait", "end", "error"}, delay : Nat,
                           timestamp : Nat, sequence : Nat]
BY OutcomesAreResults DEF Nothing

LEMMA RegistersStep ==
  RunInv /\ ValueInv /\ RegistersTypeOK /\ [RunNext]_runVars => RegistersTypeOK'
<1> SUFFICES ASSUME RunInv, ValueInv, RegistersTypeOK, [RunNext]_runVars PROVE RegistersTypeOK'
  OBVIOUS
<1>1. ip \in Nat /\ master_t \in Nat /\ StepBudget \in Nat
  BY ClockAssumption, RunAssumption DEF RunInv, PlaceInv, ValueInv, TimersTypeOK, Time
<1>2. CASE CallStep
  BY <1>1, <1>2 DEF CallStep, RegistersTypeOK, sendVars
<1>3. CASE CallAfterEnd
  BY <1>3, NothingIsAResult DEF CallAfterEnd, RegistersTypeOK, sendVars
<1>4. CASE RunOff \/ PendingRaises
  BY <1>4, NothingIsAResult DEF RunOff, PendingRaises, Return, RegistersTypeOK, sendVars
<1>5. CASE \/ ExecLoopValue \/ ExecClearVar \/ ExecSetVar \/ ExecSetVarIndex \/ ExecSeed
           \/ ExecCreateTimer \/ ExecResetTimer \/ ExecJump \/ ExecJumpIfFalse \/ ExecSetField
  <2>1. \E op : Instant(op)
    BY <1>5 DEF ExecLoopValue, ExecClearVar, ExecSetVar, ExecSetVarIndex, ExecSeed,
       ExecCreateTimer, ExecResetTimer, ExecJump, ExecJumpIfFalse, ExecSetField
  <2>2. executed < StepBudget /\ executed' = executed + 1 /\ UNCHANGED <<sendVars, resultVars>>
    BY <2>1 DEF Instant
  <2> QED
    BY <1>1, <2>2 DEF RegistersTypeOK, sendVars, resultVars
<1>6. CASE ApplyPending
  BY <1>6 DEF ApplyPending, RegistersTypeOK, sendVars, resultVars
<1>7. CASE InstantRaises \/ BudgetExceeded \/ WaitRaises
  <2>1. Fails
    BY <1>7 DEF InstantRaises, BudgetExceeded, WaitRaises
  <2> QED
    BY <2>1, NothingIsAResult DEF Fails, Return, RegistersTypeOK, sendVars
<1>8. CASE DoSendTick
  <2>1. PICK period \in IF Entering THEN Periods ELSE {send_period},
             duration \in IF Entering THEN Durations ELSE {send_duration} :
          /\ send_ip' \in {None, ip} /\ send_period' = period /\ send_duration' = duration
          /\ phase' = "idle" /\ result' = Outcome("send", period, master_t, sequence)
    BY <1>8 DEF DoSendTick, NextSend, Return
  <2>2. period \in Nat /\ duration \in Nat
    BY SchedulesAreNumbers DEF RegistersTypeOK
  <2>3. sequence' = sequence + 1 /\ executed' = executed
    BY <1>8 DEF DoSendTick
  <2>4. result' \in [kind : {"new", "send", "wait", "end", "error"}, delay : Nat,
                     timestamp : Nat, sequence : Nat]
    BY <1>1, <2>1, <2>2, OutcomesAreResults DEF RegistersTypeOK
  <2> QED
    BY <1>1, <2>1, <2>2, <2>3, <2>4 DEF RegistersTypeOK, None
<1>9. CASE SendRaises
  <2>1. /\ send_ip' = ip
        /\ send_period' \in {send_period} \cup Periods
        /\ send_duration' \in {send_duration} \cup Durations
        /\ phase' = "idle" /\ result' = Nothing("error")
        /\ UNCHANGED <<executed, sequence>>
    BY <1>9 DEF SendRaises, Return
  <2> QED
    BY <1>1, <2>1, SchedulesAreNumbers, NothingIsAResult DEF RegistersTypeOK
<1>10. CASE DoWaitTick
  <2>1. PICK delay \in Delay : phase' = "idle" /\ result' = Outcome("wait", delay, master_t, sequence)
    BY <1>10 DEF DoWaitTick, Return
  <2>2. sequence' = sequence + 1 /\ UNCHANGED <<sendVars, executed>>
    BY <1>10 DEF DoWaitTick
  <2>3. result' \in [kind : {"new", "send", "wait", "end", "error"}, delay : Nat,
                     timestamp : Nat, sequence : Nat]
    BY <1>1, <2>1, ClockAssumption, OutcomesAreResults DEF RegistersTypeOK
  <2> QED
    BY <2>1, <2>2, <2>3 DEF RegistersTypeOK, sendVars
<1>11. CASE UNCHANGED runVars
  BY <1>11 DEF runVars, RegistersTypeOK, sendVars, resultVars
<1> QED
  BY <1>2, <1>3, <1>4, <1>5, <1>6, <1>7, <1>8, <1>9, <1>10, <1>11 DEF RunNext, Stepping

LEMMA RegistersInit == RunInit => RegistersTypeOK
<1> SUFFICES ASSUME RunInit PROVE RegistersTypeOK
  OBVIOUS
<1>1. MinPeriod \in Nat /\ StepBudget \in Nat
  BY RunAssumption
<1> QED
  BY <1>1, NothingIsAResult DEF RunInit, RegistersTypeOK, None

\* The machine never counts past its budget, never stands at no instruction,
\* has calls of _apply_field pending only inside a step, and hands back sound
\* results - whatever the script (vm.py:218-260).
THEOREM RunsAreWellTyped == RunSpec => []RunTypeOK
<1>1. RunInv /\ ValueInv /\ RegistersTypeOK => RunTypeOK
  BY WellFormed DEF RunInv, PlaceInv, SendInv, RegistersTypeOK, RunTypeOK
<1>2. RunInit => RunInv /\ ValueInv /\ RegistersTypeOK
  BY RunInvInit, RegistersInit, ValueInit DEF RunInit
<1> QED
  BY <1>1, <1>2, RunInvStep, RunValueStep, RegistersStep, PTL DEF RunSpec

\* With a strict schema no script, run to any point, leaves a message of another
\* shape (schema.py:88, vm.py:520).
THEOREM RunsKeepStrictSchemas == RunSpec => []StrictMessageConforms
<1>1. RunInit => RunInv /\ StrictMessageConforms
  BY RunInvInit, ShapeInit DEF RunInit
<1> QED
  BY <1>1, RunInvStep, RunShapeStep, PTL DEF RunSpec

-----------------------------------------------------------------------------
(* Live blocks and their timers.  The timer of a block is created by one     *)
(* instruction, the block bound by a later one, and its counter by that too. *)

\* The timers that the instructions before this one have created for the blocks
\* of the next assignment, and those that an assignment under way still needs.
Prepared == PreparedBefore(program.tape, ip) \cap PrivateTimers

Waiting == IF fill = <<>> THEN Prepared ELSE PendingTimers

AfreshInv ==
  /\ LiveTimersExist /\ PendingTimersExist /\ PendingApart
  /\ ~halted => /\ Unstarted(Waiting) /\ BindingsAfresh(Waiting)
                /\ fill = <<>> => Prepared \subseteq DOMAIN timers
                /\ phase = "idle" => Prepared = {}

LEMMA PreparedNext ==
  ASSUME NEW tape, NEW i \in Nat \ {0}
  PROVE  PreparedBefore(tape, i + 1) =
           IF tape[i].op = "create" THEN PreparedBefore(tape, i) \cup {tape[i].name} ELSE {}
<1> DEFINE before(n) == {j \in 1..n-1 : \A k \in j..n-1 : tape[k].op = "create"}
<1>1. PreparedBefore(tape, i) = {tape[j].name : j \in before(i)}
  BY DEF PreparedBefore
<1>2. PreparedBefore(tape, i + 1) = {tape[j].name : j \in before(i + 1)}
  BY DEF PreparedBefore
<1>3. CASE tape[i].op = "create"
  <2>1. before(i + 1) = before(i) \cup {i}
    <3>1. \A j \in 1..i-1 : \A k \in j..i : k = i \/ k \in j..i-1
      OBVIOUS
    <3>2. \A j \in before(i + 1) : j = i \/ j \in before(i)
      OBVIOUS
    <3>3. \A j \in before(i) : j \in before(i + 1)
      BY <1>3, <3>1
    <3>4. i \in before(i + 1)
      BY <1>3
    <3> HIDE DEF before
    <3> QED
      BY <3>2, <3>3, <3>4
  <2> HIDE DEF before
  <2> QED
    BY <1>1, <1>2, <1>3, <2>1
<1>4. CASE tape[i].op # "create"
  <2>1. before(i + 1) = {}
    <3>1. \A j \in 1..i : i \in j..i
      OBVIOUS
    <3> QED
      BY <1>4, <3>1
  <2> HIDE DEF before
  <2> QED
    BY <1>2, <1>4, <2>1
<1> QED
  BY <1>3, <1>4

\* The instruction about to be executed, as the compiler wrote it.
LEMMA OnTheCompiledTape ==
  ASSUME PlaceInv, ip <= Len(program.tape)
  PROVE  /\ Instr.op = "field" => Instr.value.timers = Prepared
         /\ Instr.op \notin {"create", "field"} => Prepared = {}
         /\ Instr.op = "create" /\ Instr.name \in PrivateTimers => Instr.kind = "latching"
         /\ Instr.op = "reset" => Instr.name \notin PrivateTimers
         /\ Instr.op \in {"jump", "branch"} =>
              PreparedBefore(program.tape, Instr.target) \cap PrivateTimers = {}
         /\ NamesIn(Instr) \cap PrivateTimers = {}
         /\ PreparedBefore(program.tape, ip + 1) \cap PrivateTimers =
              IF Instr.op = "create" THEN Prepared \cup ({Instr.name} \cap PrivateTimers) ELSE {}
<1>1. program \in Programs /\ ip \in Nat \ {0} /\ ip \in 1..Len(program.tape)
  BY RunAssumption DEF PlaceInv
<1>2. PreparedBefore(program.tape, ip + 1) =
        IF Instr.op = "create" THEN PreparedBefore(program.tape, ip) \cup {Instr.name} ELSE {}
  BY <1>1, PreparedNext DEF Instr
<1>3. PreparedBefore(program.tape, ip + 1) \cap PrivateTimers =
        IF Instr.op = "create" THEN Prepared \cup ({Instr.name} \cap PrivateTimers) ELSE {}
  BY <1>2 DEF Prepared
<1> QED
  BY <1>1, <1>3, CompiledAssumption DEF Instr, Prepared

LEMMA BoundTimersArePrivate ==
  ASSUME BindingsPlaced, NEW p \in DOMAIN live_bindings
  PROVE  live_bindings[p].timer \in PrivateTimers
<1> DEFINE x == <<p, live_bindings[p]>>
<1>1. x \in Placement /\ x[2] = live_bindings[p] /\ x[2].op = "live"
  BY DEF BindingsPlaced
<1> HIDE DEF x
<1>2. x[2].timer \in x[2].timers
  BY <1>1, PlacementAssumption
<1> QED
  BY <1>1, <1>2 DEF PrivateTimers

\* Timers may move as long as those of blocks do not.
PrivateKept ==
  /\ DOMAIN timers' = DOMAIN timers
  /\ \A n \in PrivateTimers \cap DOMAIN timers : timers'[n] = timers[n]

LEMMA ReadingKeepsPrivate ==
  ASSUME NEW e, Range(e.names) \cap PrivateTimers = {}, NEW read \in SUBSET TimersRead(e),
         timers' = Latched(read)
  PROVE  PrivateKept
BY DEF PrivateKept, TimersRead, Latched

\* A step that leaves bindings and private timers alone, away from assignments.
Plain ==
  /\ PrivateKept
  /\ UNCHANGED <<halted, live_bindings, statics, fill>>
  /\ fill = <<>> /\ Prepared = {} /\ Prepared' = {}

LEMMA PlainKeepsAfresh ==
  ASSUME RunInv, AfreshInv, ~halted, Plain
  PROVE  AfreshInv'
<1>1. LiveTimersExist' /\ PendingTimersExist' /\ PendingApart'
  BY DEF AfreshInv, LiveTimersExist, PendingTimersExist, PendingApart, Plain, PrivateKept
<1>2. Waiting = {} /\ Waiting' = {}
  BY DEF Waiting, Plain
<1>3. Unstarted(Waiting)'
  BY <1>2 DEF Unstarted
<1>4. BindingsAfresh(Waiting)'
  <2> SUFFICES ASSUME NEW p \in DOMAIN live_bindings
               PROVE  LET b == live_bindings[p]
                      IN  /\ statics[b.timer] = 0 /\ b.timer \notin b.reads => timers'[b.timer].offset = Unlatched
                          /\ statics[b.timer] > 0 /\ b.timer \in b.bodyReads => timers'[b.timer].offset # Unlatched
    BY DEF BindingsAfresh, IsUnlatched, Plain
  <2>1. live_bindings[p].timer \in PrivateTimers /\ live_bindings[p].timer \in DOMAIN timers
    BY BoundTimersArePrivate DEF RunInv, BindingInv, AfreshInv, LiveTimersExist
  <2>2. timers'[live_bindings[p].timer] = timers[live_bindings[p].timer]
    BY <2>1 DEF Plain, PrivateKept
  <2> QED
    BY <1>2, <2>2 DEF AfreshInv, BindingsAfresh, IsUnlatched
<1> QED
  BY <1>1, <1>3, <1>4 DEF AfreshInv, Plain

\* An instruction that is no part of an assignment, and what comes after it.
LEMMA AwayFromAssignments ==
  ASSUME RunInv, fill = <<>>, ip <= Len(program.tape), Instr.op \notin {"create", "field"},
         UNCHANGED program,
         \/ ip' = ip + 1 \/ ip' = ip
         \/ Instr.op \in {"jump", "branch"} /\ ip' = Instr.target
  PROVE  Prepared = {} /\ Prepared' = {}
<1>1. /\ Prepared = {}
      /\ PreparedBefore(program.tape, ip + 1) \cap PrivateTimers = {}
      /\ Instr.op \in {"jump", "branch"} =>
           PreparedBefore(program.tape, Instr.target) \cap PrivateTimers = {}
  BY OnTheCompiledTape DEF RunInv
<1>2. Prepared' = PreparedBefore(program.tape, ip') \cap PrivateTimers
  BY DEF Prepared
<1> QED
  BY <1>1, <1>2 DEF Prepared

LEMMA ReadingsArePlain ==
  ASSUME RunInv, ExecLoopValue \/ ExecSetVar \/ ExecSetVarIndex \/ ExecSeed \/ ExecJumpIfFalse
  PROVE  Plain
<1>1. /\ fill = <<>> /\ ip <= Len(program.tape)
      /\ Instr.op \in {"loop", "set", "index", "seed", "branch"}
      /\ ReadFor(Instr.expr) /\ MessageKept /\ UNCHANGED hostVars
  BY DEF ExecLoopValue, ExecSetVar, ExecSetVarIndex, ExecSeed, ExecJumpIfFalse, Instant, At
<1>2. \/ ip' = ip + 1
      \/ Instr.op = "branch" /\ ip' = Instr.target
  BY DEF ExecLoopValue, ExecSetVar, ExecSetVarIndex, ExecSeed, ExecJumpIfFalse, Instant, At
<1>3. Prepared = {} /\ Prepared' = {}
  BY <1>1, <1>2, AwayFromAssignments DEF hostVars
<1>4. Range(Instr.expr.names) \cap PrivateTimers = {}
  BY <1>1, OnTheCompiledTape DEF RunInv, NamesIn
<1>5. PrivateKept
  BY <1>1, <1>4, ReadingKeepsPrivate DEF ReadFor
<1> QED
  BY <1>1, <1>3, <1>5 DEF Plain, ReadFor, MessageKept, bindingVars

LEMMA OthersArePlain ==
  ASSUME RunInv, ExecClearVar \/ ExecResetTimer \/ ExecJump \/ DoWaitTick
  PROVE  Plain
<1>1. /\ fill = <<>> /\ ip <= Len(program.tape)
      /\ Instr.op \in {"clear", "reset", "jump", "wait"}
      /\ MessageKept /\ UNCHANGED hostVars /\ UNCHANGED halted
  BY DEF ExecClearVar, ExecResetTimer, ResetTimer, ExecJump, DoWaitTick, Instant, At, clockVars
<1>2. \/ ip' = ip + 1
      \/ Instr.op = "jump" /\ ip' = Instr.target
  BY DEF ExecClearVar, ExecResetTimer, ExecJump, DoWaitTick, Instant, At
<1>3. Prepared = {} /\ Prepared' = {}
  BY <1>1, <1>2, AwayFromAssignments DEF hostVars
<1>4. ASSUME ExecClearVar \/ ExecJump PROVE PrivateKept
  BY <1>4 DEF ExecClearVar, ExecJump, clockVars, PrivateKept
<1>5. ASSUME ExecResetTimer PROVE PrivateKept
  <2>1. Instr.name \notin PrivateTimers
    BY <1>1, <1>5, OnTheCompiledTape DEF RunInv, ExecResetTimer, Instant, At
  <2> QED
    BY <1>5, <2>1 DEF ExecResetTimer, ResetTimer, PrivateKept
<1>6. ASSUME DoWaitTick PROVE PrivateKept
  <2>1. Instr.op = "wait"
    BY <1>6 DEF DoWaitTick, At
  <2>2. Range(Instr.duration.names) \cap PrivateTimers = {}
    BY <1>1, <2>1, OnTheCompiledTape DEF RunInv, NamesIn
  <2> QED
    BY <1>6, <2>2, ReadingKeepsPrivate DEF DoWaitTick
<1> QED
  BY <1>1, <1>3, <1>4, <1>5, <1>6 DEF Plain, MessageKept, bindingVars

\* The first half of an assignment: a block's timer is created, the block is not
\* bound yet.  A binding whose timer it is goes on with a timer that has not
\* started, and is about to be replaced.
LEMMA CreatingKeepsAfresh ==
  ASSUME RunInv, AfreshInv, ExecCreateTimer
  PROVE  AfreshInv'
<1> DEFINE name == Instr.name
<1>1. /\ fill = <<>> /\ ip <= Len(program.tape) /\ Instr.op = "create" /\ phase = "stepping" /\ phase' = phase
      /\ timers' = Created({name}, Instr.kind) /\ ip' = ip + 1
      /\ UNCHANGED <<halted, program, live_bindings, statics, fill>>
  BY DEF ExecCreateTimer, CreateTimer, Instant, At, MessageKept, bindingVars, hostVars, resultVars
<1>2. ~halted
  BY <1>1 DEF RunInv, PlaceInv
<1>3. /\ Prepared' = Prepared \cup ({name} \cap PrivateTimers)
      /\ name \in PrivateTimers => Instr.kind = "latching"
  <2>1. Prepared' = PreparedBefore(program.tape, ip + 1) \cap PrivateTimers
    BY <1>1 DEF Prepared
  <2> QED
    BY <1>1, <2>1, OnTheCompiledTape DEF RunInv
<1>4. /\ DOMAIN timers' = DOMAIN timers \cup {name}
      /\ timers'[name] = Fresh(Instr.kind)
      /\ \A n \in DOMAIN timers : n # name => timers'[n] = timers[n]
  BY <1>1 DEF Created
<1>5. name \in PrivateTimers => timers'[name].offset = Unlatched
  BY <1>3, <1>4 DEF Fresh
<1>6. Waiting = Prepared /\ Waiting' = Prepared'
  BY <1>1 DEF Waiting
<1> HIDE DEF name
<1>7. LiveTimersExist' /\ PendingTimersExist' /\ PendingApart'
  BY <1>1, <1>4 DEF AfreshInv, LiveTimersExist, PendingTimersExist, PendingApart
<1>8. Unstarted(Waiting)'
  <2> SUFFICES ASSUME NEW x \in Placement, x[2].op = "live", x[2].timer \in Prepared'
               PROVE  x[2].timer \in DOMAIN timers' /\ timers'[x[2].timer].offset = Unlatched
    BY <1>6 DEF Unstarted, IsUnlatched
  <2>1. CASE x[2].timer = name
    BY <1>3, <1>4, <1>5, <2>1 DEF Prepared
  <2>2. CASE x[2].timer # name
    <3>1. x[2].timer \in Prepared
      BY <1>3, <2>2
    <3>2. x[2].timer \in DOMAIN timers /\ timers[x[2].timer].offset = Unlatched
      BY <1>2, <1>6, <3>1 DEF AfreshInv, Unstarted, IsUnlatched
    <3> QED
      BY <1>4, <2>2, <3>2
  <2> QED
    BY <2>1, <2>2
<1>9. BindingsAfresh(Waiting)'
  <2> SUFFICES ASSUME NEW p \in DOMAIN live_bindings
               PROVE  LET b == live_bindings[p]
                      IN  /\ statics[b.timer] = 0 /\ b.timer \notin b.reads => timers'[b.timer].offset = Unlatched
                          /\ statics[b.timer] > 0 /\ b.timer \in b.bodyReads =>
                               timers'[b.timer].offset # Unlatched \/ b.timer \in Prepared'
    BY <1>1, <1>6 DEF BindingsAfresh, IsUnlatched
  <2>1. live_bindings[p].timer \in PrivateTimers /\ live_bindings[p].timer \in DOMAIN timers
    BY BoundTimersArePrivate DEF RunInv, BindingInv, AfreshInv, LiveTimersExist
  <2>2. CASE live_bindings[p].timer = name
    BY <1>3, <1>5, <2>1, <2>2
  <2>3. CASE live_bindings[p].timer # name
    BY <1>2, <1>3, <1>4, <1>6, <2>1, <2>3 DEF AfreshInv, BindingsAfresh, IsUnlatched
  <2> QED
    BY <2>2, <2>3
<1>10. Prepared' \subseteq DOMAIN timers'
  BY <1>1, <1>2, <1>3, <1>4 DEF AfreshInv
<1> QED
  BY <1>1, <1>7, <1>8, <1>9, <1>10 DEF AfreshInv

\* The second half begins: the timers prepared are just those it needs.
LEMMA SettingWaits ==
  ASSUME RunInv, ExecSetField
  PROVE  Waiting = Prepared /\ Waiting' = Prepared
<1>1. /\ fill = <<>> /\ ip <= Len(program.tape) /\ Instr.op = "field"
      /\ fill' = <<[path |-> Instr.path, value |-> Instr.value]>>
  BY DEF ExecSetField, Instant, At
<1>2. DOMAIN fill' = {1} /\ fill'[1].value = Instr.value /\ fill' # <<>>
  BY <1>1
<1>3. Instr.value.timers = Prepared
  BY <1>1, OnTheCompiledTape DEF RunInv
<1>4. PendingTimers' = Instr.value.timers
  BY <1>2 DEF PendingTimers
<1> QED
  BY <1>1, <1>2, <1>3, <1>4 DEF Waiting

LEMMA SettingKeepsAfresh ==
  ASSUME RunInv, AfreshInv, ExecSetField
  PROVE  AfreshInv'
<1>1. /\ fill = <<>> /\ ip <= Len(program.tape) /\ Instr.op = "field" /\ phase = "stepping" /\ phase' = phase
      /\ fill' = <<[path |-> Instr.path, value |-> Instr.value]>>
      /\ UNCHANGED <<halted, timers, live_bindings, statics>>
  BY DEF ExecSetField, Instant, At, bindingVars, clockVars, resultVars
<1>2. ~halted
  BY <1>1 DEF RunInv, PlaceInv
<1>3. DOMAIN fill' = {1} /\ fill'[1].value = Instr.value /\ fill' # <<>>
  BY <1>1
<1>5. Waiting = Prepared /\ Waiting' = Prepared
  BY SettingWaits
<1>6. LiveTimersExist' /\ PendingApart'
  BY <1>1, <1>3 DEF AfreshInv, LiveTimersExist, PendingApart
<1>7. PendingTimersExist'
  <2>1. Instr.value.timers \subseteq DOMAIN timers
    BY <1>1, <1>2, OnTheCompiledTape DEF RunInv, AfreshInv
  <2> QED
    BY <1>1, <1>3, <2>1 DEF PendingTimersExist
<1>8. Unstarted(Waiting)' /\ BindingsAfresh(Waiting)'
  BY <1>1, <1>2, <1>5 DEF AfreshInv, Unstarted, BindingsAfresh, IsUnlatched
<1> QED
  BY <1>1, <1>3, <1>6, <1>7, <1>8 DEF AfreshInv

\* The last call of an assignment leaves nothing prepared.
LEMMA ApplyingWaits ==
  ASSUME RunInv, ApplyPending
  PROVE  Waiting = PendingTimers /\ Waiting' = PendingTimers'
<1>1. /\ fill # <<>> /\ program' = program
      /\ ip <= Len(program.tape) /\ Instr.op = "field"
      /\ ip' = IF fill' = <<>> THEN ip + 1 ELSE ip
  BY DEF ApplyPending, RunInv, PlaceInv, hostVars
<1>2. ASSUME fill' = <<>> PROVE Waiting' = {} /\ PendingTimers' = {}
  <2>1. Prepared' = PreparedBefore(program.tape, ip + 1) \cap PrivateTimers
    BY <1>1, <1>2 DEF Prepared
  <2>2. Prepared' = {}
    BY <1>1, <2>1, OnTheCompiledTape DEF RunInv
  <2>3. PendingTimers' = {}
    BY <1>2, NothingBound DEF PendingTimers
  <2> QED
    BY <1>2, <2>2, <2>3 DEF Waiting
<1>3. ASSUME fill' # <<>> PROVE Waiting' = PendingTimers'
  BY <1>3 DEF Waiting
<1> QED
  BY <1>1, <1>2, <1>3 DEF Waiting

LEMMA ApplyingKeepsAfresh ==
  ASSUME RunInv, ValueInv, AfreshInv, ApplyPending
  PROVE  AfreshInv'
<1> DEFINE p == Head(fill).path
           v == Head(fill).value
<1>1. phase = "stepping" /\ phase' = phase /\ fill # <<>> /\ CallMade(p, v)
  BY DEF ApplyPending, CallMade, resultVars
<1>2. ~halted /\ LiveInv /\ TimersTypeOK /\ fill \in Seq(FillItem)
      /\ PendingApart /\ Unstarted(PendingTimers) /\ BindingsAfresh(PendingTimers)
  BY <1>1 DEF RunInv, PlaceInv, AfreshInv, LiveInv, ValueInv, BindingInv, Waiting
<1>3. LiveTimersExist' /\ PendingTimersExist'
  BY <1>1, <1>2, ApplyKeepsTimers DEF ApplyNext, ApplyField, CallMade
<1>4. PendingApart' /\ Unstarted(PendingTimers)' /\ BindingsAfresh(PendingTimers)'
  BY <1>1, <1>2, CallKeepsPending, CallKeepsUnstarted, CallKeepsAfresh
<1> HIDE DEF p, v
<1>5. Waiting' = PendingTimers' /\ (fill' = <<>> => Prepared' = {})
  <2>1. Waiting' = PendingTimers'
    BY ApplyingWaits
  <2>2. fill' = <<>> => PendingTimers' = {}
    BY NothingBound DEF PendingTimers
  <2> QED
    BY <2>1, <2>2 DEF Waiting
<1>6. Unstarted(Waiting)' /\ BindingsAfresh(Waiting)'
  BY <1>4, <1>5 DEF Unstarted, BindingsAfresh
<1> QED
  BY <1>1, <1>3, <1>4, <1>5, <1>6 DEF AfreshInv

\* A send evaluates every binding, and starts the timers that they read.
LEMMA SendingKeepsAfresh ==
  ASSUME RunInv, ValueInv, AfreshInv, DoSendTick
  PROVE  AfreshInv'
<1> DEFINE reads == ScheduleReads
<1>1. PICK period \in Delay : Publish(period, reads)
  BY DEF DoSendTick
<1> HIDE DEF reads
<1>2. /\ fill = <<>> /\ ip <= Len(program.tape) /\ Instr.op = "send" /\ phase = "stepping"
      /\ ip' \in {ip, ip + 1} /\ UNCHANGED hostVars
  BY DEF DoSendTick, At
<1>3. ~halted /\ DOMAIN statics = {live_bindings[p].timer : p \in DOMAIN live_bindings}
  BY <1>2 DEF RunInv, PlaceInv, BindingInv, StaticsFollowBindings
<1>4. /\ UNCHANGED <<halted, live_bindings, fill>>
      /\ statics' = Ticked(DOMAIN live_bindings)
      /\ timers' = Latched(reads \cup ReadAt(DOMAIN live_bindings))
  BY <1>1 DEF Publish
<1>5. DOMAIN timers' = DOMAIN timers
  BY <1>4, TimersStay
<1>6. Prepared' = {}
  BY <1>2, AwayFromAssignments DEF hostVars
<1>7. LiveTimersExist' /\ PendingTimersExist' /\ PendingApart'
  BY <1>4, <1>5 DEF AfreshInv, LiveTimersExist, PendingTimersExist, PendingApart
<1>8. Waiting' = {}
  BY <1>2, <1>4, <1>6 DEF Waiting
<1>9. BindingsAfresh(Waiting)'
  <2> SUFFICES ASSUME NEW p \in DOMAIN live_bindings
               PROVE  LET n == live_bindings[p].timer
                      IN  /\ statics'[n] # 0
                          /\ n \in live_bindings[p].bodyReads => timers'[n].offset # Unlatched
    BY <1>4 DEF BindingsAfresh, IsUnlatched
  <2> DEFINE n == live_bindings[p].timer
  <2>1. n \in DOMAIN statics /\ statics[n] \in Nat /\ n \in DOMAIN timers /\ TimersTypeOK
    BY <1>3 DEF ValueInv, StaticsTypeOK, AfreshInv, LiveTimersExist
  <2>2. statics'[n] = statics[n] + 1
    BY <1>4, <2>1 DEF Ticked
  <2>3. ASSUME n \in live_bindings[p].bodyReads PROVE timers'[n].offset # Unlatched
    <3>1. n \in ReadAt(DOMAIN live_bindings)
      BY <2>3 DEF ReadAt
    <3>2. timers'[n].offset = IF timers[n].offset = Unlatched THEN master_t ELSE timers[n].offset
      BY <1>4, <2>1, <3>1, LatchedReading
    <3>3. master_t # Unlatched
      BY <2>1, ClockAssumption DEF TimersTypeOK, Time, Unlatched
    <3> QED
      BY <3>2, <3>3
  <2> HIDE DEF n
  <2> QED
    BY <2>1, <2>2, <2>3 DEF n
<1> QED
  BY <1>6, <1>7, <1>8, <1>9 DEF AfreshInv, Unstarted

\* A run that has ended keeps the timers it has.
LEMMA EndingKeepsAfresh ==
  ASSUME RunInv, ValueInv, AfreshInv,
         RunOff \/ InstantRaises \/ BudgetExceeded \/ SendRaises \/ WaitRaises \/ PendingRaises
  PROVE  AfreshInv'
<1>1. CASE PendingRaises
  <2>1. /\ ~halted /\ ApplyNext /\ LiveInv /\ halted' = TRUE /\ fill' = <<>>
    BY <1>1 DEF PendingRaises, FieldRaises, ApplyNext, ApplyField, RunInv, PlaceInv, AfreshInv, LiveInv
  <2>2. DOMAIN fill' = {}
    BY <2>1, NothingBound
  <2> QED
    BY <2>1, <2>2, ApplyKeepsTimers DEF AfreshInv, PendingApart
<1>2. CASE RunOff \/ InstantRaises \/ BudgetExceeded \/ SendRaises \/ WaitRaises
  <2>1. EndsRun
    BY <1>2, RaisesEnd
  <2>2. DOMAIN timers' = DOMAIN timers
    BY <1>2, TimersStay DEF RunOff, InstantRaises, BudgetExceeded, SendRaises, PublishRaises, WaitRaises
  <2> QED
    BY <2>1, <2>2 DEF EndsRun, AfreshInv, LiveTimersExist, PendingTimersExist, PendingApart
<1> QED
  BY <1>1, <1>2

LEMMA AfreshStep == RunInv /\ ValueInv /\ AfreshInv /\ [RunNext]_runVars => AfreshInv'
<1> SUFFICES ASSUME RunInv, ValueInv, AfreshInv, [RunNext]_runVars PROVE AfreshInv'
  OBVIOUS
<1>1. CASE CallStep \/ CallAfterEnd \/ UNCHANGED runVars
  <2>1. /\ UNCHANGED <<halted, timers, live_bindings, statics, fill, program, ip>>
        /\ phase' = phase \/ phase' = "stepping"
    BY <1>1 DEF CallStep, CallAfterEnd, runVars, messageVars, clockVars, hostVars, resultVars
  <2>2. Prepared' = Prepared /\ PendingTimers' = PendingTimers
    BY <2>1 DEF Prepared, PendingTimers
  <2>3. Waiting' = Waiting
    BY <2>1, <2>2 DEF Waiting
  <2> QED
    BY <2>1, <2>2, <2>3 DEF AfreshInv, LiveTimersExist, PendingTimersExist, PendingApart, Unstarted,
       BindingsAfresh, IsUnlatched
<1>2. CASE \/ ExecLoopValue \/ ExecSetVar \/ ExecSetVarIndex \/ ExecSeed \/ ExecJumpIfFalse
           \/ ExecClearVar \/ ExecResetTimer \/ ExecJump \/ DoWaitTick
  <2>1. ~halted
    BY <1>2 DEF RunInv, PlaceInv, ExecLoopValue, ExecSetVar, ExecSetVarIndex, ExecSeed, ExecJumpIfFalse,
       ExecClearVar, ExecResetTimer, ExecJump, DoWaitTick, Instant, At
  <2> QED
    BY <1>2, <2>1, ReadingsArePlain, OthersArePlain, PlainKeepsAfresh
<1>3. CASE ExecCreateTimer
  BY <1>3, CreatingKeepsAfresh
<1>4. CASE ExecSetField
  BY <1>4, SettingKeepsAfresh
<1>5. CASE ApplyPending
  BY <1>5, ApplyingKeepsAfresh
<1>6. CASE DoSendTick
  BY <1>6, SendingKeepsAfresh
<1>7. CASE RunOff \/ InstantRaises \/ BudgetExceeded \/ SendRaises \/ WaitRaises \/ PendingRaises
  BY <1>7, EndingKeepsAfresh
<1> QED
  BY <1>1, <1>2, <1>3, <1>4, <1>5, <1>6, <1>7 DEF RunNext, Stepping

LEMMA AfreshInit == RunInit => AfreshInv
<1> SUFFICES ASSUME RunInit PROVE AfreshInv
  OBVIOUS
<1>1. DOMAIN live_bindings = {} /\ DOMAIN fill = {} /\ fill = <<>>
  BY NothingBound DEF RunInit, MessageInit
<1>2. Prepared = {} /\ Waiting = {}
  BY <1>1 DEF RunInit, Prepared, PreparedBefore, Waiting
<1> QED
  BY <1>1, <1>2 DEF AfreshInv, LiveTimersExist, PendingTimersExist, PendingApart, Unstarted, BindingsAfresh

AfreshRun == RunInv /\ ValueInv /\ AfreshInv

\* In a running script too a live block always finds its `_t`: the compiler's
\* order of creating and binding is kept by everything the machine does
\* (compiler.py:232, vm.py:109).
THEOREM RunLiveBlocksKeepTheirTimers == RunSpec => []LiveTimersExist
<1>1. RunInit => AfreshRun
  BY RunInvInit, ValueInit, AfreshInit DEF AfreshRun, RunInit
<1>2. AfreshRun /\ [RunNext]_runVars => AfreshRun'
  BY RunInvStep, RunValueStep, AfreshStep DEF AfreshRun
<1>3. AfreshRun => LiveTimersExist
  BY DEF AfreshRun, AfreshInv
<1> QED
  BY <1>1, <1>2, <1>3, PTL DEF RunSpec

\* A binding's counter and its `_t` start together, in every script, though
\* they live in different tables and different instructions reset them: also
\* when a loop binds the same block again, and inside positional fills
\* (compiler.py:232, vm.py:461).
THEOREM BindingsStartAfresh == RunSpec => []BindingStartsAfresh
<1>1. RunInit => AfreshRun
  BY RunInvInit, ValueInit, AfreshInit DEF AfreshRun, RunInit
<1>2. AfreshRun /\ [RunNext]_runVars => AfreshRun'
  BY RunInvStep, RunValueStep, AfreshStep DEF AfreshRun
<1>3. AfreshRun => BindingStartsAfresh
  <2> SUFFICES ASSUME AfreshRun, phase = "idle", ~halted
               PROVE  BindingsAfresh({})
    BY DEF BindingStartsAfresh, BindingsAfresh
  <2>1. fill = <<>> /\ Prepared = {}
    BY DEF AfreshRun, RunInv, PlaceInv, AfreshInv
  <2>2. Waiting = {}
    BY <2>1 DEF Waiting
  <2> QED
    BY <2>2 DEF AfreshRun, AfreshInv
<1> QED
  BY <1>1, <1>2, <1>3, PTL DEF RunSpec
-----------------------------------------------------------------------------
(* Counters and loops.  Where an instruction goes, and which variables it   *)
(* makes and takes away.                                                     *)

StaysOrGoesOn == ip' \in {ip, ip + 1} /\ DOMAIN vars' = DOMAIN vars

Executes ==
  /\ ip <= Len(program.tape)
  /\ \/ Instr.op \in {"loop", "set"} /\ ip' = ip + 1 /\ DOMAIN vars' = DOMAIN vars \cup {Instr.name}
     \/ Instr.op = "clear" /\ ip' = ip + 1 /\ DOMAIN vars' = DOMAIN vars \ {Instr.name}
     \/ Instr.op = "jump" /\ ip' = Instr.target /\ DOMAIN vars' = DOMAIN vars
     \/ Instr.op = "branch" /\ ip' \in {ip + 1, Instr.target} /\ DOMAIN vars' = DOMAIN vars
     \/ Instr.op \notin {"loop", "set", "clear", "jump"} /\ StaysOrGoesOn

LEMMA SettingADomain ==
  ASSUME NEW f, NEW x, NEW v
  PROVE  DOMAIN With(f, x, v) = DOMAIN f \cup {x}
BY DEF With

LEMMA StepsExecute ==
  ASSUME PlaceInv, [RunNext]_runVars
  PROVE  UNCHANGED program /\ (Executes \/ UNCHANGED <<ip, vars>>)
<1>1. CASE UNCHANGED runVars \/ CallStep \/ CallAfterEnd
  BY <1>1 DEF runVars, CallStep, CallAfterEnd, hostVars
<1>2. CASE RunOff \/ InstantRaises \/ BudgetExceeded \/ SendRaises \/ WaitRaises \/ PendingRaises
  BY <1>2 DEF RunOff, InstantRaises, BudgetExceeded, SendRaises, WaitRaises, PendingRaises, Fails, hostVars
<1>3. CASE ExecLoopValue \/ ExecSetVar
  <2>1. /\ UNCHANGED hostVars /\ ip <= Len(program.tape) /\ Instr.op \in {"loop", "set"} /\ ip' = ip + 1
        /\ \E v : vars' = With(vars, Instr.name, v)
    BY <1>3 DEF ExecLoopValue, ExecSetVar, Instant, At, SetVar
  <2>2. PICK v : vars' = With(vars, Instr.name, v)
    BY <2>1
  <2>3. DOMAIN With(vars, Instr.name, v) = DOMAIN vars \cup {Instr.name}
    BY SettingADomain
  <2> QED
    BY <2>1, <2>2, <2>3 DEF Executes, hostVars
<1>4. CASE ExecClearVar
  BY <1>4 DEF ExecClearVar, Instant, At, Restrict, Executes, hostVars
<1>5. CASE ExecSetVarIndex
  <2>1. /\ UNCHANGED hostVars /\ ip <= Len(program.tape) /\ Instr.op = "index" /\ ip' = ip + 1
        /\ Instr.name \in DOMAIN vars /\ \E v : vars' = With(vars, Instr.name, v)
    BY <1>5 DEF ExecSetVarIndex, Instant, At, SetVar
  <2>2. PICK v : vars' = With(vars, Instr.name, v)
    BY <2>1
  <2>3. DOMAIN With(vars, Instr.name, v) = DOMAIN vars \cup {Instr.name}
    BY SettingADomain
  <2>4. DOMAIN vars' = DOMAIN vars
    BY <2>1, <2>2, <2>3
  <2> QED
    BY <2>1, <2>4 DEF Executes, StaysOrGoesOn, hostVars
<1>6. CASE ExecSeed \/ ExecCreateTimer \/ ExecResetTimer \/ ExecSetField
  BY <1>6 DEF ExecSeed, ExecCreateTimer, ExecResetTimer, ExecSetField, Instant, At, Executes, StaysOrGoesOn, hostVars
<1>7. CASE ExecJump \/ ExecJumpIfFalse
  BY <1>7 DEF ExecJump, ExecJumpIfFalse, Instant, At, Executes, hostVars
<1>8. CASE ApplyPending
  BY <1>8 DEF ApplyPending, PlaceInv, Executes, StaysOrGoesOn, hostVars
<1>9. CASE DoSendTick
  <2>1. UNCHANGED <<hostVars, vars>> /\ ip <= Len(program.tape) /\ Instr.op = "send"
    BY <1>9 DEF DoSendTick, At
  <2>2. ip' \in {ip, ip + 1}
    BY <1>9 DEF DoSendTick
  <2> QED
    BY <2>1, <2>2 DEF Executes, StaysOrGoesOn, hostVars
<1>10. CASE DoWaitTick
  BY <1>10 DEF DoWaitTick, At, Executes, StaysOrGoesOn, hostVars
<1> QED
  BY <1>1, <1>2, <1>3, <1>4, <1>5, <1>6, <1>7, <1>8, <1>9, <1>10 DEF RunNext, Stepping

\* What is known of the instruction the machine is at, for each loop.
LEMMA AroundALoop ==
  ASSUME PlaceInv, NEW loop \in LoopsOf(program.tape), ip <= Len(program.tape)
  PROVE  /\ ip \in 1..Len(program.tape) /\ loop.first \in Nat \ {0} /\ loop.last \in Nat
         /\ loop.first + 3 <= loop.last /\ loop.last <= Len(program.tape) /\ Len(program.tape) \in Nat
         /\ loop.counter # loop.bound
         /\ ip = loop.first => Instr.op = "loop" /\ Instr.name = loop.counter
         /\ ip = loop.first + 1 => Instr.op = "loop" /\ Instr.name = loop.bound
         /\ ip = loop.last - 1 => Instr.op = "clear" /\ Instr.name = loop.counter
         /\ ip = loop.last => Instr.op = "clear" /\ Instr.name = loop.bound
         /\ Instr.op \in {"jump", "branch"} =>
              IF ip \in loop.first + 1 .. loop.last
              THEN Instr.target \in loop.first + 1 .. loop.last - 1
              ELSE Instr.target \notin loop.first + 1 .. loop.last
         /\ Instr.op = "clear" /\ ip \in loop.first + 1 .. loop.last - 2 =>
              Instr.name \notin {loop.counter, loop.bound}
         /\ Instr.op \in {"loop", "set"} /\ ip # loop.first + 1 => Instr.name # loop.bound
<1>1. program \in Programs /\ ip \in 1..Len(program.tape) /\ Len(program.tape) \in Nat
  BY RunAssumption DEF PlaceInv
<1>2. PICK k \in 1..Len(program.tape) - 2 :
        /\ program.tape[k].op = "loop" /\ program.tape[k+1].op = "loop"
        /\ loop = [first |-> k, last |-> program.tape[k+2].target + 1,
                   counter |-> program.tape[k].name, bound |-> program.tape[k+1].name]
  BY DEF LoopsOf
<1>3. loop.first = k /\ loop.counter = program.tape[k].name /\ loop.bound = program.tape[k+1].name
  BY <1>2
<1>4. /\ loop.last \in loop.first + 3 .. Len(program.tape)
      /\ loop.counter # loop.bound
      /\ program.tape[loop.last - 1].op = "clear" /\ program.tape[loop.last - 1].name = loop.counter
      /\ program.tape[loop.last].op = "clear" /\ program.tape[loop.last].name = loop.bound
  BY <1>1, LoopAssumption
<1>5. /\ Instr.op \in {"jump", "branch"} =>
           IF ip \in loop.first + 1 .. loop.last
           THEN Instr.target \in loop.first + 1 .. loop.last - 1
           ELSE Instr.target \notin loop.first + 1 .. loop.last
      /\ Instr.op = "clear" /\ ip \in loop.first + 1 .. loop.last - 2 =>
           Instr.name \notin {loop.counter, loop.bound}
      /\ Instr.op \in {"loop", "set"} /\ ip # loop.first + 1 => Instr.name # loop.bound
  BY <1>1, LoopAssumption DEF Instr
<1>6. /\ ip = loop.first => Instr.op = "loop" /\ Instr.name = loop.counter
      /\ ip = loop.first + 1 => Instr.op = "loop" /\ Instr.name = loop.bound
  BY <1>2, <1>3 DEF Instr
<1>7. loop.first \in Nat \ {0} /\ loop.last \in Nat /\ loop.first + 3 <= loop.last /\ loop.last <= Len(program.tape)
  BY <1>1, <1>3, <1>4
<1> QED
  BY <1>1, <1>4, <1>5, <1>6, <1>7 DEF Instr

\* One instruction and one loop.
LEMMA CounterKeepsLasting ==
  ASSUME PlaceInv, NEW loop \in LoopsOf(program.tape), CounterLasts(loop), Executes, UNCHANGED program
  PROVE  CounterLasts(loop)'
<1> DEFINE body == loop.first + 1 .. loop.last - 1
           set == loop.first + 2 .. loop.last
           held == loop.first + 1 .. loop.last
           elsewhere == \E i \in 1..Len(program.tape) \ loop.first .. loop.last :
                          program.tape[i].op \in {"loop", "set"} /\ program.tape[i].name = loop.counter
<1>1. ip <= Len(program.tape)
  BY DEF Executes
<1>2. ip' \in body => loop.counter \in DOMAIN vars'
  <2> SUFFICES ASSUME ip' \in body PROVE loop.counter \in DOMAIN vars'
    OBVIOUS
  <2>1. CASE ip = loop.first
    BY <1>1, <2>1, AroundALoop DEF Executes
  <2>2. CASE ip \in body
    <3>1. loop.counter \in DOMAIN vars
      BY <2>2 DEF CounterLasts
    <3> QED
      BY <1>1, <2>2, <3>1, AroundALoop DEF Executes, StaysOrGoesOn
  <2>3. CASE ip # loop.first /\ ip \notin body
    BY <1>1, <2>3, AroundALoop DEF Executes, StaysOrGoesOn
  <2> QED
    BY <2>1, <2>2, <2>3
<1>3. ip' \in set => loop.bound \in DOMAIN vars'
  <2> SUFFICES ASSUME ip' \in set PROVE loop.bound \in DOMAIN vars'
    OBVIOUS
  <2>1. CASE ip = loop.first + 1
    BY <1>1, <2>1, AroundALoop DEF Executes
  <2>2. CASE ip \in set
    <3>1. loop.bound \in DOMAIN vars
      BY <2>2 DEF CounterLasts
    <3>2. CASE ip = loop.last
      BY <1>1, <3>2, AroundALoop DEF Executes
    <3>3. CASE ip # loop.last
      BY <1>1, <2>2, <3>1, <3>3, AroundALoop DEF Executes, StaysOrGoesOn
    <3> QED
      BY <3>2, <3>3
  <2>3. CASE ip # loop.first + 1 /\ ip \notin set
    BY <1>1, <2>3, AroundALoop DEF Executes, StaysOrGoesOn
  <2> QED
    BY <2>1, <2>2, <2>3
<1>4. ip' \notin held => loop.bound \notin DOMAIN vars'
  BY <1>1, AroundALoop DEF Executes, StaysOrGoesOn, CounterLasts
<1>5. ip' \notin body /\ loop.counter \in DOMAIN vars' => elsewhere
  <2> SUFFICES ASSUME ip' \notin body, loop.counter \in DOMAIN vars', ~elsewhere PROVE FALSE
    OBVIOUS
  <2>1. Instr.op \in {"loop", "set"} /\ Instr.name = loop.counter => ip \in loop.first .. loop.last
    BY <1>1, AroundALoop DEF Instr
  <2>2. CASE ip \in body
    BY <1>1, <2>2, AroundALoop DEF Executes, StaysOrGoesOn
  <2>3. CASE ip \notin body
    BY <1>1, <2>1, <2>3, AroundALoop DEF Executes, StaysOrGoesOn, CounterLasts
  <2> QED
    BY <2>2, <2>3
<1> QED
  BY <1>2, <1>3, <1>4, <1>5 DEF CounterLasts

\* In every compiled script the counter and the bound of a loop are there as
\* long as the machine is in it, and go when it leaves (vm.py:261-269,
\* compiler.py:284-298).
THEOREM CountersLast == RunSpec => []CountersLastAsLongAsLoops
<1>1. RunInit => CountersLastAsLongAsLoops
  <2> SUFFICES ASSUME RunInit, NEW loop \in LoopsOf(program.tape) PROVE CounterLasts(loop)
    BY DEF CountersLastAsLongAsLoops
  <2>1. PlaceInv /\ ip = 1 /\ DOMAIN vars = {}
    BY RunInvInit DEF RunInv, RunInit
  <2>2. ip <= Len(program.tape)
    BY <2>1, RunAssumption DEF LoopsOf, PlaceInv
  <2> QED
    BY <2>1, <2>2, AroundALoop DEF CounterLasts
<1>2. RunInv /\ CountersLastAsLongAsLoops /\ [RunNext]_runVars => CountersLastAsLongAsLoops'
  <2> SUFFICES ASSUME RunInv, CountersLastAsLongAsLoops, [RunNext]_runVars,
                      NEW loop \in LoopsOf(program.tape)
               PROVE  CounterLasts(loop)'
    BY StepsExecute DEF CountersLastAsLongAsLoops, RunInv
  <2>1. PlaceInv /\ UNCHANGED program /\ CounterLasts(loop)
    BY StepsExecute DEF RunInv, CountersLastAsLongAsLoops
  <2>2. CASE Executes
    BY <2>1, <2>2, CounterKeepsLasting
  <2>3. CASE UNCHANGED <<ip, vars>>
    BY <2>1, <2>3 DEF CounterLasts
  <2> QED
    BY <2>1, <2>2, <2>3, StepsExecute
<1> QED
  BY <1>1, <1>2, RunInvInit, RunInvStep, PTL DEF RunSpec
=============================================================================
