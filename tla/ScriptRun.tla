----------------------------- MODULE ScriptRun -----------------------------
(***************************************************************************)
(* The virtual machine: one run of a compiled script.  The host calls      *)
(* step(); the machine executes instant instructions until a send or a     *)
(* wait, and hands back a result.  Every instruction is a step of its own  *)
(* here, so what an error leaves behind in the middle of step() is seen.   *)
(***************************************************************************)
EXTENDS Message

CONSTANTS
  Programs,      \* compiled scripts: [tape, externs], externs giving each name's values
  StepBudget,    \* step_instruction_budget
  MinPeriod      \* 1 / max_hz: no send asks for the next step sooner

ASSUME RunAssumption ==
  /\ StepBudget \in Nat \ {0}
  /\ MinPeriod \in Nat \ {0}
  /\ \A prog \in Programs :
       /\ Len(prog.tape) \in Nat
       /\ \A i \in 1..Len(prog.tape) :
            /\ prog.tape[i].op = "field" => <<prog.tape[i].path, prog.tape[i].value>> \in Placement
            /\ prog.tape[i].op \in {"jump", "branch"} => prog.tape[i].target \in Nat \ {0}
            /\ prog.tape[i].op = "create" => prog.tape[i].name \in TimerName /\ prog.tape[i].kind \in TimerKind

\* The timers created by the instructions that end just before the i-th one.
PreparedBefore(tape, i) ==
  {tape[j].name : j \in {j \in 1..i-1 : \A k \in j..i-1 : tape[k].op = "create"}}

\* The names that evaluating an instruction looks up.
NamesIn(instr) ==
  CASE instr.op \in {"loop", "set", "index", "seed", "branch"} -> Range(instr.expr.names)
    [] instr.op = "wait" -> Range(instr.duration.names)
    [] instr.op = "send" -> Range(instr.period.names) \cup
                              IF instr.kind = "inf" THEN {} ELSE Range(instr.duration.names)
    [] OTHER -> {}

\* What a compiled tape is like around live blocks: an assignment follows the
\* instructions that create the latching timers of its blocks, and nothing jumps
\* in between (compiler.py:227-238).  No name of a script's is the name of such
\* a timer (vm.py:114, parser.py:380).
ASSUME CompiledAssumption ==
  \A prog \in Programs : \A i \in 1..Len(prog.tape) :
    LET instr == prog.tape[i]
        ready == PreparedBefore(prog.tape, i) \cap PrivateTimers
    IN  /\ instr.op = "field" => instr.value.timers = ready
        /\ instr.op \notin {"create", "field"} => ready = {}
        /\ instr.op = "create" /\ instr.name \in PrivateTimers => instr.kind = "latching"
        /\ instr.op = "reset" => instr.name \notin PrivateTimers
        /\ instr.op \in {"jump", "branch"} =>
             PreparedBefore(prog.tape, instr.target) \cap PrivateTimers = {}
        /\ NamesIn(instr) \cap PrivateTimers = {}

\* The bounded loops of a tape: a counter and a bound, and the guard that compares
\* the two on every lap and leaves for the instructions that clear them.
LoopsOf(tape) ==
  {[first |-> k, last |-> tape[k+2].target + 1, counter |-> tape[k].name, bound |-> tape[k+1].name] :
     k \in {k \in 1..Len(tape) - 2 :
              /\ tape[k].op = "loop" /\ tape[k+1].op = "loop" /\ tape[k+2].op = "branch"
              /\ tape[k+2].expr.names = <<tape[k].name, tape[k+1].name>>}}

\* What a compiled tape is like around its loops: they are entered at the first
\* instruction and left by the last, a name that is a counter's is not cleared
\* by a loop inside (parser.py:380, parser.py:578), and a bound's is its own
\* (compiler.py:279-298).
ASSUME LoopAssumption ==
  \A prog \in Programs : \A loop \in LoopsOf(prog.tape) :
    /\ loop.last \in loop.first + 3 .. Len(prog.tape)
    /\ loop.counter # loop.bound
    /\ prog.tape[loop.last - 1].op = "clear" /\ prog.tape[loop.last - 1].name = loop.counter
    /\ prog.tape[loop.last].op = "clear" /\ prog.tape[loop.last].name = loop.bound
    /\ \A i \in 1..Len(prog.tape) :
         LET instr == prog.tape[i]
         IN  /\ instr.op \in {"jump", "branch"} =>
                  IF i \in loop.first + 1 .. loop.last
                  THEN instr.target \in loop.first + 1 .. loop.last - 1
                  ELSE instr.target \notin loop.first + 1 .. loop.last
             /\ instr.op = "clear" /\ i \in loop.first + 1 .. loop.last - 2 =>
                  instr.name \notin {loop.counter, loop.bound}
             /\ instr.op \in {"loop", "set"} /\ i # loop.first + 1 => instr.name # loop.bound

VARIABLES
  program,           \* ScriptRun.instructions and the declared externs
  externs,           \* ScriptRun.externs: resolved before the first step
  vars,              \* ScriptRun.vars
  ip,                \* ScriptRun.ip, counted from 1
  send_ip,           \* _send_ip: the send in progress, None if there is none
  send_ticks_done,   \* _send_ticks_done
  send_period,       \* 1 / _send_hz
  send_duration,     \* _send_duration: ticks or time, 0 for None
  sequence,          \* ScriptRun.sequence
  executed,          \* instant instructions of this step so far
  phase,             \* "idle" between calls of step(), "stepping" within one
  result             \* what the last finished call of step() did

hostVars == <<program, externs>>
sendVars == <<send_ip, send_ticks_done, send_period, send_duration>>
resultVars == <<sequence, phase, result>>
runVars == <<messageVars, hostVars, vars, ip, sendVars, executed, resultVars>>

None == 0

\* Faulty variant: the timestamp of a result is taken when time has passed.
OutcomeAfter(kind, delay, timestamp, number) ==
  [kind |-> kind, delay |-> delay, timestamp |-> timestamp + delay, sequence |-> number]

Outcome(kind, delay, timestamp, number) ==
  [kind |-> kind, delay |-> delay, timestamp |-> timestamp, sequence |-> number]
Nothing(kind) == Outcome(kind, 0, 0, 0)

RunInit ==
  /\ MessageInit
  /\ program \in Programs
  /\ externs \in {f \in [DOMAIN program.externs -> UNION {program.externs[n] : n \in DOMAIN program.externs}] :
                    \A n \in DOMAIN f : f[n] \in program.externs[n]}
  /\ vars = <<>>
  /\ ip = 1
  /\ send_ip = None /\ send_ticks_done = 0 /\ send_period = MinPeriod /\ send_duration = 0
  /\ sequence = 0 /\ executed = 0 /\ phase = "idle" /\ result = Nothing("new")

-----------------------------------------------------------------------------
(* Expressions.  `names` are the identifiers read, in order; an expression  *)
(* whose `op` is "any" stands for one that may give any of its `values`.    *)

AsInteger(v) == v[<<>>].data[2]
IsNumber(v) == v[<<>>].type \in {"int", "float"} /\ AsInteger(v) \in Int
IsPositive(v) == IsNumber(v) /\ AsInteger(v) > 0
IsTruthy(v) == IF IsObject(v) THEN DOMAIN v # {<<>>} ELSE v[<<>>].data[2] # 0

\* expr.RESERVED_NAMES: the functions and the constants.  A field may have such a
\* name, but an expression cannot read it by that.
ReservedNames ==
  {"sin", "cos", "abs", "sqrt", "floor", "ceil", "min", "max", "floordiv", "terop",
   "random", "noise", "uniform", "discrete_uniform", "poisson", "binomial",
   "linear", "square", "triangle", "sawtooth", "damped_wave", "sinusoidal_wave",
   "pulse", "exponential", "polynomial", "keyframes", "pi", "e", "true", "false"}

\* _Scope: an extern hides a timer, a timer a variable, a variable a field; `msg` is
\* the whole message.  A name found nowhere has no value, and evaluating it raises.
Lookup(name) ==
  IF name = "t" THEN {Seconds(master_t)}
  ELSE IF name \in DOMAIN externs THEN {externs[name]}
  ELSE IF name \in DOMAIN timers THEN {Seconds(Reading(name))}
  ELSE IF name \in DOMAIN vars THEN {vars[name]}
  ELSE IF name = "msg" THEN {msg}
  ELSE IF <<name>> \in DOMAIN msg /\ name \notin ReservedNames THEN {Subtree(msg, <<name>>)} ELSE {}

TimersRead(e) == (Range(e.names) \cap DOMAIN timers) \ DOMAIN externs

Eval(e) ==
  CASE e.op = "any" -> IF \A n \in Range(e.names) : Lookup(n) # {} THEN e.values ELSE {}
    [] e.op = "name" -> Lookup(e.names[1])
    [] e.op = "next" -> {Number(AsInteger(v) + 1) : v \in Lookup(e.names[1])}
    [] e.op = "less" -> {Truth(AsInteger(v) < AsInteger(w)) :
                           v \in Lookup(e.names[1]), w \in Lookup(e.names[2])}

-----------------------------------------------------------------------------
(* step(): the host's side of it. *)

Instr == program.tape[ip]

CallStep ==
  /\ phase = "idle" /\ ~halted
  /\ phase' = "stepping"
  /\ executed' = 0
  /\ UNCHANGED <<messageVars, hostVars, vars, ip, sendVars, sequence, result>>

\* A run that has ended, well or not, answers None and stays as it is.
CallAfterEnd ==
  /\ phase = "idle" /\ halted
  /\ result' = Nothing("end")
  /\ UNCHANGED <<messageVars, hostVars, vars, ip, sendVars, executed, sequence, phase>>

Return(outcome) == phase' = "idle" /\ result' = outcome

RunOff ==
  /\ phase = "stepping" /\ fill = <<>> /\ ip > Len(program.tape)
  /\ halted' = TRUE
  /\ Return(Nothing("end"))
  /\ UNCHANGED <<master_t, timers, msg, bindingVars, fill, published>>
  /\ UNCHANGED <<hostVars, vars, ip, sendVars, executed, sequence>>

At(ops) ==
  /\ phase = "stepping" /\ fill = <<>> /\ ip <= Len(program.tape)
  /\ Instr.op \in ops

\* Faulty variant: the budget is counted and not enforced.
InstantUnlimited(op) ==
  /\ At({op})
  /\ executed' = executed + 1
  /\ UNCHANGED <<hostVars, sendVars, resultVars>>
Instant(op) ==
  /\ At({op})
  /\ executed < StepBudget
  /\ executed' = executed + 1
  /\ UNCHANGED <<hostVars, sendVars, resultVars>>

-----------------------------------------------------------------------------
(* _exec_instant *)

SetVar(name, v) == vars' = With(vars, name, v)

ReadFor(e) == timers' = Latched(TimersRead(e)) /\ UNCHANGED <<halted, master_t>>

MessageKept == UNCHANGED <<msg, bindingVars, fill, published>>

ExecLoopValue ==
  /\ Instant("loop")
  /\ \E v \in Eval(Instr.expr) :
       /\ IsNumber(v) /\ (Instr.nonnegative => AsInteger(v) >= 0)
       /\ SetVar(Instr.name, Number(AsInteger(v)))
  /\ ReadFor(Instr.expr)
  /\ ip' = ip + 1
  /\ MessageKept

\* Faulty variant: counters and bounds stay when their loop is left.
ExecClearNothing ==
  /\ Instant("clear")
  /\ ip' = ip + 1
  /\ UNCHANGED <<clockVars, vars>> /\ MessageKept

ExecClearVar ==
  /\ Instant("clear")
  /\ vars' = Restrict(vars, DOMAIN vars \ {Instr.name})
  /\ ip' = ip + 1
  /\ UNCHANGED clockVars /\ MessageKept

ExecSetVar ==
  /\ Instant("set")
  /\ \E v \in Eval(Instr.expr) : SetVar(Instr.name, v)
  /\ ReadFor(Instr.expr)
  /\ ip' = ip + 1
  /\ MessageKept

\* Writing inside an object, by field names: objects that are missing on the
\* way are made, anything else in the way is an error.  Array indexes are left out.
ExecSetVarIndex ==
  /\ Instant("index")
  /\ Instr.name \in DOMAIN vars
  /\ LET container == vars[Instr.name]
     IN  /\ \A q \in StrictPrefixes(Instr.path) : q \in DOMAIN container => container[q] = Object
         /\ \E v \in Eval(Instr.expr) :
              SetVar(Instr.name, Overlay(container, [q \in {Instr.path} |-> v]))
  /\ ReadFor(Instr.expr)
  /\ ip' = ip + 1
  /\ MessageKept

\* The random generator itself is not modelled: a random value is any value.
ExecSeed ==
  /\ Instant("seed")
  /\ \E v \in Eval(Instr.expr) : IsNumber(v) \/ v[<<>>].type = "string"
  /\ ReadFor(Instr.expr)
  /\ ip' = ip + 1
  /\ UNCHANGED vars /\ MessageKept

ExecCreateTimer ==
  /\ Instant("create")
  /\ CreateTimer(Instr.name, Instr.kind)
  /\ ip' = ip + 1
  /\ UNCHANGED vars /\ MessageKept

ExecResetTimer ==
  /\ Instant("reset")
  /\ ResetTimer(Instr.name)
  /\ ip' = ip + 1
  /\ UNCHANGED vars /\ MessageKept

ExecJump ==
  /\ Instant("jump")
  /\ ip' = Instr.target
  /\ UNCHANGED <<clockVars, vars>> /\ MessageKept

ExecJumpIfFalse ==
  /\ Instant("branch")
  /\ \E v \in Eval(Instr.expr) : ip' = IF IsTruthy(v) THEN ip + 1 ELSE Instr.target
  /\ ReadFor(Instr.expr)
  /\ UNCHANGED vars /\ MessageKept

ExecSetField ==
  /\ Instant("field")
  /\ fill' = <<[path |-> Instr.path, value |-> Instr.value]>>
  /\ UNCHANGED <<clockVars, msg, bindingVars, published, vars, ip>>

\* The calls of _apply_field; the instruction is done when none is left.
ApplyPending ==
  /\ phase = "stepping" /\ fill # <<>>
  /\ LET p == Head(fill).path
         v == Head(fill).value
     IN  ApplyStatic(p, v) \/ ApplyFill(p, v) \/ ApplyLive(p, v)
  /\ ip' = IF fill' = <<>> THEN ip + 1 ELSE ip
  /\ UNCHANGED <<hostVars, vars, sendVars, executed, resultVars>>

PendingRaises ==
  /\ phase = "stepping" /\ fill # <<>>
  /\ FieldRaises(Head(fill).path, Head(fill).value)
  /\ Return(Nothing("error"))
  /\ UNCHANGED <<hostVars, vars, ip, sendVars, executed, sequence>>

\* Faulty variant: the clock moves before the error is noticed.
FailsLater ==
  /\ halted' = TRUE
  /\ Return(Nothing("error"))
  /\ master_t' = FloatAdd(master_t, MinPeriod) /\ MessageKept
  /\ UNCHANGED <<hostVars, vars, ip, sendVars, executed, sequence>>

\* Faulty variant: an exception that step() does not list: it does not end the run.
FailsUnlisted ==
  /\ halted' = halted
  /\ Return(Nothing("error"))
  /\ UNCHANGED master_t /\ MessageKept
  /\ UNCHANGED <<hostVars, vars, ip, sendVars, executed, sequence>>

\* An error in an instruction, or in front of it, ends the run.
Fails ==
  /\ halted' = TRUE
  /\ Return(Nothing("error"))
  /\ UNCHANGED master_t /\ MessageKept
  /\ UNCHANGED <<hostVars, vars, ip, sendVars, executed, sequence>>

\* Evaluating anything may raise, after any of the timers it reads.
InstantEvaluates == {"loop", "set", "index", "seed", "branch", "reset"}
InstantOps == InstantEvaluates \cup {"clear", "create", "jump", "field"}

InstantRaises ==
  /\ At(InstantEvaluates) /\ executed < StepBudget
  /\ \E read \in SUBSET (IF Instr.op = "reset" THEN {} ELSE TimersRead(Instr.expr)) :
       timers' = Latched(read)
  /\ Fails

\* Faulty variant: a budget used up is granted again.
BudgetRenewed ==
  /\ At(InstantOps) /\ executed = StepBudget
  /\ executed' = 1
  /\ UNCHANGED <<messageVars, hostVars, vars, ip, sendVars, resultVars>>

BudgetExceeded ==
  /\ At(InstantOps) /\ executed = StepBudget
  /\ UNCHANGED timers
  /\ Fails

-----------------------------------------------------------------------------
(* _do_send_tick and _do_wait_tick *)

Entering == send_ip # ip

\* The schedules a send may settle on when it is entered; a rate above the
\* ceiling is lowered to it.  A send "dur inf" has no duration.
Periods == {IF AsInteger(v) < MinPeriod THEN MinPeriod ELSE AsInteger(v) :
              v \in {v \in Eval(Instr.period) : IsPositive(v)}}

Durations == IF Instr.kind = "inf" THEN {0}
             ELSE {AsInteger(v) : v \in {v \in Eval(Instr.duration) : IsPositive(v)}}

ScheduleReads ==
  IF ~Entering THEN {}
  ELSE TimersRead(Instr.period) \cup IF Instr.kind = "inf" THEN {} ELSE TimersRead(Instr.duration)

\* Faulty variants: one tick too many; a finished send is not left.
SendIsDoneLate(kind, ticks, period, duration) ==
  CASE kind = "inf" -> FALSE
    [] kind = "tick" -> ticks > duration
    [] kind = "wall" -> ticks * period > duration
NextSendKept(done) == ip

SendIsDone(kind, ticks, period, duration) ==
  CASE kind = "inf" -> FALSE
    [] kind = "tick" -> ticks >= duration
    [] kind = "wall" -> ticks * period >= duration

NextSend(done) == IF done THEN None ELSE ip

\* A live block that reads a name nobody knows any more raises.
LiveNamesAreKnown ==
  \A p \in DOMAIN live_bindings : \A n \in live_bindings[p].names : Lookup(n) # {}

DoSendTick ==
  /\ At({"send"})
  /\ LiveNamesAreKnown
  /\ \E period \in IF Entering THEN Periods ELSE {send_period},
        duration \in IF Entering THEN Durations ELSE {send_duration} :
       LET ticks == (IF Entering THEN 0 ELSE send_ticks_done) + 1
           done == SendIsDone(Instr.kind, ticks, period, duration)
       IN  /\ period \in Delay
           /\ Publish(period, ScheduleReads)
           /\ send_ip' = NextSend(done)
           /\ ip' = IF done THEN ip + 1 ELSE ip
           /\ send_ticks_done' = ticks
           /\ send_period' = period
           /\ send_duration' = duration
           /\ Return(Outcome("send", period, master_t, sequence))
  /\ sequence' = sequence + 1
  /\ UNCHANGED <<hostVars, vars, executed>>

\* The schedule is refused, the message cannot be assembled, or the clock
\* cannot take the period.
SendRaises ==
  /\ At({"send"})
  /\ \E read \in SUBSET ScheduleReads : PublishRaises(read)
  /\ send_ip' = ip
  /\ IF Entering THEN send_ticks_done' = 0 ELSE UNCHANGED send_ticks_done
  /\ send_period' \in {send_period} \cup IF Entering THEN Periods ELSE {}
  /\ send_duration' \in {send_duration} \cup IF Entering THEN Durations ELSE {}
  /\ Return(Nothing("error"))
  /\ UNCHANGED <<hostVars, vars, ip, executed, sequence>>

\* A wait is never held to the rate ceiling: it publishes nothing.
DoWaitTick ==
  /\ At({"wait"})
  /\ \E v \in Eval(Instr.duration) :
       /\ IsPositive(v) /\ AsInteger(v) \in Delay
       /\ Advance(AsInteger(v))
       /\ Return(Outcome("wait", AsInteger(v), master_t, sequence))
  /\ timers' = Latched(TimersRead(Instr.duration))
  /\ ip' = ip + 1
  /\ sequence' = sequence + 1
  /\ UNCHANGED <<halted, hostVars, vars, sendVars, executed>> /\ MessageKept

WaitRaises ==
  /\ At({"wait"})
  /\ \E read \in SUBSET TimersRead(Instr.duration) : timers' = Latched(read)
  /\ Fails

-----------------------------------------------------------------------------
Stepping ==
  \/ RunOff
  \/ ExecLoopValue \/ ExecClearVar \/ ExecSetVar \/ ExecSetVarIndex \/ ExecSeed
  \/ ExecCreateTimer \/ ExecResetTimer \/ ExecJump \/ ExecJumpIfFalse
  \/ ExecSetField \/ ApplyPending \/ PendingRaises \/ InstantRaises \/ BudgetExceeded
  \/ DoSendTick \/ SendRaises \/ DoWaitTick \/ WaitRaises

RunNext == CallStep \/ CallAfterEnd \/ Stepping

\* The host may stop calling step(), but a call it has made runs on.
RunSpec == RunInit /\ [][RunNext]_runVars /\ WF_runVars(Stepping)

-----------------------------------------------------------------------------
RunTypeOK ==
  /\ MessageTypeOK
  /\ program \in Programs
  /\ ip \in Nat \ {0}
  /\ send_ip \in Nat /\ send_ticks_done \in Nat /\ send_period \in Nat /\ send_duration \in Nat
  /\ sequence \in Nat
  /\ executed \in 0..StepBudget
  /\ phase \in {"idle", "stepping"}
  /\ result \in [kind : {"new", "send", "wait", "end", "error"}, delay : Nat,
                 timestamp : Nat, sequence : Nat]
  /\ fill # <<>> => phase = "stepping"

\* A send is left only by finishing it: while one is in progress the machine
\* stands at it, has sent at least one tick of it, and still owes some.  So a
\* later visit can never inherit ticks or a schedule from an earlier one
\* (vm.py:301, vm.py:320-323).
SendInProgress ==
  ~halted /\ send_ip # None =>
    /\ send_ip = ip /\ ip <= Len(program.tape) /\ Instr.op = "send"
    /\ send_ticks_done >= 1
    /\ ~SendIsDone(Instr.kind, send_ticks_done, send_period, send_duration)

\* A binding's `_t` and its statics start together: between steps, a binding
\* that no send has evaluated yet has counted nothing and - unless its static
\* initialisers read it - its timer has not started; one that has been
\* evaluated and reads `_t` has a running timer.  The two live in different
\* tables and are reset by different instructions (compiler.py:232, vm.py:461).
BindingStartsAfresh ==
  phase = "idle" /\ ~halted =>
    \A p \in DOMAIN live_bindings :
      LET b == live_bindings[p]
      IN  /\ statics[b.timer] = 0 /\ b.timer \notin b.reads => IsUnlatched(b.timer)
          /\ statics[b.timer] > 0 /\ b.timer \in b.bodyReads => ~IsUnlatched(b.timer)

CounterLasts(loop) ==
  /\ ip \in loop.first + 1 .. loop.last - 1 => loop.counter \in DOMAIN vars
  /\ ip \in loop.first + 2 .. loop.last => loop.bound \in DOMAIN vars
  /\ ip \notin loop.first + 1 .. loop.last => loop.bound \notin DOMAIN vars
  /\ ip \notin loop.first + 1 .. loop.last - 1 /\ loop.counter \in DOMAIN vars =>
       \E i \in 1..Len(program.tape) \ loop.first .. loop.last :
         program.tape[i].op \in {"loop", "set"} /\ program.tape[i].name = loop.counter

\* README "A `for` counter exists only for its loop": on every lap and through
\* every loop inside it, also where an expression or a live block reads it, and
\* a script that runs for long gathers no counters and bounds of loops it has
\* left (vm.py:261-269, compiler.py:284-298).
CountersLastAsLongAsLoops == \A loop \in LoopsOf(program.tape) : CounterLasts(loop)

\* What the host knows to be over: step() has raised, or answered None.
HasEnded == halted \/ (phase = "idle" /\ result.kind \in {"end", "error"})

\* README "A runtime error halts that run": once step() has raised, in front of an
\* instruction or in the middle of one, or has run off the tape, no later call
\* executes, publishes or changes anything: a half executed instruction is not
\* executed again, and nothing comes after it (vm.py:211-212, vm.py:238-239).
EndedRunsStayAsTheyAre ==
  [][HasEnded => /\ UNCHANGED <<messageVars, hostVars, vars, ip, sendVars, sequence>>
                 /\ result' = Nothing("end")]_runVars

\* Simulated time moves only as a result is handed back, and by just the delay
\* that result asks the host to wait: a host that sleeps for every delay stays
\* in step with the timestamps (vm.py:314-327, vm.py:350-357).
TimeMovesWithResults ==
  [][master_t' # master_t =>
       /\ phase = "stepping" /\ phase' = "idle"
       /\ result'.timestamp = master_t
       /\ result'.sequence = sequence
       /\ master_t' = FloatAdd(master_t, result'.delay)]_runVars

\* Every call of step() returns: the instruction budget ends the loops that
\* neither send nor wait (vm.py:250-257).
StepReturns == phase = "stepping" ~> phase = "idle"
=============================================================================
