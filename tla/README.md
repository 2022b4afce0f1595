# A verification of SignalLang in TLA+

SignalLang is a small language for scheduled messages.  A script is parsed and
compiled to a tape of instructions; a `ScriptRun` executes it, one call of
`step()` at a time, and hands back messages and waits with simulated
timestamps; two drivers pace those results in real time.  The code is
sequential except for the drivers, but it keeps a lot of state between calls of
`step()`, and what is hard in it is how that state fits together: live bindings
that take over each other's fields, statics and timers that must start and end
with their binding, a send that is in progress over many calls, errors in the
middle of an instruction.

## The system

| Component | State | Operations | What makes it correct |
|---|---|---|---|
| Simulated time (`vm.py`) | `master_t`, `timers` | advance; create, reset, read a timer | time strictly increases or the run ends; a timer measures from its own latest creation, reset or first read |
| Message assembly (`vm.py`, `schema.py`) | `msg`, `live_bindings`, `statics` | `_apply_field`, `_set_path`, `_current_msg` | the most recent write owns overlapping paths; statics and `_t` live as long as their binding; a strict schema always holds |
| Virtual machine (`vm.py`) | `ip`, `vars`, `externs`, the send in progress, `sequence`, `halted` | `step()`, every instruction | each send lasts as long as written; results are one gapless timeline; `step()` returns; an ended run stays as it is |
| Compiler (`compiler.py`) | tape, fresh names | one case per statement | loops go round as often as written; a live block's timer exists before the block is bound |
| Parser (`parser.py`) | names in scope, macros, expansions under way | one case per statement; recording and expanding a macro | names that share a run-time slot never overlap; an expanded macro means what its author wrote; expansion ends |
| Real-time drivers (`realtime.py`) | deadline, ticks, what is left to sleep | step, deliver, pace, sleep, call again | never early, late only as the policy allows, no message lost, cancellable, cooperative |
| Expressions (`expr.py`, `expression_tree.py`) | operation budget | compile, execute | read as the grammar says, evaluated in the order of the text, bounded |
| Values, limits (`resources.py`) | the containers of a run | `clone_value` wherever it is called | what a holder holds never changes because of another holder; bounded work |
| Command line, errors, package | none | I/O | not modelled |

The parser calls itself for nested blocks and hands statements to the compiler;
the compiler's tape and the extern declarations make a `CompiledScript`, of
which `new_run` makes a `ScriptRun`.  The host or a driver calls `step()`;
`step()` calls the schema adapter; a driver calls the host's `on_send` and
`cancelled`.  Nothing is persisted, and no two threads share a run.

## The modules

    MessageTree                values as functions from paths; right-hand sides
      Timers                   clock and timers            -> TimerHistory, Timers_proofs
        Message                msg, bindings, statics      -> Message_proofs
          MessageHistory       with the log of writes      -> MessageHistory_proofs
          ScriptRun            the machine                 -> ScriptRun_proofs
            RunHistory         with both, and the results  -> RunHistory_proofs
      Statements, Parser, Compiler                         source -> statements -> tape
      Ownership                abstract: what may be published
      Values                   abstract: containers are values
      Containers               mutable containers, clone_value -> Containers_proofs
        ContainerHistory       with the trees they stand for, and what was published
      Macros                   recording and expanding     -> Macros_proofs
    Expressions                text -> tree -> value
    Realtime                   the drivers                 -> Realtime_proofs
    MCTimers, MCMessage, MCOwnership, MCScriptRun, MCRunHistory, MCContainers,
    MCMacros, MCExpressions

**MessageTree**: a message is a function from the paths that exist in it to what
is there; an object says only that it is one, a leaf has a type and some data.
`Overlay` stores values at paths as `_set_path` and `_current_msg` do, making
objects of what is above.  A live block is a record: its timer, the shape of
what it returns, and which timers its static initialisers and its body read;
every block has one static counter, and what it returns shows that counter and
its `_t`, so that a published message tells which binding made it.

**Timers**: `halted`, `master_t` and `timers`.  Time is a grid of floating-point
numbers: addition is the parameter `FloatAdd`, so a small delay may be absorbed
and a sum past `LatestTime` is infinite.  `TimerHistory` adds a log of the
events, from which `MeasuredFrom` says what each timer should measure.

**Message**: `_apply_field` calls itself for the elements of a positional fill.
The variable `fill` holds the calls still to be made, so each is a step of its
own and a fill that fails half way leaves what it did.  Every call may also
raise (`FieldRaises`): the schema, the expression or the operation budget.
`Publish` is `_current_msg` and `_advance_time`.

**Ownership** says what a script's author may rely on, without tables: a log of
static writes, live writes and sends, and a message that follows from it.
`MessageHistory` and `RunHistory` keep that log and give the refinement mapping
(`Authored!OwnershipSpec`, where only the log is a history variable).

**ScriptRun**: `CallStep` is the host calling `step()`; one action per
instruction follows, until a send, a wait, the end of the tape or an error
returns.  An expression has the names it reads - so that latching timers start
when they are read, and unknown names raise - and the values it may give.
`_Scope`'s order of lookup (externs, timers, variables, `msg`, fields but those with
a reserved name) is `Lookup`.
`InstantRaises`, `PendingRaises`, `SendRaises` and `WaitRaises` are the errors
in the middle of an instruction, each after any part of what the instruction
reads; `BudgetExceeded` is the instruction budget.

**Statements, Parser, Compiler**: a recursive translation of source statements.
`Parse` keeps the three sets of names, rejects what the code rejects, and
decides between a variable, a write inside one, and a field; `Compile` emits and
patches the tape; `CompileScript` is both.  ScriptRun executes the very tape it
gives.

A live block may also read names (`LiveReading`): a send that publishes it raises
when one of them - a loop's counter, after the loop - is gone
(`LiveNamesAreKnown`).  MCScriptRun holds the sources that are compiled and run;
MCRunHistory adds loops, whose number of laps their source says, among them all
that the parser accepts from a family about two names.

**Realtime**: both drivers, told apart by `driver.async`.  `step()`, the callback
and sleeps take time, sleeps may last too long, the predicate may turn true at
any moment, also between the look at it and the step (`Look` and `Step` are two
actions), a task may be cancelled wherever the code awaits, a callback may
raise.  When a call is over, however it ended, a host may drive the same run
again (`CallAgain`); the deadline starts anew, the messages already taken do
not come back.  What a run gives is nondeterministic, as a driver looks only at
delays.  The history variables only serve the properties.

**Containers** keeps a heap of lists and dicts, changed in place, and the
references that variables, parameters, statics, the message and the host hold.
The operations are those that move containers about: passing parameters,
`x = e`, `x.a[0] = e`, an assignment to a field, binding a live block, a send,
and the host changing a container of its own, also one it was handed and also
so that it contains itself.  `CopyAs` is `clone_value`: `Visited` are the values it
visits, level by level, a shared container once for each way to it, and it gives
up beyond `MaxItems` of them or below `MaxDepth`, which every cycle is.  An
expression is the sequence of its nodes in the order of their execution, each
naming earlier ones, so that evaluation is a function of the number of nodes
executed (`Evaluate`).  A container's address is the number of the operation that
made it and its name in that; nothing looks at more of an address than whether it
is another's, so MCContainers compares states up to addresses (`MCView`).
Containers that nobody can reach are dropped (`Keep`), as Python frees them.  An
operation that fails leaves what it has done by then (`Raises`): objects made on
the way, a binding taken over, a static updated by a send that raises later.

**Values** is the same program over trees that never change.  Until there is a run
it also knows what the host is going to pass (`passed`), cut just below `MaxDepth`
if it has no end, so that a run may be refused only for a parameter that is too
big, too deep or cyclic.
**ContainerHistory** keeps the tree of the last published message as it was when
the host got it; its refinement mapping (`AsValues`) reads each holder's tree off
the heap.

**Macros**: a text is a sequence of items that matter by their names - a
declaration, a use, a call, a recorded `func`, the end of a counter's scope - and
each word by its place: plain, a member, a key, in a string, after the dots of a
range.  Expansion is the code's: text is put in place and parsed, with a stack of
the texts to go back to.  With each word goes what its author meant, which no
action consults.  MCMacros has a second definition of a script's meaning, without
text: `Items` goes through the calls with environments.

**Expressions**: a text of tokens is parsed by precedence climbing
(`Expression`, `Climb`, `Atom`, `Postfix`) into a tree of nodes with postfix
chains, then executed (`Run`) with a budget; what it read and in which order is
kept.  MCExpressions has the grammar as sets of trees over spans of the text,
and a meaning of those trees without budget or stack; both share with the parser
and `Run` only the table of precedences and what one operator, function or access
does with its values.  Numbers are integers with the operators that stay in
them.

Each module with properties also defines a few *faulty variants* of its
operators, just before the operators themselves: plausible mistakes, each of
which makes a property fail when put in its operator's place.

## What is checked

| Run | Question | Properties | States |
|---|---|---|---|
| MCTimers | Do timers measure what their history says, on a clock of 2-bit mantissas? | `TimersTypeOK` `MeasuresFromStart` `ClockMovesForward` | 367k |
| MCOwnershipFree | Do bindings, statics and timers stay consistent under all orders of writes at overlapping paths, and does message assembly implement `Ownership`? | `MessageTypeOK` `LiveAntichain` `StaticsFollowBindings` `PublishesWhatWasAuthored` | 4.9M |
| MCOwnershipStrict | Does a strict schema hold at every moment, also in failed fills, and is what is published as authored? | `StrictMessageConforms` `PublishesWhatWasAuthored` | 4.0M |
| MCRunHistory | In compiled scripts with an error possible everywhere: is each call of `step()` sound, does it return, are results one timeline, do sends last and loops go round as written, do counters last as long as their loops, is what is published what `Ownership` says? | `RunTypeOK` `LiveTimersExist` `SendInProgress` `BindingStartsAfresh` `ResultsAreATimeline` `SendsCoverTheirDuration` `LoopsRunAsOftenAsWritten` `CountersLastAsLongAsLoops` `EndedRunsStayAsTheyAre` `TimeMovesWithResults` `StepReturns` `RunPublishesWhatWasAuthored` | 76k |
| MCRunHistorySchema | Is what a script publishes that fills a strict schema by position as authored? | `RunPublishesWhatWasAuthored` | 396 |
| Realtime | Is the pacing as promised, for every policy, overrun, oversleep, failure and cancellation, and across two calls; is every message delivered; does a cancelled call end in time? | `TypeOK` `NeverAheadOfSchedule` `LatenessIsBounded` `NoBursts` `NoMessageIsLost` `CancelEndsSleep` `CancelEndsCall` `AsyncYieldsBetweenSteps` | 8.4M |
| MCContainers | Do mutable containers behave as values, whatever the script and the host change? | `NothingIsShared` `ContainersAreValues` | 137k |
| MCMacros | Do names in expanded macros refer to what their authors meant, and is the expanded script what it would be if written out? | `NamesReferAsWritten` `NestingIsBounded` `ParsedAsWrittenOut` | 57k |
| MCExpressions | Are expressions read by the grammar and evaluated as it says, within depth and budget? | `ParsesByGrammar` `DepthIsBounded` `EvaluatesAsWritten` `ReadsInTextOrder` `BudgetOnlyStops` | 110k |

Three runs end in a counterexample; each is a disagreement between the code and
what its documentation says.

* **MCLoopHidden**: externs and timers hide loop counters.  `_Scope` looks them up
  first, and the parser forgets a counter after its loop, so the name may be
  declared again there.  `for i in 0..2 { send dur 1t; } extern i = 7;` sends
  nothing, with `extern i = 0` it sends for ever, and
  `repeat 2 { for i in 0..2 { send hz 0.5 dur 1t; } var i = timer(); }` sends
  three times instead of four.
* **MCMessagePermissive**: a permissive `DictSchemaProvider` accepts an unknown
  `x`, and refuses `x.y`, because `type_at` raises where its protocol says it
  has no opinion.
* **MCMacroRange**: a parameter after the dots of a range is taken for a member's
  name.  `func f(n) { for i in 0..n { send hz 1 dur 1t; } } f(2);` is refused for
  an unknown `n`, and with an outer `var n = 3;`, `f(1)` goes round three times.
  MCMacros has no such ranges: everything else a macro may hold is substituted
  as its author meant.

Met while reading, and outside what the modules say:

* `var value = 3; x = rand_walk!(value, value);` gives 0, 0, 0 and not 3, 6, 9:
  the expansion's own static is called `value` and hides the argument
  (parser.py:1051-1056; src/README.md:257).
* `send dur (2) true;` reads the `t` of `true` as the unit (parser.py:633-635;
  src/README.md:225).
* Fresh names of a macro's locals are built with `_` and a number, so a macro
  `f` with a local `_2_n` and a macro `f_1_` may come to the same name.
* The expression parser accepts more than the grammar of MCExpressions at two
  places, `not` as an operand of a tighter operator and `and`, `or` as names;
  the grammar there is the accepted language.

### Bounds

* `LatestTime`: the largest finite time.  In MCTimers it is part of the question
  (the clock overflows); elsewhere it ends behaviours that would go on: a send
  that cannot advance the clock raises.  8 is enough for the longest source of
  MCRunHistory's family of loops, and for two laps of loops with two sends each.
* `MaxEvents` bounds the logs of MCTimers (6: two operations on each of two timers
  with time passing between) and the ownership runs: 4 without a schema - two
  overlapping writes, a send, and one write more - and 6 with one, because a
  nested fill alone makes five entries.
* `StepBudget` 12 lets every script finish a step that should finish, and the
  spinning ones exceed it.
* `Delay`: the periods a send may take.  `MinPeriod` 1 is the rate ceiling.
* Realtime: two steps (`MaxTicks`) suffice for properties that relate a step to
  the one before, and two calls (`MaxCalls`) for what is left behind by the first.
  A step or callback (`MaxBusy` 2) may take as long as the short delay (1) or
  longer, and the two together as long as the long one (4), with the lag after a
  look (`MaxLag` 1) longer; an oversleep (`MaxOver` 1) is less than a slice (2),
  which is less than the long delay.  Both bounds of `CancelEndsCall` are reached.
* MCContainers: `MaxItems` 6 and `MaxDepth` 3 are just passed by the containers
  written; five operations of the script (`MaxOperations`) make a container, put
  it in a second place, change it through either, and send; the host changes its
  own once (`HostWrites`) at any moment of that.
* MCMacros: bodies of two items, two macros that may call each other or what they
  are given; `MaxExpanded` 8 items is passed by some of the texts.
* MCExpressions: families of seven to eleven phrases, each about one part of the
  syntax, up to five phrases (`MaxPhrases`); `MaxDepth` 4 is passed by nested
  groups; of the `Budgets` 4 runs out and 40 does not.
* Paths have at most two names: above, at, inside and beside a binding.
* Deadlock is checked where a run can always be stepped again (an ended run
  answers `None`).  It is not where the model stops: a halted run in the modules
  without a host, a bounded log, a driver that returned.

### Fairness

Only `StepReturns` needs it: weak fairness of `Stepping`, the actions inside a
call of `step()`.  The code is an ordinary loop in the caller's thread, so a call
that was made runs on.  There is no fairness of `CallStep`: a host may stop.  No
fairness is assumed of the drivers.

## What is proved

TLAPS checks these for every value of the constants.

* **Timers_proofs**, from `ClockAssumption` (addition gives times): the types, no
  timer starts in the future (`TimersStartInThePast`), the clock moves forward,
  and timers measure from their start (`TimersMeasureFromTheirStart`).  The
  inductive invariant of the first two is their conjunction; the third needs one
  more part, that no logged event lies ahead of the clock, and none that took
  time at it.  For the last, `Accounts` says of one timer and any log which event
  its value came from - the latest creation or reset, or the first read after
  that - and `MeasureInv` says it of all timers; each action appends one event,
  and a lemma says what the first and the last of a set of events become.
* **Message_proofs**: `LiveAntichain` and `StaticsFollowBindings`, from
  `PlacementAssumption`: a live block's private timer names one place.  The
  invariant `BindingInv` says besides that bindings are placed where the script
  places them, so that two bindings never share statics, and that a pending
  fill's items are placed too.  Overlap is prefix comparison; the proof needs
  that a write keeps just the bindings it does not overlap.
  `LiveBlocksKeepTheirTimers` strengthens it (`LiveInv`) with what a pending fill
  still needs: the compiler creates all timers of an array's blocks before the
  array is assigned, so the items still to be made find theirs
  (`PendingTimersExist`).  The module also has the theory of paths - prefixes and
  suffixes by elements - and of pending calls that the others rest on: the
  fields of a fill lie side by side, so its calls never overlap each other
  (`PendingApart`), whatever is nested in them.
  `MessagesAreObjects` (`MessageTypeOK`) and `StrictSchemasHold`
  (`StrictMessageConforms`) are about schemas, for writes of any depth.  What
  `Overlay` makes is characterised once, at the paths at or below a stored value,
  above one, and beside all (`OverlayBelow`, `OverlayAbove`, `OverlayBeside`), and that it is
  a tree if what it is made of is (`OverlayIsTree`).  A strict schema accepts a value
  where the schema's own subtree has the same fields and types, and storing such
  a value changes neither.
* **MessageHistory_proofs**: `RunsPublishWhatWasAuthored`, the refinement of
  `Ownership` by message assembly: a step of `LogSpec` is a write, a send, the
  passing of time or a stutter of the abstract specification, whose `Message` is
  what `Publish` assembles.  `Ownership` finds the last write, the first send
  since, and how many there were, in the whole log; the invariant `HistoryInv` says
  the same of the tables as relations that can be followed from one entry to the
  next.  `StaticsLogged`: at each path the message shows what the last static
  write touching it says, or the message a run starts from.  `BindingsLogged`: the
  bindings are the live writes still in force.  `CountersLogged`: each has counted
  the sends since.  `StartsLogged`: its timer started at its write if the
  initialisers read it, and else at the first send since, if there was one.  While
  an assignment is under way the timers it has created anew are no longer those of
  the bindings it is about to replace; `StartsLogged` leaves these out
  (`PendingTimers`), and `Unstarted` says that they have not started when the
  blocks they were made for are bound.
* **ScriptRun_proofs** lifts these to any program: `RunBindingsNeverOverlap`,
  `RunStaticsFollowBindings`, `RunsKeepStrictSchemas`, `RunsAreWellTyped`, through
  the fields its tape may assign; and proves `SendInProgress` with the invariant
  that a send in progress is where the machine stands and is not done.
  `EndedRunsStayAsTheyAre` and `TimeMovesWithResults` are action properties: every
  action is inspected, with the invariants that an ended run has no call in
  progress, and that the machine remembers what the host was told (`EndInv`): when
  `step()` has raised or answered `None`, the run has ended.  `RunLiveBlocksKeepTheirTimers` and `BindingsStartAfresh` are about
  what a tape does around live blocks: one instruction creates the timer, a later
  one binds the block and starts its counter, and a loop does both again while
  the earlier binding is in force.  `AfreshInv` names the timers created by the
  instructions just before this one (`Prepared`), and says that they exist and
  have not started, and that every binding's counter and timer agree except for
  those.  `CountersLast` (`CountersLastAsLongAsLoops`) needs no strengthening: what
  is held for a loop depends on where the machine stands, the instructions at the
  loop's two ends set and clear its counter and bound, and by `LoopAssumption`
  there is no other way in or out.
* **RunHistory_proofs**: `ScriptsPublishWhatWasAuthored`, the refinement of
  `Ownership` by the machine, the strongest result here: whatever the program
  and the host's externs, in every order of loops, sends, waits and errors, what
  `step()` hands back as a message follows from the log of what the script wrote
  and sent.  `WrittenInv` is `HistoryInv` with the timers prepared by a tape
  (`Waiting`) for those of an assignment; wherever the machine sends or applies a
  field the two are the same (`InMessageTerms`), so the lemmas of
  MessageHistory_proofs carry over, and what is left are the instructions that
  prepare an assignment and those that touch neither bindings nor their timers
  (`Plain`).
  `ResultsAreGapless`, for any addition, has `TimelineInv`:
  the clock stands where the latest result ends, and sequence numbers count the
  results.  `SendsLastAsWritten` is about clocks that add exactly (`ExactClock`;
  the code counts a send's ticks and multiplies, the timeline adds them up, and
  with rounding the two may differ).  `VisitInv` says that every run of ticks of
  one visit was due (`VisitsCovered`), and `StandsAfter` where the machine stands
  after the latest of them: at the same send with just these ticks counted, or
  beyond it with the visit used up - also after instructions that give no
  result, which is how the next visit to the same send is told from this one.
  A result either extends the visit (`SameVisit`) or begins one (`NewVisit`).
* **Realtime_proofs**: all of the drivers' properties, for any delays, any lateness
  and any number of calls: `NoStepIsEarly`, `LatenessDoesNotAccumulate`,
  `StepsComeInNoBursts`, `CancellationIsNoticed`, `CancellationEndsTheCall`,
  `MessagesAreDelivered`, `AsyncDriversYield`.  `ScheduleInv` says at each place
  in the driver's loop how `now`, `deadline`, what is left to sleep and the sum
  of delays are related.  `CancelEndsCall` - at most one step starts after the
  predicate has turned true, and the call ends within a bound - is not inductive:
  `UnseenInv` says for each place for how long the predicate may have been true
  without having been looked at, and that no step of this call has started late
  when the driver is about to start one.
* **Macros_proofs**: `ExpansionIsNotRecursive`.  The macros being expanded are
  distinct and declared, so the parser's recursion on expansions is bounded by
  the number of macros; the two stacks grow and shrink together.
  `MacrosAreHygienic` (`NamesReferAsWritten`) is about the scripts of
  `IsHygienic`, a hypothesis of the theorem: no word after the dots of a range
  (there the property fails, see MCMacroRange), no variable called `value` (an
  accumulator's static is called so), and names made up for locals that are
  neither spelt in the script nor made up twice.  `NamesInv` says of every word of
  every text under way, and of every word handed on, that it is a word of the
  script meaning itself or the local of a numbered call, spelt with the name of
  the macro that call expanded; a new call gets a number no word has.  TLC
  evaluates the hypothesis for the scripts of MCMacros.

* **Containers_proofs**: `ContainersAreNotShared` (`NothingIsShared`), for every script
  over the operations of Containers, every bound and every host.  That one
  container has one holder is not inductive: a host may tie its own containers
  into cycles and share them as it likes, an operation has references in its hands
  that no variable holds yet, and one that fails half way leaves what it has
  written.  The invariant (`IInv`, `OwnedAlways`) says that the containers split into
  two sets, the run's `R` and the host's `H`, such that no reference leads from one
  to the other, every container of the run is held once, and nothing dangles
  (`Sound`).  It is stated of an evaluation record and of any table of holders, so
  that it can be followed through an operation: every step of one keeps a split,
  only extending the one before (`Grows`).  `clone_value` makes a tree of addresses
  nobody has, whatever it was given (`CopyIsSound`); evaluation may give a reference
  to a container that is held, but what it gives is only ever copied or read
  (`EvaluateIsSound`); a walk changes one container of a side, and puts into it what
  nobody holds (`PutIsSound`); what is freed is held by nothing that stays
  (`KeepIsOwned`).  What an operation has made and not yet put anywhere is a holder
  of its own for that time.  `InUse` is bounded rounds of a search; the lemmas on it
  say that it finds only what a chain of references leads to (`ReachedWithin`) and
  each of those with a holder (`ReachedIsHeld`).  TLC checked `IInv` on the instance
  of MCContainers first.

They rest on these assumptions about the constants, all of which TLC evaluates
in the runs:

* `ClockAssumption`, `DriverAssumption`: additions and lengths of time are numbers.
* `PlacementAssumption`, `PrivacyAssumption` (Message): a live block has a private
  timer, made for the one place where its assignment puts it (compiler.py:232);
  nothing else reads or names it (vm.py:100, vm.py:114).
* `ValueAssumption` (Message): the default message of a schema is an object
  (schema.py:48), and what expressions and blocks give are values.
* `DataIsAName` (MessageTree): `"data"` is a string, which the provers do not see.
* `ContainersAssumption` (Containers): the script's expressions are not empty and
  made of the nodes of Containers, a write inside a variable has at least one
  accessor (parser.py:440-515), the limit on depth is a number; and its live blocks
  overlap, so that each takes over from the one before: Message has the others.
* `HostAssumption` (Containers): what the host passes are containers that exist, with
  addresses that the machine does not give out; they may be shared or cyclic.
* `RunAssumption` (ScriptRun): an instruction's fields, targets and timers are of
  the right kind.
* `CompiledAssumption` (ScriptRun): an assignment comes just after the instructions
  that create the timers of its blocks, and nothing jumps in between
  (compiler.py:227-238); no expression, `timer()` or reset of a script names such
  a timer.  That the compiler writes tapes like this is what TLC checks, on every
  tape compiled in the runs; that the machine then does as stated is proved for
  all tapes like this.
* `LoopAssumption` (ScriptRun): a bounded loop begins by setting a counter and a
  bound and ends by clearing them, jumps neither enter nor leave it in between
  (compiler.py:279-298), no loop inside it clears its counter (the parser refuses
  a counter that is in scope, parser.py:380) and its bound's name is its own.

The last part of `IsHygienic` is not idle.  `_expand_macro_call` writes
`__<macro>_<call>_<local>`, and all three may contain underscores and digits: with
macros `a` and `a_1_`, the first call's local `_2_x` and the second call's local `x`
are both `__a_1__2_x`, and `func a() { var _2_x = 1; } func a_1_() { var x = 2; }
a(); a_1_();` is refused with "'__a_1__2_x' is already in scope".  And a made-up
name may be read from outside, `__f_1_n`: only declaring one is refused
(parser.py:380).  parser.py:726-730 calls the renaming hygienic without
reservation.  No run shows this; it is what the proof asks for.

Only model-checked:

* `StepReturns`: liveness, which the provers cannot do.
* `ContainersAreValues`: that the trees behave as values needs to say what a tree is,
  by recursion over containers of any depth (`TreeOf`).  The proof of
  `ContainersAreNotShared` is the part of it that does not: a write in place can
  change the tree of no other holder, as nothing else leads to what it writes.
* `LoopsRunAsOftenAsWritten`: about what the recursive parser and compiler make of a
  source.
* `ParsedAsWrittenOut`: against a recursive definition of what expansion means.
* `ParsesByGrammar`, `DepthIsBounded`, `EvaluatesAsWritten`, `ReadsInTextOrder`,
  `BudgetOnlyStops`: the parser and evaluator of expressions are recursive over
  trees, and induction over data is out of the provers' reach.

## What is left out

* Characters: scanning statements and expressions out of a text, comments, number
  and string formats, positions in errors, and the order of `send`'s modifiers.
* Of expressions: json literals, division and modulo, the comparisons other than
  `==` and `<`, floats, units other than `s`, the limits on the size of one number
  or string, and the waveform and random functions, which are pure arithmetic.
  In ScriptRun an expression still has the names it reads and the values it may
  give; that those are what Expressions computes is not composed.
* The body of live blocks: a block reads timers and names and keeps one counter.
  What it may write, and the errors the parser gives for it, are not modelled.
* Arrays inside messages are leaves in Message and ScriptRun, and `SetVarIndex`
  goes by field names there; their elements are modelled in Containers.  A write
  inside a variable that fails leaves the variable as it was in ScriptRun, while
  the code has made the objects on the way: Containers models that; the run is
  over by then.
* The keys of `x[k]` are constants in Containers.  The code evaluates each on its
  way into the variable (vm.py:405, vm.py:412), after the value; a key that cannot
  be evaluated is a step of the walk that fails.
* Names known only inside a live block, its variables and `_t` (`_Scope.extra`), are
  not in `Lookup`: a block is the names it reads from outside.  Built-in constants
  are values.
* In ScriptRun a rate is its period, compared exactly, and a literal rate or
  duration that cannot be is refused when the send is entered, not when it is
  compiled (compiler.py:315-329).
* Schemas: element types of arrays; adapters without `type_at` or `validate_at`.
* Exceptions of a host's adapter outside those `step()` lists: they leave the run
  unhalted.  Defaults of externs.
* Wall-clock durations are compared exactly; the code forgives a relative error of
  1e-12.  A sleep never ends early here; `time.sleep` promises that, and
  `asyncio.sleep` does up to the clock's resolution.
* The command line, error types and the package's exports: no state of their own.

## Plan

1. *Done*: clock and timers, message assembly and `Ownership`, the machine, the
   compiler, names in scope, the drivers and hosts that call them again; macros;
   live blocks that read names; containers and their refinement to values;
   expressions against a grammar and a meaning; proofs of all safety properties of
   timers, drivers, message assembly, the machine, macros and containers that do not
   depend on recursive definitions, and of both refinements of `Ownership`.
2. The compiler against a structured semantics of statements, instead of counts.
3. `send`'s modifiers in any order (`_parse_dur_modifier`,
   `_scan_send_leading_value_span`), and what live blocks may write.
4. Pure functions with bounded inputs: `keyframes`, numeric coercions.
5. Proofs: that what the compiler emits satisfies `CompiledAssumption` and
   `LoopAssumption` stays with TLC, since the compiler is recursive; sends and
   waits of a run against the drivers of Realtime, as one refinement.
