------------------------------ MODULE Message ------------------------------
(***************************************************************************)
(* The message a run assembles: static writes into `msg`, live bindings    *)
(* evaluated anew for every send, and the schema that checks both.         *)
(*                                                                         *)
(* An assignment runs _apply_field, which calls itself for the elements of *)
(* a positional fill.  `fill` holds the calls still to be made, first one  *)
(* first, so a fill that fails half way leaves what it had already done.   *)
(***************************************************************************)
EXTENDS Timers, MessageTree

CONSTANTS
  Schema,       \* the adapter's default message, as a tree; <<>> when there is none
  FieldOrder,   \* the order in which the adapter lists fields
  Strict,       \* DictSchemaProvider.strict
  Placement     \* the <<path, value>> pairs the compiled script may apply

HasSchema == DOMAIN Schema # {}

FieldsAt(p) == SelectSeq(FieldOrder, LAMBDA f : Append(p, f) \in DOMAIN Schema)

Elements(p, v) ==
  [i \in 1..Len(v.elements) |-> [path |-> Append(p, FieldsAt(p)[i]), value |-> v.elements[i]]]

\* A block is compiled into one place of one assignment: its private timer
\* names one field.  Placement is closed under positional fill, which gives each
\* field of an object one element.
ASSUME PlacementAssumption ==
  /\ \A x \in Placement : x = <<x[1], x[2]>> /\ x[1] \in Seq(STRING)
  /\ \A x \in Placement : x[2].timers \subseteq TimerName
  /\ \A x \in Placement : x[2].op = "live" => x[2].timers = {x[2].timer}
  /\ \A x, y \in Placement :
       x[2].op = "live" /\ y[2].op = "live" /\ x[2].timer = y[2].timer => x = y
  /\ \A x \in Placement : x[2].op = "array" =>
       /\ Len(x[2].elements) \in Nat
       /\ \A i \in 1..Len(x[2].elements) : x[2].elements[i].timers \subseteq x[2].timers
       /\ Len(FieldsAt(x[1])) = Len(x[2].elements) =>
            /\ \A i \in 1..Len(x[2].elements) :
                 <<Append(x[1], FieldsAt(x[1])[i]), x[2].elements[i]>> \in Placement
            /\ \A i, j \in 1..Len(x[2].elements) : FieldsAt(x[1])[i] = FieldsAt(x[1])[j] => i = j

\* The private timer of a block belongs to what is written at its field or
\* above, which is then no plain value; no other assignment reads it.
ASSUME PrivacyAssumption ==
  /\ \A x \in Placement : x[2].timers # {} => x[2].op \in {"live", "array"} /\ x[2].values = {}
  /\ \A x, y \in Placement : y[2].op = "live" =>
       /\ y[2].timer \in x[2].timers => IsPrefix(x[1], y[1])
       /\ y[2].timer \in x[2].reads => y[2].timer \in x[2].timers

\* The adapter's default message is an object (schema.py:48); expressions and
\* live blocks give values.
ASSUME ValueAssumption ==
  /\ HasSchema => IsTree(Schema) /\ IsObject(Schema)
  /\ \A x \in Placement : \A tree \in x[2].values : IsTree(tree)
  /\ \A x \in Placement : x[2].op = "live" => IsTree(x[2].shape)

\* The timers behind the `_t` of the script's live blocks.
PrivateTimers == UNION {x[2].timers : x \in Placement}

FillItem == {[path |-> x[1], value |-> x[2]] : x \in Placement}

VARIABLES
  msg,             \* ScriptRun.msg
  live_bindings,   \* ScriptRun.live_bindings: path -> live block
  statics,         \* ScriptRun.statics: a block's timer -> its static counter
  fill,            \* the _apply_field calls still to be made
  published        \* the last message handed to the caller

messageVars == <<clockVars, msg, live_bindings, statics, fill, published>>
bindingVars == <<live_bindings, statics>>

MessageInit ==
  /\ TimersInit
  /\ msg = IF HasSchema THEN Schema ELSE EmptyObject
  /\ live_bindings = <<>>
  /\ statics = <<>>
  /\ fill = <<>>
  /\ published = <<>>

-----------------------------------------------------------------------------
(* The schema adapter and _check_schema_type. *)

\* type_at raises a KeyError when the parent is not an object of the schema.
KnowsParent(p) ==
  p # <<>> => Front(p) \in DOMAIN Schema /\ Schema[Front(p)].type = "object"

TypeAt(p) ==
  IF p # <<>> /\ p \in DOMAIN Schema /\ Schema[p].type # "object"
  THEN Schema[p].type ELSE "any"

\* Faulty variant: strictness is forgotten.
SchemaAcceptsTypes(p, tree) ==
  HasSchema => KnowsParent(p) /\ TypeAt(p) \in {"any", tree[<<>>].type}

SchemaAccepts(p, tree) ==
  HasSchema =>
    /\ Strict => p \in DOMAIN Schema /\ Conforms(Subtree(Schema, p), tree)
    /\ KnowsParent(p)
    /\ TypeAt(p) \in {"any", tree[<<>>].type}

-----------------------------------------------------------------------------
(* _apply_field: the most recent write owns overlapping paths. *)

\* Faulty variants: a write takes over only the bindings inside its field;
\* statics outlive their bindings.
OwnedInside(p) == {q \in DOMAIN live_bindings : IsPrefix(p, q)}
KeptAllStatics(p) == statics

Owned(p) == {q \in DOMAIN live_bindings : Overlap(p, q)}

KeptBindings(p) == Restrict(live_bindings, DOMAIN live_bindings \ Owned(p))

KeptStatics(p) ==
  Restrict(statics, DOMAIN statics \ {live_bindings[q].timer : q \in Owned(p)})

Claim(p) ==
  /\ live_bindings' = KeptBindings(p)
  /\ statics' = KeptStatics(p)

\* A value reaches msg, at a path whose schema accepts it.
WriteValue(p, tree, reads) ==
  /\ SchemaAccepts(p, EnvelopeAt(p, tree))
  /\ Claim(p)
  /\ msg' = Store(msg, p, tree)
  /\ timers' = Latched(reads)
  /\ fill' = Tail(fill)
  /\ UNCHANGED <<halted, master_t, published>>

\* default_at, or a KeyError.
DefaultAt(p) == IF p \in DOMAIN Schema THEN {Subtree(Schema, p)} ELSE {}

\* Without a schema, or at an array field of it, an array is a plain value.
PlainAt(p) == HasSchema => KnowsParent(p) /\ TypeAt(p) = "array"

StaticValues(p, v) ==
  IF v.op = "default" THEN DefaultAt(p)
  ELSE IF v.op = "array" /\ ~PlainAt(p) THEN {} ELSE v.values

ApplyStatic(p, v) ==
  \E tree \in StaticValues(p, v) : WriteValue(p, tree, v.reads)

\* Elsewhere its elements go to the fields of the object there, in order.
ApplyFill(p, v) ==
  /\ v.op = "array"
  /\ HasSchema /\ p \in DOMAIN Schema /\ Schema[p].type = "object"
  /\ Len(FieldsAt(p)) = Len(v.elements)
  /\ Claim(p)
  /\ fill' = Elements(p, v) \o Tail(fill)
  /\ UNCHANGED <<clockVars, msg, published>>

\* Faulty variant: the timers of the bindings taken over are released.
ApplyLiveReleasing(p, v) ==
  /\ v.op = "live"
  /\ live_bindings' = With(KeptBindings(p), p, v)
  /\ statics' = With(KeptStatics(p), v.timer, 0)
  /\ timers' = Restrict(Latched(v.reads), DOMAIN timers \ {live_bindings[q].timer : q \in Owned(p)})
  /\ fill' = Tail(fill)
  /\ UNCHANGED <<halted, master_t, msg, published>>

ApplyLive(p, v) ==
  /\ v.op = "live"
  /\ live_bindings' = With(KeptBindings(p), p, v)
  /\ statics' = With(KeptStatics(p), v.timer, 0)
  /\ timers' = Latched(v.reads)
  /\ fill' = Tail(fill)
  /\ UNCHANGED <<halted, master_t, msg, published>>

\* Every case may raise: the schema refuses, an expression fails, a budget
\* runs out.  The path has been claimed by then, and a live block stored
\* without its statics.
FieldRaises(p, v) ==
  /\ halted' = TRUE
  /\ live_bindings' = IF v.op = "live" THEN With(KeptBindings(p), p, v) ELSE KeptBindings(p)
  /\ statics' = KeptStatics(p)
  /\ \E reads \in SUBSET v.reads : timers' = Latched(reads)
  /\ fill' = <<>>
  /\ UNCHANGED <<master_t, msg, published>>

ApplyField(p, v) ==
  ApplyStatic(p, v) \/ ApplyFill(p, v) \/ ApplyLive(p, v) \/ FieldRaises(p, v)

ApplyNext == fill # <<>> /\ ApplyField(Head(fill).path, Head(fill).value)

-----------------------------------------------------------------------------
(* _current_msg and _advance_time: one send tick. *)

ReadAt(paths) == UNION {live_bindings[p].bodyReads : p \in paths}

\* Faulty variant: static locals start over on every tick.
TickedForNothing(paths) == statics

Ticked(paths) ==
  LET ran == {live_bindings[p].timer : p \in paths}
  IN  [n \in DOMAIN statics |-> IF n \in ran THEN statics[n] + 1 ELSE statics[n]]

\* What a block returns carries its counter and its `_t`, so that a message
\* shows which binding produced it and since when.
LiveTree(b, timersNow) ==
  LET count == statics[b.timer] + 1
      age == IF b.timer \in b.bodyReads THEN master_t - timersNow[b.timer].offset ELSE 0
  IN  [q \in DOMAIN b.shape |->
         IF b.shape[q].type = "object" THEN Object
         ELSE Leaf(b.shape[q].type, <<b.timer, count, age>>)]

LiveValues(timersNow) ==
  [p \in DOMAIN live_bindings |-> EnvelopeAt(p, LiveTree(live_bindings[p], timersNow))]

\* Faulty variant: a timer a live block reads for the first time is not latched.
PublishUnlatched(delay, reads) ==
  LET values == LiveValues(Latched(reads \cup ReadAt(DOMAIN live_bindings)))
  IN  /\ \A p \in DOMAIN values : SchemaAccepts(p, values[p])
      /\ SchemaAccepts(<<>>, Overlay(msg, values))
      /\ Advance(delay)
      /\ published' = Overlay(msg, values)
      /\ statics' = Ticked(DOMAIN live_bindings)
      /\ timers' = Latched(reads)
      /\ UNCHANGED <<halted, msg, live_bindings, fill>>

\* `reads` are the timers the send's own schedule expressions read.
Publish(delay, reads) ==
  LET timersNow == Latched(reads \cup ReadAt(DOMAIN live_bindings))
      values == LiveValues(timersNow)
      result == Overlay(msg, values)
  IN  /\ \A p \in DOMAIN values : SchemaAccepts(p, values[p])
      /\ SchemaAccepts(<<>>, result)
      /\ Advance(delay)
      /\ published' = result
      /\ statics' = Ticked(DOMAIN live_bindings)
      /\ timers' = timersNow
      /\ UNCHANGED <<halted, msg, live_bindings, fill>>

\* A tick may raise after any of the bindings has run.
PublishRaises(reads) ==
  \E ran \in SUBSET DOMAIN live_bindings :
    /\ halted' = TRUE
    /\ statics' = Ticked(ran)
    /\ timers' = Latched(reads \cup ReadAt(ran))
    /\ UNCHANGED <<master_t, msg, live_bindings, fill, published>>

-----------------------------------------------------------------------------
(* The component on its own: statements that assign, sends, and waits. *)

\* An assignment: the timers of its live blocks, then _apply_field.
Assign(p, v) ==
  /\ fill = <<>>
  /\ timers' = Created(v.timers, "latching")
  /\ fill' = <<[path |-> p, value |-> v]>>
  /\ UNCHANGED <<halted, master_t, msg, bindingVars, published>>

Send(delay) ==
  /\ fill = <<>>
  /\ Publish(delay, {}) \/ PublishRaises({})

Wait(delay) ==
  /\ fill = <<>>
  /\ Advance(delay)
  /\ UNCHANGED <<halted, timers, msg, bindingVars, fill, published>>

MessageNext ==
  /\ ~halted
  /\ \/ \E x \in Placement : Assign(x[1], x[2])
     \/ ApplyNext
     \/ \E d \in Delay : Send(d)
     \/ \E d \in Delay : Wait(d)

MessageSpec == MessageInit /\ [][MessageNext]_messageVars

-----------------------------------------------------------------------------
MessageTypeOK ==
  /\ TimersTypeOK
  /\ IsTree(msg) /\ IsObject(msg)
  /\ published # <<>> => IsTree(published) /\ IsObject(published)
  /\ \A p \in DOMAIN live_bindings : <<p, live_bindings[p]>> \in Placement /\ live_bindings[p].op = "live"
  /\ DOMAIN statics \subseteq TimerName /\ statics \in [DOMAIN statics -> Nat]
  /\ fill \in Seq(FillItem)

\* "The most recent write owns overlapping paths": no two live bindings ever
\* overlap, so the order in which a send overlays them cannot matter and none
\* of them hides another (README "Static and live evaluation", vm.py:452).
LiveAntichain ==
  \A p, q \in DOMAIN live_bindings : p # q => ~Overlap(p, q)

\* Static locals live exactly as long as their binding: a run that has not
\* failed keeps statics for the bindings in force and for no other, through
\* rebinding, replacement from above or below, and positional fills
\* (vm.py:452-465).
StaticsFollowBindings ==
  ~halted => DOMAIN statics = {live_bindings[p].timer : p \in DOMAIN live_bindings}

\* A live block in force always finds its own `_t` (vm.py:109): its timer was
\* created before it was bound and nothing removes it.
LiveTimersExist ==
  \A p \in DOMAIN live_bindings : live_bindings[p].timer \in DOMAIN timers

\* With a strict schema the assembled message has the schema's shape and types
\* at every moment, not only when it is published: defaults, whole-message
\* writes, writes deep inside, positional fills, and also a fill that failed
\* after some of its fields (schema.py:88, vm.py:520).
StrictMessageConforms ==
  HasSchema /\ Strict => Conforms(Schema, msg)

\* TypedSchemaProvider says that type_at answers "None for 'no opinion' (an
\* unrecognized path, or a sub-message rather than a leaf)" (schema.py:32-33),
\* and README that without strictness unknown names "remain permissive": so a
\* permissive schema accepts any value at a path it does not know, also inside
\* an object it does not know.
UnrecognisedPathsHaveNoOpinion ==
  HasSchema /\ ~Strict /\ fill # <<>> =>
    LET p == Head(fill).path
        v == Head(fill).value
    IN  v.op = "expr" /\ p \notin DOMAIN Schema => \A tree \in v.values : SchemaAccepts(p, tree)
=============================================================================
