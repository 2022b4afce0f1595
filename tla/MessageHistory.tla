--------------------------- MODULE MessageHistory ---------------------------
(***************************************************************************)
(* Message with the history variable that shows it implements Ownership:   *)
(* the log of the writes that took effect and of the messages sent.        *)
(***************************************************************************)
EXTENDS Message

VARIABLE log

logVars == <<messageVars, log>>

Event(op, p, v) == [op |-> op, path |-> p, value |-> v, at |-> master_t]

Record(op, p, v) == log' = Append(log, Event(op, p, v))

LogApply(p, v) ==
  \/ \E tree \in StaticValues(p, v) :
       WriteValue(p, tree, v.reads) /\ Record("static", p, EnvelopeAt(p, tree))
  \/ ApplyFill(p, v) /\ Record("claim", p, v)
  \/ ApplyLive(p, v) /\ Record("live", p, v)
  \/ FieldRaises(p, v) /\ UNCHANGED log

LogInit == MessageInit /\ log = <<>>

LogNext ==
  /\ ~halted
  /\ \/ \E x \in Placement : Assign(x[1], x[2]) /\ UNCHANGED log
     \/ fill # <<>> /\ LogApply(Head(fill).path, Head(fill).value)
     \/ \E d \in Delay : fill = <<>> /\ Publish(d, {}) /\ Record("send", <<>>, <<>>)
     \/ \E d \in Delay : fill = <<>> /\ PublishRaises({}) /\ UNCHANGED log
     \/ \E d \in Delay : Wait(d) /\ UNCHANGED log

LogSpec == LogInit /\ [][LogNext]_logVars

-----------------------------------------------------------------------------
Authored == INSTANCE Ownership WITH Base <- IF HasSchema THEN Schema ELSE EmptyObject

\* The run publishes exactly what the author of the script may expect: the
\* binding table, the statics and the timers are an implementation of "the
\* most recent write owns overlapping paths" (README "Static and live
\* evaluation", vm.py:450-493, vm.py:561-601).
PublishesWhatWasAuthored == Authored!OwnershipSpec
=============================================================================
