----------------------------- MODULE RunHistory -----------------------------
(***************************************************************************)
(* ScriptRun with history variables: the results handed to the host, and   *)
(* the log of writes and sends that Ownership is about.                    *)
(***************************************************************************)
EXTENDS ScriptRun, MessageHistory

VARIABLE trace      \* the results with a message or a wait, and where they came from

historyVars == <<runVars, trace, log>>

Yields == sequence' # sequence

\* `fresh`: this step executed other instructions before it came here, so the
\* send was entered anew.
Yield == [kind |-> result'.kind, at |-> ip, fresh |-> executed > 0, delay |-> result'.delay,
          timestamp |-> result'.timestamp, sequence |-> result'.sequence,
          duration |-> send_duration']

FieldEvent ==
  LET p == Head(fill).path
      v == Head(fill).value
  IN  IF v.op = "live" THEN Event("live", p, v)
      ELSE IF StaticValues(p, v) = {} THEN Event("claim", p, v)
      ELSE Event("static", p, Subtree(msg', p))

HInit == RunInit /\ trace = <<>> /\ log = <<>>

HNext ==
  /\ RunNext
  /\ trace' = IF Yields THEN Append(trace, Yield) ELSE trace
  /\ log' = IF fill # <<>> /\ ~halted' THEN Append(log, FieldEvent)
            ELSE IF Yields /\ result'.kind = "send" THEN Append(log, Event("send", <<>>, <<>>))
            ELSE log

\* Fair as RunSpec is; the history follows along.
HSpec == HInit /\ [][HNext]_historyVars /\ WF_runVars(Stepping)

-----------------------------------------------------------------------------
\* A compiled script publishes exactly what its author may expect, sent at the
\* simulated times the host is told: the instructions that create timers, bind
\* blocks and write fields implement "the most recent write owns overlapping
\* paths" (README "Static and live evaluation", compiler.py:227-238, vm.py:450).
RunPublishesWhatWasAuthored == Authored!OwnershipSpec

\* The results are one gapless timeline: numbered from zero, each starting
\* when the delay of the one before it is over (README "Runtime API",
\* vm.py:314-327, vm.py:350-357).
ResultsAreATimeline ==
  \A k \in DOMAIN trace :
    /\ trace[k].sequence = k - 1
    /\ trace[k].timestamp = IF k = 1 THEN 0 ELSE FloatAdd(trace[k-1].timestamp, trace[k-1].delay)

\* The results that one visit to a send gives: from its first tick k to m.
IsVisit(k, m) ==
  /\ trace[k].kind = "send"
  /\ k > 1 => trace[k].at # trace[k-1].at \/ trace[k].fresh
  /\ \A i \in k+1..m : trace[i].at = trace[k].at /\ ~trace[i].fresh

IsWholeVisit(k, m) ==
  /\ IsVisit(k, m)
  /\ IF m < Len(trace) THEN ~IsVisit(k, m + 1) ELSE ip # trace[m].at

\* README: "Exactly 10 ticks", and "Publish on 10 Hz ticks until at least 4.5
\* simulated seconds elapse" - not a tick more.  Every visit to a send keeps
\* one rate, never goes past its duration, and is left only when that is used
\* up, on every lap of the loops around it (vm.py:301-312, vm.py:329-340).
SendsCoverTheirDuration ==
  \A k, m \in DOMAIN trace :
    k <= m /\ IsVisit(k, m) =>
      LET kind == program.tape[trace[k].at].kind
          due == trace[k].duration
          elapsed(i) == trace[i].timestamp - trace[k].timestamp
      IN  /\ \A i \in k..m : trace[i].delay = trace[k].delay
          /\ kind = "tick" => m - k + 1 <= due
          /\ kind = "wall" => elapsed(m) < due
          /\ IsWholeVisit(k, m) =>
               /\ kind = "tick" => m - k + 1 = due
               /\ kind = "wall" => elapsed(m) + trace[m].delay >= due
               /\ kind # "inf"
=============================================================================
