----------------------------- MODULE Ownership -----------------------------
(***************************************************************************)
(* What a script's author may rely on, said without the machinery: every   *)
(* published message follows from the log of what the script wrote and     *)
(* when it sent.  A field shows the last static write that touched it,     *)
(* except where a live binding is in force; a live binding is in force     *)
(* until a later write overlaps it, its statics count the sends since it   *)
(* was bound, and its `_t` runs from its first read.                       *)
(***************************************************************************)
EXTENDS MessageTree

CONSTANT Base         \* the message a run starts from

VARIABLES
  log,                \* writes (static, live, or the claim of a fill) and sends
  published,          \* the last message sent
  master_t            \* simulated time

ownershipVars == <<log, published, master_t>>

IsWrite(i) == log[i].op \in {"static", "live", "claim"}

\* The last static write that says something about path q.
Touches(i, q) ==
  log[i].op = "static" /\ (IsPrefix(log[i].path, q) \/ IsStrictPrefix(q, log[i].path))

Says(i, q) == \/ IsStrictPrefix(q, log[i].path)
              \/ Suffix(log[i].path, q) \in DOMAIN log[i].value

StaticPaths ==
  DOMAIN Base \cup UNION {Prefixes(log[i].path) \cup {log[i].path \o r : r \in DOMAIN log[i].value} :
                            i \in {i \in DOMAIN log : log[i].op = "static"}}

StaticMessage ==
  LET lastTouch(q) == LET touching == {i \in DOMAIN log : Touches(i, q)}
                      IN  IF touching = {} THEN 0 ELSE Max(touching)
      present(q) == IF lastTouch(q) = 0 THEN q \in DOMAIN Base ELSE Says(lastTouch(q), q)
  IN  [q \in {q \in StaticPaths : present(q)} |->
         LET i == lastTouch(q)
         IN  IF i = 0 THEN Base[q]
             ELSE IF IsStrictPrefix(q, log[i].path) THEN Object
             ELSE log[i].value[Suffix(log[i].path, q)]]

InForce == {i \in DOMAIN log : log[i].op = "live" /\
              \A j \in DOMAIN log : j > i /\ IsWrite(j) => ~Overlap(log[i].path, log[j].path)}

SendsSince(i) == {j \in DOMAIN log : j > i /\ log[j].op = "send"}

\* What live binding i contributes to a send at the present time.
LiveMessage(i) ==
  LET block == log[i].value
      startedAt == IF block.timer \in block.reads THEN log[i].at
                   ELSE IF SendsSince(i) # {} THEN log[Min(SendsSince(i))].at ELSE master_t
      age == IF block.timer \in block.bodyReads THEN master_t - startedAt ELSE 0
      tree == [q \in DOMAIN block.shape |->
                 IF block.shape[q].type = "object" THEN Object
                 ELSE Leaf(block.shape[q].type, <<block.timer, Cardinality(SendsSince(i)) + 1, age>>)]
  IN  EnvelopeAt(log[i].path, tree)

Message ==
  Overlay(StaticMessage,
          [p \in {log[i].path : i \in InForce} |->
             LiveMessage(CHOOSE i \in InForce : log[i].path = p)])

-----------------------------------------------------------------------------
OwnershipInit == log = <<>> /\ published = <<>> /\ master_t = 0

Event(ops) ==
  /\ Len(log') = Len(log) + 1
  /\ SubSeq(log', 1, Len(log)) = log
  /\ Last(log').op \in ops
  /\ Last(log').at = master_t

Write == Event({"static", "live", "claim"}) /\ UNCHANGED <<published, master_t>>

Send == Event({"send"}) /\ published' = Message /\ master_t' > master_t

Pass == master_t' > master_t /\ UNCHANGED <<log, published>>

OwnershipNext == Write \/ Send \/ Pass

OwnershipSpec == OwnershipInit /\ [][OwnershipNext]_ownershipVars
=============================================================================
