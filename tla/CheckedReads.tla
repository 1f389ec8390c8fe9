---------------------------- MODULE CheckedReads ----------------------------
(***************************************************************************)
(* What a node reads and writes, what its scheduler makes of it, and what  *)
(* is promised about the two: the state of module Reads and its properties.*)
(***************************************************************************)
EXTENDS Integers, Sequences

CONSTANTS Tasks,         \* the node's own tasks
          Script,        \* what each does: a sequence of tool calls
          Rows,          \* what upstream keeps
          Witnessed,     \* the rows whose read comes back with a version
          OnStale,       \* policy.on_stale_read
          OnUnreadable,  \* policy.on_unverifiable_read
          MaxChanges     \* bound: changes by other hands

ToolCalls == [does : {"read", "write"}, row : Rows]

\* A policy is one of those policy.py knows.
ASSUME ReadsAssumption ==
  /\ Script \in [Tasks -> Seq(ToolCalls)]
  /\ Witnessed \subseteq Rows
  /\ OnStale \in {"squash", "stall"}
  /\ OnUnreadable \in {"proceed", "squash"}
  /\ MaxChanges \in Nat

VARIABLES
  version,  \* upstream: of each row
  changes,  \* by other hands
  at,       \* the call each task is at
  asked,    \* a read under way: called, then the version it has taken
  body,     \* the node's body: it runs, has returned, or has left tasks running
  reads,    \* branch.read_set
  staged,   \* the branch's staged writes, in program order
  parked,   \* the branch's park event
  pc,       \* the scheduler's retirement of this branch
  checked,  \* how many of the reads have been checked
  probes,   \* the reads whose re-check is under way
  found     \* what the re-check of each read found

-----------------------------------------------------------------------------

\* What a check leaves a write free to go out on.
Trusted == {"fresh", "unwitnessed"} \cup (IF OnUnreadable = "proceed" THEN {"unreadable"} ELSE {})
Trusts(on) == \A i \in on : found[i] \in Trusted

Gone == {i \in DOMAIN staged : staged[i].status \in {"sent", "acked"}}

\* The node has waited for whatever it began: its tasks for their writes, its body
\* for its tasks.
Patient == body # "left" /\ \A i \in DOMAIN staged : staged[i].awaited

\* A write the scheduler had before it when it last checked goes out only on reads
\* that a check, made after the write was decided, found to hold; and no node
\* retires, its state committed, on a read that its last check covered and found
\* not to hold - nor, if it waits for what it begins, on one made after that check:
\* though reads come back and rows change while the check itself is under way.
ActsOnCheckedReads ==
  /\ \A i \in Gone : staged[i].seen => Trusts(staged[i].on)
  /\ pc = "retired" => Trusts(1 .. checked) /\ (Patient => Trusts(DOMAIN reads))

\* "it had finished, with nothing more to send, but what it did with that read is not
\* committed" (_recheck_reads).
CommitsOnCheckedReads == pc = "retired" => Trusts(DOMAIN reads)

\* "A read that returns a version or ETag is re-checked before each write the node
\* sends - the first, and every later one, against the reads made since the last
\* check" (docs/limitations.md).
EachWriteIsOnCheckedReads == \A i \in Gone : Trusts(staged[i].on)
=============================================================================
