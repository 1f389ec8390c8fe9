# SpecuNode, verified

SpecuNode runs an agent graph ahead of the language model. While a model turn is
still streaming, or before it has been asked for, the runtime guesses which tool
calls it will make, makes them on a *branch*, and keeps or throws away what the
branch did once the model has spoken. Everything rests on one promise: **nothing
an agent changes in the outside world changes before the decision behind it is on disk,
or twice, and speculation changes when things happen and never
what happens.** The promise has to survive cancelled tasks, lost replies, killed
processes and resumes.

This directory holds TLA+ models of the code that keeps the promise, the TLC
configurations that check them on small instances, and proofs, checked by TLAPS,
for instances of every size. Paths below are relative to the repository root; the
package is `src/specunode/` of the repository.

## 1. The system

One process drives a run. Everything in it happens on one asyncio event loop,
except the journal's writer, which is one thread with a queue. Durable state is
the journal: an append-only, hash-chained table of entries, and next to it the
claim table `effect_dispatch`. SQLite or Postgres holds both.

| Component (code) | State | Operations | Hard part |
|---|---|---|---|
| **Scheduler loop** (`core/scheduler.py`: `_drive_from_state`, `_retire`, `resume`) | committed state, program position, visits per node, pending branches | route, fork a node, let it run to rest, confirm, drain, commit, retire, finish, resume | every entry is a separate write; a crash may fall between any two |
| **Speculative turn** (`core/scheduler.py`: `SpeculativeTurn`) | open guess, confirmed guesses, early reads, blocks read | read the reply, guess, confirm, miss, squash, adopt, settle, `let_go` | five kinds of task interleave at every await; cancellation at any of them |
| **Parallel groups** (`_run_group`, `_run_lanes`, `_abandon_lanes`, `_resume_group`) | one branch per lane, state keys claimed by retired lanes | fork all, rest all, retire in order, abandon, resume the open group | one lane fails among others that are parked; a crash between two lanes |
| **Store buffer** (`buffer/store_buffer.py`) | staged effects per branch, park events, acknowledgement futures | stage, adopt, discard, close, drain | the drain reads its list while it grows |
| **Dispatcher and claim table** (`buffer/dispatcher.py`, `journal/journal.py`) | attempt, may-have-landed flags; one durable row per write | claim, send, retry, reconcile, settle, mark not sent, dead-letter, operator resolve | lost and late replies, crashes, retries, resumes, an operator, all on one row |
| **Run lock** (`Journal.hold_run`) | in-process registry, lock file or advisory lock | hold, check, release | a lock that goes with its connection, a caller cancelled while a thread takes it |
| **Journal writer, hash chain** (`journal/journal.py`) | writer thread's queue, chain head | append, settle, claim, verify, evict | an append that fails half way, a cached writer evicted while in use |
| **Journaled model** (`core/model.py`) | the stream read ahead, the answer's entry | stream, fail, cancel | the caller leaves while the finished answer is being written |
| **Recorded turns** (`journal/replay.py`) | recorded answers per node | match, release, abandon | questions asked at once, matched to answers recorded in another order |
| **Budget and alpha gate** (`core/policy.py`) | window of resolutions, counters, closed flag | fork, resolve, close | ceilings met exactly |
| **Committed state** (`core/state.py`) | version, values, reducers | diff, apply, commit | reducers, and deltas of several lanes |
| **Hazards, effect classes** (`core/hazards.py`, `core/effects.py`) | none | does a read depend on a pending write | |
| **Witnesses** (`verify/witness.py`) | reads recorded on a branch | validate | a read gone stale between its check and the send |
| **Ledger** (`journal/ledger.py`) | none: folds a journal into a receipt | fold | |
| **MCP proxy** (`integrations/mcp_proxy.py`) | staged calls, decisions, waiters | stage, decide, wait | several clients |
| **LangGraph adapter** (`integrations/langgraph.py`, `_run_in_node`) | merged cursors | run a framework's step as a node | |
| Operator commands (`cli.py`), drafters, graphs and API, provider clients, equivalence verdicts, test doubles | - | - | see section 7 |

How they interact. A node's body runs as a task and calls tools through the
scheduler. A read goes upstream. A write is journaled as requested, staged on the
node's branch in the store buffer, and its caller *parks* on an acknowledgement.
The scheduler waits until every task of the node is finished or parked
("quiescence"), journals the branch as confirmed, and drains: it claims the first
staged write in the claim table, hands it to the dispatcher, settles row and entry
in one transaction and wakes the caller, which may stage more. When the body has
returned and nothing is left, the state change and the retirement are journaled.
A model turn adds tasks of its own to the same branch, and a branch per guess. A
resume reads the journal, places the run after the last retired branch and drives
again: writes come up again under the same keys, and the claim table says what
became of each.

### What makes each part correct

- *Drain and claim table.* A write takes effect at most once unless its tool said
  that repeats are harmless; "never sent" is true whenever it is on disk; no write
  overtakes another, also across resumes; a claim does not stay open for ever.
- *Turn.* What a reply decides reaches the world once the reply is on disk, and in
  program order; a wrong guess sends no write, and a read only ahead of all that; no
  call is lost, no waiter forgotten; the next call's position does not
  depend on timing; the turn ends; what it does is what a turn that never
  speculates could have done, but for the reads it guessed wrongly.
- *Drive.* However often it is stopped, a run makes each call under the key the
  uninterrupted run gives it; it retires what it sent and never sends ahead of a
  retirement; success means that nothing is left in doubt. Driven by a framework,
  with nodes side by side, each visit still sends its own writes, and what became of
  a node is never thrown away.
- *Reads.* What the scheduler had before it when it checked the reads goes out only
  on reads that held, although rows change and reads return while it checks; and a node
  that waits for what it begins commits only what it made of such reads.
- *Group.* The same for lanes; no two lanes silently overwrite a key; nothing is
  sent on a decision a sibling has made stale; every lane gets its ending.
- *Run lock, journal writer.* One driver per run, and a lock held by somebody who
  knows; a driver whose lock has gone does next to nothing more; a chain without gaps
  or forks whoever appends and whatever fails; nothing of a drive after its end.
- *Recorded turns.* An attempt decides what the one before it decided, so that its
  write is the one that may already be out; pacing stops no node whose code is what it
  was; a replay reproduces the attempt that retired.
- *Budget, state, ledger.* Speculation closes when the gate says, and for good; the
  state is what the nodes leave when they run plainly; the receipt accounts for the
  world, and for an undisturbed run as for a disturbed one.
- *MCP proxy.* One write per reported decision; a client is told of its own write, and
  what it is told stays true.

PROJECT.json lists the hazards line by line: what can go wrong there, and which
property would show it.

## 2. The modules

| Module | Models | Role |
|---|---|---|
| `DeliveryPromise` | what the outside world is promised about a run's writes | abstract |
| `Dispatch` | drain, dispatcher, claim table, upstream, crash, resume, operator | implements `DeliveryPromise` |
| `DispatchProofs` | the theorems about `Dispatch` | TLAPS |
| `SequentialTurn` | a turn without speculation, as the world sees it | abstract |
| `Hazards` | what a tool is declared to be, and which call may be run ahead of which write | operators, extended by `Turn` |
| `Turn` | a speculative turn beside its node, the drain and the writer thread | implements `SequentialTurn` |
| `TurnProofs` | the theorems about `Turn` and `Hazards` | TLAPS |
| `Drive` | the run: fork, rest, retire, finish, crash, recover, resume | |
| `DriveProofs` | the theorems about `Drive` | TLAPS |
| `Group` | a Parallel group and the node after it, the same way | |
| `GroupProofs` | the theorems about `Group` | TLAPS |
| `CheckedReads` | a node's reads, writes and their checks: the state, and what is promised about it | extended by `Reads` |
| `Reads` | what a node, its scheduler and others do to it | |
| `Driven` | a run whose nodes a framework starts, side by side | |
| `DrivenProofs` | the theorems about `Driven` | TLAPS |
| `RunLock` | who may drive a run, and what drivers append through their processes' writers | |
| `RunLockProofs` | the theorems about `RunLock` | TLAPS |
| `ServedTurns` | recorded turns: asked, journaled, served to a resumed node, replayed | |
| `DecisionProofs` | the theorems about `ServedTurns` and `Reads`: what a node's writes are decided on | TLAPS |
| `State` | documents, patches, reducers, commits | operators, extended by `Books` |
| `Budget` | the window of graded guesses and the budgets that close the gate | operators, extended by `Books` |
| `Ledger` | the fold of a journal into a receipt, its signature, the comparison of two runs | operators, extended by `Books` |
| `Books` | a run as its journal shows it, across crashes, resumes and an operator's word | composes the three |
| `Proxy` | the MCP proxy's held calls, decisions and waiters | |
| `ProxyProofs` | the theorems about `Proxy` | TLAPS |
| `MC...` | the instances TLC checks | |

The models meet at the write. `Turn` says which writes get into the drain's list
and in which order, `Dispatch` what happens to a write from its claim on, `Drive`
and `Group` what is journaled around the drain and what a resume makes of it, `Reads`
what has to hold before the drain starts and goes on, and `Books` what all of this
leaves on record; all of them for a run with one driver, which `RunLock` is about. `ServedTurns` justifies what
the others assume of a resumed node: that it decides as it did. Each takes the others in the smallest form that still shows its own problem, and says so
in its header.

Beside most operators that encode a decision of the code stands the same decision
made the way a plausible bug would make it, marked "Defect" in the comment. No
action uses them: PROJECT.json pairs each with the property it breaks, and so with
evidence that the property depends on the code being as it is.

### Dispatch

A write is named by its place in program order, which stands for its dedupe key
(`buffer/idempotency.py`). `row[e]` is its line of `effect_dispatch` (status,
outcome), `entry[e]` the last journal entry about it, `landed[e]` how often the
upstream applied it, `stray` the requests on their way that nobody waits for. `pc`,
`cur`, `try`, `maybeSent`, `earlier` and `asked` are locals of `_drain_locked` and
`Dispatcher.dispatch`; a crash loses them.

| Actions | Code |
|---|---|
| `ClaimNew`, `ClaimDelivered`, `ClaimRetrySafe`, `ClaimAmbiguous` | `_JournalWriter._claim`, and what the drain does with its answer |
| `HearLanded`, `HearAbsent`, `HearNothing` | `StoreBuffer._reconcile`, before a send and after a lost reply |
| `Send`, `Reply`, `FailUnsent`, `FailUnknown` | the attempt loop of `Dispatcher.dispatch` |
| `Settle`, `MarkNotSent`, `Bury` | `settle_dispatch`, `mark_not_sent`, `_dead_letter` |
| `ResolveLanded`, `ResolveNotSent` | `Journal._resolve`, called by `specunode resolve` |
| `Resume`, `Crash` | the process |
| `Land`, `StrayArrives`, `StrayIsLost` | the upstream |

Assumed, as docs/limitations.md assumes it: a tool that says `sent="no"` tells the
truth; a tool's `reconcile`, and the operator, say "it did not happen" only when no
request is still on its way; one driver per run (`hold_run`); a resume makes the
same calls at the same positions.

### Turn

An action is what one task does between two awaits. `queue` holds the entries
handed to the writer thread and not yet on disk; an action named for a finished
write (`SquashDiscarded`, ...) takes the head of the queue and runs its waiter. The
tasks: the turn's (`pc`), the node's (`node`) and its own write (`own`), one per
guess (`task`), whoever is squashing or discarding (`squashing`, `dropping`), and
the scheduler retiring the node (`run`). `list` and `settled` are the branch's
staged and acknowledged writes, `world` what reached upstream, in order.

The reply has `Asked` calls; `guessed` is what the guess at each is a guess of: that
call, or another the model never asks for, a write (`Wrong`) or a read (`Stray`), as its
tool is declared. A guessed write is staged on the guess's branch. A guessed read is sent at once
(`GuessReads`), as docs/limitations.md:31-36 says, and also after the branch's buffer has
been closed, until its task is cancelled (`CallCancelled`). Which read may be issued ahead of which write,
and which guess may be made, is computed by `Hazards` from the tools' declarations;
`Touches` says what each call really reads or changes, and the
properties hold the analysis to that. To `SequentialTurn`, what the world sees of a turn is
`world` as it is: a read that no write of the reply truly changes may be made at any time
there, an aside (a read nobody asked for, which is what a wrong guess at a read looks like)
before anything the turn decided, and everything else is made in order. The instance has a read
that commutes with the write before it and one whose declaration does not say what it
reads; among the wrong guesses are a write, reads that commute with what is pending and reads that
do not, a call of a tool nobody declared, an irreversible one, and a call on the result
of a staged write. Left out: witness
re-validation (Reads), journal errors (RunLock has the writer's), dead letters (Dispatch), tool errors of a
staged call, `alpha_observed` entries, and the budget (Books: here `NoGuess` is always possible). One turn per node, and
the node makes its next write only after the turn or after leaving it, since
`turns_in_flight` refuses calls made during one. The second outcome a caller's
cancellation gives a finished answer is the outcome `failed`.

### Drive

`branches` is what the journal holds of every branch: node, visit, position, the
state it was forked on, its status, whether its state change is there and the
cursor its retirement carries. `row`, `verdict` and `world` are the claim table, the last
`run_finished` and the upstream. `committed`, `cursor` and `ok` are the scheduler's
memory; `Resume` computes them anew as `recover()` does. A node takes
`Begins[n + 1] - Begins[n]` positions and makes one write at the last; it may
wait for its write, give up on it, raise before, during or after it, and on a
resume decide on a different one (`Decisions`). The write itself is delivered,
refused or left in doubt; requests that land late are Dispatch's. The router names
the first node whose change is not committed, so a lost or misplaced change shows.

### Group

`decided` and `forks` are the journal; `body`, `at`, `touched` and `seen` the lanes
as they run (where each stands, the state keys it has written, the siblings' writes
its reads show); `claimed` and `committed` the scheduler. Bodies run to rest in one
step each, which loses nothing: lanes do not interact before they retire, and
`parallel_nodes=False` is one of the orders. A lane makes at most one write, with
positions (`Early`, `Late`) and state keys (`Touches`, `TouchesLate`) before and
after it. A read goes stale only through a sibling's write. One node follows the
group, to show the position and the state the run goes on from; a dead letter of its own
halts the run with its branch still confirmed (`RunHalts`), where a lane is resolved as
faulted and the lanes after it are abandoned (`CloseFailed`).

### Reads

A node runs tasks of its own (`Script`), each of which reads rows and parks on writes.
A read takes its row's version upstream and joins the read set when it comes back;
`version` changes by other hands (`OthersChange`) and by the node's own writes. A task may
give up waiting for a write (`awaited`), and the body may return with tasks of its
own still running (`body` is then "left"): a read begun before still joins the read set,
until the branch retires.

| Actions | Code |
|---|---|
| `CallsRead`, `ReadUpstream`, `ReadReturns`, `Stage`, `OthersChange` | `BranchTools.call`, `execute_read`, `StoreBuffer.stage`, the upstream |
| `GivesUp`, `Returns` | a task that no longer awaits an ack, the body's end in `_run_node` |
| `AtRest`, `Probe`, `Refuse`, `Holds` | `_retire`'s and `_recheck_reads`' use of `validate_reads`, one probe at a time |
| `Send`, `Lands`, `NothingToSend`, `DrainOver` | the drain, and `_drain_until_done` around it |

A probe finds a version unchanged, changed, not given (`Witnessed` says which rows
give one), or cannot read it, in which case `OnUnreadable` decides.

### Driven

LangGraph keeps the loop, and reaches the runtime from inside each node's task.
`acts` are those tasks with their branches; `cursor` the run's position and visits,
which a node copies when it starts and merges back when it retires (`Merged`).
`NextSuperstep`, `GraphEnds`, `Fails` and `CancelRun` are the framework's; `Confirm`,
`Claim`, `Send`, `Settle`, `DeadLetter`, `DrainAgain`, `Retire` are `_run_in_node` and the
`_retire` it shares with `Drive`; `AccountForClaims` and `Finish` are `_run_driven`.
There is no resume, because the graph's state is its checkpointer's and not the journal's.

### RunLock

A driver is one Scheduler. `registered` is `_held_runs`, per process; `lock` the
driver whose connection (or lock file) holds the run across processes; `taking[t]` the
thread that `hold_run_async` starts, which goes on when its caller is cancelled;
`pc[t]` the driver itself; `live` the drives not yet over (`end_drive`). A process has
one writer: `queue` is its executor's, `head` the chain head it remembers, and `disk`
the run's entries with the link each carries in place of a hash. `Breaks` lists what
`verify_chain` would complain of.

| Actions | Code |
|---|---|
| `Ask`, `Register`, `TakeLock`, `MissLock`, `Held`, `Settled`, `Cancel` | `hold_run_async`, `hold_run`, `_run_lock`, `_postgres_run_lock` |
| `Unlock`, `Unregister` | the `finally` clauses of these and of `Scheduler._driving` |
| `Claim`, `BeforeAttempt`, `Send` | `claim_dispatch` and the attempt loop, each behind `check_run_lock` |
| `AppendEntry`, `Beside`, `End`, `Finish` | the drive's entries, those of tasks nobody waits for, `_journal_run_finished` |
| `Write`, `Conflict`, `FailedWrite` | `_JournalWriter._append` and `_settle` |
| `LoseLock`, `Crash` | the database server, the process |

A check and what it allows are separate steps, as in the code, so the lock may go in
between: that is why a late send is bounded by one and not excluded. A lock file
cannot be lost, which is `Losses = 0`; no property needs it. Retries are not bounded.
A failed insert may or may not be on disk, which is what an error at commit leaves. A
writer that `evict_writer` has dropped, and that still has appends queued, is to the
chain what another process's writer is, and is not modelled apart.

The model shows one thing the properties do not forbid. Appends other than
`run_finished` and claims are not behind `check_run_lock`, so a driver that has lost
its lock normally fails on its next append: its writer's head is stale and the offset
is taken. But if its process's writer has just forgotten the head because an earlier
append failed, it reads the new head from disk, and its entry lands, correctly
linked, in the middle of the other driver's run.

### ServedTurns

One node at one position, over the attempts a run and its resumes make at it. `did` is what
the node has done and seen, step by step: questions asked, waits, outcomes seen, writes.
What it does next is any function of that (`plan`), fixed until its code
changes, as a node has to be deterministic to be resumed; `Decides` chooses the function
where it is first needed. `journal` holds `model_request`, `model_response` and `effect_staged`,
with the attempt they belong to; `Take` and `Matching` pick the recorded turn a
question is served, `Order` and `Blocked` are the pacer, `Expire` its refusal once all
the node waits for is waiting too, and `Replay` starts a `ReplayModel` over the
attempt that retired. A caller may give up on a turn at any time, also while
its answer is being written (`GiveUpLate`).

| Actions | Code |
|---|---|
| `Ask`, `AskReplay`, `Waits`, `Stage`, `Return` | the node's body, in `JournaledModel.complete` and `stream`, `ReplayModel._turn_for`, `StoreBuffer.stage` |
| `Answer`, `Serve`, `GiveUp`, `GiveUpLate`, `See` | what becomes of a call: `_outcome`, `_cancelled`, `RecordedTurns.due`, `_let_finish` |
| `Expire` | `_wait_out`, `_Pacer.due`, `_served_never_answers`, and `ask_abandoned` |
| `Dispatch`, `Crash`, `Resume`, `Replay` | the drain, the process, `Scheduler.resume`, `specunode replay` |

Time enters through guards only. `_Pacer.due` sleeps until as long after a question as the
run waited for its answer, so a node that is what it was has by then asked whatever it
asked before that answer came (`InTime`); and it gives up on a served turn where it
did before and nowhere else (`GiveUp`, `GiveUpLate`, `Expire`). That is an assumption on the
resuming process, which docs/replay.md:160-172 makes in so many words: it keeps the run's time.
The documentation names what breaks it, a disk faster or slower by more than a deadline leaves
room for; the properties say nothing of a run where that happens. New code is not held to it.
The assumption is used. Take `InTime` out of `Due`, give the configuration three questions, none
of them streamed, and two attempts without refusals or new code, and TLC finds `OneDecision`
violated; with it, nothing in 406,774 states. A node asks the third question once its patience
with the first has run out; served without its wait, the answer to the second, which came after
the third's, comes before that one is asked.

A write refused leaves the run to stop and be resumed; a write already sent is
found delivered. Left out: speculation on a
served turn, the refusal of a turn by its place among the writes, and the pieces of a
served stream.

### State, Budget, Ledger, Books

`State`, `Budget` and `Ledger` hold the pure parts as operators, and `Books` drives
them the way the runtime does. Its `journal` is the run's entries in full, as far as the
three read them. `StateBefore` rebuilds the state of a resume from the journaled
patches, `Rows` and `LedgerPayload` fold the journal into the receipt, `VerifyLedger`
checks a signed one against the journal as it is later.

| Actions | Code |
|---|---|
| `Run`, `Resume`, `Crash`, `LoopEnds`, `CloseGate`, `Finish` | `_drive_from_state`, `resume`, `_account_for_claims`, `_journal_run_finished` |
| `ForkGroup`, `Fork`, `Emit`, `Stage`, `Confirm`, `ApplyDelta`, `Retire` | one node or lane, entry by entry |
| `Guess`, `Hit`, `Miss`, `Stall`, `NoCandidate`, `GateClosed` | the drafter's guess at the next write and its grading by `BudgetState` |
| `Claim`, `ClaimDelivered`, `ClaimAmbiguous`, `Send`, `Deliver`, `MarkNotSent`, `Bury` ... | the drain and the claim table |
| `ResolveLanded`, `ResolveNotSent`, `SignLedger` | the operator's commands |

What `Dispatch`, `Turn` and `Group` say in detail is short here: a lost reply is
settled at once, lanes journal one after another, a turn has only writes, a guess and
its staged write are one step, and the operator tells the truth. `PlainState` and
`NormalisedRows` over `Writes` are the reference: what the nodes leave if they simply run.

### Proxy

Every action is what happens between two awaits of one event loop. `staged` are the
calls held, `outcome`, `results` and `events` the dictionaries of `ProxyState`;
`report` a call to `specunode.retire`, which sends the held call that is the reported
decision and discards all others (`Retire`, `Hears`, `Cancelled`); `caller` a client
that has left with a handle, or waits (`Released`, `Deadline`, `Leaves`).

## 3. The runs

| Run | Instance | Distinct states | Shows |
|---|---|---|---|
| `dispatch` | 3 writes, one of each kind of tool, 2 attempts, 2 crashes | 4,045 | everything `Dispatch` promises, the refinement of `DeliveryPromise`, and that open claims close |
| `turn` | a reply of 4: write, commuting read, write, dependent read; wrong guesses of writes and reads | 2,109,747 | safety of a turn under every interleaving, and the refinement of `SequentialTurn` |
| `turn_live` | a reply of 2 | 167,593 | the turn ends, a returned node is retired |
| `drive` | 2 nodes of 2 and 1 positions, 2 decisions, 2 resumes | 1,491,424 | a run survives any stop at its own positions; what success means |
| `reads` | 3 tasks of 4, 2 and 1 calls over 2 rows, one with a version, 1 change by others; writes given up on, tasks left running | 2,548,871 | writes seen by a check go out on reads that held; what is committed |
| `reads_each` | the same | violation | the finding of section 6 |
| `driven` | 2 supersteps of one or two nodes, 2 calls each | 3,979,134 | nodes side by side keep their keys and their verdicts |
| `group` | 3 lanes, 2 of them writers, and a writing node after them, 2 resumes | 1,796,727 | lanes in order, in place, without a silent clash |
| `run_lock` | 2 drivers in one process, 1 in another; 2 claims or appends, 1 lost lock, 1 failed append | 1,190,430 | one holder, one late send at most, a whole chain, nothing after `run_finished` |
| `served` | 2 questions, one streamed, 1 write, 3 attempts, new code once, 1 write refused | 3,873,402 | a resumed node decides as before, is not stopped by pacing, and replays |
| `books` | a guessed turn of 2 writes, then 2 lanes of 1; 2 drives, 1 fault, 2 guesses | 365,847 | receipt, state and gate agree with the world and with an undisturbed run |
| `proxy` | 3 calls, two of them equal, 2 reports, 1 discard; both modes | 145,033 | one send per decision, true answers, the right waiter released |

Why these bounds. *dispatch*: each of the three treatments (asked about, repeated,
dead-lettered) needs one write; order needs a write before and one after; the worst
history of a row is a crash after a send, a resume and a second crash while the
retry is out, hence two crashes and two attempts. `landed` is counted up to two,
which is already a violation. The proofs remove all of these bounds. *turn*: an
adopted guess needs a block before it, and confirmed guesses in pairs are needed
for one to be caught while the other is discarded; with four blocks a guess can be
wrong, right and adopted, and still open in one turn. Until the third block the wrong guess
may be a read that commutes with what is pending, so one can still be on its way when
the reply ends, its turn is left, or the next guess is made. *drive*: two nodes are the least
at which one can be ahead of another; unequal lengths make a position counted in nodes wrong; the second resume
meets what the first left behind. *group*: the first lane writes two keys, one
reduced and one not, and takes positions after its write; the second clashes with
it without writing upstream; the third reads what the first changes and clashes
late. Resumes again are two. *run_lock*: the registry needs two drivers in a process,
the lock two processes, and a lock left behind shows only to a third driver; one lost
lock gives two drivers at once; a forgotten head needs one failed append, and a gap or a
fork one more entry of either writer. *reads*: one task has to write twice, so that reads
come between two writes, and another to write in the meantime; one row has versions and
one does not; unreadable rows squash, and the proof covers both settings. *driven*: a
node that is visited again while, or after, another ran beside it. *served*: two
questions can be asked in one order and answered in the other; the third attempt
meets what two recorded, one of them perhaps of other code. *books*: a window of two
and a ceiling of two missed guesses close the gate for either reason, at their limits;
the lanes share a key with a reducer and one without; the second drive inherits a claim, a
dead letter or a confirmed branch from the first. *proxy*: of two equal calls a
decision must send one; the third is what it must not touch; two reports can overlap. Symmetry
exchanges the two equal calls, and the reports, which nothing tells apart. `MaxCrashes` and `MaxResumes` are the only bounds that
cut behaviours off, and once they are used up the system stops, which is why
`drive`, `group`, `served` and `books` do not check deadlock; nor do `reads`, `driven` and
`proxy`, where a run is over, or a client waits for a decision nobody reports.
`dispatch`, `turn` and `run_lock` do.

What the properties say is written above each, in the module. The less obvious ones:

- `Dispatch!JournalTellsTheTruth`: a durable "sent: no" may precede a send, since a
  resume retries it, but then the row is open again; without that link the entry
  alone would be the last word and wrong.
- `Turn!OnlyDecidedCallsSent`: a guessed read is sent before its decision by design. What is
  claimed of a wrong one is that it is a read, and comes before anything the turn decided or
  the node writes next: a squash that closes the buffer and does not cancel the call
  breaks that.
- `Turn!PositionsAreNotTiming`: a failed or abandoned turn gives back the positions
  its blocks took, or the node's next call would be keyed by how many happened to
  arrive.
- `Turn!NothingIsLost`: at retirement nobody waits for an acknowledgement that
  will not come, and no guess holds a write, except one that the turn's own
  cleanup has taken off to discard (section 6, 3).
- `Drive!RunsInPlace`, `Group!GroupRunsInPlace`: what a dedupe key is made of is
  the same in every attempt. `SentOnceInTurn` and `GroupSendsOnce` then rest on the
  keys, as in the code.
- `Drive!SuccessIsWhole`: a run reporting `ok` leaves no claim that may have been
  sent, also not one a resumed node walked away from by deciding otherwise.
- `Group!NothingSentOnAClash` is about the step that sends: at that moment no
  retired lane, of this drive or an earlier one, has claimed a key the lane has
  written, or changed what it read.
- `RunLock!OneHolder` counts the threads and drivers that have the run and compares
  the count with the registry: a refusal that cleaned up, or a cancelled caller that
  left its thread behind, makes them differ long before two drivers meet.
- `Reads!ActsOnCheckedReads` speaks of the writes the scheduler had before it when it
  last checked, since a write staged while the drain runs goes out with the rest
  (section 6, 1). Of those it says that the reads made before the check held. Of a node that
  retires it says that no check found otherwise of any read, and, if the node waited for its
  writes and its tasks (`Patient`), that every read was checked. Without that premise it is false
  (section 6, 2).
- `ServedTurns!OneDecision` is what makes a resume safe at all: of two attempts of the same
  code, the n-th write is the same, whatever order answers came in.
- `ServedTurns!ServedNodeGoesOn`: the pacer hands turns over in the order they came
  back, and refuses a node that waits for a later one only if its code has changed.
- `Books!SameReceiptAsUninterrupted`: a run that reports success shows the rows of a run
  nothing happened to, which is how equivalence is judged.
- `Books!GateFollowsTheRecord` recomputes the gate from the journal alone.
- `Proxy!ReleasedWithItsAnswer`: a waiter's event is set by the report that resolved its
  own call, and its answer is on record by then.
- `RunLock!ChainIsWhole` is what `verify_chain` checks, at every moment, with two
  writers that know nothing of each other.

### Fairness

`Dispatch!FairSpec`: a live process keeps stepping (`WF(Drive)`) and a stopped run
is resumed (`WF(Resume)`). The first rests on the tool's adapter: the runtime sets
no timeout of its own on a call, so an adapter has to return or raise in the end
(`Reply`, `FailUnsent`, `FailUnknown`), as asyncio then guarantees the rest. The
second is an operator's duty and an explicit premise of `OpenClaimsClose`: a run
nobody resumes keeps its claim open. Crashes, cancellations, operators and the
upstream's own moves are not fair.

`Turn!FairSpec`: asyncio runs a task that is ready, the writer thread empties its
queue, a request is answered or fails, and the model's stream ends
(`WF(AnswerArrives)`). The actions by which a node body *decides* to return or to
give up waiting have no fairness: user code may wait as long as it likes. What the
runtime does once it has returned (`LeaveSquash`, `LeaveDrop`, `NodeDone`) has.
`TurnEnds` therefore shows that the turn and the drain never wait for each other,
with no help from the node.

## 4. What is proved

`DispatchProofs` proves, for every number of writes, every choice of idempotent and
reconcilable tools, every attempt limit and every number of crashes:

| Theorem | Property of the run `dispatch` |
|---|---|
| `TypeCorrect` | `TypeOK`, stated and not among the run's |
| `NeverTwice` | `AtMostOnce` |
| `Truthful` | `NotSentIsTrue` |
| `JournalTruthful` | `JournalTellsTheTruth` |
| `InProgramOrder` | `PrefixDelivered` |
| `DeliveredIsFinal` | the action property `DeliveredStaysDelivered`, stated and not among the run's |
| `KeepsPromise` | `PromiseKept`: `Dispatch` implements `DeliveryPromise` |

The only assumption is `DispatchAssumption`, the types of the constants.

`DriveProofs` proves all of the run `drive`, for any number of nodes, of any lengths
(`DriveAssumption`: `Begins` increases), any decisions, and any number of crashes, faults,
dead letters, operators' answers and resumes:

| Theorem | Property of the run `drive` |
|---|---|
| `TypeCorrect` | `TypeOK`, stated and not among the run's |
| `InPlace` | `RunsInPlace` |
| `OnceInTurn` | `SentOnceInTurn` |
| `WholeRetirements` | `RetirementIsWhole` |
| `WholeSuccess` | `SuccessIsWhole` |

`DecisionProofs` proves all of the run `served`, for any questions and
answers, streamed or not, any code, and any number of questions, writes, attempts, changes of the
code and refused writes (there is no assumption on the constants):

| Theorem | Property of the run `served` |
|---|---|
| `ServedTypes` | `TypeOK`, stated and not among the run's |
| `DecidedOnce` | `OneDecision` |
| `GoesOn` | `ServedNodeGoesOn` |
| `Replayed` | `ReplayReproduces` |

and, for every set of tasks and rows, every script of reads and writes,
either treatment of unreadable rows and any number of changes, what happens when a stale read
squashes (`on_stale_read: squash`, the default and the only value the code
compares with):

| Theorem | Property of the run `reads` |
|---|---|
| `ReadsTypes` | `TypeOK`, stated and not among the run's |
| `ActsOnWhatWasChecked` | `ActsOnCheckedReads` |

(`ReadsAssumption`: the types of the constants). The two share a module and not their names:
`Reads` is instantiated there, over the state that `CheckedReads` declares.

`ProxyProofs` proves, for any number of clients, equal or different calls, and reports
(`ProxyAssumption`: both sets are finite, and `None` is neither an id nor a decision):

| Theorem | Property of the run `proxy` |
|---|---|
| `TypeCorrect` | `TypeOK`, stated and not among the run's |
| `ToldTheTruth` | `ToldOfItsOwn` |
| `ReleasedInTime` | `ReleasedWithItsAnswer` |
| `NoMoreThanDecided` | `OneSendPerDecision` |

`RunLockProofs` proves all of the run `run_lock`, for any number of drivers in any number
of processes, of entries, lost connections and failing appends (`RunLockAssumption`: the
types of the constants, and `None` is no driver):

| Theorem | Property of the run `run_lock` |
|---|---|
| `TypeCorrect` | `TypeOK`, stated and not among the run's |
| `OneDriver` | `OneHolder` |
| `AtMostOneLateSend` | `OneLateSend` |
| `WholeChain` | `ChainIsWhole` |
| `NothingAfterTheEnd` | `FinishedIsLast` |

`GroupProofs` proves all of the run `group`, for any number of lanes, positions, state keys
and resumes (`GroupAssumption`: two lanes at least, each of which takes a position):

| Theorem | Property of the run `group` |
|---|---|
| `TypeCorrect` | `TypeOK`, stated and not among the run's |
| `InPlace` | `GroupRunsInPlace` |
| `OncePerWrite` | `GroupSendsOnce` |
| `InDeclaredOrder` | `LanesInOrder` |
| `NoOverwrite` | `NoSilentOverwrite` |
| `NoClash` | the action property `NothingSentOnAClash` |
| `ForksEnd` | `EveryForkResolved`, stated and not among the run's: a drive that ends leaves every branch it forked with its ending on disk, except that the node after the group is left confirmed over a claim of its own when that is dead-lettered |

`TurnProofs` proves all the safety of the run `turn`, for any reply, tools, policy and
wrong guesses (`TurnAssumption`: a tool that names what it touches touches nothing else, and
one declared a read changes nothing, which is the developer's word and docs/limitations.md
asks for it):

| Theorem | Property of the run `turn` |
|---|---|
| `TypeCorrect` | `TypeOK`, stated and not among the run's |
| `AnalysisIsSound` | a read that an earlier write truly changes is never issued early nor guessed at; about `Hazards`, no property of a run |
| `OnlyWhatIsDecided` | `OnlyDecidedCallsSent`, misguessed reads included |
| `ProgramOrder` | `SentInProgramOrder` |
| `NothingLost` | `NothingIsLost` |
| `NoTimingInPositions` | `PositionsAreNotTiming` |
| `Semantics` | `SpeculationPreservesSemantics`: `Turn` implements `SequentialTurn`, whose `Asides` are the misguessed reads |

`DrivenProofs` proves all of the run `driven`, for any nodes, supersteps, number of calls and
number of rounds (`DrivenAssumption`: the types of the constants):

| Theorem | Property of the run `driven` |
|---|---|
| `TypeCorrect` | `TypeOK`, stated and not among the run's |
| `EachVisitItsOwn` | `EveryVisitSendsItsOwn` |
| `NoVerdictLost` | `NoVerdictIsLost` |

*Dispatch.* The four invariants are not inductive: none says anything about the process between
a claim and its settlement. `IInv` adds what does.

- `RowShapes`: which outcome goes with which status, and that a write without a row
  has not been touched. Claims and settlements are the only writers of a row, so
  this is what a claim may conclude from reading one.
- `DenialsStand`: an entry "no" stands on a row still marked so, or armed again.
- `CursorBehind`: the drain has passed only delivered writes. With it a claim of
  the next write keeps program order.
- `AtWork`: what the locals of the process know about the write it is at. At "send"
  or "out" with a tool that is not idempotent, nothing has landed, nothing is on
  its way and no attempt of this call may have landed; with neither `maybeSent` nor
  `earlier` set nothing was ever sent, which is what entitles `MarkNotSent` and a
  dead letter "no"; at "settle" it has landed. This is the argument that the two
  flags remember enough: drop `earlier` and `JournalTellsTheTruth` fails, retry on
  any retriable error and `AtMostOnce` fails.

`Initially` and one lemma per group of actions (process, operator, claims, asking,
attempts, failures, strays, settlements) give `Init => IInv` and
`IInv /\ [Next]_vars => IInv'`. The action property and the refinement follow
step by step from `IInv`: a claim, a retry or a crash maps to a stutter, `Land` and
`StrayArrives` to `TakesEffect`, `Settle` and `ResolveLanded` to `IsRecorded`.

*Drive.* `DriveInv` says where the run is. `Progress`: the nodes retired on disk are the
first `m`, and the memory of a live drive agrees with that - routed, it stands at
`EndOf(m)`; at work, it has forked node `m + 1` and is at its begin or end. `Retirements`:
what each retirement carries is the place after its node, so that `recover()`, which reads
the last one only, finds `EndOf(m)` again (`RecoveryIs`). `InOrder`: a branch is forked
when all nodes before its own have retired, and none after its own has; with it a
branch that was confirmed in vain is superseded once every node has retired. `AtWork` and
`Claimed` are Dispatch's argument in small: nothing is upstream that a claim denies, so a claim that
may be made again is of a write that is not there. `OwnKey` is why a claim never touches
the row of a retired node.

*Group.* `GroupInv` has `DriveInv`'s shape: `Progress`, the nodes retired are the first `m` and the
drive is at the next one, or gives up from there on; `Retirements`, what they carry.
`Forking` says that every lane of this drive was forked after those before it, which
makes the branch that `Mine` finds the right one when lanes fork before any retires.
`Placed` ties a body to its position, and with `PositionIs` the group's position to the end
of its longest lane, whether that lane retired in this drive or an earlier one. `ClaimedKeys`
says that what is on disk of a retired lane's keys is claimed again after a crash;
`Cleared`, that the lane about to send was found neither to clash nor to be stale, and that
as long as nothing has been sent the check of all lanes together still stands, which
is why `IsStale` may rely on it. `Halting` says that the node after the group is
confirmed while it sends, and that a dead letter stops it over a claim of its own, which
is all that `EveryForkResolved` leaves it with. That the largest of a set of positions exists is
derived from the well-foundedness of `<` (`LeastExists`, `MaxIs`, `Bounded`), there being
no induction to cite.

*ServedTurns.* `OneDecision` compares writes of different attempts, and the argument is about
histories. Two that `Agree` begin alike; code that decides the same on the same history
(`Follows`) and sees the same goes the same way, so what has to be shown is that a later attempt
sees the same, as long as it matters.

- The journal. `JournalIs`: attempts write one after the other, and a response is of a
  question its own attempt asked. `StagedAre`: the history a write was decided on saw the
  turns its attempt asked before, all of them, each as its *last* outcome says, in the order of
  those outcomes (`ToldBy`), and the writes in it were sent. No turn is open when a write is
  staged, so that is what `Pinned` will serve. `Chain`: of what the running code has sent, each
  write was decided on more of one history than those before it. `OneDecision` follows: of two n-th
  writes, one history begins with the other, in which the n-th write was made already.
- The guide. Of the stagings that earlier attempts of this code have sent, the last
  is decided on the longest history `d`, with turns `T`. `Lock` is what is true of an attempt that
  does `d` again: what it did and saw so far agrees with `d`; its i-th call is served `T[i]`;
  and no turn is handed over before an earlier one, which is where `Blocked` and `InTime` are
  needed, since the next outcome in `d` is the least of `T` still open. `Guided` says that
  an attempt is locked to its guide, has gone past it only with all of `T` asked, and is never
  served an attempt of its own code that is no guide. `RecordedTurns.take` takes the latest matching
  attempt, not the longest; that the questions of the two are the same as far as both go is
  `Chain` again.
- A refused write leaves nothing to serve: `Pinned` is cut at the last write that may have been
  sent, and an attempt is free from there on. So `Own` keeps, for the attempt that runs, what
  will make its next staging one of `StagedAre`, and `CallsAre` and `NodeIs` tie calls and history.
- The stop. `ServedNodeGoesOn` is in the invariant because `Expire` must be shown to take no
  call of a locked attempt: it waits, so in `d` it saw something next, and that turn is asked
  for, unblocked, and due. Where the node waits for several, the least of them is.
- The replay. `KeptIs` is `StagedAre` for the attempt that retired, `Replaying` the lock to its
  history; a replay that has the length of it has its end.

Each step is one of eleven kinds (`AStep`: it asks, waits, writes, records, sees, ...), and every
part of the invariant is kept by a lemma of its own over these. The lock is kept first for any
`d` and `T` that satisfy what `Leads` lists, and then used twice, for the guide and for the replay.

*Reads.* `ActsOnCheckedReads` speaks of sent writes and of a retired node, and says
nothing of the check itself. `ReadsIInv` adds the steps in between: a check under way has a
verdict for every read it has passed (`HasVerdict`, `Passed`); a staged write whose
decision the check saw rests on reads made before the check (`RestsOn`); and while
the drain runs, those reads are trusted (`Ready`). `Back` says that a
body which waited for its tasks has none that can still read, which is why the check that finds it
done is the last one it needs. That a read which comes back *during*
a check lands behind the ones it covers is what makes `RestsOn` stable. One lemma per
action.

*Proxy.* Everything turns on effect ids. `OwnId` says that no two requests share one, since
each carries the number the next will exceed; `Undecided`, that a held call has no outcome
yet, so that no second report can resolve it. `Counted` and `Decided` then tie each send to
one confirmed id and that to one report; `Reported` says that a report confirms one call
at most and, while it waits, waits for that one; `Heard`, what may be on record of an id
whose event is set. `NoMoreThanDecided` maps each sent request to the report that
confirmed it, an injection by `OwnId` and `Reported`.

*RunLock.* Two invariants. `HoldingInv` follows the run: `Attempting` says how far a driver's
thread may be where the driver is, and so that one which is gone has left no thread behind;
`OneRegistered` that the registration of a process is some driver's, and only its; `LockKnown`
that a driver past the lock either has it or lost it; `LateOnce` that a driver that has sent
late is not cleared again. `JournalInv` follows the entries. `Dense`, offsets without a gap,
is what makes an optimistic head safe: a head a writer remembers or reads is on disk, so that the next
offset is either taken, and the append refused, or the one behind all (`NextEntry`). That a
forgotten head is read anew is needed for the former: remembered after a failed append, it
might be of no entry at all. `Over` and `Queued` say that a driver whose last entry has been handed over is in no
place that hands over more, and that its writer's queue has nothing of it behind that one.

*Turn.* The properties look at the world, or at the moment of retirement, and what makes them
true is spread over seven tasks and a queue. `TurnInv` has fourteen parts, in three groups.

- The writer thread. `EntriesAreDue`: every entry in the queue is waited for by the task whose
  it is, at the place where it waits, and no task has two (an adoption or a request may outlive
  its turn; those say so). So a completion that arrives finds the state its handler
  assumes. `InTurn`: the order of the queue where something rests on it. The node's own request
  is before everything, its staging before the scheduler's entries, a guess's request before
  the reply; the last is why no guess can still be asking for its write when it is adopted.
- The tasks. `Phases` says where turn, node and scheduler may be at once; `Guessing`,
  that one guess is open at a time, the next block's, that a confirmed one is right, and
  that a right guess is never at a call the analysis speaks against; `Tasks`, on whose list each
  guess's write is; `Discarding`, which confirmed guesses are being taken off and by whom;
  `OwnFirst`, the write that was under way when the turn began.
- The calls. `Progress`: until the reply is decided none of its calls is on the branch's list or
  past the results loop; after that everything before `at` is done and nothing behind it begun.
  `LaterLast` and `Places` tie the node's next write to the position the turn leaves.
  `Draining`: what is staged comes after all that was sent, which is the whole argument for
  program order, since the drain takes the least. `Upstream` says what is in the world:
  what the drain sent, the dependent reads before `at`, and the misguessed reads. `Astray`: while
  a wrong guess has a call that can still be made, nothing the turn decided and
  nothing the node writes next has been sent; squashing ends the call before any of that can
  be staged.

Each part is kept by a lemma of its own, which first narrows the actions to those that touch its
variables (`DrainSteps`, `GuessSteps`, ...). The refinement maps a delivery or a read to
the call it makes, a misguessed read to an aside, the three writes of the reply's outcome to
`TurnOutcome`, and all else to a stutter; that a failure after an answered reply is still an outcome, and not a change of mind, is
`SentIsDecided`. A call made in order comes after all that is in order already (`LastInOrder`).

*Driven.* `EveryVisitSendsItsOwn` compares keys in the world. Keys are distinct because of
`Named`: a visit is counted when its task starts and no merge of cursors takes it back, so of
two branches of a node the later has the greater visit (`Merged` keeps the larger of each; the
defect that takes the retiring branch's cursor whole breaks exactly this). `Ours` is a branch for
itself: as long as its task can retire it, one write at most is staged and not sent, at the
branch's position. `Upstream` ties the two: each thing in the world is some branch's, under its
name, and is down as sent or about to be; and a claim found delivered was. `Verdicts` says that
what has not retired is of the current superstep, and that a run which stopped driving
because of it says so.

## 5. What is only model-checked

Liveness (`OpenClaimsClose`, `TurnEnds`, `ReturnedNodeRetires`) is not in the prover's
reach. Nor is anything about recursive operators, which `State` uses, and so `Books`: its five
invariants (`ReceiptAccountsForTheWorld`, `VerifiedReceiptIsTrue`,
`SameReceiptAsUninterrupted`, `StateIsAsPlainlyRun`, `GateFollowsTheRecord`) stay with TLC. They
compare folds over a journal with what happened, and what a fold computes is an induction over
data. All other invariants of the runs are proved. Every module's `TypeOK`, and `Group!EveryForkResolved`, hold and are left
out of the runs, which check what is harder to have.

## 6. Where code and documentation disagree

1. `reads_each`, a run that TLC finds violated, and an entry under "findings".
docs/limitations.md:45-48 says that a versioned read is re-checked before each write
the node sends. The drain reads the branch's list live, so a write that another task of
the node stages while the drain runs leaves with the rest, on reads that are checked
only when the drain is over.

The other statements are properties of the modules that no run lists. Each does not
hold; put its name as an INVARIANT, or as a PROPERTY where noted, into the configuration
of the module and TLC shows how.

2. `CheckedReads!CommitsOnCheckedReads`, in MCReads.cfg. The same page, and `_recheck_reads`
of a node whose read went stale ("it had finished, with nothing more to send, but what it did with
that read is not committed"), have no node commit what it made of a read that was not checked.
`_drain_until_done` returns without a check when the body has finished by the end of the drain
(`scheduler.py`:1574-1576). A body that gave up on its write, or left a task running, can read
while the drain sends, return, and be committed and retired on that read. A node that waits
for all it begins cannot (`ActsOnCheckedReads`).
3. `Turn!GuessesEndFirst`. `let_go` promises that guesses are squashed and discarded
"all while the run is still driven, and seen done before the node retires".
`_discard_confirmed` empties its dict first and journals one guess after another. When
the turn's own failure is inside it as the node returns, `let_go` finds nothing left to
do, and the node can retire with a guess whose ending is not on disk. Nothing is sent
because of it (`OnlyDecidedCallsSent` holds).
4. `Turn!NoCallOutlivesTheTurn`. `_abandon` promises that no call outlives its turn.
The await of `_squash_open("turn_ended")` stands between the two `try` blocks of
`SpeculativeTurn.run`; a cancellation delivered there skips the cleanup of both.
5. `Drive!UnsentIsRetried`. docs/adapters.md promises that a plain resume retries a dead
letter whose request never left. If the node stopped waiting for that write before it
failed, the node retires all the same, a resume has nothing to run, and reports success
without the write.
6. `Driven!NoBodyOutlivesTheRun` (PROPERTY). `_stop_node_tasks` is to leave nothing of a drive
running. `_run_in_node` does not register the task of a node it runs for LangGraph, so
a sibling's failure cancels the shim and the node's body goes on: its reads until the
drive is over, and a write being journaled is staged, perhaps after `run_finished`. Nothing
is sent.
7. `Proxy!DeadlineTellsTheTruth`. A blocking caller whose deadline passes while the
report that resolved its call waits for the upstream is told that its call is still
held, or is given no answer, although the call was decided and is being sent
(`mcp_proxy.py`:145-148 says otherwise). Its handle shows the outcome later.
8. `Books!LedgerMatchesTheWorldItMade` (`MaxGuesses = 0` makes it quick). The ledger's
rows are said to be the order in which things left (`ledger.py`:30,
`equivalence.py`:390). They are sorted by `retire_seq`, which restarts at 0 in
every process (`scheduler.py`:1824) and which a lane finished by a resume takes along with those journaled
before, so that its row may sort before the first node's. The receipt
still accounts for every write.
9. A write of a confirmed guess that leaves after the turn's first write, whose claim a crash
leaves open and an operator resolves as landed, has no dispatch index and is placed by the one it
was staged with, 0. `dispatch_order_anomalies` then reports a correct run; this is the exception
`ReceiptAccountsForTheWorld` makes (`OnAnOperatorsWord`).

Seen and stated nowhere. `StoreBuffer.stage` appends to the branch's list before it
journals `effect_staged`; if that append fails, a later drain sends an effect that has
no such entry. The head a receipt binds is that of the first `run_finished`, so the
receipt of a resumed run vouches for the prefix up to its first failure. `verify-ledger`
rebuilds the receipt before it checks the signature, so a journal that changed is
reported as an integrity failure. Speculation's ceilings are per drive: each resume may
waste as much again. `on_stale_read: stall` is accepted and lets a node go on over a
stale read: the code compares only with "squash".

## 7. What is not modelled

Drafters (any guess may be made, so their quality is no matter of correctness),
provider clients and the CLI's output (I/O and wording), graph construction and the
public API (configuration), the benchmark's reports, test doubles (the tools they imitate are the
environment of `Dispatch`), `verify/gate.py` (it runs the equivalence relation over
many runs). Of modelled components: the pieces in which a served answer streams, and
speculation on it; the ledger's counts of reads, contexts and graded guesses; the
ceiling on speculative reads; LangGraph's probing of a graph and its sub-graphs; an
evicted journal writer apart from another process's. PROJECT.json gives every component's status.

## 8. Plan

Done: `Dispatch`, `Drive`, `Group`, `RunLock`, `Reads`, `Proxy`, `Turn` with `Hazards`,
`Driven` and `ServedTurns`, all with their proofs; `State`, `Budget`, `Ledger` and `Books`. What
comes next, the most useful first.

| | What | How |
|---|---|---|
| 1 | the pieces of a served stream, in `ServedTurns` | a turn handed over piece by piece, given up on between two |
| 2 | failing appends in `Turn` | what a turn, and `StoreBuffer.stage`, leave behind when the journal refuses an entry |
| 3 | `Books!GateFollowsTheRecord` | a module for the gate alone, which needs nothing of `State` and could be proved about |

## 9. Running it

    tlc -workers 2 -config MCDispatch.cfg MCDispatch
    tlc -workers 2 -config MCTurn.cfg MCTurn          # and so on: one MC module, one cfg
    tlc -workers 2 -config MCTurnLive.cfg MCTurn
    tlc -workers 2 -config MCReadsEach.cfg MCReads    # expected to report a violation
    tlapm DispatchProofs.tla
    tlapm DriveProofs.tla
    tlapm GroupProofs.tla
    tlapm DecisionProofs.tla                          # about ten minutes
    tlapm ProxyProofs.tla
    tlapm RunLockProofs.tla
    tlapm TurnProofs.tla                              # a few minutes
    tlapm DrivenProofs.tla
