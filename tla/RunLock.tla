------------------------------- MODULE RunLock -------------------------------
(***************************************************************************)
(* Who drives a run: Journal.hold_run and hold_run_async, the lock that    *)
(* may go with its connection (a Postgres journal's; a lock file's cannot, *)
(* which is Losses = 0), and what a driver may still do once it has gone - *)
(* send a write, or append to the journal through its process's writer,    *)
(* which remembers the chain's head and knows nothing of other processes.  *)
(*                                                                         *)
(* A driver is one Scheduler: it asks for the run once, in a thread, and   *)
(* may be cancelled at any await.  Of its drive only the appends, the      *)
(* sends and the ending are here; `specunode resolve`, which holds the     *)
(* run to write one entry, is a driver that makes one append.  To the      *)
(* chain, a writer evicted by evict_writer while it still has appends to   *)
(* make, and the one that replaces it, are the writers of two processes.   *)
(***************************************************************************)
EXTENDS Integers, FiniteSets, Sequences

CONSTANTS Drivers,
          Processes,
          Home,        \* the process of each driver
          MaxEntries,  \* bounds: claims and appends before the last,
          Losses,      \*   connections that are lost,
          Failures,    \*   and appends that fail
          None

ASSUME RunLockAssumption ==
  /\ Home \in [Drivers -> Processes]
  /\ {MaxEntries, Losses, Failures} \subseteq Nat
  /\ None \notin Drivers

VARIABLES
  registered,  \* _held_runs: whether a process counts the run as driven
  lock,        \* the driver whose connection holds the run's lock
  lost,        \* drivers whose connection went while it did
  taking,      \* the thread that takes the run for each driver
  pc,          \* each driver
  live,        \* drivers whose drive is not over (Drive.over)
  late,        \* how often a driver sent after its lock had gone (2: or more)
  wrote, failed, \* counted for the bounds
  queue,       \* entries handed to the thread of each process's writer
  head,        \* _JournalWriter._head: the entry a writer saw last, or none
  disk         \* the run's entries

holding == <<registered, lock, lost, taking>>
journal == <<queue, head, disk>>
bounds == <<wrote, failed>>
vars == <<registered, lock, lost, taking, pc, live, late, wrote, failed, queue,
          head, disk>>

Init ==
  /\ registered = [p \in Processes |-> FALSE]
  /\ lock = None /\ lost = {}
  /\ taking = [t \in Drivers |-> "none"]
  /\ pc = [t \in Drivers |-> "idle"]
  /\ live = {}
  /\ late = [t \in Drivers |-> 0]
  /\ wrote = 0 /\ failed = 0
  /\ queue = [p \in Processes |-> <<>>] /\ head = [p \in Processes |-> <<>>]
  /\ disk = {}

Goes(t, to) == pc' = [pc EXCEPT ![t] = to]

(***************************************************************************)
(* Taking the run, and giving it back.                                     *)
(***************************************************************************)

\* hold_run_async: the thread is started, and its caller waits for it.
Ask(t) ==
  /\ pc[t] = "idle"
  /\ Goes(t, "asking")
  /\ taking' = [taking EXCEPT ![t] = "register"]
  /\ UNCHANGED <<registered, lock, lost, live, late, bounds, journal>>

\* What a driver that finds the run registered does to the registry.  Defect: its
\* clean-up is that of one that registered it.
RefusedReleases(was) == FALSE
WhenRefused(was) == was

Register(t) ==
  LET p == Home[t]
  IN  /\ taking[t] = "register"
      /\ IF registered[p]
         THEN /\ taking' = [taking EXCEPT ![t] = "refused"]
              /\ registered' = [registered EXCEPT ![p] = WhenRefused(@)]
         ELSE /\ taking' = [taking EXCEPT ![t] = "lock"]
              /\ registered' = [registered EXCEPT ![p] = TRUE]
      /\ UNCHANGED <<lock, lost, pc, live, late, bounds, journal>>

TakeLock(t) ==
  /\ taking[t] = "lock"
  /\ lock = None
  /\ lock' = t
  /\ taking' = [taking EXCEPT ![t] = "taken"]
  /\ UNCHANGED <<registered, lost, pc, live, late, bounds, journal>>

\* Another process holds it, or the lock's connection or file cannot be opened.
MissLock(t) ==
  /\ taking[t] = "lock"
  /\ taking' = [taking EXCEPT ![t] = "refused"]
  /\ registered' = [registered EXCEPT ![Home[t]] = FALSE]
  /\ UNCHANGED <<lock, lost, pc, live, late, bounds, journal>>

Held(t) ==
  /\ pc[t] = "asking"
  /\ taking[t] = "taken"
  /\ Goes(t, "drive")
  /\ live' = live \cup {t}
  /\ UNCHANGED <<holding, late, bounds, journal>>

\* A refused driver is gone; one cancelled meanwhile gives back what it got.
Settled(t) ==
  /\ \/ pc[t] = "asking" /\ taking[t] = "refused"
     \/ pc[t] = "quitting" /\ taking[t] \in {"taken", "refused"}
  /\ IF taking[t] = "taken" THEN Goes(t, "giveBack") /\ UNCHANGED taking
     ELSE Goes(t, "gone") /\ taking' = [taking EXCEPT ![t] = "none"]
  /\ UNCHANGED <<registered, lock, lost, live, late, bounds, journal>>

\* Where a cancellation while the thread is at it leaves the caller: it lets the
\* attempt finish.  Defect: the cancellation goes straight through.
LeavesAtOnce == "gone"
AfterCancel == "quitting"

Driving == {"drive", "append", "claimed", "cleared", "finish", "last"}

Cancel(t) ==
  /\ pc[t] \in {"asking"} \cup Driving
  /\ Goes(t, IF pc[t] = "asking" THEN AfterCancel ELSE "leave")
  /\ UNCHANGED <<holding, live, late, bounds, journal>>

\* The lock goes first, then the registration, and with it the drive is over.
Unlock(t) ==
  /\ pc[t] \in {"leave", "giveBack"}
  /\ lock' = IF lock = t THEN None ELSE lock
  /\ Goes(t, "unlocked")
  /\ UNCHANGED <<registered, lost, taking, live, late, bounds, journal>>

Unregister(t) ==
  /\ pc[t] = "unlocked"
  /\ registered' = [registered EXCEPT ![Home[t]] = FALSE]
  /\ taking' = [taking EXCEPT ![t] = "none"]
  /\ live' = live \ {t}
  /\ Goes(t, "gone")
  /\ UNCHANGED <<lock, lost, late, bounds, journal>>

\* A restart of the server, a failover, a dropped connection.
LoseLock ==
  /\ lock # None
  /\ Cardinality(lost) < Losses
  /\ lost' = lost \cup {lock}
  /\ lock' = None
  /\ UNCHANGED <<registered, taking, pc, live, late, bounds, journal>>

(***************************************************************************)
(* The drive: claims, attempts, appends, and its end.                      *)
(***************************************************************************)

\* Journal.check_run_lock: the connection is asked if it is still there.
StillHeld(t) == t \notin lost

\* Before a claim; a refusal is a fault of the run, which goes on to finish it.
Claim(t) ==
  /\ pc[t] = "drive"
  /\ wrote < MaxEntries
  /\ wrote' = wrote + 1
  /\ Goes(t, IF StillHeld(t) THEN "claimed" ELSE "finish")
  /\ UNCHANGED <<holding, live, late, failed, journal>>

\* Before every attempt.  Defect: the check before the claim is taken to do.
CheckedForTheClaim(t) == TRUE
MayAttempt(t) == StillHeld(t)

BeforeAttempt(t) ==
  /\ pc[t] = "claimed"
  /\ Goes(t, IF MayAttempt(t) THEN "cleared" ELSE "finish")
  /\ UNCHANGED <<holding, live, late, bounds, journal>>

Submit(t, what) ==
  queue' = [queue EXCEPT ![Home[t]] = Append(@, [by |-> t, what |-> what])]

\* The request goes out.  Its outcome is settled: an entry, and the claim's row in
\* the same transaction.  Or it failed, and another attempt is made.
Send(t) ==
  /\ pc[t] = "cleared"
  /\ late' = [late EXCEPT ![t] = IF t \in lost /\ @ < 2 THEN @ + 1 ELSE @]
  /\ \/ Submit(t, "entry") /\ Goes(t, "append")
     \/ Goes(t, "claimed") /\ UNCHANGED queue
  /\ UNCHANGED <<holding, live, bounds, head, disk>>

\* Any other entry of the drive.
AppendEntry(t) ==
  /\ pc[t] = "drive"
  /\ wrote < MaxEntries
  /\ wrote' = wrote + 1
  /\ Submit(t, "entry")
  /\ Goes(t, "append")
  /\ UNCHANGED <<holding, live, late, failed, head, disk>>

\* A task of the run that no one waits for - a turn its node left running, a body
\* that does not stop - appends too, unless the drive is over.
Beside(t) ==
  /\ t \in live /\ pc[t] # "unlocked"
  /\ wrote < MaxEntries
  /\ wrote' = wrote + 1
  /\ Submit(t, "beside")
  /\ UNCHANGED <<holding, pc, live, late, failed, head, disk>>

End(t) ==
  /\ pc[t] = "drive"
  /\ Goes(t, "finish")
  /\ UNCHANGED <<holding, live, late, bounds, journal>>

\* _journal_run_finished: the drive is over before its last entry is handed over.
\* Defect: it is over once the run is let go.
OverOnceLetGo(t) == live
OverNow(t) == live \ {t}

Finish(t) ==
  /\ pc[t] = "finish"
  /\ IF StillHeld(t)
     THEN /\ live' = OverNow(t)
          /\ Submit(t, "finished")
          /\ Goes(t, "last")
     ELSE UNCHANGED <<live, queue>> /\ Goes(t, "leave")
  /\ UNCHANGED <<holding, late, bounds, head, disk>>

(***************************************************************************)
(* The journal read, and its chain verified.                               *)
(***************************************************************************)

Link(e) == [at |-> e.at, by |-> e.by, what |-> e.what]

\* Journal.verify_chain: the entries, in the order of their offsets, that have an
\* offset missing before them or taken twice, or are not linked to the one before.
Follows(e) ==
  IF e.at = 0 THEN e.prev = <<>>
  ELSE \E d \in disk : d.at = e.at - 1 /\ e.prev = <<Link(d)>>
Breaks == {e \in disk : ~Follows(e) \/ \E d \in disk \ {e} : d.at = e.at}

(***************************************************************************)
(* The writers: _JournalWriter._append, and _settle, which appends and     *)
(* updates a claim in one transaction.                                     *)
(***************************************************************************)

\* The head a writer goes by: the one it remembers, or else the journal's.
Newest == CHOOSE d \in disk : \A e \in disk : e.at <= d.at
Seen(p) ==
  IF head[p] # <<>> THEN head[p]
  ELSE IF disk = {} THEN <<>> ELSE <<Link(Newest)>>

Entry(p) ==
  LET job == Head(queue[p])
      seen == Seen(p)
  IN  [at |-> IF seen = <<>> THEN 0 ELSE seen[1].at + 1,
       by |-> job.by, what |-> job.what, prev |-> seen]

\* The table has one entry at an offset.
Taken(e) == \E d \in disk : d.at = e.at

\* The append returns, or raises, to the driver if it still waits for it.
Return(p, ok) ==
  LET job == Head(queue[p])
  IN  /\ queue' = [queue EXCEPT ![p] = Tail(@)]
      /\ pc' = [pc EXCEPT ![job.by] =
           IF @ = "append" /\ job.what = "entry"
           THEN IF ok THEN "drive" ELSE "finish"
           ELSE IF @ = "last" /\ job.what = "finished" THEN "leave" ELSE @]

\* What the writer remembers after an append that raised.  Defect: the head was
\* moved on before the insert, and stays.
MovedOn(e) == <<Link(e)>>
Forgotten(e) == <<>>

\* An insert and its commit: durable when it returns.  One that raised anything
\* but the key's conflict may have been committed all the same.
Commit(e) == disk' = disk \cup {e}
EitherWay(e) == UNCHANGED disk \/ Commit(e)

Write(p) ==
  /\ queue[p] # <<>>
  /\ ~Taken(Entry(p))
  /\ Commit(Entry(p))
  /\ head' = [head EXCEPT ![p] = <<Link(Entry(p))>>]
  /\ Return(p, TRUE)
  /\ UNCHANGED <<holding, live, late, bounds>>

\* JournalConcurrencyError: another process has appended since.
Conflict(p) ==
  /\ queue[p] # <<>>
  /\ Taken(Entry(p))
  /\ head' = [head EXCEPT ![p] = Forgotten(Entry(p))]
  /\ Return(p, FALSE)
  /\ UNCHANGED <<holding, live, late, bounds, disk>>

\* JournalBusy, or JournalWriteError: the entry is there or it is not.
FailedWrite(p) ==
  /\ queue[p] # <<>>
  /\ ~Taken(Entry(p))
  /\ failed < Failures
  /\ failed' = failed + 1
  /\ EitherWay(Entry(p))
  /\ head' = [head EXCEPT ![p] = Forgotten(Entry(p))]
  /\ Return(p, FALSE)
  /\ UNCHANGED <<holding, live, late, wrote>>

\* The process dies: its locks go with it, and what its writers had not written.
Crash(p) ==
  LET its == {t \in Drivers : Home[t] = p}
  IN  /\ \E t \in its : pc[t] \notin {"idle", "gone"}
      /\ pc' = [t \in Drivers |-> IF t \in its THEN "gone" ELSE pc[t]]
      /\ taking' = [t \in Drivers |-> IF t \in its THEN "none" ELSE taking[t]]
      /\ live' = live \ its
      /\ lock' = IF lock \in its THEN None ELSE lock
      /\ registered' = [registered EXCEPT ![p] = FALSE]
      /\ queue' = [queue EXCEPT ![p] = <<>>]
      /\ head' = [head EXCEPT ![p] = <<>>]
      /\ UNCHANGED <<lost, late, bounds, disk>>

Thread(t) == Register(t) \/ TakeLock(t) \/ MissLock(t)
Leaves(t) == Settled(t) \/ Unlock(t) \/ Unregister(t)
Works(t) ==
  \/ Held(t) \/ Claim(t) \/ BeforeAttempt(t) \/ Send(t)
  \/ AppendEntry(t) \/ Beside(t) \/ End(t) \/ Finish(t)
Writes(p) == Write(p) \/ Conflict(p) \/ FailedWrite(p)

Finished == (\A t \in Drivers : pc[t] = "gone") /\ UNCHANGED vars

Next ==
  \/ \E t \in Drivers : Ask(t) \/ Thread(t) \/ Leaves(t) \/ Cancel(t) \/ Works(t)
  \/ LoseLock
  \/ \E p \in Processes : Writes(p) \/ Crash(p)
  \/ Finished

Spec == Init /\ [][Next]_vars

-----------------------------------------------------------------------------

Whats == {"entry", "beside", "finished"}
Jobs == [by : Drivers, what : Whats]
Links == [at : Nat, by : Drivers, what : Whats]
Places == Driving \cup {"idle", "asking", "quitting", "leave", "giveBack",
                        "unlocked", "gone"}

TypeOK ==
  /\ registered \in [Processes -> BOOLEAN]
  /\ lock \in Drivers \cup {None} /\ lost \subseteq Drivers
  /\ taking \in [Drivers -> {"none", "register", "lock", "taken", "refused"}]
  /\ pc \in [Drivers -> Places]
  /\ live \subseteq Drivers
  /\ late \in [Drivers -> 0 .. 2]
  /\ wrote \in 0 .. MaxEntries /\ failed \in 0 .. Failures
  /\ queue \in [Processes -> Seq(Jobs)]
  /\ head \in [Processes -> Seq(Links)]
  /\ \A p \in Processes : Len(head[p]) <= 1
  /\ \A e \in disk : Link(e) \in Links

\* A run is registered in a process exactly while one of its drivers takes, holds
\* or gives back the run, and neither it nor the lock is left with a driver that is
\* gone, however drivers of one process refuse, miss, cancel and crash around each
\* other.  Two drive at once only if one of them has lost its lock.
Has(t) == taking[t] \in {"lock", "taken"}
OneHolder ==
  /\ \A p \in Processes :
       LET holders == {t \in Drivers : Home[t] = p /\ Has(t)}
       IN  Cardinality(holders) = IF registered[p] THEN 1 ELSE 0
  /\ \A t \in Drivers : pc[t] = "gone" => ~Has(t)
  /\ lock # None => taking[lock] = "taken" /\ pc[lock] # "unlocked"
  /\ \A t, u \in Drivers :
       t # u /\ pc[t] \in Driving /\ pc[u] \in Driving => t \in lost \/ u \in lost

\* A driver whose lock has gone sends at most once more: the request it had been
\* cleared for when the lock went.
OneLateSend == \A t \in Drivers : late[t] <= 1

\* The journal verifies (verify_chain) at every moment - offsets dense, each entry
\* linked to the one before it - whatever appends fail and whoever else writes; and
\* what a writer remembers as the head is on disk.
ChainIsWhole ==
  /\ Breaks = {}
  /\ \A p \in Processes : head[p] # <<>> => \E d \in disk : head[p] = <<Link(d)>>

\* A driver's run_finished is its last entry: nothing its stray tasks write comes
\* after it, or into a later drive of the run.
FinishedIsLast ==
  \A e, d \in disk : d.what = "finished" /\ e.by = d.by => e.at <= d.at
=============================================================================
