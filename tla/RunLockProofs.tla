---------------------------- MODULE RunLockProofs ----------------------------
(***************************************************************************)
(* Who has a run, proved for any number of drivers and processes, losses   *)
(* of a connection, failing appends and crashes: the registry and the lock *)
(* are never left with nobody, two drivers drive at once only if one has   *)
(* lost its lock, and that one sends at most once more.                    *)
(***************************************************************************)
EXTENDS RunLock, SequenceTheorems, FiniteSetTheorems, TLAPS

USE RunLockAssumption

Attempts == {"none", "register", "lock", "taken", "refused"}

\* The part of TypeOK that is about holding a run.
HoldingTypes ==
  /\ registered \in [Processes -> BOOLEAN]
  /\ lock \in Drivers \cup {None} /\ lost \subseteq Drivers
  /\ taking \in [Drivers -> Attempts]
  /\ pc \in [Drivers -> Places]
  /\ late \in [Drivers -> Nat]

\* How far the thread of a driver is, by where the driver is: one that drives or
\* gives back has the run, one that is gone has left no thread behind.
Attempting ==
  \A t \in Drivers :
    CASE pc[t] \in {"idle", "gone"} -> taking[t] = "none"
      [] pc[t] \in {"asking", "quitting"} -> taking[t] # "none"
      [] OTHER -> taking[t] = "taken"

\* Of the drivers of a process one has its registration, and it is there to be had.
OneRegistered ==
  /\ \A t \in Drivers : Has(t) => registered[Home[t]]
  /\ \A p \in Processes : registered[p] => \E t \in Drivers : Home[t] = p /\ Has(t)
  /\ \A t, u \in Drivers : Has(t) /\ Has(u) /\ Home[t] = Home[u] => t = u

\* The lock is with a driver that took it and has not let it go; such a driver has
\* it, or it went with its connection.
LockKnown ==
  \A t \in Drivers :
    /\ lock = t => taking[t] = "taken" /\ pc[t] # "unlocked"
    /\ taking[t] = "taken" /\ pc[t] # "unlocked" => lock = t \/ t \in lost

\* A driver sends after its lock has gone at most once, and is then not cleared again.
LateOnce ==
  \A t \in Drivers :
    /\ late[t] <= 1
    /\ pc[t] = "cleared" => late[t] = 0
    /\ late[t] # 0 => t \in lost

HoldingInv == HoldingTypes /\ Attempting /\ OneRegistered /\ LockKnown /\ LateOnce

LEMMA InitiallyHolding == Init => HoldingInv
BY DEF Init, HoldingInv, HoldingTypes, Attempting, OneRegistered, LockKnown, LateOnce, Has,
       Attempts, Places

\* Where a driver is and what its thread is at keep their types.
LEMMA Moves ==
  ASSUME HoldingTypes, NEW t \in Drivers
  PROVE  /\ \A to \in Places : [pc EXCEPT ![t] = to] \in [Drivers -> Places]
         /\ \A to \in Attempts : [taking EXCEPT ![t] = to] \in [Drivers -> Attempts]
         /\ \A b \in BOOLEAN :
              [registered EXCEPT ![Home[t]] = b] \in [Processes -> BOOLEAN]
BY DEF HoldingTypes

(***************************************************************************)
(* Taking the run, and giving it back.                                     *)
(***************************************************************************)

LEMMA AskKeeps ==
  ASSUME HoldingInv, NEW t \in Drivers, Ask(t)
  PROVE  HoldingInv'
<1>1. /\ pc[t] = "idle" /\ taking[t] = "none"
      /\ pc' = [pc EXCEPT ![t] = "asking"] /\ taking' = [taking EXCEPT ![t] = "register"]
      /\ UNCHANGED <<registered, lock, lost, late>>
  BY DEF Ask, Goes, HoldingInv, Attempting
<1>2. HoldingTypes'
  BY <1>1 DEF HoldingInv, HoldingTypes, Attempts, Places
<1>3. Attempting' /\ LockKnown' /\ LateOnce'
  BY <1>1 DEF HoldingInv, HoldingTypes, Attempting, LockKnown, LateOnce
<1>4. OneRegistered'
  BY <1>1 DEF HoldingInv, HoldingTypes, OneRegistered, Has
<1> QED
  BY <1>2, <1>3, <1>4 DEF HoldingInv

\* The registry goes to the first that asks.
LEMMA RegisterKeeps ==
  ASSUME HoldingInv, NEW t \in Drivers, Register(t)
  PROVE  HoldingInv'
<1>1. /\ taking[t] = "register" /\ pc[t] \in {"asking", "quitting"}
      /\ UNCHANGED <<pc, lock, lost, late>>
  BY DEF Register, HoldingInv, HoldingTypes, Attempting
<1>2. CASE registered[Home[t]]
  <2>1. /\ taking' = [taking EXCEPT ![t] = "refused"]
        /\ registered' = [registered EXCEPT ![Home[t]] = @]
    BY <1>2 DEF Register, WhenRefused
  <2>2. registered' = registered
    BY <2>1 DEF HoldingInv, HoldingTypes
  <2>3. HoldingTypes'
    BY <1>1, <2>1, <2>2 DEF HoldingInv, HoldingTypes, Attempts
  <2>4. Attempting' /\ LockKnown' /\ LateOnce'
    BY <1>1, <2>1 DEF HoldingInv, HoldingTypes, Attempting, LockKnown, LateOnce
  <2>5. OneRegistered'
    BY <1>1, <2>1, <2>2 DEF HoldingInv, HoldingTypes, OneRegistered, Has
  <2> QED
    BY <2>3, <2>4, <2>5 DEF HoldingInv
<1>3. CASE ~registered[Home[t]]
  <2>1. /\ taking' = [taking EXCEPT ![t] = "lock"]
        /\ registered' = [registered EXCEPT ![Home[t]] = TRUE]
    BY <1>3 DEF Register
  <2>2. HoldingTypes'
    BY <1>1, <2>1 DEF HoldingInv, HoldingTypes, Attempts
  <2>3. Attempting' /\ LockKnown' /\ LateOnce'
    BY <1>1, <2>1 DEF HoldingInv, HoldingTypes, Attempting, LockKnown, LateOnce
  <2>4. OneRegistered'
    BY <1>1, <1>3, <2>1 DEF HoldingInv, HoldingTypes, OneRegistered, Has
  <2> QED
    BY <2>2, <2>3, <2>4 DEF HoldingInv
<1> QED
  BY <1>2, <1>3

LEMMA TakeLockKeeps ==
  ASSUME HoldingInv, NEW t \in Drivers, TakeLock(t)
  PROVE  HoldingInv'
<1>1. /\ taking[t] = "lock" /\ pc[t] \in {"asking", "quitting"}
      /\ lock = None /\ lock' = t /\ taking' = [taking EXCEPT ![t] = "taken"]
      /\ UNCHANGED <<registered, lost, pc, late>>
  BY DEF TakeLock, HoldingInv, HoldingTypes, Attempting
<1>2. HoldingTypes'
  BY <1>1 DEF HoldingInv, HoldingTypes, Attempts
<1>3. Attempting' /\ LockKnown' /\ LateOnce'
  BY <1>1 DEF HoldingInv, HoldingTypes, Attempting, LockKnown, LateOnce
<1>4. OneRegistered'
  BY <1>1 DEF HoldingInv, HoldingTypes, OneRegistered, Has
<1> QED
  BY <1>2, <1>3, <1>4 DEF HoldingInv

\* The registration goes with the attempt, and no other driver had it.
LEMMA MissLockKeeps ==
  ASSUME HoldingInv, NEW t \in Drivers, MissLock(t)
  PROVE  HoldingInv'
<1>1. /\ taking[t] = "lock" /\ pc[t] \in {"asking", "quitting"}
      /\ taking' = [taking EXCEPT ![t] = "refused"]
      /\ registered' = [registered EXCEPT ![Home[t]] = FALSE]
      /\ UNCHANGED <<lock, lost, pc, late>>
  BY DEF MissLock, HoldingInv, HoldingTypes, Attempting
<1>2. HoldingTypes'
  BY <1>1 DEF HoldingInv, HoldingTypes, Attempts
<1>3. Attempting' /\ LockKnown' /\ LateOnce'
  BY <1>1 DEF HoldingInv, HoldingTypes, Attempting, LockKnown, LateOnce
<1>4. OneRegistered'
  BY <1>1 DEF HoldingInv, HoldingTypes, OneRegistered, Has
<1> QED
  BY <1>2, <1>3, <1>4 DEF HoldingInv

LEMMA SettledKeeps ==
  ASSUME HoldingInv, NEW t \in Drivers, Settled(t)
  PROVE  HoldingInv'
<1>1. /\ pc[t] \in {"asking", "quitting"} /\ taking[t] \in {"taken", "refused"}
      /\ UNCHANGED <<registered, lock, lost, late>>
  BY DEF Settled
<1>2. CASE taking[t] = "taken"
  <2>1. pc' = [pc EXCEPT ![t] = "giveBack"] /\ taking' = taking
    BY <1>2 DEF Settled, Goes
  <2>2. HoldingTypes'
    BY <1>1, <2>1 DEF HoldingInv, HoldingTypes, Places
  <2>3. Attempting' /\ LockKnown' /\ LateOnce' /\ OneRegistered'
    BY <1>1, <1>2, <2>1 DEF HoldingInv, HoldingTypes, Attempting, LockKnown, LateOnce,
                            OneRegistered, Has
  <2> QED
    BY <2>2, <2>3 DEF HoldingInv
<1>3. CASE taking[t] # "taken"
  <2>1. /\ pc' = [pc EXCEPT ![t] = "gone"] /\ taking' = [taking EXCEPT ![t] = "none"]
        /\ taking[t] = "refused"
    BY <1>1, <1>3 DEF Settled, Goes
  <2>2. HoldingTypes'
    BY <1>1, <2>1 DEF HoldingInv, HoldingTypes, Places, Attempts
  <2>3. Attempting' /\ LockKnown' /\ LateOnce'
    BY <1>1, <2>1 DEF HoldingInv, HoldingTypes, Attempting, LockKnown, LateOnce
  <2>4. OneRegistered'
    BY <1>1, <2>1 DEF HoldingInv, HoldingTypes, OneRegistered, Has
  <2> QED
    BY <2>2, <2>3, <2>4 DEF HoldingInv
<1> QED
  BY <1>2, <1>3

LEMMA UnlockKeeps ==
  ASSUME HoldingInv, NEW t \in Drivers, Unlock(t)
  PROVE  HoldingInv'
<1>1. /\ pc[t] \in {"leave", "giveBack"} /\ taking[t] = "taken"
      /\ lock' = (IF lock = t THEN None ELSE lock) /\ pc' = [pc EXCEPT ![t] = "unlocked"]
      /\ UNCHANGED <<registered, lost, taking, late>>
  BY DEF Unlock, Goes, HoldingInv, Attempting, HoldingTypes, Driving
<1>2. HoldingTypes'
  BY <1>1 DEF HoldingInv, HoldingTypes, Places
<1>3. Attempting' /\ LockKnown' /\ LateOnce' /\ OneRegistered'
  BY <1>1 DEF HoldingInv, HoldingTypes, Attempting, LockKnown, LateOnce, OneRegistered, Has
<1> QED
  BY <1>2, <1>3 DEF HoldingInv

LEMMA UnregisterKeeps ==
  ASSUME HoldingInv, NEW t \in Drivers, Unregister(t)
  PROVE  HoldingInv'
<1>1. /\ pc[t] = "unlocked" /\ taking[t] = "taken"
      /\ registered' = [registered EXCEPT ![Home[t]] = FALSE]
      /\ taking' = [taking EXCEPT ![t] = "none"] /\ pc' = [pc EXCEPT ![t] = "gone"]
      /\ UNCHANGED <<lock, lost, late>>
  BY DEF Unregister, Goes, HoldingInv, Attempting, HoldingTypes
<1>2. HoldingTypes'
  BY <1>1 DEF HoldingInv, HoldingTypes, Places, Attempts
<1>3. Attempting' /\ LockKnown' /\ LateOnce'
  BY <1>1 DEF HoldingInv, HoldingTypes, Attempting, LockKnown, LateOnce
<1>4. OneRegistered'
  BY <1>1 DEF HoldingInv, HoldingTypes, OneRegistered, Has
<1> QED
  BY <1>2, <1>3, <1>4 DEF HoldingInv

LEMMA LoseLockKeeps ==
  ASSUME HoldingInv, LoseLock
  PROVE  HoldingInv'
<1>1. /\ lock \in Drivers /\ lost' = lost \cup {lock} /\ lock' = None
      /\ UNCHANGED <<registered, taking, pc, late>>
  BY DEF LoseLock, HoldingInv, HoldingTypes
<1>2. HoldingTypes'
  BY <1>1 DEF HoldingInv, HoldingTypes
<1>3. Attempting' /\ LockKnown' /\ LateOnce' /\ OneRegistered'
  BY <1>1 DEF HoldingInv, HoldingTypes, Attempting, LockKnown, LateOnce, OneRegistered, Has
<1> QED
  BY <1>2, <1>3 DEF HoldingInv

(***************************************************************************)
(* The drive.  Most of it moves one driver from place to place, with what  *)
(* it holds untouched.                                                     *)
(***************************************************************************)

\* A driver may go where its thread may be where it is, as long as it does not get
\* cleared for a send after its lock went.
LEMMA Stroll ==
  ASSUME HoldingInv, NEW t \in Drivers, NEW to \in Places,
         UNCHANGED <<registered, lock, lost, taking, late>>,
         pc' = [pc EXCEPT ![t] = to],
         to \notin {"idle", "gone", "unlocked"}, pc[t] # "unlocked",
         to \in {"asking", "quitting"} => taking[t] # "none",
         to \notin {"asking", "quitting"} => taking[t] = "taken",
         to = "cleared" => t \notin lost
  PROVE  HoldingInv'
<1>1. HoldingTypes'
  BY DEF HoldingInv, HoldingTypes
<1>2. Attempting' /\ LockKnown' /\ OneRegistered'
  BY DEF HoldingInv, HoldingTypes, Attempting, LockKnown, OneRegistered, Has
<1>3. LateOnce'
  BY DEF HoldingInv, HoldingTypes, LateOnce
<1> QED
  BY <1>1, <1>2, <1>3 DEF HoldingInv

\* Nothing a driver or the lock is concerned with changes.
LEMMA Elsewhere ==
  ASSUME HoldingInv, UNCHANGED <<registered, lock, lost, taking, pc, late>>
  PROVE  HoldingInv'
BY DEF HoldingInv, HoldingTypes, Attempting, LockKnown, OneRegistered, LateOnce, Has

LEMMA CancelKeeps ==
  ASSUME HoldingInv, NEW t \in Drivers, Cancel(t)
  PROVE  HoldingInv'
<1> DEFINE to == IF pc[t] = "asking" THEN "quitting" ELSE "leave"
<1>1. /\ pc' = [pc EXCEPT ![t] = to] /\ to \in Places
      /\ UNCHANGED <<registered, lock, lost, taking, late>>
      /\ pc[t] \in {"asking"} \cup Driving
  BY DEF Cancel, Goes, AfterCancel, holding, Places
<1>2. /\ pc[t] = "asking" => taking[t] # "none"
      /\ pc[t] # "asking" => taking[t] = "taken"
      /\ pc[t] # "unlocked"
  BY <1>1 DEF HoldingInv, HoldingTypes, Attempting, Driving
<1> QED
  BY <1>1, <1>2, Stroll

\* Of an attempt only one that is cleared sends, and is cleared with its lock there.
LEMMA WorksKeeps ==
  ASSUME HoldingInv, NEW t \in Drivers, Works(t)
  PROVE  HoldingInv'
<1> USE DEF holding, bounds, Goes
<1>0. pc[t] \in Driving => taking[t] = "taken" /\ pc[t] # "unlocked"
  BY DEF HoldingInv, HoldingTypes, Attempting, Driving
<1>1. CASE Held(t)
  <2>1. pc' = [pc EXCEPT ![t] = "drive"] /\ "drive" \in Places /\ taking[t] = "taken"
        /\ pc[t] = "asking" /\ UNCHANGED <<registered, lock, lost, taking, late>>
    BY <1>1 DEF Held, Places, Driving
  <2> QED
    BY <2>1, Stroll
<1>2. CASE Claim(t)
  <2> DEFINE to == IF StillHeld(t) THEN "claimed" ELSE "finish"
  <2>1. pc' = [pc EXCEPT ![t] = to] /\ to \in Places /\ pc[t] \in Driving
        /\ UNCHANGED <<registered, lock, lost, taking, late>>
    BY <1>2 DEF Claim, Places, Driving
  <2> QED
    BY <1>0, <2>1, Stroll
<1>3. CASE BeforeAttempt(t)
  <2> DEFINE to == IF t \notin lost THEN "cleared" ELSE "finish"
  <2>1. pc' = [pc EXCEPT ![t] = to] /\ to \in Places /\ pc[t] \in Driving
        /\ UNCHANGED <<registered, lock, lost, taking, late>>
    BY <1>3 DEF BeforeAttempt, MayAttempt, StillHeld, Places, Driving
  <2> QED
    BY <1>0, <2>1, Stroll
<1>4. CASE Send(t)
  <2>1. /\ pc[t] = "cleared" /\ taking[t] = "taken" /\ late[t] = 0
        /\ UNCHANGED <<registered, lock, lost, taking>>
        /\ \E to \in {"append", "claimed"} : pc' = [pc EXCEPT ![t] = to]
        /\ late' = [late EXCEPT ![t] = IF t \in lost /\ @ < 2 THEN @ + 1 ELSE @]
    BY <1>0, <1>4 DEF Send, Submit, Driving, HoldingInv, LateOnce
  <2>2. late' = [late EXCEPT ![t] = IF t \in lost THEN 1 ELSE 0]
    BY <2>1 DEF HoldingInv, HoldingTypes
  <2>3. HoldingTypes'
    BY <2>1, <2>2 DEF HoldingInv, HoldingTypes, Places, Driving
  <2>4. Attempting' /\ LockKnown' /\ OneRegistered'
    BY <2>1 DEF HoldingInv, HoldingTypes, Attempting, LockKnown, OneRegistered, Has
  <2>5. LateOnce'
    BY <2>1, <2>2 DEF HoldingInv, HoldingTypes, LateOnce
  <2> QED
    BY <2>3, <2>4, <2>5 DEF HoldingInv
<1>5. CASE AppendEntry(t)
  <2>1. pc' = [pc EXCEPT ![t] = "append"] /\ "append" \in Places /\ pc[t] \in Driving
        /\ UNCHANGED <<registered, lock, lost, taking, late>>
    BY <1>5 DEF AppendEntry, Places, Driving
  <2> QED
    BY <1>0, <2>1, Stroll
<1>6. CASE Beside(t)
  BY <1>6, Elsewhere DEF Beside
<1>7. CASE End(t)
  <2>1. pc' = [pc EXCEPT ![t] = "finish"] /\ "finish" \in Places /\ pc[t] \in Driving
        /\ UNCHANGED <<registered, lock, lost, taking, late>>
    BY <1>7 DEF End, Places, Driving
  <2> QED
    BY <1>0, <2>1, Stroll
<1>8. CASE Finish(t)
  <2> DEFINE to == IF StillHeld(t) THEN "last" ELSE "leave"
  <2>1. pc' = [pc EXCEPT ![t] = to] /\ to \in Places /\ pc[t] \in Driving
        /\ UNCHANGED <<registered, lock, lost, taking, late>>
    BY <1>8 DEF Finish, Places, Driving
  <2> QED
    BY <1>0, <2>1, Stroll
<1> QED
  BY <1>1, <1>2, <1>3, <1>4, <1>5, <1>6, <1>7, <1>8 DEF Works

\* An append that is over wakes the driver that waits for it.
LEMMA ReturnKeeps ==
  ASSUME HoldingInv, NEW p \in Processes, NEW ok \in BOOLEAN, Return(p, ok),
         UNCHANGED <<registered, lock, lost, taking, late>>
  PROVE  HoldingInv'
<1>1. PICK t, to : /\ pc' = [pc EXCEPT ![t] = to]
                   /\ \/ pc[t] = "append" /\ to \in {"drive", "finish"}
                      \/ pc[t] = "last" /\ to = "leave"
                      \/ to = pc[t]
  BY DEF Return
<1>2. CASE t \in Drivers /\ to # pc[t]
  <2>1. to \in Places /\ pc[t] # "unlocked" /\ taking[t] = "taken"
    BY <1>1, <1>2 DEF HoldingInv, HoldingTypes, Attempting, Places, Driving
  <2> QED
    BY <1>1, <1>2, <2>1, Stroll
<1>3. CASE ~(t \in Drivers /\ to # pc[t])
  <2>1. pc' = pc
    BY <1>1, <1>3 DEF HoldingInv, HoldingTypes
  <2> QED
    BY <2>1, Elsewhere
<1> QED
  BY <1>2, <1>3

LEMMA WritesKeeps ==
  ASSUME HoldingInv, NEW p \in Processes, Writes(p)
  PROVE  HoldingInv'
BY ReturnKeeps DEF Writes, Write, Conflict, FailedWrite, holding, bounds

\* What a process's drivers had goes with it.
LEMMA CrashKeeps ==
  ASSUME HoldingInv, NEW p \in Processes, Crash(p)
  PROVE  HoldingInv'
<1> DEFINE its == {t \in Drivers : Home[t] = p}
<1>1. /\ pc' = [t \in Drivers |-> IF t \in its THEN "gone" ELSE pc[t]]
      /\ taking' = [t \in Drivers |-> IF t \in its THEN "none" ELSE taking[t]]
      /\ lock' = IF lock \in its THEN None ELSE lock
      /\ registered' = [registered EXCEPT ![p] = FALSE]
      /\ UNCHANGED <<lost, late>>
  BY DEF Crash
<1>2. HoldingTypes'
  BY <1>1 DEF HoldingInv, HoldingTypes, Places, Attempts
<1>3. Attempting' /\ LockKnown' /\ LateOnce'
  BY <1>1 DEF HoldingInv, HoldingTypes, Attempting, LockKnown, LateOnce
<1>4. OneRegistered'
  BY <1>1 DEF HoldingInv, HoldingTypes, OneRegistered, Has
<1> QED
  BY <1>2, <1>3, <1>4 DEF HoldingInv

LEMMA HoldingKept == HoldingInv /\ [Next]_vars => HoldingInv'
<1> SUFFICES ASSUME HoldingInv, [Next]_vars PROVE HoldingInv'
  OBVIOUS
<1>1. CASE UNCHANGED vars
  BY <1>1, Elsewhere DEF vars
<1>2. ASSUME NEW t \in Drivers, Ask(t) \/ Thread(t) \/ Leaves(t) \/ Cancel(t) \/ Works(t)
      PROVE  HoldingInv'
  BY <1>2, AskKeeps, RegisterKeeps, TakeLockKeeps, MissLockKeeps, SettledKeeps,
     UnlockKeeps, UnregisterKeeps, CancelKeeps, WorksKeeps DEF Thread, Leaves
<1>3. CASE LoseLock
  BY <1>3, LoseLockKeeps
<1>4. ASSUME NEW p \in Processes, Writes(p) \/ Crash(p)
      PROVE  HoldingInv'
  BY <1>4, WritesKeeps, CrashKeeps
<1>5. CASE Finished
  BY <1>1, <1>5 DEF Finished
<1> QED
  BY <1>1, <1>2, <1>3, <1>4, <1>5 DEF Next

\* The inductive invariant holds.
THEOREM HoldingInvariance == Spec => []HoldingInv
BY InitiallyHolding, HoldingKept, PTL DEF Spec

\* The registry of a process counts the run as driven exactly while one of its
\* drivers takes, has or gives it back; nobody who is gone has it or its lock; and
\* two drive at once only if one has lost its lock.
THEOREM OneDriver == Spec => []OneHolder
<1>1. HoldingInv => OneHolder
  <2> SUFFICES ASSUME HoldingInv PROVE OneHolder
    OBVIOUS
  <2>1. ASSUME NEW p \in Processes
        PROVE  Cardinality({t \in Drivers : Home[t] = p /\ Has(t)})
                 = IF registered[p] THEN 1 ELSE 0
    <3> DEFINE holders == {t \in Drivers : Home[t] = p /\ Has(t)}
    <3>1. CASE registered[p]
      <4>1. PICK t \in Drivers : Home[t] = p /\ Has(t)
        BY <3>1 DEF HoldingInv, OneRegistered
      <4>2. holders = {t}
        BY <4>1 DEF HoldingInv, OneRegistered
      <4> QED
        BY <3>1, <4>2, FS_Singleton
    <3>2. CASE ~registered[p]
      <4>1. holders = {}
        BY <3>2 DEF HoldingInv, OneRegistered
      <4> QED
        BY <3>2, <4>1, FS_EmptySet
    <3> QED
      BY <3>1, <3>2
  <2>2. \A t \in Drivers : pc[t] = "gone" => ~Has(t)
    BY DEF HoldingInv, HoldingTypes, Attempting, Has
  <2>3. lock # None => taking[lock] = "taken" /\ pc[lock] # "unlocked"
    BY DEF HoldingInv, HoldingTypes, LockKnown
  <2>4. \A t, u \in Drivers :
          t # u /\ pc[t] \in Driving /\ pc[u] \in Driving => t \in lost \/ u \in lost
    BY DEF HoldingInv, HoldingTypes, Attempting, LockKnown, Driving
  <2> QED
    BY <2>1, <2>2, <2>3, <2>4 DEF OneHolder
<1> QED
  BY <1>1, HoldingInvariance, PTL

\* However often connections are lost and attempts repeated, a driver whose lock has
\* gone makes at most the one request it had been cleared for.
THEOREM AtMostOneLateSend == Spec => []OneLateSend
<1>1. HoldingInv => OneLateSend
  BY DEF HoldingInv, LateOnce, OneLateSend
<1> QED
  BY <1>1, HoldingInvariance, PTL

(***************************************************************************)
(* The journal.                                                            *)
(***************************************************************************)

\* A drive is over once its last entry has been handed over, and not before.
LiveDrives ==
  \A t \in Drivers :
    /\ pc[t] \in Driving \ {"last"} => t \in live
    /\ t \in live => pc[t] \in (Driving \ {"last"}) \cup {"leave", "unlocked"}

\* A driver has ended when its run_finished is on disk, or on its way there: its drive
\* is over, and its writer has nothing more of it.
OnDisk(t) == \E d \in disk : d.by = t /\ d.what = "finished"
LastOf(t) == [by |-> t, what |-> "finished"]

Over ==
  \A t \in Drivers :
    OnDisk(t) \/ (\E p \in Processes : \E i \in DOMAIN queue[p] : queue[p][i] = LastOf(t)) =>
      t \notin live /\ pc[t] \in {"last", "leave", "unlocked", "gone"}

Queued ==
  \A p \in Processes :
    /\ \A i \in DOMAIN queue[p] : Home[queue[p][i].by] = p /\ ~OnDisk(queue[p][i].by)
    /\ \A i, j \in DOMAIN queue[p] :
         queue[p][i] = LastOf(queue[p][i].by) /\ queue[p][j].by = queue[p][i].by => j <= i

\* The offsets on disk have no gap, and no end but one.
Dense == \E n \in Nat : {e.at : e \in disk} = 0 .. n - 1

JournalTypes ==
  /\ live \subseteq Drivers
  /\ wrote \in 0 .. MaxEntries /\ failed \in 0 .. Failures
  /\ queue \in [Processes -> Seq(Jobs)]
  /\ head \in [Processes -> Seq(Links)]
  /\ \A p \in Processes : Len(head[p]) <= 1
  /\ \A e \in disk : Link(e) \in Links

JournalInv ==
  /\ JournalTypes
  /\ LiveDrives
  /\ Over
  /\ Queued
  /\ Dense
  /\ ChainIsWhole
  /\ FinishedIsLast

LEMMA InitiallyJournal == Init => JournalInv
<1> SUFFICES ASSUME Init PROVE JournalInv
  OBVIOUS
<1>1. JournalTypes
  BY DEF Init, JournalTypes
<1>2. LiveDrives /\ Over /\ Queued
  BY DEF Init, LiveDrives, Over, Queued, OnDisk, Driving
<1>3. Dense
  <2>1. {e.at : e \in disk} = 0 .. 0 - 1
    BY DEF Init
  <2> QED
    BY <2>1 DEF Dense
<1>4. ChainIsWhole /\ FinishedIsLast
  BY DEF Init, ChainIsWhole, FinishedIsLast, Breaks
<1> QED
  BY <1>1, <1>2, <1>3, <1>4 DEF JournalInv

OverPlaces == {"last", "leave", "unlocked", "gone"}

\* A driver moves, and the journal is as it was: a drive that is over stays over.
LEMMA Moving ==
  ASSUME HoldingInv, JournalInv, UNCHANGED journal,
         NEW t \in Drivers, NEW to, pc' = [pc EXCEPT ![t] = to],
         live' \in {live, live \cup {t}, live \ {t}},
         wrote' \in 0 .. MaxEntries, failed' = failed,
         to \in Driving \ {"last"} => t \in live',
         t \in live' => to \in (Driving \ {"last"}) \cup {"leave", "unlocked"},
         pc[t] \in OverPlaces /\ t \notin live => to \in OverPlaces /\ t \notin live'
  PROVE  JournalInv'
<1>1. UNCHANGED <<queue, head, disk>>
  BY DEF journal
<1>2. JournalTypes'
  <2>1. live' \subseteq Drivers
    BY DEF JournalInv, JournalTypes
  <2> QED
    BY <1>1, <2>1 DEF JournalInv, JournalTypes, Link
<1>3. \A u \in Drivers : pc'[u] = IF u = t THEN to ELSE pc[u]
  BY DEF HoldingInv, HoldingTypes
<1>4. LiveDrives'
  BY <1>3 DEF JournalInv, LiveDrives
<1>5. Over'
  BY <1>1, <1>3 DEF JournalInv, Over, OnDisk, LastOf, OverPlaces
<1>6. Queued' /\ Dense' /\ ChainIsWhole' /\ FinishedIsLast'
  BY <1>1 DEF JournalInv, Queued, OnDisk, LastOf, Dense, ChainIsWhole, FinishedIsLast,
              Breaks, Follows, Link
<1> QED
  BY <1>2, <1>4, <1>5, <1>6 DEF JournalInv

\* Neither a driver nor the journal.
LEMMA Untouched ==
  ASSUME JournalInv, UNCHANGED <<pc, live, wrote, failed, queue, head, disk>>
  PROVE  JournalInv'
<1>1. JournalTypes' /\ LiveDrives' /\ Over'
  BY DEF JournalInv, JournalTypes, LiveDrives, Over, OnDisk, LastOf, Link
<1>2. Queued' /\ Dense' /\ ChainIsWhole' /\ FinishedIsLast'
  BY DEF JournalInv, Queued, OnDisk, LastOf, Dense, ChainIsWhole, FinishedIsLast,
         Breaks, Follows, Link
<1> QED
  BY <1>1, <1>2 DEF JournalInv

\* A job is handed to its driver's writer, behind the rest.
LEMMA Submitted ==
  ASSUME JournalTypes, NEW t \in Drivers, NEW what \in Whats, Submit(t, what)
  PROVE  /\ queue' \in [Processes -> Seq(Jobs)]
         /\ \A q \in Processes \ {Home[t]} : queue'[q] = queue[q]
         /\ LET p == Home[t]
                n == Len(queue[p])
            IN  /\ n \in Nat
                /\ DOMAIN queue[p] = 1 .. n
                /\ DOMAIN queue'[p] = 1 .. n + 1
                /\ \A i \in 1 .. n : queue'[p][i] = queue[p][i]
                /\ queue'[p][n + 1] = [by |-> t, what |-> what]
<1> DEFINE p == Home[t]
           job == [by |-> t, what |-> what]
<1>1. p \in Processes /\ queue[p] \in Seq(Jobs) /\ job \in Jobs
  BY DEF JournalTypes, Jobs
<1>2. queue' = [queue EXCEPT ![p] = Append(queue[p], job)]
  BY <1>1 DEF Submit, JournalTypes
<1>3. /\ Append(queue[p], job) \in Seq(Jobs)
      /\ Len(queue[p]) \in Nat
      /\ DOMAIN queue[p] = 1 .. Len(queue[p])
      /\ DOMAIN Append(queue[p], job) = 1 .. Len(queue[p]) + 1
      /\ \A i \in 1 .. Len(queue[p]) : Append(queue[p], job)[i] = queue[p][i]
      /\ Append(queue[p], job)[Len(queue[p]) + 1] = job
  BY <1>1, AppendProperties, LenProperties
<1> HIDE DEF job
<1>4. /\ queue' \in [Processes -> Seq(Jobs)]
      /\ queue'[p] = Append(queue[p], job)
      /\ \A q \in Processes \ {p} : queue'[q] = queue[q]
  BY <1>1, <1>2, <1>3 DEF JournalTypes
<1> QED
  BY <1>3, <1>4 DEF job

\* A driver whose drive is not over hands over a job; with its run_finished it is over.
LEMMA SubmitKeeps ==
  ASSUME HoldingInv, HoldingInv', JournalInv,
         NEW t \in Drivers, NEW what \in Whats, Submit(t, what), t \in live,
         UNCHANGED <<failed, head, disk>>, wrote' \in 0 .. MaxEntries,
         live' = IF what = "finished" THEN live \ {t} ELSE live,
         \A u \in Drivers \ {t} : pc'[u] = pc[u],
         what = "finished" => pc'[t] = "last",
         what # "finished" => pc'[t] \in (Driving \ {"last"}) \cup {"leave", "unlocked"}
  PROVE  JournalInv'
<1> DEFINE p == Home[t]
           n == Len(queue[p])
<1>1. /\ p \in Processes /\ n \in Nat
      /\ queue' \in [Processes -> Seq(Jobs)]
      /\ \A q \in Processes \ {p} : queue'[q] = queue[q]
      /\ DOMAIN queue[p] = 1 .. n /\ DOMAIN queue'[p] = 1 .. n + 1
      /\ \A i \in 1 .. n : queue'[p][i] = queue[p][i]
      /\ queue'[p][n + 1].by = t /\ queue'[p][n + 1].what = what
      /\ queue'[p][n + 1] = [by |-> t, what |-> what]
  BY Submitted DEF JournalInv
<1>2. ~OnDisk(t) /\ \A q \in Processes : \A i \in DOMAIN queue[q] : queue[q][i] # LastOf(t)
  BY DEF JournalInv, Over
<1> HIDE DEF n, p
<1>3. JournalTypes'
  BY <1>1 DEF JournalInv, JournalTypes, Link
<1>4. LiveDrives'
  BY DEF JournalInv, LiveDrives
<1>5. \A u \in Drivers : OnDisk(u)' <=> OnDisk(u)
  BY DEF OnDisk
<1>6. ASSUME NEW u \in Drivers, NEW q \in Processes, NEW i \in DOMAIN queue'[q], queue'[q][i] = LastOf(u)
      PROVE  \/ i \in DOMAIN queue[q] /\ queue[q][i] = LastOf(u)
             \/ u = t /\ what = "finished" /\ q = p /\ i = n + 1
  <2>1. CASE q = p /\ i = n + 1
    BY <1>1, <1>6, <2>1 DEF LastOf
  <2>2. CASE ~(q = p /\ i = n + 1)
    BY <1>1, <1>6, <2>2
  <2> QED
    BY <2>1, <2>2
<1>7. Over'
  <2>1. ASSUME NEW u \in Drivers \ {t},
               OnDisk(u)' \/ (\E q \in Processes : \E i \in DOMAIN queue'[q] : queue'[q][i] = LastOf(u))
        PROVE  u \notin live' /\ pc'[u] \in {"last", "leave", "unlocked", "gone"}
    <3>1. OnDisk(u) \/ \E q \in Processes : \E i \in DOMAIN queue[q] : queue[q][i] = LastOf(u)
      BY <1>5, <1>6, <2>1
    <3> QED
      BY <3>1 DEF JournalInv, Over
  <2>2. ASSUME OnDisk(t)' \/ (\E q \in Processes : \E i \in DOMAIN queue'[q] : queue'[q][i] = LastOf(t))
        PROVE  t \notin live' /\ pc'[t] \in {"last", "leave", "unlocked", "gone"}
    BY <1>2, <1>5, <1>6, <2>2
  <2> QED
    BY <2>1, <2>2 DEF Over
<1>8. Queued'
  <2>1. ASSUME NEW q \in Processes, NEW i \in DOMAIN queue'[q]
        PROVE  /\ Home[queue'[q][i].by] = q /\ ~OnDisk(queue'[q][i].by)
               /\ queue'[q][i].by \in Drivers
               /\ i \in DOMAIN queue[q] => queue'[q][i] = queue[q][i]
    <3>0. queue'[q] \in Seq(Jobs)
      BY <1>1
    <3>a. queue'[q][i] \in Jobs
      BY <3>0
    <3>1. queue'[q][i].by \in Drivers
      BY <3>a DEF Jobs
    <3>2. i \in DOMAIN queue[q] => queue'[q][i] = queue[q][i]
      BY <1>1
    <3>3. i \notin DOMAIN queue[q] => q = p /\ i = n + 1
      BY <1>1
    <3> QED
      BY <1>1, <1>2, <3>1, <3>2, <3>3 DEF JournalInv, Queued, p
  <2>2. ASSUME NEW q \in Processes, NEW i \in DOMAIN queue'[q], NEW j \in DOMAIN queue'[q],
               queue'[q][i] = LastOf(queue'[q][i].by), queue'[q][j].by = queue'[q][i].by
        PROVE  j <= i
    <3>1. queue'[q][i] = LastOf(queue'[q][i].by) /\ queue'[q][i].by \in Drivers
      BY <2>1, <2>2 DEF LastOf
    <3>2. CASE i \in DOMAIN queue[q] /\ queue[q][i] = LastOf(queue'[q][i].by)
      <4>1. queue'[q][i].by # t
        BY <1>2, <3>2
      <4>2. j \in DOMAIN queue[q]
        BY <1>1, <2>2, <4>1
      <4>3. queue'[q][i] = queue[q][i] /\ queue'[q][j] = queue[q][j]
        BY <2>1, <3>2, <4>2
      <4> QED
        BY <2>2, <3>2, <4>2, <4>3 DEF JournalInv, Queued
    <3>3. CASE q = p /\ i = n + 1
      BY <1>1, <3>3
    <3> QED
      BY <1>6, <3>1, <3>2, <3>3
  <2> QED
    BY <2>1, <2>2 DEF Queued, OnDisk
<1>9. Dense' /\ ChainIsWhole' /\ FinishedIsLast'
  BY DEF JournalInv, Dense, ChainIsWhole, FinishedIsLast, Breaks, Follows, Link
<1> QED
  BY <1>3, <1>4, <1>7, <1>8, <1>9 DEF JournalInv

\* What the writer takes up is the first of its jobs.
LEMMA TakenOff ==
  ASSUME JournalTypes, NEW p \in Processes, queue[p] # <<>>,
         queue' = [queue EXCEPT ![p] = Tail(@)]
  PROVE  /\ queue' \in [Processes -> Seq(Jobs)]
         /\ \A q \in Processes \ {p} : queue'[q] = queue[q]
         /\ Head(queue[p]) = queue[p][1] /\ queue[p][1] \in Jobs
         /\ LET n == Len(queue[p])
            IN  /\ n \in Nat \ {0}
                /\ DOMAIN queue[p] = 1 .. n
                /\ DOMAIN queue'[p] = 1 .. n - 1
                /\ \A i \in 1 .. n - 1 : queue'[p][i] = queue[p][i + 1]
<1>1. queue[p] \in Seq(Jobs)
  BY DEF JournalTypes
<1>2. /\ Tail(queue[p]) \in Seq(Jobs)
      /\ Len(queue[p]) \in Nat \ {0}
      /\ DOMAIN queue[p] = 1 .. Len(queue[p])
      /\ Head(queue[p]) = queue[p][1]
      /\ DOMAIN Tail(queue[p]) = 1 .. Len(queue[p]) - 1
      /\ \A i \in 1 .. Len(queue[p]) - 1 : Tail(queue[p])[i] = queue[p][i + 1]
  BY <1>1, HeadTailProperties, LenProperties, EmptySeq
<1>3. queue[p][1] \in Jobs
  BY <1>1, <1>2
<1>4. /\ queue' \in [Processes -> Seq(Jobs)] /\ queue'[p] = Tail(queue[p])
      /\ \A q \in Processes \ {p} : queue'[q] = queue[q]
  BY <1>2 DEF JournalTypes
<1> QED
  BY <1>2, <1>3, <1>4

\* The head a writer goes by, remembered or read, is an entry's; a free offset behind
\* one is behind all, since there are no gaps.
LEMMA NextEntry ==
  ASSUME JournalInv, NEW p \in Processes, queue[p] # <<>>, ~Taken(Entry(p))
  PROVE  /\ Entry(p).by = Head(queue[p]).by /\ Entry(p).what = Head(queue[p]).what
         /\ Entry(p).at \in Nat /\ Link(Entry(p)) \in Links
         /\ \A d \in disk : d.at < Entry(p).at
         /\ {d.at : d \in disk \cup {Entry(p)}} = 0 .. Entry(p).at
         /\ IF Entry(p).at = 0 THEN Entry(p).prev = <<>>
            ELSE \E d \in disk : d.at = Entry(p).at - 1 /\ Entry(p).prev = <<Link(d)>>
<1> DEFINE job == Head(queue[p])
           e == Entry(p)
<1>1. job \in Jobs
  <2>1. queue[p] \in Seq(Jobs)
    BY DEF JournalInv, JournalTypes
  <2> QED
    BY <2>1, HeadTailProperties
<1>2. PICK n \in Nat : {d.at : d \in disk} = 0 .. n - 1
  BY DEF JournalInv, Dense
<1>3. \A d \in disk : d.at \in 0 .. n - 1
  BY <1>2
<1>4. /\ e.by = job.by /\ e.what = job.what /\ e.prev = Seen(p)
      /\ e.at = IF Seen(p) = <<>> THEN 0 ELSE Seen(p)[1].at + 1
  BY DEF Entry
<1>5. \A d \in disk : d.at # e.at
  BY DEF Taken
<1>6. \/ Seen(p) = <<>> /\ disk = {}
      \/ \E d \in disk : Seen(p) = <<Link(d)>>
  <2>1. CASE head[p] # <<>>
    BY <2>1 DEF Seen, JournalInv, ChainIsWhole
  <2>2. CASE head[p] = <<>> /\ disk = {}
    BY <2>2 DEF Seen
  <2>3. CASE head[p] = <<>> /\ disk # {}
    <3>1. n - 1 \in 0 .. n - 1
      BY <1>3, <2>3
    <3>2. \E d \in disk : d.at = n - 1
      BY <1>2, <3>1
    <3>3. \E d \in disk : \A f \in disk : f.at <= d.at
      BY <1>3, <3>2
    <3>4. Newest \in disk
      BY <3>3 DEF Newest
    <3> QED
      BY <2>3, <3>4 DEF Seen
  <2> QED
    BY <2>1, <2>2, <2>3
<1> HIDE DEF e, job
<1>7. e.at = n
  <2>1. CASE Seen(p) = <<>> /\ disk = {}
    <3>1. e.at = 0
      BY <1>4, <2>1
    <3>2. 0 \notin 0 .. n - 1
      BY <1>2, <2>1
    <3> QED
      BY <3>1, <3>2
  <2>2. ASSUME NEW d \in disk, Seen(p) = <<Link(d)>>
        PROVE  e.at = n
    <3>1. e.at = d.at + 1
      BY <1>4, <2>2 DEF Link
    <3>2. e.at \notin 0 .. n - 1
      BY <1>2, <1>5
    <3> QED
      BY <1>3, <3>1, <3>2
  <2> QED
    BY <1>6, <2>1, <2>2
<1>8. \A d \in disk : d.at < e.at
  BY <1>3, <1>7
<1>9. {d.at : d \in disk \cup {e}} = 0 .. e.at
  <2>1. {d.at : d \in disk \cup {e}} = {d.at : d \in disk} \cup {e.at}
    OBVIOUS
  <2>2. (0 .. n - 1) \cup {n} = 0 .. n
    OBVIOUS
  <2> QED
    BY <1>2, <1>7, <2>1, <2>2
<1>10. Link(e) \in Links
  BY <1>1, <1>4, <1>7 DEF Link, Links, Jobs
<1>11. IF e.at = 0 THEN e.prev = <<>>
       ELSE \E d \in disk : d.at = e.at - 1 /\ e.prev = <<Link(d)>>
  <2>1. CASE Seen(p) = <<>> /\ disk = {}
    BY <1>4, <2>1
  <2>2. ASSUME NEW d \in disk, Seen(p) = <<Link(d)>>
        PROVE  e.at # 0 /\ d.at = e.at - 1 /\ e.prev = <<Link(d)>>
    BY <1>3, <1>4, <2>2 DEF Link
  <2> QED
    BY <1>6, <2>1, <2>2
<1> QED
  BY <1>1, <1>4, <1>7, <1>8, <1>9, <1>10, <1>11 DEF e, job

\* The chain, and the order in it, with one more entry.
LEMMA Lengthened ==
  ASSUME JournalInv, NEW p \in Processes, queue[p] # <<>>, ~Taken(Entry(p)),
         disk' = disk \cup {Entry(p)}
  PROVE  Dense' /\ Breaks' = {} /\ FinishedIsLast'
<1> DEFINE e == Entry(p)
<1>0. /\ e.by = Head(queue[p]).by /\ e.at \in Nat
      /\ \A d \in disk : d.at < e.at
      /\ {d.at : d \in disk \cup {e}} = 0 .. e.at
      /\ IF e.at = 0 THEN e.prev = <<>>
         ELSE \E d \in disk : d.at = e.at - 1 /\ e.prev = <<Link(d)>>
  BY NextEntry
<1>a. \A d \in disk : d.at \in Nat
  BY DEF JournalInv, JournalTypes, Link, Links
<1>b. disk' = disk \cup {e}
  OBVIOUS
<1>c. ~OnDisk(e.by)
  <2>1. queue[p] \in Seq(Jobs) /\ Head(queue[p]) = queue[p][1] /\ 1 \in DOMAIN queue[p]
    <3>1. queue[p] \in Seq(Jobs)
      BY DEF JournalInv, JournalTypes
    <3> QED
      BY <3>1, HeadTailProperties, LenProperties, EmptySeq
  <2> QED
    BY <1>0, <2>1 DEF JournalInv, Queued
<1> HIDE DEF e
<1>1. Dense'
  <2>1. /\ e.at + 1 \in Nat /\ {d.at : d \in disk'} = 0 .. (e.at + 1) - 1
    BY <1>0, <1>b
  <2> QED
    BY <2>1 DEF Dense
<1>2. Breaks' = {}
  <2>1. \A d \in disk : Follows(d) /\ ~ \E f \in disk \ {d} : f.at = d.at
    BY DEF JournalInv, ChainIsWhole, Breaks
  <2>2. \A d \in disk' : \A f \in disk' \ {d} : f.at # d.at
    BY <1>0, <1>a, <1>b, <2>1
  <2>3. \A d \in disk' :
          IF d.at = 0 THEN d.prev = <<>>
          ELSE \E f \in disk' : f.at = d.at - 1 /\ d.prev = <<Link(f)>>
    BY <1>0, <1>b, <2>1 DEF Follows
  <2> QED
    BY <2>2, <2>3 DEF Breaks, Follows, Link
<1>3. FinishedIsLast'
  BY <1>0, <1>a, <1>b, <1>c DEF JournalInv, FinishedIsLast, OnDisk
<1> QED
  BY <1>1, <1>2, <1>3

\* An append is over: written or not, with the head remembered or forgotten.
LEMMA AppendOver ==
  ASSUME HoldingInv, HoldingInv', JournalInv,
         NEW p \in Processes, NEW ok \in BOOLEAN, queue[p] # <<>>, Return(p, ok),
         UNCHANGED <<live, wrote>>, failed' \in 0 .. Failures,
         \/ disk' = disk /\ head' = [head EXCEPT ![p] = <<>>]
         \/ /\ ~Taken(Entry(p)) /\ disk' = disk \cup {Entry(p)}
            /\ \/ head' = [head EXCEPT ![p] = <<>>]
               \/ head' = [head EXCEPT ![p] = <<Link(Entry(p))>>]
  PROVE  JournalInv'
<1> DEFINE n == Len(queue[p])
           job == queue[p][1]
<1>1. /\ queue' \in [Processes -> Seq(Jobs)]
      /\ \A q \in Processes \ {p} : queue'[q] = queue[q]
      /\ Head(queue[p]) = job /\ job \in Jobs
      /\ n \in Nat \ {0}
      /\ DOMAIN queue[p] = 1 .. n /\ DOMAIN queue'[p] = 1 .. n - 1
      /\ \A i \in 1 .. n - 1 : queue'[p][i] = queue[p][i + 1]
  BY TakenOff DEF JournalInv, Return
<1>2. \A u \in Drivers :
        \/ pc'[u] = pc[u]
        \/ pc[u] = "append" /\ pc'[u] \in {"drive", "finish"}
        \/ pc[u] = "last" /\ pc'[u] = "leave"
  BY DEF Return, HoldingInv, HoldingTypes
<1>3. disk' # disk =>
        /\ ~Taken(Entry(p)) /\ disk' = disk \cup {Entry(p)}
        /\ Entry(p).by = job.by /\ Entry(p).what = job.what
        /\ Link(Entry(p)) \in Links
  BY <1>1, NextEntry
<1>4. /\ \A q \in Processes : \/ head'[q] = <<>> \/ head'[q] = head[q]
                             \/ \E d \in disk' : head'[q] = <<Link(d)>>
      /\ disk \subseteq disk' /\ \A d \in disk' : Link(d) \in Links
  <2>1. head \in [Processes -> Seq(Links)] /\ \A d \in disk : Link(d) \in Links
    BY DEF JournalInv, JournalTypes
  <2>2. \A d \in disk' : Link(d) \in Links
    BY <1>3, <2>1
  <2> QED
    BY <2>1, <2>2
<1>5. JournalTypes'
  <2>1. head' \in [Processes -> Seq(Links)] /\ \A q \in Processes : Len(head'[q]) <= 1
    <3>1. head \in [Processes -> Seq(Links)] /\ \A q \in Processes : Len(head[q]) <= 1
      BY DEF JournalInv, JournalTypes
    <3>2. \A l \in Links : <<l>> \in Seq(Links) /\ Len(<<l>>) = 1
      OBVIOUS
    <3>3. <<>> \in Seq(Links) /\ Len(<<>>) = 0
      OBVIOUS
    <3>4. /\ DOMAIN head' = Processes /\ head' = [q \in Processes |-> head'[q]]
      BY <3>1
    <3>5. \A q \in Processes : head'[q] \in Seq(Links) /\ Len(head'[q]) <= 1
      <4>1. ASSUME NEW q \in Processes, NEW d \in disk', head'[q] = <<Link(d)>>
            PROVE  head'[q] \in Seq(Links) /\ Len(head'[q]) <= 1
        <5>1. Link(d) \in Links
          BY <1>4
        <5> HIDE DEF Links
        <5> QED
          BY <3>2, <4>1, <5>1
      <4>2. ASSUME NEW q \in Processes, head'[q] = <<>> \/ head'[q] = head[q]
            PROVE  head'[q] \in Seq(Links) /\ Len(head'[q]) <= 1
        <5>1. CASE head'[q] = <<>>
          BY <3>3, <5>1
        <5>2. CASE head'[q] = head[q]
          BY <3>1, <5>2
        <5> QED
          BY <4>2, <5>1, <5>2
      <4> QED
        BY <1>4, <4>1, <4>2
    <3> QED
      BY <3>4, <3>5
  <2>2. \A d \in disk' : Link(d)' \in Links
    BY <1>4 DEF Link
  <2> QED
    BY <1>1, <2>1, <2>2 DEF JournalInv, JournalTypes
<1> HIDE DEF n, job
<1>6. LiveDrives'
  BY <1>2 DEF JournalInv, LiveDrives, Driving
<1>7. \A u \in Drivers : OnDisk(u)' => OnDisk(u) \/ job = LastOf(u)
  BY <1>1, <1>3 DEF OnDisk, LastOf, Jobs
<1>8. Over'
  <2>1. ASSUME NEW u \in Drivers,
               OnDisk(u)' \/ (\E q \in Processes : \E i \in DOMAIN queue'[q] : queue'[q][i] = LastOf(u))
        PROVE  OnDisk(u) \/ \E q \in Processes : \E i \in DOMAIN queue[q] : queue[q][i] = LastOf(u)
    <3>1. job = LastOf(u) => \E i \in DOMAIN queue[p] : queue[p][i] = LastOf(u)
      <4>1. 1 \in DOMAIN queue[p]
        BY <1>1
      <4> QED
        BY <4>1 DEF job
    <3>2. ASSUME NEW q \in Processes, NEW i \in DOMAIN queue'[q]
          PROVE  \E j \in DOMAIN queue[q] : queue[q][j] = queue'[q][i]
      <4>1. CASE q = p
        <5>1. i + 1 \in DOMAIN queue[p] /\ queue'[p][i] = queue[p][i + 1]
          BY <1>1, <4>1
        <5> QED
          BY <4>1, <5>1
      <4>2. CASE q # p
        BY <1>1, <4>2
      <4> QED
        BY <4>1, <4>2
    <3> QED
      BY <1>7, <2>1, <3>1, <3>2
  <2> QED
    BY <1>2, <2>1 DEF JournalInv, Over, LastOf
<1>9. Queued'
  <2> DEFINE K(q, i) == IF q = p THEN i + 1 ELSE i
  <2>1. ASSUME NEW q \in Processes, NEW i \in DOMAIN queue'[q]
        PROVE  /\ K(q, i) \in DOMAIN queue[q] /\ queue'[q][i] = queue[q][K(q, i)]
               /\ queue[q][K(q, i)].by \in Drivers
               /\ q = p => i \in 1 .. n - 1
    <3>1. K(q, i) \in DOMAIN queue[q] /\ queue'[q][i] = queue[q][K(q, i)]
      <4>1. CASE q = p
        BY <1>1, <4>1
      <4>2. CASE q # p
        BY <1>1, <4>2
      <4> QED
        BY <4>1, <4>2
    <3>2. queue[q] \in Seq(Jobs)
      BY DEF JournalInv, JournalTypes
    <3>3. queue[q][K(q, i)] \in Jobs
      BY <3>1, <3>2
    <3> QED
      BY <1>1, <3>1, <3>3 DEF Jobs
  <2>2. ASSUME NEW q \in Processes, NEW i \in DOMAIN queue'[q], NEW u \in Drivers,
               u = queue'[q][i].by
        PROVE  Home[u] = q /\ ~OnDisk(u)'
    <3>1. Home[u] = q /\ ~OnDisk(u)
      BY <2>1, <2>2 DEF JournalInv, Queued
    <3>2. ASSUME job = LastOf(u)
          PROVE  FALSE
      <4>1. 1 \in DOMAIN queue[p] /\ queue[p][1] = LastOf(u) /\ queue[p][1].by = u
        BY <1>1, <3>2 DEF job, LastOf
      <4>2. q = p
        BY <3>1, <4>1 DEF JournalInv, Queued
      <4>3. i + 1 \in DOMAIN queue[p] /\ queue[p][i + 1].by = u /\ i \in 1 .. n - 1
        BY <2>1, <2>2, <4>2
      <4>4. i + 1 <= 1
        BY <4>1, <4>3 DEF JournalInv, Queued
      <4> QED
        BY <1>1, <4>3, <4>4
    <3> QED
      BY <1>7, <3>1, <3>2
  <2>3. ASSUME NEW q \in Processes, NEW i \in DOMAIN queue'[q], NEW j \in DOMAIN queue'[q],
               queue'[q][i] = LastOf(queue'[q][i].by), queue'[q][j].by = queue'[q][i].by
        PROVE  j <= i
    <3>1. /\ K(q, i) \in DOMAIN queue[q] /\ queue'[q][i] = queue[q][K(q, i)]
          /\ K(q, j) \in DOMAIN queue[q] /\ queue'[q][j] = queue[q][K(q, j)]
      BY <2>1
    <3> HIDE DEF K
    <3>2. K(q, j) <= K(q, i)
      BY <2>3, <3>1 DEF JournalInv, Queued
    <3>3. i \in Nat /\ j \in Nat
      BY <1>1, <2>3 DEF JournalInv, JournalTypes
    <3> QED
      BY <3>2, <3>3 DEF K
  <2> HIDE DEF K
  <2>4. \A q \in Processes : \A i \in DOMAIN queue'[q] : queue'[q][i].by \in Drivers
    BY <2>1
  <2> QED
    BY <2>2, <2>3, <2>4 DEF Queued, OnDisk, LastOf
<1>10. Dense' /\ FinishedIsLast' /\ Breaks' = {}
  <2>1. CASE disk' = disk
    BY <2>1 DEF JournalInv, Dense, FinishedIsLast, ChainIsWhole, Breaks, Follows, Link
  <2>2. CASE disk' # disk
    BY <1>3, <2>2, Lengthened
  <2> QED
    BY <2>1, <2>2
<1>11. ChainIsWhole'
  <2>1. \A q \in Processes : head'[q] # <<>> => \E d \in disk' : head'[q] = <<Link(d)>>
    BY <1>4 DEF JournalInv, ChainIsWhole
  <2> QED
    BY <1>10, <2>1 DEF ChainIsWhole, Link
<1> QED
  BY <1>5, <1>6, <1>8, <1>9, <1>10, <1>11 DEF JournalInv

\* What goes in a process that dies is not on disk: those on disk stay ended.
LEMMA CrashKeepsJournal ==
  ASSUME HoldingInv, JournalInv, NEW p \in Processes, Crash(p)
  PROVE  JournalInv'
<1> DEFINE its == {t \in Drivers : Home[t] = p}
<1>1. /\ pc' = [t \in Drivers |-> IF t \in its THEN "gone" ELSE pc[t]]
      /\ live' = live \ its
      /\ queue' = [queue EXCEPT ![p] = <<>>] /\ head' = [head EXCEPT ![p] = <<>>]
      /\ UNCHANGED <<wrote, failed, disk>>
  BY DEF Crash, bounds
<1>2. /\ queue' \in [Processes -> Seq(Jobs)] /\ queue'[p] = <<>>
      /\ \A q \in Processes \ {p} : queue'[q] = queue[q]
      /\ head' \in [Processes -> Seq(Links)] /\ head'[p] = <<>>
      /\ \A q \in Processes \ {p} : head'[q] = head[q]
  <2>1. queue \in [Processes -> Seq(Jobs)] /\ head \in [Processes -> Seq(Links)]
    BY DEF JournalInv, JournalTypes
  <2>2. <<>> \in Seq(Jobs) /\ <<>> \in Seq(Links)
    OBVIOUS
  <2> QED
    BY <1>1, <2>1, <2>2
<1>3. DOMAIN queue'[p] = {}
  BY <1>2
<1>4. JournalTypes'
  <2>1. \A q \in Processes : Len(head'[q]) <= 1
    BY <1>2 DEF JournalInv, JournalTypes
  <2> QED
    BY <1>1, <1>2, <2>1 DEF JournalInv, JournalTypes, Link
<1>5. LiveDrives'
  BY <1>1 DEF JournalInv, LiveDrives, HoldingInv, HoldingTypes, Driving
<1>6. Over'
  BY <1>1, <1>2, <1>3 DEF JournalInv, Over, OnDisk, LastOf
<1>7. Queued'
  BY <1>1, <1>2, <1>3 DEF JournalInv, Queued, OnDisk, LastOf
<1>8. Dense' /\ FinishedIsLast' /\ ChainIsWhole'
  BY <1>1, <1>2 DEF JournalInv, Dense, FinishedIsLast, ChainIsWhole, Breaks, Follows, Link
<1> QED
  BY <1>4, <1>5, <1>6, <1>7, <1>8 DEF JournalInv

LEMMA WritesKeepsJournal ==
  ASSUME HoldingInv, HoldingInv', JournalInv, NEW p \in Processes, Writes(p)
  PROVE  JournalInv'
<1>1. failed \in 0 .. Failures
  BY DEF JournalInv, JournalTypes
<1>2. CASE Write(p)
  BY <1>1, <1>2, AppendOver DEF Write, Commit, bounds
<1>3. CASE Conflict(p)
  BY <1>1, <1>3, AppendOver DEF Conflict, Forgotten, bounds
<1>4. CASE FailedWrite(p)
  <2>1. failed' \in 0 .. Failures
    BY <1>1, <1>4 DEF FailedWrite
  <2> QED
    BY <1>4, <2>1, AppendOver DEF FailedWrite, Forgotten, EitherWay, Commit
<1> QED
  BY <1>2, <1>3, <1>4 DEF Writes

\* Taking and giving back the run.
LEMMA LeavesKeepsJournal ==
  ASSUME HoldingInv, JournalInv, NEW t \in Drivers,
         Ask(t) \/ Thread(t) \/ Leaves(t) \/ Cancel(t)
  PROVE  JournalInv'
<1> USE DEF bounds, Goes, OverPlaces
<1>0. /\ wrote \in 0 .. MaxEntries
      /\ pc[t] \in Driving \ {"last"} => t \in live
      /\ t \in live => pc[t] \in (Driving \ {"last"}) \cup {"leave", "unlocked"}
  BY DEF JournalInv, JournalTypes, LiveDrives
<1>1. CASE Ask(t)
  BY <1>0, <1>1, Moving DEF Ask, Driving
<1>2. CASE Thread(t)
  BY <1>2, Untouched DEF Thread, Register, TakeLock, MissLock, journal
<1>3. CASE Settled(t)
  <2>1. CASE taking[t] = "taken"
    BY <1>0, <1>3, <2>1, Moving DEF Settled, Driving
  <2>2. CASE taking[t] # "taken"
    BY <1>0, <1>3, <2>2, Moving DEF Settled, Driving
  <2> QED
    BY <2>1, <2>2
<1>4. CASE Unlock(t)
  BY <1>0, <1>4, Moving DEF Unlock, Driving
<1>5. CASE Unregister(t)
  BY <1>0, <1>5, Moving DEF Unregister, Driving
<1>6. CASE Cancel(t)
  <2>1. CASE pc[t] = "asking"
    BY <1>0, <1>6, <2>1, Moving DEF Cancel, AfterCancel, Driving
  <2>2. CASE pc[t] # "asking"
    BY <1>0, <1>6, <2>2, Moving DEF Cancel, Driving
  <2> QED
    BY <2>1, <2>2
<1> QED
  BY <1>1, <1>2, <1>3, <1>4, <1>5, <1>6 DEF Leaves

\* Only a drive that is not over hands anything over.
LEMMA WorksKeepsJournal ==
  ASSUME HoldingInv, HoldingInv', JournalInv, NEW t \in Drivers, Works(t)
  PROVE  JournalInv'
<1> USE DEF bounds, Goes, OverPlaces
<1>0. /\ wrote \in 0 .. MaxEntries /\ (wrote < MaxEntries => wrote + 1 \in 0 .. MaxEntries)
      /\ failed \in 0 .. Failures
      /\ pc[t] \in Driving \ {"last"} => t \in live
      /\ t \in live => pc[t] \in (Driving \ {"last"}) \cup {"leave", "unlocked"}
  BY DEF JournalInv, JournalTypes, LiveDrives
<1>a. "entry" \in Whats /\ "beside" \in Whats /\ "finished" \in Whats
  BY DEF Whats
<1>b. \A to : pc' = [pc EXCEPT ![t] = to] =>
        pc'[t] = to /\ \A u \in Drivers \ {t} : pc'[u] = pc[u]
  BY DEF HoldingInv, HoldingTypes
<1>1. CASE Held(t)
  BY <1>0, <1>1, Moving DEF Held, Driving
<1>2. CASE Claim(t)
  <2>1. CASE StillHeld(t)
    BY <1>0, <1>2, <2>1, Moving DEF Claim, Driving
  <2>2. CASE ~StillHeld(t)
    BY <1>0, <1>2, <2>2, Moving DEF Claim, Driving
  <2> QED
    BY <2>1, <2>2
<1>3. CASE BeforeAttempt(t)
  <2>1. CASE MayAttempt(t)
    BY <1>0, <1>3, <2>1, Moving DEF BeforeAttempt, Driving
  <2>2. CASE ~MayAttempt(t)
    BY <1>0, <1>3, <2>2, Moving DEF BeforeAttempt, Driving
  <2> QED
    BY <2>1, <2>2
<1>4. CASE Send(t)
  <2>0. pc[t] = "cleared" /\ t \in live /\ UNCHANGED <<live, wrote, failed, head, disk>>
    BY <1>0, <1>4 DEF Send, Driving
  <2>1. CASE Submit(t, "entry") /\ Goes(t, "append")
    BY <1>0, <1>a, <1>b, <2>0, <2>1, SubmitKeeps DEF Driving
  <2>2. CASE Goes(t, "claimed") /\ UNCHANGED queue
    BY <1>0, <2>0, <2>2, Moving DEF Driving, journal
  <2> QED
    BY <1>4, <2>1, <2>2 DEF Send
<1>5. CASE AppendEntry(t)
  <2>1. /\ t \in live /\ UNCHANGED <<live, failed, head, disk>> /\ wrote' \in 0 .. MaxEntries
        /\ Submit(t, "entry") /\ pc' = [pc EXCEPT ![t] = "append"]
    BY <1>0, <1>5 DEF AppendEntry, Driving
  <2> QED
    BY <1>a, <1>b, <2>1, SubmitKeeps DEF Driving
<1>6. CASE Beside(t)
  <2>1. /\ t \in live /\ UNCHANGED <<pc, live, failed, head, disk>>
        /\ wrote' \in 0 .. MaxEntries /\ Submit(t, "beside")
    BY <1>0, <1>6 DEF Beside
  <2> QED
    BY <1>0, <1>a, <2>1, SubmitKeeps
<1>7. CASE End(t)
  BY <1>0, <1>7, Moving DEF End, Driving
<1>8. CASE Finish(t)
  <2>1. CASE StillHeld(t)
    <3>1. /\ t \in live /\ live' = live \ {t} /\ Submit(t, "finished")
          /\ pc' = [pc EXCEPT ![t] = "last"] /\ UNCHANGED <<wrote, failed, head, disk>>
      BY <1>0, <1>8, <2>1 DEF Finish, OverNow, Driving
    <3> QED
      BY <1>0, <1>a, <1>b, <3>1, SubmitKeeps
  <2>2. CASE ~StillHeld(t)
    <3>1. /\ UNCHANGED <<live, wrote, failed>> /\ UNCHANGED journal
          /\ pc[t] = "finish" /\ pc' = [pc EXCEPT ![t] = "leave"]
      BY <1>8, <2>2 DEF Finish, journal
    <3> QED
      BY <1>0, <3>1, Moving DEF Driving
  <2> QED
    BY <2>1, <2>2
<1> QED
  BY <1>1, <1>2, <1>3, <1>4, <1>5, <1>6, <1>7, <1>8 DEF Works

LEMMA JournalKept == HoldingInv /\ HoldingInv' /\ JournalInv /\ [Next]_vars => JournalInv'
<1> SUFFICES ASSUME HoldingInv, HoldingInv', JournalInv, [Next]_vars PROVE JournalInv'
  OBVIOUS
<1>1. CASE UNCHANGED vars
  BY <1>1, Untouched DEF vars
<1>2. ASSUME NEW t \in Drivers, Ask(t) \/ Thread(t) \/ Leaves(t) \/ Cancel(t) \/ Works(t)
      PROVE  JournalInv'
  BY <1>2, LeavesKeepsJournal, WorksKeepsJournal
<1>3. CASE LoseLock
  BY <1>3, Untouched DEF LoseLock, bounds, journal
<1>4. ASSUME NEW p \in Processes, Writes(p) \/ Crash(p)
      PROVE  JournalInv'
  BY <1>4, WritesKeepsJournal, CrashKeepsJournal
<1>5. CASE Finished
  BY <1>1, <1>5 DEF Finished
<1> QED
  BY <1>1, <1>2, <1>3, <1>4, <1>5 DEF Next

\* The second inductive invariant holds, beside the first.
THEOREM JournalInvariance == Spec => []JournalInv
BY InitiallyJournal, JournalKept, HoldingInvariance, PTL DEF Spec

\* Everything keeps its type.
THEOREM TypeCorrect == Spec => []TypeOK
<1>1. HoldingInv /\ JournalInv => TypeOK
  <2> SUFFICES ASSUME HoldingInv, JournalInv PROVE TypeOK
    OBVIOUS
  <2>1. late \in [Drivers -> 0 .. 2]
    BY DEF HoldingInv, HoldingTypes, LateOnce
  <2> QED
    BY <2>1 DEF HoldingInv, HoldingTypes, JournalInv, JournalTypes, TypeOK, Attempts
<1> QED
  BY <1>1, HoldingInvariance, JournalInvariance, PTL

\* However writers of several processes alternate, whatever appends fail and who dies:
\* the journal verifies, and what a writer remembers as the head is on disk.
THEOREM WholeChain == Spec => []ChainIsWhole
<1>1. JournalInv => ChainIsWhole
  BY DEF JournalInv
<1> QED
  BY <1>1, JournalInvariance, PTL

\* Nothing a driver's tasks write gets behind its run_finished.
THEOREM NothingAfterTheEnd == Spec => []FinishedIsLast
<1>1. JournalInv => FinishedIsLast
  BY DEF JournalInv
<1> QED
  BY <1>1, JournalInvariance, PTL
=============================================================================
