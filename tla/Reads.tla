-------------------------------- MODULE Reads --------------------------------
(***************************************************************************)
(* What a node read, and whether it still holds when its writes go out:    *)
(* Scheduler.execute_read, validate_reads, and the checks _retire and      *)
(* _drain_until_done make around each drain (lattice rule E3).             *)
(*                                                                         *)
(* A node runs one or more tasks of its own (asyncio.gather in its body),  *)
(* each reading and writing in its own order.  A read takes the version of *)
(* a row when it reaches the upstream and lands in the read set when it    *)
(* comes back; a write is staged and its task parks - or gives up waiting, *)
(* and goes on.  The body may return with tasks of its own still running.  *)
(* The scheduler checks the reads when it sees the node at rest, sends     *)
(* what is staged, and, if the node has not returned by then, checks the   *)
(* reads made since before it drains again.  Rows change under it all, by  *)
(* other hands and by the node's own writes.                               *)
(*                                                                         *)
(* A write here always lands: what else becomes of it is Dispatch's.       *)
(***************************************************************************)
EXTENDS CheckedReads

node == <<at, asked, body, reads, staged, parked>>
check == <<checked, probes, found>>
vars == <<version, changes, node, pc, check>>

Nothing == -1
Called == -2

Init ==
  /\ version = [r \in Rows |-> 0] /\ changes = 0
  /\ at = [t \in Tasks |-> 1] /\ asked = [t \in Tasks |-> Nothing]
  /\ body = "runs" /\ reads = <<>> /\ staged = <<>> /\ parked = FALSE
  /\ pc = "rest" /\ checked = 0 /\ probes = {} /\ found = <<>>

Ended == {"refused", "retired"}

-----------------------------------------------------------------------------
(* The node's tasks: BranchTools.call and Scheduler.execute_read. *)

AtCall(t, what) == at[t] <= Len(Script[t]) /\ Script[t][at[t]].does = what
Row(t) == Script[t][at[t]].row
GoesOn(t) == at' = [at EXCEPT ![t] = @ + 1]
Awaits(t, i) == staged[i].task = t /\ staged[i].awaited /\ staged[i].status # "acked"
Waits(t) == \E i \in DOMAIN staged : Awaits(t, i)
NodeDone == body # "runs"

\* A call of a node that has returned is refused; one made before goes on.
CallsRead(t) ==
  /\ pc \notin Ended /\ ~NodeDone
  /\ AtCall(t, "read") /\ asked[t] = Nothing /\ ~Waits(t)
  /\ asked' = [asked EXCEPT ![t] = Called]
  /\ UNCHANGED <<version, changes, at, body, reads, staged, parked, pc, check>>

\* The tool runs for real: the row is read as it is now.
ReadUpstream(t) ==
  /\ pc \notin Ended
  /\ asked[t] = Called
  /\ asked' = [asked EXCEPT ![t] = version[Row(t)]]
  /\ UNCHANGED <<version, changes, at, body, reads, staged, parked, pc, check>>

\* It comes back, and joins the read set with its witness, if it has one.
ReadReturns(t) ==
  /\ pc \notin Ended
  /\ asked[t] \notin {Nothing, Called}
  /\ reads' = Append(reads, [task |-> t, row |-> Row(t), witness |-> asked[t]])
  /\ found' = Append(found, "none")
  /\ asked' = [asked EXCEPT ![t] = Nothing]
  /\ GoesOn(t)
  /\ UNCHANGED <<version, changes, body, staged, parked, pc, checked, probes>>

\* A write is staged behind those before it, and its task parks on the ack.
\* "on": the reads it was decided on.  "seen": the scheduler has checked the reads
\* since.
Stage(t) ==
  /\ pc \notin Ended /\ ~NodeDone
  /\ AtCall(t, "write") /\ ~Waits(t)
  /\ staged' = Append(staged,
       [task |-> t, row |-> Row(t), status |-> "staged", awaited |-> TRUE, seen |-> FALSE,
        on |-> {i \in DOMAIN reads : reads[i].task = t}])
  /\ parked' = TRUE
  /\ GoesOn(t)
  /\ UNCHANGED <<version, changes, asked, body, reads, pc, check>>

\* A task waits for a write's ack no longer: it is staged all the same.
GivesUp(t) ==
  /\ pc \notin Ended
  /\ \E i \in DOMAIN staged :
       /\ Awaits(t, i)
       /\ staged' = [staged EXCEPT ![i].awaited = FALSE]
  /\ UNCHANGED <<version, changes, at, asked, body, reads, parked, pc, check>>

Returns ==
  /\ pc \notin Ended /\ ~NodeDone
  /\ body' = IF \A t \in Tasks : at[t] > Len(Script[t]) /\ ~Waits(t)
             THEN "returned" ELSE "left"
  /\ UNCHANGED <<version, changes, at, asked, reads, staged, parked, pc, check>>

OthersChange(r) ==
  /\ changes < MaxChanges
  /\ pc \notin Ended
  /\ changes' = changes + 1
  /\ version' = [version EXCEPT ![r] = @ + 1]
  /\ UNCHANGED <<node, pc, check>>

-----------------------------------------------------------------------------
(* The checks: validate_reads, called by _retire and by _recheck_reads. *)

ToProbe(i) == reads[i].row \in Witnessed

\* Seen at rest - parked on a write, or done - the reads not yet checked are checked
\* together.  One without a witness cannot be.
AtRest ==
  /\ pc \in {"rest", "again"}
  /\ parked \/ NodeDone
  /\ LET since == checked + 1 .. Len(reads)
     IN  /\ probes' = {i \in since : ToProbe(i)}
         /\ found' = [i \in DOMAIN found |->
                        IF i \in since /\ ~ToProbe(i) THEN "unwitnessed" ELSE found[i]]
  /\ staged' = [i \in DOMAIN staged |->
                  [staged[i] EXCEPT !.seen = @ \/ staged[i].status = "staged"]]
  /\ checked' = Len(reads)
  /\ pc' = IF pc = "rest" THEN "first" ELSE "later"
  /\ UNCHANGED <<version, changes, at, asked, body, reads, parked>>

Checking == pc \in {"first", "later"}

\* Each re-check finds what it finds, when it gets there.
Probe(i) ==
  /\ Checking /\ i \in probes
  /\ \E v \in {IF version[reads[i].row] = reads[i].witness THEN "fresh" ELSE "stale",
               "unreadable"} :
       found' = [found EXCEPT ![i] = v]
  /\ probes' = probes \ {i}
  /\ UNCHANGED <<version, changes, node, pc, checked>>

\* Defect: a re-check that could not be made counts as one that found nothing.
StaleOnly ==
  OnStale = "squash" /\ \E i \in DOMAIN found : found[i] = "stale"
Refuse ==
  \/ OnStale = "squash" /\ \E i \in DOMAIN found : found[i] = "stale"
  \/ OnUnreadable = "squash" /\ \E i \in DOMAIN found : found[i] = "unreadable"

Pending == {i \in DOMAIN staged : staged[i].status = "staged"}

\* What is staged and not sent is discarded, and the branch closed to more.
Refused ==
  /\ Checking /\ probes = {} /\ Refuse
  /\ staged' = [i \in DOMAIN staged |->
                  IF i \in Pending THEN [staged[i] EXCEPT !.status = "discarded"]
                  ELSE staged[i]]
  /\ pc' = "refused"
  /\ UNCHANGED <<version, changes, at, asked, body, reads, parked, check>>

Holds ==
  /\ Checking /\ probes = {} /\ ~Refuse
  /\ pc' = "drain"
  /\ UNCHANGED <<version, changes, node, check>>

-----------------------------------------------------------------------------
(* The drain: StoreBuffer._drain_locked, called by _drain_until_done. *)

\* The next in program order.  The list is read live: what is staged while the
\* drain runs goes out with the rest.
Send ==
  /\ pc = "drain"
  /\ \E i \in Pending :
       /\ \A j \in Pending : i <= j
       /\ staged' = [staged EXCEPT ![i].status = "sent"]
  /\ pc' = "sending"
  /\ UNCHANGED <<version, changes, at, asked, body, reads, parked, check>>

\* Nothing is left to send: a node that has returned - before the last check, or
\* since - is committed and retired, whatever it read meanwhile; one that has not
\* goes on until it is at rest again.  Defect: one with nothing more to send is taken
\* to be done.
AllSent == Pending = {}
NodeIsDone == NodeDone
DrainOver ==
  /\ parked' = FALSE
  /\ pc' = IF NodeIsDone THEN "retired" ELSE "again"

\* It lands, and its ack will let its task go on - once the drain that sent it
\* has looked for another, or ended.
Lands ==
  /\ pc = "sending"
  /\ \E i \in DOMAIN staged :
       /\ staged[i].status = "sent"
       /\ staged' = [staged EXCEPT ![i].status = "acked"]
       /\ version' = [version EXCEPT ![staged[i].row] = @ + 1]
  /\ IF Pending = {} THEN DrainOver ELSE pc' = "drain" /\ UNCHANGED parked
  /\ UNCHANGED <<changes, at, asked, body, reads, check>>

NothingToSend ==
  /\ pc = "drain" /\ Pending = {}
  /\ DrainOver
  /\ UNCHANGED <<version, changes, at, asked, body, reads, staged, check>>

Next ==
  \/ \E t \in Tasks :
       CallsRead(t) \/ ReadUpstream(t) \/ ReadReturns(t) \/ Stage(t) \/ GivesUp(t)
  \/ Returns
  \/ \E r \in Rows : OthersChange(r)
  \/ AtRest \/ (\E i \in probes : Probe(i)) \/ Refused \/ Holds
  \/ Send \/ Lands \/ NothingToSend

Spec == Init /\ [][Next]_vars

-----------------------------------------------------------------------------

Verdicts == {"fresh", "stale", "unwitnessed", "unreadable"}
ReadRecords == [task : Tasks, row : Rows, witness : Nat]
StagedWrites ==
  [task : Tasks, row : Rows, status : {"staged", "sent", "acked", "discarded"},
   awaited : BOOLEAN, seen : BOOLEAN, on : SUBSET Nat]

\* Every read has a verdict or none yet; the reads before "checked" have one, or
\* their re-check is under way.
TypeOK ==
  /\ version \in [Rows -> Nat]
  /\ changes \in 0 .. MaxChanges
  /\ at \in [Tasks -> Nat \ {0}] /\ asked \in [Tasks -> Nat \cup {Nothing, Called}]
  /\ body \in {"runs", "returned", "left"}
  /\ reads \in Seq(ReadRecords)
  /\ found \in Seq(Verdicts \cup {"none"}) /\ Len(found) = Len(reads)
  /\ staged \in Seq(StagedWrites)
  /\ checked \in 0 .. Len(reads) /\ probes \subseteq 1 .. checked
  /\ parked \in BOOLEAN
  /\ pc \in {"rest", "first", "later", "again", "drain", "sending"} \cup Ended
=============================================================================
