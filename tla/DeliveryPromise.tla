--------------------------- MODULE DeliveryPromise ---------------------------
(***************************************************************************)
(* What the runtime promises the outside world about the writes of a run,  *)
(* with nothing said of how: they take effect in program order, one only   *)
(* once every earlier one is recorded as delivered; one whose tool did not *)
(* declare repeats harmless takes effect at most once; and one is recorded *)
(* as delivered only after it took effect.                                 *)
(***************************************************************************)
EXTENDS Integers

CONSTANTS Last,       \* the run's writes are 1..Last, in program order
          Idempotent  \* those whose tool declared a repeat harmless

VARIABLES times,      \* how often each write took effect (2 stands for more)
          recorded    \* the writes durably recorded as delivered

Promised == 1 .. Last

Many == 2
OneMore(n) == IF n = Many THEN Many ELSE n + 1

PromiseInit ==
  /\ times = [e \in Promised |-> 0]
  /\ recorded = {}

TakesEffect(e) ==
  /\ \A d \in 1 .. e - 1 : d \in recorded
  /\ e \in Idempotent \/ times[e] = 0
  /\ times' = [times EXCEPT ![e] = OneMore(@)]
  /\ UNCHANGED recorded

IsRecorded(e) ==
  /\ times[e] > 0
  /\ recorded' = recorded \cup {e}
  /\ UNCHANGED times

PromiseNext == \E e \in Promised : TakesEffect(e) \/ IsRecorded(e)

PromiseSpec == PromiseInit /\ [][PromiseNext]_<<times, recorded>>
==============================================================================
