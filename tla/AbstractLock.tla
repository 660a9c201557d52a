---------------------------- MODULE AbstractLock ----------------------------
(***************************************************************************)
(* What a lock promises to those who call it, whatever it is made of: a    *)
(* free lock goes to one caller, nobody takes it over while that one has   *)
(* it, and only that one gives it back.  The spinlocks of spinlock-xv6.c   *)
(* are shown to implement it.                                              *)
(***************************************************************************)
CONSTANTS
  Proc,      \* those who take locks
  Lock       \* the locks

VARIABLE
  holders    \* lock -> those that have it, at most one

Init == holders = [l \in Lock |-> {}]

Take(p, l) ==
  /\ holders[l] = {}
  /\ holders' = [holders EXCEPT ![l] = {p}]

Give(p, l) ==
  /\ holders[l] = {p}
  /\ holders' = [holders EXCEPT ![l] = {}]

Next == \E p \in Proc, l \in Lock : Take(p, l) \/ Give(p, l)

Spec == Init /\ [][Next]_holders
=============================================================================
