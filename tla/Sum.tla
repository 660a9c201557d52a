-------------------------------- MODULE Sum --------------------------------
(***************************************************************************)
(* The three programs of multi-threads that add to a shared sum from       *)
(* several threads and print it in join_fn: sum.c (a plain addq),          *)
(* sum-atomic.c (a lock addq) and spinlock.c (sum++ between spin_lock and  *)
(* spin_unlock).  They differ only in how one addition is made.            *)
(* An addq without the lock prefix is a load and a store between which     *)
(* another CPU may store; on one memory location x86 has no behaviour      *)
(* beyond the interleavings of these two steps.                            *)
(***************************************************************************)
EXTENDS Threads

CONSTANTS
  Rounds,        \* the bound of the loop in do_sum
  Programs       \* which of the three programs to check

ASSUME SumAssumption ==
  /\ Rounds \in Nat \ {0}
  /\ Programs \subseteq {"sum", "sum-atomic", "spinlock"}

VARIABLES
  program,       \* the program that runs
  sum,           \* the shared variable
  locked,        \* lk1.locked
  reg,           \* thread -> the value it loaded from sum
  i,             \* thread -> its loop counter
  pc             \* thread -> where it is in the loop body

vars == <<tvars, program, sum, locked, reg, i, pc>>

(* Where the body of the loop starts.                                      *)
Top == CASE program = "sum"        -> "load"
         [] program = "sum-atomic" -> "lock addq"
         [] program = "spinlock"   -> "spin_lock"

TypeOK ==
  /\ ThreadsTypeOK
  /\ program \in Programs
  /\ sum \in 0..(NThreads * Rounds)
  /\ locked \in 0..1
  /\ reg \in [Thread -> 0..(NThreads * Rounds)]
  /\ i \in [Thread -> 0..Rounds]
  /\ pc \in [Thread -> {"load", "store", "lock addq", "spin_lock", "spin_unlock"}]

Init ==
  /\ ThreadsInit
  /\ program \in Programs
  /\ sum = 0
  /\ locked = 0
  /\ reg = [t \in Thread |-> 0]
  /\ i = [t \in Thread |-> 0]
  /\ pc = [t \in Thread |-> Top]

InLoop(t, at) ==
  /\ Running(t)
  /\ i[t] < Rounds
  /\ pc[t] = at

Goto(t, to) == pc' = [pc EXCEPT ![t] = to]

EndOfBody(t) ==
  /\ i' = [i EXCEPT ![t] = @ + 1]
  /\ Goto(t, Top)

Main ==
  /\ MainStep
  /\ UNCHANGED <<program, sum, locked, reg, i, pc>>

(* join_fn: print sum.                                                     *)
print ==
  /\ call_join_fn
  /\ UNCHANGED <<program, sum, locked, reg, i, pc>>

Enter(t) ==
  /\ entry_all(t)
  /\ UNCHANGED <<program, sum, locked, reg, i, pc>>

(* Wrong variant: without the prefix the addition is a load and a store.   *)
lock_addqWithoutPrefix(t) ==
  /\ InLoop(t, "lock addq")
  /\ reg' = [reg EXCEPT ![t] = sum]
  /\ Goto(t, "store")
  /\ UNCHANGED <<tvars, program, sum, locked, i>>

(* lock addq $1, sum: one indivisible step.                                *)
lock_addq(t) ==
  /\ InLoop(t, "lock addq")
  /\ sum' = sum + 1
  /\ EndOfBody(t)
  /\ UNCHANGED <<tvars, program, locked, reg>>

(* Wrong variant: the load is hoisted out of the loop.                     *)
loadHoisted(t) ==
  /\ InLoop(t, "load")
  /\ reg' = [reg EXCEPT ![t] = IF i[t] = 0 THEN sum ELSE @]
  /\ Goto(t, "store")
  /\ UNCHANGED <<tvars, program, sum, locked, i>>

(* addq $1, sum, and the sum++ of spinlock.c: a load ...                   *)
load(t) ==
  /\ InLoop(t, "load")
  /\ reg' = [reg EXCEPT ![t] = sum]
  /\ Goto(t, "store")
  /\ UNCHANGED <<tvars, program, sum, locked, i>>

(* ... and a store.                                                        *)
store(t) ==
  /\ InLoop(t, "store")
  /\ sum' = reg[t] + 1
  /\ IF program = "spinlock"
     THEN Goto(t, "spin_unlock") /\ UNCHANGED i
     ELSE EndOfBody(t)
  /\ UNCHANGED <<tvars, program, locked, reg>>

(* Wrong variant: it compares but does not swap.                           *)
compare_only(old, new, swapped) ==
  /\ swapped = (locked = old)
  /\ locked' = locked

(* compare_and_swap(&locked, old, new): whether it swapped.                *)
compare_and_swap(old, new, swapped) ==
  /\ swapped = (locked = old)
  /\ locked' = IF swapped THEN new ELSE locked

(* while (compare_and_swap(&lk->locked, 0, 1)): one more round of the loop *)
(* for each swap that succeeds, out of it at the first one that fails.     *)
spin_lock(t) ==
  /\ InLoop(t, "spin_lock")
  /\ \E swapped \in BOOLEAN :
        /\ compare_and_swap(0, 1, swapped)
        /\ Goto(t, IF swapped THEN "spin_lock" ELSE "load")
  /\ UNCHANGED <<tvars, program, sum, reg, i>>

spin_unlock(t) ==
  /\ InLoop(t, "spin_unlock")
  /\ \E swapped \in BOOLEAN : compare_and_swap(1, 0, swapped)
  /\ EndOfBody(t)
  /\ UNCHANGED <<tvars, program, sum, reg>>

Return(t) ==
  /\ i[t] = Rounds
  /\ ThreadReturn(t)
  /\ UNCHANGED <<program, sum, locked, reg, i, pc>>

ThreadStep(t) ==
  \/ Enter(t)
  \/ lock_addq(t)
  \/ load(t) \/ store(t)
  \/ spin_lock(t) \/ spin_unlock(t)
  \/ Return(t)

Next == Main \/ print \/ \E t \in Thread : ThreadStep(t)

Spec == Init /\ [][Next]_vars

(* Every thread that can run is scheduled again.                           *)
FairSpec ==
  /\ Spec
  /\ WF_vars(Main \/ print)
  /\ \A t \in Thread : WF_vars(ThreadStep(t))
-----------------------------------------------------------------------------
Started == Cardinality(Thread \ Failed)

(* sum-atomic.c prints exactly one count per round of each thread that     *)
(* could be started.                                                       *)
AtomicSumExact ==
  main = "exited" /\ program = "sum-atomic" => sum = Started * Rounds

(* What sum.c and spinlock.c print is at least 2 when there are two rounds *)
(* or more (at least 1 otherwise) and never more than the exact sum: every *)
(* thread but one may lose all its additions, and even the last one all    *)
(* but two.                                                                *)
RacySumBounds ==
  main = "exited" =>
    /\ sum <= Started * Rounds
    /\ Started > 0 => sum >= IF Rounds = 1 THEN 1 ELSE 2

(* Every thread ends and the sum is printed, unless the process crashes    *)
(* for a failed pthread_create: the inverted loop of spin_lock never keeps *)
(* a thread for ever, for the lock word is changed only finitely often by  *)
(* the others, and join_all never waits for a thread that does not exist.  *)
Terminates == <>(main = "exited" \/ ~Alive)

(* What the assertion after the loop of spin_lock says: a thread that has  *)
(* returned from spin_lock and not yet called spin_unlock finds the lock   *)
(* word at 1.                                                              *)
LockedInside ==
  \A t \in Thread :
    program = "spinlock" /\ pc[t] \in {"load", "store"} => locked = 1
=============================================================================
