------------------------------ MODULE Monitor ------------------------------
(***************************************************************************)
(* The pthread mutex and condition variables that fish.c and brac.c use.   *)
(* They are not part of the repository: this is what POSIX promises the    *)
(* callers.  The mutex has no queue, a broadcast moves every sleeper of    *)
(* the condition variable to contending for the mutex, and a sleeper may   *)
(* wake without any signal.                                                *)
(***************************************************************************)
EXTENDS Naturals

CONSTANTS
  CondVar,        \* the program's condition variables
  MaxSpurious     \* bound on wakeups without a signal in one behaviour

ASSUME MonitorAssumption == MaxSpurious \in Nat

VARIABLES
  mutex,          \* the thread that holds the mutex, or NoThread
  sleepers,       \* condition variable -> threads blocked on it
  spurious        \* wakeups without a signal so far

mvars == <<mutex, sleepers, spurious>>

NoThread == 0

MonitorTypeOK(T) ==
  /\ mutex \in T \cup {NoThread}
  /\ sleepers \in [CondVar -> SUBSET T]
  /\ spurious \in 0..MaxSpurious

MonitorInit ==
  /\ mutex = NoThread
  /\ sleepers = [cv \in CondVar |-> {}]
  /\ spurious = 0

mutex_lock(t) ==
  /\ mutex = NoThread
  /\ mutex' = t
  /\ UNCHANGED <<sleepers, spurious>>

mutex_unlock(t) ==
  /\ mutex = t
  /\ mutex' = NoThread
  /\ UNCHANGED <<sleepers, spurious>>

(* Atomically release the mutex and go to sleep on cv.                     *)
cond_wait(t, cv) ==
  /\ mutex = t
  /\ mutex' = NoThread
  /\ sleepers' = [sleepers EXCEPT ![cv] = @ \cup {t}]
  /\ UNCHANGED spurious

(* The second half of the wait: a woken thread takes the mutex again.      *)
cond_wakeup(t, cv) ==
  /\ t \notin sleepers[cv]
  /\ mutex_lock(t)

(* Broadcast, then unlock: nobody can run between the two, since a woken   *)
(* thread needs the mutex.                                                 *)
cond_broadcast_unlock(t, cv) ==
  /\ mutex = t
  /\ mutex' = NoThread
  /\ sleepers' = [sleepers EXCEPT ![cv] = {}]
  /\ UNCHANGED spurious

spurious_wakeup(t, cv) ==
  /\ spurious < MaxSpurious
  /\ t \in sleepers[cv]
  /\ spurious' = spurious + 1
  /\ sleepers' = [sleepers EXCEPT ![cv] = @ \ {t}]
  /\ UNCHANGED mutex
=============================================================================
