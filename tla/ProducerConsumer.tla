-------------------------- MODULE ProducerConsumer --------------------------
(***************************************************************************)
(* multi-threads/producer-consumer.c on the runtime of threads.h: every    *)
(* producer prints one "(" and every consumer one ")", with two semaphores *)
(* that keep at most N brackets open.  Each thread does this once and      *)
(* returns.  sem_wait and sem_post belong to the C library.                *)
(***************************************************************************)
EXTENDS Threads, Integers

CONSTANTS
  N,              \* #define N: the initial value of empty
  NProducers      \* the bounds to try for the first loop of main()

ASSUME PCAssumption ==
  /\ N \in Nat \ {0}
  /\ NProducers \subseteq 0..NThreads

VARIABLES
  nprod,          \* threads 1..nprod run producer(), the others consumer()
  fill, empty,    \* values of the semaphores
  pc,             \* thread -> where it is in its function
  nest            \* history: "(" printed minus ")" printed

vars == <<tvars, nprod, fill, empty, pc, nest>>

PC == {"P", "printf", "V", "return"}

Producer == 1..nprod
Consumer == Thread \ Producer

TypeOK ==
  /\ ThreadsTypeOK
  /\ nprod \in NProducers
  /\ fill \in Nat
  /\ empty \in Nat
  /\ pc \in [Thread -> PC]
  /\ nest \in Int

Init ==
  /\ ThreadsInit
  /\ nprod \in NProducers
  /\ fill = 0
  /\ empty = N
  /\ pc = [t \in Thread |-> "P"]
  /\ nest = 0

Goto(t, from, to) ==
  /\ Running(t)
  /\ pc[t] = from
  /\ pc' = [pc EXCEPT ![t] = to]

sem_wait(sem) == sem > 0 /\ sem' = sem - 1
sem_post(sem) == sem' = sem + 1

Main ==
  /\ MainStep
  /\ UNCHANGED <<nprod, fill, empty, pc, nest>>

(* join_all calls over().                                                  *)
over ==
  /\ call_join_fn
  /\ UNCHANGED <<nprod, fill, empty, pc, nest>>

Enter(t) ==
  /\ entry_all(t)
  /\ UNCHANGED <<nprod, fill, empty, pc, nest>>

(* Wrong variant: the producer does not wait for an empty slot.            *)
producer_PMissing(t) ==
  /\ t \in Producer
  /\ Goto(t, "P", "printf")
  /\ UNCHANGED <<tvars, nprod, fill, empty, nest>>

producer_P(t) ==
  /\ t \in Producer
  /\ Goto(t, "P", "printf")
  /\ sem_wait(empty)
  /\ UNCHANGED <<tvars, nprod, fill, nest>>

producer_printf(t) ==
  /\ t \in Producer
  /\ Goto(t, "printf", "V")
  /\ nest' = nest + 1
  /\ UNCHANGED <<tvars, nprod, fill, empty>>

producer_V(t) ==
  /\ t \in Producer
  /\ Goto(t, "V", "return")
  /\ sem_post(fill)
  /\ UNCHANGED <<tvars, nprod, empty, nest>>

consumer_P(t) ==
  /\ t \in Consumer
  /\ Goto(t, "P", "printf")
  /\ sem_wait(fill)
  /\ UNCHANGED <<tvars, nprod, empty, nest>>

consumer_printf(t) ==
  /\ t \in Consumer
  /\ Goto(t, "printf", "V")
  /\ nest' = nest - 1
  /\ UNCHANGED <<tvars, nprod, fill, empty>>

(* Wrong variant: the consumer does not give the slot back.                *)
consumer_VMissing(t) ==
  /\ t \in Consumer
  /\ Goto(t, "V", "return")
  /\ UNCHANGED <<tvars, nprod, fill, empty, nest>>

consumer_V(t) ==
  /\ t \in Consumer
  /\ Goto(t, "V", "return")
  /\ sem_post(empty)
  /\ UNCHANGED <<tvars, nprod, fill, nest>>

Return(t) ==
  /\ pc[t] = "return"
  /\ ThreadReturn(t)
  /\ UNCHANGED <<nprod, fill, empty, pc, nest>>

ThreadStep(t) ==
  \/ Enter(t)
  \/ producer_P(t) \/ producer_printf(t) \/ producer_V(t)
  \/ consumer_P(t) \/ consumer_printf(t) \/ consumer_V(t)
  \/ Return(t)

Next == Main \/ over \/ \E t \in Thread : ThreadStep(t)

Spec == Init /\ [][Next]_vars

(* Every thread that can run is scheduled again.                           *)
FairSpec ==
  /\ Spec
  /\ WF_vars(Main \/ over)
  /\ \A t \in Thread : WF_vars(ThreadStep(t))
-----------------------------------------------------------------------------
Finished(T) == \A t \in T \ Failed : life[t] = "returned"

(* The output is nested properly: no ")" before its "(" and at most N open *)
(* brackets, although printf happens outside any lock and the two          *)
(* semaphores are updated at different times.                              *)
OutputNested == nest \in 0..N

(* As many brackets are closed as can be: when nobody can move any more,   *)
(* either all producers or all consumers are done, and a producer is left  *)
(* over only with N brackets open.                                         *)
NobodyStuckNeedlessly ==
  LET stuck == \A t \in Thread : ~ ENABLED ThreadStep(t)
  IN created = NThreads /\ Alive /\ stuck =>
       \/ Finished(Thread)
       \/ Finished(Consumer) /\ nest = N
       \/ Finished(Producer) /\ nest = 0

(* Of the threads that could be started, there are as many producers as    *)
(* consumers, or up to N more.                                             *)
Balanced ==
  LET producers == Cardinality(Producer \ Failed)
      consumers == Cardinality(Consumer \ Failed)
  IN consumers <= producers /\ producers <= consumers + N

(* over() runs exactly when the numbers allow it, counting the threads     *)
(* that really exist: a failed pthread_create, which nobody notices, may   *)
(* leave the others waiting for ever, or make an unbalanced program end.   *)
(* With the three producers and the one consumer of main() over() does not *)
(* run unless a producer fails to start.                                   *)
OverRunsIffBalanced ==
  /\ (created = NThreads /\ Balanced) ~> (main = "exited" \/ ~Alive)
  /\ [](main = "exited" => Balanced)
=============================================================================
