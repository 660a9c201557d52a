------------------------------ MODULE Threads ------------------------------
(***************************************************************************)
(* The thread runtime of multi-threads/threads.h: create() pushes a node   *)
(* on a linked list and starts a thread on it, and the destructor          *)
(* join_all() pops the list, joining and freeing node after node, before   *)
(* it calls join_fn.  A node is named by the order of its malloc.          *)
(*                                                                         *)
(* A program extends this module, gives its threads a body guarded by      *)
(* Running(t), and ends the body with ThreadReturn(t).                     *)
(***************************************************************************)
EXTENDS Naturals, FiniteSets

CONSTANTS
  NThreads,      \* how many times main() calls create()
  MaxFailures    \* how many calls of malloc or pthread_create may fail

ASSUME NThreadsAssumption == NThreads \in Nat \ {0} /\ MaxFailures \in Nat

VARIABLES
  threads,     \* head of the list of nodes
  tnext,       \* node -> its next field
  tid,         \* node -> its id field
  created,     \* number of nodes allocated so far
  freed,       \* nodes that join_all has freed
  life,        \* node -> life cycle of the thread started on it
  main         \* where the main thread is

tvars == <<threads, tnext, tid, created, freed, life, main>>

NULL   == 0
Thread == 1..NThreads

Life == {"absent", "failed", "started", "running", "returned"}

ThreadsTypeOK ==
  /\ threads \in Thread \cup {NULL}
  /\ tnext \in [Thread -> Thread \cup {NULL}]
  /\ tid \in [Thread -> 0..NThreads]
  /\ created \in 0..NThreads
  /\ freed \subseteq Thread
  /\ life \in [Thread -> Life]
  /\ main \in {"create", "join_all", "exited", "crashed"}

ThreadsInit ==
  /\ threads = NULL
  /\ tnext = [t \in Thread |-> NULL]
  /\ tid = [t \in Thread |-> 0]
  /\ created = 0
  /\ freed = {}
  /\ life = [t \in Thread |-> "absent"]
  /\ main = "create"

Failed == { t \in Thread : life[t] = "failed" }

(* The process is there, and with it all its threads.                      *)
Alive == main # "crashed"

(* Wrong variant: the new node is not linked to the list.                  *)
linkMissing(cur) == UNCHANGED tnext

link(cur) == tnext' = [tnext EXCEPT ![cur] = threads]

(* External.  create() does not look at the result.                        *)
pthread_create(cur) ==
  \/ life' = [life EXCEPT ![cur] = "started"]
  \/ /\ Cardinality(Failed) < MaxFailures
     /\ life' = [life EXCEPT ![cur] = "failed"]

(* create(fn): ids count up from 1, the new node becomes the list head,    *)
(* and stays in the list if no thread could be started on it.              *)
create ==
  /\ main = "create"
  /\ created < NThreads
  /\ LET cur == created + 1
     IN /\ created' = cur
        /\ tid' = [tid EXCEPT ![cur] =
                     IF threads # NULL THEN tid[threads] + 1 ELSE 1]
        /\ link(cur)
        /\ threads' = cur
        /\ pthread_create(cur)
  /\ UNCHANGED <<freed, main>>

(* assert(cur) in create(): the process aborts.                            *)
malloc_fails ==
  /\ main = "create"
  /\ created < NThreads
  /\ MaxFailures > 0
  /\ main' = "crashed"
  /\ UNCHANGED <<threads, tnext, tid, created, freed, life>>

(* main() calls join(fn) after its create loop and returns.                *)
join ==
  /\ main = "create"
  /\ created = NThreads
  /\ main' = "join_all"
  /\ UNCHANGED <<threads, tnext, tid, created, freed, life>>

(* Wrong variant: the node is freed without pthread_join.                  *)
pthread_joinMissing(t) == TRUE

(* pthread_join(threads->thread) returns: the thread has returned, or the  *)
(* handle is one that pthread_create never set.                            *)
pthread_join(t) == life[t] \in {"returned", "failed"}

(* One round of join_all's loop: the head node's thread is joined and the  *)
(* node freed.                                                             *)
join_one ==
  /\ main = "join_all"
  /\ threads # NULL
  /\ pthread_join(threads)
  /\ freed' = freed \cup {threads}
  /\ threads' = tnext[threads]
  /\ UNCHANGED <<tnext, tid, created, life, main>>

(* pthread_join with such a handle may also crash.                         *)
join_crashes ==
  /\ main = "join_all"
  /\ threads # NULL
  /\ threads \in Failed
  /\ main' = "crashed"
  /\ UNCHANGED <<threads, tnext, tid, created, freed, life>>

(* The list is empty: join_all calls join_fn.                              *)
call_join_fn ==
  /\ main = "join_all"
  /\ threads = NULL
  /\ main' = "exited"
  /\ UNCHANGED <<threads, tnext, tid, created, freed, life>>

(* entry_all: the new thread reads its node and enters the program's body. *)
entry_all(t) ==
  /\ Alive
  /\ life[t] = "started"
  /\ life' = [life EXCEPT ![t] = "running"]
  /\ UNCHANGED <<threads, tnext, tid, created, freed, main>>

Entered(t) == life[t] = "running"
Running(t) == Entered(t) /\ Alive

ThreadReturn(t) ==
  /\ Running(t)
  /\ life' = [life EXCEPT ![t] = "returned"]
  /\ UNCHANGED <<threads, tnext, tid, created, freed, main>>

MainStep == create \/ malloc_fails \/ join \/ join_one \/ join_crashes

(* What any program built on threads.h may do to the runtime's state.      *)
ThreadsNext ==
  \/ MainStep
  \/ call_join_fn
  \/ \E t \in Thread : entry_all(t) \/ ThreadReturn(t)

ThreadsSpec == ThreadsInit /\ [][ThreadsNext]_tvars
-----------------------------------------------------------------------------
(* No thread that may still read its node (thread->entry and thread->id in *)
(* entry_all) finds it freed by join_all.                                  *)
NodeNotFreedWhileUsed ==
  \A t \in Thread : life[t] \in {"started", "running"} => t \notin freed

(* join_fn runs after every thread that was started has returned and every *)
(* node has been freed: popping the list from its head misses none, also   *)
(* when some pthread_create in the middle has failed unnoticed.            *)
JoinFnRunsLast ==
  main = "exited" => freed = Thread /\ \A t \in Thread \ Failed : life[t] = "returned"
=============================================================================
