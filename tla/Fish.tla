-------------------------------- MODULE Fish --------------------------------
(***************************************************************************)
(* multi-threads/fish.c on the runtime of threads.h: every thread prints   *)
(* one character for ever, and a state machine behind a mutex and one      *)
(* condition variable lets only those characters through that continue a   *)
(* fish.  putchar() happens outside the mutex: a thread claims the right   *)
(* to print (quota) in fish_before and gives it back in fish_after.        *)
(* No thread of this program returns, so join_all never gets past its      *)
(* first pthread_join.                                                     *)
(***************************************************************************)
EXTENDS Threads, Monitor, Sequences

CONSTANT roles           \* the characters of the C array roles[], in order

VARIABLES
  current,     \* state of the fish automaton
  quota,       \* 1 when nobody is printing
  pc,          \* thread -> where it is in fish_thread
  line         \* what standard output holds of the current fish

vars == <<tvars, mvars, current, quota, pc, line>>

NUL == "NUL"
Ch  == {"<", ">", "__", NUL}

ASSUME RolesAssumption ==
  /\ roles \in Seq({"<", ">", "__"})
  /\ NThreads = Len(roles)

ASSUME OneCondVar == CondVar = {"cv"}

(* role = roles[id]: C counts from 0, and the element after the last one   *)
(* is the string's terminating NUL.                                        *)
role(t) == IF tid[t] < Len(roles) THEN roles[tid[t] + 1] ELSE NUL

Dead  == "0"                               \* next() found no rule
State == {"A", "B", "C", "D", "E", "F"}

rules == { [from |-> "A", ch |-> ">", to |-> "B"],
           [from |-> "B", ch |-> "<", to |-> "C"],
           [from |-> "C", ch |-> ">", to |-> "D"],
           [from |-> "D", ch |-> "__", to |-> "A"],
           [from |-> "A", ch |-> "<", to |-> "E"],
           [from |-> "E", ch |-> ">", to |-> "F"],
           [from |-> "F", ch |-> "<", to |-> "D"] }

Matching(st, ch) == { r \in rules : r.from = st /\ r.ch = ch }

next(st, ch) ==
  IF Matching(st, ch) = {} THEN Dead ELSE (CHOOSE r \in Matching(st, ch) : TRUE).to

PC == {"before", "test", "asleep", "putchar", "after", "update"}

TypeOK ==
  /\ ThreadsTypeOK
  /\ MonitorTypeOK(Thread)
  /\ current \in State \cup {Dead}
  /\ quota \in 0..1
  /\ pc \in [Thread -> PC]
  /\ line \in Seq(Ch)

Init ==
  /\ ThreadsInit
  /\ MonitorInit
  /\ current = "A"
  /\ quota = 1
  /\ pc = [t \in Thread |-> "before"]
  /\ line = <<>>

Goto(t, from, to) ==
  /\ Running(t)
  /\ pc[t] = from
  /\ pc' = [pc EXCEPT ![t] = to]

Main ==
  /\ MainStep
  /\ UNCHANGED <<mvars, current, quota, pc, line>>

Enter(t) ==
  /\ entry_all(t)
  /\ UNCHANGED <<mvars, current, quota, pc, line>>

(* fish_before: take the mutex ...                                         *)
BeforeLock(t) ==
  /\ Goto(t, "before", "test")
  /\ mutex_lock(t)
  /\ UNCHANGED <<tvars, current, quota, line>>

(* Wrong variant: the test forgets that somebody may be printing.          *)
MustWaitIgnoresQuota(t) == next(current, role(t)) = Dead

MustWait(t) == next(current, role(t)) = Dead \/ quota = 0

(* ... wait while the character does not fit or somebody is printing ...   *)
BeforeWait(t) ==
  /\ MustWait(t)
  /\ Goto(t, "test", "asleep")
  /\ cond_wait(t, "cv")
  /\ UNCHANGED <<tvars, current, quota, line>>

BeforeWakeup(t) ==
  /\ Goto(t, "asleep", "test")
  /\ cond_wakeup(t, "cv")
  /\ UNCHANGED <<tvars, current, quota, line>>

(* ... claim the output and release the mutex.                             *)
BeforeClaim(t) ==
  /\ ~MustWait(t)
  /\ Goto(t, "test", "putchar")
  /\ quota' = quota - 1
  /\ mutex_unlock(t)
  /\ UNCHANGED <<tvars, current, line>>

(* line is history: '_' ends a fish.                                       *)
Putchar(t) ==
  /\ Goto(t, "putchar", "after")
  /\ line' = IF role(t) = "__" THEN <<>> ELSE Append(line, role(t))
  /\ UNCHANGED <<tvars, mvars, current, quota>>

AfterLock(t) ==
  /\ Goto(t, "after", "update")
  /\ mutex_lock(t)
  /\ UNCHANGED <<tvars, current, quota, line>>

(* Wrong variant: the automaton does not move.                             *)
AfterUpdateKeepsState(t) ==
  /\ Goto(t, "update", "before")
  /\ quota' = quota + 1
  /\ cond_broadcast_unlock(t, "cv")
  /\ UNCHANGED <<tvars, current, line>>

(* Wrong variant: COND_SIGNAL, which wakes one sleeper, for the broadcast. *)
AfterUpdateSignals(t) ==
  /\ Goto(t, "update", "before")
  /\ current' = next(current, role(t))
  /\ quota' = quota + 1
  /\ mutex = t /\ mutex' = NoThread
  /\ \/ sleepers["cv"] = {} /\ UNCHANGED sleepers
     \/ \E u \in sleepers["cv"] : sleepers' = [sleepers EXCEPT !["cv"] = @ \ {u}]
  /\ UNCHANGED <<tvars, spurious, line>>

AfterUpdate(t) ==
  /\ Goto(t, "update", "before")
  /\ current' = next(current, role(t))
  /\ quota' = quota + 1
  /\ cond_broadcast_unlock(t, "cv")
  /\ UNCHANGED <<tvars, line>>

SpuriousWakeup(t) ==
  /\ Running(t)
  /\ spurious_wakeup(t, "cv")
  /\ UNCHANGED <<tvars, current, quota, pc, line>>

ThreadStep(t) ==
  \/ Enter(t)
  \/ BeforeLock(t) \/ BeforeWait(t) \/ BeforeWakeup(t)
  \/ BeforeClaim(t)
  \/ Putchar(t)
  \/ AfterLock(t) \/ AfterUpdate(t)

Next ==
  \/ Main
  \/ \E t \in Thread : ThreadStep(t) \/ SpuriousWakeup(t)

Spec == Init /\ [][Next]_vars

(* Every thread that can run is scheduled again; the mutex need not be     *)
(* fair.                                                                   *)
FairSpec ==
  /\ Spec
  /\ WF_vars(Main)
  /\ \A t \in Thread : WF_vars(ThreadStep(t))
-----------------------------------------------------------------------------
(* Threads that have claimed the output and not yet given it back.         *)
Printing == { t \in Thread : pc[t] \in {"putchar", "after", "update"} }

(* The state tested in fish_before is still the state when fish_after uses *)
(* it, although the mutex was released in between: the printing thread's   *)
(* character always has a rule, so current never becomes 0.                *)
ClaimStaysValid ==
  /\ current # Dead
  /\ \A t \in Printing : quota = 0 /\ next(current, role(t)) # Dead

(* At most one thread is between fish_before and the end of fish_after's   *)
(* update, so the characters reach standard output one at a time.          *)
OnePrinter == \A t, u \in Printing : t = u

(* Whatever the interleaving, what is printed is a sequence of fish.       *)
Output == INSTANCE FishOutput
PrintsFish == Output!Spec

(* Printing never stops under FairSpec: no wakeup of COND_BROADCAST is     *)
(* lost, and the thread whose role is the NUL only sleeps.                 *)
KeepsPrinting == WF_line(Output!Next)
=============================================================================
