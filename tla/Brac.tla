-------------------------------- MODULE Brac --------------------------------
(***************************************************************************)
(* multi-threads/brac.c on the runtime of threads.h: threads print opening *)
(* and closing brackets; buff is the stack of open ones.  Openers sleep on *)
(* "empty" and are woken by closers only, closers sleep on "fill" and are  *)
(* woken by openers only.  putchar() happens outside the mutex, between    *)
(* the claim in brac_before and the update in brac_after.                  *)
(* No thread of this program returns, so join_all never gets past its      *)
(* first pthread_join.                                                     *)
(***************************************************************************)
EXTENDS Threads, Monitor, Sequences

CONSTANT roles           \* the characters of the C array roles[], in order

VARIABLES
  buff,        \* the stack of open brackets
  count,       \* its height, kept separately by the code
  quota,       \* 1 when nobody is printing a bracket
  pc,          \* thread -> where it is in brac_thread
  open         \* history: the output with every matched pair cancelled

vars == <<tvars, mvars, buff, count, quota, pc, open>>

NUL     == "NUL"
Opening == {"[", "("}
Closing == {"]", ")"}

ASSUME RolesAssumption ==
  /\ roles \in Seq(Opening \cup Closing)
  /\ NThreads = Len(roles)

ASSUME TwoCondVars == CondVar = {"empty", "fill"}

(* role = roles[id]: C counts from 0, and the element after the last one   *)
(* is the string's terminating NUL.                                        *)
role(t) == IF tid[t] < Len(roles) THEN roles[tid[t] + 1] ELSE NUL

(* The table of every stack that buff may become.                          *)
states == { <<"(", "(", "(", "(">>, <<"[", "(", "(", "(">>,
            <<"[", "[", "(", "(">>, <<"[", "[", "[", "(">>,
            <<"[", "[", "[", "[">>,
            <<"(", "(", "(">>, <<"[", "(", "(">>, <<"[", "[", "(">>,
            <<"[", "[", "[">>,
            <<"(", "(">>, <<"[", "(">>, <<"[", "[">>,
            <<"(">>, <<"[">> }

test_producer(ch) == Append(buff, ch) \in states

(* Wrong variant: any closing bracket closes any open one.                 *)
test_consumerAnyPartner(ch) == Len(buff) >= 1

test_consumer(ch) ==
  /\ Len(buff) >= 1
  /\ \/ buff[Len(buff)] = "(" /\ ch = ")"
     \/ buff[Len(buff)] = "[" /\ ch = "]"

PC == {"before", "test", "asleep", "putchar", "after", "update"}

TypeOK ==
  /\ ThreadsTypeOK
  /\ MonitorTypeOK(Thread)
  /\ buff \in states \cup {<<>>}
  /\ count \in 0..4
  /\ quota \in 0..1
  /\ pc \in [Thread -> PC]
  /\ open \in states \cup {<<>>}

Init ==
  /\ ThreadsInit
  /\ MonitorInit
  /\ buff = <<>>
  /\ count = 0
  /\ quota = 1
  /\ pc = [t \in Thread |-> "before"]
  /\ open = <<>>

Goto(t, from, to) ==
  /\ Running(t)
  /\ pc[t] = from
  /\ pc' = [pc EXCEPT ![t] = to]

Push(s, ch) == Append(s, ch)
Pop(s) == SubSeq(s, 1, Len(s) - 1)

Main ==
  /\ MainStep
  /\ UNCHANGED <<mvars, buff, count, quota, pc, open>>

Enter(t) ==
  /\ entry_all(t)
  /\ UNCHANGED <<mvars, buff, count, quota, pc, open>>

(* brac_before: take the mutex ...                                         *)
BeforeLock(t) ==
  /\ Goto(t, "before", "test")
  /\ mutex_lock(t)
  /\ UNCHANGED <<tvars, buff, count, quota, open>>

(* The condition variable of a role.                                       *)
cond(ch) == IF ch \in Opening THEN "empty" ELSE "fill"

(* Wrong variant: the test forgets that somebody may be printing.          *)
MustWaitIgnoresQuota(ch) ==
  \/ ch \in Opening /\ (~test_producer(ch) \/ count = 4)
  \/ ch \in Closing /\ (~test_consumer(ch) \/ count = 0)

MustWait(ch) ==
  \/ ch \in Opening /\ (~test_producer(ch) \/ quota # 1 \/ count = 4)
  \/ ch \in Closing /\ (~test_consumer(ch) \/ quota # 1 \/ count = 0)

(* ... wait while the bracket does not fit or somebody is printing ...     *)
BeforeWait(t) ==
  /\ MustWait(role(t))
  /\ Goto(t, "test", "asleep")
  /\ cond_wait(t, cond(role(t)))
  /\ UNCHANGED <<tvars, buff, count, quota, open>>

BeforeWakeup(t) ==
  /\ Goto(t, "asleep", "test")
  /\ cond_wakeup(t, cond(role(t)))
  /\ UNCHANGED <<tvars, buff, count, quota, open>>

(* ... claim the output (the NUL role falls through both branches) and     *)
(* release the mutex.                                                      *)
BeforeClaim(t) ==
  /\ ~MustWait(role(t))
  /\ Goto(t, "test", "putchar")
  /\ quota' = IF role(t) = NUL THEN quota ELSE quota - 1
  /\ mutex_unlock(t)
  /\ UNCHANGED <<tvars, buff, count, open>>

Matches(o, c) == <<o, c>> \in { <<"(", ")">>, <<"[", "]">> }

(* What a printed character does to the output with its matched pairs      *)
(* cancelled: only a closing bracket that matches the last one left        *)
(* cancels it.  A NUL shows nothing.                                       *)
Cancel(s, ch) ==
  IF ch = NUL THEN s
  ELSE IF s # <<>> /\ Matches(s[Len(s)], ch) THEN Pop(s) ELSE Push(s, ch)

Putchar(t) ==
  /\ Goto(t, "putchar", "after")
  /\ open' = Cancel(open, role(t))
  /\ UNCHANGED <<tvars, mvars, buff, count, quota>>

AfterLock(t) ==
  /\ Goto(t, "after", "update")
  /\ mutex_lock(t)
  /\ UNCHANGED <<tvars, buff, count, quota, open>>

(* Wrong variant: openers are woken instead of closers.                    *)
AfterOpenWakesOpeners(t) ==
  /\ role(t) \in Opening
  /\ Goto(t, "update", "before")
  /\ buff' = Push(buff, role(t))
  /\ count' = count + 1
  /\ quota' = quota + 1
  /\ cond_broadcast_unlock(t, "empty")
  /\ UNCHANGED <<tvars, open>>

AfterOpen(t) ==
  /\ role(t) \in Opening
  /\ Goto(t, "update", "before")
  /\ buff' = Push(buff, role(t))
  /\ count' = count + 1
  /\ quota' = quota + 1
  /\ cond_broadcast_unlock(t, "fill")
  /\ UNCHANGED <<tvars, open>>

(* Wrong variant: the height is not updated.                               *)
AfterCloseKeepsCount(t) ==
  /\ role(t) \in Closing
  /\ Goto(t, "update", "before")
  /\ buff' = Pop(buff)
  /\ quota' = quota + 1
  /\ cond_broadcast_unlock(t, "empty")
  /\ UNCHANGED <<tvars, count, open>>

AfterClose(t) ==
  /\ role(t) \in Closing
  /\ Goto(t, "update", "before")
  /\ buff' = Pop(buff)
  /\ count' = count - 1
  /\ quota' = quota + 1
  /\ cond_broadcast_unlock(t, "empty")
  /\ UNCHANGED <<tvars, open>>

AfterNul(t) ==
  /\ role(t) = NUL
  /\ Goto(t, "update", "before")
  /\ mutex_unlock(t)
  /\ UNCHANGED <<tvars, buff, count, quota, open>>

SpuriousWakeup(t) ==
  /\ Running(t)
  /\ \E cv \in CondVar : spurious_wakeup(t, cv)
  /\ UNCHANGED <<tvars, buff, count, quota, pc, open>>

ThreadStep(t) ==
  \/ Enter(t)
  \/ BeforeLock(t) \/ BeforeWait(t) \/ BeforeWakeup(t)
  \/ BeforeClaim(t)
  \/ Putchar(t)
  \/ AfterLock(t) \/ AfterOpen(t) \/ AfterClose(t) \/ AfterNul(t)

Next ==
  \/ Main
  \/ \E t \in Thread : ThreadStep(t) \/ SpuriousWakeup(t)

Spec == Init /\ [][Next]_vars

(* The scheduler runs every thread again that can run again and again;     *)
(* fairness is strong because the NUL thread, which never sleeps, frees    *)
(* the mutex and takes it again for ever.                                  *)
FairSpec ==
  /\ Spec
  /\ WF_vars(Main)
  /\ \A t \in Thread : SF_vars(ThreadStep(t))
-----------------------------------------------------------------------------
(* Bracket threads that have claimed the output and not yet updated buff.  *)
Printing == { t \in Thread : /\ role(t) # NUL
                             /\ pc[t] \in {"putchar", "after", "update"} }

(* At most one bracket thread is between its claim and its update.         *)
OnePrinter == \A t, u \in Printing : t = u

(* The test of brac_before still holds when brac_after acts on it, after   *)
(* the mutex was given up: the push stays inside the table (and the five   *)
(* bytes of buff), the pop removes the partner from a non-empty stack.     *)
ClaimStaysValid ==
  \A t \in Printing :
    /\ quota = 0
    /\ role(t) \in Opening => test_producer(role(t))
    /\ role(t) \in Closing => test_consumer(role(t))

(* buff and count, updated under the mutex, never drift from what has been *)
(* printed outside it: they lag by the one bracket being printed, if any.  *)
BuffFollowsOutput ==
  /\ count = Len(buff)
  /\ LET ahead == { t \in Printing : pc[t] \in {"after", "update"} }
     IN /\ ahead = {} => open = buff
        /\ \A t \in ahead : open = Cancel(buff, role(t))

(* The printed brackets are well matched, at most four deep, and no '[' is *)
(* inside a '('.                                                           *)
Output == INSTANCE BracOutput
PrintsBalanced == Output!Spec

(* Brackets are printed for ever under FairSpec, although openers never    *)
(* wake openers and closers never wake closers.                            *)
KeepsPrinting == WF_open(Output!Next)
=============================================================================
