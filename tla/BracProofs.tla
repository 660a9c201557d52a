----------------------------- MODULE BracProofs -----------------------------
(***************************************************************************)
(* Proofs about brac.c, for any roles array and any number of threads: the *)
(* brackets reach standard output one at a time, buff and count follow     *)
(* them, and the program implements BracOutput.                            *)
(***************************************************************************)
EXTENDS Brac, ThreadsProofs

(* The mutex is held exactly by the thread that is inside it.              *)
MutexInv == \A t \in Thread : mutex = t <=> pc[t] \in {"test", "update"}

(* Only a thread that entry_all has started is past its first statement.   *)
RunInv == \A t \in Thread : pc[t] # "before" => Entered(t)

(* quota is 0 exactly when a bracket thread is printing.                   *)
QuotaInv == Printing = {} => quota = 1

BracInv ==
  /\ ThreadsInv
  /\ TypeOK
  /\ MutexInv
  /\ RunInv
  /\ QuotaInv
  /\ OnePrinter
  /\ ClaimStaysValid
  /\ BuffFollowsOutput

Stack == states \cup {<<>>}
-----------------------------------------------------------------------------
(* A stack of the table has one to four opening brackets ...               *)
LEMMA StateShape ==
  ASSUME NEW s \in states
  PROVE  \E a, b, c, d \in Opening :
           s = <<a, b, c, d>> \/ s = <<a, b, c>> \/ s = <<a, b>> \/ s = <<a>>
<1>1. "(" \in Opening /\ "[" \in Opening
  BY DEF Opening
<1> QED
  BY <1>1 DEF states

(* ... and a "[" on top of it lies on nothing but "[".                     *)
LEMMA StateOrder ==
  ASSUME NEW s \in states, s[Len(s)] = "["
  PROVE  \A i \in 1..Len(s) : s[i] = "["
BY DEF states

(* The table is closed under removing the top.                             *)
LEMMA StatePop ==
  ASSUME NEW s \in states
  PROVE  /\ s \in Seq(Opening) /\ Len(s) \in 1..4
         /\ Pop(s) \in Stack /\ Len(Pop(s)) = Len(s) - 1
<1> USE DEF Pop, Stack, states
<1>0. "(" \in Opening /\ "[" \in Opening
  BY DEF Opening
<1>1. CASE \E a, b, c, d \in Opening : s = <<a, b, c, d>>
  <2>1. PICK a \in Opening, b \in Opening, c \in Opening, d \in Opening : s = <<a, b, c, d>>
    BY <1>1
  <2>2. Len(s) = 4 /\ Pop(s) = <<a, b, c>>
    BY <2>1, Front4
  <2>3. <<a, b, c>> \in states
    BY <2>1
  <2> QED
    BY <2>1, <2>2, <2>3
<1>2. CASE \E a, b, c \in Opening : s = <<a, b, c>>
  <2>1. PICK a \in Opening, b \in Opening, c \in Opening : s = <<a, b, c>>
    BY <1>2
  <2>2. Len(s) = 3 /\ Pop(s) = <<a, b>>
    BY <2>1, Front3
  <2>3. <<a, b>> \in states
    BY <2>1
  <2> QED
    BY <2>1, <2>2, <2>3
<1>3. CASE \E a, b \in Opening : s = <<a, b>>
  <2>1. PICK a \in Opening, b \in Opening : s = <<a, b>>
    BY <1>3
  <2>2. Len(s) = 2 /\ Pop(s) = <<a>>
    BY <2>1, Front2
  <2>3. <<a>> \in states
    BY <2>1 DEF Opening
  <2> QED
    BY <2>1, <2>2, <2>3
<1>4. CASE \E a \in Opening : s = <<a>>
  <2>1. PICK a \in Opening : s = <<a>>
    BY <1>4
  <2>2. Len(s) = 1 /\ Pop(s) = <<>>
    BY <2>1, Front1
  <2> QED
    BY <2>1, <2>2
<1> HIDE DEF Pop, Stack, states
<1> QED
  BY <1>1, <1>2, <1>3, <1>4, StateShape

-----------------------------------------------------------------------------
(* A role is a bracket, or the NUL at the end of roles[].                  *)
LEMMA RoleType ==
  ASSUME TypeOK, NEW t \in Thread
  PROVE  role(t) \in Opening \cup Closing \cup {NUL}
<1>1. roles \in Seq(Opening \cup Closing) /\ tid[t] \in Nat
  BY RolesAssumption DEF TypeOK, ThreadsTypeOK
<1>2. CASE tid[t] < Len(roles)
  <2>1. roles[tid[t] + 1] \in Opening \cup Closing
    BY <1>1, <1>2
  <2> QED
    BY <1>2, <2>1 DEF role
<1>3. CASE ~(tid[t] < Len(roles))
  BY <1>3 DEF role
<1> QED
  BY <1>2, <1>3

(* The three kinds of role are distinct.                                   *)
LEMMA RoleKinds ==
  /\ Opening \cap Closing = {} /\ NUL \notin Opening /\ NUL \notin Closing
BY DEF Opening, Closing, NUL

(* A thread keeps its role once entry_all has run it.                      *)
LEMMA RoleStable ==
  ASSUME ThreadsInv, ThreadsInv', NEW t \in Thread, Entered(t), Entered(t)'
  PROVE  role(t)' = role(t)
<1>1. t <= created /\ t <= created'
  BY DEF ThreadsInv, LifeInv, ThreadsTypeOK, Entered, Thread
<1>2. tid[t] = t /\ tid'[t] = t
  BY <1>1, NThreadsAssumption DEF ThreadsInv, ListInv, ThreadsTypeOK, Thread
<1> QED
  BY <1>2 DEF role

(* A step of brac_thread leaves every role alone.                          *)
LEMMA SameRoles == ASSUME UNCHANGED tvars PROVE \A t : role(t)' = role(t)
BY DEF tvars, role

(* Every step of brac.c is a step of the runtime.                          *)
LEMMA BracStepsThreads == [Next]_vars => [ThreadsNext]_tvars
BY DEF Next, vars, Main, ThreadStep, Enter, BeforeLock, BeforeWait, BeforeWakeup, BeforeClaim,
       Putchar, AfterLock, AfterOpen, AfterClose, AfterNul, SpuriousWakeup, ThreadsNext, tvars

(* What of the invariant a step must bring about; the runtime's part comes *)
(* from ThreadsProofs.                                                     *)
StepInv ==
  /\ TypeOK /\ MutexInv /\ RunInv /\ QuotaInv
  /\ OnePrinter /\ ClaimStaysValid /\ BuffFollowsOutput

(* The printing threads that have printed and not yet updated buff.        *)
Ahead == { t \in Printing : pc[t] \in {"after", "update"} }

(* BuffFollowsOutput with its abbreviation.                                *)
LEMMA FollowsDef ==
  BuffFollowsOutput <=> /\ count = Len(buff)
                        /\ Ahead = {} => open = buff
                        /\ \A t \in Ahead : open = Cancel(buff, role(t))
BY DEF BuffFollowsOutput, Ahead

(* The same about the next state.                                          *)
LEMMA FollowsDefNext ==
  BuffFollowsOutput' <=> /\ count' = Len(buff')
                         /\ Ahead' = {} => open' = buff'
                         /\ \A t \in Ahead' : open' = Cancel(buff', role(t)')
BY DEF BuffFollowsOutput, Ahead, Cancel, Push, Pop, Matches

(* The invariant holds when main() starts.                                 *)
LEMMA BracInitInv == Init => BracInv
<1> SUFFICES ASSUME Init PROVE BracInv
  OBVIOUS
<1>1. ThreadsInv
  BY ThreadsInitInv DEF Init
<1>2. TypeOK
  BY <1>1, TwoCondVars, MonitorAssumption
  DEF Init, TypeOK, MonitorInit, MonitorTypeOK, NoThread, ThreadsInv, PC
<1>3. Printing = {} /\ Ahead = {}
  BY DEF Init, Printing, Ahead
<1>4. MutexInv /\ RunInv /\ QuotaInv /\ OnePrinter /\ ClaimStaysValid
  BY <1>3, NThreadsAssumption
  DEF Init, MonitorInit, NoThread, MutexInv, RunInv, QuotaInv, OnePrinter, ClaimStaysValid, Thread
<1>5. BuffFollowsOutput
  BY <1>3, FollowsDef DEF Init
<1> QED
  BY <1>1, <1>2, <1>4, <1>5 DEF BracInv

(* Steps of the runtime leave the claims of the printing threads alone.    *)
LEMMA RuntimeStep ==
  ASSUME BracInv, ThreadsInv', ThreadsTypeOK',
         UNCHANGED <<mvars, buff, count, quota, pc, open>>,
         \A t \in Thread : Entered(t) => Entered(t)'
  PROVE  StepInv'
<1> USE DEF BracInv, StepInv
<1>1. \A t \in Thread : pc[t] # "before" => role(t)' = role(t)
  BY RoleStable DEF RunInv
<1>2. TypeOK'
  BY DEF TypeOK, MonitorTypeOK, mvars
<1>3. Printing' = Printing /\ Ahead' = Ahead
  BY <1>1 DEF Printing, Ahead
<1>4. MutexInv' /\ RunInv' /\ QuotaInv' /\ OnePrinter'
  BY <1>3 DEF MutexInv, RunInv, QuotaInv, OnePrinter, mvars
<1>5. \A t \in Printing : role(t)' = role(t)
  BY <1>1 DEF Printing
<1>6. ClaimStaysValid'
  BY <1>3, <1>5 DEF ClaimStaysValid, test_producer, test_consumer
<1>7. BuffFollowsOutput'
  BY <1>3, <1>5, FollowsDef, FollowsDefNext DEF Ahead
<1> QED
  BY <1>2, <1>4, <1>6, <1>7

(* Taking the mutex, sleeping, waking up, and the whole round of a NUL     *)
(* thread, keep the claims.                                                *)
LEMMA WaitingStep ==
  ASSUME BracInv, NEW t \in Thread,
         \/ BeforeLock(t) \/ BeforeWait(t) \/ BeforeWakeup(t)
         \/ AfterLock(t) \/ SpuriousWakeup(t) \/ AfterNul(t)
         \/ role(t) = NUL /\ (BeforeClaim(t) \/ Putchar(t))
  PROVE  StepInv'
<1> USE DEF BracInv, StepInv
<1>1. UNCHANGED <<tvars, buff, count, quota, open>>
  BY DEF BeforeLock, BeforeWait, BeforeWakeup, AfterLock, SpuriousWakeup, AfterNul,
     BeforeClaim, Putchar, Cancel
<1>2. /\ pc' \in [Thread -> PC]
      /\ \A u \in Thread : pc[u] # pc'[u] => u = t /\ Entered(t)
  BY DEF TypeOK, PC, Goto, Running, BeforeLock, BeforeWait, BeforeWakeup, AfterLock, SpuriousWakeup,
     AfterNul, BeforeClaim, Putchar
<1>3. Printing' = Printing /\ Ahead' = Ahead
  <2>1. \A u : role(u)' = role(u)
    BY <1>1, SameRoles
  <2>2. \A u \in Thread : role(u) # NUL =>
          /\ pc[u] \in {"putchar", "after", "update"} <=> pc'[u] \in {"putchar", "after", "update"}
          /\ pc[u] \in {"after", "update"} <=> pc'[u] \in {"after", "update"}
    BY DEF TypeOK, PC, Goto, Running, BeforeLock, BeforeWait, BeforeWakeup, AfterLock, SpuriousWakeup,
       AfterNul, BeforeClaim, Putchar
  <2> QED
    BY <2>1, <2>2 DEF Printing, Ahead
<1>4. MonitorTypeOK(Thread)'
  BY TwoCondVars, MonitorAssumption DEF TypeOK, MonitorTypeOK, NoThread, mvars, cond,
     BeforeLock, BeforeWait, BeforeWakeup, AfterLock, SpuriousWakeup, AfterNul, BeforeClaim, Putchar,
     mutex_lock, mutex_unlock, cond_wait, cond_wakeup, spurious_wakeup
<1>5. TypeOK'
  BY <1>1, <1>2, <1>4 DEF TypeOK, ThreadsTypeOK, tvars
<1>6. MutexInv'
  BY NThreadsAssumption DEF TypeOK, MutexInv, NoThread, Thread, Goto, Running, mvars,
     BeforeLock, BeforeWait, BeforeWakeup, AfterLock, SpuriousWakeup, AfterNul, BeforeClaim, Putchar,
     mutex_lock, mutex_unlock, cond_wait, cond_wakeup, spurious_wakeup
<1>7. RunInv'
  BY <1>1, <1>2 DEF RunInv, Entered, tvars
<1>8. QuotaInv' /\ OnePrinter'
  BY <1>1, <1>3 DEF QuotaInv, OnePrinter
<1>9. ClaimStaysValid'
  BY <1>1, <1>3, SameRoles DEF ClaimStaysValid, test_producer, test_consumer
<1>10. BuffFollowsOutput'
  BY <1>1, <1>3, SameRoles, FollowsDef, FollowsDefNext
<1> QED
  BY <1>5, <1>6, <1>7, <1>8, <1>9, <1>10

(* A claim makes t the only printing bracket thread.                       *)
LEMMA ClaimStep ==
  ASSUME BracInv, NEW t \in Thread, role(t) # NUL, BeforeClaim(t)
  PROVE  StepInv'
<1> USE DEF BracInv, StepInv
<1>1. /\ UNCHANGED <<tvars, buff, count, open, sleepers, spurious>>
      /\ pc[t] = "test" /\ mutex = t /\ mutex' = NoThread
      /\ pc' = [pc EXCEPT ![t] = "putchar"] /\ quota' = quota - 1
      /\ Entered(t)
  BY DEF BeforeClaim, Goto, Running, mutex_unlock
<1>2. /\ quota = 1
      /\ role(t) \in Opening => test_producer(role(t))
      /\ role(t) \in Closing => test_consumer(role(t))
  BY RoleType DEF BeforeClaim, MustWait
<1>3. Printing = {}
  BY <1>2 DEF ClaimStaysValid
<1>4. Printing' = {t} /\ Ahead' = {} /\ Ahead = {}
  BY <1>1, <1>3, SameRoles DEF Printing, Ahead, TypeOK
<1>5. TypeOK'
  BY <1>1, <1>2 DEF TypeOK, ThreadsTypeOK, MonitorTypeOK, tvars, PC
<1>6. MutexInv' /\ RunInv'
  BY <1>1, NThreadsAssumption DEF MutexInv, RunInv, TypeOK, NoThread, Thread, Entered, tvars
<1>7. QuotaInv' /\ OnePrinter'
  BY <1>4 DEF QuotaInv, OnePrinter
<1>8. ClaimStaysValid'
  BY <1>1, <1>2, <1>4, SameRoles DEF ClaimStaysValid, test_producer, test_consumer
<1>9. BuffFollowsOutput'
  BY <1>1, <1>4, FollowsDef, FollowsDefNext
<1> QED
  BY <1>5, <1>6, <1>7, <1>8, <1>9

(* An opening bracket is added to what is left of the output ...           *)
LEMMA CancelOpening == ASSUME NEW s, NEW ch \in Opening PROVE Cancel(s, ch) = Push(s, ch)
<1>1. ch # NUL /\ \A o : ~Matches(o, ch)
  BY DEF Matches, Opening, NUL
<1> QED
  BY <1>1 DEF Cancel

(* ... and one that test_consumer lets through takes its partner away.     *)
LEMMA CancelClosing ==
  ASSUME NEW ch \in Closing, test_consumer(ch)
  PROVE  Cancel(buff, ch) = Pop(buff) /\ buff # <<>>
<1>1. ch # NUL /\ Matches(buff[Len(buff)], ch) /\ buff # <<>>
  BY DEF Matches, Closing, NUL, test_consumer
<1> QED
  BY <1>1 DEF Cancel

(* The stack that a claimed bracket leads to is in the table or empty.     *)
LEMMA CancelStack ==
  ASSUME TypeOK, ClaimStaysValid, NEW t \in Printing
  PROVE  Cancel(buff, role(t)) \in Stack
<1>1. CASE role(t) \in Opening
  BY <1>1, CancelOpening DEF ClaimStaysValid, test_producer, Push, Stack
<1>2. CASE role(t) \in Closing
  <2>1. Cancel(buff, role(t)) = Pop(buff) /\ buff # <<>>
    BY <1>2, CancelClosing DEF ClaimStaysValid
  <2>2. buff \in states
    BY <2>1 DEF TypeOK
  <2> QED
    BY <2>1, <2>2, StatePop
<1> QED
  BY <1>1, <1>2, RoleType DEF Printing

(* A bracket goes out: the output is one bracket ahead of buff.            *)
LEMMA PutcharStep ==
  ASSUME BracInv, NEW t \in Thread, role(t) # NUL, Putchar(t)
  PROVE  StepInv'
<1> USE DEF BracInv, StepInv
<1>1. /\ UNCHANGED <<tvars, mvars, buff, count, quota>>
      /\ pc[t] = "putchar" /\ Entered(t)
      /\ pc' = [pc EXCEPT ![t] = "after"]
      /\ open' = Cancel(open, role(t))
  BY DEF Putchar, Goto, Running
<1>2. t \in Printing /\ Printing' = Printing /\ Ahead = {} /\ Ahead' = {t}
  BY <1>1, SameRoles DEF Printing, Ahead, TypeOK, OnePrinter
<1>3. open = buff /\ open' = Cancel(buff, role(t)) /\ open' \in Stack
  BY <1>1, <1>2, FollowsDef, CancelStack
<1>4. TypeOK'
  BY <1>1, <1>3 DEF TypeOK, ThreadsTypeOK, MonitorTypeOK, tvars, mvars, PC, Stack
<1>5. MutexInv' /\ RunInv'
  BY <1>1 DEF MutexInv, RunInv, TypeOK, Entered, tvars, mvars
<1>6. QuotaInv' /\ OnePrinter'
  BY <1>1, <1>2 DEF QuotaInv, OnePrinter
<1>7. ClaimStaysValid'
  BY <1>1, <1>2, SameRoles DEF ClaimStaysValid, test_producer, test_consumer
<1>8. BuffFollowsOutput'
  BY <1>1, <1>2, <1>3, SameRoles, FollowsDef, FollowsDefNext
<1> QED
  BY <1>4, <1>5, <1>6, <1>7, <1>8

(* brac_after: buff catches up with the output.                            *)
LEMMA UpdateStep ==
  ASSUME BracInv, NEW t \in Thread, AfterOpen(t) \/ AfterClose(t)
  PROVE  StepInv'
<1> USE DEF BracInv, StepInv
<1>1. /\ UNCHANGED <<tvars, open, spurious>>
      /\ pc[t] = "update" /\ Entered(t) /\ role(t) # NUL
      /\ pc' = [pc EXCEPT ![t] = "before"]
      /\ quota' = quota + 1
      /\ mutex = t /\ mutex' = NoThread
      /\ \E cv \in CondVar : sleepers' = [sleepers EXCEPT ![cv] = {}]
  BY TwoCondVars, RoleKinds DEF AfterOpen, AfterClose, Goto, Running, cond_broadcast_unlock
<1>2. t \in Printing /\ t \in Ahead /\ Printing' = {} /\ Ahead' = {}
  BY <1>1, SameRoles DEF Printing, Ahead, TypeOK, OnePrinter
<1>3. open = Cancel(buff, role(t)) /\ quota = 0 /\ count = Len(buff)
  BY <1>2, FollowsDef DEF ClaimStaysValid
<1>4. /\ buff' = Cancel(buff, role(t))
      /\ count' = Len(buff') /\ count' \in 0..4
  <2>1. CASE AfterOpen(t)
    <3>1. role(t) \in Opening /\ buff' = Push(buff, role(t)) /\ count' = count + 1
      BY <2>1 DEF AfterOpen
    <3>2. buff' \in states
      BY <1>2, <3>1 DEF ClaimStaysValid, test_producer, Push
    <3>3. buff \in Seq(Opening)
      <4>1. CASE buff \in states
        BY <4>1, StatePop
      <4>2. CASE buff = <<>>
        BY <4>2
      <4> QED
        BY <4>1, <4>2 DEF TypeOK
    <3>4. Len(buff') = Len(buff) + 1 /\ Len(buff) \in Nat
      BY <3>1, <3>3 DEF Push
    <3>5. Len(buff') \in 1..4
      BY <3>2, StatePop
    <3>6. count' = Len(buff')
      BY <1>3, <3>1, <3>4
    <3>7. buff' = Cancel(buff, role(t))
      BY <3>1, CancelOpening
    <3> QED
      BY <3>5, <3>6, <3>7
  <2>2. CASE AfterClose(t)
    <3>1. role(t) \in Closing /\ buff' = Pop(buff) /\ count' = count - 1
      BY <2>2 DEF AfterClose
    <3>2. Cancel(buff, role(t)) = Pop(buff) /\ buff \in states
      BY <1>2, <3>1, CancelClosing DEF ClaimStaysValid, TypeOK
    <3>3. Len(buff) \in 1..4 /\ Len(Pop(buff)) = Len(buff) - 1
      BY <3>2, StatePop
    <3>4. count' = Len(buff') /\ count' \in 0..4
      BY <1>3, <3>1, <3>3
    <3> QED
      BY <3>1, <3>2, <3>4
  <2> QED
    BY <2>1, <2>2
<1>5. TypeOK'
  BY <1>1, <1>2, <1>3, <1>4, CancelStack
  DEF TypeOK, ThreadsTypeOK, MonitorTypeOK, tvars, PC, NoThread, Stack
<1>6. MutexInv' /\ RunInv'
  BY <1>1, NThreadsAssumption DEF MutexInv, RunInv, TypeOK, NoThread, Thread, Entered, tvars
<1>7. QuotaInv' /\ OnePrinter' /\ ClaimStaysValid'
  BY <1>1, <1>2, <1>3 DEF QuotaInv, OnePrinter, ClaimStaysValid
<1>8. BuffFollowsOutput'
  BY <1>1, <1>2, <1>3, <1>4, FollowsDefNext
<1> QED
  BY <1>5, <1>6, <1>7, <1>8
-----------------------------------------------------------------------------
(* Every step of brac.c preserves the invariant.                           *)
LEMMA BracStepInv == BracInv /\ [Next]_vars => BracInv'
<1> SUFFICES ASSUME BracInv, [Next]_vars PROVE BracInv'
  OBVIOUS
<1>0. ThreadsInv' /\ ThreadsTypeOK'
  BY BracStepsThreads, ThreadsStepInv DEF BracInv, ThreadsInv
<1>a. SUFFICES StepInv'
  BY <1>0 DEF BracInv, StepInv
<1>1. CASE Main
  <2>1. \A t \in Thread : Entered(t) => Entered(t)'
    <3>1. CASE create
      <4>1. \A t \in Thread : Entered(t) => t # created + 1
        BY DEF Entered, BracInv, ThreadsInv, ThreadsTypeOK, LifeInv, Thread
      <4> QED
        BY <3>1, <4>1 DEF create, pthread_create, Entered, BracInv, ThreadsInv, ThreadsTypeOK
    <3>2. CASE malloc_fails \/ join \/ join_one \/ join_crashes
      BY <3>2 DEF malloc_fails, join, join_one, join_crashes, Entered
    <3> QED
      BY <1>1, <3>1, <3>2 DEF Main, MainStep
  <2> QED
    BY <1>0, <1>1, <2>1, RuntimeStep DEF Main
<1>2. ASSUME NEW t \in Thread, Enter(t) PROVE StepInv'
  <2>1. \A u \in Thread : Entered(u) => Entered(u)'
    BY <1>2 DEF Enter, entry_all, Entered, BracInv, ThreadsInv, ThreadsTypeOK
  <2> QED
    BY <1>0, <1>2, <2>1, RuntimeStep DEF Enter
<1>3. ASSUME NEW t \in Thread,
             \/ BeforeLock(t) \/ BeforeWait(t) \/ BeforeWakeup(t)
             \/ AfterLock(t) \/ SpuriousWakeup(t) \/ AfterNul(t)
      PROVE  StepInv'
  BY <1>3, WaitingStep
<1>4. ASSUME NEW t \in Thread, BeforeClaim(t) PROVE StepInv'
  BY <1>4, WaitingStep, ClaimStep
<1>5. ASSUME NEW t \in Thread, Putchar(t) PROVE StepInv'
  BY <1>5, WaitingStep, PutcharStep
<1>6. ASSUME NEW t \in Thread, AfterOpen(t) \/ AfterClose(t) PROVE StepInv'
  BY <1>6, UpdateStep
<1>7. CASE UNCHANGED vars
  BY <1>0, <1>7, RuntimeStep DEF vars, tvars, mvars, Entered
<1> QED
  BY <1>1, <1>2, <1>3, <1>4, <1>5, <1>6, <1>7 DEF Next, ThreadStep

(* The invariant holds in every behaviour of brac.c.                       *)
THEOREM BracCorrect == Spec => []BracInv
BY BracInitInv, BracStepInv, PTL DEF Spec

(* Every variable of brac.c keeps its type: buff stays in the table of     *)
(* stacks, so it never outgrows its array, and quota stays 0 or 1.         *)
THEOREM BracTypeOK == Spec => []TypeOK
<1>1. BracInv => TypeOK
  BY DEF BracInv
<1> QED
  BY <1>1, BracCorrect, PTL

(* At most one bracket thread is between its claim and its update.         *)
THEOREM BracOnePrinter == Spec => []OnePrinter
<1>1. BracInv => OnePrinter
  BY DEF BracInv
<1> QED
  BY <1>1, BracCorrect, PTL

(* The test made in brac_before still holds when brac_after acts on it,    *)
(* although the mutex was free in between.                                 *)
THEOREM BracClaimStaysValid == Spec => []ClaimStaysValid
<1>1. BracInv => ClaimStaysValid
  BY DEF BracInv
<1> QED
  BY <1>1, BracCorrect, PTL

(* buff and count follow what brac_thread has printed.                     *)
THEOREM BracBuffFollowsOutput == Spec => []BuffFollowsOutput
<1>1. BracInv => BuffFollowsOutput
  BY DEF BracInv
<1> QED
  BY <1>1, BracCorrect, PTL

(* A putchar of a claimed bracket is a step of BracOutput.                 *)
LEMMA PutcharPrints ==
  ASSUME BracInv, NEW t \in Thread, role(t) # NUL, Putchar(t)
  PROVE  Output!Next
<1> USE DEF BracInv
<1>1. pc[t] = "putchar" /\ open' = Cancel(open, role(t))
  BY DEF Putchar, Goto, Running
<1>2. t \in Printing /\ Ahead = {}
  BY <1>1 DEF Printing, Ahead, OnePrinter
<1>3. open = buff
  BY <1>2, FollowsDef
<1>4. CASE role(t) \in Opening
  <2> DEFINE ch == role(t)
             new == Append(open, ch)
  <2>1. open' = new /\ new \in states
    BY <1>1, <1>2, <1>3, <1>4, CancelOpening DEF Push, ClaimStaysValid, test_producer
  <2>2. open \in Seq(Opening)
    <3>1. CASE open \in states
      BY <3>1, StatePop
    <3>2. CASE open = <<>>
      BY <3>2
    <3> QED
      BY <3>1, <3>2 DEF TypeOK
  <2>3. /\ Len(open) \in Nat /\ Len(new) = Len(open) + 1
        /\ new[Len(open) + 1] = ch
        /\ \A i \in 1..Len(open) : new[i] = open[i]
    BY <1>4, <2>2
  <2>4. Len(new) \in 1..4
    BY <2>1, StatePop
  <2> HIDE DEF new
  <2>5. ch = "[" => \A i \in 1..Len(open) : open[i] = "["
    BY <2>1, <2>3, StateOrder
  <2>6. Output!Open(ch)
    BY <2>1, <2>3, <2>4, <2>5 DEF Output!Open, Output!Depth, new
  <2> QED
    BY <1>4, <2>6 DEF Output!Next, Opening
<1>5. CASE role(t) \in Closing
  BY <1>1, <1>2, <1>3, <1>5, CancelClosing
  DEF ClaimStaysValid, Pop, Output!Close, Output!Next
<1> QED
  BY <1>4, <1>5, RoleType

(* brac.c implements BracOutput: with any roles, any number of threads and *)
(* any interleaving, the output is well matched, at most four deep, and    *)
(* has no '[' inside a '('.                                                *)
THEOREM BracPrintsBalanced == Spec => PrintsBalanced
<1>1. Init => Output!Init
  BY DEF Init, Output!Init
<1>2. BracInv /\ [Next]_vars => [Output!Next]_open
  <2> SUFFICES ASSUME BracInv, [Next]_vars PROVE [Output!Next]_open
    OBVIOUS
  <2>1. ASSUME NEW t \in Thread, Putchar(t), role(t) # NUL PROVE Output!Next
    BY <2>1, PutcharPrints
  <2>2. ASSUME NEW t \in Thread, Putchar(t), role(t) = NUL PROVE UNCHANGED open
    BY <2>2 DEF Putchar, Cancel
  <2>3. CASE \A t \in Thread : ~Putchar(t)
    BY <2>3 DEF Next, vars, Main, ThreadStep, Enter, BeforeLock, BeforeWait, BeforeWakeup,
       BeforeClaim, AfterLock, AfterOpen, AfterClose, AfterNul, SpuriousWakeup
  <2> QED
    BY <2>1, <2>2, <2>3
<1> QED
  BY <1>1, <1>2, BracCorrect, PTL DEF Spec, PrintsBalanced, Output!Spec
=============================================================================
