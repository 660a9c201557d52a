----------------------------- MODULE FishProofs -----------------------------
(***************************************************************************)
(* Proofs about fish.c, for any roles array and any number of threads: the *)
(* characters reach standard output one at a time, each continues a fish,  *)
(* and the program implements FishOutput.                                  *)
(***************************************************************************)
EXTENDS Fish, ThreadsProofs

(* The mutex is held exactly by the thread that is inside it.              *)
MutexInv == \A t \in Thread : mutex = t <=> pc[t] \in {"test", "update"}

(* Only a thread that entry_all has started is past its first statement.   *)
RunInv == \A t \in Thread : pc[t] # "before" => Entered(t)

(* quota is 0 exactly when there is a printing thread.                     *)
QuotaInv == Printing = {} => quota = 1

(* s is what has been printed of the current fish when the automaton is in *)
(* state st.                                                               *)
LineAt(st, s) ==
  \/ st = "A" /\ s = <<>>
  \/ st = "B" /\ s = <<">">>
  \/ st = "C" /\ s = <<">", "<">>
  \/ st = "D" /\ (s = <<">", "<", ">">> \/ s = <<"<", ">", "<">>)
  \/ st = "E" /\ s = <<"<">>
  \/ st = "F" /\ s = <<"<", ">">>

(* The output is one character ahead of the automaton while a thread is    *)
(* between its putchar and its update.                                     *)
Ahead == { t \in Thread : pc[t] \in {"after", "update"} }

LineInv ==
  /\ Ahead = {} => LineAt(current, line)
  /\ \A t \in Ahead : LineAt(next(current, role(t)), line)

SyncInv == TypeOK /\ MutexInv /\ RunInv /\ QuotaInv /\ ClaimStaysValid /\ OnePrinter

FishInv == ThreadsInv /\ SyncInv /\ LineInv

-----------------------------------------------------------------------------
(* next() returns a state of the automaton exactly when a rule matches.    *)
LEMMA NextRule ==
  ASSUME NEW st, NEW ch, next(st, ch) # Dead
  PROVE  \E r \in rules : r.from = st /\ r.ch = ch /\ r.to = next(st, ch)
<1>1. Matching(st, ch) # {}
  BY DEF next
<1>2. next(st, ch) = (CHOOSE r \in Matching(st, ch) : TRUE).to
  BY <1>1 DEF next
<1>3. (CHOOSE r \in Matching(st, ch) : TRUE) \in Matching(st, ch)
  BY <1>1
<1> QED
  BY <1>2, <1>3 DEF Matching

(* The states between which next() moves.                                  *)
LEMMA NextState ==
  ASSUME NEW st, NEW ch, next(st, ch) # Dead
  PROVE  next(st, ch) \in State
<1>1. PICK r \in rules : r.from = st /\ r.ch = ch /\ r.to = next(st, ch)
  BY NextRule
<1>2. r.to \in State
  BY <1>1 DEF rules, State
<1> QED
  BY <1>1, <1>2

(* A role is one of the characters of roles[], or its terminating NUL.     *)
LEMMA RoleType == ASSUME TypeOK, NEW t \in Thread PROVE role(t) \in Ch
<1>1. roles \in Seq({"<", ">", "__"}) /\ tid[t] \in Nat
  BY RolesAssumption DEF TypeOK, ThreadsTypeOK
<1>2. CASE tid[t] < Len(roles)
  <2>1. roles[tid[t] + 1] \in {"<", ">", "__"}
    BY <1>1, <1>2
  <2> QED
    BY <1>2, <2>1 DEF role, Ch
<1>3. CASE ~(tid[t] < Len(roles))
  BY <1>3 DEF role, Ch
<1> QED
  BY <1>2, <1>3

(* A thread keeps its role once entry_all has run it.                      *)
LEMMA RoleStable ==
  ASSUME ThreadsInv, ThreadsInv', NEW t \in Thread, Entered(t), Entered(t)'
  PROVE  role(t)' = role(t)
<1>1. t <= created /\ t <= created'
  BY DEF ThreadsInv, LifeInv, ThreadsTypeOK, Entered, Thread
<1>2. tid[t] = t /\ tid'[t] = t
  BY <1>1, NThreadsAssumption DEF ThreadsInv, ListInv, ThreadsTypeOK, Thread
<1> QED
  BY <1>2 DEF role

(* Every step of fish.c is a step of the runtime, so fish.c inherits the   *)
(* runtime's invariant.                                                    *)
LEMMA FishStepsThreads == [Next]_vars => [ThreadsNext]_tvars
BY DEF Next, vars, Main, ThreadStep, Enter, BeforeLock, BeforeWait, BeforeWakeup,
       BeforeClaim, Putchar, AfterLock, AfterUpdate, SpuriousWakeup, ThreadsNext, tvars

(* The invariant holds when main() starts.                                 *)
LEMMA FishInitInv == Init => SyncInv /\ LineInv
<1> SUFFICES ASSUME Init PROVE SyncInv /\ LineInv
  OBVIOUS
<1>1. ThreadsInv
  BY ThreadsInitInv DEF Init
<1>2. TypeOK
  BY <1>1, OneCondVar, MonitorAssumption DEF Init, TypeOK, MonitorInit, MonitorTypeOK, NoThread,
     ThreadsInv, State, PC
<1>3. Printing = {} /\ Ahead = {}
  BY DEF Init, Printing, Ahead
<1>4. MutexInv /\ RunInv /\ QuotaInv
  BY <1>3, NThreadsAssumption DEF Init, MonitorInit, NoThread, MutexInv, RunInv, QuotaInv, Thread
<1>5. ClaimStaysValid /\ OnePrinter
  BY <1>3 DEF Init, ClaimStaysValid, OnePrinter, Dead
<1>6. LineInv
  BY <1>3 DEF Init, LineInv, LineAt
<1> QED
  BY <1>2, <1>4, <1>5, <1>6 DEF SyncInv

-----------------------------------------------------------------------------
(* Steps of the runtime leave the claims of the printing threads alone.    *)
LEMMA RuntimeStep ==
  ASSUME FishInv, ThreadsInv', ThreadsTypeOK',
         UNCHANGED <<mvars, current, quota, pc, line>>,
         \A t \in Thread : Entered(t) => Entered(t)'
  PROVE  SyncInv' /\ LineInv'
<1> USE DEF FishInv, SyncInv
<1>1. \A t \in Thread : pc[t] # "before" => role(t)' = role(t)
  BY RoleStable DEF RunInv
<1>2. TypeOK'
  BY DEF TypeOK, MonitorTypeOK, mvars
<1>3. MutexInv' /\ RunInv' /\ QuotaInv' /\ OnePrinter'
  BY DEF MutexInv, RunInv, QuotaInv, OnePrinter, Printing, mvars
<1>4. ClaimStaysValid'
  BY <1>1 DEF ClaimStaysValid, Printing, next, Matching
<1>5. LineInv'
  BY <1>1 DEF LineInv, Ahead, next, Matching
<1> QED
  BY <1>2, <1>3, <1>4, <1>5

(* A step of fish_thread by t leaves every role alone.                     *)
LEMMA SameRoles == ASSUME UNCHANGED tvars PROVE \A t : role(t)' = role(t)
BY DEF tvars, role

(* Taking the mutex, going to sleep and waking up keep the claims.         *)
LEMMA WaitingStep ==
  ASSUME FishInv, NEW t \in Thread,
         \/ BeforeLock(t) \/ BeforeWait(t) \/ BeforeWakeup(t)
         \/ AfterLock(t) \/ SpuriousWakeup(t)
  PROVE  SyncInv' /\ LineInv'
<1> USE DEF FishInv, SyncInv
<1>1. UNCHANGED <<tvars, current, quota, line>>
  BY DEF BeforeLock, BeforeWait, BeforeWakeup, AfterLock, SpuriousWakeup
<1>2. /\ pc' \in [Thread -> PC]
      /\ \A u \in Thread : pc[u] # pc'[u] => u = t /\ Entered(t)
  BY DEF TypeOK, PC, BeforeLock, BeforeWait, BeforeWakeup, AfterLock, SpuriousWakeup, Goto, Running
<1>3. Printing' = Printing /\ Ahead' = Ahead
  BY DEF TypeOK, Printing, Ahead, PC,
     BeforeLock, BeforeWait, BeforeWakeup, AfterLock, SpuriousWakeup, Goto, Running
<1>4. MonitorTypeOK(Thread)'
  BY OneCondVar, MonitorAssumption DEF TypeOK, MonitorTypeOK, NoThread,
     BeforeLock, BeforeWait, BeforeWakeup, AfterLock, SpuriousWakeup,
     mutex_lock, cond_wait, cond_wakeup, spurious_wakeup
<1>5. TypeOK'
  BY <1>1, <1>2, <1>4 DEF TypeOK, ThreadsTypeOK, tvars
<1>6. MutexInv'
  BY NThreadsAssumption DEF TypeOK, MutexInv, NoThread, Thread, Goto, Running,
     BeforeLock, BeforeWait, BeforeWakeup, AfterLock, SpuriousWakeup,
     mutex_lock, cond_wait, cond_wakeup, spurious_wakeup
<1>7. RunInv'
  BY <1>1, <1>2 DEF RunInv, Entered, tvars
<1>8. QuotaInv' /\ OnePrinter'
  BY <1>1, <1>3 DEF QuotaInv, OnePrinter
<1>9. ClaimStaysValid' /\ LineInv'
  BY <1>1, <1>3, SameRoles DEF ClaimStaysValid, LineInv, next, Matching
<1> QED
  BY <1>5, <1>6, <1>7, <1>8, <1>9

(* A claim makes t the only printing thread.                               *)
LEMMA ClaimStep ==
  ASSUME FishInv, NEW t \in Thread, BeforeClaim(t)
  PROVE  SyncInv' /\ LineInv'
<1> USE DEF FishInv, SyncInv
<1>1. /\ UNCHANGED <<tvars, current, line, sleepers, spurious>>
      /\ pc[t] = "test" /\ mutex = t /\ mutex' = NoThread
      /\ pc' = [pc EXCEPT ![t] = "putchar"] /\ quota' = quota - 1
      /\ Entered(t)
      /\ next(current, role(t)) # Dead /\ quota # 0
  BY DEF BeforeClaim, Goto, Running, mutex_unlock, MustWait
<1>2. Printing = {} /\ quota = 1
  BY <1>1 DEF ClaimStaysValid, TypeOK
<1>3. Printing' = {t} /\ Ahead' = {} /\ Ahead = {}
  BY <1>1, <1>2 DEF Printing, Ahead, TypeOK
<1>4. TypeOK'
  BY <1>1, <1>2 DEF TypeOK, ThreadsTypeOK, MonitorTypeOK, tvars, PC
<1>5. MutexInv' /\ RunInv'
  BY <1>1, NThreadsAssumption DEF MutexInv, RunInv, TypeOK, NoThread, Thread, Entered, tvars
<1>a. next(current, role(t))' # Dead
  BY <1>1, SameRoles DEF next, Matching, Dead
<1>6. QuotaInv' /\ OnePrinter' /\ ClaimStaysValid'
  BY <1>1, <1>2, <1>3, <1>a DEF QuotaInv, OnePrinter, ClaimStaysValid
<1>7. LineInv'
  BY <1>1, <1>3 DEF LineInv
<1> QED
  BY <1>4, <1>5, <1>6, <1>7

(* Printing a character for which the automaton has a rule continues the   *)
(* fish, and "__" completes it.                                            *)
LEMMA LineStep ==
  ASSUME NEW s, NEW r \in rules, LineAt(r.from, s)
  PROVE  /\ Append(s, r.ch) \in Output!Begun \cup Output!Fishes
         /\ Append(s, r.ch) \in Output!Fishes <=> r.ch = "__"
         /\ LineAt(r.to, IF r.ch = "__" THEN <<>> ELSE Append(s, r.ch))
         /\ r.ch \in {"<", ">", "__"}
<1> DEFINE C == {"<", ">", "__"}
<1>1. CASE r = [from |-> "A", ch |-> ">", to |-> "B"]
  <2>1. s = <<>> /\ r.ch = ">" /\ r.to = "B"
    BY <1>1 DEF LineAt
  <2>2. Append(<<>>, ">") = <<">">>
    BY Append0, "<" \in C, ">" \in C
  <2>3. <<">">> \in Output!Begun /\ <<">">> \notin Output!Fishes
    BY DEF Output!Begun, Output!Fishes
  <2> QED
    BY <2>1, <2>2, <2>3 DEF LineAt
<1>2. CASE r = [from |-> "B", ch |-> "<", to |-> "C"]
  <2>1. s = <<">">> /\ r.ch = "<" /\ r.to = "C"
    BY <1>2 DEF LineAt
  <2>2. Append(<<">">>, "<") = <<">", "<">>
    BY Append1, "<" \in C, ">" \in C
  <2>3. <<">", "<">> \in Output!Begun /\ <<">", "<">> \notin Output!Fishes
    BY DEF Output!Begun, Output!Fishes
  <2> QED
    BY <2>1, <2>2, <2>3 DEF LineAt
<1>3. CASE r = [from |-> "C", ch |-> ">", to |-> "D"]
  <2>1. s = <<">", "<">> /\ r.ch = ">" /\ r.to = "D"
    BY <1>3 DEF LineAt
  <2>2. Append(<<">", "<">>, ">") = <<">", "<", ">">>
    BY Append2, "<" \in C, ">" \in C
  <2>3. <<">", "<", ">">> \in Output!Begun /\ <<">", "<", ">">> \notin Output!Fishes
    BY DEF Output!Begun, Output!Fishes
  <2> QED
    BY <2>1, <2>2, <2>3 DEF LineAt
<1>4. CASE r = [from |-> "A", ch |-> "<", to |-> "E"]
  <2>1. s = <<>> /\ r.ch = "<" /\ r.to = "E"
    BY <1>4 DEF LineAt
  <2>2. Append(<<>>, "<") = <<"<">>
    BY Append0, "<" \in C, ">" \in C
  <2>3. <<"<">> \in Output!Begun /\ <<"<">> \notin Output!Fishes
    BY DEF Output!Begun, Output!Fishes
  <2> QED
    BY <2>1, <2>2, <2>3 DEF LineAt
<1>5. CASE r = [from |-> "E", ch |-> ">", to |-> "F"]
  <2>1. s = <<"<">> /\ r.ch = ">" /\ r.to = "F"
    BY <1>5 DEF LineAt
  <2>2. Append(<<"<">>, ">") = <<"<", ">">>
    BY Append1, "<" \in C, ">" \in C
  <2>3. <<"<", ">">> \in Output!Begun /\ <<"<", ">">> \notin Output!Fishes
    BY DEF Output!Begun, Output!Fishes
  <2> QED
    BY <2>1, <2>2, <2>3 DEF LineAt
<1>6. CASE r = [from |-> "F", ch |-> "<", to |-> "D"]
  <2>1. s = <<"<", ">">> /\ r.ch = "<" /\ r.to = "D"
    BY <1>6 DEF LineAt
  <2>2. Append(<<"<", ">">>, "<") = <<"<", ">", "<">>
    BY Append2, "<" \in C, ">" \in C
  <2>3. <<"<", ">", "<">> \in Output!Begun /\ <<"<", ">", "<">> \notin Output!Fishes
    BY DEF Output!Begun, Output!Fishes
  <2> QED
    BY <2>1, <2>2, <2>3 DEF LineAt
<1>7. CASE r = [from |-> "D", ch |-> "__", to |-> "A"]
  <2>1. /\ s = <<">", "<", ">">> \/ s = <<"<", ">", "<">>
        /\ r.ch = "__" /\ r.to = "A"
    BY <1>7 DEF LineAt
  <2>2. /\ Append(<<">", "<", ">">>, "__") = <<">", "<", ">", "__">>
        /\ Append(<<"<", ">", "<">>, "__") = <<"<", ">", "<", "__">>
    BY Append3, "<" \in C, ">" \in C, "__" \in C
  <2>3. Append(s, "__") \in Output!Fishes
    BY <2>1, <2>2 DEF Output!Fishes
  <2> QED
    BY <2>1, <2>3 DEF LineAt
<1> QED
  BY <1>1, <1>2, <1>3, <1>4, <1>5, <1>6, <1>7 DEF rules

(* What a putchar does to the output.                                      *)
PutcharLine(t) ==
  /\ LineAt(next(current, role(t)), line')
  /\ Output!Next

(* A putchar of the claimed character is a step of FishOutput ...          *)
LEMMA PutcharPrints ==
  ASSUME FishInv, NEW t \in Thread, Putchar(t)
  PROVE  PutcharLine(t)
<1> USE DEF FishInv, SyncInv
<1>1. /\ pc[t] = "putchar"
      /\ line' = IF role(t) = "__" THEN <<>> ELSE Append(line, role(t))
  BY DEF Putchar, Goto, Running
<1>2. t \in Printing /\ Ahead = {}
  BY <1>1 DEF OnePrinter, Printing, Ahead
<1>3. LineAt(current, line)
  BY <1>2 DEF LineInv
<1>4. next(current, role(t)) # Dead
  BY <1>2 DEF ClaimStaysValid
<1>5. PICK r \in rules : r.from = current /\ r.ch = role(t) /\ r.to = next(current, role(t))
  BY <1>4, NextRule
<1>6. /\ Append(line, role(t)) \in Output!Begun \cup Output!Fishes
      /\ Append(line, role(t)) \in Output!Fishes <=> role(t) = "__"
      /\ LineAt(next(current, role(t)), line')
      /\ role(t) \in {"<", ">", "__"}
  BY <1>1, <1>3, <1>5, LineStep
<1>7. Output!Emit(role(t))
  BY <1>1, <1>6 DEF Output!Emit
<1> QED
  BY <1>6, <1>7 DEF PutcharLine, Output!Next

(* ... after which the output is one character ahead of the automaton.     *)
LEMMA PutcharStep ==
  ASSUME FishInv, NEW t \in Thread, Putchar(t)
  PROVE  SyncInv' /\ LineInv'
<1> USE DEF FishInv, SyncInv
<1>1. /\ UNCHANGED <<tvars, mvars, current, quota>>
      /\ pc[t] = "putchar" /\ Entered(t)
      /\ pc' = [pc EXCEPT ![t] = "after"]
      /\ line' = IF role(t) = "__" THEN <<>> ELSE Append(line, role(t))
  BY DEF Putchar, Goto, Running
<1>2. Printing' = Printing /\ t \in Printing /\ Ahead' = {t}
  BY <1>1 DEF Printing, Ahead, TypeOK, OnePrinter
<1>3. TypeOK'
  <2>1. line' \in Seq(Ch)
    BY <1>1, RoleType DEF TypeOK
  <2> QED
    BY <1>1, <2>1 DEF TypeOK, ThreadsTypeOK, MonitorTypeOK, tvars, mvars, PC
<1>4. MutexInv' /\ RunInv'
  BY <1>1 DEF MutexInv, RunInv, TypeOK, Entered, tvars, mvars
<1>5. QuotaInv' /\ OnePrinter' /\ ClaimStaysValid'
  BY <1>1, <1>2, SameRoles DEF QuotaInv, OnePrinter, ClaimStaysValid, next, Matching
<1>6. LineInv'
  BY <1>1, <1>2, SameRoles, PutcharPrints DEF LineInv, PutcharLine, next, Matching
<1> QED
  BY <1>3, <1>4, <1>5, <1>6

(* The update moves the automaton along the claimed rule and frees quota.  *)
LEMMA UpdateStep ==
  ASSUME FishInv, NEW t \in Thread, AfterUpdate(t)
  PROVE  SyncInv' /\ LineInv'
<1> USE DEF FishInv, SyncInv
<1>1. /\ UNCHANGED <<tvars, line, spurious>>
      /\ pc[t] = "update" /\ Entered(t)
      /\ pc' = [pc EXCEPT ![t] = "before"]
      /\ current' = next(current, role(t)) /\ quota' = quota + 1
      /\ mutex = t /\ mutex' = NoThread
      /\ sleepers' = [sleepers EXCEPT !["cv"] = {}]
  BY DEF AfterUpdate, Goto, Running, cond_broadcast_unlock
<1>2. t \in Printing /\ t \in Ahead
  BY <1>1 DEF Printing, Ahead
<1>3. Printing' = {} /\ Ahead' = {}
  BY <1>1, <1>2 DEF Printing, Ahead, TypeOK, OnePrinter
<1>4. quota = 0 /\ current' # Dead /\ current' \in State
  BY <1>1, <1>2, NextState DEF ClaimStaysValid
<1>5. TypeOK'
  BY <1>1, <1>4, OneCondVar DEF TypeOK, ThreadsTypeOK, MonitorTypeOK, tvars, PC
<1>6. MutexInv' /\ RunInv'
  BY <1>1, NThreadsAssumption DEF MutexInv, RunInv, TypeOK, NoThread, Thread, Entered, tvars
<1>7. QuotaInv' /\ OnePrinter' /\ ClaimStaysValid'
  BY <1>1, <1>3, <1>4 DEF QuotaInv, OnePrinter, ClaimStaysValid
<1>8. LineInv'
  BY <1>1, <1>2, <1>3 DEF LineInv
<1> QED
  BY <1>5, <1>6, <1>7, <1>8

-----------------------------------------------------------------------------
(* Every step of fish.c preserves the invariant.                           *)
LEMMA FishStepInv == FishInv /\ [Next]_vars => FishInv'
<1> SUFFICES ASSUME FishInv, [Next]_vars PROVE FishInv'
  OBVIOUS
<1>0. ThreadsInv' /\ ThreadsTypeOK'
  BY FishStepsThreads, ThreadsStepInv DEF FishInv, ThreadsInv
<1>1. CASE Main
  <2>1. \A t \in Thread : Entered(t) => Entered(t)'
    <3>1. CASE create
      <4>1. \A t \in Thread : Entered(t) => t # created + 1
        BY DEF Entered, FishInv, ThreadsInv, ThreadsTypeOK, LifeInv, Thread
      <4> QED
        BY <3>1, <4>1 DEF create, pthread_create, Entered, FishInv, ThreadsInv, ThreadsTypeOK
    <3>2. CASE malloc_fails \/ join \/ join_one \/ join_crashes
      BY <3>2 DEF malloc_fails, join, join_one, join_crashes, Entered
    <3> QED
      BY <1>1, <3>1, <3>2 DEF Main, MainStep
  <2> QED
    BY <1>0, <1>1, <2>1, RuntimeStep DEF Main, FishInv
<1>2. ASSUME NEW t \in Thread, Enter(t) PROVE FishInv'
  <2>1. \A u \in Thread : Entered(u) => Entered(u)'
    BY <1>2 DEF Enter, entry_all, Entered, FishInv, ThreadsInv, ThreadsTypeOK
  <2> QED
    BY <1>0, <1>2, <2>1, RuntimeStep DEF Enter, FishInv
<1>3. ASSUME NEW t \in Thread,
             \/ BeforeLock(t) \/ BeforeWait(t) \/ BeforeWakeup(t)
             \/ AfterLock(t) \/ SpuriousWakeup(t)
      PROVE  FishInv'
  BY <1>0, <1>3, WaitingStep DEF FishInv
<1>4. ASSUME NEW t \in Thread, BeforeClaim(t) PROVE FishInv'
  BY <1>0, <1>4, ClaimStep DEF FishInv
<1>5. ASSUME NEW t \in Thread, Putchar(t) PROVE FishInv'
  BY <1>0, <1>5, PutcharStep DEF FishInv
<1>6. ASSUME NEW t \in Thread, AfterUpdate(t) PROVE FishInv'
  BY <1>0, <1>6, UpdateStep DEF FishInv
<1>7. CASE UNCHANGED vars
  BY <1>0, <1>7, RuntimeStep DEF vars, tvars, mvars, Entered, FishInv
<1> QED
  BY <1>1, <1>2, <1>3, <1>4, <1>5, <1>6, <1>7 DEF Next, ThreadStep

(* The invariant holds in every behaviour of fish.c.                       *)
THEOREM FishCorrect == Spec => []FishInv
<1>1. Init => FishInv
  BY FishInitInv, ThreadsInitInv DEF Init, FishInv
<1> QED
  BY <1>1, FishStepInv, PTL DEF Spec

(* Every variable of fish.c keeps its type: quota stays 0 or 1.            *)
THEOREM FishTypeOK == Spec => []TypeOK
<1>1. FishInv => TypeOK
  BY DEF FishInv, SyncInv
<1> QED
  BY <1>1, FishCorrect, PTL

(* The test made in fish_before still holds when fish_after relies on it,  *)
(* although the mutex was free in between.                                 *)
THEOREM FishClaimStaysValid == Spec => []ClaimStaysValid
<1>1. FishInv => ClaimStaysValid
  BY DEF FishInv, SyncInv
<1> QED
  BY <1>1, FishCorrect, PTL

(* At most one thread is between its claim and its update.                 *)
THEOREM FishOnePrinter == Spec => []OnePrinter
<1>1. FishInv => OnePrinter
  BY DEF FishInv, SyncInv
<1> QED
  BY <1>1, FishCorrect, PTL

(* fish.c implements FishOutput: with any roles, any number of threads and *)
(* any interleaving, standard output is a sequence of fish.                *)
THEOREM FishPrintsFish == Spec => PrintsFish
<1>1. Init => Output!Init
  BY DEF Init, Output!Init
<1>2. FishInv /\ [Next]_vars => [Output!Next]_line
  <2> SUFFICES ASSUME FishInv, [Next]_vars PROVE [Output!Next]_line
    OBVIOUS
  <2>1. ASSUME NEW t \in Thread, Putchar(t) PROVE Output!Next
    BY <2>1, PutcharPrints DEF PutcharLine
  <2>2. CASE \A t \in Thread : ~Putchar(t)
    BY <2>2 DEF Next, vars, Main, ThreadStep, Enter, BeforeLock, BeforeWait,
       BeforeWakeup, BeforeClaim, AfterLock, AfterUpdate, SpuriousWakeup
  <2> QED
    BY <2>1, <2>2
<1> QED
  BY <1>1, <1>2, FishCorrect, PTL DEF Spec, PrintsFish, Output!Spec
=============================================================================
