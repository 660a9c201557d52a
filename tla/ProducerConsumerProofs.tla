----------------------- MODULE ProducerConsumerProofs -----------------------
(***************************************************************************)
(* Proofs about producer-consumer.c, for any number of producers and       *)
(* consumers and any N.                                                    *)
(***************************************************************************)
EXTENDS ProducerConsumer, ThreadsProofs, FiniteSetTheorems

(* How many threads of T are at a given point when f is pc.                *)
At(f, T, point) == { t \in T : f[t] = point }
Num(f, T, point) == Cardinality(At(f, T, point))

(* A slot is free (empty), taken by a producer on its way, printed and     *)
(* waiting for a consumer (fill), or taken by a consumer on its way: there *)
(* are N slots, and an open bracket is a slot that a producer has printed  *)
(* and no consumer has.  What producers have posted is in fill or has been *)
(* taken by a consumer.                                                    *)
SlotInv ==
  /\ N = empty + Num(pc, Producer, "printf") + Num(pc, Producer, "V")
         + fill + Num(pc, Consumer, "printf") + Num(pc, Consumer, "V")
  /\ nest = Num(pc, Producer, "V") + fill + Num(pc, Consumer, "printf")
  /\ Num(pc, Producer, "return") =
       fill + Num(pc, Consumer, "printf") + Num(pc, Consumer, "V") + Num(pc, Consumer, "return")

(* A thread that has not been entered has done nothing, one that has       *)
(* returned has done everything.                                           *)
DoneInv ==
  \A t \in Thread :
    /\ life[t] \in {"absent", "failed", "started"} => pc[t] = "P"
    /\ life[t] = "returned" => pc[t] = "return"

PCInv == TypeOK /\ SlotInv /\ DoneInv

(* Sets of threads are finite.                                             *)
LEMMA NumType ==
  ASSUME NEW f, NEW T, T \subseteq Thread, NEW point
  PROVE  IsFiniteSet(At(f, T, point)) /\ Num(f, T, point) \in Nat
<1>1. IsFiniteSet(Thread)
  BY FS_Interval, NThreadsAssumption DEF Thread
<1>2. At(f, T, point) \subseteq Thread
  BY DEF At
<1> QED
  BY <1>1, <1>2, FS_Subset, FS_CardinalityType DEF Num

(* A thread of T that goes from a to b.                                    *)
Moves(f, g, T, t, a, b) ==
  /\ f \in [Thread -> PC] /\ T \subseteq Thread /\ t \in T
  /\ a # b /\ f[t] = a /\ g = [f EXCEPT ![t] = b]

(* It leaves a ...                                                         *)
LEMMA MovesFrom ==
  ASSUME NEW f, NEW g, NEW T, NEW t, NEW a, NEW b, Moves(f, g, T, t, a, b)
  PROVE  Num(g, T, a) = Num(f, T, a) - 1
<1>1. At(g, T, a) = At(f, T, a) \ {t} /\ t \in At(f, T, a)
  BY DEF At, Moves
<1> QED
  BY <1>1, NumType, FS_RemoveElement DEF Num, Moves

(* ... and reaches b ...                                                   *)
LEMMA MovesTo ==
  ASSUME NEW f, NEW g, NEW T, NEW t, NEW a, NEW b, Moves(f, g, T, t, a, b)
  PROVE  Num(g, T, b) = Num(f, T, b) + 1
<1>1. At(g, T, b) = At(f, T, b) \cup {t} /\ t \notin At(f, T, b)
  BY DEF At, Moves
<1> QED
  BY <1>1, NumType, FS_AddElement DEF Num, Moves

(* ... while the other points of T ...                                     *)
LEMMA MovesPast ==
  ASSUME NEW f, NEW g, NEW T, NEW t, NEW a, NEW b, Moves(f, g, T, t, a, b),
         NEW x, x # a, x # b
  PROVE  Num(g, T, x) = Num(f, T, x)
<1>1. At(g, T, x) = At(f, T, x)
  BY DEF At, Moves
<1> QED
  BY <1>1 DEF Num

(* ... and the other threads stay as they are.                             *)
LEMMA MovesOthers ==
  ASSUME NEW f, NEW g, NEW T, NEW t, NEW a, NEW b, Moves(f, g, T, t, a, b),
         NEW U, U \subseteq Thread, T \cap U = {}
  PROVE  \A x : Num(g, U, x) = Num(f, U, x)
<1> TAKE x
<1>1. At(g, U, x) = At(f, U, x)
  BY DEF At, Moves
<1> QED
  BY <1>1 DEF Num

(* No thread has moved: the slots are as they were.                        *)
LEMMA NobodyMoves ==
  ASSUME PCInv, UNCHANGED <<nprod, fill, empty, pc, nest>>
  PROVE  SlotInv'
BY DEF PCInv, SlotInv, Producer, Consumer

(* A step between two points of producer() or consumer() moves one slot    *)
(* from one of the four sets or two semaphores to the next one.            *)
LEMMA SlotStep ==
  ASSUME PCInv, NEW t \in Thread,
         \/ producer_P(t) \/ producer_printf(t) \/ producer_V(t)
         \/ consumer_P(t) \/ consumer_printf(t) \/ consumer_V(t)
  PROVE  SlotInv' /\ fill' \in Nat /\ empty' \in Nat /\ nest' \in Int
<1> USE DEF PCInv
<1>1. PICK n \in NProducers : nprod = n
  BY DEF TypeOK
<1> DEFINE Prod == 1..n
           Cons == Thread \ Prod
           PrinP(f) == Num(f, Prod, "printf")
           PosP(f) == Num(f, Prod, "V")
           PrinC(f) == Num(f, Cons, "printf")
           PosC(f) == Num(f, Cons, "V")
           RetP(f) == Num(f, Prod, "return")
           RetC(f) == Num(f, Cons, "return")
<1>2. /\ nprod' = n /\ Prod \subseteq Thread /\ Cons \subseteq Thread /\ Prod \cap Cons = {}
      /\ Cons \cap Prod = {}
  BY <1>1, PCAssumption, NThreadsAssumption
  DEF Thread, producer_P, producer_printf, producer_V, consumer_P, consumer_printf, consumer_V
<1>3. /\ Producer = Prod /\ Producer' = Prod
      /\ Consumer = Cons /\ Consumer' = Cons
  BY <1>1, <1>2 DEF Producer, Consumer
<1> HIDE DEF Prod, Cons
<1>4. /\ N = empty + PrinP(pc) + PosP(pc) + fill + PrinC(pc) + PosC(pc)
      /\ nest = PosP(pc) + fill + PrinC(pc)
      /\ RetP(pc) = fill + PrinC(pc) + PosC(pc) + RetC(pc)
  BY <1>3 DEF SlotInv
<1>5. /\ PrinP(pc) \in Nat /\ PosP(pc) \in Nat /\ PrinC(pc) \in Nat /\ PosC(pc) \in Nat
      /\ RetP(pc) \in Nat /\ RetC(pc) \in Nat
      /\ fill \in Nat /\ empty \in Nat /\ N \in Nat
  BY <1>2, NumType, PCAssumption DEF TypeOK
<1>6. SUFFICES /\ N = empty' + PrinP(pc') + PosP(pc') + fill' + PrinC(pc') + PosC(pc')
               /\ nest' = PosP(pc') + fill' + PrinC(pc')
               /\ RetP(pc') = fill' + PrinC(pc') + PosC(pc') + RetC(pc')
               /\ fill' \in Nat /\ empty' \in Nat /\ nest' \in Int
  BY <1>3 DEF SlotInv
<1>7. CASE producer_P(t)
  <2>1. t \in Prod /\ pc[t] = "P" /\ pc' = [pc EXCEPT ![t] = "printf"]
        /\ empty > 0 /\ empty' = empty - 1 /\ fill' = fill /\ nest' = nest
    BY <1>3, <1>7 DEF producer_P, Goto, sem_wait
  <2>2. Moves(pc, pc', Prod, t, "P", "printf")
    BY <1>2, <2>1 DEF Moves, TypeOK
  <2>3. PrinP(pc') = PrinP(pc) + 1
    BY <2>2, MovesTo
  <2>4. PosP(pc') = PosP(pc)
    BY <2>2, MovesPast
  <2>5. RetP(pc') = RetP(pc)
    BY <2>2, MovesPast
  <2>6. PrinC(pc') = PrinC(pc) /\ PosC(pc') = PosC(pc) /\ RetC(pc') = RetC(pc)
    BY <1>2, <2>2, MovesOthers
  <2> HIDE DEF PrinP, PosP, PrinC, PosC, RetP, RetC
  <2> QED BY <1>4, <1>5, <2>1, <2>3, <2>4, <2>5, <2>6
<1>8. CASE producer_printf(t)
  <2>1. t \in Prod /\ pc[t] = "printf" /\ pc' = [pc EXCEPT ![t] = "V"]
        /\ empty' = empty /\ fill' = fill /\ nest' = nest + 1
    BY <1>3, <1>8 DEF producer_printf, Goto
  <2>2. Moves(pc, pc', Prod, t, "printf", "V")
    BY <1>2, <2>1 DEF Moves, TypeOK
  <2>3. PrinP(pc') = PrinP(pc) - 1
    BY <2>2, MovesFrom
  <2>4. PosP(pc') = PosP(pc) + 1
    BY <2>2, MovesTo
  <2>5. RetP(pc') = RetP(pc)
    BY <2>2, MovesPast
  <2>6. PrinC(pc') = PrinC(pc) /\ PosC(pc') = PosC(pc) /\ RetC(pc') = RetC(pc)
    BY <1>2, <2>2, MovesOthers
  <2> HIDE DEF PrinP, PosP, PrinC, PosC, RetP, RetC
  <2> QED BY <1>4, <1>5, <2>1, <2>3, <2>4, <2>5, <2>6
<1>9. CASE producer_V(t)
  <2>1. t \in Prod /\ pc[t] = "V" /\ pc' = [pc EXCEPT ![t] = "return"]
        /\ empty' = empty /\ fill' = fill + 1 /\ nest' = nest
    BY <1>3, <1>9 DEF producer_V, Goto, sem_post
  <2>2. Moves(pc, pc', Prod, t, "V", "return")
    BY <1>2, <2>1 DEF Moves, TypeOK
  <2>3. PrinP(pc') = PrinP(pc)
    BY <2>2, MovesPast
  <2>4. PosP(pc') = PosP(pc) - 1
    BY <2>2, MovesFrom
  <2>5. RetP(pc') = RetP(pc) + 1
    BY <2>2, MovesTo
  <2>6. PrinC(pc') = PrinC(pc) /\ PosC(pc') = PosC(pc) /\ RetC(pc') = RetC(pc)
    BY <1>2, <2>2, MovesOthers
  <2> HIDE DEF PrinP, PosP, PrinC, PosC, RetP, RetC
  <2> QED BY <1>4, <1>5, <2>1, <2>3, <2>4, <2>5, <2>6
<1>10. CASE consumer_P(t)
  <2>1. t \in Cons /\ pc[t] = "P" /\ pc' = [pc EXCEPT ![t] = "printf"]
        /\ fill > 0 /\ fill' = fill - 1 /\ empty' = empty /\ nest' = nest
    BY <1>3, <1>10 DEF consumer_P, Goto, sem_wait
  <2>2. Moves(pc, pc', Cons, t, "P", "printf")
    BY <1>2, <2>1 DEF Moves, TypeOK
  <2>3. PrinC(pc') = PrinC(pc) + 1
    BY <2>2, MovesTo
  <2>4. PosC(pc') = PosC(pc)
    BY <2>2, MovesPast
  <2>5. RetC(pc') = RetC(pc)
    BY <2>2, MovesPast
  <2>6. PrinP(pc') = PrinP(pc) /\ PosP(pc') = PosP(pc) /\ RetP(pc') = RetP(pc)
    BY <1>2, <2>2, MovesOthers
  <2> HIDE DEF PrinP, PosP, PrinC, PosC, RetP, RetC
  <2> QED BY <1>4, <1>5, <2>1, <2>3, <2>4, <2>5, <2>6
<1>11. CASE consumer_printf(t)
  <2>1. t \in Cons /\ pc[t] = "printf" /\ pc' = [pc EXCEPT ![t] = "V"]
        /\ empty' = empty /\ fill' = fill /\ nest' = nest - 1
    BY <1>3, <1>11 DEF consumer_printf, Goto
  <2>2. Moves(pc, pc', Cons, t, "printf", "V")
    BY <1>2, <2>1 DEF Moves, TypeOK
  <2>3. PrinC(pc') = PrinC(pc) - 1
    BY <2>2, MovesFrom
  <2>4. PosC(pc') = PosC(pc) + 1
    BY <2>2, MovesTo
  <2>5. RetC(pc') = RetC(pc)
    BY <2>2, MovesPast
  <2>6. PrinP(pc') = PrinP(pc) /\ PosP(pc') = PosP(pc) /\ RetP(pc') = RetP(pc)
    BY <1>2, <2>2, MovesOthers
  <2> HIDE DEF PrinP, PosP, PrinC, PosC, RetP, RetC
  <2> QED BY <1>4, <1>5, <2>1, <2>3, <2>4, <2>5, <2>6
<1>12. CASE consumer_V(t)
  <2>1. t \in Cons /\ pc[t] = "V" /\ pc' = [pc EXCEPT ![t] = "return"]
        /\ fill' = fill /\ empty' = empty + 1 /\ nest' = nest
    BY <1>3, <1>12 DEF consumer_V, Goto, sem_post
  <2>2. Moves(pc, pc', Cons, t, "V", "return")
    BY <1>2, <2>1 DEF Moves, TypeOK
  <2>3. PrinC(pc') = PrinC(pc)
    BY <2>2, MovesPast
  <2>4. PosC(pc') = PosC(pc) - 1
    BY <2>2, MovesFrom
  <2>5. RetC(pc') = RetC(pc) + 1
    BY <2>2, MovesTo
  <2>6. PrinP(pc') = PrinP(pc) /\ PosP(pc') = PosP(pc) /\ RetP(pc') = RetP(pc)
    BY <1>2, <2>2, MovesOthers
  <2> HIDE DEF PrinP, PosP, PrinC, PosC, RetP, RetC
  <2> QED BY <1>4, <1>5, <2>1, <2>3, <2>4, <2>5, <2>6
<1> QED
  BY <1>7, <1>8, <1>9, <1>10, <1>11, <1>12

-----------------------------------------------------------------------------
(* Every step of the program is a step of the runtime.                     *)
LEMMA PCStepsThreads == [Next]_vars => [ThreadsNext]_tvars
BY DEF Next, vars, Main, over, ThreadStep, Enter, producer_P, producer_printf, producer_V,
       consumer_P, consumer_printf, consumer_V, Return, ThreadsNext, tvars

(* The invariant holds when main() starts.                                 *)
LEMMA PCInitInv == Init => PCInv
<1> SUFFICES ASSUME Init PROVE PCInv
  OBVIOUS
<1>1. TypeOK
  BY ThreadsInitInv, PCAssumption DEF Init, TypeOK, ThreadsInv, PC
<1>2. \A T, x : T \subseteq Thread /\ x # "P" => At(pc, T, x) = {}
  BY DEF Init, At
<1>3. \A T, x : T \subseteq Thread /\ x # "P" => Num(pc, T, x) = 0
  BY <1>2, FS_EmptySet DEF Num
<1>4. Producer \subseteq Thread /\ Consumer \subseteq Thread
  BY <1>1, PCAssumption, NThreadsAssumption DEF TypeOK, Producer, Consumer, Thread
<1>5. /\ Num(pc, Producer, "printf") = 0 /\ Num(pc, Producer, "V") = 0
      /\ Num(pc, Consumer, "printf") = 0 /\ Num(pc, Consumer, "V") = 0
      /\ Num(pc, Producer, "return") = 0 /\ Num(pc, Consumer, "return") = 0
  BY <1>3, <1>4
<1>6. SlotInv
  BY <1>5, PCAssumption DEF Init, SlotInv
<1>7. DoneInv
  BY DEF Init, ThreadsInit, DoneInv
<1> QED
  BY <1>1, <1>6, <1>7 DEF PCInv

(* Every step preserves it.                                                *)
LEMMA PCStepInv == ThreadsInv /\ PCInv /\ [Next]_vars => ThreadsInv' /\ PCInv'
<1> SUFFICES ASSUME ThreadsInv, PCInv, [Next]_vars PROVE ThreadsInv' /\ PCInv'
  OBVIOUS
<1>1. ThreadsInv' /\ ThreadsTypeOK'
  BY PCStepsThreads, ThreadsStepInv DEF ThreadsInv
<1>2. ASSUME NEW t \in Thread,
             \/ producer_P(t) \/ producer_printf(t) \/ producer_V(t)
             \/ consumer_P(t) \/ consumer_printf(t) \/ consumer_V(t)
      PROVE  PCInv'
  <2>1. nprod' = nprod /\ pc' \in [Thread -> PC]
    BY <1>2 DEF PCInv, TypeOK, PC, Goto,
       producer_P, producer_printf, producer_V, consumer_P, consumer_printf, consumer_V
  <2>2. /\ life' = life /\ life[t] = "running" /\ \A u \in Thread \ {t} : pc'[u] = pc[u]
    BY <1>2 DEF PCInv, TypeOK, Goto, Running, Entered, tvars,
       producer_P, producer_printf, producer_V, consumer_P, consumer_printf, consumer_V
  <2>3. DoneInv'
    BY <2>2 DEF PCInv, DoneInv
  <2> QED
    BY <1>1, <1>2, <2>1, <2>3, SlotStep DEF PCInv, TypeOK
<1>3. ASSUME UNCHANGED <<nprod, fill, empty, pc, nest>>, DoneInv' PROVE PCInv'
  BY <1>1, <1>3, NobodyMoves DEF PCInv, TypeOK
<1>4. CASE UNCHANGED vars
  <2>1. UNCHANGED <<nprod, fill, empty, pc, nest, life>>
    BY <1>4 DEF vars, tvars
  <2>2. DoneInv'
    BY <2>1 DEF PCInv, DoneInv
  <2> QED BY <1>1, <1>3, <2>1, <2>2
<1>5. CASE Main
  <2>1. \A t \in Thread : life'[t] = life[t] \/ (life[t] = "absent" /\ life'[t] # "returned")
    BY <1>5, LifeOfMain DEF Main
  <2>2. UNCHANGED <<nprod, fill, empty, pc, nest>>
    BY <1>5 DEF Main
  <2>3. DoneInv'
    BY <2>1, <2>2 DEF PCInv, DoneInv
  <2> QED BY <1>1, <1>3, <2>2, <2>3
<1>6. CASE over
  <2>1. UNCHANGED <<nprod, fill, empty, pc, nest, life>>
    BY <1>6 DEF over, call_join_fn
  <2>2. DoneInv'
    BY <2>1 DEF PCInv, DoneInv
  <2> QED BY <1>1, <1>3, <2>1, <2>2
<1>7. ASSUME NEW t \in Thread, Enter(t) \/ Return(t) PROVE PCInv'
  <2>1. UNCHANGED <<nprod, fill, empty, pc, nest>>
    BY <1>7 DEF Enter, Return
  <2>2. \/ life' = [life EXCEPT ![t] = "running"]
        \/ life' = [life EXCEPT ![t] = "returned"] /\ pc[t] = "return"
    BY <1>7 DEF Enter, Return, entry_all, ThreadReturn
  <2>3. DoneInv'
    BY <2>1, <2>2 DEF PCInv, DoneInv, ThreadsInv, ThreadsTypeOK
  <2> QED BY <1>3, <2>1, <2>3
<1> QED
  BY <1>1, <1>2, <1>4, <1>5, <1>6, <1>7 DEF Next, ThreadStep

(* The program keeps its invariant and the runtime's in every behaviour.   *)
THEOREM PCCorrect == Spec => [](ThreadsInv /\ PCInv)
<1>1. Init => ThreadsInv /\ PCInv
  BY PCInitInv, ThreadsInitInv DEF Init
<1> QED
  BY <1>1, PCStepInv, PTL DEF Spec

(* No ")" is printed before its "(", and at most N brackets are open, for  *)
(* any N and any number of producers and consumers.                        *)
THEOREM PCOutputNested == Spec => []OutputNested
<1>1. PCInv => OutputNested
  <2> SUFFICES ASSUME PCInv PROVE OutputNested
    OBVIOUS
  <2>1. Producer \subseteq Thread /\ Consumer \subseteq Thread
    BY PCAssumption, NThreadsAssumption DEF PCInv, TypeOK, Producer, Consumer, Thread
  <2>2. /\ Num(pc, Producer, "printf") \in Nat /\ Num(pc, Producer, "V") \in Nat
        /\ Num(pc, Consumer, "printf") \in Nat /\ Num(pc, Consumer, "V") \in Nat
    BY <2>1, NumType
  <2> QED
    BY <2>2, PCAssumption DEF PCInv, TypeOK, SlotInv, OutputNested
<1> QED
  BY <1>1, PCCorrect, PTL

(* over() runs only when all threads have returned and all nodes are       *)
(* freed: what join_all promises holds of this program.                    *)
THEOREM PCJoinAll == Spec => [](NodeNotFreedWhileUsed /\ JoinFnRunsLast)
BY PCCorrect, InvNodes, InvJoinFn, PTL
-----------------------------------------------------------------------------
(* A thread that waits in sem_wait.                                        *)
Blocked(t) ==
  /\ Running(t) /\ pc[t] = "P"
  /\ IF t \in Producer THEN empty = 0 ELSE fill = 0

(* Nobody can move: every thread is done, was never started or waits.      *)
Stuck == \A t \in Thread : life[t] \in {"returned", "failed"} \/ Blocked(t)

(* Nobody is on the way from P to V in any such state.                     *)
LEMMA StuckSlots ==
  ASSUME PCInv, Stuck
  PROVE  /\ N = empty + fill /\ nest = fill
         /\ Num(pc, Producer, "return") = fill + Num(pc, Consumer, "return")
<1>1. Producer \subseteq Thread /\ Consumer \subseteq Thread
  BY PCAssumption, NThreadsAssumption DEF PCInv, TypeOK, Producer, Consumer, Thread
<1>2. \A t \in Thread : pc[t] \notin {"printf", "V"}
  BY DEF PCInv, DoneInv, Stuck, Blocked
<1>3. \A T : T \subseteq Thread => At(pc, T, "printf") = {} /\ At(pc, T, "V") = {}
  BY <1>2 DEF At
<1>4. \A T : T \subseteq Thread => Num(pc, T, "printf") = 0 /\ Num(pc, T, "V") = 0
  BY <1>3, FS_EmptySet DEF Num
<1>5. /\ Num(pc, Producer, "printf") = 0 /\ Num(pc, Producer, "V") = 0
      /\ Num(pc, Consumer, "printf") = 0 /\ Num(pc, Consumer, "V") = 0
  BY <1>1, <1>4
<1>6. Num(pc, Producer, "return") \in Nat /\ Num(pc, Consumer, "return") \in Nat
  BY <1>1, NumType
<1>7. fill \in Nat /\ empty \in Nat
  BY DEF PCInv, TypeOK
<1> QED BY <1>5, <1>6, <1>7 DEF PCInv, SlotInv

(* When nobody can move, all producers or all consumers are done, and one  *)
(* is left over only for a good reason: NobodyStuckNeedlessly, with        *)
(* ENABLED spelled out.                                                    *)
THEOREM PCNobodyStuck ==
  Spec => [](Stuck => \/ Finished(Thread)
                      \/ Finished(Consumer) /\ nest = N
                      \/ Finished(Producer) /\ nest = 0)
<1>1. ASSUME PCInv, Stuck
      PROVE  \/ Finished(Thread)
             \/ Finished(Consumer) /\ nest = N
             \/ Finished(Producer) /\ nest = 0
  <2>1. N = empty + fill /\ nest = fill /\ fill \in Nat /\ empty \in Nat /\ N > 0
    BY <1>1, StuckSlots, PCAssumption DEF PCInv, TypeOK
  <2>2. Thread = Producer \cup Consumer /\ Producer \cap Consumer = {}
    BY <1>1, PCAssumption, NThreadsAssumption DEF PCInv, TypeOK, Producer, Consumer, Thread
  <2>3. Finished(Producer) \/ empty = 0
    BY <1>1, <2>2 DEF Stuck, Blocked, Finished, Failed
  <2>4. Finished(Consumer) \/ fill = 0
    BY <1>1, <2>2 DEF Stuck, Blocked, Finished, Failed
  <2>5. Finished(Producer) /\ Finished(Consumer) => Finished(Thread)
    BY <2>2 DEF Finished
  <2> QED BY <2>1, <2>3, <2>4, <2>5
<1> QED BY <1>1, PCCorrect, PTL

(* over() runs only if the threads that could be started are balanced: the *)
(* safety part of OverRunsIffBalanced.                                     *)
THEOREM PCOverBalanced == Spec => [](main = "exited" => Balanced)
<1>1. ASSUME ThreadsInv, PCInv, main = "exited" PROVE Balanced
  <2>1. \A t \in Thread : life[t] \in {"returned", "failed"}
    BY <1>1, InvJoinFn DEF JoinFnRunsLast, Failed
  <2>2. Stuck
    BY <2>1 DEF Stuck
  <2>3. Producer \subseteq Thread /\ Consumer \subseteq Thread
    BY <1>1, PCAssumption, NThreadsAssumption DEF PCInv, TypeOK, Producer, Consumer, Thread
  <2>4. ASSUME NEW T, T \subseteq Thread PROVE At(pc, T, "return") = T \ Failed
    BY <1>1, <2>1, <2>4 DEF At, Failed, PCInv, DoneInv
  <2>5. /\ Num(pc, Producer, "return") = Cardinality(Producer \ Failed)
        /\ Num(pc, Consumer, "return") = Cardinality(Consumer \ Failed)
    BY <2>3, <2>4 DEF Num
  <2>6. Num(pc, Producer, "return") \in Nat /\ Num(pc, Consumer, "return") \in Nat
    BY <2>3, NumType
  <2>7. /\ N = empty + fill /\ fill \in Nat /\ empty \in Nat
        /\ Num(pc, Producer, "return") = fill + Num(pc, Consumer, "return")
    BY <1>1, <2>2, StuckSlots DEF PCInv, TypeOK
  <2> QED BY <2>5, <2>6, <2>7 DEF Balanced
<1> QED BY <1>1, PCCorrect, PTL
=============================================================================
