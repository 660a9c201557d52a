----------------------------- MODULE SumProofs -----------------------------
(***************************************************************************)
(* Proofs about what sum.c, sum-atomic.c and spinlock.c print, for any     *)
(* number of threads and rounds and any number of failures of              *)
(* pthread_create.                                                         *)
(***************************************************************************)
EXTENDS Sum, ThreadsProofs, FiniteSetTheorems

(* The additions thread t has made, and those of all threads: the k-th     *)
(* addition of t is the pair of t and k.                                   *)
Added(t) == IF pc[t] = "spin_unlock" THEN i[t] + 1 ELSE i[t]

Additions == { a \in Thread \X (1..Rounds) : a[2] <= Added(a[1]) }

(* Where the threads of each program are, and what those that do not run   *)
(* have done.                                                              *)
PlaceInv ==
  /\ program \in Programs
  /\ locked \in 0..1
  /\ i \in [Thread -> 0..Rounds]
  /\ pc \in [Thread -> {"load", "store", "lock addq", "spin_lock", "spin_unlock"}]
  /\ \A t \in Thread : pc[t] = "spin_unlock" => i[t] < Rounds
  /\ \A t \in Thread : program = "sum-atomic" => pc[t] = "lock addq"

DoneInv ==
  \A t \in Thread :
    /\ life[t] \in {"absent", "failed", "started"} => Added(t) = 0
    /\ life[t] = "returned" => i[t] = Rounds

(* No value that was ever loaded or stored counts an addition that was not *)
(* made, and with lock addq none is lost.                                  *)
UpperInv ==
  /\ sum \in Nat
  /\ reg \in [Thread -> Nat]
  /\ sum <= Cardinality(Additions)
  /\ \A t \in Thread : reg[t] <= Cardinality(Additions)
  /\ program = "sum-atomic" => sum = Cardinality(Additions)

(* After the first addition sum is never 0 again, so a thread that has     *)
(* added before loads at least 1 and stores at least 2; as long as sum may *)
(* be less, the thread that made it so has rounds to go.                   *)
LowerInv ==
  /\ \A t \in Thread : Added(t) > 0 => sum >= 1
  /\ \A t \in Thread : Added(t) > 0 /\ pc[t] = "store" => reg[t] >= 1
  /\ Rounds = 1 \/ sum >= 2 \/ (\A t \in Thread : Added(t) = 0)
       \/ \E t \in Thread : Added(t) = 1

SumInv == ThreadsInv /\ PlaceInv /\ DoneInv /\ UpperInv /\ LowerInv
-----------------------------------------------------------------------------
(* The numbers of additions.                                               *)
LEMMA AddedType ==
  ASSUME PlaceInv, NEW t \in Thread
  PROVE  Added(t) \in 0..Rounds
<1>1. i[t] \in 0..Rounds /\ (pc[t] = "spin_unlock" => i[t] < Rounds)
  BY DEF PlaceInv
<1>2. Rounds \in Nat
  BY SumAssumption
<1> QED BY <1>1, <1>2 DEF Added

(* There are finitely many additions, at most Rounds for each thread.      *)
LEMMA AdditionsFinite ==
  /\ IsFiniteSet(Additions)
  /\ Cardinality(Additions) \in Nat
  /\ Cardinality(Additions) <= NThreads * Rounds
<1>1. IsFiniteSet(Thread) /\ Cardinality(Thread) = NThreads
  BY FS_Interval, NThreadsAssumption DEF Thread
<1>2. IsFiniteSet(1..Rounds) /\ Cardinality(1..Rounds) = Rounds
  BY FS_Interval, SumAssumption
<1>3. IsFiniteSet(Thread \X (1..Rounds)) /\ Cardinality(Thread \X (1..Rounds)) = NThreads * Rounds
  BY <1>1, <1>2, FS_Product
<1>4. Additions \in SUBSET (Thread \X (1..Rounds))
  BY DEF Additions
<1>5. IsFiniteSet(Additions) /\ Cardinality(Additions) <= NThreads * Rounds
  BY <1>3, <1>4, FS_Subset
<1> QED BY <1>5, FS_CardinalityType

(* One more addition of one thread is one more in all.                     *)
LEMMA OneMore ==
  ASSUME PlaceInv, PlaceInv', NEW t \in Thread,
         Added(t)' = Added(t) + 1,
         \A u \in Thread \ {t} : Added(u)' = Added(u)
  PROVE  Cardinality(Additions') = Cardinality(Additions) + 1
<1> DEFINE new == <<t, Added(t) + 1>>
<1>1. \A u \in Thread : Added(u) \in 0..Rounds
  BY AddedType
<1>2. Added(t)' \in 0..Rounds
  <2>1. i'[t] \in 0..Rounds /\ (pc'[t] = "spin_unlock" => i'[t] < Rounds)
    BY DEF PlaceInv
  <2>2. Rounds \in Nat
    BY SumAssumption
  <2> QED BY <2>1, <2>2 DEF Added
<1>3. Added(t) + 1 \in 1..Rounds
  BY <1>1, <1>2, SumAssumption
<1>4. new \in Thread \X (1..Rounds) /\ new \notin Additions
  BY <1>1, <1>3 DEF Additions
<1>5. Additions' = Additions \cup {new}
  <2>1. Additions' = { a \in Thread \X (1..Rounds) : a[2] <= Added(a[1])' }
    BY DEF Additions
  <2>2. ASSUME NEW u \in Thread, NEW k \in 1..Rounds
        PROVE  k <= Added(u)' <=> k <= Added(u) \/ <<u, k>> = new
    BY <1>1, SumAssumption
  <2>3. ASSUME NEW a \in Thread \X (1..Rounds)
        PROVE  a[2] <= Added(a[1])' <=> a[2] <= Added(a[1]) \/ a = new
    <3>1. a[1] \in Thread /\ a[2] \in 1..Rounds /\ a = <<a[1], a[2]>>
      OBVIOUS
    <3> QED BY <2>2, <3>1
  <2> HIDE DEF new
  <2> QED BY <1>4, <2>1, <2>3 DEF Additions
<1> QED BY <1>4, <1>5, AdditionsFinite, FS_AddElement

(* No addition.                                                            *)
LEMMA NoMore ==
  ASSUME \A u \in Thread : Added(u)' = Added(u)
  PROVE  Additions' = Additions
<1>1. \A a \in Thread \X (1..Rounds) : a[1] \in Thread
  OBVIOUS
<1> QED BY <1>1 DEF Additions
-----------------------------------------------------------------------------
(* Where the body of each program's loop starts.                           *)
LEMMA TopIs ==
  ASSUME program \in Programs
  PROVE  /\ Top \in {"load", "lock addq", "spin_lock"}
         /\ program = "sum-atomic" => Top = "lock addq"
<1>1. program \in {"sum", "sum-atomic", "spinlock"}
  BY SumAssumption
<1> QED BY <1>1 DEF Top

(* A thread goes to place p within the body of the loop.                   *)
LEMMA PlaceInBody ==
  ASSUME PlaceInv, NEW t \in Thread,
         NEW p \in {"load", "store", "spin_lock", "spin_unlock"},
         program' = program, locked' \in 0..1,
         i' = i, i[t] < Rounds, pc' = [pc EXCEPT ![t] = p],
         pc[t] # "lock addq"
  PROVE  PlaceInv'
<1>1. pc' \in [Thread -> {"load", "store", "lock addq", "spin_lock", "spin_unlock"}]
  BY DEF PlaceInv
<1>2. \A u \in Thread : pc'[u] = "spin_unlock" => i'[u] < Rounds
  BY DEF PlaceInv
<1>3. program # "sum-atomic"
  BY DEF PlaceInv
<1> QED BY <1>1, <1>2, <1>3 DEF PlaceInv

(* A thread ends the body of its loop.                                     *)
LEMMA PlaceEndOfBody ==
  ASSUME PlaceInv, NEW t \in Thread, program' = program, locked' \in 0..1,
         i[t] < Rounds, EndOfBody(t)
  PROVE  PlaceInv'
<1>1. Top \in {"load", "lock addq", "spin_lock"} /\ (program = "sum-atomic" => Top = "lock addq")
  BY TopIs DEF PlaceInv
<1>2. i' = [i EXCEPT ![t] = i[t] + 1] /\ pc' = [pc EXCEPT ![t] = Top]
  BY DEF EndOfBody, Goto
<1>3. i[t] + 1 \in 0..Rounds
  <2>1. i[t] \in 0..Rounds /\ Rounds \in Nat
    BY SumAssumption DEF PlaceInv
  <2> QED BY <2>1
<1>4. i' \in [Thread -> 0..Rounds]
  BY <1>2, <1>3 DEF PlaceInv
<1>5. pc' \in [Thread -> {"load", "store", "lock addq", "spin_lock", "spin_unlock"}]
  BY <1>1, <1>2 DEF PlaceInv
<1>6. \A u \in Thread : pc'[u] = "spin_unlock" => i'[u] < Rounds
  BY <1>1, <1>2 DEF PlaceInv
<1>7. \A u \in Thread : program' = "sum-atomic" => pc'[u] = "lock addq"
  BY <1>1, <1>2 DEF PlaceInv
<1> QED BY <1>4, <1>5, <1>6, <1>7 DEF PlaceInv

(* The invariant holds when main() starts.                                 *)
LEMMA InitInv == Init => SumInv
<1> SUFFICES ASSUME Init PROVE SumInv
  OBVIOUS
<1>1. ThreadsInv
  BY ThreadsInitInv DEF Init
<1>2. PlaceInv
  <2>1. Rounds \in Nat /\ program \in Programs
    BY SumAssumption DEF Init
  <2>2. /\ i = [t \in Thread |-> 0] /\ pc = [t \in Thread |-> Top] /\ locked = 0
    BY DEF Init
  <2>3. Top \in {"load", "lock addq", "spin_lock"} /\ (program = "sum-atomic" => Top = "lock addq")
    BY <2>1, TopIs
  <2>4. i \in [Thread -> 0..Rounds] /\ locked \in 0..1
    BY <2>1, <2>2
  <2>5. pc \in [Thread -> {"load", "store", "lock addq", "spin_lock", "spin_unlock"}]
    BY <2>2, <2>3
  <2>6. \A t \in Thread : pc[t] = Top
    BY <2>2
  <2> QED BY <2>1, <2>3, <2>4, <2>5, <2>6 DEF PlaceInv
<1>3. \A t \in Thread : pc[t] # "spin_unlock" /\ Added(t) = 0 /\ life[t] = "absent"
  BY TopIs DEF Init, Added, ThreadsInit
<1>4. DoneInv /\ LowerInv
  BY <1>3 DEF DoneInv, LowerInv
<1>5. Additions = {}
  <2>1. \A a \in Thread \X (1..Rounds) : a[2] \in 1..Rounds /\ a[1] \in Thread
    OBVIOUS
  <2>2. \A a \in Thread \X (1..Rounds) : ~(a[2] <= Added(a[1]))
    BY <1>3, <2>1, SumAssumption
  <2> QED BY <2>2 DEF Additions
<1>6. Cardinality(Additions) = 0
  BY <1>5, FS_EmptySet
<1>7. UpperInv
  BY <1>6 DEF Init, UpperInv
<1> QED BY <1>1, <1>2, <1>4, <1>7 DEF SumInv

(* Every step is one of the runtime's or leaves its state alone.           *)
LEMMA RuntimeStep ==
  ASSUME SumInv, [Next]_vars
  PROVE  ThreadsInv'
<1>1. [ThreadsNext]_tvars
  BY DEF Next, vars, tvars, Main, print, ThreadStep, Enter, lock_addq, load, store, spin_lock,
         spin_unlock, Return, ThreadsNext
<1> QED BY <1>1, ThreadsStepInv DEF SumInv

(* A step that adds nothing and loads nothing keeps the bounds.            *)
LEMMA QuietBounds ==
  ASSUME SumInv, \A u \in Thread : Added(u)' = Added(u), UNCHANGED <<program, sum, reg>>,
         \A u \in Thread : pc'[u] = "store" => pc[u] = "store"
  PROVE  UpperInv' /\ LowerInv'
<1>1. Additions' = Additions
  BY NoMore
<1>2. UpperInv'
  BY <1>1 DEF SumInv, UpperInv
<1>3. LowerInv'
  BY DEF SumInv, LowerInv
<1> QED BY <1>2, <1>3

(* A step of main() or of the runtime.                                     *)
LEMMA RuntimeInv ==
  ASSUME SumInv, ThreadsInv', UNCHANGED <<program, sum, locked, reg, i, pc>>, DoneInv'
  PROVE  SumInv'
<1>1. \A u \in Thread : Added(u)' = Added(u)
  BY DEF Added
<1>2. PlaceInv'
  BY DEF SumInv, PlaceInv
<1> QED BY <1>1, <1>2, QuietBounds DEF SumInv

(* An addition: what is stored is one more than what sum was, or than what *)
(* the thread has loaded.                                                  *)
LEMMA AdditionBounds ==
  ASSUME SumInv, PlaceInv', NEW t \in Thread,
         Added(t)' = Added(t) + 1,
         \A u \in Thread \ {t} : Added(u)' = Added(u) /\ pc'[u] = pc[u],
         pc'[t] # "store",
         UNCHANGED <<program, reg>>,
         \/ sum' = sum + 1
         \/ sum' = reg[t] + 1 /\ pc[t] = "store"
  PROVE  UpperInv' /\ LowerInv'
<1>1. Cardinality(Additions') = Cardinality(Additions) + 1 /\ Cardinality(Additions) \in Nat
  BY OneMore, AdditionsFinite DEF SumInv
<1>2. sum \in Nat /\ reg \in [Thread -> Nat]
  BY DEF SumInv, UpperInv
<1>3. \A u \in Thread : Added(u) \in Nat
  BY AddedType, SumAssumption DEF SumInv
<1>4. UpperInv'
  <2>1. sum' \in Nat /\ reg' \in [Thread -> Nat]
    BY <1>2
  <2>2. sum' <= Cardinality(Additions')
    BY <1>1, <1>2 DEF SumInv, UpperInv
  <2>3. \A u \in Thread : reg'[u] <= Cardinality(Additions')
    BY <1>1, <1>2 DEF SumInv, UpperInv
  <2>4. program' = "sum-atomic" => sum' = Cardinality(Additions')
    <3>1. program = "sum-atomic" => pc[t] # "store"
      BY DEF SumInv, PlaceInv
    <3> QED BY <1>1, <3>1 DEF SumInv, UpperInv
  <2> QED BY <2>1, <2>2, <2>3, <2>4 DEF UpperInv
<1>5. sum' >= 1
  BY <1>2
<1>6. Added(t) > 0 => sum' >= 2
  BY <1>2 DEF SumInv, LowerInv
<1>7. \A u \in Thread : Added(u)' > 0 /\ pc'[u] = "store" => reg'[u] >= 1
  BY DEF SumInv, LowerInv
<1>8. sum' >= 2 \/ Added(t)' = 1
  BY <1>3, <1>6
<1> QED BY <1>4, <1>5, <1>7, <1>8 DEF LowerInv

(* lock addq adds one to sum itself.                                       *)
LEMMA lock_addqInv ==
  ASSUME SumInv, ThreadsInv', NEW t \in Thread, lock_addq(t)
  PROVE  SumInv'
<1>1. /\ Rounds \in Nat
      /\ Top \in {"load", "lock addq", "spin_lock"}
      /\ program = "sum-atomic" => Top = "lock addq"
  BY SumAssumption, TopIs DEF SumInv, PlaceInv
<1>2. /\ life[t] = "running" /\ i[t] < Rounds /\ pc[t] = "lock addq"
      /\ sum' = sum + 1 /\ i' = [i EXCEPT ![t] = @ + 1] /\ pc' = [pc EXCEPT ![t] = Top]
      /\ UNCHANGED <<life, program, locked, reg>>
  BY DEF lock_addq, InLoop, Running, Entered, EndOfBody, Goto, tvars
<1>3. PlaceInv'
  <2>1. PlaceInv /\ locked' \in 0..1 /\ EndOfBody(t)
    BY <1>2 DEF SumInv, PlaceInv, lock_addq
  <2> QED BY <1>2, <2>1, PlaceEndOfBody
<1>4. Top \notin {"spin_unlock", "store"}
  BY <1>1
<1>5. Added(t)' = Added(t) + 1 /\ \A u \in Thread \ {t} : Added(u)' = Added(u) /\ pc'[u] = pc[u]
  BY <1>2, <1>4 DEF SumInv, PlaceInv, Added
<1>6. DoneInv'
  BY <1>2, <1>5 DEF SumInv, PlaceInv, DoneInv
<1>7. pc'[t] # "store"
  BY <1>2, <1>4 DEF SumInv, PlaceInv
<1>8. UpperInv' /\ LowerInv'
  BY <1>2, <1>3, <1>5, <1>7, AdditionBounds
<1> QED BY <1>3, <1>6, <1>8 DEF SumInv

(* So does a store of what was loaded, but perhaps to an old value.        *)
LEMMA storeInv ==
  ASSUME SumInv, ThreadsInv', NEW t \in Thread, store(t)
  PROVE  SumInv'
<1>1. /\ Rounds \in Nat
      /\ Top \in {"load", "lock addq", "spin_lock"}
      /\ program = "sum-atomic" => Top = "lock addq"
  BY SumAssumption, TopIs DEF SumInv, PlaceInv
<1>2. /\ life[t] = "running" /\ i[t] < Rounds /\ pc[t] = "store" /\ sum' = reg[t] + 1
      /\ \/ program = "spinlock" /\ pc' = [pc EXCEPT ![t] = "spin_unlock"] /\ i' = i
         \/ i' = [i EXCEPT ![t] = @ + 1] /\ pc' = [pc EXCEPT ![t] = Top]
      /\ UNCHANGED <<life, program, locked, reg>>
  BY DEF store, InLoop, Running, Entered, EndOfBody, Goto, tvars
<1>3. PlaceInv'
  <2>1. PlaceInv /\ locked' \in 0..1
    BY <1>2 DEF SumInv, PlaceInv
  <2>2. CASE EndOfBody(t)
    BY <1>2, <2>1, <2>2, PlaceEndOfBody
  <2>3. CASE pc' = [pc EXCEPT ![t] = "spin_unlock"] /\ i' = i
    BY <1>2, <2>1, <2>3, PlaceInBody
  <2> QED BY <2>2, <2>3 DEF store, Goto
<1>4. Top \notin {"spin_unlock", "store"}
  BY <1>1
<1>5. Added(t)' = Added(t) + 1 /\ \A u \in Thread \ {t} : Added(u)' = Added(u) /\ pc'[u] = pc[u]
  BY <1>2, <1>4 DEF SumInv, PlaceInv, Added
<1>6. DoneInv'
  BY <1>2, <1>5 DEF SumInv, PlaceInv, DoneInv
<1>7. pc'[t] # "store"
  BY <1>2, <1>4 DEF SumInv, PlaceInv
<1>8. UpperInv' /\ LowerInv'
  BY <1>2, <1>3, <1>5, <1>7, AdditionBounds
<1> QED BY <1>3, <1>6, <1>8 DEF SumInv

(* A load: at least 1 if the thread has added before.                      *)
LEMMA loadInv ==
  ASSUME SumInv, ThreadsInv', NEW t \in Thread, load(t)
  PROVE  SumInv'
<1>1. /\ pc[t] = "load" /\ reg' = [reg EXCEPT ![t] = sum] /\ pc' = [pc EXCEPT ![t] = "store"]
      /\ UNCHANGED <<life, program, sum, locked, i>>
  BY DEF load, InLoop, Goto, tvars
<1>2. PlaceInv'
  BY <1>1 DEF SumInv, PlaceInv
<1>3. \A u \in Thread : Added(u)' = Added(u)
  BY <1>1 DEF SumInv, PlaceInv, Added
<1>4. DoneInv'
  BY <1>1, <1>3 DEF SumInv, DoneInv
<1>5. Additions' = Additions
  BY <1>3, NoMore
<1>6. UpperInv'
  BY <1>1, <1>5 DEF SumInv, UpperInv
<1>7. LowerInv'
  <2>1. \A u \in Thread : Added(u)' > 0 => sum' >= 1
    BY <1>1, <1>3 DEF SumInv, LowerInv
  <2>2. \A u \in Thread : Added(u)' > 0 /\ pc'[u] = "store" => reg'[u] >= 1
    BY <1>1, <1>3 DEF SumInv, LowerInv, PlaceInv, UpperInv
  <2>3. \/ Rounds = 1 \/ sum' >= 2 \/ (\A u \in Thread : Added(u)' = 0)
        \/ \E u \in Thread : Added(u)' = 1
    BY <1>1, <1>3 DEF SumInv, LowerInv
  <2> QED BY <2>1, <2>2, <2>3 DEF LowerInv
<1> QED BY <1>2, <1>4, <1>6, <1>7 DEF SumInv

(* spin_lock and spin_unlock change only the lock word and the place.      *)
LEMMA spinInv ==
  ASSUME SumInv, ThreadsInv', NEW t \in Thread, spin_lock(t) \/ spin_unlock(t)
  PROVE  SumInv'
<1>1. /\ Rounds \in Nat
      /\ Top \in {"load", "lock addq", "spin_lock"}
      /\ program = "sum-atomic" => Top = "lock addq"
  BY SumAssumption, TopIs DEF SumInv, PlaceInv
<1>2. Top \notin {"spin_unlock", "store"}
  BY <1>1
<1>3. /\ UNCHANGED <<life, program, sum, reg>> /\ life[t] = "running" /\ i[t] < Rounds /\ locked' \in {0, 1, locked}
      /\ \/ pc[t] = "spin_lock" /\ i' = i /\ \/ pc' = [pc EXCEPT ![t] = "spin_lock"]
                                              \/ pc' = [pc EXCEPT ![t] = "load"]
         \/ /\ pc[t] = "spin_unlock" /\ i' = [i EXCEPT ![t] = @ + 1]
            /\ pc' = [pc EXCEPT ![t] = Top]
  BY DEF spin_lock, spin_unlock, compare_and_swap, InLoop, Running, Entered, EndOfBody, Goto, tvars
<1>4. PlaceInv'
  <2>1. PlaceInv /\ locked' \in 0..1
    <3>1. PlaceInv /\ locked \in 0..1
      BY DEF SumInv, PlaceInv
    <3>2. locked' \in {0, 1, locked}
      BY <1>3
    <3> QED BY <3>1, <3>2
  <2>2. CASE spin_unlock(t)
    <3>1. EndOfBody(t)
      BY <2>2 DEF spin_unlock
    <3> QED BY <1>3, <2>1, <3>1, PlaceEndOfBody
  <2>3. CASE spin_lock(t)
    <3>1. /\ pc[t] = "spin_lock" /\ i' = i
          /\ pc' = [pc EXCEPT ![t] = "spin_lock"] \/ pc' = [pc EXCEPT ![t] = "load"]
      BY <2>3 DEF spin_lock, InLoop, Goto
    <3> QED BY <1>3, <2>1, <3>1, PlaceInBody
  <2> QED BY <2>2, <2>3
<1>5. \A u \in Thread : Added(u)' = Added(u)
  BY <1>1, <1>2, <1>3 DEF SumInv, PlaceInv, Added
<1>6. DoneInv'
  BY <1>3, <1>5, <1>1 DEF SumInv, PlaceInv, DoneInv
<1>7. \A u \in Thread : pc'[u] = "store" => pc[u] = "store"
  BY <1>2, <1>3 DEF SumInv, PlaceInv
<1>8. UpperInv' /\ LowerInv'
  BY <1>3, <1>5, <1>7, QuietBounds
<1> QED BY <1>4, <1>6, <1>8 DEF SumInv

(* Every step preserves the invariant.                                     *)
LEMMA StepInv == SumInv /\ [Next]_vars => SumInv'
<1> SUFFICES ASSUME SumInv, [Next]_vars PROVE SumInv'
  OBVIOUS
<1>0. ThreadsInv'
  BY RuntimeStep
<1> USE DEF SumInv, DoneInv
<1>1. CASE UNCHANGED vars
  <2>1. UNCHANGED <<program, sum, locked, reg, i, pc, life>>
    BY <1>1 DEF vars, tvars
  <2>2. DoneInv'
    BY <2>1 DEF Added
  <2> QED BY <1>0, <2>1, <2>2, RuntimeInv
<1>2. CASE Main
  <2>1. UNCHANGED <<program, sum, locked, reg, i, pc>> /\ MainStep
    BY <1>2 DEF Main
  <2>2. \A t \in Thread : life'[t] = life[t] \/ (life[t] = "absent" /\ life'[t] # "returned")
    BY <2>1, LifeOfMain
  <2>3. DoneInv'
    BY <2>1, <2>2 DEF Added
  <2> QED BY <1>0, <2>1, <2>3, RuntimeInv
<1>3. CASE print
  <2>1. UNCHANGED <<program, sum, locked, reg, i, pc, life>>
    BY <1>3 DEF print, call_join_fn
  <2>2. DoneInv'
    BY <2>1 DEF Added
  <2> QED BY <1>0, <2>1, <2>2, RuntimeInv
<1>4. ASSUME NEW t \in Thread, Enter(t) \/ Return(t) PROVE SumInv'
  <2>1. UNCHANGED <<program, sum, locked, reg, i, pc>>
    BY <1>4 DEF Enter, Return
  <2>2. \/ life' = [life EXCEPT ![t] = "running"]
        \/ life' = [life EXCEPT ![t] = "returned"] /\ i[t] = Rounds
    BY <1>4 DEF Enter, Return, entry_all, ThreadReturn
  <2>3. DoneInv'
    BY <2>1, <2>2 DEF Added, ThreadsInv, ThreadsTypeOK
  <2> QED BY <1>0, <2>1, <2>3, RuntimeInv
<1> HIDE DEF SumInv, DoneInv
<1> QED
  BY <1>0, <1>1, <1>2, <1>3, <1>4, lock_addqInv, loadInv, storeInv, spinInv DEF Next, ThreadStep

(* The invariant of the three programs; in particular sum, and what a      *)
(* thread loads of it, never exceeds the additions of all threads.         *)
THEOREM SumCorrect == Spec => [](SumInv /\ TypeOK)
<1>1. SumInv => TypeOK
  <2> SUFFICES ASSUME SumInv PROVE TypeOK
    OBVIOUS
  <2> DEFINE n == NThreads * Rounds
  <2>1. Cardinality(Additions) \in Nat /\ Cardinality(Additions) <= n
    BY AdditionsFinite
  <2>2. n \in Nat
    BY NThreadsAssumption, SumAssumption
  <2> HIDE DEF n
  <2>3. sum \in 0..n
    BY <2>1, <2>2 DEF SumInv, UpperInv
  <2>4. reg \in [Thread -> 0..n]
    <3>1. reg \in [Thread -> Nat] /\ \A t \in Thread : reg[t] <= Cardinality(Additions)
      BY DEF SumInv, UpperInv
    <3>2. \A t \in Thread : reg[t] \in 0..n
      BY <2>1, <2>2, <3>1
    <3> QED BY <3>1, <3>2
  <2> QED BY <2>3, <2>4 DEF SumInv, ThreadsInv, PlaceInv, TypeOK, n
<1> QED BY <1>1, InitInv, StepInv, PTL DEF Spec

(* When join_fn runs, the additions are Rounds for each thread that could  *)
(* be started.                                                             *)
LEMMA AllAdded ==
  ASSUME SumInv, main = "exited"
  PROVE  /\ \A t \in Thread : Added(t) = IF t \in Failed THEN 0 ELSE Rounds
         /\ Cardinality(Additions) = Started * Rounds
<1>1. \A t \in Thread \ Failed : life[t] = "returned"
  BY InvJoinFn DEF SumInv, JoinFnRunsLast
<1>2. ASSUME NEW t \in Thread PROVE Added(t) = IF t \in Failed THEN 0 ELSE Rounds
  <2>1. CASE t \in Failed
    BY <2>1 DEF Failed, SumInv, DoneInv
  <2>2. CASE t \notin Failed
    <3>1. i[t] = Rounds
      BY <1>1, <2>2 DEF SumInv, DoneInv
    <3>2. pc[t] # "spin_unlock"
      <4>1. Rounds \in Nat /\ ~(Rounds < Rounds)
        BY SumAssumption
      <4> QED BY <3>1, <4>1 DEF SumInv, PlaceInv
    <3> QED BY <2>2, <3>1, <3>2 DEF Added
  <2> QED BY <2>1, <2>2
<1>3. Additions = (Thread \ Failed) \X (1..Rounds)
  <2>1. ASSUME NEW a \in Thread \X (1..Rounds)
        PROVE  a[2] <= Added(a[1]) <=> a[1] \in Thread \ Failed
    <3>1. a[1] \in Thread /\ a[2] \in 1..Rounds
      OBVIOUS
    <3> QED BY <1>2, <3>1, SumAssumption
  <2>2. \A a \in Thread \X (1..Rounds) : a[1] \in Thread \ Failed <=> a \in (Thread \ Failed) \X (1..Rounds)
    OBVIOUS
  <2>3. (Thread \ Failed) \X (1..Rounds) \subseteq Thread \X (1..Rounds)
    OBVIOUS
  <2> QED BY <2>1, <2>2, <2>3 DEF Additions
<1>4. IsFiniteSet(Thread \ Failed)
  <2>1. IsFiniteSet(Thread)
    BY FS_Interval, NThreadsAssumption DEF Thread
  <2>2. Thread \ Failed \in SUBSET Thread
    OBVIOUS
  <2> QED BY <2>1, <2>2, FS_Subset
<1>5. IsFiniteSet(1..Rounds) /\ Cardinality(1..Rounds) = Rounds
  BY FS_Interval, SumAssumption
<1>6. Cardinality((Thread \ Failed) \X (1..Rounds)) = Cardinality(Thread \ Failed) * Rounds
  BY <1>4, <1>5, FS_Product
<1> QED BY <1>2, <1>3, <1>6 DEF Started

(* sum-atomic.c loses no addition.                                         *)
THEOREM SumAtomicExact == Spec => []AtomicSumExact
<1>1. SumInv => AtomicSumExact
  BY AllAdded DEF AtomicSumExact, SumInv, UpperInv
<1> QED BY <1>1, SumCorrect, PTL

(* sum.c and spinlock.c, whose additions get lost, print at least 2 (1 if  *)
(* there is one round only) and at most the exact sum.                     *)
THEOREM SumRacyBounds == Spec => []RacySumBounds
<1>1. SumInv => RacySumBounds
  <2> SUFFICES ASSUME SumInv, main = "exited"
               PROVE  /\ sum <= Started * Rounds
                      /\ Started > 0 => sum >= IF Rounds = 1 THEN 1 ELSE 2
    BY DEF RacySumBounds
  <2>1. sum <= Started * Rounds
    BY AllAdded DEF SumInv, UpperInv
  <2>2. ASSUME Started > 0 PROVE sum >= IF Rounds = 1 THEN 1 ELSE 2
    <3>1. PICK t \in Thread : t \notin Failed
      <4>1. Cardinality({}) = 0
        BY FS_EmptySet
      <4>2. Thread \ Failed # {}
        BY <2>2, <4>1 DEF Started
      <4> QED BY <4>2
    <3>2. Added(t) = Rounds /\ Rounds \in Nat /\ Rounds > 0
      BY <3>1, AllAdded, SumAssumption
    <3>3. sum >= 1
      BY <3>2 DEF SumInv, LowerInv
    <3>4. \A u \in Thread : Added(u) \in {0, Rounds}
      BY AllAdded
    <3>5. Rounds # 1 => sum >= 2
      BY <3>2, <3>4 DEF SumInv, LowerInv
    <3> QED BY <3>3, <3>5
  <2> QED BY <2>1, <2>2
<1> QED BY <1>1, SumCorrect, PTL
=============================================================================
