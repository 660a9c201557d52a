--------------------------- MODULE ThreadOSProofs ---------------------------
(***************************************************************************)
(* Proofs about the kernels thread-os.c, thread-os-mp.c and trivial-os.c,  *)
(* for any number of tasks and of CPUs.                                    *)
(***************************************************************************)
EXTENDS ThreadOS, FiniteSetTheorems, WellFoundedInduction, TLAPS

Places == FuncPC \cup ProcPC \cup {"entry", "hung"}

MachineInv ==
  /\ <<kernel, ncpu>> \in Machines
  /\ current \in [CPU -> Task \cup {NULL}]
  /\ regs \in [CPU -> Places]
  /\ context \in [Task -> Places]
  /\ reached \in [Task -> Places]
  /\ locked \in 0..1

(* A CPU runs only tasks whose turn is on it.                              *)
OwnInv == \A c \in CPU : current[c] # NULL => current[c] \in Mine(c)

(* The registers are those of the current task, and a task that no CPU     *)
(* runs is where its saved context is.                                     *)
SavedInv ==
  /\ \A c \in CPU : current[c] # NULL => regs[c] = reached[current[c]]
  /\ \A t \in Task : (\A c \in CPU : current[c] # t) => context[t] = reached[t]

(* The lock word tells whether there is a task between lock() and          *)
(* unlock(), and there is never more than one.                             *)
Inside == { t \in Task : reached[t] \in {"printf", "unlock"} }

WordInv ==
  kernel # "thread-os" =>
    \/ locked = 0 /\ Inside = {}
    \/ locked = 1 /\ \E t \in Task : Inside = {t}

(* In trivial-os.c nobody is preempted inside or on the way in.            *)
HeldInv ==
  kernel = "trivial-os" =>
    \A t \in Task : reached[t] \in {"lock", "printf", "unlock"} => \E c \in CPU : current[c] = t

OSInv == MachineInv /\ OwnInv /\ SavedInv /\ WordInv /\ HeldInv
-----------------------------------------------------------------------------
(* A set of natural numbers that is not empty has a least element.         *)
LEMMA LeastNatural ==
  ASSUME NEW S, S \subseteq Nat, S # {}
  PROVE  \E m \in S : \A n \in S : m <= n
<1>1. PICK m \in S : \A n \in S : ~(<<n, m>> \in OpToRel(<, Nat))
  BY NatLessThanWellFounded, WFMin
<1>2. ASSUME NEW n \in S PROVE m <= n
  <2>1. m \in Nat /\ n \in Nat
    OBVIOUS
  <2>2. <<n, m>> \in Nat \X Nat /\ <<n, m>>[1] = n /\ <<n, m>>[2] = m
    BY <2>1
  <2>3. ~(n < m)
    BY <1>1, <2>2 DEF OpToRel
  <2> QED BY <2>1, <2>3
<1> QED BY <1>2

(* The machines.                                                           *)
LEMMA Machine ==
  ASSUME MachineInv
  PROVE  /\ kernel \in {"thread-os", "thread-os-mp", "trivial-os"}
         /\ ncpu \in Nat /\ ncpu > 0
         /\ kernel = "thread-os" => ncpu = 1
         /\ NTask \in Nat /\ NTask > 0
         /\ NULL \notin Task
<1>1. <<kernel, ncpu>> \in {<<"thread-os", 1>>} \cup ({"thread-os-mp", "trivial-os"} \X (1..MaxCPU))
  BY ThreadOSAssumption DEF MachineInv
<1>2. \/ kernel = "thread-os" /\ ncpu = 1
      \/ kernel \in {"thread-os-mp", "trivial-os"} /\ ncpu \in 1..MaxCPU
  BY <1>1
<1>3. MaxCPU \in Nat /\ NTask \in Nat /\ NTask > 0
  BY ThreadOSAssumption
<1>4. NULL \notin Task
  BY <1>3 DEF NULL, Task
<1> QED BY <1>2, <1>3, <1>4

(* The loop of the handler stops at a task of its own CPU.                 *)
LEMMA WalkIsMine ==
  ASSUME MachineInv, NEW c \in CPU, Mine(c) # {}, NEW t \in Task
  PROVE  walk(c, t) \in Mine(c)
<1> DEFINE distance(u) == IF u > t THEN u - t ELSE u + NTask - t
           D == { distance(u) : u \in Mine(c) }
<1>1. NTask \in Nat /\ t \in Nat /\ t < NTask
  BY Machine DEF Task
<1>2. \A u \in Mine(c) : distance(u) \in Nat
  BY <1>1 DEF Mine, Task
<1>3. PICK m \in D : \A n \in D : m <= n
  <2>1. D \subseteq Nat /\ D # {}
    BY <1>2
  <2> HIDE DEF D
  <2> QED BY <2>1, LeastNatural
<1>4. \E u \in Mine(c) : \A v \in Mine(c) : distance(u) <= distance(v)
  BY <1>3
<1>5. walk(c, t) = CHOOSE u \in Mine(c) : \A v \in Mine(c) : distance(u) <= distance(v)
  BY DEF walk
<1> HIDE DEF distance
<1> QED BY <1>4, <1>5

(* Two CPUs have no task in common.                                        *)
LEMMA MineDisjoint ==
  ASSUME NEW c \in CPU, NEW d \in CPU, NEW t, t \in Mine(c), t \in Mine(d)
  PROVE  c = d
BY DEF Mine

(* Where a task starts.                                                    *)
LEMMA FuncIs ==
  ASSUME MachineInv
  PROVE  /\ func \in {"printf", "lock", "fault"}
         /\ kernel # "thread-os" => func # "printf"
         /\ kernel = "trivial-os" => func = "fault"
<1>1. kernel \in {"thread-os", "thread-os-mp", "trivial-os"}
  BY Machine
<1> QED BY <1>1 DEF func
-----------------------------------------------------------------------------
(* The invariant holds when main() has started the CPUs.                   *)
LEMMA InitInv == Init => OSInv
<1> SUFFICES ASSUME Init PROVE OSInv
  OBVIOUS
<1>1. <<kernel, ncpu>> \in Machines
  <2>1. PICK machine \in Machines : kernel = machine[1] /\ ncpu = machine[2]
    BY DEF Init
  <2>2. machine \in {<<"thread-os", 1>>} \cup ({"thread-os-mp", "trivial-os"} \X (1..MaxCPU))
    BY ThreadOSAssumption
  <2>3. machine = <<machine[1], machine[2]>>
    BY <2>2
  <2> QED BY <2>1, <2>3
<1>2. /\ current = [c \in CPU |-> NULL] /\ regs = [c \in CPU |-> "entry"] /\ locked = 0
      /\ context = [t \in Task |-> func] /\ reached = [t \in Task |-> func]
  BY DEF Init
<1>3. kernel \in {"thread-os", "thread-os-mp", "trivial-os"}
  <2>1. <<kernel, ncpu>> \in {<<"thread-os", 1>>} \cup ({"thread-os-mp", "trivial-os"} \X (1..MaxCPU))
    BY <1>1, ThreadOSAssumption
  <2> QED BY <2>1
<1>4. func \in {"printf", "lock", "fault"} /\ (kernel # "thread-os" => func # "printf")
      /\ (kernel = "trivial-os" => func = "fault")
  BY <1>3 DEF func
<1>5. MachineInv
  BY <1>1, <1>2, <1>4 DEF MachineInv, Places, FuncPC, ProcPC
<1>6. NULL \notin Task
  BY <1>5, Machine
<1>7. OwnInv /\ SavedInv
  BY <1>2, <1>6 DEF OwnInv, SavedInv
<1>8. WordInv
  BY <1>2, <1>4 DEF WordInv, Inside
<1>9. HeldInv
  BY <1>2, <1>4 DEF HeldInv
<1> QED BY <1>5, <1>7, <1>8, <1>9 DEF OSInv

(* A switch to one of the CPU's own tasks saves the old task and resumes   *)
(* the new one where they are.                                             *)
LEMMA switch_toInv ==
  ASSUME OSInv, NEW c \in CPU, NEW t \in Mine(c), switch_to(c, t),
         kernel = "trivial-os" => regs[c] \notin {"lock", "printf", "unlock"},
         UNCHANGED <<kernel, ncpu, locked, reached>>
  PROVE  OSInv'
<1> USE DEF OSInv
<1>1. CPU' = CPU /\ t \in Task /\ NULL \notin Task /\ \A d \in CPU : Mine(d)' = Mine(d)
  BY Machine DEF CPU, Mine
<1>2. current' = [current EXCEPT ![c] = t] /\ regs' = [regs EXCEPT ![c] = saved(c)[t]] /\ context' = saved(c)
  BY DEF switch_to
<1>3. saved(c) \in [Task -> Places]
      /\ \A u \in Task : saved(c)[u] = IF u = current[c] THEN regs[c] ELSE context[u]
  BY <1>1 DEF saved, MachineInv
<1>4. MachineInv'
  BY <1>1, <1>2, <1>3 DEF MachineInv
<1>5. /\ current'[c] = t /\ regs'[c] = saved(c)[t]
      /\ \A d \in CPU \ {c} : current'[d] = current[d] /\ regs'[d] = regs[d]
  BY <1>2 DEF MachineInv
<1>6. OwnInv'
  BY <1>1, <1>5 DEF OwnInv
<1>7. \A d \in CPU \ {c} : current[d] # t
  BY <1>1, MineDisjoint DEF OwnInv
<1>8. current[c] \in Task => \A d \in CPU \ {c} : current[d] # current[c]
  BY <1>1, MineDisjoint DEF OwnInv
<1>9. SavedInv'
  <2>1. saved(c)[t] = reached[t]
    BY <1>1, <1>3, <1>7 DEF SavedInv
  <2>2. ASSUME NEW u \in Task, \A d \in CPU : current'[d] # u PROVE context'[u] = reached[u]
    <3>1. CASE u = current[c]
      BY <1>1, <1>2, <1>3, <3>1 DEF SavedInv
    <3>2. CASE u # current[c]
      <4>1. \A d \in CPU : current[d] # u
        BY <1>5, <2>2, <3>2
      <4> QED BY <1>2, <1>3, <3>2, <4>1 DEF SavedInv
    <3> QED BY <3>1, <3>2
  <2>3. \A d \in CPU : current'[d] # NULL => regs'[d] = reached[current'[d]]
    BY <1>5, <2>1 DEF SavedInv
  <2> QED BY <1>1, <2>2, <2>3 DEF SavedInv
<1>10. WordInv'
  BY DEF WordInv, Inside
<1>11. HeldInv'
  <2> SUFFICES ASSUME kernel = "trivial-os", NEW u \in Task,
                      reached[u] \in {"lock", "printf", "unlock"}
               PROVE  \E d \in CPU : current'[d] = u
    BY <1>1 DEF HeldInv
  <2>1. PICK d \in CPU : current[d] = u
    BY DEF HeldInv
  <2>2. regs[d] = reached[u]
    BY <1>1, <2>1 DEF SavedInv
  <2>3. d # c
    BY <2>2
  <2> QED BY <1>5, <2>1, <2>3
<1> QED BY <1>4, <1>6, <1>9, <1>10, <1>11

(* The interrupt handler.                                                  *)
LEMMA InterruptInv ==
  ASSUME OSInv, NEW c \in CPU, Interrupt(c)
  PROVE  OSInv'
<1>1. CASE on_interrupt(c)
  <2> DEFINE t == IF current[c] = NULL THEN 0 ELSE next(current[c])
  <2>1. kernel = "thread-os" /\ ncpu = 1 /\ NTask \in Nat /\ NTask > 0
    BY <1>1, Machine DEF on_interrupt, OSInv
  <2>2. t \in Task
    <3>1. current[c] # NULL => current[c] \in Nat
      BY <2>1 DEF OSInv, MachineInv, Task
    <3> QED BY <2>1, <3>1 DEF next, Task
  <2>3. c = 0 /\ t % 1 = 0
    BY <2>1, <2>2 DEF CPU, Task
  <2>4. t \in Mine(c)
    BY <2>1, <2>2, <2>3 DEF Mine
  <2> HIDE DEF t
  <2>5. switch_to(c, t) /\ UNCHANGED <<kernel, ncpu, locked, reached>>
    BY <1>1 DEF on_interrupt, t
  <2> QED BY <2>1, <2>4, <2>5, switch_toInv
<1>2. CASE schedule(c)
  <2> DEFINE t == walk(c, IF current[c] = NULL THEN 0 ELSE current[c])
  <2>1. (IF current[c] = NULL THEN 0 ELSE current[c]) \in Task
    BY Machine DEF OSInv, MachineInv, Task
  <2>2. t \in Mine(c)
    BY <1>2, <2>1, WalkIsMine DEF schedule, OSInv
  <2> HIDE DEF t
  <2>3. /\ switch_to(c, t) /\ UNCHANGED <<kernel, ncpu, locked, reached>>
        /\ kernel = "trivial-os" => regs[c] \notin {"lock", "printf", "unlock"}
    BY <1>2 DEF schedule, IntrOn, t
  <2> QED BY <2>2, <2>3, switch_toInv
<1>3. CASE schedule_hangs(c)
  <2>1. current[c] = NULL
    BY <1>3 DEF schedule_hangs, OSInv, OwnInv
  <2>2. /\ UNCHANGED <<kernel, ncpu, current, context, locked, reached>> /\ CPU' = CPU
        /\ regs' = [regs EXCEPT ![c] = "hung"] /\ \A d \in CPU : Mine(d)' = Mine(d)
    BY <1>3 DEF schedule_hangs, CPU, Mine
  <2>3. MachineInv'
    BY <2>2 DEF OSInv, MachineInv, Places
  <2>4. OwnInv'
    BY <2>2 DEF OSInv, OwnInv
  <2>5. SavedInv'
    BY <2>1, <2>2 DEF OSInv, SavedInv, MachineInv
  <2>6. WordInv' /\ HeldInv'
    BY <2>2 DEF OSInv, WordInv, Inside, HeldInv
  <2> QED BY <2>3, <2>4, <2>5, <2>6 DEF OSInv
<1> QED BY <1>1, <1>2, <1>3 DEF Interrupt

(* A step of a task on its CPU moves that task only; the lock word and the *)
(* tasks inside must go together.                                          *)
LEMMA GotoInv ==
  ASSUME OSInv, NEW c \in CPU, NEW t \in Task, NEW from \in Places, NEW to \in Places,
         Goto(c, t, from, to), locked' \in 0..1, WordInv'
  PROVE  OSInv'
<1>1. /\ current[c] = t /\ regs[c] = from /\ regs' = [regs EXCEPT ![c] = to]
      /\ reached' = [reached EXCEPT ![t] = to] /\ UNCHANGED <<kernel, ncpu, current, context>>
  BY DEF Goto
<1>2. CPU' = CPU /\ NULL \notin Task /\ \A d \in CPU : Mine(d)' = Mine(d)
  BY <1>1, Machine DEF CPU, Mine, OSInv
<1>3. MachineInv'
  BY <1>1, <1>2 DEF OSInv, MachineInv
<1>4. OwnInv'
  BY <1>1, <1>2 DEF OSInv, OwnInv
<1>5. \A d \in CPU \ {c} : current[d] # t
  BY <1>1, <1>2, MineDisjoint DEF OSInv, OwnInv
<1>6. SavedInv'
  <2>1. \A d \in CPU : current[d] # NULL => regs'[d] = reached'[current[d]]
    BY <1>1, <1>2, <1>5 DEF OSInv, SavedInv, MachineInv
  <2>2. \A u \in Task : (\A d \in CPU : current[d] # u) => context[u] = reached'[u]
    BY <1>1 DEF OSInv, SavedInv, MachineInv
  <2> QED BY <1>1, <1>2, <2>1, <2>2 DEF SavedInv
<1>7. HeldInv'
  BY <1>1, <1>2 DEF OSInv, HeldInv, MachineInv
<1> QED BY <1>3, <1>4, <1>6, <1>7 DEF OSInv

(* Every step preserves the invariant.                                     *)
LEMMA StepInv == OSInv /\ [Next]_vars => OSInv'
<1> SUFFICES ASSUME OSInv, [Next]_vars PROVE OSInv'
  OBVIOUS
<1>1. CASE UNCHANGED vars
  <2>1. UNCHANGED <<kernel, ncpu, current, regs, context, locked, reached>>
        /\ CPU' = CPU /\ \A d \in CPU : Mine(d)' = Mine(d)
    BY <1>1 DEF vars, CPU, Mine
  <2> QED BY <2>1 DEF OSInv, MachineInv, OwnInv, SavedInv, WordInv, HeldInv, Inside
<1>2. ASSUME NEW c \in CPU, Interrupt(c) PROVE OSInv'
  BY <1>2, InterruptInv
<1>3. ASSUME NEW t \in Task, TaskStep(t) PROVE OSInv'
  <2>0. PICK c \in CPU :
          \/ lock(c, t) \/ Printf(c, t) \/ unlock(c, t) \/ Delay(c, t)
          \/ pagefault(c, t) \/ kalloc_load(c, t) \/ kalloc_store(c, t)
          \/ proc_pagefault(c, t)
          \/ syscall(c, t) \/ intr_off(c, t)
    BY <1>3 DEF TaskStep
  <2>1. /\ reached \in [Task -> Places] /\ locked \in 0..1 /\ NULL \notin Task
        /\ current[c] = t => regs[c] = reached[t]
    BY Machine DEF OSInv, MachineInv, SavedInv
  <2>2. func \in {"printf", "lock", "fault"} /\ (kernel # "thread-os" => func # "printf")
    BY FuncIs DEF OSInv
  <2> USE DEF Places, FuncPC, ProcPC
  <2>3. ASSUME NEW from \in Places, NEW to \in Places, Goto(c, t, from, to), locked' = locked,
               kernel # "thread-os" => (from \in {"printf", "unlock"} <=> to \in {"printf", "unlock"})
        PROVE  OSInv'
    <3>1. kernel' = kernel /\ reached[t] = from /\ reached' = [reached EXCEPT ![t] = to]
      BY <2>1, <2>3 DEF Goto
    <3>2. kernel # "thread-os" => Inside' = Inside
      BY <2>1, <2>3, <3>1 DEF Inside
    <3>3. WordInv'
      BY <2>3, <3>1, <3>2 DEF OSInv, WordInv
    <3> QED BY <2>1, <2>3, <3>3, GotoInv
  <2>4. CASE lock(c, t)
    <3>1. Goto(c, t, "lock", "printf") /\ locked = 0 /\ locked' = 1
      BY <2>4 DEF lock
    <3>2. kernel' = kernel /\ reached' = [reached EXCEPT ![t] = "printf"]
      BY <3>1 DEF Goto
    <3>3. kernel # "thread-os" => Inside' = {t}
      BY <2>1, <3>1, <3>2 DEF OSInv, WordInv, Inside
    <3>4. WordInv'
      BY <3>1, <3>2, <3>3 DEF WordInv
    <3> QED BY <3>1, <3>4, GotoInv
  <2>5. CASE unlock(c, t)
    <3> DEFINE to == IF kernel = "trivial-os" THEN "user" ELSE "delay"
    <3>1. Goto(c, t, "unlock", to) /\ locked' = 0 /\ to \in {"user", "delay"}
      BY <2>5 DEF unlock
    <3> HIDE DEF to
    <3>2. kernel' = kernel /\ reached' = [reached EXCEPT ![t] = to] /\ reached[t] = "unlock"
      BY <2>1, <3>1 DEF Goto
    <3>3. kernel # "thread-os" => Inside = {t}
      BY <3>2 DEF OSInv, WordInv, Inside
    <3>4. kernel # "thread-os" => Inside' = {}
      BY <2>1, <3>1, <3>2, <3>3 DEF Inside
    <3>5. WordInv'
      BY <3>1, <3>2, <3>4 DEF WordInv
    <3> QED BY <3>1, <3>5, GotoInv
  <2>6. CASE Printf(c, t)
    BY <2>3, <2>6 DEF Printf
  <2>7. CASE Delay(c, t)
    BY <2>2, <2>3, <2>7 DEF Delay
  <2>8. CASE pagefault(c, t) \/ kalloc_load(c, t) \/ kalloc_store(c, t) \/ proc_pagefault(c, t)
    BY <2>3, <2>8 DEF pagefault, kalloc_load, kalloc_store, proc_pagefault
  <2>9. CASE syscall(c, t) \/ intr_off(c, t)
    BY <2>3, <2>9 DEF syscall, intr_off
  <2> QED BY <2>0, <2>4, <2>5, <2>6, <2>7, <2>8, <2>9
<1> QED BY <1>1, <1>2, <1>3 DEF Next

(* The invariant of the three kernels.                                     *)
THEOREM ThreadOSCorrect == Spec => []OSInv
BY InitInv, StepInv, PTL DEF Spec

(* No task is run by two CPUs.                                             *)
THEOREM TasksOnOneCPU == Spec => []TaskOnOneCPU
<1>1. OSInv => TaskOnOneCPU
  BY MineDisjoint DEF OSInv, OwnInv, TaskOnOneCPU
<1> QED BY <1>1, ThreadOSCorrect, PTL

(* No context is lost, resumed twice or overwritten.                       *)
THEOREM ContextsUpToDate == Spec => []ContextUpToDate
<1>1. OSInv => ContextUpToDate
  BY Machine DEF OSInv, SavedInv, ContextUpToDate
<1> QED BY <1>1, ThreadOSCorrect, PTL

(* The spinlock lets in one task at a time, and in trivial-os.c neither    *)
(* its holder nor one who waits for it is preempted.                       *)
THEOREM BiglockIsExclusive == Spec => []BiglockExclusive
<1>1. OSInv => BiglockExclusive
  <2> SUFFICES ASSUME OSInv PROVE BiglockExclusive
    OBVIOUS
  <2>1. Cardinality({}) = 0 /\ \A t \in Task : Cardinality({t}) = 1
    BY FS_EmptySet, FS_Singleton
  <2>2. kernel # "thread-os" => Cardinality(Inside) = locked
    BY <2>1 DEF OSInv, WordInv
  <2>3. kernel = "trivial-os" =>
          \A t \in Inside \cup { u \in Task : reached[u] = "lock" } : \E c \in CPU : current[c] = t
    BY DEF OSInv, HeldInv, Inside
  <2> QED BY <2>2, <2>3 DEF BiglockExclusive, Inside
<1> QED BY <1>1, ThreadOSCorrect, PTL
=============================================================================
