------------------------------ MODULE ThreadOS ------------------------------
(***************************************************************************)
(* The three little kernels multi-threads/thread-os.c (one CPU),           *)
(* multi-threads/thread-os-mp.c (several CPUs and a spinlock) and          *)
(* multi-threads/trivial-os.c (user processes with page faults and a       *)
(* system call): on every timer interrupt the handler saves the context of *)
(* the running task in its task and switches to the next task of this CPU. *)
(* CPU c runs the tasks whose index modulo the number of CPUs is c.  The   *)
(* machine (interrupts, context switch, atomic exchange) is the AM         *)
(* library, used through am.h.                                             *)
(***************************************************************************)
EXTENDS Integers, FiniteSets

CONSTANTS
  NTask,         \* LENGTH(tasks)
  MaxCPU,        \* bound on the number of CPUs of the machine
  Machines       \* the kernels to check, each with its numbers of CPUs

ASSUME ThreadOSAssumption ==
  /\ NTask \in Nat \ {0}
  /\ MaxCPU \in Nat \ {0}
  /\ Machines \subseteq {<<"thread-os", 1>>}
                   \cup ({"thread-os-mp", "trivial-os"} \X (1..MaxCPU))

Task == 0..(NTask - 1)
NULL == -1

VARIABLES
  kernel,        \* the kernel that runs
  ncpu,          \* _ncpu()
  current,       \* CPU -> its current task
  regs,          \* CPU -> the point its instruction pointer is at
  context,       \* task -> the saved context: the point it will resume at
  locked,        \* biglock.locked; in trivial-os.c the lock of proc_syscall
  brk,           \* trivial-os.c: kalloc's brk, in pages
  reg,           \* CPU -> the new brk kalloc has computed
  page,          \* task -> its page, 0 for NULL
  reached        \* history: task -> the point it has really reached

vars == <<kernel, ncpu, current, regs, context, locked, brk, reg, page, reached>>
memory == <<brk, reg, page>>

CPU == 0..(ncpu - 1)

FuncPC == {"lock", "printf", "unlock", "delay"}
ProcPC == {"fault", "kalloc", "brk", "page", "user", "puts"}

(* Where a task starts: the first statement of func's loop, or the first   *)
(* instruction of a process, on a page that is not there yet.              *)
func == CASE kernel = "thread-os"    -> "printf"
          [] kernel = "thread-os-mp" -> "lock"
          [] kernel = "trivial-os"   -> "fault"

TypeOK ==
  /\ <<kernel, ncpu>> \in Machines
  /\ current \in [CPU -> Task \cup {NULL}]
  /\ regs \in [CPU -> FuncPC \cup ProcPC \cup {"entry", "hung"}]
  /\ context \in [Task -> FuncPC \cup ProcPC \cup {"entry"}]
  /\ locked \in 0..1
  /\ brk \in 1..(NTask + 1)
  /\ reg \in [CPU -> 0..(NTask + 1)]
  /\ page \in [Task -> 0..NTask]
  /\ reached \in [Task -> FuncPC \cup ProcPC]

(* main() has made a context for every task and started the CPUs.          *)
Init ==
  /\ \E machine \in Machines : kernel = machine[1] /\ ncpu = machine[2]
  /\ current = [c \in CPU |-> NULL]
  /\ regs = [c \in CPU |-> "entry"]
  /\ context = [t \in Task |-> func]
  /\ locked = 0
  /\ brk = 1
  /\ reg = [c \in CPU |-> 0]
  /\ page = [t \in Task |-> 0]
  /\ reached = [t \in Task |-> func]

(* Wrong variant: every CPU may run every task.                            *)
MineUnpartitioned(c) == Task

(* The tasks the do-while loop of CPU c can stop at.                       *)
Mine(c) == { t \in Task : t % ncpu = c }

(* The task next to t, and the first of CPU c's tasks met by going on.     *)
next(t) == (t + 1) % NTask

(* Wrong variant: the walk begins at tasks[0] every time.                  *)
walkFromFirst(c, t) ==
  CHOOSE u \in Mine(c) : \A v \in Mine(c) : u <= v

walk(c, t) ==
  LET distance(u) == IF u > t THEN u - t ELSE u + NTask - t
  IN CHOOSE u \in Mine(c) : \A v \in Mine(c) : distance(u) <= distance(v)

(* Wrong variant: the first interrupt saves the boot context in tasks[0].  *)
savedAlways(c) ==
  [context EXCEPT ![IF current[c] = NULL THEN 0 ELSE current[c]] = regs[c]]

(* The context that the handler starts from: with no current task, nothing *)
(* is saved (the boot context is given up).                                *)
saved(c) ==
  IF current[c] = NULL THEN context
  ELSE [context EXCEPT ![current[c]] = regs[c]]

(* Interrupts are on, but in a handler of trivial-os.c: there they are     *)
(* off, unless it is in proc_syscall and outside of spin_lock's section.   *)
IntrOn(c) ==
  /\ regs[c] # "hung"
  /\ kernel = "trivial-os" =>
       regs[c] \notin {"kalloc", "brk", "page", "lock", "printf", "unlock"}

switch_to(c, t) ==
  /\ current' = [current EXCEPT ![c] = t]
  /\ regs' = [regs EXCEPT ![c] = saved(c)[t]]
  /\ context' = saved(c)

(* on_interrupt of thread-os.c.                                            *)
on_interrupt(c) ==
  /\ kernel = "thread-os"
  /\ switch_to(c, IF current[c] = NULL THEN 0 ELSE next(current[c]))
  /\ UNCHANGED <<kernel, ncpu, locked, memory, reached>>

(* on_interrupt of thread-os-mp.c and schedule of trivial-os.c, interrupts *)
(* off on this CPU: it walks from the current task (from tasks[0] the      *)
(* first time) to the next one whose turn is on this CPU.                  *)
schedule(c) ==
  /\ kernel # "thread-os"
  /\ IntrOn(c)
  /\ Mine(c) # {}
  /\ switch_to(c, walk(c, IF current[c] = NULL THEN 0 ELSE current[c]))
  /\ UNCHANGED <<kernel, ncpu, locked, memory, reached>>

(* The same on a CPU that has no task: the loop of the handler never ends  *)
(* (its current runs round the ring, for nobody to see).                   *)
schedule_hangs(c) ==
  /\ kernel # "thread-os"
  /\ IntrOn(c)
  /\ Mine(c) = {}
  /\ regs' = [regs EXCEPT ![c] = "hung"]
  /\ UNCHANGED <<kernel, ncpu, current, context, locked, memory, reached>>

Interrupt(c) ==
  on_interrupt(c) \/ schedule(c) \/ schedule_hangs(c)
-----------------------------------------------------------------------------
(* One step of the code of task t, on the CPU c that runs it.              *)
Goto(c, t, from, to) ==
  /\ current[c] = t
  /\ regs[c] = from
  /\ regs' = [regs EXCEPT ![c] = to]
  /\ reached' = [reached EXCEPT ![t] = to]
  /\ UNCHANGED <<kernel, ncpu, current, context>>

(* Wrong variant: the result of the exchange is ignored.                   *)
lockIgnoresOld(c, t) ==
  /\ Goto(c, t, "lock", "printf")
  /\ locked' = 1
  /\ UNCHANGED memory

lock(c, t) ==
  /\ locked = 0
  /\ Goto(c, t, "lock", "printf")
  /\ locked' = 1
  /\ UNCHANGED memory

Printf(c, t) ==
  /\ Goto(c, t, "printf", IF kernel = "thread-os" THEN "delay" ELSE "unlock")
  /\ UNCHANGED <<locked, memory>>

(* Wrong variant: the lock word is not cleared.                            *)
unlockMissing(c, t) ==
  /\ Goto(c, t, "unlock", IF kernel = "trivial-os" THEN "user" ELSE "delay")
  /\ UNCHANGED <<locked, memory>>

unlock(c, t) ==
  /\ Goto(c, t, "unlock", IF kernel = "trivial-os" THEN "user" ELSE "delay")
  /\ locked' = 0
  /\ UNCHANGED memory

Delay(c, t) ==
  /\ Goto(c, t, "delay", func)
  /\ UNCHANGED <<locked, memory>>

(* trivial-os.c: the process touches its page for the first time; the page *)
(* fault goes to proc_pagefault, interrupts off.                           *)
pagefault(c, t) ==
  /\ Goto(c, t, "fault", "kalloc")
  /\ UNCHANGED <<locked, memory>>

(* kalloc(pgsize) loads brk, stores the new one ...                        *)
kalloc_load(c, t) ==
  /\ Goto(c, t, "kalloc", "brk")
  /\ reg' = [reg EXCEPT ![c] = brk + 1]
  /\ UNCHANGED <<locked, brk, page>>

kalloc_store(c, t) ==
  /\ Goto(c, t, "brk", "page")
  /\ brk' = reg[c]
  /\ UNCHANGED <<locked, reg, page>>

(* ... and returns the page below it, brk being in a register or loaded    *)
(* again; the process has its page, filled and mapped, and goes on.        *)
proc_pagefault(c, t) ==
  /\ Goto(c, t, "page", "user")
  /\ \E new \in {reg[c], brk} : page' = [page EXCEPT ![t] = new - 1]
  /\ reg' = [reg EXCEPT ![c] = 0]
  /\ UNCHANGED <<locked, brk>>

(* A system call (its number is not looked at): interrupts on, then        *)
(* spin_lock switches them off before its first exchange.                  *)
syscall(c, t) ==
  /\ Goto(c, t, "user", "puts")
  /\ UNCHANGED <<locked, memory>>

intr_off(c, t) ==
  /\ Goto(c, t, "puts", "lock")
  /\ UNCHANGED <<locked, memory>>

TaskStep(t) ==
  \E c \in CPU :
    \/ lock(c, t) \/ Printf(c, t) \/ unlock(c, t) \/ Delay(c, t)
    \/ pagefault(c, t) \/ kalloc_load(c, t) \/ kalloc_store(c, t)
    \/ proc_pagefault(c, t)
    \/ syscall(c, t) \/ intr_off(c, t)

Next == (\E c \in CPU : Interrupt(c)) \/ \E t \in Task : TaskStep(t)

Spec == Init /\ [][Next]_vars

(* The timer keeps interrupting every CPU, and a task that is resumed      *)
(* again and again where it can go on executes an instruction at last.     *)
FairSpec ==
  /\ Spec
  /\ \A c \in 0..(MaxCPU - 1) : WF_vars(c \in CPU /\ Interrupt(c))
  /\ \A t \in Task : SF_vars(TaskStep(t))
-----------------------------------------------------------------------------
(* No task is ever run by two CPUs, although the handlers run without any  *)
(* lock and walk over each other's tasks: a stack has one user.            *)
TaskOnOneCPU ==
  \A c, d \in CPU : current[c] = current[d] /\ current[c] # NULL => c = d

(* A task is always where it has really got to, running or suspended:      *)
(* no context is lost, resumed twice or overwritten by the boot code's.    *)
ContextUpToDate ==
  \A t \in Task :
    \/ \E c \in CPU : current[c] = t /\ regs[c] = reached[t]
    \/ (\A c \in CPU : current[c] # t) /\ context[t] = reached[t]

(* One task at a time is between lock() and unlock(), also when the holder *)
(* is preempted by another task on its CPU.  In trivial-os.c it cannot be  *)
(* preempted: whoever holds the lock of proc_syscall, or waits for it with *)
(* interrupts off, is running.                                             *)
BiglockExclusive ==
  LET inside  == { t \in Task : reached[t] \in {"printf", "unlock"} }
      waiting == { t \in Task : reached[t] = "lock" }
  IN /\ kernel # "thread-os" => Cardinality(inside) = locked
     /\ kernel = "trivial-os" =>
          \A t \in inside \cup waiting : \E c \in CPU : current[c] = t

(* Every task has a CPU again and again: the walk round the ring, which    *)
(* passes over the tasks of other CPUs and from the last task to the       *)
(* first, leaves none out, and none keeps its CPU for ever, neither the    *)
(* holder of the lock nor one that spins on it.  (Not trivial-os.c, whose  *)
(* processes spend most of their time with interrupts off.)                *)
EveryTaskRuns ==
  \A t \in Task : kernel # "trivial-os" ~> (\E c \in CPU : current[c] = t)

(* thread-os-mp.c and trivial-os.c: the lock is taken and given back again *)
(* and again, even when its holder is preempted (or, in trivial-os.c, when *)
(* every other CPU waits for it with interrupts off); a CPU that has no    *)
(* task stops nobody.  (A single task may starve: it may find the lock     *)
(* taken every time.)  thread-os.c: every task comes to its printf and     *)
(* gets past it again and again.                                           *)
KeepsPrinting ==
  /\ kernel # "thread-os" ~> (locked = 1)
  /\ kernel # "thread-os" ~> (locked = 0)
  /\ \A t \in Task : kernel = "thread-os" ~> (reached[t] = "printf")
  /\ \A t \in Task : kernel = "thread-os" ~> (reached[t] # "printf")

(* What kalloc promises as a malloc: no two processes have the same page.  *)
PagesDisjoint ==
  \A t, u \in Task : page[t] = page[u] /\ page[t] # 0 => t = u
=============================================================================
