---------------------------- MODULE Xv6SpinLock ----------------------------
(***************************************************************************)
(* The spinlocks of multi-threads/spinlock-xv6.c: acquire, release,        *)
(* holding and the pushcli/popcli pair they use, on several CPUs whose     *)
(* interrupt handlers take locks too.  Every access to a lock's fields is  *)
(* a step of its own; an interrupt may come between any two steps of a CPU *)
(* whose interrupt flag is set.                                            *)
(*                                                                         *)
(* The callers are not in the repository.  They take locks in increasing   *)
(* order, release only what they hold, and a handler returns when it holds *)
(* nothing: what the kernel asks of its own code.                          *)
(***************************************************************************)
EXTENDS Integers, FiniteSets, Sequences

CONSTANTS
  NCPU,           \* number of CPUs
  NLock,          \* number of locks
  MaxDepth        \* bound on interrupts nested on one CPU

ASSUME Xv6Assumption ==
  /\ NCPU \in Nat \ {0}
  /\ NLock \in Nat \ {0}
  /\ MaxDepth \in Nat \ {0}

CPU   == 1..NCPU
Lock  == 1..NLock
NoCPU == 0

VARIABLES
  locked,    \* lk->locked
  cpu,       \* lk->cpu
  IF_,       \* CPU -> the interrupt flag FL_IF of its eflags
  ncli,      \* CPU -> depth of pushcli nesting
  intena,    \* CPU -> were interrupts enabled before the first pushcli?
  pc,        \* CPU -> where it is in acquire or release, or "out" of them
  lk,        \* CPU -> the argument of that call
  eflags,    \* CPU -> pushcli's local: FL_IF as it was before cli()
  r,         \* CPU -> holding's local: the value of lock->locked it read
  held,      \* CPU -> locks whose acquire has returned and release not begun
  stack      \* CPU -> the contexts that interrupts have suspended

lockvars == <<locked, cpu>>
cpuvars  == <<IF_, ncli, intena>>
vars == <<lockvars, cpuvars, pc, lk, eflags, r, held, stack>>

PC == {"out", "cli", "a_locked", "a_cpu", "xchg", "set_cpu",
       "r_locked", "r_cpu", "clear_cpu", "movl", "popcli", "panic"}

Frame == [pc : PC, lk : Lock, eflags : BOOLEAN, held : SUBSET Lock]

TypeOK ==
  /\ locked \in [Lock -> 0..1]
  /\ cpu \in [Lock -> CPU \cup {NoCPU}]
  /\ IF_ \in [CPU -> BOOLEAN]
  /\ ncli \in [CPU -> 0..(NLock + 1)]
  /\ intena \in [CPU -> BOOLEAN]
  /\ pc \in [CPU -> PC]
  /\ lk \in [CPU -> Lock]
  /\ eflags \in [CPU -> BOOLEAN]
  /\ r \in [CPU -> 0..1]
  /\ held \in [CPU -> SUBSET Lock]
  /\ stack \in [CPU -> Seq(Frame)]

(* initlock on every lock; the CPUs run with interrupts enabled.           *)
Init ==
  /\ locked = [l \in Lock |-> 0]
  /\ cpu = [l \in Lock |-> NoCPU]
  /\ IF_ = [c \in CPU |-> TRUE]
  /\ ncli = [c \in CPU |-> 0]
  /\ intena = [c \in CPU |-> FALSE]
  /\ pc = [c \in CPU |-> "out"]
  /\ lk = [c \in CPU |-> 1]
  /\ eflags = [c \in CPU |-> FALSE]
  /\ r = [c \in CPU |-> 0]
  /\ held = [c \in CPU |-> {}]
  /\ stack = [c \in CPU |-> <<>>]

Goto(c, from, to) ==
  /\ pc[c] = from
  /\ pc' = [pc EXCEPT ![c] = to]
-----------------------------------------------------------------------------
(* acquire(l): pushcli reads eflags ...                                    *)
acquire(c, l) ==
  /\ \A h \in held[c] : h < l
  /\ Goto(c, "out", "cli")
  /\ lk' = [lk EXCEPT ![c] = l]
  /\ eflags' = [eflags EXCEPT ![c] = IF_[c]]
  /\ UNCHANGED <<lockvars, cpuvars, r, held, stack>>

(* Wrong variant: interrupts stay on.                                      *)
cliMissing(c) == UNCHANGED IF_

cli(c) == IF_' = [IF_ EXCEPT ![c] = FALSE]

(* Wrong variant: a nested call overwrites intena.                         *)
save_intenaAlways(c) == intena' = [intena EXCEPT ![c] = eflags[c]]

(* if (ncli == 0) intena = eflags & FL_IF.                                 *)
save_intena(c) == intena' = [intena EXCEPT ![c] = IF ncli[c] = 0 THEN eflags[c] ELSE @]

(* ... and disables interrupts.  From cli() on nobody else touches this    *)
(* CPU's ncli and intena.                                                  *)
pushcli(c) ==
  /\ Goto(c, "cli", "a_locked")
  /\ cli(c)
  /\ save_intena(c)
  /\ ncli' = [ncli EXCEPT ![c] = @ + 1]
  /\ UNCHANGED <<lockvars, lk, eflags, r, held, stack>>

(* holding(lk) reads lk->locked and then lk->cpu.  Its own pushcli and     *)
(* popcli cancel out: it is called with interrupts off and ncli >= 1.      *)
holding_locked(c) ==
  /\ Goto(c, "a_locked", "a_cpu") \/ Goto(c, "r_locked", "r_cpu")
  /\ r' = [r EXCEPT ![c] = locked[lk[c]]]
  /\ UNCHANGED <<lockvars, cpuvars, lk, eflags, held, stack>>

holding(c) == r[c] = 1 /\ cpu[lk[c]] = c

acquire_check(c) ==
  /\ Goto(c, "a_cpu", IF holding(c) THEN "panic" ELSE "xchg")
  /\ UNCHANGED <<lockvars, cpuvars, lk, eflags, r, held, stack>>

(* Wrong variant: the old value is ignored.                                *)
spinsNever(c) == FALSE

spins(c) == locked[lk[c]] # 0

(* The spin loop: xchg stores 1 whatever it finds, and the loop ends when  *)
(* it found 0.                                                             *)
xchg(c) ==
  /\ Goto(c, "xchg", IF spins(c) THEN "xchg" ELSE "set_cpu")
  /\ locked' = [locked EXCEPT ![lk[c]] = 1]
  /\ UNCHANGED <<cpu, cpuvars, lk, eflags, r, held, stack>>

acquire_return(c) ==
  /\ Goto(c, "set_cpu", "out")
  /\ cpu' = [cpu EXCEPT ![lk[c]] = c]
  /\ held' = [held EXCEPT ![c] = @ \cup {lk[c]}]
  /\ UNCHANGED <<locked, cpuvars, lk, eflags, r, stack>>
-----------------------------------------------------------------------------
release(c, l) ==
  /\ l \in held[c]
  /\ Goto(c, "out", "r_locked")
  /\ lk' = [lk EXCEPT ![c] = l]
  /\ held' = [held EXCEPT ![c] = @ \ {l}]
  /\ UNCHANGED <<lockvars, cpuvars, eflags, r, stack>>

release_check(c) ==
  /\ Goto(c, "r_cpu", IF holding(c) THEN "clear_cpu" ELSE "panic")
  /\ UNCHANGED <<lockvars, cpuvars, lk, eflags, r, held, stack>>

(* Wrong variant: lk->cpu keeps the name of the last holder.               *)
clear_cpuMissing(c) ==
  /\ Goto(c, "clear_cpu", "movl")
  /\ UNCHANGED <<lockvars, cpuvars, lk, eflags, r, held, stack>>

clear_cpu(c) ==
  /\ Goto(c, "clear_cpu", "movl")
  /\ cpu' = [cpu EXCEPT ![lk[c]] = NoCPU]
  /\ UNCHANGED <<locked, cpuvars, lk, eflags, r, held, stack>>

(* Wrong variant: the lock word is not cleared.                            *)
movlMissing(c) ==
  /\ Goto(c, "movl", "popcli")
  /\ UNCHANGED <<lockvars, cpuvars, lk, eflags, r, held, stack>>

movl(c) ==
  /\ Goto(c, "movl", "popcli")
  /\ locked' = [locked EXCEPT ![lk[c]] = 0]
  /\ UNCHANGED <<cpu, cpuvars, lk, eflags, r, held, stack>>

popcli(c) ==
  /\ Goto(c, "popcli", IF IF_[c] \/ ncli[c] = 0 THEN "panic" ELSE "out")
  /\ ncli' = [ncli EXCEPT ![c] = IF IF_[c] THEN @ ELSE @ - 1]
  /\ IF_' = [IF_ EXCEPT ![c] = @ \/ (ncli[c] = 1 /\ intena[c])]
  /\ UNCHANGED <<lockvars, intena, lk, eflags, r, held, stack>>
-----------------------------------------------------------------------------
(* An interrupt suspends the context of a CPU with interrupts enabled; the *)
(* gate clears the flag.  Environment: trap entry is not in the            *)
(* repository.                                                             *)
Interrupt(c) ==
  /\ IF_[c]
  /\ pc[c] # "panic"
  /\ Len(stack[c]) < MaxDepth
  /\ stack' = [stack EXCEPT ![c] = Append(@,
       [pc |-> pc[c], lk |-> lk[c], eflags |-> eflags[c], held |-> held[c]])]
  /\ IF_' = [IF_ EXCEPT ![c] = FALSE]
  /\ pc' = [pc EXCEPT ![c] = "out"]
  /\ held' = [held EXCEPT ![c] = {}]
  /\ UNCHANGED <<lockvars, ncli, intena, lk, eflags, r>>

(* iret restores the suspended context, which had interrupts enabled.      *)
iret(c) ==
  /\ stack[c] # <<>>
  /\ pc[c] = "out"
  /\ held[c] = {}
  /\ LET f == stack[c][Len(stack[c])]
     IN /\ pc' = [pc EXCEPT ![c] = f.pc]
        /\ lk' = [lk EXCEPT ![c] = f.lk]
        /\ eflags' = [eflags EXCEPT ![c] = f.eflags]
        /\ held' = [held EXCEPT ![c] = f.held]
  /\ stack' = [stack EXCEPT ![c] = SubSeq(@, 1, Len(@) - 1)]
  /\ IF_' = [IF_ EXCEPT ![c] = TRUE]
  /\ UNCHANGED <<lockvars, ncli, intena, r>>

(* The steps a CPU must go on to take.                                     *)
CodeStep(c) ==
  \/ pushcli(c)
  \/ holding_locked(c)
  \/ acquire_check(c) \/ xchg(c) \/ acquire_return(c)
  \/ \E l \in Lock : release(c, l)
  \/ release_check(c) \/ clear_cpu(c) \/ movl(c) \/ popcli(c)
  \/ iret(c)

CPUStep(c) ==
  \/ CodeStep(c)
  \/ \E l \in Lock : acquire(c, l)
  \/ Interrupt(c)

Next == \E c \in CPU : CPUStep(c)

Spec == Init /\ [][Next]_vars

(* Kernel code goes on inside acquire and release and in a handler, and    *)
(* releases every lock it holds in the end.                                *)
FairSpec ==
  /\ Spec
  /\ \A c \in CPU : WF_vars(CodeStep(c))
  /\ \A c \in CPU, l \in Lock : SF_vars(release(c, l))
-----------------------------------------------------------------------------
(* Callers that keep their side never meet a panic: holding(), which reads *)
(* locked and cpu at different times without the lock, never mistakes a    *)
(* lock another CPU is taking or releasing for one of its own.             *)
NoPanic == \A c \in CPU : pc[c] # "panic"

(* "disable interrupts to avoid deadlock": a handler never suspends code   *)
(* of its own CPU that holds a lock or is about to take one, so it never   *)
(* spins for a lock that only its own return would free.                   *)
SuspendedHoldsNothing ==
  \A c \in CPU : \A k \in 1..Len(stack[c]) :
    stack[c][k].held = {} /\ stack[c][k].pc \in {"out", "cli"}

(* "it takes two popcli to undo two pushcli.  Also, if interrupts are off, *)
(* then pushcli, popcli leaves them off": outside acquire and release the  *)
(* nesting depth is the number of locks held; with none held, the flag is  *)
(* again what it was before, set in the kernel and clear in a handler,     *)
(* even if the handler came between readeflags() and cli().  Inside,       *)
(* interrupts are off.                                                     *)
InterruptsRestored ==
  \A c \in CPU :
    /\ pc[c] = "out" => ncli[c] = Cardinality(held[c])
    /\ pc[c] = "out" /\ held[c] = {} => IF_[c] = (stack[c] = <<>>)
    /\ pc[c] \notin {"out", "cli"} => ~IF_[c] /\ ncli[c] >= 1

(* Whenever a CPU spins for a lock, some CPU gets that lock, or one that   *)
(* comes later in the order, in the end: the locks are free of deadlock    *)
(* (not of starvation, xchg keeps no queue: the holder may itself spin for *)
(* a later lock that others take again and again).                         *)
SomebodyGetsIn ==
  \A l \in Lock :
    (\E c \in CPU : pc[c] = "xchg" /\ lk[c] = l)
      ~> (\E c \in CPU : pc[c] = "set_cpu" /\ lk[c] >= l)

(* A context has lock l from the xchg that found it free to the movl that  *)
(* clears its word.                                                        *)
Has(context, l) ==
  \/ l \in context.held
  \/ /\ context.lk = l
     /\ context.pc \in {"set_cpu", "r_locked", "r_cpu", "clear_cpu", "movl"}

Contexts(c) ==
  {[pc |-> pc[c], lk |-> lk[c], held |-> held[c]]} \cup { stack[c][k] : k \in 1..Len(stack[c]) }

holders == [l \in Lock |-> { c \in CPU : \E x \in Contexts(c) : Has(x, l) }]

AL == INSTANCE AbstractLock WITH Proc <- CPU

(* The spinlock implements the abstract lock: also in the steps in which   *)
(* lk->locked and lk->cpu disagree, a lock goes only to a CPU that finds   *)
(* it free, is never taken over, not even by a handler on the holder's own *)
(* CPU, and becomes free only when its holder clears the word.             *)
ImplementsLock == AL!Spec
=============================================================================
