----------------------------- MODULE Xv6Proofs -----------------------------
(***************************************************************************)
(* Proofs about the two pieces of xv6 in the repository: the spinlocks of  *)
(* spinlock-xv6.c, for any number of CPUs and of locks and interrupts      *)
(* nested to any depth, and exec() of xv6-exec.c further down, for any     *)
(* page size, memory size, program headers and arguments.                  *)
(***************************************************************************)
EXTENDS Xv6SpinLock, Exec, FiniteSetTheorems, SequenceTheorems, TLAPS

(* The points of release at which lk->cpu still names this CPU, and those  *)
(* of acquire and release at which the word of the lock is this CPU's.     *)
Marked == {"r_locked", "r_cpu", "clear_cpu"}
Taken  == Marked \cup {"set_cpu", "movl"}

(* The code that runs on c has lock l: Has for the running context.        *)
Owns(c, l) == l \in held[c] \/ (lk[c] = l /\ pc[c] \in Taken)

(* A lock that somebody has is marked as taken, and one CPU has it.        *)
WordInv ==
  \A l \in Lock : \A c \in CPU : Owns(c, l) =>
    locked[l] = 1 /\ \A d \in CPU : Owns(d, l) => d = c

(* lk->cpu names a CPU exactly while that CPU has the lock, but for the    *)
(* moments after xchg and before movl.  This is why holding(), which reads *)
(* it without the lock, is right about its own CPU.                        *)
CpuInv ==
  \A l \in Lock : \A c \in CPU :
    cpu[l] = c <=> l \in held[c] \/ (lk[c] = l /\ pc[c] \in Marked)

(* The argument of a call that is under way is not among the locks whose   *)
(* acquire has returned, and the first read of release's holding() gave 1. *)
CallInv ==
  \A c \in CPU :
    /\ pc[c] # "out" => lk[c] \notin held[c]
    /\ pc[c] = "r_cpu" => r[c] = 1
    /\ pc[c] # "panic"

(* ncli counts the locks held, and one more inside a call.                 *)
CountInv ==
  \A c \in CPU :
    ncli[c] = Cardinality(held[c]) + (IF pc[c] \in {"out", "cli"} THEN 0 ELSE 1)

(* With ncli = 0 interrupts are on exactly outside handlers; otherwise     *)
(* they are off and intena remembers which of the two it was.              *)
FlagInv ==
  \A c \in CPU :
    /\ ncli[c] = 0 => (IF_[c] <=> stack[c] = <<>>)
    /\ ncli[c] # 0 => ~IF_[c] /\ (intena[c] <=> stack[c] = <<>>)
    /\ pc[c] = "cli" /\ ncli[c] = 0 => (eflags[c] <=> stack[c] = <<>>)

(* At most one context is suspended, for handlers run with interrupts off; *)
(* it holds nothing and is at most about to call cli().                    *)
StackInv ==
  \A c \in CPU :
    /\ Len(stack[c]) <= 1
    /\ Len(stack[c]) = 1 =>
         /\ stack[c][1].held = {}
         /\ stack[c][1].pc \in {"out", "cli"}
         /\ stack[c][1].pc = "cli" => stack[c][1].eflags

Xv6Inv == TypeOK /\ WordInv /\ CpuInv /\ CallInv /\ CountInv /\ FlagInv /\ StackInv
-----------------------------------------------------------------------------
(* Sets of locks are finite, and counted one by one.                       *)
LEMMA HeldCard ==
  ASSUME NEW S, S \subseteq Lock
  PROVE  /\ Cardinality(S) \in 0..NLock
         /\ Cardinality(S) = 0 <=> S = {}
         /\ \A l \in Lock \ S : Cardinality(S \cup {l}) = Cardinality(S) + 1
         /\ \A l \in S : Cardinality(S \ {l}) = Cardinality(S) - 1
<1>1. IsFiniteSet(Lock) /\ Cardinality(Lock) = NLock
  BY FS_Interval, Xv6Assumption DEF Lock
<1>2. IsFiniteSet(S) /\ Cardinality(S) <= NLock
  BY <1>1, FS_Subset
<1>3. Cardinality(S) \in Nat
  BY <1>2, FS_CardinalityType
<1>4. Cardinality(S) = 0 <=> S = {}
  BY <1>2, FS_EmptySet
<1>5. \A l \in Lock \ S : Cardinality(S \cup {l}) = Cardinality(S) + 1
  BY <1>2, FS_AddElement
<1>6. \A l \in S : Cardinality(S \ {l}) = Cardinality(S) - 1
  BY <1>2, FS_RemoveElement
<1> QED
  BY <1>2, <1>3, <1>4, <1>5, <1>6, Xv6Assumption

(* The invariant holds when the CPUs start.                                *)
LEMMA InitInv == Init => Xv6Inv
<1> SUFFICES ASSUME Init PROVE Xv6Inv
  OBVIOUS
<1> USE Xv6Assumption DEF Init, CPU, Lock, NoCPU
<1>0. Cardinality({}) = 0
  BY FS_EmptySet
<1>1. TypeOK
  BY DEF TypeOK, PC, Frame
<1>2. WordInv /\ CpuInv /\ CallInv
  BY DEF WordInv, CpuInv, CallInv, Owns, Marked, Taken
<1>3. CountInv /\ FlagInv
  BY <1>0 DEF CountInv, FlagInv
<1>4. StackInv
  BY DEF StackInv
<1> QED
  BY <1>1, <1>2, <1>3, <1>4 DEF Xv6Inv

(* A stack of at most one context is empty, or has its one context first.  *)
LEMMA ShortStack ==
  ASSUME NEW s \in Seq(Frame), Len(s) <= 1
  PROVE  /\ s = <<>> \/ (Len(s) = 1 /\ s[1] \in Frame)
         /\ \A k \in 1..Len(s) : Len(s) = 1 /\ k = 1
         /\ SubSeq(s, 1, 0) = <<>>
<1>1. Len(s) \in Nat /\ (Len(s) = 0 <=> s = <<>>)
  BY EmptySeq
<1>2. Len(s) = 0 \/ Len(s) = 1
  <2>1. \A n \in Nat : n <= 1 => n = 0 \/ n = 1
    OBVIOUS
  <2> QED BY <1>1, <2>1
<1>3. \A k \in 1..Len(s) : Len(s) = 1 /\ k = 1
  BY <1>2
<1>4. Len(s) = 1 => s[1] \in Frame
  OBVIOUS
<1>5. SubSeq(s, 1, 0) \in Seq(Frame) /\ Len(SubSeq(s, 1, 0)) = 0
  BY SubSeqProperties
<1>6. SubSeq(s, 1, 0) = <<>>
  BY <1>5, EmptySeq
<1> QED BY <1>1, <1>2, <1>3, <1>4, <1>6

(* Interrupts are on only where no lock is held or being taken.            *)
LEMMA InterruptsOn ==
  ASSUME Xv6Inv, NEW c \in CPU, IF_[c]
  PROVE  /\ pc[c] \in {"out", "cli"} /\ held[c] = {} /\ ncli[c] = 0
         /\ stack[c] = <<>>
         /\ pc[c] = "cli" => eflags[c]
<1>1. held[c] \subseteq Lock
  BY DEF Xv6Inv, TypeOK
<1>2. ncli[c] = 0
  BY DEF Xv6Inv, FlagInv
<1>3. Cardinality(held[c]) = 0 /\ pc[c] \in {"out", "cli"}
  BY <1>1, <1>2, HeldCard DEF Xv6Inv, CountInv
<1>4. held[c] = {}
  BY <1>1, <1>3, HeldCard
<1>5. stack[c] = <<>>
  BY <1>2 DEF Xv6Inv, FlagInv
<1> QED
  BY <1>2, <1>3, <1>4, <1>5 DEF Xv6Inv, FlagInv

(* Each step of a CPU in turn.  acquire only notes its argument and        *)
(* eflags; the order of locks keeps the argument out of held.              *)
LEMMA acquireInv ==
  ASSUME Xv6Inv, NEW c \in CPU, NEW l \in Lock, acquire(c, l)
  PROVE  Xv6Inv'
<1> USE Xv6Assumption DEF Xv6Inv, acquire, Goto, lockvars, cpuvars
<1>1. TypeOK'
  BY DEF TypeOK, PC
<1>2. WordInv'
  BY DEF TypeOK, PC, WordInv, Owns, Taken, Marked
<1>3. CpuInv'
  BY DEF TypeOK, PC, CpuInv, Marked
<1>4. CallInv'
  BY DEF TypeOK, PC, CallInv, Lock
<1>5. CountInv' /\ FlagInv'
  BY DEF TypeOK, PC, CountInv, FlagInv
<1>6. StackInv'
  BY DEF TypeOK, StackInv
<1> QED
  BY <1>1, <1>2, <1>3, <1>4, <1>5, <1>6

(* pushcli turns interrupts off; intena gets eflags, which a handler that  *)
(* came in between has left right.                                         *)
LEMMA pushcliInv ==
  ASSUME Xv6Inv, NEW c \in CPU, pushcli(c)
  PROVE  Xv6Inv'
<1> USE Xv6Assumption DEF Xv6Inv, pushcli, cli, save_intena, Goto, lockvars, cpuvars
<1>0. Cardinality(held[c]) \in 0..NLock
  BY HeldCard DEF TypeOK
<1>1. TypeOK'
  BY <1>0 DEF TypeOK, PC, CountInv
<1>2. WordInv'
  BY DEF TypeOK, PC, WordInv, Owns, Taken, Marked
<1>3. CpuInv'
  BY DEF TypeOK, PC, CpuInv, Marked
<1>4. CallInv'
  BY DEF TypeOK, PC, CallInv, Lock
<1>5. CountInv'
  BY <1>0 DEF TypeOK, PC, CountInv
<1>7. FlagInv'
  <2>1. ncli[c] \in Nat /\ ncli'[c] = ncli[c] + 1 /\ pc[c] = "cli" /\ pc'[c] = "a_locked"
    BY DEF TypeOK, PC
  <2>2. ~IF_'[c]
    BY DEF TypeOK
  <2>3. intena'[c] <=> stack[c] = <<>>
    <3>1. CASE ncli[c] = 0
      BY <3>1, <2>1 DEF TypeOK, FlagInv
    <3>2. CASE ncli[c] # 0
      BY <3>2, <2>1 DEF TypeOK, FlagInv
    <3> QED BY <3>1, <3>2
  <2>4. ASSUME NEW d \in CPU, d # c
        PROVE  /\ ncli'[d] = ncli[d] /\ pc'[d] = pc[d]
               /\ IF_'[d] = IF_[d] /\ intena'[d] = intena[d]
    BY <2>4 DEF TypeOK
  <2> QED BY <2>1, <2>2, <2>3, <2>4 DEF FlagInv
<1>6. StackInv'
  BY DEF TypeOK, StackInv
<1> QED
  BY <1>1, <1>2, <1>3, <1>4, <1>5, <1>6, <1>7

(* The first read of holding(); in release it reads 1, for the CPU has the *)
(* lock.                                                                   *)
LEMMA holding_lockedInv ==
  ASSUME Xv6Inv, NEW c \in CPU, holding_locked(c)
  PROVE  Xv6Inv'
<1> USE Xv6Assumption DEF Xv6Inv, holding_locked, Goto, lockvars, cpuvars
<1>1. TypeOK'
  BY DEF TypeOK, PC
<1>2. WordInv'
  BY DEF TypeOK, PC, WordInv, Owns, Taken, Marked
<1>3. CpuInv'
  <2>1. \A d \in CPU : pc'[d] \in Marked <=> pc[d] \in Marked
    BY DEF TypeOK, PC, Marked
  <2>2. cpu' = cpu /\ held' = held /\ lk' = lk
    OBVIOUS
  <2> QED BY <2>1, <2>2 DEF CpuInv
<1>4. CallInv'
  BY DEF TypeOK, PC, CallInv, WordInv, Owns, Taken, Marked
<1>5. CountInv' /\ FlagInv'
  BY DEF TypeOK, PC, CountInv, FlagInv
<1>6. StackInv'
  BY DEF TypeOK, StackInv
<1> QED
  BY <1>1, <1>2, <1>3, <1>4, <1>5, <1>6

(* The second read of holding() in acquire: lk->cpu is not this CPU.       *)
LEMMA acquire_checkInv ==
  ASSUME Xv6Inv, NEW c \in CPU, acquire_check(c)
  PROVE  Xv6Inv'
<1> USE Xv6Assumption DEF Xv6Inv, acquire_check, Goto, lockvars, cpuvars
<1>0. ~holding(c)
  <2>1. lk[c] \in Lock /\ lk[c] \notin held[c] /\ pc[c] \notin Marked
    BY DEF TypeOK, CallInv, Marked
  <2>2. cpu[lk[c]] # c
    BY <2>1 DEF CpuInv
  <2> QED BY <2>2 DEF holding
<1>1. TypeOK'
  BY <1>0 DEF TypeOK, PC
<1>2. WordInv'
  BY <1>0 DEF TypeOK, PC, WordInv, Owns, Taken, Marked
<1>3. CpuInv'
  BY <1>0 DEF TypeOK, PC, CpuInv, Marked
<1>4. CallInv'
  BY <1>0 DEF TypeOK, PC, CallInv
<1>5. CountInv' /\ FlagInv'
  BY <1>0 DEF TypeOK, PC, CountInv, FlagInv
<1>6. StackInv'
  BY DEF TypeOK, StackInv
<1> QED
  BY <1>1, <1>2, <1>3, <1>4, <1>5, <1>6

(* xchg makes a CPU an owner only if nobody was.                           *)
LEMMA xchgInv ==
  ASSUME Xv6Inv, NEW c \in CPU, xchg(c)
  PROVE  Xv6Inv'
<1> USE Xv6Assumption DEF Xv6Inv, xchg, Goto, lockvars, cpuvars, spins
<1>1. TypeOK'
  BY DEF TypeOK, PC
<1>2. WordInv'
  BY DEF TypeOK, PC, WordInv, Owns, Taken, Marked
<1>3. CpuInv'
  BY DEF TypeOK, PC, CpuInv, Marked
<1>4. CallInv'
  BY DEF TypeOK, PC, CallInv
<1>5. CountInv' /\ FlagInv'
  BY DEF TypeOK, PC, CountInv, FlagInv
<1>6. StackInv'
  BY DEF TypeOK, StackInv
<1> QED
  BY <1>1, <1>2, <1>3, <1>4, <1>5, <1>6

(* acquire names the CPU in the lock and returns.                          *)
LEMMA acquire_returnInv ==
  ASSUME Xv6Inv, NEW c \in CPU, acquire_return(c)
  PROVE  Xv6Inv'
<1> USE Xv6Assumption DEF Xv6Inv, acquire_return, Goto, lockvars, cpuvars
<1>0. Cardinality(held[c] \cup {lk[c]}) = Cardinality(held[c]) + 1 /\ Cardinality(held[c]) \in Nat
  <2>1. held[c] \subseteq Lock /\ lk[c] \in Lock \ held[c]
    BY DEF TypeOK, CallInv
  <2> QED BY <2>1, HeldCard
<1>1. TypeOK'
  BY DEF TypeOK, PC
<1>2. WordInv'
  BY DEF TypeOK, PC, WordInv, Owns, Taken, Marked
<1>3. CpuInv'
  BY DEF TypeOK, PC, CpuInv, WordInv, Owns, Taken, Marked
<1>4. CallInv'
  BY DEF TypeOK, PC, CallInv
<1>5. CountInv' /\ FlagInv'
  BY <1>0 DEF TypeOK, PC, CountInv, FlagInv
<1>6. StackInv'
  BY DEF TypeOK, StackInv
<1> QED
  BY <1>1, <1>2, <1>3, <1>4, <1>5, <1>6

(* release begins: the lock is still this CPU's.                           *)
LEMMA releaseInv ==
  ASSUME Xv6Inv, NEW c \in CPU, NEW l \in Lock, release(c, l)
  PROVE  Xv6Inv'
<1> USE Xv6Assumption DEF Xv6Inv, release, Goto, lockvars, cpuvars
<1>0. Cardinality(held[c] \ {l}) = Cardinality(held[c]) - 1 /\ Cardinality(held[c]) \in Nat
  BY HeldCard DEF TypeOK, CallInv
<1>1. TypeOK'
  BY DEF TypeOK, PC
<1>2. WordInv'
  BY DEF TypeOK, PC, WordInv, Owns, Taken, Marked
<1>3. CpuInv'
  BY DEF TypeOK, PC, CpuInv, Marked
<1>4. CallInv'
  BY DEF TypeOK, PC, CallInv
<1>5. CountInv' /\ FlagInv'
  BY <1>0 DEF TypeOK, PC, CountInv, FlagInv
<1>6. StackInv'
  BY DEF TypeOK, StackInv
<1> QED
  BY <1>1, <1>2, <1>3, <1>4, <1>5, <1>6

(* The second read of holding() in release: lk->cpu is this CPU.           *)
LEMMA release_checkInv ==
  ASSUME Xv6Inv, NEW c \in CPU, release_check(c)
  PROVE  Xv6Inv'
<1> USE Xv6Assumption DEF Xv6Inv, release_check, Goto, lockvars, cpuvars
<1>0. holding(c)
  BY DEF TypeOK, CpuInv, CallInv, Marked, holding
<1>1. TypeOK'
  BY <1>0 DEF TypeOK, PC
<1>2. WordInv'
  BY <1>0 DEF TypeOK, PC, WordInv, Owns, Taken, Marked
<1>3. CpuInv'
  BY <1>0 DEF TypeOK, PC, CpuInv, Marked
<1>4. CallInv'
  BY <1>0 DEF TypeOK, PC, CallInv
<1>5. CountInv' /\ FlagInv'
  BY <1>0 DEF TypeOK, PC, CountInv, FlagInv
<1>6. StackInv'
  BY DEF TypeOK, StackInv
<1> QED
  BY <1>1, <1>2, <1>3, <1>4, <1>5, <1>6

(* release clears lk->cpu while the lock word is still 1.                  *)
LEMMA clear_cpuInv ==
  ASSUME Xv6Inv, NEW c \in CPU, clear_cpu(c)
  PROVE  Xv6Inv'
<1> USE Xv6Assumption DEF Xv6Inv, clear_cpu, Goto, lockvars, cpuvars
<1>1. TypeOK'
  BY DEF TypeOK, PC, NoCPU
<1>2. WordInv'
  BY DEF TypeOK, PC, WordInv, Owns, Taken, Marked
<1>3. CpuInv'
  <2> SUFFICES ASSUME NEW l \in Lock, NEW d \in CPU
               PROVE  cpu'[l] = d <=> l \in held[d] \/ (lk[d] = l /\ pc'[d] \in Marked)
    BY DEF CpuInv
  <2>0. pc[c] \in Marked /\ pc'[c] \notin Marked /\ \A e \in CPU \ {c} : pc'[e] = pc[e]
    BY DEF TypeOK, PC, Marked
  <2>1. CASE l = lk[c]
    <3>1. cpu'[l] # d
      BY <2>1 DEF TypeOK, NoCPU, CPU
    <3>2. Owns(c, l)
      BY <2>0, <2>1 DEF Owns, Taken
    <3>3. l \notin held[c]
      BY <2>0, <2>1 DEF CallInv
    <3>4. d # c => ~Owns(d, l)
      BY <3>2 DEF WordInv
    <3> QED BY <2>0, <2>1, <3>1, <3>3, <3>4 DEF Owns, Taken
  <2>2. CASE l # lk[c]
    <3>1. cpu'[l] = cpu[l]
      BY <2>2 DEF TypeOK
    <3> QED BY <2>0, <2>2, <3>1 DEF CpuInv
  <2> QED BY <2>1, <2>2
<1>4. CallInv'
  BY DEF TypeOK, PC, CallInv
<1>5. CountInv' /\ FlagInv'
  BY DEF TypeOK, PC, CountInv, FlagInv
<1>6. StackInv'
  BY DEF TypeOK, StackInv
<1> QED
  BY <1>1, <1>2, <1>3, <1>4, <1>5, <1>6

(* release clears the lock word; then nobody has the lock.                 *)
LEMMA movlInv ==
  ASSUME Xv6Inv, NEW c \in CPU, movl(c)
  PROVE  Xv6Inv'
<1> USE Xv6Assumption DEF Xv6Inv, movl, Goto, lockvars, cpuvars
<1>1. TypeOK'
  BY DEF TypeOK, PC
<1>2. WordInv'
  <2> SUFFICES ASSUME NEW l \in Lock, NEW d \in CPU, Owns(d, l)'
               PROVE  locked'[l] = 1 /\ \A e \in CPU : Owns(e, l)' => e = d
    BY DEF WordInv
  <2>0. pc[c] \in Taken /\ pc'[c] \notin Taken /\ lk[c] \notin held[c]
        /\ \A e \in CPU \ {c} : pc'[e] = pc[e]
    BY DEF TypeOK, PC, Marked, Taken, CallInv
  <2>1. \A e \in CPU : Owns(e, l)' => Owns(e, l)
    BY <2>0 DEF Owns
  <2>2. l # lk[c]
    <3>1. Owns(c, lk[c]) /\ ~Owns(c, lk[c])'
      BY <2>0 DEF Owns
    <3> QED BY <3>1, <2>1 DEF WordInv, TypeOK
  <2>3. locked'[l] = locked[l]
    BY <2>2 DEF TypeOK
  <2> QED BY <2>1, <2>3 DEF WordInv
<1>3. CpuInv'
  BY DEF TypeOK, PC, CpuInv, Marked
<1>4. CallInv'
  BY DEF TypeOK, PC, CallInv
<1>5. CountInv' /\ FlagInv'
  BY DEF TypeOK, PC, CountInv, FlagInv
<1>6. StackInv'
  BY DEF TypeOK, StackInv
<1> QED
  BY <1>1, <1>2, <1>3, <1>4, <1>5, <1>6

(* popcli turns interrupts on again after the last lock, outside a handler *)
(* only.                                                                   *)
LEMMA popcliInv ==
  ASSUME Xv6Inv, NEW c \in CPU, popcli(c)
  PROVE  Xv6Inv'
<1> USE Xv6Assumption DEF Xv6Inv, popcli, Goto, lockvars, cpuvars
<1>0. ~IF_[c] /\ ncli[c] = Cardinality(held[c]) + 1 /\ Cardinality(held[c]) \in 0..NLock
  <2>1. held[c] \subseteq Lock /\ ncli[c] \in Nat
    BY DEF TypeOK
  <2>2. Cardinality(held[c]) \in 0..NLock
    BY <2>1, HeldCard
  <2>3. ncli[c] = Cardinality(held[c]) + 1
    BY <2>2 DEF CountInv
  <2> QED BY <2>2, <2>3 DEF FlagInv
<1>1. TypeOK'
  BY <1>0 DEF TypeOK, PC
<1>2. WordInv'
  BY DEF TypeOK, PC, WordInv, Owns, Taken, Marked
<1>3. CpuInv'
  BY DEF TypeOK, PC, CpuInv, Marked
<1>4. CallInv'
  BY <1>0 DEF TypeOK, PC, CallInv
<1>5. CountInv' /\ FlagInv'
  BY <1>0 DEF TypeOK, PC, CountInv, FlagInv
<1>6. StackInv'
  BY DEF TypeOK, StackInv
<1> QED
  BY <1>1, <1>2, <1>3, <1>4, <1>5, <1>6

(* An interrupt finds a CPU that holds nothing, and starts a handler that  *)
(* holds nothing.                                                          *)
LEMMA InterruptInv ==
  ASSUME Xv6Inv, NEW c \in CPU, Interrupt(c)
  PROVE  Xv6Inv'
<1> DEFINE f == [pc |-> pc[c], lk |-> lk[c], eflags |-> eflags[c], held |-> held[c]]
<1>0. /\ pc[c] \in {"out", "cli"} /\ held[c] = {} /\ ncli[c] = 0
      /\ stack[c] = <<>> /\ (pc[c] = "cli" => eflags[c])
  BY InterruptsOn DEF Interrupt
<1>1. f \in Frame
  BY DEF Xv6Inv, TypeOK, Frame
<1>2. /\ stack' = [stack EXCEPT ![c] = Append(@, f)]
      /\ IF_' = [IF_ EXCEPT ![c] = FALSE]
      /\ pc' = [pc EXCEPT ![c] = "out"]
      /\ held' = [held EXCEPT ![c] = {}]
      /\ UNCHANGED <<locked, cpu, ncli, intena, lk, eflags, r>>
  BY DEF Interrupt, lockvars
<1>3. /\ f.held = {} /\ f.pc = pc[c] /\ f.eflags = eflags[c]
  BY <1>0
<1> HIDE DEF f
<1> USE DEF Xv6Inv
<1>4. /\ stack'[c] = Append(<<>>, f)
      /\ \A d \in CPU \ {c} : stack'[d] = stack[d]
  BY <1>0, <1>2 DEF TypeOK
<1>5. stack'[c] \in Seq(Frame) /\ Len(stack'[c]) = 1 /\ stack'[c][1] = f /\ stack'[c] # <<>>
  BY <1>1, <1>4
<1>6. TypeOK'
  BY <1>2, <1>4, <1>5 DEF TypeOK, PC
<1>7. WordInv'
  BY <1>0, <1>2 DEF TypeOK, PC, WordInv, Owns, Taken, Marked
<1>8. CpuInv'
  BY <1>0, <1>2 DEF TypeOK, PC, CpuInv, Marked
<1>9. CallInv'
  BY <1>0, <1>2 DEF TypeOK, CallInv
<1>10. CountInv'
  BY <1>0, <1>2 DEF TypeOK, CountInv
<1>11. FlagInv'
  BY <1>0, <1>2, <1>4, <1>5 DEF TypeOK, FlagInv
<1>12. StackInv'
  <2>1. f.held = {} /\ f.pc \in {"out", "cli"} /\ (f.pc = "cli" => f.eflags)
    BY <1>0, <1>3
  <2>2. ASSUME NEW d \in CPU
        PROVE  /\ Len(stack'[d]) <= 1
               /\ Len(stack'[d]) = 1 =>
                    /\ stack'[d][1].held = {}
                    /\ stack'[d][1].pc \in {"out", "cli"}
                    /\ stack'[d][1].pc = "cli" => stack'[d][1].eflags
    <3>1. CASE d = c
      BY <3>1, <1>5, <2>1
    <3>2. CASE d # c
      BY <3>2, <1>4 DEF StackInv
    <3> QED BY <3>1, <3>2
  <2> QED BY <2>2 DEF StackInv
<1> QED
  BY <1>6, <1>7, <1>8, <1>9, <1>10, <1>11, <1>12

(* The handler returns to the one context that is suspended, with the      *)
(* interrupts it had.                                                      *)
LEMMA iretInv ==
  ASSUME Xv6Inv, NEW c \in CPU, iret(c)
  PROVE  Xv6Inv'
<1> DEFINE f == stack[c][1]
<1> USE DEF Xv6Inv
<1>1. stack[c] \in Seq(Frame) /\ stack[c] # <<>> /\ pc[c] = "out" /\ held[c] = {}
  BY DEF TypeOK, iret
<1>2. Len(stack[c]) = 1 /\ f \in Frame
  BY <1>1, ShortStack DEF StackInv
<1>3. f.held = {} /\ f.pc \in {"out", "cli"} /\ (f.pc = "cli" => f.eflags)
  BY <1>2 DEF StackInv
<1>4. /\ pc' = [pc EXCEPT ![c] = f.pc]
      /\ lk' = [lk EXCEPT ![c] = f.lk]
      /\ eflags' = [eflags EXCEPT ![c] = f.eflags]
      /\ held' = [held EXCEPT ![c] = {}]
      /\ IF_' = [IF_ EXCEPT ![c] = TRUE]
      /\ UNCHANGED <<locked, cpu, ncli, intena, r>>
  BY <1>2, <1>3 DEF iret, lockvars
<1>5. stack' = [stack EXCEPT ![c] = SubSeq(@, 1, 0)]
  BY <1>2 DEF iret
<1>6. SubSeq(stack[c], 1, 0) = <<>>
  BY <1>1, ShortStack DEF StackInv
<1>7. stack'[c] = <<>> /\ \A d \in CPU \ {c} : stack'[d] = stack[d]
  BY <1>5, <1>6 DEF TypeOK
<1>8. f.pc \in PC /\ f.lk \in Lock /\ f.eflags \in BOOLEAN
  BY <1>2 DEF Frame
<1>9. ncli[c] = 0
  <2>1. Cardinality(held[c]) = 0
    BY <1>1, FS_EmptySet, Zenon
  <2>2. ncli[c] = Cardinality(held[c]) + (IF pc[c] \in {"out", "cli"} THEN 0 ELSE 1)
    BY DEF CountInv
  <2> QED BY <1>1, <2>1, <2>2
<1> HIDE DEF f
<1>10. TypeOK'
  BY <1>4, <1>5, <1>6, <1>8 DEF TypeOK
<1>11. WordInv'
  BY <1>1, <1>3, <1>4 DEF TypeOK, PC, WordInv, Owns, Taken, Marked
<1>12. CpuInv'
  BY <1>1, <1>3, <1>4 DEF TypeOK, PC, CpuInv, Marked
<1>13. CallInv'
  BY <1>3, <1>4 DEF TypeOK, CallInv
<1>14. CountInv'
  BY <1>1, <1>3, <1>4 DEF TypeOK, CountInv
<1>15. FlagInv'
  BY <1>3, <1>4, <1>7, <1>9 DEF TypeOK, FlagInv
<1>16. StackInv'
  BY <1>7 DEF StackInv
<1> QED
  BY <1>10, <1>11, <1>12, <1>13, <1>14, <1>15, <1>16

(* Every step of every CPU preserves the invariant.                        *)
LEMMA StepInv == Xv6Inv /\ [Next]_vars => Xv6Inv'
<1> SUFFICES ASSUME Xv6Inv, [Next]_vars PROVE Xv6Inv'
  OBVIOUS
<1>1. ASSUME NEW c \in CPU, CPUStep(c) PROVE Xv6Inv'
  <2>1. CASE \E l \in Lock : acquire(c, l) \/ release(c, l)
    BY <2>1, acquireInv, releaseInv
  <2>2. CASE pushcli(c) \/ holding_locked(c) \/ popcli(c)
    BY <2>2, pushcliInv, holding_lockedInv, popcliInv
  <2>3. CASE acquire_check(c) \/ xchg(c) \/ acquire_return(c)
    BY <2>3, acquire_checkInv, xchgInv, acquire_returnInv
  <2>4. CASE release_check(c) \/ clear_cpu(c) \/ movl(c)
    BY <2>4, release_checkInv, clear_cpuInv, movlInv
  <2>5. CASE Interrupt(c) \/ iret(c)
    BY <2>5, InterruptInv, iretInv
  <2> QED BY <1>1, <2>1, <2>2, <2>3, <2>4, <2>5 DEF CPUStep, CodeStep
<1>2. CASE UNCHANGED vars
  BY <1>2 DEF vars, lockvars, cpuvars, Xv6Inv, TypeOK, WordInv, CpuInv, CallInv,
              CountInv, FlagInv, StackInv, Owns
<1> QED
  BY <1>1, <1>2 DEF Next

(* The invariant of spinlock-xv6.c.                                        *)
THEOREM Xv6Correct == Spec => []Xv6Inv
BY InitInv, StepInv, PTL DEF Spec

(* holding() never mistakes the state of a lock, so neither acquire nor    *)
(* release nor popcli panics.                                              *)
THEOREM Xv6NoPanic == Spec => []NoPanic
<1>1. Xv6Inv => NoPanic
  BY DEF Xv6Inv, CallInv, NoPanic
<1> QED BY <1>1, Xv6Correct, PTL

(* No handler suspends code that holds a lock or is about to take one.     *)
THEOREM Xv6SuspendedHoldsNothing == Spec => []SuspendedHoldsNothing
<1>1. Xv6Inv => SuspendedHoldsNothing
  <2> SUFFICES ASSUME Xv6Inv, NEW c \in CPU, NEW k \in 1..Len(stack[c])
               PROVE  stack[c][k].held = {} /\ stack[c][k].pc \in {"out", "cli"}
    BY DEF SuspendedHoldsNothing
  <2>1. stack[c] \in Seq(Frame) /\ Len(stack[c]) <= 1
    BY DEF Xv6Inv, TypeOK, StackInv
  <2>2. Len(stack[c]) = 1 /\ k = 1
    BY <2>1, ShortStack
  <2> QED BY <2>2 DEF Xv6Inv, StackInv
<1> QED BY <1>1, Xv6Correct, PTL

(* pushcli and popcli match: outside acquire and release the interrupt     *)
(* flag is what it was before, and inside interrupts are off.              *)
THEOREM Xv6InterruptsRestored == Spec => []InterruptsRestored
<1>1. Xv6Inv => InterruptsRestored
  <2> SUFFICES ASSUME Xv6Inv, NEW c \in CPU
               PROVE  /\ pc[c] = "out" => ncli[c] = Cardinality(held[c])
                      /\ pc[c] = "out" /\ held[c] = {} => IF_[c] = (stack[c] = <<>>)
                      /\ pc[c] \notin {"out", "cli"} => ~IF_[c] /\ ncli[c] >= 1
    BY DEF InterruptsRestored
  <2>1. Cardinality(held[c]) \in Nat /\ (held[c] = {} => Cardinality(held[c]) = 0)
    BY HeldCard DEF Xv6Inv, TypeOK
  <2>2. pc[c] = "out" => ncli[c] = Cardinality(held[c])
    BY <2>1 DEF Xv6Inv, CountInv
  <2>3. pc[c] = "out" /\ held[c] = {} => IF_[c] = (stack[c] = <<>>)
    <3>1. IF_[c] \in BOOLEAN
      BY DEF Xv6Inv, TypeOK
    <3>2. pc[c] = "out" /\ held[c] = {} => (IF_[c] <=> stack[c] = <<>>)
      BY <2>1, <2>2 DEF Xv6Inv, FlagInv
    <3> QED BY <3>1, <3>2
  <2>4. pc[c] \notin {"out", "cli"} => ncli[c] >= 1
    BY <2>1 DEF Xv6Inv, CountInv
  <2>5. pc[c] \notin {"out", "cli"} => ~IF_[c]
    BY <2>4 DEF Xv6Inv, FlagInv
  <2> QED BY <2>2, <2>3, <2>4, <2>5
<1> QED BY <1>1, Xv6Correct, PTL
-----------------------------------------------------------------------------
(* The refinement of AbstractLock.  Suspended contexts have no lock, so    *)
(* the holders of a lock are the CPUs whose running code has it.           *)
Owners == [l \in Lock |-> { c \in CPU : Owns(c, l) }]

(* The abstract holders are the owners ...                                 *)
LEMMA HoldersAre == Xv6Inv => holders = Owners
<1> SUFFICES ASSUME Xv6Inv, NEW l \in Lock, NEW c \in CPU
             PROVE  (\E x \in Contexts(c) : Has(x, l)) <=> Owns(c, l)
  BY DEF holders, Owners
<1> DEFINE x0 == [pc |-> pc[c], lk |-> lk[c], held |-> held[c]]
<1>1. Has(x0, l) <=> Owns(c, l)
  BY DEF Has, Owns, Taken, Marked
<1>2. ASSUME NEW k \in 1..Len(stack[c]) PROVE ~Has(stack[c][k], l)
  <2>1. stack[c] \in Seq(Frame) /\ Len(stack[c]) <= 1
    BY DEF Xv6Inv, TypeOK, StackInv
  <2>2. Len(stack[c]) = 1 /\ k = 1
    BY <2>1, ShortStack
  <2>3. stack[c][k].held = {} /\ stack[c][k].pc \in {"out", "cli"}
    BY <2>2 DEF Xv6Inv, StackInv
  <2> QED BY <2>3 DEF Has
<1>3. Contexts(c) = {x0} \cup { stack[c][k] : k \in 1..Len(stack[c]) }
  BY DEF Contexts
<1> HIDE DEF x0
<1> QED BY <1>1, <1>2, <1>3

(* Nobody gets or loses a lock.                                            *)
SameOwners == \A l \in Lock : \A c \in CPU : Owns(c, l)' <=> Owns(c, l)

(* ... after a step too.                                                   *)
LEMMA HoldersAreNext == Xv6Inv' => (holders = Owners)'
BY HoldersAre, PTL

(* A step in which nobody gets or loses a lock is no step of AbstractLock. *)
LEMMA SameOwnersStutter ==
  ASSUME Xv6Inv, Xv6Inv', SameOwners
  PROVE  UNCHANGED holders
<1>1. Owners' = Owners
  BY DEF SameOwners, Owners
<1> QED BY <1>1, HoldersAre, HoldersAreNext

(* xchg takes the lock if it found it free, and else changes nothing.      *)
LEMMA xchgTakes ==
  ASSUME Xv6Inv, Xv6Inv', NEW c \in CPU, xchg(c)
  PROVE  AL!Take(c, lk[c]) \/ UNCHANGED holders
<1> USE DEF Xv6Inv, TypeOK, xchg, Goto, Owns, Taken, Marked
<1>1. CASE spins(c)
  <2>1. SameOwners
    BY <1>1 DEF SameOwners
  <2> QED BY <2>1, SameOwnersStutter
<1>2. CASE ~spins(c)
  <2>1. lk[c] \in Lock /\ locked[lk[c]] # 1
    BY <1>2 DEF spins
  <2>2. \A d \in CPU : ~Owns(d, lk[c])
    BY <2>1 DEF WordInv
  <2>3. \A d \in CPU, l \in Lock : Owns(d, l)' <=> Owns(d, l) \/ (d = c /\ l = lk[c])
    BY <1>2
  <2>4. Owners[lk[c]] = {}
    BY <2>1, <2>2 DEF Owners
  <2>5. Owners' = [Owners EXCEPT ![lk[c]] = {c}]
    <3> HIDE DEF Owns, xchg, Xv6Inv, TypeOK
    <3>1. ASSUME NEW l \in Lock
          PROVE  { d \in CPU : Owns(d, l)' } = IF l = lk[c] THEN {c} ELSE { d \in CPU : Owns(d, l) }
      BY <2>2, <2>3
    <3> QED BY <2>1, <3>1 DEF Owners
  <2> QED BY <2>4, <2>5, HoldersAre, HoldersAreNext DEF AL!Take
<1> QED BY <1>1, <1>2

(* movl gives the lock back: nobody else has it.                           *)
LEMMA movlGives ==
  ASSUME Xv6Inv, Xv6Inv', NEW c \in CPU, movl(c)
  PROVE  AL!Give(c, lk[c])
<1> USE DEF Xv6Inv, TypeOK, movl, Goto, Taken, Marked
<1>1. lk[c] \in Lock /\ Owns(c, lk[c])
  BY DEF Owns
<1>2. \A d \in CPU : Owns(d, lk[c]) <=> d = c
  BY <1>1 DEF WordInv
<1>3. \A d \in CPU, l \in Lock : Owns(d, l)' <=> Owns(d, l) /\ ~(d = c /\ l = lk[c])
  BY DEF Owns, CallInv
<1>4. Owners[lk[c]] = {c}
  BY <1>1, <1>2 DEF Owners
<1>5. Owners' = [Owners EXCEPT ![lk[c]] = {}]
  <2> HIDE DEF Xv6Inv, TypeOK, movl
  <2>1. ASSUME NEW l \in Lock
        PROVE  { d \in CPU : Owns(d, l)' } = IF l = lk[c] THEN {} ELSE { d \in CPU : Owns(d, l) }
    BY <1>2, <1>3
  <2> QED BY <1>1, <2>1 DEF Owners
<1> QED BY <1>4, <1>5, HoldersAre, HoldersAreNext DEF AL!Give

(* Every step is a step of AbstractLock or leaves its lock alone.          *)
LEMMA StepRefines ==
  ASSUME Xv6Inv, Xv6Inv', [Next]_vars
  PROVE  [AL!Next]_holders
<1>1. CASE UNCHANGED vars
  <2>1. SameOwners
    BY <1>1 DEF SameOwners, Owns, vars, lockvars, cpuvars
  <2> QED BY <2>1, SameOwnersStutter
<1>2. ASSUME NEW c \in CPU, CPUStep(c) PROVE [AL!Next]_holders
  <2> USE DEF Goto, Owns, Taken, Marked, Xv6Inv, TypeOK, SameOwners
  <2>0. lk[c] \in Lock
    OBVIOUS
  <2>1. CASE xchg(c)
    BY <2>0, <2>1, xchgTakes DEF AL!Next
  <2>2. CASE movl(c)
    BY <2>0, <2>2, movlGives DEF AL!Next
  <2>3. ASSUME NEW l \in Lock, acquire(c, l) PROVE SameOwners
    BY <2>3 DEF acquire
  <2>4. ASSUME pushcli(c) \/ holding_locked(c) PROVE SameOwners
    BY <2>4 DEF pushcli, holding_locked
  <2>5. ASSUME acquire_check(c) PROVE SameOwners
    BY <2>5 DEF acquire_check, CallInv
  <2>6. ASSUME acquire_return(c) PROVE SameOwners
    BY <2>6 DEF acquire_return
  <2>7. ASSUME NEW l \in Lock, release(c, l) PROVE SameOwners
    BY <2>7 DEF release
  <2>8. ASSUME release_check(c) PROVE SameOwners
    BY <2>8 DEF release_check, CallInv
  <2>9. ASSUME clear_cpu(c) \/ popcli(c) PROVE SameOwners
    BY <2>9 DEF clear_cpu, popcli
  <2>10. ASSUME Interrupt(c) PROVE SameOwners
    <3>1. IF_[c]
      BY <2>10 DEF Interrupt
    <3>2. pc[c] \in {"out", "cli"} /\ held[c] = {}
      BY <3>1, InterruptsOn
    <3> QED BY <2>10, <3>2 DEF Interrupt
  <2>11. ASSUME iret(c) PROVE SameOwners
    <3>1. stack[c] \in Seq(Frame) /\ Len(stack[c]) <= 1 /\ stack[c] # <<>>
      BY <2>11 DEF iret, StackInv
    <3>2. Len(stack[c]) = 1
      BY <3>1, ShortStack
    <3>3. stack[c][1].held = {} /\ stack[c][1].pc \in {"out", "cli"}
      BY <3>2 DEF StackInv
    <3>4. pc' = [pc EXCEPT ![c] = stack[c][1].pc] /\ held' = [held EXCEPT ![c] = stack[c][1].held]
      BY <2>11, <3>2 DEF iret
    <3>5. \A d \in CPU : d # c => lk'[d] = lk[d]
      BY <2>11 DEF iret
    <3>6. pc[c] = "out" /\ held[c] = {}
      BY <2>11 DEF iret
    <3> QED BY <3>3, <3>4, <3>5, <3>6
  <2> HIDE DEF Goto, Owns, Taken, Marked, Xv6Inv, TypeOK, SameOwners
  <2> QED
    BY <1>2, <2>1, <2>2, <2>3, <2>4, <2>5, <2>6, <2>7, <2>8, <2>9, <2>10, <2>11, SameOwnersStutter
    DEF CPUStep, CodeStep
<1> QED BY <1>1, <1>2 DEF Next

(* ImplementsLock: the code of spinlock-xv6.c implements AbstractLock for  *)
(* any number of CPUs, locks and interrupts.                               *)
THEOREM Xv6ImplementsLock == Spec => ImplementsLock
<1>1. Init => AL!Init
  <2>1. Init => Owners = [l \in Lock |-> {}]
    BY DEF Init, Owners, Owns, Taken, Marked
  <2> QED BY <2>1, InitInv, HoldersAre DEF AL!Init
<1>2. Xv6Inv /\ Xv6Inv' /\ [Next]_vars => [AL!Next]_holders
  BY StepRefines
<1> QED BY <1>1, <1>2, Xv6Correct, PTL DEF Spec, ImplementsLock, AL!Spec
-----------------------------------------------------------------------------
TypesInv ==
  /\ place \in {"namei", "header", "load", "stack", "args", "commit", "bad",
             "return 0", "return -1"}
  /\ i \in Nat /\ sz \in Nat /\ sp \in Nat /\ argc \in Nat /\ ustack \in Nat
  /\ user \subseteq Nat
  /\ segments \subseteq Headers
  /\ curproc \in [pgdir : {"old", "new"}, sz : Nat, esp : Nat]

Idle == [refs |-> 0, locked |-> FALSE]
Busy == [refs |-> 1, locked |-> TRUE]

(* The inode is referenced and locked, and the transaction open, exactly   *)
(* while ip points to the inode.                                           *)
InodeInv ==
  /\ place = "namei" => op = 1 /\ inode = Idle
  /\ place \in {"header", "load"} => ip = "inode"
  /\ place \in {"stack", "args", "commit"} => ip = NULL
  /\ place \notin {"namei", "return -1"} =>
       \/ ip = "inode" /\ op = 1 /\ inode = Busy /\ place # "return 0"
       \/ ip = NULL /\ op = 0 /\ inode = Idle
  /\ place = "return -1" => op = 0 /\ inode = Idle

(* The new page table exists exactly while pgdir points to it, the old one *)
(* until commit.                                                           *)
TableInv ==
  /\ pgdir \in {NULL, "new"}
  /\ place \in {"namei", "header"} => pgdir = NULL
  /\ place \in {"load", "stack", "args", "commit"} => pgdir = "new"
  /\ place # "return 0" => curproc.pgdir = "old"
  /\ place \notin {"return 0", "return -1"} =>
       tables = IF pgdir = NULL THEN {"old"} ELSE {"old", "new"}
  /\ place = "return -1" => tables = {"old"}
  /\ place = "return 0" => tables = {"new"} /\ curproc.pgdir = "new"

(* The words of ustack[] that are written.                                 *)
ArgcInv ==
  /\ argc <= MAXARG
  /\ ustack <= 3 + argc + 1

(* Until the stack is made, every page below sz is user memory.            *)
Filled == sz <= KERNBASE /\ user = { p \in Nat : p * PGSIZE < sz }

(* Then the image ends with the guard page n and the stack page n + 1, the *)
(* segments lie below both and sp is in the stack page.                    *)
Stacked ==
  /\ sz < KERNBASE
  /\ \E n \in Nat :
       /\ sz = (n + 2) * PGSIZE
       /\ user \subseteq (0..(n + 1)) \ {n}
       /\ \A ph \in segments : ph.vaddr + ph.memsz <= n * PGSIZE
  /\ sz - PGSIZE <= sp /\ sp <= sz

ImageInv ==
  /\ \A ph \in segments : copyout_ok(ph.vaddr, ph.memsz)
  /\ place \in {"namei", "header", "load", "stack"} =>
       Filled /\ \A ph \in segments : ph.vaddr + ph.memsz <= sz
  /\ place \in {"args", "commit", "return 0"} => Stacked
  /\ place \in {"commit", "return 0"} => sp < sz
  /\ place = "return 0" => curproc.sz = sz /\ curproc.esp = sp

ExecInv == TypesInv /\ InodeInv /\ TableInv /\ ArgcInv /\ ImageInv
-----------------------------------------------------------------------------
(* A multiple of the page size is reached page by page.                    *)
LEMMA Multiples ==
  ASSUME NEW p \in Nat, NEW q \in Nat
  PROVE  /\ p * PGSIZE \in Nat
         /\ (p + 1) * PGSIZE = p * PGSIZE + PGSIZE
         /\ (p + 2) * PGSIZE = p * PGSIZE + 2 * PGSIZE
         /\ p < q => p * PGSIZE + PGSIZE <= q * PGSIZE
         /\ p <= q => p * PGSIZE <= q * PGSIZE
<1>1. PGSIZE \in Nat /\ PGSIZE > 0
  BY ExecAssumption
<1>2. p * PGSIZE \in Nat
  BY <1>1
<1>3. (p + 1) * PGSIZE = p * PGSIZE + PGSIZE
  BY <1>1
<1>4. (p + 2) * PGSIZE = p * PGSIZE + 2 * PGSIZE
  BY <1>1
<1>5. p < q => p * PGSIZE + PGSIZE <= q * PGSIZE
  <2> SUFFICES ASSUME p < q PROVE p * PGSIZE + PGSIZE <= q * PGSIZE
    OBVIOUS
  <2> DEFINE d == q - p - 1
  <2>1. d \in Nat /\ q = p + 1 + d
    OBVIOUS
  <2> HIDE DEF d
  <2>2. d * PGSIZE \in Nat
    BY <1>1, <2>1
  <2>3. q * PGSIZE = p * PGSIZE + PGSIZE + d * PGSIZE
    BY <1>1, <2>1
  <2> QED BY <1>1, <1>2, <2>2, <2>3
<1>6. p <= q => p * PGSIZE <= q * PGSIZE
  BY <1>1, <1>2, <1>5
<1> QED BY <1>2, <1>3, <1>4, <1>5, <1>6

(* The page an address lies in.                                            *)
LEMMA PageOf ==
  ASSUME NEW a \in Nat
  PROVE  /\ Page(a) \in Nat
         /\ Page(a) * PGSIZE <= a
         /\ a < Page(a) * PGSIZE + PGSIZE
BY ExecAssumption DEF Page

(* An address within page p lies in page p.                                *)
LEMMA PageIs ==
  ASSUME NEW p \in Nat, NEW a \in Nat, p * PGSIZE <= a, a < p * PGSIZE + PGSIZE
  PROVE  Page(a) = p
<1>1. PGSIZE \in Nat /\ PGSIZE > 0
  BY ExecAssumption
<1>2. Page(a) \in Nat /\ Page(a) * PGSIZE <= a /\ a < Page(a) * PGSIZE + PGSIZE
  BY PageOf
<1>3. p * PGSIZE \in Nat /\ Page(a) * PGSIZE \in Nat
  BY <1>2, Multiples
<1>4. ~(Page(a) < p)
  <2>1. Page(a) < p => Page(a) * PGSIZE + PGSIZE <= p * PGSIZE
    BY <1>2, Multiples
  <2> QED BY <1>1, <1>2, <1>3, <2>1
<1>5. ~(p < Page(a))
  <2>1. p < Page(a) => p * PGSIZE + PGSIZE <= Page(a) * PGSIZE
    BY <1>2, Multiples
  <2> QED BY <1>1, <1>2, <1>3, <2>1
<1> QED BY <1>2, <1>4, <1>5

(* Rounding up.                                                            *)
LEMMA RoundUp ==
  ASSUME NEW a \in Nat
  PROVE  \E n \in Nat : /\ PGROUNDUP(a) = n * PGSIZE
                        /\ a <= n * PGSIZE
                        /\ n * PGSIZE < a + PGSIZE
<1>1. PGSIZE \in Nat /\ PGSIZE > 0
  BY ExecAssumption
<1>2. a + PGSIZE - 1 \in Nat
  BY <1>1
<1>3. Page(a + PGSIZE - 1) \in Nat /\ Page(a + PGSIZE - 1) * PGSIZE \in Nat
  BY <1>2, PageOf, Multiples
<1>4. PGROUNDUP(a) = Page(a + PGSIZE - 1) * PGSIZE
  BY DEF PGROUNDUP
<1>5. a <= Page(a + PGSIZE - 1) * PGSIZE /\ Page(a + PGSIZE - 1) * PGSIZE < a + PGSIZE
  BY <1>1, <1>2, <1>3, PageOf
<1> QED BY <1>3, <1>4, <1>5

(* An unsigned sum that is not below its first term did not wrap.          *)
LEMMA PlusIs ==
  ASSUME NEW a \in 0..(Wrap - 1), NEW b \in 0..(Wrap - 1), Plus(a, b) >= a
  PROVE  Plus(a, b) = a + b
<1>1. Wrap \in Nat /\ Wrap > 0
  BY ExecAssumption
<1>2. CASE a + b < Wrap
  BY <1>1, <1>2 DEF Plus
<1>3. CASE a + b >= Wrap
  <2>1. (a + b) % Wrap = a + b - Wrap
    BY <1>1, <1>3
  <2> QED BY <1>1, <2>1 DEF Plus
<1> QED BY <1>1, <1>2, <1>3

(* A difference that wraps is more than the number of addresses away.      *)
LEMMA MinusIs ==
  ASSUME NEW a \in Nat, NEW b \in Nat
  PROVE  /\ Minus(a, b) \in Nat
         /\ Minus(a, b) # a - b /\ a < Wrap => Minus(a, b) + b >= Wrap + a
<1>1. Wrap \in Nat /\ Wrap > 0
  BY ExecAssumption
<1>2. Minus(a, b) \in 0..(Wrap - 1)
  BY <1>1 DEF Minus
<1>3. a - b = Wrap * ((a - b) \div Wrap) + Minus(a, b)
  BY <1>1 DEF Minus
<1> DEFINE k == (a - b) \div Wrap
<1>4. k \in Int
  BY <1>1
<1> HIDE DEF k
<1>5. k = 0 \/ k >= 1 \/ k <= -1
  BY <1>4
<1>6. k >= 1 => Wrap * k >= Wrap
  BY <1>1, <1>4
<1>7. k <= -1 => Wrap * k <= -Wrap
  BY <1>1, <1>4
<1>8. a - b = Wrap * k + Minus(a, b) /\ Wrap * k \in Int
  BY <1>1, <1>3, <1>4 DEF k
<1>9. k = 0 => Wrap * k = 0
  BY <1>1
<1> QED BY <1>1, <1>2, <1>5, <1>6, <1>7, <1>8, <1>9
-----------------------------------------------------------------------------
(* The invariant holds when exec() is called.                              *)
LEMMA ExecInitInv == ExecInit => ExecInv
<1> SUFFICES ASSUME ExecInit PROVE ExecInv
  OBVIOUS
<1> USE ExecAssumption DEF ExecInit
<1>1. TypesInv /\ ArgcInv
  BY DEF TypesInv, ArgcInv
<1>2. InodeInv /\ TableInv
  BY DEF InodeInv, TableInv, Idle, NULL
<1>3. user = { p \in Nat : p * PGSIZE < sz }
  BY Multiples
<1>4. ImageInv
  BY <1>3 DEF ImageInv, Filled
<1> QED BY <1>1, <1>2, <1>4 DEF ExecInv

(* Every step keeps the inode, the page tables and the counters in order.  *)
LEMMA ControlInv ==
  ASSUME ExecInv, ExecNext
  PROVE  InodeInv' /\ TableInv' /\ ArgcInv'
<1> USE DEF ExecInv, TypesInv, Moves, Fail, locals, NULL, Idle, Busy
<1>1. CASE namei_fails \/ namei
  <2>1. InodeInv'
    <3>1. op = 1 /\ inode = Idle
      BY <1>1 DEF namei_fails, namei, InodeInv
    <3>2. CASE namei_fails
      <4>1. op' = op - 1 /\ inode' = inode /\ place' = "return -1"
        BY <3>2 DEF namei_fails
      <4>2. op' = 0
        <5>1. op = 1 /\ op' = op - 1
          BY <3>1, <4>1
        <5> HIDE DEF ExecInv
        <5> QED BY <5>1
      <4> QED BY <3>1, <4>1, <4>2 DEF InodeInv
    <3>3. CASE namei
      <4>1. op' = 1 /\ inode' = Busy /\ ip' = "inode" /\ place' = "header"
        BY <3>1, <3>3 DEF namei
      <4> QED BY <4>1 DEF InodeInv
    <3> QED BY <1>1, <3>2, <3>3
  <2>2. TableInv'
    BY <1>1 DEF namei_fails, namei, TableInv
  <2>3. ArgcInv'
    BY <1>1 DEF namei_fails, namei, ArgcInv
  <2> QED BY <2>1, <2>2, <2>3
<1>2. CASE header_fails \/ setupkvm
  BY <1>2 DEF header_fails, setupkvm, InodeInv, TableInv, ArgcInv
<1>3. CASE load_skips \/ load_fails
  BY <1>3 DEF load_skips, load_fails, InodeInv, TableInv, ArgcInv
<1>4. ASSUME NEW ph \in Headers, load(ph) PROVE InodeInv' /\ TableInv' /\ ArgcInv'
  BY <1>4 DEF load, InodeInv, TableInv, ArgcInv
<1>5. CASE loaded
  <2>1. InodeInv'
    <3>1. op = 1 /\ inode = Busy
      BY <1>5 DEF loaded, InodeInv
    <3>2. inode' = [refs |-> inode.refs - 1, locked |-> FALSE] /\ op' = op - 1
      BY <1>5 DEF loaded, iunlockput
    <3>3. inode' = Idle /\ op' = 0
      <4> HIDE DEF ExecInv
      <4> QED BY <3>1, <3>2
    <3>4. ip' = NULL /\ place' = "stack"
      BY <1>5 DEF loaded, forget
    <3> QED BY <3>3, <3>4 DEF InodeInv
  <2>2. TableInv'
    BY <1>5 DEF loaded, iunlockput, forget, TableInv
  <2>3. ArgcInv'
    BY <1>5 DEF loaded, iunlockput, forget, ArgcInv
  <2> QED BY <2>1, <2>2, <2>3
<1>6. CASE alloc_stack \/ stack_fails
  BY <1>6 DEF alloc_stack, stack_fails, InodeInv, TableInv, ArgcInv
<1>7. ASSUME NEW words \in 1..MaxWords, arg(words) PROVE InodeInv' /\ TableInv' /\ ArgcInv'
  BY <1>7, ExecAssumption DEF arg, TooMany, InodeInv, TableInv, ArgcInv
<1>8. ASSUME NEW words \in 1..MaxWords, arg_fails(words) PROVE InodeInv' /\ TableInv' /\ ArgcInv'
  BY <1>8 DEF arg_fails, InodeInv, TableInv, ArgcInv
<1>9. CASE args_end
  <2>1. InodeInv'
    BY <1>9 DEF args_end, InodeInv
  <2>2. TableInv'
    BY <1>9 DEF args_end, TableInv
  <2>3. ArgcInv'
    BY <1>9 DEF args_end, ArgcInv
  <2> QED BY <2>1, <2>2, <2>3
<1>10. CASE commit
  BY <1>10 DEF commit, InodeInv, TableInv, ArgcInv
<1>11. CASE bad
  <2>1. InodeInv'
    <3>1. \/ ip = "inode" /\ op = 1 /\ inode = Busy
          \/ ip = NULL /\ op = 0 /\ inode = Idle
      BY <1>11 DEF bad, InodeInv
    <3>2. ASSUME ip = "inode", op = 1, inode = Busy PROVE inode' = Idle /\ op' = 0
      <4>1. inode' = [refs |-> inode.refs - 1, locked |-> FALSE] /\ op' = op - 1
        BY <1>11, <3>2 DEF bad, iunlockput
      <4> HIDE DEF ExecInv
      <4> QED BY <4>1, <3>2
    <3>3. ASSUME ip = NULL, op = 0, inode = Idle PROVE inode' = Idle /\ op' = 0
      BY <1>11, <3>3 DEF bad
    <3>4. inode' = Idle /\ op' = 0
      BY <3>1, <3>2, <3>3
    <3> QED BY <1>11, <3>4 DEF bad, InodeInv
  <2>2. TableInv'
    BY <1>11 DEF bad, iunlockput, freevm, TableInv
  <2>3. ArgcInv'
    BY <1>11 DEF bad, iunlockput, freevm, ArgcInv
  <2> QED BY <2>1, <2>2, <2>3
<1> QED
  BY <1>1, <1>2, <1>3, <1>4, <1>5, <1>6, <1>7, <1>8, <1>9, <1>10, <1>11 DEF ExecNext

(* A segment that is not refused ends where its header says.               *)
LEMMA loadInv ==
  ASSUME ExecInv, NEW ph \in Headers, load(ph)
  PROVE  TypesInv' /\ ImageInv'
<1> DEFINE end == ph.vaddr + ph.memsz
<1>1. ph.vaddr \in 0..(Wrap - 1) /\ ph.memsz \in 0..(Wrap - 1)
  BY ExecAssumption
<1>2. PGSIZE \in Nat /\ PGSIZE > 0 /\ KERNBASE \in Nat /\ Wrap \in Nat
  BY ExecAssumption
<1>3. end \in Nat /\ ph.vaddr \in Nat
  BY <1>1, <1>2
<1>4. ~Rejected(ph) /\ place = "load" /\ place' = "load"
  BY DEF load, Moves
<1>5. Plus(ph.vaddr, ph.memsz) = end /\ end < KERNBASE
  <2>1. Plus(ph.vaddr, ph.memsz) \in Nat
    BY <1>1, <1>2 DEF Plus
  <2>2. Plus(ph.vaddr, ph.memsz) >= ph.vaddr /\ Plus(ph.vaddr, ph.memsz) < KERNBASE
    BY <1>1, <1>2, <1>4, <2>1 DEF Rejected, allocuvm_fails
  <2> QED BY <1>1, <2>2, PlusIs
<1> HIDE DEF end
<1>6. sz \in Nat /\ user \subseteq Nat /\ segments \subseteq Headers /\ i \in Nat
  BY DEF ExecInv, TypesInv
<1>7. sz' = (IF end < sz THEN sz ELSE end) /\ user' = user \cup PagesOf(PGROUNDUP(sz), end)
  BY <1>5 DEF load, allocuvm
<1>8. sz' \in Nat /\ sz <= sz' /\ end <= sz' /\ (sz <= KERNBASE => sz' <= KERNBASE)
  BY <1>2, <1>3, <1>5, <1>6, <1>7
<1>9. segments' = segments \cup {ph} /\ i' = i + 1
      /\ UNCHANGED <<ip, inode, op, pgdir, tables, sp, argc, ustack, curproc>>
  BY DEF load
<1>10. TypesInv'
  <2>1. user' \subseteq Nat
    <3>1. Page(KERNBASE) \in Nat
      BY <1>2, PageOf
    <3>2. ASSUME NEW p \in PagesOf(PGROUNDUP(sz), end) PROVE p \in Nat
      BY <3>1 DEF PagesOf
    <3> QED BY <1>6, <1>7, <3>2
  <2> QED BY <1>4, <1>6, <1>8, <1>9, <2>1 DEF ExecInv, TypesInv
<1>11. user' = { p \in Nat : p * PGSIZE < sz' } /\ sz' <= KERNBASE
  <2>1. user = { p \in Nat : p * PGSIZE < sz } /\ sz <= KERNBASE
    BY <1>4 DEF ExecInv, ImageInv, Filled
  <2>2. PICK n \in Nat : PGROUNDUP(sz) = n * PGSIZE /\ sz <= n * PGSIZE /\ n * PGSIZE < sz + PGSIZE
    BY <1>6, RoundUp
  <2>3. ASSUME NEW p \in Nat, p * PGSIZE < sz' PROVE p \in user'
    <3>1. p * PGSIZE \in Nat /\ n * PGSIZE \in Nat
      BY Multiples
    <3>2. CASE p * PGSIZE < sz
      BY <3>2, <2>1, <1>7
    <3>3. CASE sz <= p * PGSIZE
      <4>1. p * PGSIZE < end
        BY <2>3, <3>3, <1>7, <3>1, <1>6, <1>3
      <4>2. ~(p < n)
        <5>1. p < n => p * PGSIZE + PGSIZE <= n * PGSIZE
          BY Multiples
        <5> QED BY <5>1, <2>2, <3>1, <3>3, <1>2, <1>6
      <4>3. n * PGSIZE <= p * PGSIZE
        BY <4>2, Multiples
      <4>4. p \in 0..Page(KERNBASE)
        <5>1. Page(KERNBASE) \in Nat /\ KERNBASE < Page(KERNBASE) * PGSIZE + PGSIZE
          BY <1>2, PageOf
        <5>2. Page(KERNBASE) * PGSIZE \in Nat
          BY <5>1, Multiples
        <5>3. Page(KERNBASE) < p => Page(KERNBASE) * PGSIZE + PGSIZE <= p * PGSIZE
          BY <5>1, Multiples
        <5> QED BY <5>1, <5>2, <5>3, <4>1, <1>5, <1>2, <1>3, <3>1
      <4> QED BY <4>1, <4>3, <4>4, <2>2, <1>7 DEF PagesOf
    <3> QED BY <3>1, <3>2, <3>3, <1>6
  <2>4. ASSUME NEW p \in user' PROVE p \in Nat /\ p * PGSIZE < sz'
    <3>1. p \in Nat
      BY <1>10 DEF TypesInv
    <3>2. p * PGSIZE \in Nat
      BY <3>1, Multiples
    <3>3. p * PGSIZE < sz \/ p * PGSIZE < end
      BY <2>1, <1>7 DEF PagesOf
    <3> QED BY <3>1, <3>2, <3>3, <1>3, <1>6, <1>8
  <2> QED BY <2>1, <2>3, <2>4, <1>8
<1>12. ASSUME NEW h \in segments'
       PROVE  h.vaddr + h.memsz <= sz' /\ copyout_ok(h.vaddr, h.memsz)'
  <2>1. h \in Headers /\ h.vaddr \in Nat /\ h.memsz \in Nat
    BY <1>9, <1>6, <1>2, ExecAssumption
  <2>2. h.vaddr + h.memsz <= sz'
    <3>1. CASE h = ph
      BY <3>1, <1>8 DEF end
    <3>2. CASE h \in segments
      <4>1. h.vaddr + h.memsz <= sz
        BY <3>2, <1>4 DEF ExecInv, ImageInv
      <4> QED BY <4>1, <2>1, <1>6, <1>8
    <3> QED BY <3>1, <3>2, <1>9
  <2>3. ASSUME NEW a \in h.vaddr..(h.vaddr + h.memsz - 1) PROVE Page(a) \in user'
    <3>1. a \in Nat /\ a < sz'
      BY <2>1, <2>2, <1>8
    <3>2. Page(a) \in Nat /\ Page(a) * PGSIZE <= a
      BY <3>1, PageOf
    <3>3. Page(a) * PGSIZE \in Nat
      BY <3>2, Multiples
    <3> QED BY <3>1, <3>2, <3>3, <1>8, <1>11
  <2> QED BY <2>2, <2>3 DEF copyout_ok
<1> QED BY <1>4, <1>10, <1>11, <1>12 DEF ImageInv, Filled

(* More user pages keep what is mapped mapped.                             *)
LEMMA MoreMapped ==
  ASSUME user \subseteq user', segments' = segments,
         \A ph \in segments : copyout_ok(ph.vaddr, ph.memsz)
  PROVE  (\A ph \in segments : copyout_ok(ph.vaddr, ph.memsz))'
BY DEF copyout_ok

(* The guard page begins where the segments end, rounded up.               *)
LEMMA stackInv ==
  ASSUME ExecInv, alloc_stack
  PROVE  TypesInv' /\ ImageInv'
<1>1. PGSIZE \in Nat /\ PGSIZE > 0 /\ KERNBASE \in Nat
  BY ExecAssumption
<1>2. sz \in Nat /\ user \subseteq Nat
  BY DEF ExecInv, TypesInv
<1>3. place = "stack" /\ place' = "args"
  BY DEF alloc_stack, Moves
<1>4. PICK n \in Nat : PGROUNDUP(sz) = n * PGSIZE /\ sz <= n * PGSIZE /\ n * PGSIZE < sz + PGSIZE
  BY <1>2, RoundUp
<1> DEFINE top == PGROUNDUP(sz) + 2 * PGSIZE
<1>5. n * PGSIZE \in Nat /\ top = (n + 2) * PGSIZE /\ top = n * PGSIZE + 2 * PGSIZE /\ top \in Nat
  <2>1. n * PGSIZE \in Nat /\ (n + 2) * PGSIZE = n * PGSIZE + 2 * PGSIZE
    BY Multiples
  <2> QED BY <1>1, <1>4, <2>1
<1>6. /\ sz' = top /\ sp' = top /\ user' = user \cup {Page(top) - 1} /\ top < KERNBASE
      /\ UNCHANGED <<i, argc, ustack, segments, curproc>>
  <2>1. ~allocuvm_fails(top)
    BY DEF alloc_stack
  <2> QED BY <1>1, <1>5, <2>1 DEF alloc_stack, allocuvm_fails, clearpteu
<1> HIDE DEF top
<1>7. Page(top) = n + 2
  <2>1. (n + 2) * PGSIZE <= top /\ top < (n + 2) * PGSIZE + PGSIZE /\ n + 2 \in Nat
    BY <1>1, <1>5
  <2> QED BY <1>5, <2>1, PageIs
<1>8. user' = user \cup {n + 1}
  BY <1>6, <1>7
<1>9. TypesInv'
  <2>1. user' \subseteq Nat
    BY <1>2, <1>8
  <2>2. sz' \in Nat /\ sp' \in Nat
    BY <1>5, <1>6
  <2> QED BY <1>3, <1>6, <2>1, <2>2 DEF ExecInv, TypesInv
<1>10. ASSUME NEW p \in user PROVE p \in Nat /\ p < n
  <2>1. p \in Nat /\ p * PGSIZE < sz
    BY <1>3 DEF ExecInv, ImageInv, Filled
  <2>2. n <= p => n * PGSIZE <= p * PGSIZE
    BY <2>1, Multiples
  <2>3. p * PGSIZE \in Nat
    BY <2>1, Multiples
  <2> QED BY <1>2, <1>4, <1>5, <2>1, <2>2, <2>3
<1>11. user' \subseteq (0..(n + 1)) \ {n}
  BY <1>8, <1>10
<1>12. \A ph \in segments : ph.vaddr + ph.memsz <= n * PGSIZE
  <2>1. \A ph \in segments : ph.vaddr \in Nat /\ ph.memsz \in Nat /\ ph.vaddr + ph.memsz <= sz
    BY <1>3, ExecAssumption DEF ExecInv, TypesInv, ImageInv
  <2> QED BY <1>2, <1>4, <1>5, <2>1
<1>13. Stacked'
  <2>1. sz' < KERNBASE /\ sz' = (n + 2) * PGSIZE
    BY <1>5, <1>6
  <2>2. sz' - PGSIZE <= sp' /\ sp' <= sz'
    BY <1>1, <1>5, <1>6
  <2> QED BY <1>6, <1>11, <1>12, <2>1, <2>2 DEF Stacked
<1>14. (\A ph \in segments : copyout_ok(ph.vaddr, ph.memsz))'
  BY <1>6, <1>8, MoreMapped DEF ExecInv, ImageInv
<1> QED BY <1>3, <1>9, <1>13, <1>14 DEF ImageInv

(* Whatever is copied out just below sp stays in the stack page: it cannot *)
(* jump over the guard page, nor wrap round.                               *)
LEMMA CopiedAboveGuard ==
  ASSUME ExecInv, Stacked, NEW words \in Nat, words > 0,
         copyout_ok(Minus(sp, words), words)
  PROVE  Minus(sp, words) \in Nat /\ sz - PGSIZE <= Minus(sp, words) /\ Minus(sp, words) < sp
<1> DEFINE to == Minus(sp, words)
<1>1. PGSIZE \in Nat /\ PGSIZE > 0 /\ KERNBASE \in Nat /\ Wrap \in Nat /\ KERNBASE < Wrap
  BY ExecAssumption
<1>2. sz \in Nat /\ sp \in Nat
  BY DEF ExecInv, TypesInv
<1>3. PICK n \in Nat : sz = (n + 2) * PGSIZE /\ user \subseteq (0..(n + 1)) \ {n}
  BY DEF Stacked
<1>4. sz < KERNBASE /\ sz - PGSIZE <= sp /\ sp <= sz
  BY DEF Stacked
<1>5. n * PGSIZE \in Nat /\ sz = n * PGSIZE + 2 * PGSIZE
  BY <1>3, Multiples
<1>6. to \in Nat /\ (to # sp - words => to + words >= Wrap + sp)
  BY <1>1, <1>2, <1>4, MinusIs
<1>7. \A a \in to..(to + words - 1) : Page(a) \in user
  BY DEF copyout_ok
<1> HIDE DEF to
<1>8. to = sp - words
  <2> SUFFICES ASSUME to # sp - words PROVE FALSE
    OBVIOUS
  <2> DEFINE a == to + words - 1
  <2>1. a \in Nat /\ a \in to..(to + words - 1) /\ a >= sz
    BY <1>1, <1>2, <1>4, <1>5, <1>6
  <2> HIDE DEF a
  <2>2. Page(a) \in Nat /\ a < Page(a) * PGSIZE + PGSIZE /\ Page(a) < n + 2
    BY <1>3, <1>7, <2>1, PageOf
  <2>3. Page(a) * PGSIZE + PGSIZE <= (n + 2) * PGSIZE /\ Page(a) * PGSIZE \in Nat
    BY <2>2, Multiples
  <2> QED BY <1>1, <1>2, <1>3, <2>1, <2>2, <2>3
<1>9. sz - PGSIZE <= to
  <2> SUFFICES ASSUME to < sz - PGSIZE PROVE FALSE
    BY <1>1, <1>2, <1>6
  <2> DEFINE a == n * PGSIZE + PGSIZE - 1
  <2>1. a \in Nat /\ n * PGSIZE <= a /\ a < n * PGSIZE + PGSIZE
    BY <1>1, <1>5
  <2>2. a \in to..(to + words - 1)
    BY <1>1, <1>2, <1>4, <1>5, <1>6, <1>8
  <2> HIDE DEF a
  <2>3. Page(a) = n
    BY <2>1, PageIs
  <2> QED BY <1>3, <1>7, <2>2, <2>3
<1> QED BY <1>2, <1>6, <1>8, <1>9 DEF to

(* One more argument leaves sp in the stack page.                          *)
LEMMA argInv ==
  ASSUME ExecInv, NEW words \in 1..MaxWords, arg(words)
  PROVE  TypesInv' /\ ImageInv'
<1>1. place = "args" /\ place' = "args" /\ sp' = Minus(sp, words) /\ copyout_ok(Minus(sp, words), words)
  BY DEF arg, Moves
<1>2. Stacked /\ words \in Nat /\ words > 0
  BY <1>1, ExecAssumption DEF ExecInv, ImageInv
<1>3. sp' \in Nat /\ sz - PGSIZE <= sp' /\ sp' < sp
  BY <1>1, <1>2, CopiedAboveGuard
<1>4. UNCHANGED <<i, sz, user, segments, curproc>> /\ argc' = argc + 1 /\ ustack' = 3 + argc + 1
  BY DEF arg
<1>5. sz \in Nat /\ sp \in Nat /\ argc \in Nat
  BY DEF ExecInv, TypesInv
<1>6. TypesInv'
  BY <1>1, <1>3, <1>4, <1>5 DEF ExecInv, TypesInv
<1>7. sp' <= sz
  BY <1>2, <1>3, <1>5 DEF Stacked
<1>8. Stacked'
  BY <1>2, <1>3, <1>4, <1>7 DEF Stacked
<1>9. (\A ph \in segments : copyout_ok(ph.vaddr, ph.memsz))'
  BY <1>4, MoreMapped DEF ExecInv, ImageInv
<1> QED BY <1>1, <1>6, <1>8, <1>9 DEF ImageInv

(* So does ustack[] itself, and then sp is below the top.                  *)
LEMMA args_endInv ==
  ASSUME ExecInv, args_end
  PROVE  TypesInv' /\ ImageInv'
<1> DEFINE words == 3 + argc + 1
<1>1. sz \in Nat /\ sp \in Nat /\ argc \in Nat
  BY DEF ExecInv, TypesInv
<1>2. words \in Nat /\ words > 0
  BY <1>1
<1>3. UNCHANGED <<i, sz, argc, user, segments, curproc>> /\ ustack' = words /\ place = "args"
  BY DEF args_end
<1>4. Stacked
  BY <1>3 DEF ExecInv, ImageInv
<1>5. (\A ph \in segments : copyout_ok(ph.vaddr, ph.memsz))'
  BY <1>3, MoreMapped DEF ExecInv, ImageInv
<1>6. CASE copyout_ok(Minus(sp, words), words) /\ place' = "commit" /\ sp' = Minus(sp, words)
  <2>1. sp' \in Nat /\ sz - PGSIZE <= sp' /\ sp' < sp
    BY <1>2, <1>4, <1>6, CopiedAboveGuard
  <2>2. TypesInv'
    BY <1>2, <1>3, <1>6, <2>1 DEF ExecInv, TypesInv
  <2>3. sp' < sz /\ sp' <= sz
    BY <1>1, <1>4, <2>1 DEF Stacked
  <2>4. Stacked'
    BY <1>3, <1>4, <2>1, <2>3 DEF Stacked
  <2> QED BY <1>3, <1>5, <1>6, <2>2, <2>3, <2>4 DEF ImageInv
<1>7. CASE place' = "bad" /\ sp' = sp
  <2>1. TypesInv'
    BY <1>2, <1>3, <1>7 DEF ExecInv, TypesInv
  <2> QED BY <1>5, <1>7, <2>1 DEF ImageInv
<1> QED BY <1>6, <1>7 DEF args_end

(* The other steps leave the image as it is.                               *)
LEMMA OtherInv ==
  ASSUME ExecInv, UNCHANGED <<sz, sp, argc, ustack, user, segments, curproc>>,
         i' \in Nat,
         \/ place' \in {"bad", "return -1"}
         \/ {place, place'} \subseteq {"namei", "header", "load", "stack"}
         \/ place' = place
  PROVE  TypesInv' /\ ImageInv'
<1>1. TypesInv'
  BY DEF ExecInv, TypesInv
<1>2. Stacked => Stacked'
  BY DEF Stacked
<1>3. (\A ph \in segments : copyout_ok(ph.vaddr, ph.memsz))'
  BY MoreMapped DEF ExecInv, ImageInv
<1>4. Filled => Filled'
  BY DEF Filled
<1>5. CASE place' \in {"bad", "return -1"}
  BY <1>1, <1>3, <1>5 DEF ImageInv
<1>6. CASE {place, place'} \subseteq {"namei", "header", "load", "stack"}
  BY <1>1, <1>3, <1>4, <1>6 DEF ExecInv, ImageInv
<1>7. CASE place' = place
  BY <1>1, <1>2, <1>3, <1>4, <1>7 DEF ExecInv, ImageInv
<1> QED BY <1>5, <1>6, <1>7

(* commit hands the finished image to the process.                         *)
LEMMA commitInv ==
  ASSUME ExecInv, commit
  PROVE  TypesInv' /\ ImageInv'
<1>1. place = "commit" /\ place' = "return 0" /\ UNCHANGED <<i, sz, sp, argc, ustack, user, segments>>
  BY DEF commit, Moves, locals
<1>2. curproc' = [pgdir |-> "new", sz |-> sz, esp |-> sp]
  BY <1>1 DEF commit, ExecInv, TableInv
<1>3. sz \in Nat /\ sp \in Nat
  BY DEF ExecInv, TypesInv
<1>4. curproc' \in [pgdir : {"old", "new"}, sz : Nat, esp : Nat] /\ curproc'.sz = sz /\ curproc'.esp = sp
  BY <1>2, <1>3
<1>5. TypesInv'
  BY <1>1, <1>4 DEF ExecInv, TypesInv
<1>6. (\A ph \in segments : copyout_ok(ph.vaddr, ph.memsz))'
  BY <1>1, MoreMapped DEF ExecInv, ImageInv
<1>7. Stacked' /\ sp' < sz'
  BY <1>1 DEF ExecInv, ImageInv, Stacked
<1> QED BY <1>1, <1>4, <1>5, <1>6, <1>7 DEF ImageInv

(* Every step preserves the invariant.                                     *)
LEMMA ExecStepInv == ExecInv /\ [ExecNext]_evars => ExecInv'
<1> SUFFICES ASSUME ExecInv, [ExecNext]_evars PROVE ExecInv'
  OBVIOUS
<1>0. i \in Nat
  BY DEF ExecInv, TypesInv
<1>1. CASE UNCHANGED evars
  <2>1. TypesInv' /\ ImageInv'
    BY <1>0, <1>1, OtherInv DEF evars
  <2>2. InodeInv' /\ TableInv' /\ ArgcInv'
    BY <1>1 DEF evars, ExecInv, InodeInv, TableInv, ArgcInv
  <2> QED BY <2>1, <2>2 DEF ExecInv
<1>2. CASE ExecNext
  <2>1. InodeInv' /\ TableInv' /\ ArgcInv'
    BY <1>2, ControlInv
  <2>2. TypesInv' /\ ImageInv'
    <3> USE DEF Moves, Fail, locals
    <3>1. CASE namei_fails \/ namei \/ header_fails \/ setupkvm
      BY <1>0, <3>1, OtherInv DEF namei_fails, namei, header_fails, setupkvm
    <3>2. CASE load_skips \/ load_fails
      <4>1. i' \in Nat
        BY <1>0, <3>2 DEF load_skips, load_fails
      <4> QED BY <3>2, <4>1, OtherInv DEF load_skips, load_fails
    <3>3. CASE loaded \/ stack_fails \/ bad
      BY <1>0, <3>3, OtherInv DEF loaded, stack_fails, bad
    <3>4. ASSUME NEW words \in 1..MaxWords, arg_fails(words) PROVE TypesInv' /\ ImageInv'
      BY <1>0, <3>4, OtherInv DEF arg_fails
    <3> HIDE DEF Moves, Fail, locals
    <3> QED
      BY <1>2, <3>1, <3>2, <3>3, <3>4, loadInv, stackInv, argInv, args_endInv, commitInv DEF ExecNext
  <2> QED BY <2>1, <2>2 DEF ExecInv
<1> QED BY <1>1, <1>2

(* The invariant of exec().                                                *)
THEOREM ExecCorrect == ExecSpec => []ExecInv
BY ExecInitInv, ExecStepInv, PTL DEF ExecSpec

(* A failed exec() leaves the process as it was, a successful one gives it *)
(* the new page table; the other table is gone.                            *)
THEOREM ExecAllOrNothing == ExecSpec => []AllOrNothing
<1>1. ExecInv => AllOrNothing
  <2> SUFFICES ASSUME ExecInv PROVE AllOrNothing
    OBVIOUS
  <2>1. curproc.pgdir \in tables
    BY DEF ExecInv, TypesInv, TableInv
  <2>2. Returned => tables = {curproc.pgdir}
    BY DEF ExecInv, TypesInv, TableInv, Returned
  <2> QED BY <2>1, <2>2 DEF ExecInv, TableInv, AllOrNothing
<1> QED BY <1>1, ExecCorrect, PTL

(* Whichever step fails, inode and transaction are given back exactly      *)
(* once.                                                                   *)
THEOREM ExecReleased == ExecSpec => []Released
<1>1. ExecInv => Released
  <2> SUFFICES ASSUME ExecInv PROVE Released
    OBVIOUS
  <2>1. \/ op = 1 /\ inode = Busy /\ ~Returned /\ place # "namei"
        \/ op = 1 /\ inode = Idle /\ place = "namei"
        \/ op = 0 /\ inode = Idle
    BY DEF ExecInv, TypesInv, InodeInv, Returned
  <2>2. Returned => op = 0 /\ inode = Idle
    BY DEF ExecInv, InodeInv, Returned
  <2>3. Busy.refs = 1 /\ Busy.locked = TRUE /\ Idle.refs = 0 /\ Idle.locked = FALSE
    BY DEF Busy, Idle
  <2>4. op >= 0 /\ inode.refs >= 0
    BY <2>1, <2>3
  <2>5. inode.locked <=> op = 1 /\ place # "namei"
    BY <2>1, <2>3
  <2> QED BY <2>2, <2>4, <2>5 DEF Released, Idle
<1> QED BY <1>1, ExecCorrect, PTL

(* Every loaded segment is mapped, below the guard page, which stays       *)
(* inaccessible, whatever the headers say.                                 *)
THEOREM ExecSegmentsMapped == ExecSpec => []SegmentsMapped
<1>1. ExecInv => SegmentsMapped
  <2> SUFFICES ASSUME ExecInv PROVE SegmentsMapped
    OBVIOUS
  <2>1. \A ph \in segments : copyout_ok(ph.vaddr, ph.memsz)
    BY DEF ExecInv, ImageInv
  <2>2. ASSUME place = "return 0"
        PROVE  /\ Page(curproc.sz) - 2 \notin user
               /\ \A ph \in segments : ph.vaddr + ph.memsz <= curproc.sz - 2 * PGSIZE
    <3>1. curproc.sz = sz /\ Stacked
      BY <2>2 DEF ExecInv, ImageInv
    <3>2. PICK n \in Nat : /\ sz = (n + 2) * PGSIZE
                           /\ user \subseteq (0..(n + 1)) \ {n}
                           /\ \A ph \in segments : ph.vaddr + ph.memsz <= n * PGSIZE
      BY <3>1 DEF Stacked
    <3>3. PGSIZE \in Nat /\ PGSIZE > 0 /\ n * PGSIZE \in Nat /\ sz = n * PGSIZE + 2 * PGSIZE /\ sz \in Nat
      <4>1. PGSIZE \in Nat /\ PGSIZE > 0
        BY ExecAssumption
      <4>2. n * PGSIZE \in Nat /\ (n + 2) * PGSIZE = n * PGSIZE + 2 * PGSIZE
        BY Multiples
      <4> QED BY <3>2, <4>1, <4>2
    <3>4. Page(sz) = n + 2
      <4>1. n + 2 \in Nat /\ (n + 2) * PGSIZE <= sz /\ sz < (n + 2) * PGSIZE + PGSIZE
        BY <3>2, <3>3
      <4> QED BY <3>3, <4>1, PageIs
    <3>5. Page(sz) - 2 = n /\ sz - 2 * PGSIZE = n * PGSIZE
      BY <3>3, <3>4
    <3> QED BY <3>1, <3>2, <3>5
  <2> QED BY <2>1, <2>2 DEF SegmentsMapped
<1> QED BY <1>1, ExecCorrect, PTL

(* Arguments of any number and length end in the one stack page or make    *)
(* exec() fail, and ustack[] is not overrun.                               *)
THEOREM ExecArgsOnStack == ExecSpec => []ArgsOnStack
<1>1. ExecInv => ArgsOnStack
  <2> SUFFICES ASSUME ExecInv PROVE ArgsOnStack
    OBVIOUS
  <2>1. ustack <= 3 + MAXARG + 1
    <3>1. MAXARG \in Nat /\ argc \in Nat /\ ustack \in Nat
      BY ExecAssumption DEF ExecInv, TypesInv
    <3>2. argc <= MAXARG /\ ustack <= 3 + argc + 1
      BY DEF ExecInv, ArgcInv
    <3> QED BY <3>1, <3>2
  <2>2. place = "return 0" => curproc.sz - PGSIZE <= curproc.esp /\ curproc.esp < curproc.sz
    BY DEF ExecInv, ImageInv, Stacked
  <2> QED BY <2>1, <2>2 DEF ArgsOnStack
<1> QED BY <1>1, ExecCorrect, PTL
=============================================================================
