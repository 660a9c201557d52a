# TLA+ models of the programs in this repository

The repository collects the programs of an operating-systems course: a small
thread runtime and programs written on it, spinlocks, three toy kernels, a
coroutine library, a profiler over `strace`, a tree printer, and one function
of xv6. They share no state and no build; what they have in common is that
their difficulty lies in the order of events. Every module below models one of
them from its C source, TLC checks it on a small instance, and TLAPS proves its
safety properties for every value of the parameters: any number of threads,
CPUs, locks, tasks, rounds, coroutines, system calls, headers and arguments.

    tlc -workers 2 -config MCFish.cfg MCFish      # a run: module and config
    tlapm FishProofs.tla                          # a proof

`PROJECT.json` lists components, runs, mutants, the map from definitions to
source lines, findings, hazards and theorems.

## 1. Inventory

Paths are relative to `src/`.

| Component | State | Operations | Hard part | Correct when |
|---|---|---|---|---|
| thread runtime, `multi-threads/threads.h` | list of nodes (`threads`, `next`, `id`), `join_fn` | `create`, `join`, `join_all` (destructor), `entry_all` | nodes are freed while threads that read them may still run; a failing `pthread_create` goes unnoticed | a node is freed only after its thread has returned; `join_fn` runs last |
| `multi-threads/fish.c` | automaton state `current`, `quota`, mutex, one condition variable | `fish_before`, `putchar`, `fish_after` per thread | the character is printed with no lock held, between two critical sections | the output is a sequence of `><>_` and `<><_`, and never stops |
| `multi-threads/brac.c` | `buff`, `count`, `quota`, mutex, two condition variables | `brac_before`, `putchar`, `brac_after` | as above, plus openers that wake only closers and the reverse | output balanced and at most four deep; `buff` follows it; never stops |
| `multi-threads/producer-consumer.c` | semaphores `empty`, `fill` | `producer`, `consumer`, `over` | printing between a P on one and a V on the other semaphore; blocking for ever | brackets nested; nobody blocked needlessly; `over` runs when it can |
| `multi-threads/sum.c`, `sum-atomic.c`, `spinlock.c` | `sum`, lock word | one addition per round | lost updates; `spin_lock` with an inverted loop | exact sum with `lock addq`; a known range otherwise; all end |
| `multi-threads/spinlock-xv6.c` | lock word and `cpu`, per CPU `ncli`, `intena`, interrupt flag | `acquire`, `release`, `holding`, `pushcli`, `popcli` | several CPUs and nested interrupts | exclusion, no panic, interrupts restored, no deadlock |
| `multi-threads/thread-os.c`, `thread-os-mp.c`, `trivial-os.c` | task contexts, `current` per CPU, a lock, `brk` | timer interrupt, page fault, system call, a task's steps | handlers of all CPUs walk one ring of tasks without a lock | a task on one CPU; no context lost; lock exclusive; progress |
| `libco/co-first.c` | list, statuses, `current`, saved contexts, stacks | `co_start`, `co_wait`, `co_yield`, `callback` | jumps between stacks, reuse of contexts, nodes freed under way | every jump lands in a live frame, for the calls it can handle; main ends |
| `mycode/sperf.c` | pipe, list of functions, total | child: search `PATH`, exec; parent: read, add, sort, show | two processes, end of file, calls split over several reads, a buffer not always cleared | list is the summary of what was read; no time counted twice; display right; it ends |
| `xv6-exec.c` | page tables, inode, log operation, new stack | the steps of `exec` | any call may fail half-way | all or nothing, nothing leaked, segments in user memory, arguments above the guard page |

Interactions are few. `fish.c`, `brac.c`, `producer-consumer.c` and the sums
call the runtime and share its list (in the model they `EXTEND` `Threads`);
`fish.c` and `brac.c` use POSIX mutexes and condition variables (`Monitor`,
external); the kernels and xv6's locks run on hardware that appears as
environment actions (interrupts, `xchg`); `sperf` runs `strace` (external).

Not modelled:

* `libco/co.c`, an unfinished rewrite, and `os-midterm/fish.c`, an earlier
  attempt, do not compile.
* `tree/pstree_source_code.c` is third-party (psmisc), kept as reading matter.
* `tree/tree.c` links and prints seven nodes written into the program: it has no
  input and one execution, so running it is checking it. (It reads fields nobody
  has set, and the cast at line 161 stores a third child in the `child` field of
  the next array element.)
* `thread-os-mp-full.c`, `thread/threads.h` and `Cdir/thread/threads.h` are
  copies of what is modelled.
* `lock()` and `unlock()` of `threads.h` are called by no program.
* `C-class/am.h` has only declarations; what it declares is the environment of
  `ThreadOS`.
* The one-screen demos in `multi-threads` (`bug.c`, `cur.c`, `hello-mt.c`,
  `compare-and-swap.c`, `stack-probe.c`, `state.c`, ...) keep no state that is
  not already in `Sum` or `Threads`; `trivial-model-checker.py` enumerates the
  interleavings of one fixed program.
* The rest is assembly samples, books, LaTeX and binaries.

## 2. Modules

| Module | Models | Notes |
|---|---|---|
| `Threads` | `threads.h` | a node is named by the order of its `malloc`; up to `MaxFailures` calls of `malloc` or `pthread_create` fail; `ThreadsNext` is what any program may do to the runtime |
| `Monitor` | pthread mutex and condition variables | external: no queue, spurious wakeups (bounded by `MaxSpurious`) |
| `Fish`, `FishOutput`, `MCFish` | `fish.c` | `FishOutput` is the abstract specification: one character at a time, only lines that begin a fish |
| `Brac`, `BracOutput`, `MCBrac` | `brac.c` | `BracOutput`: the output with matched pairs cancelled is a stack of the table |
| `ProducerConsumer` | `producer-consumer.c` | every split of the threads into producers and consumers |
| `Sum` | `sum.c`, `sum-atomic.c`, `spinlock.c` | one module: the programs differ in how one addition is made |
| `AbstractLock` | what a lock promises | abstract: a free lock goes to one caller, nobody takes it over, only its holder gives it back; implemented by `Xv6SpinLock` |
| `Xv6SpinLock` | `spinlock-xv6.c` | interrupts suspend the code of a CPU on a stack of contexts |
| `ThreadOS`, `MCThreadOS` | `thread-os.c`, `thread-os-mp.c`, `trivial-os.c` | one scheduler; `reached` is the history of where a task really is |
| `Libco` | `co-first.c` | a `jmp_buf` is the stack it was saved on; `frame` says which `jmp_buf` a stack's top frame is in |
| `Sperf` | `sperf.c` | what one `fgets` returns is a chunk (name, what follows the last `<`) |
| `Exec`, `MCExec` | `xv6-exec.c` | addresses in words, arithmetic modulo `Wrap` |
| `ThreadsProofs`, `FishProofs`, `BracProofs`, `ProducerConsumerProofs`, `SumProofs`, `ThreadOSProofs` | | proofs; `ThreadsProofs` also has lemmas about short tuples |
| `Xv6Proofs` | | proofs about `Xv6SpinLock` and `Exec` |
| `LibcoSperfProofs` | | proofs about `Libco` and `Sperf`, which share the lemmas on lists |

An action is one step that no other actor can observe in parts: a critical
section under the mutex, one access to a shared word where there is no lock,
one system call, or, in the single-threaded programs, the code between two
points where control leaves (a jump, a call that may fail). Names are those of
the C functions; `BeforeClaim` is the end of `fish_before`, and so on. C counts
arrays from 0: `role(t)` keeps the consequence that `roles[0]` is never played
and the last thread reads the terminating NUL.

Definitions marked *Wrong variant* are plausible bugs (a dropped guard, a
missing update). They are used by no specification; they serve to see that each
property notices the bug.

Choices that matter:

* `Threads`: `malloc` failing ends the process at `assert(cur)` (`malloc_fails`).
  `pthread_create` failing goes unnoticed: the node stays in the list without a
  thread, and what `pthread_join` does with its handle, which was never set, is
  undefined: it returns or crashes the process (`join_crashes`). A crash stops
  all threads. In `fish.c` and `brac.c`, whose threads never end, a
  missing thread is the absence of its role, so their runs allow no failure;
  their theorems hold for any number of them.
* `Monitor`: `pthread_cond_broadcast` moves all sleepers to contending for the
  mutex; broadcast and the unlock after it are one step, since nobody can get
  the mutex in between.
* `Sum`: an `addq` without `lock` is a load and a store. `compare_and_swap` is
  one step.
* `Xv6SpinLock`: an interrupt may come between `readeflags()` and `cli()`, and
  `holding()` reads `locked` and `cpu` at two times. `getcallerpcs` is left out.
  Refinement: a CPU holds a lock in `AbstractLock` from the `xchg` that finds 0
  to the `movl` that clears it, in the context that runs or in one that an
  interrupt suspended. Mutual exclusion is that refinement.
* `ThreadOS`: the walk over the ring is one step: it reads nothing that other
  CPUs write. A CPU with no task hangs in it (`schedule_hangs`). In
  `trivial-os.c` handlers run with interrupts off, except `proc_syscall`
  outside its lock; `kalloc` is a load and a store of `brk`, and returns the
  register or reads `brk` again, for the data race allows both. The pages
  `_map` itself takes from `kalloc` are left out.
* `Brac`: `test_producer` is the comparison it makes. Its temporary copy of
  `buff` has five bytes, one too few when four brackets are open, and is not
  freed when it returns 1; neither is in the model.
* `Libco`: `main()` and the coroutines call `co_start` and `co_wait` at any time
  and in any order, with different names and one wait for each coroutine; a
  coroutine yields up to `MaxYields` times and returns. A coroutine is its block
  of memory: freed memory keeps its contents and may be given out again by the
  next `malloc`. `co_wait` of a dead coroutine leaves `current` dangling, and the
  next `co_wait` writes there. The `co_wait`s of coroutines are kept in `nested`,
  one stack of calls for each stack.
  Not all of these calls go well. Line 405 marks the coroutine in `current`
  WAITING although its context has not been saved, and what `rand_choose` then
  picks may have no frame to jump to. TLC finds two ways to it when the invariants
  `JumpsLand` and `ListAlive` are checked as they stand: `main()` waits for 1,
  which starts 2 and calls `co_wait(2)`, and line 405 marks 1; or `main()` waits
  for a dead coroutine, `co_start` gets its block, and the next `co_wait` marks
  the new coroutine. The history variable `careful` is true until one of the two
  happens: a coroutine calls `co_wait`, or a `co_start` gets the block that
  `current` or `old_current` dangles in. It guards no action. The properties of
  the run are implications from it: they say that these two are the only calls,
  of all that are modelled, after which control, list or contexts are wrong.
  After a step that is undefined in C (`running` is NULL after a jump to a frame
  that is gone; the list or the stack in use is freed memory) the behaviour ends
  (`Defined`).
  `rand_choose` has the index arithmetic of the code with any `rand()`; with an
  empty pool it has no result (the code crashes), and `MainCanBeResumed` says
  that this never happens. The properties of the run `libco` are about control
  and take stacks to be large enough, which they are not: see the finding.
* `Sperf`: a chunk is what one `fgets` returns, with a name if it starts with a
  lower-case letter, and what `sscanf` reads after its last `<`: nothing
  (`NoTime`), a time, or no number (`NoNumber`: `<unfinished ...>`, a `<` in a
  string). In the last case `time`, which is not initialised, is added as it is:
  usually the time of the round before, in the model any time (`sscanf`), summed
  up in the history variable `invented`, or a value that is no time at all, after
  which nothing more is said (`sscanf_failed`). The piece of a cut line that
  starts with a lower-case letter may have no `(`, and the loop of line 151 goes
  on behind its end: it finds one, and the program goes on with a name that is
  none (a member of `Fragments`), or crashes (`fgets_overrun`). The buffer is
  not cleared when a chunk is skipped, and the search for `<` covers all of it:
  whether the next chunk covers what is left depends on their lengths, so the
  model takes either (`last`). `CountedOnce` says that a time left there is
  counted for another call at most instead of being lost, never twice: what the
  total has beyond the times reported is what `sscanf` did not read. At the
  end of input inside a call the code loops for ever; there the model has no
  step, and `Ends` names the case. The two loops of `sort` are recursive
  functions over the positions of the nodes (`round` is the inner one). A
  process started by the traced program that keeps the pipe open after `strace`
  has ended is left out.
* `Exec`: the functions of the kernel are external; each may fail at any time.
  `segments` is the history of the headers loaded; `SegmentsMapped` compares it
  with the pages allocated, with addresses that wrap. The commit (lines 97 to 103)
  is one step, so the order of its assignments is not checked.

## 3. Runs

| Run | Instance | What it shows |
|---|---|---|
| `fish` | 5 threads: `<` twice, `>`, `_`, NUL; 1 spurious wakeup | one printer at a time, what was tested still holds when acted on, `FishOutput` implemented, printing never stops |
| `brac` | 5 threads: `[`, `]`, `(`, `)`, NUL; 1 spurious wakeup | the same for brackets; `buff` and `count` lag behind the output by at most the bracket being printed |
| `prodcons` | 4 threads, 1 to 3 of them producers, `N` = 1; 2 failures | nesting, blocking only when the numbers force it, `over` exactly when the producers that started are as many as the consumers or up to `N` more; the runtime's guarantees |
| `sum` | 3 threads, 2 rounds, 1 failure, all three programs | exact sum of the threads that started with `lock addq`; otherwise between 2 and the exact sum; all end |
| `spinlock` (violation) | 2 threads, 1 round | finding 1 |
| `xv6_spinlock` | 2 CPUs, 2 locks, interrupts nested twice | `AbstractLock` implemented, no panic, no lock in suspended code, interrupts restored, no deadlock |
| `thread_os` | 3 tasks; `thread-os-mp.c` on 1 to 4 CPUs, `trivial-os.c` on 1 and 2 | a task on one CPU, contexts up to date, lock exclusive, every task gets a CPU again and again, progress |
| `kalloc` (violation) | 2 CPUs, 2 processes | finding 2 |
| `libco` | 5 coroutines in 3 blocks, 2 yields each | for careful calls: jumps, list, `callback` finds somebody, functions return at most once, `co_yield` gives way, `main()` ends |
| `libco_stack` (violation) | 2 coroutines, 1 yield | finding 3 |
| `sperf` | 2 functions and a fragment, times 0 and 1, 4 chunks, 2 directories, pipe of 1, display of 2 | list and display are right at all times, no time counted twice and nothing added that was neither reported nor left unread; the parent ends |
| `exec` | pages of 16 words, 6 pages of user memory, 2 headers out of 40, up to 4 arguments of up to 70 words | all or nothing, released exactly once, segments wholly in user memory, arguments on the stack page |

Bounds. Five threads give every role a thread and, in `fish`, two threads for
one role; a second spurious wakeup does what another round of the loop does
already. Three producers and one consumer is the split `main()` uses, and the
other splits are the balanced and the opposite case; two failures make every
number of producers and consumers from none to three. Two rounds are the fewest
with which a sum of 2 is possible. A depth of two would show a
handler interrupted by a handler; `StackInv` (section 5) proves that this never
happens, since handlers run with interrupts off. Four CPUs are one more than there are
tasks. Three blocks give pools of one to three in `rand_choose`, whose arithmetic
has special cases at one and two, and with five starts freed blocks are used
again, so that all branches of `co_wait` are reached one after the other. Three
names and four chunks give a list that one round of `sort` does not sort, a
function met twice, and a time left in the buffer before two further calls;
larger times are the sums of smaller ones. Arguments of 70 words
are longer than stack and image together.
Deadlock checking is off only where the program really stops (`prodcons`,
`sum`, `libco`, `sperf`, `exec`).

## 4. Fairness

* `Fish`, `ProducerConsumer`, `Sum`: weak fairness of `main()` and of each
  thread: the operating system schedules every runnable thread again. A loop of
  `spin_lock` that goes on for ever would need other threads to reset the word
  for ever, and they run for finitely many rounds.
* `Brac`: strong fairness of each thread. The NUL thread takes and releases the
  mutex for ever, so a contender is never continuously able to take it; that it
  gets it at last is what a futex-based mutex gives in practice and POSIX does
  not promise.
* `Xv6SpinLock`: weak fairness of the code on each CPU, strong fairness of
  `release`: whoever holds a lock releases it in the end, though interrupts may
  come in between. `SomebodyGetsIn` promises the lock or a later one: a holder
  may itself spin for a later lock that others take again and again.
* `ThreadOS`: the timer interrupts each CPU for ever (weak fairness), and a
  task resumed again and again executes an instruction at last (strong
  fairness). A single task may still starve at the lock; `KeepsPrinting` claims
  only global progress there. `EveryTaskRuns`, that each task has a CPU again and
  again, is claimed for the kernels whose tasks can always be interrupted:
  in `trivial-os.c` an interrupt that comes only while they are off is not
  excluded by weak fairness.
* `Libco`: one thread, weak fairness of `LibcoNext`; the coroutines return, which is
  the bound on their yields.
* `Sperf`: both processes are scheduled, and `strace` ends (weak fairness).

## 5. Proofs

Assumptions are those of the modules, and TLC evaluates them in the runs: at
least one thread, task, CPU, lock and round; a `roles` array of as many
characters as threads and the sets of condition variables; `MaxFailures` in
`Nat`, so that the theorems hold whichever `malloc` or `pthread_create` fails;
a page size above 0 and `KERNBASE < Wrap` in `Exec`, whose headers are
otherwise any; and `N > 0` in `ProducerConsumer` (the code defines it as 1): with
`N = 0` every producer waits for ever, and `NobodyStuckNeedlessly` is false. In
`Libco` there is at least one block of memory; the bounds on calls are any
numbers, and so are those of `Sperf`, whose set of functions may even be infinite.

Every proof has the same outline: an inductive invariant, one lemma per action
or kind of step that it is preserved, and the properties and the refinement as
consequences.

* `ThreadsProofs`. `ThreadsInv`: the list runs from the newest node down to 1
  over exactly the nodes not freed, with ids equal to positions; freed nodes
  belong to returned threads. It is needed because `join_all` reads only the
  head and `next`: that it misses no thread follows from the shape of the list.
  Every program's step is a step of `ThreadsNext`, so its proof reuses the lemma.
* `FishProofs`. `FishInv` adds to the two safety properties that the mutex is
  held exactly by the thread inside it, that `quota` is 1 when nobody prints,
  and `LineInv`: what has been printed of the current fish is what the
  automaton's state says, one character further while a thread is between
  `putchar` and its update. One lemma per kind of step. `FishPrintsFish` is the
  refinement of `FishOutput`.
* `BracProofs`. `BracInv` is the same with `BuffFollowsOutput`; the table of
  stacks is treated by lemmas on its shape (`StateShape`, `StateOrder`,
  `StatePop`). `BracPrintsBalanced` is the refinement of `BracOutput`.
* `ProducerConsumerProofs`. `SlotInv`: `empty`, `fill` and the numbers of
  threads between P and V add up to `N`; the open brackets are the producers
  before V, `fill`, and the consumers before `printf`; the producers that have
  returned are `fill` and the consumers past their P. Each step moves one thread
  from one count to the next (`SlotStep`). With `DoneInv` (a thread that has not
  started is at its P, one that returned is at the end) the counts in a state
  where nobody can move follow: `PCNobodyStuck` is `NobodyStuckNeedlessly` with
  `ENABLED` replaced by what it means here (`Stuck`), and `PCOverBalanced` is
  the second half of `OverRunsIffBalanced`.
* `SumProofs`. An addition is a pair of a thread and a number, so that the sum
  to be expected is the cardinality of a set and each step adds one pair to it.
  `UpperInv`: `sum` and every loaded value are at most that cardinality, and
  `sum` is equal to it with `lock addq`. `LowerInv`: once a thread has
  added, `sum` and what that thread loads are at least 1, and `sum` is at least
  2 unless some thread has added exactly once. This last part is what makes the
  bound of 2 inductive: a thread that stores a stale value in its second round
  or later stores at least 2, and one that stores 1 is in its first.
* `Xv6Proofs`, spinlocks. `Xv6Inv` says of each lock that its word is 1 while a
  CPU owns it and that the owner is unique (`WordInv`), and that `lk->cpu` names
  a CPU exactly while that CPU has marked the lock (`CpuInv`): `holding()` reads
  both without owning the lock and at two times, and its answer is right because
  only the CPU itself makes it true or false. `CountInv` ties `ncli` to
  the number of locks held, `FlagInv` the interrupt flag and `intena` to whether
  a handler runs, and `StackInv` says that what is suspended holds nothing and
  is at most one context. The last two need each other: an interrupt between
  `readeflags()` and `cli()` is harmless only because the handler gives back
  the flag the suspended code has already read.
* `ThreadOSProofs`. `OwnInv`: a CPU runs only tasks whose number is its own
  modulo the number of CPUs, which is why handlers may walk the ring without a
  lock. `SavedInv`: the context of a task is in its CPU's registers while it
  runs, else in memory. `WordInv` and `HeldInv` tie the lock word to the tasks
  inside. The task a walk ends at is chosen by a least distance, so its
  existence rests on `LeastNatural`.
* `Xv6Proofs`, `exec()`. `InodeInv` and `TableInv` say at each step what `ip` and
  `pgdir` stand for, so that the code at `bad` frees exactly what is held.
  `ImageInv`: before the stack is made all pages below `sz` are user memory and
  all segments end below `sz`; afterwards the last two pages are the guard page,
  which is not user memory, and the stack page, with the segments below both.
  That a segment cannot wrap round follows from the test `vaddr + memsz < vaddr`
  (`PlusIs`), that an argument cannot pass the guard page from `copyout` failing
  there, for `sp` itself may run below it or wrap (`CopiedAboveGuard`).
* `LibcoSperfProofs`, coroutines. What is inductive is `LibcoCarefulInv`: `LibcoInv`
  as long as `careful` holds, of which each step needs that it held before.
  `LibcoInv` adds to `ListAlive` four facts about where contexts are, and that
  no coroutine is in a `co_wait`. `RunInv`: on main's stack the coroutine that
  `co_wait` was called for runs and is `current`; on a stack of its own the one
  that owns the stack does, while main's stack is suspended in the name of the
  one that is waited for. `ParkedInv`: every other one in the list has not begun
  or waits in a `co_yield` on top of its own stack. `DanglingInv`: between two
  waits `current` is NULL or freed memory, so that what `co_wait` writes through
  it, or through `old_current`, concerns nobody in the list. `FinishedInv`:
  nobody in the list has returned. They need each other: that a `longjmp` to a
  coroutine finds its frame (`JumpsLandInLiveFrames`) holds because whoever
  saved a context on main's stack is the one that is waited for, and that is
  also why `callback()` finds somebody (`MainCanBeResumed`). Every step that
  chooses a coroutine rests on `Chosen`: what `rand_choose` returns is in the
  list and can run, and is the one that yields only if it is alone
  (`IndexAgain`, which is `GivesWay`).
* `LibcoSperfProofs`, `sperf`. `LeftInv`: a time left in the buffer has been
  reported and not been counted, so that the total and that time together are at
  most what was reported or never read (`invented`). `HeadInv`: while the parent reads, the list is
  a `Digest` of all times added (one node per function, its time, the sum, the
  order). `ShownInv`: a display was made from such a list, with nothing recorded
  since. The parts of `Digest` are not independent: that `append` keeps one node
  per function needs that the names in the list differ, and that the sum is
  `total_time` needs that it adds to one node only. `append` and `sort` are
  proved correct for every list: the recursive functions exist (`SumStep`,
  `RoundExists`, `SortExists`), one `exchange` keeps the summary and the sum
  (`Exchanged`, from `SumChange`) and the order so far (`ExchangeOrders`), one
  round brings the most time of the rest to its place (`RoundOrders`), all
  rounds sort (`Sorted`). The shares add up to at most 100 because each is
  rounded down (`SumOfShares`).

Induction. Facts for every natural number are proved from the least number for
which they fail (`LeastNatural`, from the well-foundedness of `<`), which asks
for a set, not for an operator as parameter.

`TypeOK` of `Fish` and `Brac` and `OnePrinter` of `Brac` are proved and no longer
checked by a run: they are parts of `FishInv` and `BracInv`.

Only model-checked: the liveness properties (`KeepsPrinting`, `EveryTaskRuns`, `Terminates`,
`SomebodyGetsIn`, `WaitsEnd`, `Ends` and the first half of
`OverRunsIffBalanced`), and `NobodyStuckNeedlessly` as written, with `ENABLED`:
fairness and `ENABLED` are beyond this prover.

## 6. Findings

1. `spinlock.c:28`: the loop of `spin_lock` goes on while `compare_and_swap`
   *succeeds* and leaves when it fails. The comment on line 29 asks for
   `lk->locked == 1` there; the run `spinlock` finds a thread inside with the
   word at 0. The run `sum` gives what may be printed all the same.
2. `trivial-os.c:9`: `kalloc`, announced as `"malloc" without free`, changes
   `brk` without a lock; two CPUs that take a page fault at the same time get
   the same page (`kalloc`).
3. `co-first.c:470`: `co_yield` has a local `struct co`, which contains a stack
   of `STACK_SIZE` bytes and more, so on a coroutine's own stack it does not
   fit. The assertion in `stack_head_chk` (line 105, commented out) says what
   is violated (`libco_stack`).

Behaviour that no text of the repository contradicts, kept in the models and in
the hazards: in `co-first.c` `co_wait` called by a coroutine, and `co_start` in
memory that `current` dangles in, lead to jumps to contexts never saved (section
2); a coroutine waited for while suspended is given up
without ever finishing, and after `co_wait` of a dead one a suspended one is
called from its beginning; a CPU with no task hangs; `sperf` adds an uninitialised
value when a `<` has no number behind it, loops for ever if its input ends
within a call, and aborts if there is none.

## 7. What is left

1. Theorems. Every safety invariant and action property that a run checks is
   proved, `NobodyStuckNeedlessly` in the form without `ENABLED`; the liveness
   properties are left to TLC.
2. Models. What is left out is named under "Not modelled" in section 1 and with
   the modules in section 2. Of it, coroutines of one name, the temporary copy
   in `test_producer`, the order within the commit of `exec()` and what happens
   after undefined behaviour in `co-first.c` and `sperf.c` do have outcomes, of
   which the models say nothing.
