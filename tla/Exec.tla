-------------------------------- MODULE Exec --------------------------------
(***************************************************************************)
(* xv6-exec.c: exec() builds a new address space from a program file and   *)
(* the arguments, and commits to it only when nothing can fail any more.   *)
(* Every call into the rest of the kernel may fail; all failures go        *)
(* through the label bad.                                                  *)
(*                                                                         *)
(* Addresses are counted in words of four bytes, a page has PGSIZE words   *)
(* and unsigned arithmetic wraps at Wrap.  The functions exec() calls are  *)
(* not in the repository: allocuvm, copyout and the rest do what exec()    *)
(* relies on.                                                              *)
(***************************************************************************)
EXTENDS Integers

CONSTANTS
  PGSIZE,       \* words in a page
  KERNBASE,     \* first address that user memory may not reach
  Wrap,         \* number of addresses
  MAXARG,       \* most arguments exec() accepts
  MaxArgs,      \* bound on the arguments a caller passes
  MaxWords,     \* bound on the words of one argument
  phnum,        \* number of program headers in the file
  Headers       \* the program headers to choose from

ASSUME ExecAssumption ==
  /\ {PGSIZE, MAXARG, MaxArgs, MaxWords, phnum} \subseteq Nat
  /\ PGSIZE > 0
  /\ KERNBASE \in Nat /\ Wrap \in Nat /\ KERNBASE < Wrap
  /\ Headers \subseteq [load : BOOLEAN, vaddr : 0..(Wrap - 1),
                        filesz : 0..(Wrap - 1), memsz : 0..(Wrap - 1)]

NULL == "NULL"

VARIABLES
  place,       \* where exec() is
  ip,          \* the local ip: "inode" or NULL
  inode,       \* references and lock that exec() holds on the inode
  op,          \* begin_op() minus end_op()
  pgdir,       \* the local pgdir: "new" or NULL
  tables,      \* page tables that exist
  user,        \* pages of the new table that user code may access
  i, sz, sp,   \* locals
  argc,        \* local: arguments pushed so far
  ustack,      \* how many words of ustack[] have been written
  segments,    \* history: the headers whose segments have been loaded
  curproc      \* the calling process: page table, size, stack pointer

evars == <<place, ip, inode, op, pgdir, tables, user, i, sz, sp, argc, ustack,
           segments, curproc>>
locals == <<i, sz, sp, argc, ustack, user, segments>>

Page(a)        == a \div PGSIZE
PGROUNDUP(a)   == Page(a + PGSIZE - 1) * PGSIZE
Plus(a, b)     == (a + b) % Wrap
Minus(a, b)    == (a - b) % Wrap

ExecInit ==
  /\ place = "namei"
  /\ ip = NULL
  /\ inode = [refs |-> 0, locked |-> FALSE]
  /\ op = 1
  /\ pgdir = NULL
  /\ tables = {"old"}
  /\ user = {}
  /\ i = 0 /\ sz = 0 /\ sp = 0 /\ argc = 0 /\ ustack = 0
  /\ segments = {}
  /\ curproc = [pgdir |-> "old", sz |-> 0, esp |-> 0]
-----------------------------------------------------------------------------
(* External: iunlockput, which needs the lock and a reference.             *)
iunlockput == inode' = [refs |-> inode.refs - 1, locked |-> FALSE]

(* External: allocuvm grows user memory from oldsz to newsz.               *)
allocuvm_fails(newsz) == newsz >= KERNBASE
allocuvm(oldsz, newsz) ==
  IF newsz < oldsz THEN oldsz ELSE newsz
PagesOf(oldsz, newsz) ==
  { p \in 0..Page(KERNBASE) : oldsz <= p * PGSIZE /\ p * PGSIZE < newsz }

(* External: copyout writes only where user code may.                      *)
copyout_ok(va, words) == \A a \in va..(va + words - 1) : Page(a) \in user

Moves(from, to) == place = from /\ place' = to
Fail(from) == Moves(from, "bad") /\ UNCHANGED <<ip, inode, op, pgdir, tables, locals, curproc>>

(* begin_op(); the path has no inode: the only failure that does not go to *)
(* bad.                                                                    *)
namei_fails ==
  /\ Moves("namei", "return -1")
  /\ op' = op - 1
  /\ UNCHANGED <<ip, inode, pgdir, tables, locals, curproc>>

namei ==
  /\ Moves("namei", "header")
  /\ ip' = "inode"
  /\ inode' = [refs |-> 1, locked |-> TRUE]
  /\ UNCHANGED <<op, pgdir, tables, locals, curproc>>

(* The ELF header is read and checked; then setupkvm().                    *)
header_fails == Fail("header")

setupkvm ==
  /\ Moves("header", "load")
  /\ pgdir' = "new"
  /\ tables' = tables \cup {"new"}
  /\ UNCHANGED <<ip, inode, op, locals, curproc>>

(* One round of the loop over the program headers ...                      *)
load_skips ==
  /\ i < phnum
  /\ \E ph \in Headers : ~ph.load
  /\ Moves("load", "load")
  /\ i' = i + 1
  /\ UNCHANGED <<ip, inode, op, pgdir, tables, sz, sp, argc, ustack, user, segments, curproc>>

(* Wrong variant: the end of the segment may wrap round.                   *)
RejectedUnlessWraps(ph) ==
  \/ ph.memsz < ph.filesz
  \/ allocuvm_fails(Plus(ph.vaddr, ph.memsz))
  \/ allocuvm(sz, Plus(ph.vaddr, ph.memsz)) = 0
  \/ ph.vaddr % PGSIZE # 0

Rejected(ph) ==
  \/ ph.memsz < ph.filesz
  \/ Plus(ph.vaddr, ph.memsz) < ph.vaddr
  \/ allocuvm_fails(Plus(ph.vaddr, ph.memsz))
  \/ allocuvm(sz, Plus(ph.vaddr, ph.memsz)) = 0
  \/ ph.vaddr % PGSIZE # 0

load(ph) ==
  /\ i < phnum
  /\ ph.load /\ ~Rejected(ph)
  /\ Moves("load", "load")
  /\ LET end == Plus(ph.vaddr, ph.memsz)
     IN /\ sz' = allocuvm(sz, end)
        /\ user' = user \cup PagesOf(PGROUNDUP(sz), end)
  /\ segments' = segments \cup {ph}
  /\ i' = i + 1
  /\ UNCHANGED <<ip, inode, op, pgdir, tables, sp, argc, ustack, curproc>>

(* ... which ends at bad for a header that is refused, or when readi,      *)
(* allocuvm or loaduvm fails.                                              *)
load_fails == i < phnum /\ Fail("load")

(* Wrong variant: ip keeps pointing at the inode that was given back.      *)
forgetMissing == UNCHANGED ip

(* ip = 0: bad will not give it back again.                                *)
forget == ip' = NULL

loaded ==
  /\ i = phnum
  /\ Moves("load", "stack")
  /\ iunlockput
  /\ op' = op - 1
  /\ forget
  /\ UNCHANGED <<pgdir, tables, locals, curproc>>

(* Wrong variant: no guard page below the stack.                           *)
clearpteuMissing(top) == {Page(top) - 2, Page(top) - 1}

(* Two pages end at top: the first one inaccessible, the second one the    *)
(* stack.                                                                  *)
clearpteu(top) == {Page(top) - 1}

alloc_stack ==
  /\ Moves("stack", "args")
  /\ LET top == PGROUNDUP(sz) + 2 * PGSIZE
     IN /\ ~allocuvm_fails(top)
        /\ sz' = top
        /\ sp' = top
        /\ user' = user \cup clearpteu(top)
  /\ UNCHANGED <<ip, inode, op, pgdir, tables, i, argc, ustack, segments, curproc>>

stack_fails == Fail("stack")

TooMany == argc >= MAXARG

(* Push one argument of so many words; ustack[3+argc] = sp.                *)
arg(words) ==
  /\ argc < MaxArgs
  /\ ~TooMany
  /\ LET to == Minus(sp, words)
     IN /\ copyout_ok(to, words)
        /\ Moves("args", "args")
        /\ sp' = to
  /\ argc' = argc + 1
  /\ ustack' = 3 + argc + 1
  /\ UNCHANGED <<ip, inode, op, pgdir, tables, i, sz, user, segments, curproc>>

arg_fails(words) ==
  /\ argc < MaxArgs
  /\ TooMany \/ ~copyout_ok(Minus(sp, words), words)
  /\ Fail("args")

(* argv[argc] is 0: ustack[3+argc] = 0, and ustack[] goes on the stack.    *)
args_end ==
  LET words == 3 + argc + 1
      to    == Minus(sp, words)
  IN /\ place = "args"
     /\ ustack' = words
     /\ \/ copyout_ok(to, words) /\ place' = "commit" /\ sp' = to
        \/ ~copyout_ok(to, words) /\ place' = "bad" /\ UNCHANGED sp
     /\ UNCHANGED <<ip, inode, op, pgdir, tables, i, sz, argc, user, segments, curproc>>

(* Nothing fails any more: switch to the new image, free the old one.      *)
commit ==
  /\ Moves("commit", "return 0")
  /\ curproc' = [pgdir |-> pgdir, sz |-> sz, esp |-> sp]
  /\ tables' = tables \ {curproc.pgdir}
  /\ UNCHANGED <<ip, inode, op, pgdir, locals>>

(* Wrong variant: the half-built page table is kept.                       *)
freevmMissing == UNCHANGED tables

(* if (pgdir) freevm(pgdir).                                               *)
freevm == tables' = tables \ {pgdir}

bad ==
  /\ Moves("bad", "return -1")
  /\ freevm
  /\ IF ip # NULL THEN iunlockput /\ op' = op - 1 ELSE UNCHANGED <<inode, op>>
  /\ UNCHANGED <<ip, pgdir, locals, curproc>>

ExecNext ==
  \/ namei_fails \/ namei \/ header_fails \/ setupkvm
  \/ load_skips \/ (\E ph \in Headers : load(ph)) \/ load_fails \/ loaded
  \/ alloc_stack \/ stack_fails
  \/ \E words \in 1..MaxWords : arg(words) \/ arg_fails(words)
  \/ args_end
  \/ commit \/ bad

ExecSpec == ExecInit /\ [][ExecNext]_evars
-----------------------------------------------------------------------------
Returned == place \in {"return 0", "return -1"}

(* All or nothing: a failed exec() leaves the process with its old page    *)
(* table, a successful one with the new; exactly that one exists on        *)
(* return, and the process never runs on one that has been freed.          *)
AllOrNothing ==
  /\ curproc.pgdir \in tables
  /\ place = "return 0" => curproc.pgdir = "new"
  /\ place # "return 0" => curproc.pgdir = "old"
  /\ Returned => tables = {curproc.pgdir}

(* Whichever call fails, the inode is unlocked and put exactly once and    *)
(* the log transaction closed exactly once.                                *)
Released ==
  /\ op >= 0 /\ inode.refs >= 0
  /\ inode.locked <=> op = 1 /\ place # "namei"
  /\ Returned => op = 0 /\ inode = [refs |-> 0, locked |-> FALSE]

(* Every word of every segment that was loaded lies in the user memory of  *)
(* the new image, whatever the headers say: below the stack's guard page,  *)
(* which no segment and no argument can reach.                             *)
SegmentsMapped ==
  /\ \A ph \in segments : copyout_ok(ph.vaddr, ph.memsz)
  /\ place = "return 0" => /\ Page(curproc.sz) - 2 \notin user
                        /\ \A ph \in segments : ph.vaddr + ph.memsz <= curproc.sz - 2 * PGSIZE

(* The arguments and the argument vector of the new image lie in its one   *)
(* stack page, above the guard page, however long the arguments are, and   *)
(* ustack[3+MAXARG+1] is never overrun.                                    *)
ArgsOnStack ==
  /\ ustack <= 3 + MAXARG + 1
  /\ place = "return 0" => curproc.sz - PGSIZE <= curproc.esp /\ curproc.esp < curproc.sz
=============================================================================
