------------------------------- MODULE Libco -------------------------------
(***************************************************************************)
(* libco/co-first.c: coroutines over setjmp and longjmp.  The coroutine    *)
(* that main() waits for runs on main's stack, inside co_wait; the ones    *)
(* that co_yield starts run on their own stack and end in callback().  A   *)
(* jmp_buf is modelled by the stack it was saved on, and frame says which  *)
(* jmp_buf the suspended co_yield on top of a stack was saved in: a        *)
(* longjmp makes sense only to such a frame.                               *)
(*                                                                         *)
(* The caller (co.h and the test programs are not in the repository): both *)
(* main() and the coroutines call co_start, with different names, and      *)
(* co_wait, once for each coroutine, at any time and in any order.  A      *)
(* coroutine yields a bounded number of times and returns.  malloc         *)
(* succeeds and may give out again what was freed, as it was left.         *)
(*                                                                         *)
(* co-first.c is not made for all of these calls: careful is the history   *)
(* of whether the two kinds that it mishandles have been avoided so far.   *)
(* After a step that is undefined in C (a longjmp to a frame that is gone, *)
(* freed memory in the list or in use as the stack) nothing more is said.  *)
(***************************************************************************)
EXTENDS Integers, SequencesExt

CONSTANTS
  NCo,          \* blocks of memory for coroutines
  MaxStarts,    \* bound on the calls of co_start
  MaxYields,    \* bound on the calls of co_yield by one coroutine
  STACK_SIZE,   \* bytes in the stack of a coroutine
  Fields        \* bytes in the other members of struct co

ASSUME LibcoAssumption ==
  /\ NCo \in Nat \ {0}
  /\ MaxStarts \in Nat /\ MaxYields \in Nat
  /\ STACK_SIZE \in Nat /\ Fields \in Nat

Co    == 1..NCo
NULL  == 0
Main  == NCo + 1           \* main's stack; the stack in block c is c
Stack == Co \cup {Main}

VARIABLES
  started,      \* calls of co_start so far
  status,       \* coroutine -> its status, "none" before co_start
  co_list,      \* the list of coroutines
  freed,        \* coroutines given to free()
  current,      \* the global current
  wait,         \* the co_wait main() is in: branch, argument, old_current
  nested,       \* stack -> the co_waits of coroutines on it: argument, old_current
  context,      \* coroutine -> the stack its jmp_buf was saved on
  frame,        \* stack -> the coroutine whose jmp_buf holds its top frame
  running,      \* the stack in use, NULL after a jump to nowhere
  yields,       \* coroutine -> calls of co_yield so far
  finished,     \* history: coroutine -> times its function has returned
  careful       \* history: main() alone has called co_wait, and no co_start
                \* has got the memory that current or old_current dangles in

lvars == <<started, status, co_list, freed, current, wait, nested, context, frame,
           running, yields, finished, careful>>

idle == [branch |-> "none", co |-> NULL, old |-> NULL]

LibcoInit ==
  /\ started = 0
  /\ status = [c \in Co |-> "none"]
  /\ co_list = << >>
  /\ freed = {}
  /\ current = NULL
  /\ wait = idle
  /\ nested = [s \in Stack |-> << >>]
  /\ context = [c \in Co |-> NULL]
  /\ frame = [s \in Stack |-> NULL]
  /\ running = Main
  /\ yields = [c \in Co |-> 0]
  /\ finished = [c \in Co |-> 0]
  /\ careful = TRUE

list_append(list, c) == Append(list, c)

(* Wrong variant: the nodes behind it are lost as well.                    *)
co_deleteLosesTail(list, node) ==
  IF \E k \in DOMAIN list : list[k] = node
  THEN SubSeq(list, 1, (CHOOSE k \in DOMAIN list : list[k] = node) - 1)
  ELSE list

co_delete(list, node) == RemoveFirst(list, node)

(* Wrong variant: the second choice is made by one formula for all counts. *)
index_againUniform(index, count) == ((index + 1) % count) + 1

(* The index tried when the first one gives the coroutine that yields.     *)
index_again(index, count) ==
  IF count = 2 THEN count + 1 - index ELSE ((index + 1) % count) + 1

(* Where in the list those are that can run, and the index-th of them: the *)
(* random pool keeps the order of the list.                                *)
Ready(list, st) == { k \in 1..Len(list) : st[list[k]] \in {"NEW", "WAITING"} }

pool(list, st, index) ==
  LET ready == Ready(list, st)
  IN list[CHOOSE k \in ready : Cardinality({ j \in ready : j <= k }) = index]

(* What rand_choose may choose from a list, with rand() any number.  With  *)
(* an empty pool it crashes, which the empty set stands for.               *)
rand_choose(list, st, cur) ==
  LET count == Cardinality(Ready(list, st))
  IN { pool(list, st, IF pool(list, st, index) = cur
                      THEN index_again(index, count) ELSE index) : index \in 1..count }

(* Control goes to the context of n, in a frame that is still there, or is *)
(* lost.                                                                   *)
resume(n, ctx, fr) ==
  IF ctx[n] \in Stack \ freed /\ fr[ctx[n]] = n
  THEN /\ running' = ctx[n]
       /\ frame' = [s \in Stack |-> IF s = ctx[n] THEN NULL ELSE fr[s]]
  ELSE /\ running' = NULL
       /\ frame' = fr

(* Wrong variant: current is not changed.                                  *)
longjmpKeepsCurrent(n, st, ctx, fr) ==
  /\ status' = [st EXCEPT ![n] = "RUNNING"]
  /\ UNCHANGED current
  /\ resume(n, ctx, fr)

(* longjmp to the context of n, given the contexts and frames before it.   *)
longjmp(n, st, ctx, fr) ==
  /\ status' = [st EXCEPT ![n] = "RUNNING"]
  /\ current' = n
  /\ resume(n, ctx, fr)
-----------------------------------------------------------------------------
(* The code of a coroutine runs, and whose it is; or main() runs.          *)
InBody == running \in Co \/ nested[Main] # << >> \/ wait.branch \in {"new", "nested"}
Body   == IF nested[running] # << >> THEN Last(nested[running]).co
          ELSE IF running = Main THEN wait.co ELSE running
InMain == running = Main /\ wait = idle

(* A new coroutine in block c, one that was freed or one never used before *)
(* (these are named in the order of their use).                            *)
co_start(c) ==
  /\ InMain \/ InBody
  /\ started < MaxStarts
  /\ c \in freed \/ \A d \in Co : d < c <=> status[d] # "none"
  /\ started' = started + 1
  /\ freed' = freed \ {c}
  /\ status' = [status EXCEPT ![c] = "NEW"]
  /\ frame' = [frame EXCEPT ![c] = NULL]
  /\ yields' = [yields EXCEPT ![c] = 0]
  /\ finished' = [finished EXCEPT ![c] = 0]
  /\ nested' = [nested EXCEPT ![c] = << >>]
  /\ co_list' = list_append(co_list, c)
  /\ careful' = (careful /\ c \notin {current, wait.old})
  /\ UNCHANGED <<current, wait, context, running>>

(* The contexts after setjmp(current->context).                            *)
setjmp(cur) == [context EXCEPT ![cur] = running]

(* Wrong variant: the one that yields keeps its status.                    *)
yieldedKeepsStatus(cur) == status

yielded(cur) == [status EXCEPT ![cur] = "WAITING"]

(* n starts on its own stack, with callback as return address; it is still *)
(* NEW when it runs.                                                       *)
stack_switch_call(n) == current' = n /\ running' = n

(* co_yield with cur as current.                                           *)
yield_from(cur) ==
  LET st  == yielded(cur)
      ctx == setjmp(cur)
      fr  == [frame EXCEPT ![running] = cur]
  IN /\ \E n \in rand_choose(co_list, st, cur) :
          \/ /\ st[n] = "NEW"
             /\ stack_switch_call(n)
             /\ status' = st
             /\ frame' = fr
          \/ /\ st[n] = "WAITING"
             /\ longjmp(n, st, ctx, fr)
     /\ context' = ctx

co_yield ==
  /\ InBody
  /\ yields[Body] < MaxYields
  /\ yields' = [yields EXCEPT ![Body] = @ + 1]
  /\ yield_from(current)
  /\ UNCHANGED <<started, co_list, freed, wait, nested, finished, careful>>

(* Wrong variant: the status is not set.                                   *)
endedKeepsStatus(cur) == status

ended(cur) == [status EXCEPT ![cur] = "DEAD"]

(* A function returns on its own stack, into callback(): it retries until  *)
(* rand_choose gives a coroutine that waits.                               *)
callback ==
  /\ running \in Co /\ nested[running] = << >>
  /\ finished' = [finished EXCEPT ![Body] = @ + 1]
  /\ co_list' = co_delete(co_list, current)
  /\ LET st == ended(current)
     IN \E n \in rand_choose(co_list', st, current) :
          /\ st[n] = "WAITING"
          /\ longjmp(n, st, context, frame)
  /\ UNCHANGED <<started, freed, wait, nested, context, yields, careful>>
-----------------------------------------------------------------------------
(* Somebody is in co_wait(c) already.                                      *)
Awaited(c) == c = wait.co \/ \E s \in Stack : \E k \in DOMAIN nested[s] : nested[s][k].co = c

(* main() calls co_wait(c), with a c that nobody has waited for.           *)
Called(c) ==
  /\ InMain
  /\ status[c] # "none" /\ c \notin freed /\ ~Awaited(c)

Enters(branch, c) ==
  wait' = [branch |-> branch, co |-> c, old |-> current]

(* Nobody is current and c has not run: its function is called from here.  *)
co_wait_new(c) ==
  /\ Called(c)
  /\ current = NULL /\ status[c] = "NEW"
  /\ status' = [status EXCEPT ![c] = "RUNNING"]
  /\ current' = c
  /\ Enters("new", c)
  /\ UNCHANGED <<started, co_list, freed, nested, context, frame, running, yields,
                 finished, careful>>

(* The function has returned, on main's stack.                             *)
co_wait_new_returns ==
  /\ running = Main /\ nested[Main] = << >> /\ wait.branch = "new"
  /\ finished' = [finished EXCEPT ![Body] = @ + 1]
  /\ status' = [status EXCEPT ![current] = "DEAD", ![wait.co] = "DEAD"]
  /\ current' = NULL
  /\ co_list' = co_delete(co_list, wait.co)
  /\ freed' = freed \cup {wait.co}
  /\ wait' = idle
  /\ UNCHANGED <<started, nested, context, frame, running, yields, careful>>

(* Nobody is current and c is suspended: main() yields in c's name, over   *)
(* c's context ...                                                         *)
co_wait_suspended(c) ==
  /\ Called(c)
  /\ current = NULL /\ status[c] = "WAITING"
  /\ Enters("suspended", c)
  /\ yield_from(c)
  /\ UNCHANGED <<started, co_list, freed, nested, yields, finished, careful>>

(* ... and when somebody jumps there, gives c up.                          *)
co_wait_suspended_returns ==
  /\ running = Main /\ wait.branch = "suspended"
  /\ co_list' = co_delete(co_list, wait.co)
  /\ current' = NULL
  /\ freed' = freed \cup {wait.co}
  /\ wait' = idle
  /\ UNCHANGED <<started, status, nested, context, frame, running, yields, finished,
                 careful>>

(* Wrong variant: it does not look at the status.                          *)
co_wait_nestedAnyStatus(c) ==
  /\ Called(c)
  /\ current # NULL
  /\ status' = [status EXCEPT ![current] = "WAITING", ![c] = "RUNNING"]
  /\ current' = c
  /\ Enters("nested", c)
  /\ UNCHANGED <<started, co_list, freed, nested, context, frame, running, yields,
                 finished, careful>>

(* Somebody is current (left there by co_wait_dead): c's function is       *)
(* called from its beginning, whatever c has done before.                  *)
co_wait_nested(c) ==
  /\ Called(c)
  /\ current # NULL /\ status[c] # "DEAD"
  /\ status' = [status EXCEPT ![current] = "WAITING", ![c] = "RUNNING"]
  /\ current' = c
  /\ Enters("nested", c)
  /\ UNCHANGED <<started, co_list, freed, nested, context, frame, running, yields,
                 finished, careful>>

co_wait_nested_returns ==
  /\ running = Main /\ nested[Main] = << >> /\ wait.branch = "nested"
  /\ finished' = [finished EXCEPT ![Body] = @ + 1]
  /\ status' = [status EXCEPT ![current] = "DEAD", ![wait.old] = "RUNNING",
                              ![wait.co] = "DEAD"]
  /\ current' = wait.old
  /\ co_list' = co_delete(co_list, wait.co)
  /\ freed' = freed \cup {wait.co}
  /\ wait' = idle
  /\ UNCHANGED <<started, nested, context, frame, running, yields, careful>>

(* c has ended in callback(): current is left pointing at the freed node.  *)
co_wait_dead(c) ==
  /\ Called(c)
  /\ status[c] = "DEAD"
  /\ current' = c
  /\ freed' = freed \cup {c}
  /\ UNCHANGED <<started, status, co_list, wait, nested, context, frame, running, yields,
                 finished, careful>>

(* A coroutine calls co_wait(c): somebody is always current, so it is one  *)
(* of the last two branches.                                               *)
CalledInBody(c) ==
  /\ InBody
  /\ status[c] # "none" /\ c \notin freed \cup {Body} /\ ~Awaited(c)
  /\ careful' = FALSE

body_wait_nested(c) ==
  /\ CalledInBody(c)
  /\ status[c] # "DEAD"
  /\ status' = [status EXCEPT ![current] = "WAITING", ![c] = "RUNNING"]
  /\ current' = c
  /\ nested' = [nested EXCEPT ![running] = Append(@, [co |-> c, old |-> current])]
  /\ UNCHANGED <<started, co_list, freed, wait, context, frame, running, yields, finished>>

body_wait_nested_returns ==
  /\ running \in Stack /\ nested[running] # << >>
  /\ LET call == Last(nested[running])
     IN /\ finished' = [finished EXCEPT ![call.co] = @ + 1]
        /\ status' = [status EXCEPT ![current] = "DEAD", ![call.old] = "RUNNING",
                                    ![call.co] = "DEAD"]
        /\ current' = call.old
        /\ co_list' = co_delete(co_list, call.co)
        /\ freed' = freed \cup {call.co}
  /\ nested' = [nested EXCEPT ![running] = Front(@)]
  /\ UNCHANGED <<started, wait, context, frame, running, yields, careful>>

body_wait_dead(c) ==
  /\ CalledInBody(c)
  /\ status[c] = "DEAD"
  /\ current' = c
  /\ freed' = freed \cup {c}
  /\ UNCHANGED <<started, status, co_list, wait, nested, context, frame, running, yields,
                 finished>>

Listed == { co_list[k] : k \in 1..Len(co_list) }

(* Nothing undefined has happened: control is somewhere, and neither the   *)
(* stack in use nor the list is in freed memory.                           *)
Defined == running \in Stack \ freed /\ Listed \cap freed = {}

(* (main() waiting for a coroutine that is RUNNING, with nobody current,   *)
(* returns at once and changes nothing.)                                   *)
LibcoNext ==
  /\ Defined
  /\ \/ \E c \in Co : \/ co_start(c)
                      \/ co_wait_new(c) \/ co_wait_suspended(c)
                      \/ co_wait_nested(c) \/ co_wait_dead(c)
                      \/ body_wait_nested(c) \/ body_wait_dead(c)
     \/ co_wait_new_returns \/ co_wait_suspended_returns \/ co_wait_nested_returns
     \/ body_wait_nested_returns
     \/ co_yield \/ callback

LibcoSpec == LibcoInit /\ [][LibcoNext]_lvars

(* One thread: it goes on as long as it can.                               *)
LibcoFairSpec == LibcoSpec /\ WF_lvars(LibcoNext)
-----------------------------------------------------------------------------
(* Whoever can be chosen for a longjmp has its context in a frame that is  *)
(* still on its stack, in memory that is not freed; and the code that runs *)
(* is that of the coroutine in current.                                    *)
JumpsLand ==
  /\ running \in Stack \ freed
  /\ frame[running] = NULL
  /\ InBody => current = Body
  /\ \A c \in Listed : status[c] = "WAITING" =>
       /\ context[c] \in Stack \ freed
       /\ frame[context[c]] = c

(* As long as the calls are careful, no jump goes wrong: a coroutine that  *)
(* is waited for while suspended, or run again from its beginning, never   *)
(* leaves a stale jmp_buf behind that rand_choose could pick, and current  *)
(* is what co_yield, callback and co_wait take it for, although            *)
(* co_wait_dead leaves it dangling.                                        *)
JumpsLandInLiveFrames == careful => JumpsLand

(* The list holds those that were started and neither ended nor were given *)
(* up, each once.                                                          *)
ListAlive ==
  /\ Listed = { c \in Co : status[c] \notin {"none", "DEAD"} /\ c \notin freed }
  /\ \A j, k \in 1..Len(co_list) : co_list[j] = co_list[k] => j = k

(* As long as the calls are careful, the list is that of the living, also  *)
(* when a block is given out a second time: rand_choose never walks over   *)
(* freed memory, nor in a circle.                                          *)
ListIsAlive == careful => ListAlive

(* callback() always finds a coroutine to jump to, and co_yield one to     *)
(* choose: on a stack of its own, main's stack is always suspended in the  *)
(* name of a coroutine that waits in the list.                             *)
MainCanBeResumed ==
  careful /\ running # Main =>
    \E c \in Listed \ {current} : status[c] = "WAITING" /\ context[c] = Main

(* co_yield gives way: whoever yields goes on at once only if no other     *)
(* coroutine in the list can run.                                          *)
GivesWay ==
  [][ careful /\ co_yield /\ current' = current =>
        \A c \in Listed \ {current} : status[c] \notin {"NEW", "WAITING"} ]_lvars

(* A function returns at most once, although co_wait may call it a second  *)
(* time.  A coroutine is freed after its function has returned, with one   *)
(* exception: it was suspended on its own stack, in a co_yield that will   *)
(* never return, when main() waited for it.                                *)
ReturnsOnceOrSuspended ==
  careful => \A c \in Co :
    /\ finished[c] <= 1
    /\ c \in freed /\ finished[c] = 0 => frame[c] = c

(* Every co_wait returns: main() ends if the coroutines do.                *)
WaitsEnd == <>[](careful => { c \in Co : status[c] # "none" } \subseteq freed)

(* What the assertion of stack_head_chk says: the stack pointer of a       *)
(* coroutine is above the end of its stack.  new_co in co_yield is a whole *)
(* struct co.                                                              *)
sizeof_co == Fields + STACK_SIZE
stack_head(c) == STACK_SIZE - 32 - (IF frame[c] # NULL THEN sizeof_co ELSE 0)
StackHeadAboveEnd == \A c \in Co : stack_head(c) > 0
=============================================================================
