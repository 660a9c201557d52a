------------------------------- MODULE Sperf -------------------------------
(***************************************************************************)
(* mycode/sperf.c: the child runs strace with its output in a pipe, the    *)
(* parent reads the pipe, adds up the time of every system call, keeps the *)
(* list of functions sorted and displays its beginning.                    *)
(*                                                                         *)
(* What one fgets returns is a chunk: the function name it starts with, if *)
(* it starts with a lower-case letter, and what sscanf reads after its     *)
(* last '<', if it has one: a time, or no number ("<unfinished ...>", a    *)
(* '<' in a string).  A call longer than the buffer arrives in several     *)
(* chunks; the later ones may start with any character, and one that       *)
(* starts with a lower-case letter may have no '(': a fragment.  A chunk   *)
(* without a name may have a time (a call of another process under -f).    *)
(* Times are counted in microseconds and percentages rounded down, without *)
(* the rounding errors of double.  strace is an external program.          *)
(***************************************************************************)
EXTENDS Integers, SequencesExt

CONSTANTS
  Func,             \* what stands before the '(': names, "exit_group" excepted,
  Fragments,        \* ... and what is taken for a name where s has no '('
  MaxTime,          \* bound on the time of one call
  Paths,            \* number of directories in PATH
  MaxChunks,        \* bound on what strace writes
  PipeSize,         \* capacity of the pipe: strace blocks when it is full
  Max_Output_Num    \* how many functions show() displays

ASSUME SperfAssumption ==
  /\ {MaxTime, Paths, MaxChunks, PipeSize, Max_Output_Num} \subseteq Nat
  /\ Fragments \subseteq Func

VARIABLES
  child,       \* where the child is
  path,        \* directories of PATH it has still to try
  writers,     \* processes that have the write end of the pipe open
  pipe,        \* chunks written and not yet read
  written,     \* how many chunks strace has written
  parent,      \* where the parent is
  left,        \* what follows the last '<' that skipped chunks left in s
  func,        \* the function whose time the parent looks for
  head,        \* the list: records of a function and its time
  total_time,  \* the sum of all times
  shown,       \* what show() displayed since the last time was recorded
  spent,       \* history: function -> time read for it, or NoTime
  reported,    \* history: the sum of the times in all chunks read
  invented     \* history: the sum of the values sscanf did not read

svars == <<child, path, writers, pipe, written, parent,
           left, func, head, total_time, shown, spent, reported, invented>>
pvars == <<left, func, head, total_time, shown, spent, reported, invented>>

NoName   == "no name"
NoTime   == -1          \* there is no '<'
NoNumber == -2          \* there is a '<' and no number behind it
NaN      == -1          \* 0.0 / 0.0, which converts to no defined percentage
Time     == 0..MaxTime

Chunk == [func : Func \cup {"exit_group", NoName}, time : Time \cup {NoTime, NoNumber}]

SperfInit ==
  /\ child = "fork"
  /\ path = Paths
  /\ writers = {}
  /\ pipe = <<>>
  /\ written = 0
  /\ parent = "pipe"
  /\ left = NoTime
  /\ func = NoName
  /\ head = <<>>
  /\ total_time = 0
  /\ shown = <<>>
  /\ spent = [f \in Func |-> NoTime]
  /\ reported = 0
  /\ invented = 0
-----------------------------------------------------------------------------
(* pipe(fildes) opens both ends, or the program prints a message and exits. *)
pipe_failed ==
  /\ parent = "pipe"
  /\ parent' = "exit 1"
  /\ UNCHANGED <<child, path, writers, pipe, written, pvars>>

pipe_opens ==
  /\ parent = "pipe"
  /\ parent' = "fork"
  /\ writers' = {"parent"}
  /\ UNCHANGED <<child, path, pipe, written, pvars>>

(* fork() fails: the parent prints a message and exits.                    *)
fork_failed ==
  /\ parent = "fork"
  /\ parent' = "exit 1"
  /\ writers' = {}
  /\ UNCHANGED <<child, path, pipe, written, pvars>>

fork ==
  /\ parent = "fork"
  /\ parent' = "close"
  /\ child' = "execve"
  /\ writers' = {"parent", "child"}
  /\ UNCHANGED <<path, pipe, written, pvars>>

(* The child tries execve in one directory after the other ...             *)
execve(found) ==
  /\ child = "execve"
  /\ path > 0
  /\ child' = IF found THEN "strace" ELSE "execve"
  /\ path' = path - 1
  /\ UNCHANGED <<writers, pipe, written, parent, pvars>>

(* ... and returns from main() if strace is in none of them.               *)
child_returns ==
  /\ child = "execve"
  /\ path = 0
  /\ child' = "gone"
  /\ writers' = writers \ {"child"}
  /\ UNCHANGED <<path, pipe, written, parent, pvars>>

(* External: strace writes what it likes and ends.                         *)
strace_writes ==
  /\ child = "strace"
  /\ written < MaxChunks
  /\ Len(pipe) < PipeSize
  /\ \E c \in Chunk : pipe' = Append(pipe, c)
  /\ written' = written + 1
  /\ UNCHANGED <<child, path, writers, parent, pvars>>

strace_ends ==
  /\ child = "strace"
  /\ child' = "gone"
  /\ writers' = writers \ {"child"}
  /\ UNCHANGED <<path, pipe, written, parent, pvars>>
-----------------------------------------------------------------------------
(* Wrong variant: the parent keeps its write end.                          *)
close_writeMissing ==
  /\ parent = "close"
  /\ parent' = "fgets"
  /\ UNCHANGED <<child, path, writers, pipe, written, pvars>>

(* The parent closes its write end, or it would never read the end.        *)
close_write ==
  /\ parent = "close"
  /\ parent' = "fgets"
  /\ writers' = writers \ {"parent"}
  /\ UNCHANGED <<child, path, pipe, written, pvars>>

(* Wrong variant: the last element is never compared.                      *)
appendSkipsTail(list, p) ==
  LET k == SelectInSeq(SubSeq(list, 1, Len(list) - 1), LAMBDA q : q.func = p.func)
  IN IF k = 0 THEN Append(list, p) ELSE [list EXCEPT ![k].time = @ + p.time]

(* Add p to the element of its function, or at the end.                    *)
append(list, p) ==
  LET k == SelectInSeq(list, LAMBDA q : q.func = p.func)
  IN IF k = 0 THEN Append(list, p) ELSE [list EXCEPT ![k].time = @ + p.time]

(* if (q->time > p->time): exchange the contents of two nodes.             *)
exchange(s, p, q) ==
  IF s[q].time > s[p].time THEN [s EXCEPT ![p] = s[q], ![q] = s[p]] ELSE s

(* The loop over q, the nodes behind p.                                    *)
round(list, p) ==
  LET after[q \in p..Len(list)] ==
        IF q = p THEN list ELSE exchange(after[q - 1], p, q)
  IN after[Len(list)]

(* Wrong variant: the outer loop is missing.                               *)
sortOneRound(list) == round(list, 1)

(* The loop over p.  The nodes stay where they are, and there is one.      *)
sort(list) ==
  LET after[p \in 0..(Len(list) - 1)] ==
        IF p = 0 THEN list ELSE round(after[p - 1], p)
  IN after[Len(list) - 1]

(* The first Max_Output_Num functions, with their share of the total.      *)
show(list, total) ==
  [ k \in 1..(IF Len(list) < Max_Output_Num THEN Len(list) ELSE Max_Output_Num) |->
      [ func    |-> list[k].func,
        percent |-> IF total = 0 THEN NaN ELSE (list[k].time * 100) \div total ] ]

(* fgets stores the next chunk at the beginning of s: what was there       *)
(* before survives behind the end of a shorter chunk.                      *)
fgets(c) ==
  /\ pipe # <<>>
  /\ c = Head(pipe)
  /\ pipe' = Tail(pipe)
  /\ reported' = IF c.time \in Time THEN reported + c.time ELSE reported

(* What follows the last '<' of all 300 bytes of s.                        *)
last(c) == {c.time} \cup (IF left = NoTime THEN {} ELSE {left})

(* Wrong variant: s is not cleared.                                        *)
clearMissing(x) == left' = x

(* clear(s, 300), after x has been read from s.                            *)
clear(x) == left' = NoTime

(* sscanf(time_str, "%lf", &time), its result ignored: where there is no   *)
(* number, time keeps what the stack holds, usually the time of the round  *)
(* before: any time.                                                       *)
sscanf(x) == IF x = NoNumber THEN Time ELSE {x}

(* A '<' was found for f and x behind it: the rest of the loop body.       *)
(* Whether it displays the list depends on the clock.                      *)
record(f, x) ==
  \E t \in sscanf(x) :
    /\ total_time' = total_time + t
    /\ invented' = IF x = NoNumber THEN invented + t ELSE invented
    /\ clear(x)
    /\ head' = sort(append(head, [func |-> f, time |-> t]))
    /\ spent' = [spent EXCEPT ![f] = IF @ = NoTime THEN t ELSE @ + t]
    /\ shown' \in {<<>>, show(head', total_time')}
    /\ func' = NoName
    /\ parent' = "fgets"

(* while (fgets(...)): a chunk of no interest is skipped, s not cleared.   *)
fgets_skip ==
  /\ parent = "fgets"
  /\ \E c \in Chunk :
       /\ fgets(c)
       /\ c.func \in {NoName, "exit_group"}
       /\ left' \in last(c)
  /\ UNCHANGED <<child, path, writers, written, parent, func, head, total_time, shown, spent,
                 invented>>

(* The call of a function (or a fragment, where a '(' is found further on, *)
(* in s or behind it), with a '<' in s or without.                         *)
fgets_call ==
  /\ parent = "fgets"
  /\ \E c \in Chunk : \E x \in last(c) :
       /\ fgets(c)
       /\ c.func \in Func
       /\ \/ /\ x # NoTime
             /\ record(c.func, x)
          \/ /\ x = NoTime
             /\ left' = NoTime
             /\ func' = c.func
             /\ parent' = "find time"
             /\ UNCHANGED <<head, total_time, shown, spent, invented>>
  /\ UNCHANGED <<child, path, writers, written>>

(* while (index == 0): clear s and read on until there is a '<', whatever  *)
(* the chunk starts with.                                                  *)
find_time ==
  /\ parent = "find time"
  /\ \E c \in Chunk :
       /\ fgets(c)
       /\ IF c.time # NoTime
          THEN record(func, c.time)
          ELSE UNCHANGED <<parent, left, func, head, total_time, shown, spent, invented>>
  /\ UNCHANGED <<child, path, writers, written>>

(* Undefined behaviour of which the model says no more: the search for '(' *)
(* in a fragment ends in memory that cannot be read ...                    *)
fgets_overrun ==
  /\ parent = "fgets"
  /\ \E c \in Chunk : c.func \in Fragments /\ fgets(c)
  /\ parent' = "undefined"
  /\ UNCHANGED <<child, path, writers, written, left, func, head, total_time, shown, spent,
                 invented>>

(* ... or time, left unread by sscanf, is no time at all, such as NaN.     *)
sscanf_failed ==
  /\ \E c \in Chunk :
       /\ fgets(c)
       /\ \/ parent = "fgets" /\ c.func \in Func /\ NoNumber \in last(c)
          \/ parent = "find time" /\ c.time = NoNumber
  /\ parent' = "undefined"
  /\ UNCHANGED <<child, path, writers, written, left, func, head, total_time, shown, spent,
                 invented>>

EOF == pipe = <<>> /\ writers = {}

(* The last sort(), whose assertion fails on an empty list, the last       *)
(* show(), Free() and the end.  (At the end of the file in "find time" the *)
(* loop goes round for ever: fgets fails and s stays empty.)               *)
fgets_eof ==
  /\ parent = "fgets"
  /\ EOF
  /\ IF head = <<>>
     THEN parent' = "aborted" /\ UNCHANGED <<head, shown>>
     ELSE /\ shown' = show(sort(head), total_time)
          /\ head' = <<>>
          /\ parent' = "exit 0"
  /\ UNCHANGED <<child, path, writers, pipe, written, left, func, total_time, spent, reported,
                 invented>>

Child == (\E found \in BOOLEAN : execve(found)) \/ child_returns \/ strace_writes \/ strace_ends

Parent ==
  \/ close_write
  \/ fgets_skip \/ fgets_call \/ find_time
  \/ fgets_overrun \/ sscanf_failed
  \/ fgets_eof

Start == pipe_failed \/ pipe_opens \/ fork_failed \/ fork

SperfNext == Start \/ Child \/ Parent

SperfSpec == SperfInit /\ [][SperfNext]_svars

(* Both processes are scheduled again and again, and strace ends.          *)
SperfFairSpec ==
  /\ SperfSpec
  /\ WF_svars(Start)
  /\ WF_svars(Child)
  /\ WF_svars(Parent)
-----------------------------------------------------------------------------
(* t[1] + ... + t[n].                                                      *)
SumTo(t, n) ==
  LET sum[k \in 0..n] == IF k = 0 THEN 0 ELSE sum[k - 1] + t[k] IN sum[n]

Times(list) == [k \in DOMAIN list |-> list[k].time]

(* Whatever has been read, and however sort() has moved the contents of    *)
(* the nodes between two calls of append(), the list has one element for   *)
(* each function that was called, with all the time spent in it; the       *)
(* elements add up to total_time and stand in descending order.            *)
ListIsSummary ==
  parent \in {"fgets", "find time"} =>
    /\ \A f \in Func : spent[f] # NoTime =>
         Cardinality({ k \in DOMAIN head : head[k] = [func |-> f, time |-> spent[f]] }) = 1
    /\ Len(head) = Cardinality({ f \in Func : spent[f] # NoTime })
    /\ total_time = SumTo(Times(head), Len(head))
    /\ \A k \in 2..Len(head) : head[k].time <= head[k - 1].time

(* No time that strace reported is counted twice, although s keeps what    *)
(* skipped chunks left in it and the search for a '<' runs over all of s:  *)
(* a time that a longer, skipped line left behind may be taken in place of *)
(* the call's own, but never a second time.  What total_time has beyond    *)
(* the times reported was never read: sscanf found no number, and the      *)
(* program added what was on the stack.                                    *)
CountedOnce == total_time <= reported + invented

(* A display, during the run or at its end, shows the functions with most  *)
(* time, as many as there are up to Max_Output_Num, each with its share of *)
(* the total, and the shares do not exceed 100 in sum.                     *)
ShowCorrect ==
  shown # <<>> /\ total_time > 0 =>
    LET called == { f \in Func : spent[f] # NoTime }
        listed == { shown[k].func : k \in DOMAIN shown }
    IN /\ Cardinality(listed) = Len(shown)
       /\ Len(shown) = Max_Output_Num \/ listed = called
       /\ \A f \in called \ listed, g \in listed : spent[f] <= spent[g]
       /\ \A k \in DOMAIN shown : shown[k].percent = (spent[shown[k].func] * 100) \div total_time
       /\ SumTo([k \in DOMAIN shown |-> shown[k].percent], Len(shown)) <= 100

(* The parent comes to an end, whether pipe, fork or every execve fails or *)
(* strace has written nothing of interest; only when the output ends       *)
(* within a call does it go on for ever.                                   *)
Ends ==
  <>( \/ parent \in {"exit 0", "exit 1", "aborted", "undefined"}
      \/ parent = "find time" /\ EOF )
=============================================================================
