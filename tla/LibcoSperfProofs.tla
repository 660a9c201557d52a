-------------------------- MODULE LibcoSperfProofs --------------------------
(***************************************************************************)
(* Proofs about two programs that share lemmas on lists and on induction:  *)
(* the coroutines of co-first.c, and sperf.c further down, whose append    *)
(* and sort are proved correct for lists of any length.                    *)
(***************************************************************************)
EXTENDS Libco, Sperf, FiniteSetTheorems, SequenceTheorems, TLAPS

(* No node is twice in a list.                                             *)
Distinct(list) == \A j, k \in 1..Len(list) : list[j] = list[k] => j = k

Elements(list) == { list[k] : k \in 1..Len(list) }

Status == {"none", "NEW", "RUNNING", "WAITING", "DEAD"}

TypesInv ==
  /\ co_list \in Seq(Co)
  /\ status \in [Co -> Status]
  /\ freed \in SUBSET Co
  /\ current \in Co \cup {NULL}
  /\ wait \in [branch : {"none", "new", "suspended", "nested"},
              co : Co \cup {NULL}, old : Co \cup {NULL}]
  /\ wait.branch = "none" => wait = idle
  /\ context \in [Co -> Stack \cup {NULL}]
  /\ frame \in [Stack -> Co \cup {NULL}]
  /\ nested = [s \in Stack |-> << >>]
  /\ running \in Stack
  /\ finished \in [Co -> 0..1]

(* current is freed memory when co_wait has left it dangling, and no new   *)
(* coroutine has got that memory: what co_wait writes through current or   *)
(* old_current then concerns nobody in the list.                           *)
DanglingInv ==
  /\ \A c \in freed : status[c] # "none"
  /\ wait.branch = "none" => running = Main /\ (current = NULL \/ current \in freed)
  /\ wait.branch \in {"new", "suspended"} => wait.old = NULL
  /\ wait.branch = "nested" => wait.old \in freed

(* The coroutine that runs is current; if it is on its own stack, co_wait  *)
(* is suspended on main's, in the name of the one that is waited for.      *)
RunInv ==
  /\ wait.branch # "none" => wait.co \in Listed
  /\ running # Main =>
       /\ running \in Listed /\ current = running
       /\ status[running] \in {"NEW", "RUNNING"}
       /\ wait.branch # "none" /\ wait.co # running
       /\ status[wait.co] = "WAITING" /\ context[wait.co] = Main /\ frame[Main] = wait.co
  /\ running = Main /\ wait.branch # "none" =>
       current = wait.co /\ status[current] = "RUNNING"
  /\ frame[running] = NULL

(* The others in the list have not begun, or wait in a co_yield that is on *)
(* top of their own stack.                                                 *)
ParkedInv ==
  \A c \in Listed : c # running /\ (wait.branch # "none" => c # wait.co) =>
    \/ status[c] = "NEW" /\ frame[c] = NULL
    \/ status[c] = "WAITING" /\ context[c] = c /\ frame[c] = c

(* Nobody in the list has returned; who is no longer there has, unless it  *)
(* was given up while suspended on its own stack.                          *)
FinishedInv ==
  /\ \A c \in Listed : finished[c] = 0
  /\ \A c \in Co \ Listed : status[c] # "none" => finished[c] = 1 \/ frame[c] = c
  /\ wait.branch = "suspended" => frame[wait.co] = wait.co

LibcoInv == TypesInv /\ ListAlive /\ DanglingInv /\ RunInv /\ ParkedInv /\ FinishedInv

LibcoCarefulInv == careful => LibcoInv

(* Which one of the elements of R the element k is, in their order.        *)
Place(R, k) == Cardinality({ j \in R : j <= k })
-----------------------------------------------------------------------------
(* A set of natural numbers that is not empty has a least element.         *)
LEMMA LeastNatural ==
  ASSUME NEW S, S \subseteq Nat, S # {}
  PROVE  \E m \in S : \A n \in S : m <= n
<1>1. PICK m \in S : \A n \in S : ~(<<n, m>> \in OpToRel(<, Nat))
  BY NatLessThanWellFounded, WFMin
<1>2. ASSUME NEW n \in S PROVE m <= n
  <2>1. m \in Nat /\ n \in Nat
    OBVIOUS
  <2>2. <<n, m>> \in Nat \X Nat /\ <<n, m>>[1] = n /\ <<n, m>>[2] = m
    BY <2>1
  <2>3. ~(n < m)
    BY <1>1, <2>2 DEF OpToRel
  <2> QED BY <2>1, <2>3
<1> QED BY <1>2

(* list_append.                                                            *)
LEMMA Appended ==
  ASSUME NEW list \in Seq(Co), NEW c \in Co, Distinct(list), c \notin Elements(list)
  PROVE  /\ list_append(list, c) \in Seq(Co)
         /\ Elements(list_append(list, c)) = Elements(list) \cup {c}
         /\ Distinct(list_append(list, c))
<1> DEFINE new == Append(list, c)
<1>1. /\ new \in Seq(Co) /\ Len(list) \in Nat /\ Len(new) = Len(list) + 1
      /\ \A k \in 1..Len(list) : new[k] = list[k]
      /\ new[Len(list) + 1] = c
  BY AppendProperties
<1>2. 1..Len(new) = (1..Len(list)) \cup {Len(list) + 1}
  BY <1>1
<1> HIDE DEF new
<1>3. Elements(new) = Elements(list) \cup {c}
  BY <1>1, <1>2 DEF Elements
<1>4. Distinct(new)
  BY <1>1, <1>2 DEF Distinct, Elements
<1> QED BY <1>1, <1>3, <1>4 DEF new, list_append

(* co_delete, of a node that is in the list once or not at all.            *)
LEMMA Deleted ==
  ASSUME NEW list \in Seq(Co), NEW c, Distinct(list)
  PROVE  /\ co_delete(list, c) \in Seq(Co)
         /\ Elements(co_delete(list, c)) = Elements(list) \ {c}
         /\ Distinct(co_delete(list, c))
<1>1. CASE c \notin Elements(list)
  <2>1. co_delete(list, c) = list
    BY <1>1 DEF co_delete, RemoveFirst, Elements
  <2> QED BY <1>1, <2>1
<1>2. CASE c \in Elements(list)
  <2> DEFINE I == { i \in 1..Len(list) : list[i] = c }
  <2>1. PICK k \in 1..Len(list) : list[k] = c
    BY <1>2 DEF Elements
  <2>2. I = {k}
    BY <2>1 DEF Distinct
  <2>3. Min(I) = k
    BY <2>2 DEF Min
  <2>4. co_delete(list, c) = SubSeq(list, 1, k - 1) \o SubSeq(list, k + 1, Len(list))
    BY <2>1, <2>2, <2>3 DEF co_delete, RemoveFirst, RemoveAt, SelectInSeq
  <2> DEFINE before == SubSeq(list, 1, k - 1)
             after == SubSeq(list, k + 1, Len(list))
             new == before \o after
  <2>5. Len(list) \in Nat /\ \A j \in 1..Len(list) : list[j] \in Co
    BY LenProperties, ElementOfSeq
  <2>6. /\ before \in Seq(Co) /\ Len(before) = k - 1
        /\ \A j \in 1..(k - 1) : before[j] = list[j]
    BY <2>5, SubSeqProperties
  <2>7. /\ after \in Seq(Co) /\ Len(after) = Len(list) - k
        /\ \A j \in 1..(Len(list) - k) : after[j] = list[k + j]
    BY <2>5, SubSeqProperties
  <2>a. co_delete(list, c) = new
    BY <2>4
  <2> HIDE DEF before, after
  <2>8. /\ new \in Seq(Co) /\ Len(new) = Len(list) - 1
        /\ \A j \in 1..(Len(list) - 1) : new[j] = IF j < k THEN list[j] ELSE list[j + 1]
    <3>1. /\ new \in Seq(Co) /\ Len(new) = Len(before) + Len(after)
          /\ \A j \in 1..(Len(before) + Len(after)) :
               new[j] = IF j <= Len(before) THEN before[j] ELSE after[j - Len(before)]
      BY <2>6, <2>7, ConcatProperties
    <3> HIDE DEF new
    <3>2. ASSUME NEW j \in 1..(Len(list) - 1), j >= k PROVE new[j] = list[j + 1]
      <4>1. j - (k - 1) \in 1..(Len(list) - k) /\ k + (j - (k - 1)) = j + 1
        BY <2>1, <2>5, <3>2
      <4>2. j \in 1..(Len(before) + Len(after)) /\ ~(j <= Len(before)) /\ Len(before) = k - 1
        BY <2>1, <2>5, <2>6, <2>7, <3>2
      <4>3. new[j] = after[j - (k - 1)]
        BY <3>1, <4>2
      <4> QED BY <2>7, <4>1, <4>3
    <3>3. ASSUME NEW j \in 1..(Len(list) - 1), j < k PROVE new[j] = list[j]
      <4>1. j <= Len(before) /\ j \in 1..(Len(before) + Len(after)) /\ j \in 1..(k - 1)
        BY <2>1, <2>5, <2>6, <2>7, <3>3
      <4> QED BY <2>6, <3>1, <4>1
    <3> QED BY <2>1, <2>5, <2>6, <2>7, <3>1, <3>2, <3>3
  <2> HIDE DEF new
  <2>9. Elements(new) = Elements(list) \ {c}
    <3>1. ASSUME NEW j \in 1..Len(new) PROVE new[j] \in Elements(list) \ {c}
      BY <2>1, <2>5, <2>8, <3>1 DEF Elements, Distinct
    <3>2. ASSUME NEW j \in 1..Len(list), list[j] # c PROVE list[j] \in Elements(new)
      <4>1. CASE j < k
        BY <2>1, <2>5, <2>8, <4>1 DEF Elements
      <4>2. CASE j > k
        <5>1. j - 1 \in 1..Len(new) /\ new[j - 1] = list[j]
          BY <2>1, <2>5, <2>8, <4>2
        <5> QED BY <5>1 DEF Elements
      <4> QED BY <2>1, <2>5, <3>2, <4>1, <4>2
    <3> QED BY <3>1, <3>2 DEF Elements
  <2>10. ASSUME NEW i \in 1..Len(new), NEW j \in 1..Len(new), new[i] = new[j] PROVE i = j
    <3>1. PICK a \in 1..Len(list) : new[i] = list[a] /\ a = IF i < k THEN i ELSE i + 1
      BY <2>1, <2>5, <2>8
    <3>2. PICK b \in 1..Len(list) : new[j] = list[b] /\ b = IF j < k THEN j ELSE j + 1
      BY <2>1, <2>5, <2>8
    <3>3. a = b
      BY <2>10, <3>1, <3>2 DEF Distinct
    <3> QED BY <2>1, <2>5, <2>8, <3>1, <3>2, <3>3
  <2> QED BY <2>a, <2>8, <2>9, <2>10 DEF Distinct
<1> QED BY <1>1, <1>2

(* Each element of a finite set of numbers has its place in their order,   *)
(* and there is an element for each place.                                 *)
LEMMA Ranked ==
  ASSUME NEW n \in Nat, NEW R, R \subseteq 1..n, NEW index \in 1..Cardinality(R)
  PROVE  \E k \in R : Place(R, k) = index
<1> DEFINE Upto(k) == { j \in R : j <= k }
           S == { k \in 1..n : Cardinality(Upto(k)) >= index }
<1>1. IsFiniteSet(R) /\ Cardinality(R) \in Nat
  <2>1. IsFiniteSet(1..n)
    BY FS_Interval
  <2> QED BY <2>1, FS_Subset, FS_CardinalityType
<1>2. \A k \in Int : Upto(k) \subseteq R /\ IsFiniteSet(Upto(k)) /\ Cardinality(Upto(k)) \in Nat
  <2> TAKE k \in Int
  <2>1. Upto(k) \in SUBSET R
    OBVIOUS
  <2> QED BY <1>1, <2>1, FS_Subset, FS_CardinalityType
<1>3. Upto(0) = {} /\ Upto(n) = R
  <2>1. \A j \in R : j \in Nat /\ ~(j <= 0) /\ j <= n
    OBVIOUS
  <2> QED BY <2>1
<1>4. \A k \in Int : Upto(k) = IF k \in R THEN Upto(k - 1) \cup {k} ELSE Upto(k - 1)
  <2> TAKE k \in Int
  <2>1. \A j \in R : j \in Nat /\ (j <= k <=> j <= k - 1 \/ j = k)
    OBVIOUS
  <2> QED BY <2>1
<1>5. \A k \in Int : k \notin Upto(k - 1)
  OBVIOUS
<1> HIDE DEF Upto
<1>6. n \in S
  <2>1. n # 0
    <3> SUFFICES ASSUME n = 0 PROVE FALSE
      OBVIOUS
    <3>1. R = {}
      BY <1>3
    <3> QED BY <3>1, FS_EmptySet
  <2>2. n \in 1..n /\ Cardinality(R) >= index
    BY <1>1, <2>1
  <2> QED BY <1>3, <2>2
<1>7. PICK k \in S : \A i \in S : k <= i
  <2>1. S \subseteq Nat /\ S # {}
    BY <1>6
  <2> QED BY <2>1, LeastNatural
<1>8. k \in 1..n /\ Cardinality(Upto(k)) >= index
  OBVIOUS
<1>9. Cardinality(Upto(k - 1)) < index
  <2>1. CASE k = 1
    BY <1>3, <2>1, FS_EmptySet
  <2>2. CASE k > 1
    <3>1. k - 1 \in 1..n /\ ~(k <= k - 1)
      BY <1>8, <2>2
    <3>2. k - 1 \notin S
      BY <1>7, <3>1
    <3>3. Cardinality(Upto(k - 1)) \in Nat
      BY <1>2, <3>1
    <3> QED BY <3>1, <3>2, <3>3
  <2> QED BY <1>8, <2>1, <2>2
<1> HIDE DEF S
<1>10. /\ k \in Int /\ IsFiniteSet(Upto(k - 1))
       /\ Cardinality(Upto(k)) \in Nat /\ Cardinality(Upto(k - 1)) \in Nat
  BY <1>2, <1>8
<1>11. k \in R
  BY <1>4, <1>8, <1>9, <1>10
<1>12. Cardinality(Upto(k)) = Cardinality(Upto(k - 1)) + 1
  <2>1. Upto(k) = Upto(k - 1) \cup {k} /\ k \notin Upto(k - 1)
    BY <1>4, <1>5, <1>10, <1>11
  <2> QED BY <1>10, <2>1, FS_AddElement
<1>13. Cardinality(Upto(k)) = index
  BY <1>8, <1>9, <1>10, <1>12
<1> QED BY <1>11, <1>13 DEF Upto, Place

(* The second index is in the pool, and it is another one unless the pool  *)
(* has one element only.                                                   *)
LEMMA IndexAgain ==
  ASSUME NEW count \in Nat, NEW index \in 1..count
  PROVE  /\ index_again(index, count) \in 1..count
         /\ index_again(index, count) = index => count = 1
<1>1. CASE count = 2
  BY <1>1 DEF index_again
<1>2. CASE count # 2
  <2>1. CASE index + 1 < count
    BY <1>2, <2>1 DEF index_again
  <2>2. CASE index + 1 = count
    <3>1. (index + 1) % count = 0
      BY <2>2
    <3> QED BY <1>2, <2>2, <3>1 DEF index_again
  <2>3. CASE index = count
    <3>1. count = 1 => (index + 1) % count = 0
      BY <2>3
    <3>2. count > 1 => (index + 1) % count = 1
      BY <2>3
    <3> QED BY <1>2, <2>3, <3>1, <3>2 DEF index_again
  <2> QED BY <2>1, <2>2, <2>3
<1> QED BY <1>1, <1>2

(* What rand_choose chooses is in the list and can run.  If it chooses the *)
(* coroutine that yields, no other one can.                                *)
LEMMA Chosen ==
  ASSUME NEW list \in Seq(Co), NEW st, NEW cur, NEW n \in rand_choose(list, st, cur)
  PROVE  /\ n \in Elements(list) /\ st[n] \in {"NEW", "WAITING"}
         /\ Distinct(list) /\ n = cur =>
              \A c \in Elements(list) \ {cur} : st[c] \notin {"NEW", "WAITING"}
<1> DEFINE R == Ready(list, st)
           count == Cardinality(R)
<1>1. Len(list) \in Nat /\ R \subseteq 1..Len(list) /\ IsFiniteSet(R) /\ count \in Nat
  <2>1. Len(list) \in Nat /\ R \in SUBSET (1..Len(list))
    BY LenProperties DEF Ready
  <2>2. IsFiniteSet(1..Len(list))
    BY <2>1, FS_Interval
  <2>3. IsFiniteSet(R)
    BY <2>1, <2>2, FS_Subset
  <2> QED BY <2>1, <2>3, FS_CardinalityType
<1>2. ASSUME NEW index \in 1..count
      PROVE  \E k \in R : Place(R, k) = index /\ pool(list, st, index) = list[k]
  <2>1. \E k \in R : Place(R, k) = index
    <3> HIDE DEF R
    <3> QED BY <1>1, Ranked
  <2> DEFINE at == CHOOSE k \in R : Place(R, k) = index
  <2>2. at \in R /\ Place(R, at) = index
    BY <2>1
  <2>3. pool(list, st, index) = list[at]
    BY DEF pool, Place
  <2> QED BY <2>2, <2>3
<1>3. PICK index \in 1..count :
        n = pool(list, st, IF pool(list, st, index) = cur THEN index_again(index, count) ELSE index)
  BY DEF rand_choose
<1>4. index_again(index, count) \in 1..count /\ (index_again(index, count) = index => count = 1)
  BY <1>1, IndexAgain
<1>5. PICK k \in R : n = list[k]
  BY <1>2, <1>3, <1>4
<1>6. n \in Elements(list) /\ st[n] \in {"NEW", "WAITING"}
  BY <1>1, <1>5 DEF Ready, Elements
<1>7. ASSUME Distinct(list), n = cur, NEW c \in Elements(list), c # cur
      PROVE  st[c] \notin {"NEW", "WAITING"}
  <2>1. pool(list, st, index) = cur /\ pool(list, st, index_again(index, count)) = cur
    BY <1>3, <1>7
  <2>2. PICK i \in R, j \in R : /\ Place(R, i) = index /\ list[i] = cur
                                /\ Place(R, j) = index_again(index, count) /\ list[j] = cur
    BY <1>2, <1>4, <2>1
  <2>3. i = j
    BY <1>1, <1>7, <2>2 DEF Distinct
  <2>4. count = 1
    BY <1>4, <2>2, <2>3
  <2>5. R = {i}
    BY <1>1, <2>2, <2>4, FS_Singleton
  <2>6. PICK h \in 1..Len(list) : list[h] = c
    BY DEF Elements
  <2>7. h \notin R
    BY <1>7, <2>2, <2>5, <2>6
  <2> QED BY <2>6, <2>7 DEF Ready
<1> QED BY <1>6, <1>7
-----------------------------------------------------------------------------
(* main's stack and NULL are no coroutines.                                *)
LEMMA Stacks ==
  Main \notin Co /\ NULL \notin Stack /\ Co \subseteq Stack /\ Main \in Stack
BY LibcoAssumption DEF Main, Co, NULL, Stack

(* The list in other words.                                                *)
LEMMA ListedIs ==
  /\ Listed = Elements(co_list)
  /\ ListAlive <=>
       /\ Listed = { c \in Co : status[c] \notin {"none", "DEAD"} /\ c \notin freed }
       /\ Distinct(co_list)
BY DEF Listed, Elements, ListAlive, Distinct

(* The invariant holds when the program starts.                            *)
LEMMA LibcoInitInv == LibcoInit => LibcoInv
<1> SUFFICES ASSUME LibcoInit PROVE LibcoInv
  OBVIOUS
<1>1. Listed = {} /\ co_list \in Seq(Co) /\ Distinct(co_list)
  BY EmptySeq DEF LibcoInit, Listed, Distinct
<1>2. TypesInv
  BY <1>1, Stacks DEF LibcoInit, TypesInv, Status, idle
<1>3. ListAlive
  BY <1>1, ListedIs DEF LibcoInit
<1>4. DanglingInv /\ RunInv /\ ParkedInv /\ FinishedInv
  BY <1>1, Stacks DEF LibcoInit, DanglingInv, RunInv, ParkedInv, FinishedInv, idle
<1> QED BY <1>2, <1>3, <1>4 DEF LibcoInv

(* Control leaves a stack when everybody in the list is parked there, with *)
(* main's stack suspended in the name of w, and n is resumed or begun.     *)
LEMMA Switch ==
  ASSUME NEW st \in [Co -> Status], NEW fr \in [Stack -> Co \cup {NULL}],
         context' \in [Co -> Stack \cup {NULL}],
         Listed' \subseteq Co \ freed, freed \subseteq Co, wait'.branch # "none",
         NEW w \in Listed', w = wait'.co,
         st[w] = "WAITING", context'[w] = Main, fr[Main] = w,
         \A c \in Listed' \ {w} : \/ st[c] = "NEW" /\ fr[c] = NULL
                                  \/ st[c] = "WAITING" /\ context'[c] = c /\ fr[c] = c,
         NEW n \in Listed',
         \/ st[n] = "NEW" /\ stack_switch_call(n) /\ status' = st /\ frame' = fr
         \/ st[n] = "WAITING" /\ longjmp(n, st, context', fr)
  PROVE  /\ status' \in [Co -> Status] /\ frame' \in [Stack -> Co \cup {NULL}]
         /\ running' \in Stack /\ current' \in Co \cup {NULL}
         /\ RunInv' /\ ParkedInv'
         /\ \A c \in Co : c \notin Listed' \/ c = w => frame'[c] = fr[c]
         /\ \A c \in Co : status'[c] = st[c] \/ (st[c] = "WAITING" /\ status'[c] = "RUNNING")
<1> USE Stacks
<1>1. CASE st[n] = "NEW" /\ stack_switch_call(n) /\ status' = st /\ frame' = fr
  <2>1. current' = n /\ running' = n /\ n # w /\ n \in Co /\ n # Main /\ fr[n] = NULL
    BY <1>1 DEF stack_switch_call
  <2>2. RunInv'
    BY <1>1, <2>1 DEF RunInv
  <2>3. ParkedInv'
    BY <1>1, <2>1 DEF ParkedInv
  <2> QED BY <1>1, <2>1, <2>2, <2>3
<1>2. CASE st[n] = "WAITING" /\ longjmp(n, st, context', fr)
  <2>0. n \in Co /\ w \in Co /\ context'[n] = (IF n = w THEN Main ELSE n) /\ fr[context'[n]] = n
    BY <1>2
  <2>1. /\ status' = [st EXCEPT ![n] = "RUNNING"] /\ current' = n /\ running' = context'[n]
        /\ frame' = [s \in Stack |-> IF s = context'[n] THEN NULL ELSE fr[s]]
    <3>1. context'[n] \in Stack \ freed
      BY <2>0
    <3> QED BY <1>2, <2>0, <3>1 DEF longjmp, resume
  <2>2. n \in Co /\ w \in Co /\ context'[n] = IF n = w THEN Main ELSE n
    BY <2>0
  <2>3. status' \in [Co -> Status] /\ frame' \in [Stack -> Co \cup {NULL}]
    BY <2>1 DEF Status
  <2>4. \A c \in Co : status'[c] = IF c = n THEN "RUNNING" ELSE st[c]
    BY <2>1
  <2>5. \A s \in Stack : frame'[s] = IF s = running' THEN NULL ELSE fr[s]
    BY <2>1
  <2>6. RunInv'
    BY <2>1, <2>2, <2>4, <2>5 DEF RunInv
  <2>7. ParkedInv'
    BY <2>1, <2>2, <2>4, <2>5 DEF ParkedInv
  <2> QED BY <1>2, <2>1, <2>2, <2>3, <2>4, <2>5, <2>6, <2>7
<1> QED BY <1>1, <1>2

(* co_yield, in a coroutine or in the co_wait of a suspended one.          *)
LEMMA yield_fromInv ==
  ASSUME LibcoInv, NEW cur \in Listed, NEW w \in Listed, w = wait'.co,
         wait' \in [branch : {"new", "suspended", "nested"},
                   co : Co \cup {NULL}, old : Co \cup {NULL}],
         UNCHANGED <<co_list, freed, nested, finished>>, yield_from(cur),
         running = Main => w = cur,
         running # Main => cur = running,
         wait.branch = "none" \/ wait' = wait
  PROVE  /\ TypesInv' /\ ListAlive' /\ RunInv' /\ ParkedInv'
         /\ \A c \in freed' : status'[c] # "none"
         /\ \A c \in Co : c \notin Listed \/ c = w => frame'[c] = frame[c]
         /\ \A c \in Co : status'[c] = "none" <=> status[c] = "none"
<1> USE Stacks
<1> DEFINE st  == yielded(cur)
           ctx == setjmp(cur)
           fr  == [frame EXCEPT ![running] = cur]
<1>1. /\ Listed' = Listed /\ Listed = Elements(co_list) /\ Distinct(co_list)
      /\ Listed \subseteq Co \ freed /\ Listed \subseteq Co /\ freed \subseteq Co
  BY ListedIs DEF LibcoInv, Listed, TypesInv
<1>2. PICK n \in rand_choose(co_list, st, cur) :
        \/ st[n] = "NEW" /\ stack_switch_call(n) /\ status' = st /\ frame' = fr
        \/ st[n] = "WAITING" /\ longjmp(n, st, ctx, fr)
  BY DEF yield_from
<1>3. context' = ctx
  BY DEF yield_from
<1>4. n \in Listed
  BY <1>1, Chosen DEF LibcoInv, TypesInv
<1>5. /\ st \in [Co -> Status] /\ \A c \in Co : st[c] = IF c = cur THEN "WAITING" ELSE status[c]
      /\ ctx \in [Co -> Stack \cup {NULL}]
      /\ \A c \in Co : ctx[c] = IF c = cur THEN running ELSE context[c]
      /\ fr \in [Stack -> Co \cup {NULL}]
      /\ \A s \in Stack : fr[s] = IF s = running THEN cur ELSE frame[s]
  BY <1>1 DEF LibcoInv, TypesInv, Status, yielded, setjmp
<1> HIDE DEF st, ctx, fr
<1>6. running # Main => w # running /\ w = wait.co
  BY DEF LibcoInv, RunInv
<1>7. st[w] = "WAITING" /\ ctx[w] = Main /\ fr[Main] = w
  BY <1>1, <1>5, <1>6 DEF LibcoInv, RunInv, TypesInv
<1>8. ASSUME NEW c \in Listed \ {w}
      PROVE  \/ st[c] = "NEW" /\ fr[c] = NULL
             \/ st[c] = "WAITING" /\ ctx[c] = c /\ fr[c] = c
  <2>1. CASE c = running
    BY <1>1, <1>5, <2>1
  <2>2. CASE c # running
    <3>1. c # cur /\ (wait.branch # "none" => c # wait.co)
      BY <2>2
    <3>2. \/ status[c] = "NEW" /\ frame[c] = NULL
          \/ status[c] = "WAITING" /\ context[c] = c /\ frame[c] = c
      BY <2>2, <3>1 DEF LibcoInv, ParkedInv
    <3> QED BY <1>1, <1>5, <2>2, <3>1, <3>2
  <2> QED BY <2>1, <2>2
<1>9. /\ status' \in [Co -> Status] /\ frame' \in [Stack -> Co \cup {NULL}]
      /\ running' \in Stack /\ current' \in Co \cup {NULL}
      /\ RunInv' /\ ParkedInv'
      /\ \A c \in Co : c \notin Listed \/ c = w => frame'[c] = fr[c]
      /\ \A c \in Co : status'[c] = st[c] \/ (st[c] = "WAITING" /\ status'[c] = "RUNNING")
  BY <1>1, <1>2, <1>3, <1>4, <1>5, <1>7, <1>8, Switch
<1>10. TypesInv'
  BY <1>3, <1>5, <1>9 DEF LibcoInv, TypesInv
<1>11. status[cur] \notin {"none", "DEAD"} /\ cur \in Co
  BY <1>1, ListedIs DEF LibcoInv
<1>12. \A c \in Co : /\ status'[c] \in {"none", "DEAD"} <=> status[c] \in {"none", "DEAD"}
                     /\ status'[c] = "none" <=> status[c] = "none"
  BY <1>5, <1>9, <1>11
<1>13. ListAlive'
  BY <1>1, <1>12, ListedIs DEF LibcoInv, ListAlive
<1>14. \A c \in Co : c \notin Listed \/ c = w => frame'[c] = frame[c]
  <2>1. running = Main \/ running \in Listed
    BY DEF LibcoInv, RunInv
  <2> QED BY <1>1, <1>5, <1>6, <1>9, <2>1
<1> QED BY <1>9, <1>10, <1>12, <1>13, <1>14 DEF LibcoInv, DanglingInv, TypesInv

(* A coroutine calls co_yield.                                             *)
LEMMA co_yieldInv == LibcoInv /\ co_yield => LibcoInv'
<1> SUFFICES ASSUME LibcoInv, co_yield PROVE LibcoInv'
  OBVIOUS
<1>1. /\ yield_from(current) /\ UNCHANGED <<co_list, freed, wait, nested, finished>>
      /\ running # Main \/ wait.branch \in {"new", "nested"}
  BY Stacks DEF co_yield, InBody, LibcoInv, TypesInv
<1>2. /\ wait.branch # "none" /\ wait.co \in Listed /\ current \in Listed
      /\ running = Main => wait.co = current
      /\ running # Main => current = running
  BY <1>1 DEF LibcoInv, RunInv
<1>3. wait' \in [branch : {"new", "suspended", "nested"}, co : Co \cup {NULL}, old : Co \cup {NULL}]
  BY <1>1, <1>2 DEF LibcoInv, TypesInv
<1>4. /\ TypesInv' /\ ListAlive' /\ RunInv' /\ ParkedInv'
      /\ \A c \in freed' : status'[c] # "none"
      /\ \A c \in Co : c \notin Listed \/ c = wait.co => frame'[c] = frame[c]
      /\ \A c \in Co : status'[c] = "none" <=> status[c] = "none"
  BY <1>1, <1>2, <1>3, yield_fromInv
<1>5. Listed' = Listed /\ Listed \subseteq Co
  BY <1>1, ListedIs DEF Listed, LibcoInv
<1>6. DanglingInv'
  BY <1>1, <1>2, <1>4 DEF LibcoInv, DanglingInv
<1>7. FinishedInv'
  BY <1>1, <1>2, <1>4, <1>5 DEF LibcoInv, FinishedInv
<1> QED BY <1>4, <1>6, <1>7 DEF LibcoInv

(* main() waits for a suspended coroutine.                                 *)
LEMMA co_wait_suspendedInv ==
  ASSUME LibcoInv, NEW c \in Co, co_wait_suspended(c)
  PROVE  LibcoInv'
<1>1. /\ yield_from(c) /\ UNCHANGED <<co_list, freed, nested, finished>>
      /\ wait' = [branch |-> "suspended", co |-> c, old |-> NULL]
      /\ running = Main /\ wait.branch = "none" /\ status[c] = "WAITING" /\ c \notin freed
  BY DEF co_wait_suspended, Called, InMain, Enters, idle
<1>2. c \in Listed /\ Listed' = Listed /\ Listed \subseteq Co
  BY <1>1, ListedIs DEF LibcoInv, Listed
<1>3. /\ TypesInv' /\ ListAlive' /\ RunInv' /\ ParkedInv'
      /\ \A d \in freed' : status'[d] # "none"
      /\ \A d \in Co : d \notin Listed \/ d = c => frame'[d] = frame[d]
      /\ \A d \in Co : status'[d] = "none" <=> status[d] = "none"
  BY <1>1, <1>2, yield_fromInv
<1>4. frame[c] = c
  BY <1>1, <1>2, Stacks DEF LibcoInv, ParkedInv
<1>5. DanglingInv'
  BY <1>1, <1>3 DEF DanglingInv
<1>6. FinishedInv'
  BY <1>1, <1>2, <1>3, <1>4 DEF LibcoInv, FinishedInv
<1> QED BY <1>3, <1>5, <1>6 DEF LibcoInv

(* A function returns into callback().                                     *)
LEMMA callbackInv == LibcoInv /\ callback => LibcoInv'
<1> SUFFICES ASSUME LibcoInv, callback PROVE LibcoInv'
  OBVIOUS
<1> USE Stacks
<1> DEFINE st == ended(current)
<1>1. /\ running # Main /\ co_list' = co_delete(co_list, current)
      /\ finished' = [finished EXCEPT ![running] = @ + 1]
      /\ UNCHANGED <<freed, wait, nested, context>>
  BY Stacks DEF callback, Body, LibcoInv, TypesInv
<1>2. PICK n \in rand_choose(co_list', st, current) :
        st[n] = "WAITING" /\ longjmp(n, st, context, frame)
  BY DEF callback
<1>3. /\ current = running /\ running \in Listed /\ wait.branch # "none"
      /\ wait.co \in Listed /\ wait.co # running
      /\ status[wait.co] = "WAITING" /\ context[wait.co] = Main /\ frame[Main] = wait.co
  BY <1>1 DEF LibcoInv, RunInv
<1>4. /\ co_list' \in Seq(Co) /\ Listed' = Listed \ {running} /\ Distinct(co_list')
      /\ Listed' = Elements(co_list')
  <2>1. Listed' = Elements(co_list')
    BY DEF Listed, Elements
  <2> QED BY <1>1, <1>3, <2>1, Deleted, ListedIs DEF LibcoInv, TypesInv
<1>5. Listed = { c \in Co : status[c] \notin {"none", "DEAD"} /\ c \notin freed }
  BY ListedIs DEF LibcoInv
<1>6. n \in Listed'
  BY <1>4, Chosen
<1>7. st \in [Co -> Status] /\ \A c \in Co : st[c] = IF c = running THEN "DEAD" ELSE status[c]
  BY <1>3, <1>5 DEF LibcoInv, TypesInv, Status, ended
<1> HIDE DEF st
<1>8. \A c \in Listed' \ {wait.co} : \/ st[c] = "NEW" /\ frame[c] = NULL
                                     \/ st[c] = "WAITING" /\ context[c] = c /\ frame[c] = c
  BY <1>4, <1>5, <1>7 DEF LibcoInv, ParkedInv
<1>9. /\ frame \in [Stack -> Co \cup {NULL}] /\ context' \in [Co -> Stack \cup {NULL}]
      /\ context' = context /\ wait' = wait
  BY <1>1 DEF LibcoInv, TypesInv
<1>10. /\ status' \in [Co -> Status] /\ frame' \in [Stack -> Co \cup {NULL}]
       /\ running' \in Stack /\ current' \in Co \cup {NULL}
       /\ RunInv' /\ ParkedInv'
       /\ \A c \in Co : c \notin Listed' \/ c = wait.co => frame'[c] = frame[c]
       /\ \A c \in Co : status'[c] = st[c] \/ (st[c] = "WAITING" /\ status'[c] = "RUNNING")
  <2>1. /\ wait.co \in Listed' /\ Listed' \subseteq Co \ freed /\ freed \subseteq Co
        /\ st[wait.co] = "WAITING"
    BY <1>3, <1>4, <1>5, <1>7 DEF LibcoInv, TypesInv
  <2> QED BY <1>2, <1>3, <1>6, <1>7, <1>8, <1>9, <2>1, Switch
<1>11. finished[running] = 0 /\ running \in Co
  BY <1>3, <1>5 DEF LibcoInv, FinishedInv
<1>12. TypesInv'
  <2>1. finished' \in [Co -> 0..1]
    BY <1>1, <1>11 DEF LibcoInv, TypesInv
  <2> QED BY <1>1, <1>4, <1>9, <1>10, <2>1 DEF LibcoInv, TypesInv
<1>13. ListAlive'
  <2>1. \A c \in Co : status'[c] \in {"none", "DEAD"}
                       <=> c = running \/ status[c] \in {"none", "DEAD"}
    BY <1>7, <1>10
  <2>2. Listed' = { c \in Co : status'[c] \notin {"none", "DEAD"} /\ c \notin freed' }
    BY <1>1, <1>4, <1>5, <2>1
  <2> QED BY <1>4, <2>2 DEF ListAlive, Distinct
<1>14. DanglingInv'
  <2>1. \A c \in Co : status[c] # "none" => status'[c] # "none"
    BY <1>7, <1>10
  <2> QED BY <1>1, <1>3, <2>1 DEF LibcoInv, DanglingInv, TypesInv
<1>15. FinishedInv'
  <2>1. \A c \in Co : finished'[c] = IF c = running THEN 1 ELSE finished[c]
    BY <1>1, <1>11 DEF LibcoInv, TypesInv
  <2>2. \A c \in Co : status'[c] = "none" <=> status[c] = "none"
    BY <1>5, <1>3, <1>7, <1>10
  <2> QED BY <1>3, <1>4, <1>5, <1>9, <1>10, <2>1, <2>2 DEF LibcoInv, FinishedInv
<1> QED BY <1>10, <1>12, <1>13, <1>14, <1>15 DEF LibcoInv

(* A new coroutine, in memory that no pointer in use points to.            *)
LEMMA co_startInv ==
  ASSUME LibcoInv, NEW c \in Co, co_start(c), careful'
  PROVE  LibcoInv'
<1> USE Stacks
<1>1. /\ c \notin {current, wait.old} /\ freed' = freed \ {c} /\ co_list' = list_append(co_list, c)
      /\ status' = [status EXCEPT ![c] = "NEW"] /\ frame' = [frame EXCEPT ![c] = NULL]
      /\ finished' = [finished EXCEPT ![c] = 0]
      /\ nested' = [nested EXCEPT ![c] = << >>]
      /\ UNCHANGED <<current, wait, context, running>>
  BY DEF co_start
<1>2. c \in freed \/ status[c] = "none"
  <2>1. ~(c < c)
    BY DEF Co
  <2> QED BY <2>1 DEF co_start
<1>3. Listed = { d \in Co : status[d] \notin {"none", "DEAD"} /\ d \notin freed }
  BY ListedIs DEF LibcoInv
<1>4. c \notin Listed /\ Listed' = Listed \cup {c} /\ Distinct(co_list') /\ co_list' \in Seq(Co)
  <2>1. Listed' = Elements(co_list') /\ c \notin Elements(co_list)
    BY <1>2, <1>3, ListedIs DEF Listed, Elements
  <2> QED BY <1>1, <2>1, Appended, ListedIs DEF LibcoInv, TypesInv
<1>5. /\ \A d \in Co : status'[d] = IF d = c THEN "NEW" ELSE status[d]
      /\ \A s \in Stack : frame'[s] = IF s = c THEN NULL ELSE frame[s]
      /\ \A d \in Co : finished'[d] = IF d = c THEN 0 ELSE finished[d]
  BY <1>1 DEF LibcoInv, TypesInv
<1>6. TypesInv'
  <2>1. nested' = [s \in Stack |-> << >>]
    BY <1>1 DEF LibcoInv, TypesInv
  <2> QED BY <1>1, <1>4, <2>1 DEF LibcoInv, TypesInv, Status
<1>7. ListAlive'
  <2>1. Listed' = { d \in Co : status'[d] \notin {"none", "DEAD"} /\ d \notin freed' }
    BY <1>1, <1>3, <1>4, <1>5
  <2> QED BY <1>4, <2>1 DEF ListAlive, Distinct
<1>8. running \in Stack /\ running # c /\ (wait.branch # "none" => wait.co \in Listed)
  BY <1>4 DEF LibcoInv, RunInv, TypesInv
<1>9. DanglingInv'
  <2>1. \A d \in freed' : status'[d] # "none"
    BY <1>1, <1>5 DEF LibcoInv, DanglingInv, TypesInv
  <2> QED BY <1>1, <2>1 DEF LibcoInv, DanglingInv
<1>10. RunInv'
  BY <1>1, <1>3, <1>4, <1>5, <1>8 DEF LibcoInv, RunInv
<1>11. ParkedInv'
  BY <1>1, <1>3, <1>4, <1>5 DEF LibcoInv, ParkedInv
<1>12. FinishedInv'
  BY <1>1, <1>3, <1>4, <1>5, <1>8 DEF LibcoInv, FinishedInv
<1> QED BY <1>6, <1>7, <1>9, <1>10, <1>11, <1>12 DEF LibcoInv

(* co_wait calls a function on main's stack, and is not in it before.      *)
LEMMA co_wait_newInv ==
  ASSUME LibcoInv, NEW c \in Co, co_wait_new(c) \/ co_wait_nested(c)
  PROVE  LibcoInv'
<1> USE Stacks
<1>1. /\ running = Main /\ wait.branch = "none" /\ current' = c
      /\ UNCHANGED <<co_list, freed, nested, context, frame, running, finished>>
      /\ status[c] \notin {"none", "DEAD"} /\ c \notin freed
      /\ wait' \in [branch : {"new", "nested"}, co : {c}, old : {current}]
      /\ wait'.branch = "nested" <=> current # NULL
  BY DEF co_wait_new, co_wait_nested, Called, InMain, Enters, idle
<1>2. /\ Listed' = Listed
      /\ Listed = { d \in Co : status[d] \notin {"none", "DEAD"} /\ d \notin freed }
  BY <1>1, ListedIs DEF LibcoInv, Listed
<1>3. current = NULL \/ (current \in freed /\ current \in Co /\ current # c)
  BY <1>1 DEF LibcoInv, DanglingInv, TypesInv
<1>4. /\ status' \in [Co -> Status]
      /\ \A d \in Co : status'[d] = IF d = c THEN "RUNNING"
                                   ELSE IF d = current THEN "WAITING" ELSE status[d]
  <2>1. CASE co_wait_new(c)
    BY <2>1 DEF co_wait_new, LibcoInv, TypesInv, Status
  <2>2. CASE co_wait_nested(c)
    BY <1>3, <2>2 DEF co_wait_nested, LibcoInv, TypesInv, Status
  <2> QED BY <2>1, <2>2
<1>5. TypesInv'
  <2>1. wait' \in [branch : {"none", "new", "suspended", "nested"},
                  co : Co \cup {NULL}, old : Co \cup {NULL}] /\ wait'.branch # "none"
    BY <1>1, <1>3
  <2> QED BY <1>1, <1>4, <2>1 DEF LibcoInv, TypesInv
<1>6. ListAlive'
  <2>1. Listed' = { d \in Co : status'[d] \notin {"none", "DEAD"} /\ d \notin freed' }
    BY <1>1, <1>2, <1>3, <1>4
  <2> QED BY <1>1, <2>1 DEF LibcoInv, ListAlive
<1>7. DanglingInv'
  BY <1>1, <1>3, <1>4 DEF LibcoInv, DanglingInv, TypesInv
<1>8. RunInv'
  BY <1>1, <1>2, <1>4 DEF LibcoInv, RunInv
<1>9. ParkedInv'
  BY <1>1, <1>2, <1>3, <1>4 DEF LibcoInv, ParkedInv
<1>10. FinishedInv'
  <2>1. \A d \in Co \ Listed : status'[d] # "none" => status[d] # "none"
    BY <1>1, <1>2, <1>3, <1>4 DEF LibcoInv, DanglingInv
  <2> QED BY <1>1, <1>2, <2>1 DEF LibcoInv, FinishedInv
<1> QED BY <1>5, <1>6, <1>7, <1>8, <1>9, <1>10 DEF LibcoInv

(* co_wait returns, after the function or in place of a suspended one.     *)
LEMMA co_wait_returnsInv ==
  ASSUME LibcoInv,
         co_wait_new_returns \/ co_wait_suspended_returns \/ co_wait_nested_returns
  PROVE  LibcoInv'
<1> USE Stacks
<1> DEFINE c == wait.co
<1>1. /\ running = Main /\ wait.branch # "none" /\ wait' = idle
      /\ co_list' = co_delete(co_list, c) /\ freed' = freed \cup {c}
      /\ UNCHANGED <<nested, context, frame, running>>
      /\ current' = IF wait.branch = "nested" THEN wait.old ELSE NULL
  BY DEF co_wait_new_returns, co_wait_suspended_returns, co_wait_nested_returns
<1>2. c \in Listed /\ current = c /\ c \in Co /\ status[c] = "RUNNING" /\ c \notin freed
  BY <1>1, ListedIs DEF LibcoInv, RunInv
<1>3. Listed = { d \in Co : status[d] \notin {"none", "DEAD"} /\ d \notin freed }
  BY ListedIs DEF LibcoInv
<1>4. Listed' = Listed \ {c} /\ Distinct(co_list') /\ co_list' \in Seq(Co)
  <2>1. Listed' = Elements(co_list')
    BY DEF Listed, Elements
  <2> QED BY <1>1, <2>1, Deleted, ListedIs DEF LibcoInv, TypesInv
<1>5. wait.branch = "nested" => wait.old \in freed /\ wait.old \in Co /\ wait.old # c
  BY <1>2 DEF LibcoInv, DanglingInv, TypesInv
<1>6. finished[c] = 0
  BY <1>2 DEF LibcoInv, FinishedInv
<1>7. /\ status' \in [Co -> Status] /\ finished' \in [Co -> 0..1]
      /\ \A d \in Co : /\ d \notin freed /\ d # c => status'[d] = status[d]
                       /\ status'[d] = "none" <=> status[d] = "none"
      /\ \A d \in Co : finished'[d] = IF d = c /\ wait.branch # "suspended"
                                     THEN 1 ELSE finished[d]
  <2>1. ASSUME finished' = [finished EXCEPT ![c] = @ + 1]
        PROVE  /\ finished' \in [Co -> 0..1]
               /\ \A d \in Co : finished'[d] = IF d = c THEN 1 ELSE finished[d]
    <3>1. finished \in [Co -> 0..1]
      BY DEF LibcoInv, TypesInv
    <3>2. finished' = [finished EXCEPT ![c] = 1]
      BY <1>2, <1>6, <2>1, <3>1
    <3> QED BY <1>2, <3>1, <3>2
  <2>2. CASE co_wait_new_returns
    <3>1. /\ finished' = [finished EXCEPT ![c] = @ + 1] /\ wait.branch = "new"
          /\ status' = [status EXCEPT ![current] = "DEAD", ![c] = "DEAD"]
      BY <1>1, <2>2 DEF co_wait_new_returns, Body, LibcoInv, TypesInv
    <3>2. status \in [Co -> Status] /\ "DEAD" \in Status
      BY DEF LibcoInv, TypesInv, Status
    <3>3. /\ status' \in [Co -> Status]
          /\ \A d \in Co : status'[d] = IF d = c THEN "DEAD" ELSE status[d]
      BY <1>2, <3>1, <3>2
    <3> QED BY <1>2, <2>1, <3>1, <3>3
  <2>3. CASE co_wait_suspended_returns
    BY <2>3 DEF co_wait_suspended_returns, LibcoInv, TypesInv
  <2>4. CASE co_wait_nested_returns
    <3>1. /\ finished' = [finished EXCEPT ![c] = @ + 1] /\ wait.branch = "nested"
          /\ status' = [status EXCEPT ![current] = "DEAD", ![wait.old] = "RUNNING", ![c] = "DEAD"]
      BY <1>1, <2>4 DEF co_wait_nested_returns, Body, LibcoInv, TypesInv
    <3>2. status \in [Co -> Status] /\ {"DEAD", "RUNNING"} \subseteq Status
      BY DEF LibcoInv, TypesInv, Status
    <3>3. /\ status' \in [Co -> Status]
          /\ \A d \in Co : status'[d] = IF d = c THEN "DEAD"
                                        ELSE IF d = wait.old THEN "RUNNING" ELSE status[d]
      BY <1>2, <1>5, <3>1, <3>2
    <3>4. status[wait.old] # "none"
      BY <1>5, <3>1 DEF LibcoInv, DanglingInv
    <3> QED BY <1>2, <1>5, <2>1, <3>1, <3>3, <3>4
  <2> QED BY <2>2, <2>3, <2>4
<1>8. TypesInv'
  BY <1>1, <1>2, <1>4, <1>5, <1>7 DEF LibcoInv, TypesInv, idle
<1>9. ListAlive'
  <2>1. Listed' = { d \in Co : status'[d] \notin {"none", "DEAD"} /\ d \notin freed' }
    BY <1>1, <1>3, <1>4, <1>7
  <2> QED BY <1>4, <2>1 DEF ListAlive, Distinct
<1>10. DanglingInv'
  BY <1>1, <1>2, <1>5, <1>7 DEF LibcoInv, DanglingInv, TypesInv, idle
<1>11. RunInv'
  BY <1>1 DEF LibcoInv, RunInv, idle
<1>12. ParkedInv'
  BY <1>1, <1>3, <1>4, <1>7 DEF LibcoInv, ParkedInv
<1>13. FinishedInv'
  <2>1. ASSUME NEW d \in Listed' PROVE finished'[d] = 0
    <3>1. d \in Listed /\ d # c /\ d \in Co
      BY <1>3, <1>4, <2>1
    <3>2. finished'[d] = finished[d]
      BY <1>7, <3>1
    <3> QED BY <3>1, <3>2 DEF LibcoInv, FinishedInv
  <2>2. ASSUME NEW d \in Co \ Listed', status'[d] # "none"
        PROVE  finished'[d] = 1 \/ frame'[d] = d
    <3>1. CASE d = c /\ wait.branch = "suspended"
      BY <1>1, <3>1 DEF LibcoInv, FinishedInv
    <3>2. CASE d = c /\ wait.branch # "suspended"
      BY <1>7, <2>2, <3>2
    <3>3. CASE d # c
      <4>1. d \in Co \ Listed /\ status[d] # "none" /\ finished'[d] = finished[d]
        BY <1>4, <1>7, <2>2, <3>3
      <4> QED BY <1>1, <4>1 DEF LibcoInv, FinishedInv
    <3> QED BY <3>1, <3>2, <3>3
  <2>3. wait'.branch # "suspended"
    BY <1>1 DEF idle
  <2> QED BY <2>1, <2>2, <2>3 DEF FinishedInv
<1> QED BY <1>8, <1>9, <1>10, <1>11, <1>12, <1>13 DEF LibcoInv

(* main() waits for a coroutine that has ended.                            *)
LEMMA co_wait_deadInv ==
  ASSUME LibcoInv, NEW c \in Co, co_wait_dead(c)
  PROVE  LibcoInv'
<1>1. /\ running = Main /\ wait.branch = "none" /\ status[c] = "DEAD"
      /\ current' = c /\ freed' = freed \cup {c}
      /\ UNCHANGED <<status, co_list, wait, nested, context, frame, running, finished>>
  BY DEF co_wait_dead, Called, InMain, idle
<1>2. /\ Listed' = Listed
      /\ Listed = { d \in Co : status[d] \notin {"none", "DEAD"} /\ d \notin freed }
  BY <1>1, ListedIs DEF LibcoInv, Listed
<1>3. TypesInv'
  BY <1>1 DEF LibcoInv, TypesInv
<1>4. ListAlive'
  <2>1. Listed' = { d \in Co : status'[d] \notin {"none", "DEAD"} /\ d \notin freed' }
    BY <1>1, <1>2
  <2> QED BY <1>1, <2>1 DEF LibcoInv, ListAlive
<1>5. DanglingInv'
  BY <1>1 DEF LibcoInv, DanglingInv
<1>6. RunInv' /\ ParkedInv' /\ FinishedInv'
  BY <1>1, <1>2 DEF LibcoInv, RunInv, ParkedInv, FinishedInv
<1> QED BY <1>3, <1>4, <1>5, <1>6 DEF LibcoInv

(* As long as the calls are careful, every step preserves the invariant; a *)
(* co_wait by a coroutine is not.                                          *)
LEMMA LibcoStepInv ==
  LibcoCarefulInv /\ [LibcoNext]_lvars => LibcoCarefulInv'
<1> SUFFICES ASSUME LibcoCarefulInv, [LibcoNext]_lvars, careful' PROVE LibcoInv'
  BY DEF LibcoCarefulInv
<1>1. CASE UNCHANGED lvars
  <2>0. LibcoInv
    BY <1>1 DEF lvars, LibcoCarefulInv
  <2>1. UNCHANGED <<status, co_list, current, running, wait, nested, context, frame, freed,
                    finished>>
    BY <1>1 DEF lvars
  <2>2. Listed' = Listed
    BY <2>1 DEF Listed
  <2>3. TypesInv' /\ ListAlive'
    BY <2>0, <2>1, <2>2 DEF LibcoInv, TypesInv, ListAlive
  <2>4. DanglingInv' /\ RunInv'
    BY <2>0, <2>1, <2>2 DEF LibcoInv, DanglingInv, RunInv
  <2>5. ParkedInv'
    BY <2>0, <2>1, <2>2 DEF LibcoInv, ParkedInv
  <2>6. FinishedInv'
    BY <2>0, <2>1, <2>2 DEF LibcoInv, FinishedInv
  <2> QED BY <2>3, <2>4, <2>5, <2>6 DEF LibcoInv
<1>2. CASE LibcoNext
  <2>1. careful
    BY <1>2 DEF LibcoNext, co_start, co_wait_new, co_wait_suspended, co_wait_nested,
       co_wait_dead, body_wait_nested, body_wait_dead, CalledInBody, co_wait_new_returns,
       co_wait_suspended_returns, co_wait_nested_returns, body_wait_nested_returns,
       co_yield, callback
  <2>2. LibcoInv
    BY <2>1 DEF LibcoCarefulInv
  <2>3. ~body_wait_nested_returns
    BY <2>2 DEF body_wait_nested_returns, LibcoInv, TypesInv
  <2>4. \A c \in Co : ~body_wait_nested(c) /\ ~body_wait_dead(c)
    BY DEF body_wait_nested, body_wait_dead, CalledInBody
  <2> QED
    BY <1>2, <2>2, <2>3, <2>4, co_startInv, co_wait_newInv, co_wait_suspendedInv,
       co_wait_deadInv, co_wait_returnsInv, co_yieldInv, callbackInv DEF LibcoNext
<1> QED BY <1>1, <1>2

(* The invariant of co-first.c, for calls of co_start and co_wait that are *)
(* careful so far.                                                         *)
THEOREM LibcoCorrect == LibcoSpec => []LibcoCarefulInv
<1>1. LibcoInit => LibcoCarefulInv
  BY LibcoInitInv DEF LibcoCarefulInv
<1> QED BY <1>1, LibcoStepInv, PTL DEF LibcoSpec

(* Until a coroutine calls co_wait or a co_start gets the memory in which  *)
(* current dangles, every longjmp goes to a frame that is on its stack.    *)
THEOREM LibcoJumpsLand == LibcoSpec => []JumpsLandInLiveFrames
<1>1. ASSUME LibcoInv PROVE JumpsLand
  <2>1. Listed = { c \in Co : status[c] \notin {"none", "DEAD"} /\ c \notin freed }
    BY <1>1, ListedIs DEF LibcoInv
  <2>2. running \in Stack \ freed /\ frame[running] = NULL
    BY <1>1, <2>1, Stacks DEF LibcoInv, RunInv, TypesInv
  <2>3. InBody => current = Body
    BY <1>1, Stacks DEF InBody, Body, LibcoInv, RunInv, TypesInv
  <2>4. ASSUME NEW c \in Listed, status[c] = "WAITING"
        PROVE  context[c] \in Stack \ freed /\ frame[context[c]] = c
    <3>1. CASE c = running \/ (wait.branch # "none" /\ c = wait.co)
      BY <1>1, <2>1, <2>4, <3>1, Stacks DEF LibcoInv, RunInv, TypesInv
    <3>2. CASE ~(c = running \/ (wait.branch # "none" /\ c = wait.co))
      BY <1>1, <2>1, <2>4, <3>2, Stacks DEF LibcoInv, ParkedInv
    <3> QED BY <3>1, <3>2
  <2> QED BY <2>2, <2>3, <2>4 DEF JumpsLand
<1>2. LibcoCarefulInv => JumpsLandInLiveFrames
  BY <1>1 DEF LibcoCarefulInv, JumpsLandInLiveFrames
<1> QED BY <1>2, LibcoCorrect, PTL

(* The list holds exactly the coroutines that are alive, each once.        *)
THEOREM LibcoListIsAlive == LibcoSpec => []ListIsAlive
<1>1. LibcoCarefulInv => ListIsAlive
  BY DEF LibcoCarefulInv, LibcoInv, ListIsAlive
<1> QED BY <1>1, LibcoCorrect, PTL

(* callback() always finds a coroutine to jump to.                         *)
THEOREM LibcoMainCanBeResumed == LibcoSpec => []MainCanBeResumed
<1>1. LibcoCarefulInv => MainCanBeResumed
  BY DEF LibcoCarefulInv, LibcoInv, RunInv, MainCanBeResumed
<1> QED BY <1>1, LibcoCorrect, PTL

(* No function returns twice, although co_wait may call it a second time.  *)
THEOREM LibcoReturnsOnce == LibcoSpec => []ReturnsOnceOrSuspended
<1>1. ASSUME LibcoInv PROVE ReturnsOnceOrSuspended
  <2>1. \A c \in freed : c \in Co \ Listed /\ status[c] # "none"
    BY <1>1, ListedIs DEF LibcoInv, DanglingInv, TypesInv
  <2> QED BY <1>1, <2>1 DEF LibcoInv, FinishedInv, TypesInv, ReturnsOnceOrSuspended
<1>2. LibcoCarefulInv => ReturnsOnceOrSuspended
  BY <1>1 DEF LibcoCarefulInv, ReturnsOnceOrSuspended
<1> QED BY <1>2, LibcoCorrect, PTL

(* co_yield goes on with the one that calls it only if no other coroutine  *)
(* can run, for all lengths of the list and all values of rand().          *)
THEOREM LibcoGivesWay == LibcoSpec => GivesWay
<1>1. ASSUME LibcoInv, co_yield, current' = current, NEW c \in Listed \ {current}
      PROVE  status[c] \notin {"NEW", "WAITING"}
  <2> DEFINE st == yielded(current)
  <2>1. PICK n \in rand_choose(co_list, st, current) : current' = n
    BY <1>1 DEF co_yield, yield_from, stack_switch_call, longjmp
  <2>2. co_list \in Seq(Co) /\ Distinct(co_list) /\ Listed = Elements(co_list)
    BY <1>1, ListedIs DEF LibcoInv, TypesInv
  <2>3. st[c] \notin {"NEW", "WAITING"}
    BY <1>1, <2>1, <2>2, Chosen
  <2> QED BY <1>1, <2>3 DEF yielded, LibcoInv, TypesInv
<1>2. LibcoCarefulInv =>
        [ careful /\ co_yield /\ current' = current =>
            \A c \in Listed \ {current} : status[c] \notin {"NEW", "WAITING"} ]_lvars
  BY <1>1 DEF LibcoCarefulInv
<1> QED BY <1>2, LibcoCorrect, PTL DEF GivesWay, LibcoSpec
-----------------------------------------------------------------------------
(* s holds the sums of the beginnings of t.                                *)
IsSum(s, t, n) == s = [k \in 0..n |-> IF k = 0 THEN 0 ELSE s[k - 1] + t[k]]

(* The recursive function in SumTo exists, and so SumTo adds up.           *)
LEMMA SumStep ==
  ASSUME NEW t, NEW n \in Nat, \A k \in 1..n : t[k] \in Int
  PROVE  /\ SumTo(t, 0) = 0
         /\ \A k \in 0..n : SumTo(t, k) \in Int
         /\ \A k \in 1..n : SumTo(t, k) = SumTo(t, k - 1) + t[k]
<1>1. ASSUME NEW m \in Nat PROVE \E s : IsSum(s, t, m)
  <2> DEFINE Bad == { k \in Nat : ~ \E s : IsSum(s, t, k) }
  <2> SUFFICES ASSUME Bad # {} PROVE FALSE
    OBVIOUS
  <2>1. PICK k \in Bad : \A j \in Bad : k <= j
    BY LeastNatural
  <2>2. CASE k = 0
    <3>1. IsSum([j \in 0..0 |-> 0], t, 0)
      BY DEF IsSum
    <3> QED BY <2>2, <3>1
  <2>3. CASE k > 0
    <3>1. k - 1 \in Nat /\ k - 1 \notin Bad
      BY <2>1, <2>3
    <3>2. PICK s : IsSum(s, t, k - 1)
      BY <3>1
    <3> DEFINE u == [j \in 0..k |-> IF j = k THEN s[k - 1] + t[k] ELSE s[j]]
    <3>3. ASSUME NEW j \in 0..k PROVE u[j] = IF j = 0 THEN 0 ELSE u[j - 1] + t[j]
      <4>1. CASE j = k
        BY <2>3, <4>1
      <4>2. CASE j # k
        <5>1. j \in 0..(k - 1) /\ u[j] = s[j] /\ (j # 0 => j - 1 \in 0..k /\ u[j - 1] = s[j - 1])
          BY <4>2
        <5> QED BY <3>2, <5>1 DEF IsSum
      <4> QED BY <4>1, <4>2
    <3>4. IsSum(u, t, k)
      BY <3>3 DEF IsSum
    <3> QED BY <3>4
  <2> QED BY <2>2, <2>3
<1>2. ASSUME NEW m \in Nat PROVE \E s : IsSum(s, t, m) /\ SumTo(t, m) = s[m]
  <2>1. SumTo(t, m) = (CHOOSE s : IsSum(s, t, m))[m]
    BY DEF SumTo, IsSum
  <2> QED BY <1>1, <2>1
<1>3. ASSUME NEW m \in Nat, NEW s, IsSum(s, t, m), NEW u, IsSum(u, t, m + 1)
      PROVE  \A k \in 0..m : s[k] = u[k]
  <2> DEFINE Bad == { k \in 0..m : s[k] # u[k] }
  <2> SUFFICES ASSUME Bad # {} PROVE FALSE
    OBVIOUS
  <2>1. PICK k \in Bad : \A j \in Bad : k <= j
    <3>1. Bad \subseteq Nat
      OBVIOUS
    <3> QED BY <3>1, LeastNatural
  <2>2. s[k] = (IF k = 0 THEN 0 ELSE s[k - 1] + t[k]) /\ u[k] = IF k = 0 THEN 0 ELSE u[k - 1] + t[k]
    BY <1>3 DEF IsSum
  <2>3. k # 0 => k - 1 \in 0..m /\ k - 1 \notin Bad
    BY <2>1
  <2> QED BY <2>2, <2>3
<1>4. SumTo(t, 0) = 0
  BY <1>2 DEF IsSum
<1>5. ASSUME NEW k \in 1..n PROVE SumTo(t, k) = SumTo(t, k - 1) + t[k]
  <2>1. k - 1 \in Nat /\ k \in Nat /\ (k - 1) + 1 = k
    OBVIOUS
  <2>2. PICK s : IsSum(s, t, k) /\ SumTo(t, k) = s[k]
    BY <1>2, <2>1
  <2>3. PICK u : IsSum(u, t, k - 1) /\ SumTo(t, k - 1) = u[k - 1]
    BY <1>2, <2>1
  <2>4. u[k - 1] = s[k - 1]
    BY <1>3, <2>1, <2>2, <2>3
  <2>5. s[k] = s[k - 1] + t[k]
    BY <2>2 DEF IsSum
  <2> QED BY <2>2, <2>3, <2>4, <2>5
<1>6. ASSUME NEW k \in 0..n PROVE SumTo(t, k) \in Int
  <2> DEFINE Bad == { j \in 0..n : SumTo(t, j) \notin Int }
  <2> SUFFICES ASSUME Bad # {} PROVE FALSE
    OBVIOUS
  <2>1. PICK m \in Bad : \A j \in Bad : m <= j
    <3>1. Bad \subseteq Nat
      OBVIOUS
    <3> QED BY <3>1, LeastNatural
  <2>2. m # 0 => m \in 1..n /\ m - 1 \in 0..n /\ m - 1 \notin Bad
    BY <2>1
  <2> QED BY <1>4, <1>5, <2>2
<1> QED BY <1>4, <1>5, <1>6

(* Two sums differ by the sum of the differences.                          *)
LEMMA SumChange ==
  ASSUME NEW n \in Nat, NEW t, NEW u, NEW d \in [0..n -> Int],
         \A k \in 1..n : t[k] \in Int /\ u[k] \in Int,
         d[0] = 0, \A k \in 1..n : u[k] = t[k] + d[k] - d[k - 1]
  PROVE  SumTo(u, n) = SumTo(t, n) + d[n]
<1> DEFINE Bad == { k \in 0..n : SumTo(u, k) # SumTo(t, k) + d[k] }
<1> SUFFICES ASSUME Bad # {} PROVE FALSE
  OBVIOUS
<1>1. PICK k \in Bad : \A j \in Bad : k <= j
  <2>1. Bad \subseteq Nat
    OBVIOUS
  <2> QED BY <2>1, LeastNatural
<1>2. /\ SumTo(t, 0) = 0 /\ \A j \in 0..n : SumTo(t, j) \in Int
      /\ \A j \in 1..n : SumTo(t, j) = SumTo(t, j - 1) + t[j]
  BY SumStep
<1>3. /\ SumTo(u, 0) = 0 /\ \A j \in 0..n : SumTo(u, j) \in Int
      /\ \A j \in 1..n : SumTo(u, j) = SumTo(u, j - 1) + u[j]
  BY SumStep
<1>4. k # 0
  BY <1>2, <1>3
<1>5. k \in 1..n /\ k - 1 \in 0..n /\ k - 1 \notin Bad
  BY <1>1, <1>4
<1> DEFINE before == SumTo(t, k - 1)
           tk == t[k]
           d1 == d[k - 1]
           d2 == d[k]
<1>6. /\ SumTo(u, k) = (before + d1) + (tk + d2 - d1) /\ SumTo(t, k) = before + tk
      /\ before \in Int /\ tk \in Int /\ d1 \in Int /\ d2 \in Int
  BY <1>2, <1>3, <1>5
<1>7. SumTo(u, k) # SumTo(t, k) + d2
  OBVIOUS
<1> HIDE DEF before, tk, d1, d2
<1> QED BY <1>6, <1>7

(* A sum does not shrink when it goes on.                                  *)
LEMMA SumGrows ==
  ASSUME NEW n \in Nat, NEW t, \A k \in 1..n : t[k] \in Nat, NEW m \in 0..n
  PROVE  SumTo(t, m) <= SumTo(t, n)
<1> DEFINE Bad == { k \in m..n : ~(SumTo(t, m) <= SumTo(t, k)) }
<1> SUFFICES ASSUME Bad # {} PROVE FALSE
  OBVIOUS
<1>1. PICK k \in Bad : \A j \in Bad : k <= j
  <2>1. Bad \subseteq Nat
    OBVIOUS
  <2> QED BY <2>1, LeastNatural
<1>2. /\ \A j \in 0..n : SumTo(t, j) \in Int
      /\ \A j \in 1..n : SumTo(t, j) = SumTo(t, j - 1) + t[j]
  BY SumStep
<1>3. k # m
  BY <1>2
<1>4. k \in 1..n /\ k - 1 \in m..n /\ k - 1 \notin Bad
  BY <1>1, <1>3
<1>5. SumTo(t, m) <= SumTo(t, k - 1) /\ SumTo(t, k) = SumTo(t, k - 1) + t[k] /\ t[k] \in Nat
      /\ SumTo(t, m) \in Int /\ SumTo(t, k - 1) \in Int
  BY <1>2, <1>4
<1> QED BY <1>5

(* Shares rounded down: their sum is at most the share of the sum.         *)
LEMMA SumOfShares ==
  ASSUME NEW n \in Nat, NEW t, NEW u, NEW total \in Nat,
         \A k \in 1..n : t[k] \in Int /\ u[k] \in Int /\ u[k] * total <= 100 * t[k]
  PROVE  SumTo(u, n) * total <= 100 * SumTo(t, n)
<1> DEFINE Bad == { k \in 0..n : ~(SumTo(u, k) * total <= 100 * SumTo(t, k)) }
<1> SUFFICES ASSUME Bad # {} PROVE FALSE
  OBVIOUS
<1>1. PICK k \in Bad : \A j \in Bad : k <= j
  <2>1. Bad \subseteq Nat
    OBVIOUS
  <2> QED BY <2>1, LeastNatural
<1>2. /\ SumTo(t, 0) = 0 /\ \A j \in 0..n : SumTo(t, j) \in Int
      /\ \A j \in 1..n : SumTo(t, j) = SumTo(t, j - 1) + t[j]
  BY SumStep
<1>3. /\ SumTo(u, 0) = 0 /\ \A j \in 0..n : SumTo(u, j) \in Int
      /\ \A j \in 1..n : SumTo(u, j) = SumTo(u, j - 1) + u[j]
  BY SumStep
<1>4. k # 0
  BY <1>2, <1>3
<1>5. k \in 1..n /\ k - 1 \in 0..n /\ k - 1 \notin Bad
  BY <1>1, <1>4
<1>6. \A a, b, c, d \in Int : a * total <= 100 * b /\ c * total <= 100 * d
                              => (a + c) * total <= 100 * (b + d)
  OBVIOUS
<1>7. /\ SumTo(u, k - 1) * total <= 100 * SumTo(t, k - 1)
      /\ SumTo(u, k) = SumTo(u, k - 1) + u[k] /\ SumTo(t, k) = SumTo(t, k - 1) + t[k]
      /\ u[k] * total <= 100 * t[k]
      /\ SumTo(u, k - 1) \in Int /\ SumTo(t, k - 1) \in Int /\ u[k] \in Int /\ t[k] \in Int
  BY <1>2, <1>3, <1>5
<1>8. (SumTo(u, k - 1) + u[k]) * total <= 100 * (SumTo(t, k - 1) + t[k])
  BY <1>6, <1>7
<1> QED BY <1>7, <1>8
-----------------------------------------------------------------------------
Node == [func : Func, time : Nat]

(* A list with one node for each function that has a time in sp, and with  *)
(* that time.                                                              *)
Summary(list, sp) ==
  /\ list \in Seq(Node)
  /\ \A j, k \in 1..Len(list) : list[j].func = list[k].func => j = k
  /\ \A k \in 1..Len(list) : sp[list[k].func] = list[k].time
  /\ \A f \in Func : sp[f] # NoTime => \E k \in 1..Len(list) : list[k].func = f

SumOf(list) == SumTo(Times(list), Len(list))

(* None of the first n nodes has less time than one behind it.             *)
Descending(list, n) ==
  \A i, j \in 1..Len(list) : i <= n /\ i <= j => list[j].time <= list[i].time

(* The nodes of a list and what can be added up.                           *)
LEMMA Nodes ==
  ASSUME NEW list \in Seq(Node)
  PROVE  /\ Len(list) \in Nat /\ DOMAIN list = 1..Len(list)
         /\ \A k \in 1..Len(list) : /\ list[k] \in Node
                                    /\ list[k].func \in Func /\ list[k].time \in Nat
                                    /\ Times(list)[k] = list[k].time
<1>1. Len(list) \in Nat /\ DOMAIN list = 1..Len(list) /\ \A k \in 1..Len(list) : list[k] \in Node
  BY LenProperties, ElementOfSeq
<1> QED BY <1>1 DEF Node, Times

(* exchange keeps what the list says.                                      *)
LEMMA Exchanged ==
  ASSUME NEW list, NEW sp, Summary(list, sp),
         NEW p \in 1..Len(list), NEW q \in 1..Len(list), p # q
  PROVE  /\ Summary(exchange(list, p, q), sp)
         /\ Len(exchange(list, p, q)) = Len(list)
         /\ SumOf(exchange(list, p, q)) = SumOf(list)
<1> DEFINE n == Len(list)
           new == [list EXCEPT ![p] = list[q], ![q] = list[p]]
<1>1. list \in Seq(Node)
  BY DEF Summary
<1>2. n \in Nat /\ DOMAIN list = 1..n /\ \A k \in 1..n : list[k] \in Node /\ list[k].time \in Nat
  BY <1>1, Nodes
<1>3. /\ new \in [1..n -> Node]
      /\ \A k \in 1..n : new[k] = IF k = q THEN list[p] ELSE IF k = p THEN list[q] ELSE list[k]
  <2>1. list \in [1..n -> Node]
    BY <1>1, <1>2, LenProperties
  <2> QED BY <1>2, <2>1
<1> HIDE DEF new
<1>4. new \in Seq(Node) /\ Len(new) = n
  BY <1>2, <1>3, SeqDef, LenProperties
<1>5. Summary(new, sp)
  <2>1. ASSUME NEW j \in 1..n, NEW k \in 1..n, new[j].func = new[k].func PROVE j = k
    <3> DEFINE from(i) == IF i = q THEN p ELSE IF i = p THEN q ELSE i
    <3>1. from(j) \in 1..n /\ from(k) \in 1..n /\ new[j] = list[from(j)] /\ new[k] = list[from(k)]
      BY <1>3
    <3>2. from(j) = from(k)
      BY <2>1, <3>1 DEF Summary
    <3> QED BY <3>2
  <2>2. \A k \in 1..n : sp[new[k].func] = new[k].time
    BY <1>3 DEF Summary
  <2>3. ASSUME NEW f \in Func, sp[f] # NoTime PROVE \E k \in 1..n : new[k].func = f
    <3>1. PICK k \in 1..n : list[k].func = f
      BY <2>3 DEF Summary
    <3>2. new[IF k = q THEN p ELSE IF k = p THEN q ELSE k] = list[k]
      BY <1>3
    <3> QED BY <3>1, <3>2
  <2> QED BY <1>4, <2>1, <2>2, <2>3 DEF Summary
<1>6. SumOf(new) = SumOf(list)
  <2> DEFINE a == list[p].time
             b == list[q].time
             d == [k \in 0..n |-> (IF k >= p THEN b - a ELSE 0) + (IF k >= q THEN a - b ELSE 0)]
             t == Times(list)
             u == Times(new)
  <2>1. a \in Nat /\ b \in Nat
    BY <1>2
  <2>2. \A k \in 1..n : /\ t[k] = list[k].time /\ u[k] = new[k].time
                        /\ t[k] \in Nat /\ u[k] \in Nat /\ t[k] \in Int /\ u[k] \in Int
    BY <1>1, <1>4, Nodes
  <2>3. \A k \in 1..n : u[k] = IF k = q THEN a ELSE IF k = p THEN b ELSE t[k]
    BY <1>3, <2>2
  <2> HIDE DEF a, b, t, u
  <2>4. t[p] = a /\ t[q] = b
    BY <2>2 DEF a, b
  <2>5. d \in [0..n -> Int] /\ d[0] = 0 /\ d[n] = 0
    BY <1>2, <2>1
  <2>6. ASSUME NEW k \in 1..n PROVE u[k] = t[k] + d[k] - d[k - 1]
    <3>1. /\ d[k] = (IF k >= p THEN b - a ELSE 0) + (IF k >= q THEN a - b ELSE 0)
          /\ d[k - 1] = (IF k - 1 >= p THEN b - a ELSE 0) + (IF k - 1 >= q THEN a - b ELSE 0)
      BY <1>2
    <3> HIDE DEF d
    <3>2. CASE k = q
      <4>1. u[k] = a /\ t[k] = b
        BY <2>3, <2>4, <3>2
      <4>2. CASE p < q
        <5>1. d[k] = (b - a) + (a - b) /\ d[k - 1] = (b - a) + 0
          BY <3>1, <3>2, <4>2
        <5> QED BY <2>1, <4>1, <5>1
      <4>3. CASE p > q
        <5>1. d[k] = 0 + (a - b) /\ d[k - 1] = 0 + 0
          BY <3>1, <3>2, <4>3
        <5> QED BY <2>1, <4>1, <5>1
      <4> QED BY <4>2, <4>3
    <3>3. CASE k = p
      BY <2>1, <2>2, <2>3, <2>4, <3>1, <3>3
    <3>4. CASE k # p /\ k # q
      BY <2>1, <2>2, <2>3, <3>1, <3>4
    <3> QED BY <3>2, <3>3, <3>4
  <2> HIDE DEF d
  <2>7. SumTo(u, n) = SumTo(t, n) + d[n]
    <3>1. \A k \in 1..n : t[k] \in Int /\ u[k] \in Int
      BY <2>2
    <3>2. \A k \in 1..n : u[k] = t[k] + d[k] - d[k - 1]
      BY <2>6
    <3>3. n \in Nat /\ d \in [0..n -> Int] /\ d[0] = 0
      BY <1>2, <2>5
    <3> HIDE DEF n
    <3> QED BY <3>1, <3>2, <3>3, SumChange
  <2>8. SumTo(t, n) \in Int
    <3>1. n \in 0..n
      BY <1>2
    <3> QED BY <1>2, <2>2, <3>1, SumStep
  <2> QED BY <1>4, <2>5, <2>7, <2>8 DEF SumOf, t, u
<1> QED BY <1>4, <1>5, <1>6 DEF exchange, new

(* append adds the time to the node of its function, or a node.            *)
LEMMA AppendedTo ==
  ASSUME NEW list, NEW sp \in [Func -> Nat \cup {NoTime}], Summary(list, sp),
         NEW f \in Func, NEW t \in Nat
  PROVE  LET new == append(list, [func |-> f, time |-> t])
         IN /\ Summary(new, [sp EXCEPT ![f] = IF @ = NoTime THEN t ELSE @ + t])
            /\ SumOf(new) = SumOf(list) + t
            /\ new # << >>
<1> DEFINE node == [func |-> f, time |-> t]
           new == append(list, node)
           sp2 == [sp EXCEPT ![f] = IF @ = NoTime THEN t ELSE @ + t]
           n == Len(list)
           I == { i \in 1..n : list[i].func = node.func }
<1>1. list \in Seq(Node) /\ node \in Node /\ node.func = f /\ node.time = t
  BY DEF Summary, Node
<1>2. /\ n \in Nat /\ DOMAIN list = 1..n
      /\ \A k \in 1..n : /\ list[k] \in Node /\ list[k].func \in Func /\ list[k].time \in Nat
                         /\ Times(list)[k] = list[k].time
  BY <1>1, Nodes
<1>3. SelectInSeq(list, LAMBDA q : q.func = node.func) = IF I # {} THEN Min(I) ELSE 0
  BY DEF SelectInSeq
<1>4. SumTo(Times(list), n) \in Int
  <2>1. n \in 0..n /\ \A k \in 1..n : Times(list)[k] \in Int
    BY <1>2
  <2> QED BY <1>2, <2>1, SumStep
<1>5. /\ sp2[f] = IF sp[f] = NoTime THEN t ELSE sp[f] + t
      /\ \A g \in Func : g # f => sp2[g] = sp[g]
  OBVIOUS
<1>6. CASE I = {}
  <2>1. new = Append(list, node)
    BY <1>3, <1>6 DEF append
  <2>2. /\ new \in Seq(Node) /\ Len(new) = n + 1 /\ new[n + 1] = node
        /\ \A k \in 1..n : new[k] = list[k]
    BY <1>1, <2>1, AppendProperties
  <2>3. \A k \in 1..n : list[k].func # f
    BY <1>1, <1>6
  <2>4. sp[f] = NoTime /\ sp2[f] = t
    BY <1>5, <2>3 DEF Summary
  <2>5. 1..(n + 1) = (1..n) \cup {n + 1}
    BY <1>2
  <2> HIDE DEF new, node, sp2
  <2>6. Summary(new, sp2)
    <3>1. \A j, k \in 1..(n + 1) : new[j].func = new[k].func => j = k
      BY <1>1, <2>2, <2>3, <2>5 DEF Summary
    <3>2. \A k \in 1..(n + 1) : sp2[new[k].func] = new[k].time
      BY <1>1, <1>2, <1>5, <2>2, <2>3, <2>4, <2>5 DEF Summary
    <3>3. \A g \in Func : sp2[g] # NoTime => \E k \in 1..(n + 1) : new[k].func = g
      <4> SUFFICES ASSUME NEW g \in Func, sp2[g] # NoTime
                   PROVE  \E k \in 1..(n + 1) : new[k].func = g
        OBVIOUS
      <4>1. CASE g = f
        BY <1>1, <2>2, <2>5, <4>1
      <4>2. CASE g # f
        <5>1. PICK k \in 1..n : list[k].func = g
          BY <1>5, <4>2 DEF Summary
        <5> QED BY <2>2, <2>5, <5>1
      <4> QED BY <4>1, <4>2
    <3> QED BY <2>2, <3>1, <3>2, <3>3 DEF Summary
  <2>7. SumOf(new) = SumOf(list) + t
    <3> DEFINE u == Times(new)
               d == [k \in 0..n |-> 0]
    <3>1. \A k \in 1..(n + 1) : u[k] = new[k].time /\ u[k] \in Int
      BY <2>2, Nodes
    <3>2. \A k \in 1..n : u[k] = Times(list)[k] /\ u[k] \in Int
      BY <1>2, <2>2, <2>5, <3>1
    <3> HIDE DEF u
    <3>3. SumTo(u, n) = SumTo(Times(list), n)
      <4>1. d \in [0..n -> Int] /\ d[0] = 0 /\ d[n] = 0
        BY <1>2
      <4>2. \A k \in 1..n : u[k] = Times(list)[k] + d[k] - d[k - 1]
        <5> TAKE k \in 1..n
        <5>1. d[k] = 0 /\ d[k - 1] = 0
          BY <1>2
        <5> HIDE DEF d
        <5> QED BY <1>2, <3>2, <5>1
      <4> HIDE DEF d
      <4>3. SumTo(u, n) = SumTo(Times(list), n) + d[n]
        <5> DEFINE v == Times(list)
        <5>1. n \in Nat /\ \A k \in 1..n : v[k] \in Int /\ u[k] \in Int
          BY <1>2, <3>2
        <5>2. \A k \in 1..n : u[k] = v[k] + d[k] - d[k - 1]
          BY <4>2
        <5>3. n \in Nat /\ d \in [0..n -> Int] /\ d[0] = 0
          BY <4>1, <5>1
        <5>4. \A k \in 1..n : v[k] \in Int /\ u[k] \in Int
          BY <5>1
        <5> HIDE DEF n, v
        <5>5. SumTo(u, n) = SumTo(v, n) + d[n]
          BY <5>2, <5>3, <5>4, SumChange
        <5> QED BY <5>5 DEF v
      <4> QED BY <1>4, <4>1, <4>3
    <3>4. SumTo(u, n + 1) = SumTo(u, (n + 1) - 1) + u[n + 1]
      <4>1. n + 1 \in Nat /\ n + 1 \in 1..(n + 1)
        BY <1>2
      <4> QED BY <3>1, <4>1, SumStep
    <3>5. u[n + 1] = t /\ (n + 1) - 1 = n
      BY <1>1, <1>2, <2>2, <2>5, <3>1
    <3> QED BY <2>2, <3>3, <3>4, <3>5 DEF SumOf, u
  <2>8. new # << >>
    BY <1>2, <2>2
  <2> QED BY <2>6, <2>7, <2>8 DEF new, node, sp2
<1>7. CASE I # {}
  <2>1. PICK k \in I : TRUE
    BY <1>7
  <2>2. k \in 1..n /\ list[k].func = f
    BY <1>1, <2>1
  <2>3. I = {k}
    BY <1>1, <2>2 DEF Summary
  <2>4. Min(I) = k
    BY <2>3 DEF Min
  <2>5. new = [list EXCEPT ![k].time = @ + t]
    <3>1. SelectInSeq(list, LAMBDA q : q.func = node.func) = k /\ k # 0
      BY <1>3, <1>7, <2>2, <2>4
    <3>2. new = [list EXCEPT ![k].time = @ + node.time]
      BY <3>1 DEF append
    <3> QED BY <1>1, <3>2
  <2>6. /\ new \in [1..n -> Node] /\ new[k].func = f /\ new[k].time = list[k].time + t
        /\ \A j \in 1..n : j # k => new[j] = list[j]
    <3>1. list \in [1..n -> Node]
      BY <1>1, <1>2, LenProperties
    <3>2. [list[k] EXCEPT !.time = @ + t] \in Node /\ [list[k] EXCEPT !.time = @ + t].func = f
          /\ [list[k] EXCEPT !.time = @ + t].time = list[k].time + t
      BY <1>2, <2>2 DEF Node
    <3>3. new = [list EXCEPT ![k] = [list[k] EXCEPT !.time = @ + t]]
      BY <2>5
    <3> HIDE DEF new
    <3> QED BY <2>2, <3>1, <3>2, <3>3
  <2> HIDE DEF new
  <2>7. new \in Seq(Node) /\ Len(new) = n
    BY <1>2, <2>6, SeqDef, LenProperties
  <2>8. sp[f] = list[k].time /\ sp2[f] = list[k].time + t
    <3>1. sp[f] = list[k].time
      BY <2>2 DEF Summary
    <3>2. sp[f] # NoTime
      BY <1>2, <2>2, <3>1 DEF NoTime
    <3> QED BY <1>5, <3>1, <3>2
  <2> HIDE DEF node, sp2
  <2>9. Summary(new, sp2)
    <3>0. \A j \in 1..n : new[j].func = list[j].func
      BY <2>2, <2>6
    <3>1. \A i, j \in 1..n : new[i].func = new[j].func => i = j
      BY <3>0 DEF Summary
    <3>2. \A j \in 1..n : sp2[new[j].func] = new[j].time
      BY <1>2, <1>5, <2>2, <2>6, <2>8 DEF Summary
    <3>3. ASSUME NEW g \in Func, sp2[g] # NoTime PROVE \E j \in 1..n : new[j].func = g
      <4>1. CASE g = f
        BY <2>2, <3>0, <4>1
      <4>2. CASE g # f
        BY <1>5, <3>0, <3>3, <4>2 DEF Summary
      <4> QED BY <4>1, <4>2
    <3> QED BY <2>7, <3>1, <3>2, <3>3 DEF Summary
  <2>10. SumOf(new) = SumOf(list) + t
    <3> DEFINE u == Times(new)
               s == Times(list)
               d == [j \in 0..n |-> IF j >= k THEN t ELSE 0]
    <3>1. \A j \in 1..n : u[j] = new[j].time /\ u[j] \in Nat /\ u[j] \in Int
      BY <2>7, Nodes
    <3>2. \A j \in 1..n : s[j] = list[j].time /\ s[j] \in Nat /\ s[j] \in Int
      BY <1>2
    <3>3. d \in [0..n -> Int] /\ d[0] = 0 /\ d[n] = t
      BY <1>2, <2>2
    <3> HIDE DEF u, s
    <3>4. ASSUME NEW j \in 1..n PROVE u[j] = s[j] + d[j] - d[j - 1]
      <4>1. /\ d[j] = IF j >= k THEN t ELSE 0
            /\ d[j - 1] = IF j - 1 >= k THEN t ELSE 0
        BY <1>2
      <4> HIDE DEF d
      <4>2. CASE j = k
        BY <2>2, <2>6, <3>1, <3>2, <4>1, <4>2
      <4>3. CASE j # k
        <5>1. u[j] = s[j]
          BY <2>6, <3>1, <3>2, <4>3
        <5>2. d[j] = d[j - 1] /\ d[j] \in Int
          BY <2>2, <4>1, <4>3
        <5> QED BY <3>2, <5>1, <5>2
      <4> QED BY <4>2, <4>3
    <3> HIDE DEF d
    <3>5. SumTo(u, n) = SumTo(s, n) + d[n]
      <4>1. n \in Nat /\ \A j \in 1..n : s[j] \in Int /\ u[j] \in Int
        BY <1>2, <3>1, <3>2
      <4>2. \A j \in 1..n : u[j] = s[j] + d[j] - d[j - 1]
        BY <3>4
      <4> HIDE DEF n
      <4> QED BY <3>3, <4>1, <4>2, SumChange
    <3> QED BY <2>7, <3>3, <3>5 DEF SumOf, u, s
  <2>11. new # << >>
    BY <1>2, <2>2, <2>7
  <2> QED BY <2>9, <2>10, <2>11 DEF new, node, sp2
<1> QED BY <1>6, <1>7
-----------------------------------------------------------------------------
(* s holds the list after each step of the loop over q, up to n, and of    *)
(* the loop over p.                                                        *)
IsRound(s, list, p, n) ==
  s = [q \in p..n |-> IF q = p THEN list ELSE exchange(s[q - 1], p, q)]

IsSort(s, list, n) ==
  s = [p \in 0..n |-> IF p = 0 THEN list ELSE round(s[p - 1], p)]

(* The recursive function in round exists.                                 *)
LEMMA RoundExists ==
  ASSUME NEW list, NEW p \in Nat, NEW n \in Nat, p <= n
  PROVE  \E s : IsRound(s, list, p, n)
<1> DEFINE Bad == { k \in p..n : ~ \E s : IsRound(s, list, p, k) }
<1> SUFFICES ASSUME Bad # {} PROVE FALSE
  OBVIOUS
<1>1. PICK k \in Bad : \A j \in Bad : k <= j
  <2>1. Bad \subseteq Nat
    OBVIOUS
  <2> QED BY <2>1, LeastNatural
<1>2. CASE k = p
  <2>1. IsRound([j \in p..p |-> list], list, p, p)
    BY DEF IsRound
  <2> QED BY <1>2, <2>1
<1>3. CASE k # p
  <2>1. k \in p..n /\ k - 1 \in p..n /\ k - 1 \notin Bad
    BY <1>1, <1>3
  <2>2. PICK s : IsRound(s, list, p, k - 1)
    BY <2>1
  <2> DEFINE u == [j \in p..k |-> IF j = k THEN exchange(s[k - 1], p, k) ELSE s[j]]
  <2>3. ASSUME NEW j \in p..k PROVE u[j] = IF j = p THEN list ELSE exchange(u[j - 1], p, j)
    <3>1. CASE j = k
      <4>1. u[k] = exchange(s[k - 1], p, k) /\ u[k - 1] = s[k - 1]
        BY <2>1
      <4> QED BY <1>3, <3>1, <4>1
    <3>2. CASE j # k
      <4>1. j \in p..(k - 1) /\ u[j] = s[j] /\ (j # p => u[j - 1] = s[j - 1])
        BY <2>1, <3>2
      <4> QED BY <2>2, <4>1 DEF IsRound
    <3> QED BY <3>1, <3>2
  <2>4. IsRound(u, list, p, k)
    BY <2>3 DEF IsRound
  <2> QED BY <2>4
<1> QED BY <1>2, <1>3

(* The recursive function in sort exists.                                  *)
LEMMA SortExists ==
  ASSUME NEW list, NEW n \in Nat
  PROVE  \E s : IsSort(s, list, n)
<1> DEFINE Bad == { k \in 0..n : ~ \E s : IsSort(s, list, k) }
<1> SUFFICES ASSUME Bad # {} PROVE FALSE
  OBVIOUS
<1>1. PICK k \in Bad : \A j \in Bad : k <= j
  <2>1. Bad \subseteq Nat
    OBVIOUS
  <2> QED BY <2>1, LeastNatural
<1>2. CASE k = 0
  <2>1. IsSort([j \in 0..0 |-> list], list, 0)
    BY DEF IsSort
  <2> QED BY <1>2, <2>1
<1>3. CASE k # 0
  <2>1. k \in 0..n /\ k - 1 \in 0..n /\ k - 1 \notin Bad
    BY <1>1, <1>3
  <2>2. PICK s : IsSort(s, list, k - 1)
    BY <2>1
  <2> DEFINE u == [j \in 0..k |-> IF j = k THEN round(s[k - 1], k) ELSE s[j]]
  <2>3. ASSUME NEW j \in 0..k PROVE u[j] = IF j = 0 THEN list ELSE round(u[j - 1], j)
    <3>1. CASE j = k
      <4>1. u[k] = round(s[k - 1], k) /\ u[k - 1] = s[k - 1]
        BY <2>1
      <4> QED BY <1>3, <3>1, <4>1
    <3>2. CASE j # k
      <4>1. j \in 0..(k - 1) /\ u[j] = s[j] /\ (j # 0 => u[j - 1] = s[j - 1])
        BY <2>1, <3>2
      <4> QED BY <2>2, <4>1 DEF IsSort
    <3> QED BY <3>1, <3>2
  <2>4. IsSort(u, list, k)
    BY <2>3 DEF IsSort
  <2> QED BY <2>4
<1> QED BY <1>2, <1>3

(* One exchange in the loop over q: the nodes before p stay in order, and  *)
(* p has at least the time of those compared with it.                      *)
LEMMA ExchangeOrders ==
  ASSUME NEW list \in Seq(Node), NEW p \in 1..Len(list), NEW q \in (p + 1)..Len(list),
         Descending(list, p - 1), \A j \in p..(q - 1) : list[j].time <= list[p].time
  PROVE  /\ Descending(exchange(list, p, q), p - 1)
         /\ \A j \in p..q : exchange(list, p, q)[j].time <= exchange(list, p, q)[p].time
<1> DEFINE n == Len(list)
           new == exchange(list, p, q)
           time(k) == list[k].time
           newtime(k) == new[k].time
<1>1. /\ n \in Nat /\ DOMAIN list = 1..n
      /\ \A k \in 1..n : list[k].time \in Nat
  BY Nodes
<1>2. p \in 1..n /\ q \in 1..n /\ p < q
  BY <1>1
<1>3. CASE list[q].time > list[p].time
  <2>1. /\ Len(new) = n /\ new[p] = list[q] /\ new[q] = list[p]
        /\ \A k \in 1..n : k # p /\ k # q => new[k] = list[k]
    <3>1. new = [list EXCEPT ![p] = list[q], ![q] = list[p]]
      BY <1>3 DEF exchange
    <3>2. list \in [1..n -> Node] /\ \A k \in 1..n : list[k] \in Node
      BY <1>1, LenProperties, Nodes
    <3>3. new \in [1..n -> Node]
      BY <1>2, <3>1, <3>2
    <3>4. Len(new) = n
      BY <1>1, <3>3, SeqDef, LenProperties
    <3> QED BY <1>2, <3>1, <3>2, <3>4
  <2> HIDE DEF new
  <2>2. ASSUME NEW i \in 1..n, NEW j \in 1..n, i <= p - 1, i <= j PROVE new[j].time <= new[i].time
    <3>1. new[i] = list[i] /\ \A k \in 1..n : i <= k => list[k].time <= list[i].time
      BY <1>1, <1>2, <2>1, <2>2 DEF Descending
    <3>2. \E k \in 1..n : i <= k /\ new[j] = list[k]
      <4>1. CASE j = p
        BY <1>1, <1>2, <2>1, <2>2, <4>1
      <4>2. CASE j = q
        BY <1>1, <1>2, <2>1, <2>2, <4>2
      <4>3. CASE j # p /\ j # q
        BY <2>1, <2>2, <4>3
      <4> QED BY <4>1, <4>2, <4>3
    <3> QED BY <3>1, <3>2
  <2>3. ASSUME NEW j \in p..q PROVE new[j].time <= new[p].time
    <3>1. CASE j = p
      BY <1>1, <1>2, <2>1, <3>1
    <3>2. CASE j = q
      BY <1>1, <1>2, <1>3, <2>1, <3>2
    <3>3. CASE j # p /\ j # q
      <4>1. j \in p..(q - 1) /\ j \in 1..n /\ new[j] = list[j]
        BY <1>1, <1>2, <2>1, <3>3
      <4>2. list[j].time <= list[p].time /\ list[j].time \in Nat /\ list[p].time \in Nat
            /\ list[q].time \in Nat
        BY <1>1, <1>2, <4>1
      <4> QED BY <1>3, <2>1, <4>1, <4>2
    <3> QED BY <3>1, <3>2, <3>3
  <2>4. Descending(new, p - 1)
    BY <2>1, <2>2 DEF Descending
  <2> QED BY <2>3, <2>4 DEF new
<1>4. CASE ~(list[q].time > list[p].time)
  <2>1. exchange(list, p, q) = list
    BY <1>4 DEF exchange
  <2>2. ASSUME NEW j \in p..q PROVE list[j].time <= list[p].time
    <3>1. CASE j = q
      BY <1>1, <1>2, <1>4, <3>1
    <3>2. CASE j # q
      <4>1. j \in p..(q - 1)
        BY <1>1, <1>2, <3>2
      <4> QED BY <4>1
    <3> QED BY <3>1, <3>2
  <2> QED BY <2>1, <2>2
<1> QED BY <1>3, <1>4

(* The loop over q puts the most time of the rest into node p.             *)
LEMMA RoundOrders ==
  ASSUME NEW list, NEW sp, Summary(list, sp), NEW p \in 1..Len(list), Descending(list, p - 1)
  PROVE  /\ Summary(round(list, p), sp) /\ Len(round(list, p)) = Len(list)
         /\ SumOf(round(list, p)) = SumOf(list)
         /\ Descending(round(list, p), p)
<1> DEFINE n == Len(list)
           Good(l, q) == /\ Summary(l, sp) /\ Len(l) = n /\ SumOf(l) = SumOf(list)
                         /\ Descending(l, p - 1)
                         /\ \A j \in p..q : l[j].time <= l[p].time
<1>1. /\ n \in Nat /\ p \in Nat /\ p <= n /\ list \in Seq(Node)
      /\ \A k \in 1..n : list[k].time \in Nat
  <2>1. list \in Seq(Node)
    BY DEF Summary
  <2> QED BY <2>1, Nodes
<1>2. PICK s : IsRound(s, list, p, n) /\ round(list, p) = s[n]
  <2>1. round(list, p) = (CHOOSE s : IsRound(s, list, p, n))[n]
    BY DEF round, IsRound
  <2>2. \E s : IsRound(s, list, p, n)
    <3> HIDE DEF n
    <3> QED BY <1>1, RoundExists
  <2> QED BY <2>1, <2>2
<1>3. s[p] = list /\ \A q \in (p + 1)..n : s[q] = exchange(s[q - 1], p, q)
  BY <1>1, <1>2 DEF IsRound
<1>4. Good(s[p], p)
  BY <1>1, <1>3
<1>5. ASSUME NEW q \in (p + 1)..n, Good(s[q - 1], q - 1) PROVE Good(s[q], q)
  <2> DEFINE l == s[q - 1]
  <2>1. /\ l \in Seq(Node) /\ Len(l) = n /\ Summary(l, sp)
        /\ p \in 1..Len(l) /\ q \in 1..Len(l) /\ q \in (p + 1)..Len(l) /\ p # q
        /\ Descending(l, p - 1) /\ \A j \in p..(q - 1) : l[j].time <= l[p].time
    BY <1>1, <1>5 DEF Summary
  <2>2. s[q] = exchange(l, p, q) /\ SumOf(l) = SumOf(list)
    BY <1>3, <1>5
  <2> HIDE DEF l
  <2>3. /\ Summary(exchange(l, p, q), sp) /\ Len(exchange(l, p, q)) = Len(l)
        /\ SumOf(exchange(l, p, q)) = SumOf(l)
    BY <2>1, Exchanged
  <2>4. /\ Descending(exchange(l, p, q), p - 1)
        /\ \A j \in p..q : exchange(l, p, q)[j].time <= exchange(l, p, q)[p].time
    BY <2>1, ExchangeOrders
  <2> QED BY <2>1, <2>2, <2>3, <2>4
<1> HIDE DEF Good
<1>6. Good(s[n], n)
  <2> DEFINE Bad == { q \in p..n : ~Good(s[q], q) }
  <2> SUFFICES ASSUME Bad # {} PROVE FALSE
    BY <1>1
  <2>1. PICK q \in Bad : \A j \in Bad : q <= j
    <3>1. Bad \subseteq Nat
      BY <1>1
    <3> QED BY <3>1, LeastNatural
  <2>2. q # p
    BY <1>4
  <2>3. q \in (p + 1)..n /\ q - 1 \in p..n /\ q - 1 \notin Bad
    BY <1>1, <2>1, <2>2
  <2> QED BY <1>5, <2>3
<1>7. Descending(s[n], p)
  <2>1. /\ Summary(s[n], sp) /\ Len(s[n]) = n /\ Descending(s[n], p - 1)
        /\ \A j \in p..n : s[n][j].time <= s[n][p].time
    BY <1>6 DEF Good
  <2>2. ASSUME NEW i \in 1..n, NEW j \in 1..n, i <= p, i <= j PROVE s[n][j].time <= s[n][i].time
    <3>1. CASE i = p
      BY <1>1, <2>1, <2>2, <3>1
    <3>2. CASE i <= p - 1
      BY <2>1, <2>2, <3>2 DEF Descending
    <3> QED BY <1>1, <2>2, <3>1, <3>2
  <2> QED BY <2>1, <2>2 DEF Descending
<1> QED BY <1>2, <1>6, <1>7 DEF Good

(* sort keeps what the list says and puts it in descending order.          *)
LEMMA Sorted ==
  ASSUME NEW list, NEW sp, Summary(list, sp), list # << >>
  PROVE  /\ Summary(sort(list), sp) /\ SumOf(sort(list)) = SumOf(list)
         /\ Len(sort(list)) = Len(list)
         /\ Descending(sort(list), Len(list))
<1> DEFINE n == Len(list)
           Good(l, p) == /\ Summary(l, sp) /\ Len(l) = n /\ SumOf(l) = SumOf(list)
                         /\ Descending(l, p)
<1>1. /\ n \in Nat \ {0} /\ n - 1 \in Nat /\ list \in Seq(Node)
      /\ \A k \in 1..n : list[k].time \in Nat
  <2>1. list \in Seq(Node)
    BY DEF Summary
  <2>2. n \in Nat /\ n # 0
    BY <2>1, EmptySeq, LenProperties
  <2> QED BY <2>1, <2>2, Nodes
<1>2. PICK s : IsSort(s, list, n - 1) /\ sort(list) = s[n - 1]
  <2>1. sort(list) = (CHOOSE s : IsSort(s, list, n - 1))[n - 1]
    BY DEF sort, IsSort
  <2>2. \E s : IsSort(s, list, n - 1)
    <3> HIDE DEF n
    <3> QED BY <1>1, SortExists
  <2> QED BY <2>1, <2>2
<1>3. s[0] = list /\ \A p \in 1..(n - 1) : s[p] = round(s[p - 1], p)
  BY <1>1, <1>2 DEF IsSort
<1>4. Good(s[0], 0)
  <2>1. Descending(list, 0)
    BY <1>1 DEF Descending
  <2> QED BY <1>3, <2>1
<1>5. ASSUME NEW p \in 1..(n - 1), Good(s[p - 1], p - 1) PROVE Good(s[p], p)
  <2> DEFINE l == s[p - 1]
  <2>1. Summary(l, sp) /\ Len(l) = n /\ p \in 1..Len(l) /\ Descending(l, p - 1)
    BY <1>1, <1>5
  <2>2. s[p] = round(l, p) /\ SumOf(l) = SumOf(list)
    BY <1>3, <1>5
  <2> HIDE DEF l
  <2>3. /\ Summary(round(l, p), sp) /\ Len(round(l, p)) = Len(l)
        /\ SumOf(round(l, p)) = SumOf(l) /\ Descending(round(l, p), p)
    BY <2>1, RoundOrders
  <2> QED BY <2>1, <2>2, <2>3
<1> HIDE DEF Good
<1>6. Good(s[n - 1], n - 1)
  <2> DEFINE Bad == { p \in 0..(n - 1) : ~Good(s[p], p) }
  <2> SUFFICES ASSUME Bad # {} PROVE FALSE
    BY <1>1
  <2>1. PICK p \in Bad : \A j \in Bad : p <= j
    <3>1. Bad \subseteq Nat
      BY <1>1
    <3> QED BY <3>1, LeastNatural
  <2>2. p # 0
    BY <1>4
  <2>3. p \in 1..(n - 1) /\ p - 1 \in 0..(n - 1) /\ p - 1 \notin Bad
    BY <1>1, <2>1, <2>2
  <2> QED BY <1>5, <2>3
<1>7. Descending(s[n - 1], n)
  <2> DEFINE l == s[n - 1]
  <2>1. Summary(l, sp) /\ Len(l) = n /\ Descending(l, n - 1)
    BY <1>6 DEF Good
  <2>2. l \in Seq(Node)
    BY <2>1 DEF Summary
  <2>3. \A k \in 1..n : l[k].time \in Nat
    BY <2>1, <2>2, Nodes
  <2> HIDE DEF l
  <2>4. ASSUME NEW i \in 1..n, NEW j \in 1..n, i <= n, i <= j PROVE l[j].time <= l[i].time
    <3>1. CASE i = j
      BY <2>3, <3>1
    <3>2. CASE i # j
      <4>1. i <= n - 1
        BY <1>1, <2>4, <3>2
      <4> QED BY <2>1, <2>4, <4>1 DEF Descending
    <3> QED BY <3>1, <3>2
  <2> QED BY <2>1, <2>4 DEF Descending, l
<1> QED BY <1>2, <1>6, <1>7 DEF Good
-----------------------------------------------------------------------------
(* What the list of the parent is while it reads, and what a display shows *)
(* is made from: all times read, summed up and sorted.                     *)
Digest(list) ==
  /\ Summary(list, spent)
  /\ total_time = SumOf(list)
  /\ Descending(list, Len(list))

SperfTypes ==
  /\ left \in Time \cup {NoTime, NoNumber}
  /\ parent = "find time" => func \in Func
  /\ spent \in [Func -> Nat \cup {NoTime}]
  /\ total_time \in Nat /\ reported \in Nat /\ invented \in Nat

(* A time that is left in s has not been counted yet.                      *)
LeftInv == total_time + (IF left \in Time THEN left ELSE 0) <= reported + invented

HeadInv == parent # "exit 0" => Digest(head)

(* Nothing was recorded since the last display.                            *)
ShownInv == shown # << >> => \E list : Digest(list) /\ shown = show(list, total_time)

SperfInv == SperfTypes /\ LeftInv /\ HeadInv /\ ShownInv

(* Times are natural numbers, and NoTime and NoNumber are none.            *)
LEMMA TimeIsNat ==
  /\ Time \subseteq Nat
  /\ NoTime \notin Nat /\ NoTime \in Int
  /\ NoNumber \notin Nat /\ NoNumber \in Int /\ NoNumber # NoTime
BY SperfAssumption DEF Time, NoTime, NoNumber

(* The invariant holds at the beginning.                                   *)
LEMMA SperfInitInv == SperfInit => SperfInv
<1> SUFFICES ASSUME SperfInit PROVE SperfInv
  OBVIOUS
<1>1. SperfTypes /\ LeftInv /\ ShownInv
  BY TimeIsNat DEF SperfInit, SperfTypes, LeftInv, ShownInv
<1>2. Digest(<< >>)
  <2>1. << >> \in Seq(Node) /\ Len(<< >>) = 0
    BY EmptySeq
  <2>2. SumOf(<< >>) = 0
    <3>1. \A k \in 1..0 : Times(<< >>)[k] \in Int
      OBVIOUS
    <3>2. SumTo(Times(<< >>), 0) = 0
      BY <3>1, SumStep
    <3> QED BY <2>1, <3>2 DEF SumOf
  <2>3. Summary(<< >>, spent)
    BY <2>1 DEF Summary, SperfInit
  <2>4. Descending(<< >>, Len(<< >>))
    BY <2>1 DEF Descending
  <2> QED BY <2>2, <2>3, <2>4 DEF Digest, SperfInit
<1> QED BY <1>1, <1>2 DEF SperfInv, HeadInv, SperfInit

(* A step that leaves the list and its history alone.                      *)
LEMMA DigestStays ==
  ASSUME UNCHANGED <<spent, total_time>>, NEW list
  PROVE  Digest(list)' <=> Digest(list)
BY DEF Digest, Summary

(* The rest of the loop body, for a time that was not counted before or    *)
(* for no number.                                                          *)
LEMMA recordInv ==
  ASSUME SperfInv, Digest(head), NEW f \in Func, NEW x \in Time \cup {NoNumber}, record(f, x),
         reported' \in Nat, total_time + (IF x \in Time THEN x ELSE 0) <= reported' + invented
  PROVE  SperfInv'
<1> DEFINE Added(t) ==
             /\ total_time' = total_time + t
             /\ invented' = IF x = NoNumber THEN invented + t ELSE invented
             /\ clear(x)
             /\ head' = sort(append(head, [func |-> f, time |-> t]))
             /\ spent' = [spent EXCEPT ![f] = IF @ = NoTime THEN t ELSE @ + t]
             /\ shown' \in {<< >>, show(head', total_time')}
             /\ func' = NoName
             /\ parent' = "fgets"
<1>0. PICK t \in sscanf(x) : Added(t)
  BY DEF record
<1>1. t \in Nat /\ t \in Time /\ (x # NoNumber => t = x)
  BY TimeIsNat DEF sscanf
<1> DEFINE node == [func |-> f, time |-> t]
           new == append(head, node)
<1>2. /\ total_time' = total_time + t /\ left' = NoTime /\ head' = sort(new)
      /\ invented' = IF x = NoNumber THEN invented + t ELSE invented
      /\ spent' = [spent EXCEPT ![f] = IF @ = NoTime THEN t ELSE @ + t]
      /\ shown' \in {<< >>, show(head', total_time')}
      /\ parent' = "fgets"
  BY <1>0 DEF clear
<1> HIDE DEF Added
<1>3. Digest(head)'
  <2>1. Summary(head, spent) /\ total_time = SumOf(head)
    BY DEF Digest
  <2>2. spent \in [Func -> Nat \cup {NoTime}]
    BY DEF SperfInv, SperfTypes
  <2>3. Summary(new, spent') /\ SumOf(new) = SumOf(head) + t /\ new # << >>
    BY <1>1, <1>2, <2>1, <2>2, AppendedTo
  <2> HIDE DEF new
  <2>4. /\ Summary(sort(new), spent') /\ SumOf(sort(new)) = SumOf(new)
        /\ Len(sort(new)) = Len(new) /\ Descending(sort(new), Len(new))
    BY <2>3, Sorted
  <2>5. Summary(head', spent') /\ total_time' = SumOf(head') /\ Descending(head', Len(head'))
    BY <1>2, <2>1, <2>3, <2>4
  <2> QED BY <2>5 DEF Digest
<1>4. SperfTypes'
  <2>0. total_time' = total_time + t /\ left' = NoTime
        /\ spent' = [spent EXCEPT ![f] = IF @ = NoTime THEN t ELSE @ + t]
    BY <1>2
  <2>1. spent \in [Func -> Nat \cup {NoTime}] /\ total_time \in Nat /\ invented \in Nat
    BY DEF SperfInv, SperfTypes
  <2>2. total_time' \in Nat /\ left' \in Time \cup {NoTime, NoNumber} /\ invented' \in Nat
    BY <1>1, <1>2, <2>1, <2>0
  <2>3. (IF spent[f] = NoTime THEN t ELSE spent[f] + t) \in Nat
    BY <1>1, <2>1
  <2>4. spent' \in [Func -> Nat \cup {NoTime}]
    BY <2>1, <2>3, <2>0
  <2> QED BY <1>2, <2>2, <2>4 DEF SperfTypes
<1>5. LeftInv'
  <2>1. total_time' = total_time + t /\ left' = NoTime /\ total_time \in Nat
        /\ invented' = (IF x = NoNumber THEN invented + t ELSE invented) /\ invented \in Nat
    BY <1>2 DEF SperfInv, SperfTypes
  <2>2. x = NoNumber \/ (x \in Time /\ x # NoNumber /\ t = x)
    BY <1>1
  <2>3. total_time' <= reported' + invented'
    <3> DEFINE y == IF x \in Time THEN x ELSE 0
    <3>1. total_time + y <= reported' + invented
      OBVIOUS
    <3>2. (x = NoNumber => y = 0) /\ (x # NoNumber => y = t)
      BY <1>1, <2>2, TimeIsNat
    <3> HIDE DEF y
    <3>3. CASE x = NoNumber
      <4>1. y = 0 /\ invented' = invented + t
        BY <2>1, <3>2, <3>3
      <4>2. \A a, b, c, d \in Nat : a + 0 <= c + d => a + b <= c + (d + b)
        OBVIOUS
      <4>3. total_time \in Nat /\ invented \in Nat /\ total_time' = total_time + t
        BY <2>1
      <4> QED BY <1>1, <3>1, <4>1, <4>2, <4>3
    <3>4. CASE x # NoNumber
      <4>1. y = t /\ invented' = invented
        BY <2>1, <3>2, <3>4
      <4> QED BY <2>1, <3>1, <4>1
    <3> QED BY <3>3, <3>4
  <2> QED BY <2>1, <2>3, TimeIsNat DEF LeftInv
<1>6. HeadInv'
  BY <1>3 DEF HeadInv
<1>7. ShownInv'
  <2> SUFFICES ASSUME shown' # << >>
               PROVE  (\E list : Digest(list) /\ shown = show(list, total_time))'
    BY DEF ShownInv
  <2>1. shown' = show(head', total_time')
    BY <1>2
  <2>2. Digest(head)' <=> /\ Summary(head', spent') /\ total_time' = SumOf(head')
                          /\ Descending(head', Len(head'))
    BY DEF Digest
  <2>3. \E list : /\ Summary(list, spent') /\ total_time' = SumOf(list)
                  /\ Descending(list, Len(list)) /\ shown' = show(list, total_time')
    BY <1>3, <2>1, <2>2
  <2> QED BY <2>3 DEF Digest
<1> QED BY <1>4, <1>5, <1>6, <1>7 DEF SperfInv

(* The chunk that fgets reads: what was reported grows by its time.        *)
LEMMA fgetsReported ==
  ASSUME SperfInv, NEW c \in Chunk, fgets(c)
  PROVE  /\ c.time \in Time \cup {NoTime, NoNumber} /\ reported \in Nat /\ reported' \in Nat
         /\ reported' = IF c.time \in Time THEN reported + c.time ELSE reported
<1> DEFINE t == c.time
<1>1. t \in Time \cup {NoTime, NoNumber} /\ reported \in Nat
  BY DEF Chunk, SperfInv, SperfTypes
<1>2. reported' = IF t \in Time THEN reported + t ELSE reported
  BY DEF fgets
<1> HIDE DEF t
<1>3. reported' \in Nat
  BY <1>1, <1>2, TimeIsNat
<1> QED BY <1>1, <1>2, <1>3 DEF t

(* A chunk is skipped.                                                     *)
LEMMA fgets_skipInv ==
  ASSUME SperfInv, fgets_skip
  PROVE  SperfInv'
<1>1. PICK c \in Chunk : fgets(c) /\ left' \in last(c)
  BY DEF fgets_skip
<1>2. UNCHANGED <<parent, func, head, total_time, shown, spent, invented>>
  BY DEF fgets_skip
<1> DEFINE x == c.time
<1>3. /\ x \in Time \cup {NoTime, NoNumber} /\ reported \in Nat /\ reported' \in Nat
      /\ reported' = IF x \in Time THEN reported + x ELSE reported
  BY <1>1, fgetsReported
<1>4. left' = x \/ (left' = left /\ left # NoTime)
  BY <1>1 DEF last
<1> HIDE DEF x
<1>5. SperfTypes'
  BY <1>2, <1>3, <1>4 DEF SperfInv, SperfTypes
<1>6. LeftInv'
  <2>1. total_time \in Nat /\ invented \in Nat /\ left \in Time \cup {NoTime, NoNumber} /\ LeftInv
    BY DEF SperfInv, SperfTypes
  <2>2. total_time' = total_time /\ invented' = invented
    BY <1>2
  <2> QED BY <1>3, <1>4, <2>1, <2>2, TimeIsNat DEF LeftInv
<1>7. HeadInv' /\ ShownInv'
  BY <1>2 DEF SperfInv, HeadInv, ShownInv, Digest, Summary
<1> QED BY <1>5, <1>6, <1>7 DEF SperfInv

(* A call is read, with a time or without.                                 *)
LEMMA fgets_callInv ==
  ASSUME SperfInv, fgets_call
  PROVE  SperfInv'
<1>0. PICK c \in Chunk : \E t \in last(c) :
        /\ fgets(c)
        /\ c.func \in Func
        /\ \/ /\ t # NoTime
              /\ record(c.func, t)
           \/ /\ t = NoTime
              /\ left' = NoTime
              /\ func' = c.func
              /\ parent' = "find time"
              /\ UNCHANGED <<head, total_time, shown, spent, invented>>
  BY DEF fgets_call
<1>1. PICK t \in last(c) :
        /\ fgets(c)
        /\ c.func \in Func
        /\ \/ /\ t # NoTime
              /\ record(c.func, t)
           \/ /\ t = NoTime
              /\ left' = NoTime
              /\ func' = c.func
              /\ parent' = "find time"
              /\ UNCHANGED <<head, total_time, shown, spent, invented>>
  BY <1>0
<1>2. parent = "fgets"
  BY DEF fgets_call
<1> DEFINE x == c.time
<1>3. /\ x \in Time \cup {NoTime, NoNumber} /\ reported \in Nat /\ reported' \in Nat
      /\ reported' = IF x \in Time THEN reported + x ELSE reported
  BY <1>1, fgetsReported
<1>4. t = x \/ (t = left /\ left # NoTime)
  BY <1>1 DEF last
<1> HIDE DEF x
<1>5. total_time \in Nat /\ invented \in Nat /\ left \in Time \cup {NoTime, NoNumber} /\ LeftInv
  BY DEF SperfInv, SperfTypes
<1>6. CASE t # NoTime /\ record(c.func, t)
  <2>1. t \in Time \cup {NoNumber}
    BY <1>3, <1>4, <1>5, <1>6
  <2>2. total_time + (IF t \in Time THEN t ELSE 0) <= reported' + invented
    BY <1>3, <1>4, <1>5, <2>1, TimeIsNat DEF LeftInv
  <2>3. Digest(head)
    BY <1>2 DEF SperfInv, HeadInv
  <2> QED BY <1>1, <1>3, <1>6, <2>1, <2>2, <2>3, recordInv
<1>7. CASE /\ left' = NoTime /\ func' = c.func /\ parent' = "find time"
           /\ UNCHANGED <<head, total_time, shown, spent, invented>>
  <2>1. SperfTypes'
    BY <1>1, <1>3, <1>7 DEF SperfInv, SperfTypes
  <2>2. LeftInv'
    <3>1. left' = NoTime /\ total_time' = total_time /\ invented' = invented
      BY <1>7
    <3>2. total_time <= reported + invented
      BY <1>3, <1>5, TimeIsNat DEF LeftInv
    <3>3. total_time <= reported' + invented
      BY <1>3, <1>5, <3>2, TimeIsNat
    <3> QED BY <1>5, <3>1, <3>3, TimeIsNat DEF LeftInv
  <2>3. HeadInv' /\ ShownInv'
    BY <1>2, <1>7 DEF SperfInv, HeadInv, ShownInv, Digest, Summary
  <2> QED BY <2>1, <2>2, <2>3 DEF SperfInv
<1> QED BY <1>1, <1>6, <1>7

(* The parent reads on until it finds a time.                              *)
LEMMA find_timeInv ==
  ASSUME SperfInv, find_time
  PROVE  SperfInv'
<1>1. PICK c \in Chunk :
        /\ fgets(c)
        /\ IF c.time # NoTime
           THEN record(func, c.time)
           ELSE UNCHANGED <<parent, left, func, head, total_time, shown, spent, invented>>
  BY DEF find_time
<1>2. parent = "find time" /\ func \in Func
  BY DEF find_time, SperfInv, SperfTypes
<1> DEFINE x == c.time
<1>3. /\ x \in Time \cup {NoTime, NoNumber} /\ reported \in Nat /\ reported' \in Nat
      /\ reported' = IF x \in Time THEN reported + x ELSE reported
  BY <1>1, fgetsReported
<1>4. total_time \in Nat /\ invented \in Nat /\ left \in Time \cup {NoTime, NoNumber} /\ LeftInv
  BY DEF SperfInv, SperfTypes
<1> HIDE DEF x
<1>5. CASE x # NoTime
  <2>1. x \in Time \cup {NoNumber}
    BY <1>3, <1>5
  <2>2. total_time <= reported + invented
    BY <1>3, <1>4, TimeIsNat DEF LeftInv
  <2>3. total_time + (IF x \in Time THEN x ELSE 0) <= reported' + invented
    BY <1>3, <1>4, <2>1, <2>2, TimeIsNat
  <2>4. Digest(head)
    BY <1>2 DEF SperfInv, HeadInv
  <2> QED BY <1>1, <1>2, <1>3, <1>5, <2>1, <2>3, <2>4, recordInv DEF x
<1>6. CASE x = NoTime
  <2>1. UNCHANGED <<parent, left, func, head, total_time, shown, spent, reported, invented>>
    BY <1>1, <1>3, <1>6, TimeIsNat DEF x
  <2> QED BY <2>1 DEF SperfInv, SperfTypes, LeftInv, HeadInv, ShownInv, Digest, Summary
<1> QED BY <1>5, <1>6

(* After undefined behaviour nothing is counted any more.                  *)
LEMMA undefinedInv ==
  ASSUME SperfInv, fgets_overrun \/ sscanf_failed
  PROVE  SperfInv'
<1>1. PICK c \in Chunk : fgets(c)
  BY DEF fgets_overrun, sscanf_failed
<1>2. /\ parent # "exit 0" /\ parent' = "undefined"
      /\ UNCHANGED <<left, func, head, total_time, shown, spent, invented>>
  BY DEF fgets_overrun, sscanf_failed
<1> DEFINE x == c.time
<1>3. /\ x \in Time \cup {NoTime, NoNumber} /\ reported \in Nat /\ reported' \in Nat
      /\ reported' = IF x \in Time THEN reported + x ELSE reported
  BY <1>1, fgetsReported
<1> HIDE DEF x
<1>4. reported <= reported'
  BY <1>3, TimeIsNat
<1>5. SperfTypes'
  BY <1>2, <1>3 DEF SperfInv, SperfTypes
<1>6. LeftInv'
  <2>1. total_time \in Nat /\ invented \in Nat /\ left \in Time \cup {NoTime, NoNumber} /\ LeftInv
    BY DEF SperfInv, SperfTypes
  <2>2. total_time' = total_time /\ invented' = invented /\ left' = left
    BY <1>2
  <2> QED BY <1>3, <1>4, <2>1, <2>2, TimeIsNat DEF LeftInv
<1>7. HeadInv' /\ ShownInv'
  BY <1>2 DEF SperfInv, HeadInv, ShownInv, Digest, Summary
<1> QED BY <1>5, <1>6, <1>7 DEF SperfInv

(* The end of the file: the last display.                                  *)
LEMMA fgets_eofInv ==
  ASSUME SperfInv, fgets_eof
  PROVE  SperfInv'
<1>1. parent = "fgets" /\ UNCHANGED <<left, func, total_time, spent, reported, invented>>
  BY DEF fgets_eof
<1>2. Digest(head)
  BY <1>1 DEF SperfInv, HeadInv
<1>3. CASE head = << >>
  <2>1. parent' = "aborted" /\ UNCHANGED <<head, shown>>
    BY <1>3 DEF fgets_eof
  <2> QED BY <1>1, <2>1 DEF SperfInv, SperfTypes, LeftInv, HeadInv, ShownInv, Digest, Summary
<1>4. CASE head # << >>
  <2>1. shown' = show(sort(head), total_time) /\ parent' = "exit 0"
    BY <1>4 DEF fgets_eof
  <2>2. Summary(head, spent) /\ total_time = SumOf(head)
    BY <1>2 DEF Digest
  <2>3. /\ Summary(sort(head), spent) /\ SumOf(sort(head)) = SumOf(head)
        /\ Len(sort(head)) = Len(head) /\ Descending(sort(head), Len(head))
    BY <1>4, <2>2, Sorted
  <2>4. Digest(sort(head))
    BY <2>2, <2>3 DEF Digest
  <2>5. \E list : Digest(list) /\ shown' = show(list, total_time)
    BY <2>1, <2>4
  <2>6. ShownInv'
    BY <1>1, <2>5 DEF ShownInv, Digest, Summary
  <2>7. SperfTypes' /\ LeftInv' /\ HeadInv'
    BY <1>1, <2>1 DEF SperfInv, SperfTypes, LeftInv, HeadInv
  <2> QED BY <2>6, <2>7 DEF SperfInv
<1> QED BY <1>3, <1>4

(* Every step keeps the invariant.                                         *)
LEMMA SperfStepInv == SperfInv /\ [SperfNext]_svars => SperfInv'
<1> SUFFICES ASSUME SperfInv, [SperfNext]_svars PROVE SperfInv'
  OBVIOUS
<1>1. ASSUME UNCHANGED pvars, parent' \notin {"find time", "exit 0"} \/ parent' = parent,
             parent = "exit 0" => parent' = "exit 0"
      PROVE  SperfInv'
  BY <1>1 DEF pvars, SperfInv, SperfTypes, LeftInv, HeadInv, ShownInv, Digest, Summary
<1>2. CASE pipe_failed \/ pipe_opens
  BY <1>1, <1>2 DEF pipe_failed, pipe_opens
<1>3. CASE fork_failed \/ fork
  BY <1>1, <1>3 DEF fork_failed, fork
<1>4. CASE Child
  <2>1. UNCHANGED <<parent, pvars>>
    BY <1>4 DEF Child, execve, child_returns, strace_writes, strace_ends
  <2> QED BY <1>1, <2>1
<1>5. CASE close_write
  BY <1>1, <1>5 DEF close_write
<1>6. CASE UNCHANGED svars
  BY <1>1, <1>6 DEF svars, pvars
<1> QED BY <1>2, <1>3, <1>4, <1>5, <1>6, fgets_skipInv, fgets_callInv, find_timeInv, undefinedInv, fgets_eofInv
        DEF SperfNext, Start, Parent

(* The invariant holds for ever.                                           *)
THEOREM SperfCorrect == SperfSpec => []SperfInv
BY SperfInitInv, SperfStepInv, PTL DEF SperfSpec

(* CountedOnce: no time that strace reported is counted twice, and what is *)
(* counted beyond the times reported is what failing sscanf's left in time. *)
THEOREM SperfCountedOnce == SperfSpec => []CountedOnce
<1>1. SperfInv => CountedOnce
  <2> SUFFICES ASSUME SperfInv PROVE CountedOnce
    OBVIOUS
  <2>1. /\ left \in Time \cup {NoTime, NoNumber} /\ LeftInv
        /\ total_time \in Nat /\ reported \in Nat /\ invented \in Nat
    BY DEF SperfInv, SperfTypes
  <2> QED BY <2>1, TimeIsNat DEF LeftInv, CountedOnce
<1> QED BY <1>1, SperfCorrect, PTL

(* The functions of the first m nodes are m functions, and those of all    *)
(* nodes are the ones with a time.                                         *)
LEMMA FunctionsListed ==
  ASSUME NEW list, NEW sp \in [Func -> Nat \cup {NoTime}], Summary(list, sp),
         NEW m \in 0..Len(list)
  PROVE  /\ Cardinality({ list[k].func : k \in 1..m }) = m
         /\ { list[k].func : k \in 1..Len(list) } = { f \in Func : sp[f] # NoTime }
<1> DEFINE S == { list[k].func : k \in 1..m }
           g == [k \in 1..m |-> list[k].func]
<1>1. /\ Len(list) \in Nat
      /\ \A k \in 1..Len(list) : list[k].func \in Func /\ list[k].time \in Nat
  <2>1. list \in Seq(Node)
    BY DEF Summary
  <2> QED BY <2>1, Nodes
<1>2. m \in Nat /\ \A k \in 1..m : k \in 1..Len(list)
  BY <1>1
<1>3. g \in Bijection(1..m, S)
  <2>1. g \in [1..m -> S] /\ \A s \in S : \E k \in 1..m : g[k] = s
    OBVIOUS
  <2>2. \A j, k \in 1..m : g[j] = g[k] => j = k
    BY <1>2 DEF Summary
  <2> HIDE DEF g, S
  <2> QED BY <2>1, <2>2 DEF Bijection, Injection, Surjection, IsInjective
<1>4. Cardinality(S) = m
  <2>1. ExistsBijection(1..m, S)
    BY <1>3 DEF ExistsBijection
  <2> HIDE DEF S
  <2> QED BY <1>2, <2>1, FS_CountingElements
<1>5. ASSUME NEW f \in Func, sp[f] # NoTime PROVE f \in { list[k].func : k \in 1..Len(list) }
  BY <1>5 DEF Summary
<1>6. ASSUME NEW k \in 1..Len(list) PROVE list[k].func \in Func /\ sp[list[k].func] # NoTime
  BY <1>1, TimeIsNat DEF Summary
<1> QED BY <1>4, <1>5, <1>6

(* What Digest says of a list, in the words of ListIsSummary.              *)
LEMMA DigestIsSummary ==
  ASSUME Digest(head), spent \in [Func -> Nat \cup {NoTime}]
  PROVE  /\ \A f \in Func : spent[f] # NoTime =>
              Cardinality({ k \in DOMAIN head : head[k] = [func |-> f, time |-> spent[f]] }) = 1
         /\ Len(head) = Cardinality({ f \in Func : spent[f] # NoTime })
         /\ total_time = SumTo(Times(head), Len(head))
         /\ \A k \in 2..Len(head) : head[k].time <= head[k - 1].time
<1>1. Summary(head, spent) /\ total_time = SumOf(head) /\ Descending(head, Len(head))
  BY DEF Digest
<1>2. /\ Len(head) \in Nat /\ DOMAIN head = 1..Len(head)
      /\ \A k \in 1..Len(head) : head[k] \in Node
  <2>1. head \in Seq(Node)
    BY <1>1 DEF Summary
  <2> QED BY <2>1, Nodes
<1>3. ASSUME NEW f \in Func, spent[f] # NoTime
      PROVE  Cardinality({ k \in DOMAIN head : head[k] = [func |-> f, time |-> spent[f]] }) = 1
  <2>1. PICK k \in 1..Len(head) : head[k].func = f
    BY <1>1, <1>3 DEF Summary
  <2>2. head[k] = [func |-> f, time |-> spent[f]]
    BY <1>1, <1>2, <2>1 DEF Summary, Node
  <2>3. ASSUME NEW j \in 1..Len(head), head[j] = [func |-> f, time |-> spent[f]] PROVE j = k
    <3>1. head[j].func = f
      BY <2>3
    <3> QED BY <1>1, <2>1, <3>1 DEF Summary
  <2>4. { j \in DOMAIN head : head[j] = [func |-> f, time |-> spent[f]] } = {k}
    BY <1>2, <2>2, <2>3
  <2> QED BY <2>4, FS_Singleton
<1>4. Len(head) = Cardinality({ f \in Func : spent[f] # NoTime })
  <2>1. Len(head) \in 0..Len(head)
    BY <1>2
  <2> QED BY <1>1, <2>1, FunctionsListed
<1>5. ASSUME NEW k \in 2..Len(head) PROVE head[k].time <= head[k - 1].time
  <2>1. k - 1 \in 1..Len(head) /\ k \in 1..Len(head) /\ k - 1 <= Len(head) /\ k - 1 <= k
    BY <1>2
  <2> QED BY <1>1, <2>1 DEF Descending
<1> QED BY <1>1, <1>3, <1>4, <1>5 DEF SumOf

(* ListIsSummary: while the parent reads, the list has one element for     *)
(* each function that was called, with all its time, in descending order,  *)
(* and the times add up to total_time.  It holds for any number of chunks, *)
(* functions and repeated calls: append and sort are proved correct.       *)
THEOREM SperfListIsSummary == SperfSpec => []ListIsSummary
<1>1. SperfInv => ListIsSummary
  <2> SUFFICES ASSUME SperfInv, parent \in {"fgets", "find time"} PROVE ListIsSummary
    BY DEF ListIsSummary
  <2>1. Digest(head) /\ spent \in [Func -> Nat \cup {NoTime}]
    BY DEF SperfInv, HeadInv, SperfTypes
  <2> QED BY <2>1, DigestIsSummary DEF ListIsSummary
<1> QED BY <1>1, SperfCorrect, PTL

(* A share rounded down.                                                   *)
LEMMA Share ==
  ASSUME NEW time \in Nat, NEW total \in Nat, total > 0
  PROVE  /\ (time * 100) \div total \in Int
         /\ ((time * 100) \div total) * total <= 100 * time
<1> DEFINE x == time * 100
<1>1. x \in Nat /\ x = 100 * time
  OBVIOUS
<1> HIDE DEF x
<1>2. x \div total \in Int /\ (x \div total) * total <= x
  BY <1>1
<1> QED BY <1>1, <1>2 DEF x

(* ShowCorrect: every display shows the functions with most time, with     *)
(* their shares, which do not exceed 100 in sum.                           *)
THEOREM SperfShowCorrect == SperfSpec => []ShowCorrect
<1>1. SperfInv => ShowCorrect
  <2> DEFINE called == { f \in Func : spent[f] # NoTime }
             listed == { shown[k].func : k \in DOMAIN shown }
             percents == [k \in DOMAIN shown |-> shown[k].percent]
  <2> SUFFICES ASSUME SperfInv, shown # << >>, total_time > 0
               PROVE  /\ Cardinality(listed) = Len(shown)
                      /\ Len(shown) = Max_Output_Num \/ listed = called
                      /\ \A f \in called \ listed, g \in listed : spent[f] <= spent[g]
                      /\ \A k \in DOMAIN shown :
                           shown[k].percent = (spent[shown[k].func] * 100) \div total_time
                      /\ SumTo(percents, Len(shown)) <= 100
    BY DEF ShowCorrect
  <2>1. PICK list : Digest(list) /\ shown = show(list, total_time)
    BY DEF SperfInv, ShownInv
  <2>2. /\ Summary(list, spent) /\ total_time = SumOf(list) /\ Descending(list, Len(list))
        /\ spent \in [Func -> Nat \cup {NoTime}] /\ total_time \in Nat
    BY <2>1 DEF SperfInv, Digest, SperfTypes
  <2> DEFINE n == Len(list)
             m == IF n < Max_Output_Num THEN n ELSE Max_Output_Num
  <2>3. /\ n \in Nat
        /\ \A k \in 1..n : /\ list[k].func \in Func /\ list[k].time \in Nat
                           /\ Times(list)[k] = list[k].time
    <3>1. list \in Seq(Node)
      BY <2>2 DEF Summary
    <3> QED BY <3>1, Nodes
  <2>4. m \in Nat /\ m \in 0..n /\ m <= n /\ (m = n \/ m = Max_Output_Num)
    <3>1. Max_Output_Num \in Nat
      BY SperfAssumption
    <3> QED BY <2>3, <3>1
  <2>5. /\ DOMAIN shown = 1..m /\ Len(shown) = m
        /\ \A k \in 1..m : /\ shown[k].func = list[k].func
                           /\ shown[k].percent = (list[k].time * 100) \div total_time
    <3>1. shown = [ k \in 1..m |->
                      [ func    |-> list[k].func,
                        percent |-> IF total_time = 0 THEN NaN
                                    ELSE (list[k].time * 100) \div total_time ] ]
      BY <2>1 DEF show
    <3>2. total_time # 0
      BY <2>2
    <3> HIDE DEF m, n
    <3>3. DOMAIN shown = 1..m
      BY <3>1
    <3>4. Len(shown) = m
      <4>1. shown \in Seq({ shown[k] : k \in 1..m })
        <5>1. shown \in [1..m -> { shown[k] : k \in 1..m }]
          BY <3>1
        <5> QED BY <2>4, <5>1, SeqDef
      <4> QED BY <2>4, <3>3, <4>1, LenProperties
    <3> QED BY <3>1, <3>2, <3>3, <3>4
  <2> HIDE DEF m
  <2>6. listed = { list[k].func : k \in 1..m }
    BY <2>5
  <2>7. \A k \in 1..m : k \in 1..n
    BY <2>3, <2>4
  <2>8. Cardinality(listed) = Len(shown) /\ called = { list[k].func : k \in 1..n }
    <3>1. /\ Cardinality({ list[k].func : k \in 1..m }) = m
          /\ { list[k].func : k \in 1..n } = { f \in Func : spent[f] # NoTime }
      BY <2>2, <2>4, FunctionsListed
    <3> QED BY <2>5, <2>6, <3>1
  <2>9. m = n => listed = called
    BY <2>6, <2>8
  <2>10. ASSUME NEW f \in called \ listed, NEW g \in listed PROVE spent[f] <= spent[g]
    <3>1. PICK j \in 1..n : list[j].func = f
      BY <2>8
    <3>2. PICK i \in 1..m : list[i].func = g
      BY <2>6
    <3>3. j \notin 1..m
      BY <2>6, <2>10, <3>1
    <3>4. i \in 1..n /\ i <= n /\ i <= j
      BY <2>3, <2>4, <3>3
    <3>5. list[j].time <= list[i].time
      BY <2>2, <3>4 DEF Descending
    <3> QED BY <2>2, <3>1, <3>2, <3>4, <3>5 DEF Summary
  <2>11. ASSUME NEW k \in DOMAIN shown
         PROVE  shown[k].percent = (spent[shown[k].func] * 100) \div total_time
    BY <2>2, <2>5, <2>7 DEF Summary
  <2>12. SumTo(percents, Len(shown)) <= 100
    <3> DEFINE t == Times(list)
               u == percents
    <3>1. ASSUME NEW k \in 1..m
          PROVE  t[k] \in Int /\ u[k] \in Int /\ u[k] * total_time <= 100 * t[k]
      <4>1. /\ list[k].time \in Nat /\ t[k] = list[k].time
            /\ u[k] = (list[k].time * 100) \div total_time
        BY <2>3, <2>5, <2>7
      <4> DEFINE time == list[k].time
      <4> HIDE DEF time
      <4>2. time \in Nat /\ t[k] = time /\ u[k] = (time * 100) \div total_time
        BY <4>1 DEF time
      <4>3. /\ (time * 100) \div total_time \in Int
            /\ ((time * 100) \div total_time) * total_time <= 100 * time
        BY <2>2, <4>2, Share
      <4> QED BY <4>2, <4>3
    <3>2. \A k \in 1..n : t[k] \in Nat /\ t[k] \in Int
      BY <2>3
    <3>3. total_time = SumTo(t, n)
      BY <2>2 DEF SumOf
    <3> HIDE DEF t, u, n
    <3>4. SumTo(u, m) * total_time <= 100 * SumTo(t, m)
      BY <2>2, <2>4, <3>1, SumOfShares
    <3>5. SumTo(t, m) <= SumTo(t, n)
      BY <2>3, <2>4, <3>2, SumGrows
    <3>6. SumTo(u, m) \in Int /\ SumTo(t, m) \in Int
      <4>1. m \in 0..m
        BY <2>4
      <4>2. SumTo(u, m) \in Int
        BY <2>4, <3>1, <4>1, SumStep
      <4>3. SumTo(t, m) \in Int
        BY <2>4, <3>1, <4>1, SumStep
      <4> QED BY <4>2, <4>3
    <3>7. SumTo(u, m) * total_time <= 100 * total_time
      BY <2>2, <3>3, <3>4, <3>5, <3>6
    <3>8. \A a, b \in Int : b > 0 /\ a * b <= 100 * b => a <= 100
      OBVIOUS
    <3>9. SumTo(u, m) <= 100
      BY <2>2, <3>6, <3>7, <3>8
    <3> QED BY <2>5, <3>9 DEF u
  <2> QED BY <2>4, <2>5, <2>8, <2>9, <2>10, <2>11, <2>12
<1> QED BY <1>1, SperfCorrect, PTL
=============================================================================
