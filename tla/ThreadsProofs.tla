--------------------------- MODULE ThreadsProofs ---------------------------
(***************************************************************************)
(* Proofs about the thread runtime, for any number of threads.  They use   *)
(* only what a program does to the variables of Threads, so every program  *)
(* whose steps are steps of ThreadsNext inherits them.  At the end, what   *)
(* Append and SubSeq do to the short tuples that fish.c and brac.c keep.   *)
(***************************************************************************)
EXTENDS Threads, Sequences, SequenceTheorems, TLAPS

(* The list is created, created - 1, ..., 1 while main() builds it, and    *)
(* join_all has freed exactly the nodes above its head.                    *)
ListInv ==
  /\ threads \in 0..created
  /\ freed = (threads + 1)..created
  /\ \A t \in 1..created : tnext[t] = t - 1 /\ tid[t] = t

(* Which threads exist, and which of them are gone for certain.           *)
LifeInv ==
  /\ \A t \in Thread : life[t] = "absent" <=> t > created
  /\ \A t \in freed : life[t] \in {"returned", "failed"}

(* What main() has done so far.                                            *)
MainInv ==
  /\ main = "create" => threads = created
  /\ main \in {"join_all", "exited"} => created = NThreads
  /\ main = "exited" => threads = NULL

ThreadsInv == ThreadsTypeOK /\ ListInv /\ LifeInv /\ MainInv

(* The invariant holds when main() starts.                                 *)
LEMMA ThreadsInitInv == ThreadsInit => ThreadsInv
BY NThreadsAssumption
DEF ThreadsInit, ThreadsInv, ThreadsTypeOK, ListInv, LifeInv, MainInv, Thread, NULL, Life

(* create(), join(), join_all() and the threads themselves preserve it.    *)
LEMMA ThreadsStepInv == ThreadsInv /\ [ThreadsNext]_tvars => ThreadsInv'
<1> SUFFICES ASSUME ThreadsInv, [ThreadsNext]_tvars PROVE ThreadsInv'
  OBVIOUS
<1> USE NThreadsAssumption
    DEF ThreadsInv, ThreadsTypeOK, ListInv, LifeInv, MainInv, Thread, NULL, Life
<1>1. CASE create
  <2>1. created + 1 \in Thread /\ created' = created + 1 /\ threads' = created + 1
    BY <1>1 DEF create
  <2>0. /\ tnext' = [tnext EXCEPT ![created + 1] = threads]
        /\ \/ life' = [life EXCEPT ![created + 1] = "started"]
           \/ life' = [life EXCEPT ![created + 1] = "failed"]
    BY <1>1 DEF create, link, pthread_create
  <2>2. ThreadsTypeOK'
    <3>1. tid' \in [Thread -> 0..NThreads]
      <4>1. (IF threads # NULL THEN tid[threads] + 1 ELSE 1) = created + 1
        BY <1>1 DEF create
      <4> QED BY <4>1, <2>1, <1>1 DEF create
    <3>2. life' \in [Thread -> Life]
      BY <2>0, <2>1
    <3>3. tnext' \in [Thread -> Thread \cup {NULL}]
      BY <2>0, <2>1
    <3> QED BY <3>1, <3>2, <3>3, <2>1, <1>1 DEF create
  <2>3. ListInv'
    BY <2>0, <2>1, <1>1 DEF create
  <2>4. LifeInv'
    BY <2>0, <2>1, <1>1 DEF create
  <2>5. MainInv'
    BY <2>0, <2>1, <1>1 DEF create
  <2> QED BY <2>2, <2>3, <2>4, <2>5
<1>2. CASE join
  BY <1>2 DEF join
<1>3. CASE join_one
  BY <1>3 DEF join_one, pthread_join
<1>4. CASE call_join_fn
  BY <1>4 DEF call_join_fn
<1>5. ASSUME NEW t \in Thread, entry_all(t) PROVE ThreadsInv'
  BY <1>5 DEF entry_all
<1>6. ASSUME NEW t \in Thread, ThreadReturn(t) PROVE ThreadsInv'
  BY <1>6 DEF ThreadReturn, Running, Entered
<1>7. CASE UNCHANGED tvars
  BY <1>7 DEF tvars
<1>8. CASE malloc_fails \/ join_crashes
  BY <1>8 DEF malloc_fails, join_crashes
<1> QED
  BY <1>1, <1>2, <1>3, <1>4, <1>5, <1>6, <1>7, <1>8 DEF ThreadsNext, MainStep

(* main() gives a thread a life only by creating it, and takes none.       *)
LEMMA LifeOfMain ==
  ASSUME ThreadsInv, MainStep, NEW t \in Thread
  PROVE  life'[t] = life[t] \/ (life[t] = "absent" /\ life'[t] \in {"started", "failed"})
<1>1. CASE create
  <2>1. created + 1 \in Thread /\ life[created + 1] = "absent"
    BY <1>1, NThreadsAssumption DEF create, ThreadsInv, ThreadsTypeOK, LifeInv, Thread
  <2>2. life' = [life EXCEPT ![created + 1] = "started"]
          \/ life' = [life EXCEPT ![created + 1] = "failed"]
    BY <1>1 DEF create, pthread_create
  <2> QED BY <2>1, <2>2 DEF ThreadsInv, ThreadsTypeOK
<1>2. CASE malloc_fails \/ join \/ join_one \/ join_crashes
  BY <1>2 DEF malloc_fails, join, join_one, join_crashes
<1> QED BY <1>1, <1>2 DEF MainStep

(* The runtime's invariant holds in every behaviour.                       *)
THEOREM ThreadsCorrect == ThreadsSpec => []ThreadsInv
BY ThreadsInitInv, ThreadsStepInv, PTL DEF ThreadsSpec

(* No thread that may still read its node in entry_all finds it freed.     *)
LEMMA InvNodes == ThreadsInv => NodeNotFreedWhileUsed
BY DEF ThreadsInv, LifeInv, NodeNotFreedWhileUsed

(* join_fn runs after every thread has returned and every node is freed.   *)
LEMMA InvJoinFn == ThreadsInv => JoinFnRunsLast
BY NThreadsAssumption
DEF ThreadsInv, ThreadsTypeOK, ListInv, LifeInv, MainInv, JoinFnRunsLast, Failed, Thread, NULL

(* join_all frees a node only when no thread uses it, and calls join_fn    *)
(* after the last one, for any number of threads of any program and any    *)
(* number of failures of pthread_create.                                   *)
THEOREM JoinAllCorrect == ThreadsSpec => [](NodeNotFreedWhileUsed /\ JoinFnRunsLast)
BY ThreadsCorrect, InvNodes, InvJoinFn, PTL
-----------------------------------------------------------------------------
(* Appending to the empty tuple.                                           *)
LEMMA Append0 ==
  ASSUME NEW S, NEW a \in S
  PROVE  Append(<<>>, a) = <<a>>
<1> DEFINE l == Append(<<>>, a)
           r == <<a>>
<1>1. l \in Seq(S) /\ Len(l) = 1 /\ l[1] = a
  OBVIOUS
<1>2. r \in Seq(S) /\ Len(r) = 1 /\ r[1] = a
  OBVIOUS
<1>3. \A i \in 1..Len(l) : l[i] = r[i]
  BY <1>1, <1>2
<1> HIDE DEF l, r
<1>4. l = r
  BY <1>1, <1>2, <1>3, SeqEqual
<1> QED
  BY <1>4 DEF l, r

(* Appending to a one-element tuple.                                       *)
LEMMA Append1 ==
  ASSUME NEW S, NEW a \in S, NEW b \in S
  PROVE  Append(<<a>>, b) = <<a, b>>
<1> DEFINE l == Append(<<a>>, b)
           r == <<a, b>>
<1>1. l \in Seq(S) /\ Len(l) = 2 /\ l[1] = a /\ l[2] = b
  OBVIOUS
<1>2. r \in Seq(S) /\ Len(r) = 2 /\ r[1] = a /\ r[2] = b
  OBVIOUS
<1>3. \A i \in 1..Len(l) : l[i] = r[i]
  BY <1>1, <1>2
<1> HIDE DEF l, r
<1>4. l = r
  BY <1>1, <1>2, <1>3, SeqEqual
<1> QED
  BY <1>4 DEF l, r

(* Appending to a two-element tuple.                                       *)
LEMMA Append2 ==
  ASSUME NEW S, NEW a \in S, NEW b \in S, NEW c \in S
  PROVE  Append(<<a, b>>, c) = <<a, b, c>>
<1> DEFINE l == Append(<<a, b>>, c)
           r == <<a, b, c>>
<1>1. l \in Seq(S) /\ Len(l) = 3 /\ l[1] = a /\ l[2] = b /\ l[3] = c
  OBVIOUS
<1>2. r \in Seq(S) /\ Len(r) = 3 /\ r[1] = a /\ r[2] = b /\ r[3] = c
  OBVIOUS
<1>3. \A i \in 1..Len(l) : l[i] = r[i]
  BY <1>1, <1>2
<1> HIDE DEF l, r
<1>4. l = r
  BY <1>1, <1>2, <1>3, SeqEqual
<1> QED
  BY <1>4 DEF l, r

(* Appending to a three-element tuple.                                     *)
LEMMA Append3 ==
  ASSUME NEW S, NEW a \in S, NEW b \in S, NEW c \in S, NEW d \in S
  PROVE  Append(<<a, b, c>>, d) = <<a, b, c, d>>
<1> DEFINE l == Append(<<a, b, c>>, d)
           r == <<a, b, c, d>>
<1>1. l \in Seq(S) /\ Len(l) = 4 /\ l[1] = a /\ l[2] = b /\ l[3] = c /\ l[4] = d
  OBVIOUS
<1>2. r \in Seq(S) /\ Len(r) = 4 /\ r[1] = a /\ r[2] = b /\ r[3] = c /\ r[4] = d
  OBVIOUS
<1>3. \A i \in 1..Len(l) : l[i] = r[i]
  BY <1>1, <1>2
<1> HIDE DEF l, r
<1>4. l = r
  BY <1>1, <1>2, <1>3, SeqEqual
<1> QED
  BY <1>4 DEF l, r

(* All but the last element of a one-element tuple.                        *)
LEMMA Front1 ==
  ASSUME NEW S, NEW a \in S
  PROVE  SubSeq(<<a>>, 1, 0) = <<>>
BY SubSeqEmpty

(* All but the last element of a two-element tuple.                        *)
LEMMA Front2 ==
  ASSUME NEW S, NEW a \in S, NEW b \in S
  PROVE  SubSeq(<<a, b>>, 1, 1) = <<a>>
<1> DEFINE s == <<a, b>>
           l == SubSeq(s, 1, 1)
           r == <<a>>
<1>1. \A i \in 1..1 : s[i] \in S
  OBVIOUS
<1>2. /\ l \in Seq(S) /\ Len(l) = 1
      /\ \A i \in 1..1 : l[i] = s[i]
  BY <1>1, SubSeqProperties
<1>3. r \in Seq(S) /\ Len(r) = 1 /\ \A i \in 1..1 : r[i] = s[i]
  OBVIOUS
<1> HIDE DEF l, r, s
<1>4. l = r
  BY <1>2, <1>3, SeqEqual
<1> QED
  BY <1>4 DEF l, r, s

(* All but the last element of a three-element tuple.                      *)
LEMMA Front3 ==
  ASSUME NEW S, NEW a \in S, NEW b \in S, NEW c \in S
  PROVE  SubSeq(<<a, b, c>>, 1, 2) = <<a, b>>
<1> DEFINE s == <<a, b, c>>
           l == SubSeq(s, 1, 2)
           r == <<a, b>>
<1>1. \A i \in 1..2 : s[i] \in S
  OBVIOUS
<1>2. /\ l \in Seq(S) /\ Len(l) = 2
      /\ \A i \in 1..2 : l[i] = s[i]
  BY <1>1, SubSeqProperties
<1>3. r \in Seq(S) /\ Len(r) = 2 /\ \A i \in 1..2 : r[i] = s[i]
  OBVIOUS
<1> HIDE DEF l, r, s
<1>4. l = r
  BY <1>2, <1>3, SeqEqual
<1> QED
  BY <1>4 DEF l, r, s

(* All but the last element of a four-element tuple.                       *)
LEMMA Front4 ==
  ASSUME NEW S, NEW a \in S, NEW b \in S, NEW c \in S, NEW d \in S
  PROVE  SubSeq(<<a, b, c, d>>, 1, 3) = <<a, b, c>>
<1> DEFINE s == <<a, b, c, d>>
           l == SubSeq(s, 1, 3)
           r == <<a, b, c>>
<1>1. \A i \in 1..3 : s[i] \in S
  OBVIOUS
<1>2. /\ l \in Seq(S) /\ Len(l) = 3
      /\ \A i \in 1..3 : l[i] = s[i]
  BY <1>1, SubSeqProperties
<1>3. r \in Seq(S) /\ Len(r) = 3 /\ \A i \in 1..3 : r[i] = s[i]
  OBVIOUS
<1> HIDE DEF l, r, s
<1>4. l = r
  BY <1>2, <1>3, SeqEqual
<1> QED
  BY <1>4 DEF l, r, s
=============================================================================
