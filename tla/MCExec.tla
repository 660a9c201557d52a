------------------------------- MODULE MCExec -------------------------------
(* A small instance of Exec: pages of 16 words, user memory of 6 pages, and *)
(* headers that fill part of a page, several pages or too many, and whose  *)
(* end wraps round.                                                        *)
EXTENDS Exec

MCHeaders ==
  { [load |-> l, vaddr |-> v, filesz |-> 4, memsz |-> m] :
      l \in BOOLEAN, v \in {0, 3, 16, 32, 112}, m \in {2, 10, 16, 24} }
=============================================================================
