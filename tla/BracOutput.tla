----------------------------- MODULE BracOutput -----------------------------
(***************************************************************************)
(* What multi-threads/brac.c promises of the brackets on standard output:  *)
(* they are a prefix of a well-matched sequence, nested at most four deep, *)
(* with no '[' inside a '('.  open is what is left of the output when      *)
(* every matched pair is cancelled.                                        *)
(***************************************************************************)
EXTENDS Naturals, Sequences

VARIABLE open

Depth == 4

Init == open = <<>>

Open(ch) ==
  /\ Len(open) < Depth
  /\ ch = "[" => \A i \in 1..Len(open) : open[i] = "["
  /\ open' = Append(open, ch)

Close ==
  /\ open # <<>>
  /\ open' = SubSeq(open, 1, Len(open) - 1)

Next == (\E ch \in {"(", "["} : Open(ch)) \/ Close

Spec == Init /\ [][Next]_open
=============================================================================
