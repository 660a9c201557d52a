----------------------------- MODULE FishOutput -----------------------------
(***************************************************************************)
(* What multi-threads/fish.c promises: standard output is a sequence of    *)
(* the two fish <><_ and ><>_, and never stops growing.  line is the part  *)
(* of the current fish that has been printed.  (The character '_' is       *)
(* written "__": the solvers behind the proofs do not accept it alone.)    *)
(***************************************************************************)
EXTENDS Naturals, Sequences

VARIABLE line

Fishes == { <<">", "<", ">", "__">>, <<"<", ">", "<", "__">> }

(* The beginnings of a fish.                                               *)
Begun == { <<">">>, <<">", "<">>, <<">", "<", ">">>,
           <<"<">>, <<"<", ">">>, <<"<", ">", "<">> }

Init == line = <<>>

Emit(ch) ==
  /\ Append(line, ch) \in Begun \cup Fishes
  /\ line' = IF Append(line, ch) \in Fishes THEN <<>> ELSE Append(line, ch)

Next == \E ch \in {"<", ">", "__"} : Emit(ch)

Spec == Init /\ [][Next]_line
=============================================================================
