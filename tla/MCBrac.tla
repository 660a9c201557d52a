------------------------------- MODULE MCBrac -------------------------------
(* A small instance of Brac.  The first character of the roles array is    *)
(* never played, because ids start at 1, and the last thread gets the NUL. *)
EXTENDS Brac

(* One thread for each bracket and the NUL thread.                         *)
MCRoles == << "[", "[", "]", "(", ")" >>
=============================================================================
