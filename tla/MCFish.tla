------------------------------- MODULE MCFish -------------------------------
(* A small instance of Fish.  The first character of the roles array is    *)
(* never played, because ids start at 1, and the last thread gets the NUL: *)
(* two '<' threads, one '>', one '_' and one NUL.                          *)
EXTENDS Fish

MCRoles == << "<", "<", ">", "<", "__" >>
=============================================================================
