---------------------------- MODULE MCThreadOS ----------------------------
(* Small machines for ThreadOS.                                            *)
EXTENDS ThreadOS

(* Three tasks: on one, two or three CPUs, and beside a CPU without task.  *)
(* trivial-os.c, with its many more states, on one or two CPUs.            *)
MCMachines ==
  {<<"thread-os", 1>>} \cup ({"thread-os-mp"} \X (1..4)) \cup ({"trivial-os"} \X (1..2))

(* Two CPUs that take a page fault at the same time.                       *)
MCTwoCPUs == {<<"trivial-os", 2>>}
=============================================================================
