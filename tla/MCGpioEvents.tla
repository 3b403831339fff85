---------------------------- MODULE MCGpioEvents ----------------------------
(* GpioEvents with its interchangeable gpios, descriptors and threads.      *)
EXTENDS GpioEvents, TLC

Symmetry == Permutations(Gpios) \cup Permutations(Fds) \cup Permutations(Threads)

=============================================================================
