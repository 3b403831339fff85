--------------------------- MODULE MCGpioChannels ---------------------------
(* Channel 2 is gpio 2 in BCM numbering and a power pin on the board,       *)
(* channel 3 is gpio 3 and gpio 2, and 54 is no channel at all.             *)
EXTENDS GpioChannels, TLC

MCLists == {<<>>, <<2>>, <<3, 2>>, <<2, 54, 3>>}

Symmetry == Permutations(Threads)

=============================================================================
