------------------------------- MODULE MCHeap -------------------------------
(* The heap of a 32-bit build at half scale: every size of the code and    *)
(* every request is halved, so that a header, the least block and the      *)
(* alignment keep their proportions of 3 : 3 : 1.  Forty-eight bytes hold  *)
(* up to four blocks; the requests leave rests with and without room for   *)
(* another block, and the largest one can be split in place.               *)
EXTENDS Heap
=============================================================================
