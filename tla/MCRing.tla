------------------------------- MODULE MCRing -------------------------------
(* A four byte ring, the smallest that RT_ALIGN_DOWN produces, and blocks   *)
(* up to one byte longer than it.  The pool starts with any bytes, and no   *)
(* operation looks at a byte, so the bytes are interchangeable.             *)
EXTENDS RingIsr, TLC

Symmetry == Permutations(Byte)
=============================================================================
