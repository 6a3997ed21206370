---------------------------- MODULE MCRingBlock ----------------------------
(* Three blocks in a buffer of six bytes: allocations of up to three        *)
(* bytes make it wrap with and without a gap at its end.                    *)
EXTENDS RingBlock
=============================================================================
