------------------------------ MODULE MCYmodem ------------------------------
(* A file that fills a page and a half, so that a page has room for one      *)
(* block too many, and a second file of one block.                           *)
EXTENDS Ymodem

MCBlocks == <<3, 1>>
=============================================================================
