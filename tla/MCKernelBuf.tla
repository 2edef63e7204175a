----------------------------- MODULE MCKernelBuf -----------------------------
(***************************************************************************)
(* A scaled-down buffer: one inline byte, blocks of two and of three.        *)
(***************************************************************************)
EXTENDS KernelBuf, TLC

CONSTANTS b1, b2

MCBlocks == {b1, b2}
MCBlockSize == b1 :> 2 @@ b2 :> 3
=============================================================================
