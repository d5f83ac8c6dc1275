------------------------------ MODULE MCSdCard ------------------------------
(***************************************************************************)
(* SdCard with FIFOs of three bytes and blocks of two.  As on the board, a *)
(* command is one byte shorter than a FIFO is deep.  In MCSdCard.cfg every *)
(* time-out is longer than the two FIFOs together, also as on the board;   *)
(* in MCSdCardWrite.cfg they are short, so that calls give up within few   *)
(* states.  The block holds bytes that look like an R1 (0) and a token     *)
(* (254).                                                                  *)
(***************************************************************************)
EXTENDS SdCard, TLC

MCBlocks == (1 :> <<0, 254>>)
MCSlices == {<<1, 1>>}

\* One block of one byte, for the writes.
TinyBlocks == (1 :> <<0>>)
TinySlices == {<<0, 1>>}
=============================================================================
