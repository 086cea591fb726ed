--------------------------- MODULE MCViaHandshake ---------------------------
(***************************************************************************)
(* ViaHandshake for TLC.  Three byte values: the undriven bus and two that *)
(* the two sides can drive against each other.                             *)
(***************************************************************************)
EXTENDS ViaHandshake, TLC

CONSTANTS zero, b1, b2

MCByte == {zero, b1, b2}
MCZero == zero

\* Without PicoPrompt the FIFOs bound the state space by themselves.
MCSymmetry == Permutations({b1, b2})
=============================================================================
