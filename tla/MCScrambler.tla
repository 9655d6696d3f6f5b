---------------------------- MODULE MCScrambler ----------------------------
(***************************************************************************)
(* Constants of Scrambler for TLC.                                         *)
(***************************************************************************)
EXTENDS Scrambler

\* ECM before, at and after the start of the crypto-period.
AllDelays == {-1, 0, 1}
=============================================================================
