---------------------------- MODULE MCAlpacaStream ----------------------------
(* A stream of a few ticks, one of them undecodable and one out of hours. *)
EXTENDS AlpacaStream, TLC

MCJunk == {2}
MCClosed == {3}
=============================================================================
