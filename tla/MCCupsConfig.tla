---------------------------- MODULE MCCupsConfig ----------------------------
(* Two threads, and one value besides the default. *)
EXTENDS CupsConfig

CONSTANTS main, worker, custom

TwoThreads == {main, worker}
TwoValues  == {Default, custom}
=============================================================================
