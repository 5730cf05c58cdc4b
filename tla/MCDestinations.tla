-------------------------- MODULE MCDestinations ---------------------------
(* Two owners, a queue with an instance and one without. *)
EXTENDS Destinations, TLC

CONSTANTS first, second, laser, inkjet, duplex, A4

TwoOwners  == {first, second}
TwoNames   == {inkjet, laser}
Duplex     == {None, duplex}
Sorted     == [key \in TwoNames \X Duplex |->
                  (IF key[1] = inkjet THEN 1 ELSE 3) + (IF key[2] = None THEN 0 ELSE 1)]
OneValue   == {A4}
Owner      == Permutations(TwoOwners)
=============================================================================
