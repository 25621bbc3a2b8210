------------------------------ MODULE MCSystem ------------------------------
(* The timer, two keys and a ring of two slots, so one character; firmware  *)
(* that left everything masked.                                             *)
EXTENDS System

MCFirmwareMasks == {0 .. 15}
MCBytes == {[key |-> "S", made |-> TRUE], [key |-> "Enter", made |-> TRUE]}
=============================================================================
