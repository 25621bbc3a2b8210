------------------------------- MODULE MCBoot -------------------------------
(* Tables of four entries, and frames of one and three qwords. *)
EXTENDS Boot
=============================================================================
