---------------------------- MODULE MCInterrupts ----------------------------
(* The timer, the keyboard and a disk behind the slave; firmware that left  *)
(* everything masked, the usual lines open, or the cascade closed.          *)
EXTENDS Interrupts

MCFirmwareMasks == {Line, Line \ {0, 1, 2, 14}, Line \ {1, 14}}
=============================================================================
