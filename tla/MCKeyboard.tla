----------------------------- MODULE MCKeyboard -----------------------------
(* A ring of four slots, so three characters, which wraps round and fills   *)
(* up; letters that Shift and Caps Lock turn into capitals.                 *)
EXTENDS Keyboard
=============================================================================
