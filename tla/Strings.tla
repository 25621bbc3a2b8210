------------------------------ MODULE Strings -------------------------------
(***************************************************************************)
(* The comparisons of string.c as the shell uses them.  A text is the      *)
(* sequence of the characters before its NUL, so that its length is        *)
(* strlen's; of what a comparison returns only "is it 0" is ever asked.    *)
(***************************************************************************)
EXTENDS Integers, Sequences, FiniteSetsExt

NUL == "nul"

strlen(str) == Len(str)
At(str, k) == IF k <= Len(str) THEN str[k] ELSE NUL

(* Where the loop of both functions ends, n apart: at the NUL of the first  *)
(* text or at a difference.                                                 *)
LoopEnd(str1, str2) ==
    Min({k \in 1 .. Len(str1) + 1 : At(str1, k) = NUL \/ At(str1, k) # At(str2, k)})

(* Mutant: the end of the first text is taken for a match. *)
strcmp_Prefix(str1, str2) ==
    LET k == LoopEnd(str1, str2) IN At(str1, k) = NUL \/ At(str1, k) = At(str2, k)
strcmp(str1, str2) ==
    LET k == LoopEnd(str1, str2) IN At(str1, k) = At(str2, k)

strncmp(str1, str2, n) == n < LoopEnd(str1, str2) \/ strcmp(str1, str2)
=============================================================================
