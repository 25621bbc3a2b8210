------------------------------ MODULE MCKmalloc ------------------------------
(* A heap of 20 bytes with headers of 3 (odd, as the 29 of the code) and    *)
(* alignment 2: up to four blocks, splits that leave too little to split,   *)
(* every order of allocation, free and resize within the bounds.            *)
EXTENDS Kmalloc

MCCallocArgs == {<<2, 2>>, <<0, 3>>, <<16, 17>>}

(* An overwritten header: every link NULL, or pointing at the first block.  *)
MCGarbage ==
    {[size |-> 0, is_free |-> TRUE, next |-> NULL, prev |-> NULL],
     [size |-> 7, is_free |-> FALSE, next |-> HEAP_START, prev |-> HEAP_START]}
=============================================================================
