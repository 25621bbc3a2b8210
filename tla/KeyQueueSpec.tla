---------------------------- MODULE KeyQueueSpec ----------------------------
(***************************************************************************)
(* What keyboard.h promises the shell: characters come out in the order    *)
(* they were typed, each once.  A character is lost only when CAPACITY     *)
(* others are waiting or while the queue is being emptied.                 *)
(***************************************************************************)
EXTENDS Integers, Sequences

CONSTANTS
    CAPACITY,
    Char,       \* what a key can produce
    NOCHAR      \* the answer when nothing is waiting

VARIABLES
    queue,      \* characters typed and not yet read
    emptying,   \* keyboard_clear_buffer is at work
    got,        \* the last character a reader received
    struck      \* flips each time a key produces a character

vars == <<queue, emptying, got, struck>>

Init == queue = <<>> /\ emptying = FALSE /\ got = NOCHAR /\ struck = FALSE

Typed(c) ==
    /\ ~emptying /\ Len(queue) < CAPACITY
    /\ queue' = Append(queue, c) /\ struck' = ~struck
    /\ UNCHANGED <<emptying, got>>

Lost ==
    /\ emptying \/ Len(queue) = CAPACITY
    /\ struck' = ~struck
    /\ UNCHANGED <<queue, emptying, got>>

Read ==
    /\ ~emptying /\ queue # <<>>
    /\ got' = Head(queue) /\ queue' = Tail(queue)
    /\ UNCHANGED <<emptying, struck>>

NothingWaiting ==
    /\ ~emptying /\ queue = <<>>
    /\ got' = NOCHAR /\ UNCHANGED <<queue, emptying, struck>>

StartEmptying ==
    /\ ~emptying /\ emptying' /\ queue' = <<>>
    /\ UNCHANGED <<got, struck>>

DoneEmptying ==
    /\ emptying /\ ~emptying'
    /\ UNCHANGED <<queue, got, struck>>

Next ==
    \/ \E c \in Char : Typed(c)
    \/ Lost
    \/ Read
    \/ NothingWaiting
    \/ StartEmptying
    \/ DoneEmptying

Spec == Init /\ [][Next]_vars
=============================================================================
