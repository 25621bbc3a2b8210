------------------------------ MODULE Keyboard ------------------------------
(***************************************************************************)
(* The PS/2 keyboard driver of keyboard.c: the interrupt handler decodes   *)
(* scancodes and pushes characters into a ring of KEYBOARD_BUFFER_SIZE     *)
(* slots, kernel_main's thread takes them out.  The handler runs behind an *)
(* interrupt gate and is one step; the functions of the thread are split   *)
(* at their accesses to the volatile positions (the order of keyboard.o),  *)
(* and an interrupt may come between any two of them, also between the     *)
(* test for an empty ring and hlt.  Any interrupt ends hlt; the timer's    *)
(* comes again and again.                                                  *)
(***************************************************************************)
EXTENDS Integers, Sequences

CONSTANTS
    KEYBOARD_BUFFER_SIZE,
    UINT8,             \* 2^8, the range of keyboard_buffer_count
    Keys               \* the keys somebody may press

ASSUME KeyboardAssumption ==
    /\ KEYBOARD_BUFFER_SIZE \in Nat \ {0, 1}
    /\ UINT8 = KEYBOARD_BUFFER_SIZE

(* One key of each kind the code tells apart. *)
ShiftKeys == {"LShift", "RShift"}
Modifier == {"shift", "ctrl", "alt"}
modifier_of == [LShift |-> "shift", RShift |-> "shift", Ctrl |-> "ctrl", Alt |-> "alt"]
NOCHAR == "nul"
scancode_to_ascii ==
    [A |-> "a", S |-> "s", One |-> "1", Enter |-> "newline", F1 |-> NOCHAR]
scancode_to_ascii_shift ==
    [A |-> "A", S |-> "S", One |-> "!", Enter |-> "newline", F1 |-> NOCHAR]
Upper == [a |-> "A", s |-> "S"]
Char == {"a", "A", "s", "S", "1", "!", "newline"}

VARIABLES
    pressed,           \* shift_pressed, ctrl_pressed, alt_pressed
    caps_lock,
    keyboard_buffer, buffer_read_pos, buffer_write_pos,
    shifts,            \* the shift keys somebody holds down
    struck,            \* flips with every character a key produces
    pc, blocking,      \* where the thread is, and in which reader
    c,                 \* the character on its way out
    seen,              \* keyboard_buffer_count's first view of the write position
    got, counted       \* the last results of the functions

decoder == <<pressed, caps_lock, shifts>>
ring == <<keyboard_buffer, buffer_read_pos, buffer_write_pos>>
results == <<got, counted>>
vars == <<decoder, ring, struck, pc, blocking, c, seen, results>>

Slot == 0 .. KEYBOARD_BUFFER_SIZE - 1

Init ==
    /\ pressed = [m \in Modifier |-> FALSE] /\ caps_lock = FALSE
    /\ keyboard_buffer = [s \in Slot |-> NOCHAR]
    /\ buffer_read_pos = 0 /\ buffer_write_pos = 0
    /\ shifts = {} /\ struck = FALSE
    /\ pc = "idle" /\ blocking = FALSE
    /\ c = NOCHAR /\ seen = 0
    /\ got = NOCHAR /\ counted = 0

(* Mutant: the position is not wrapped. *)
Following_NoWrap(pos) == pos + 1
Following(pos) == (pos + 1) % KEYBOARD_BUFFER_SIZE

-----------------------------------------------------------------------------
(* The interrupt handler. *)

(* The table for shift is in upper case whatever Caps Lock says. *)
Ascii(key) ==
    IF pressed["shift"] THEN scancode_to_ascii_shift[key]
    ELSE LET ch == scancode_to_ascii[key] IN
         IF caps_lock /\ ch \in DOMAIN Upper THEN Upper[ch] ELSE ch

(* Mutant: no slot is kept free, so a full ring looks like an empty one. *)
HasRoom_Always == TRUE
HasRoom == Following(buffer_write_pos) # buffer_read_pos

keyboard_buffer_push(ch) ==
    \/ /\ HasRoom
       /\ keyboard_buffer' = [keyboard_buffer EXCEPT ![buffer_write_pos] = ch]
       /\ buffer_write_pos' = Following(buffer_write_pos)
       /\ UNCHANGED buffer_read_pos
    \/ /\ ~HasRoom
       /\ UNCHANGED ring

(* An interrupt returns behind the hlt it ended. *)
Wake == pc' = IF pc = "halted" THEN "test" ELSE pc

Thread == <<blocking, c, seen, results>>

PressModifier(key) ==
    /\ key \in DOMAIN modifier_of
    /\ pressed' = [pressed EXCEPT ![modifier_of[key]] = TRUE]
    /\ shifts' = shifts \cup ({key} \cap ShiftKeys)
    /\ Wake /\ UNCHANGED <<caps_lock, ring, struck, Thread>>

ReleaseModifier(key) ==
    /\ key \in DOMAIN modifier_of
    /\ key \in ShiftKeys => key \in shifts
    /\ pressed' = [pressed EXCEPT ![modifier_of[key]] = FALSE]
    /\ shifts' = shifts \ {key}
    /\ Wake /\ UNCHANGED <<caps_lock, ring, struck, Thread>>

PressCapsLock(key) ==
    /\ key = "CapsLock"
    /\ caps_lock' = ~caps_lock
    /\ Wake /\ UNCHANGED <<pressed, shifts, ring, struck, Thread>>

(* Nothing but the wake-up. *)
Ignored(key) ==
    /\ key \notin DOMAIN modifier_of
    /\ Wake /\ UNCHANGED <<decoder, ring, struck, Thread>>

PressCharacter(key) ==
    /\ key \in DOMAIN scancode_to_ascii
    /\ Ascii(key) # NOCHAR
    /\ keyboard_buffer_push(Ascii(key))
    /\ struck' = ~struck
    /\ Wake /\ UNCHANGED <<decoder, Thread>>

NoCharacter(key) ==
    key \in DOMAIN scancode_to_ascii /\ Ascii(key) = NOCHAR /\ Ignored(key)

Pressed(key) ==
    PressModifier(key) \/ PressCapsLock(key) \/ PressCharacter(key) \/ NoCharacter(key)

(* The release of any other key: bit 7 is set. *)
Released(key) == ReleaseModifier(key) \/ Ignored(key)

keyboard_handler(key) == Pressed(key) \/ Released(key)

(* IRQ0, as the thread sees it (the mutant: the timer is never unmasked). *)
Tick_Masked == FALSE
Tick == pc = "halted" /\ Wake /\ UNCHANGED <<decoder, ring, struck, Thread>>

-----------------------------------------------------------------------------
(* The functions of the thread. *)

HasInput == buffer_read_pos # buffer_write_pos

(* keyboard_getchar and keyboard_getchar_nonblock. *)
StartRead(wait) ==
    /\ pc = "idle"
    /\ pc' = "test" /\ blocking' = wait
    /\ UNCHANGED <<decoder, ring, struck, c, seen, results>>

Test ==
    /\ pc = "test"
    /\ \/ /\ HasInput
          /\ pc' = "take" /\ UNCHANGED <<blocking, got>>
       \/ /\ ~HasInput /\ blocking
          /\ pc' = "hlt" /\ UNCHANGED <<blocking, got>>
       \/ /\ ~HasInput /\ ~blocking
          /\ pc' = "idle" /\ got' = NOCHAR /\ UNCHANGED blocking
    /\ UNCHANGED <<decoder, ring, struck, c, seen, counted>>

(* An interrupt that came since the test has gone by. *)
Hlt ==
    /\ pc = "hlt" /\ pc' = "halted"
    /\ UNCHANGED <<decoder, ring, struck, Thread>>

Take ==
    /\ pc = "take" /\ pc' = "advance"
    /\ c' = keyboard_buffer[buffer_read_pos]
    /\ UNCHANGED <<decoder, ring, struck, blocking, seen, results>>

Advance ==
    /\ pc = "advance" /\ pc' = "idle"
    /\ buffer_read_pos' = Following(buffer_read_pos)
    /\ got' = c /\ c' = NOCHAR /\ blocking' = FALSE
    /\ UNCHANGED <<decoder, keyboard_buffer, buffer_write_pos, struck, seen, counted>>

(* keyboard_buffer_count loads both positions, then both again. *)
StartCount ==
    /\ pc = "idle" /\ pc' = "count"
    /\ seen' = buffer_write_pos
    /\ UNCHANGED <<decoder, ring, struck, blocking, c, results>>

(* Mutant: the first value of the write position is used again. *)
CountAfter_Snapshot(w) ==
    IF w >= buffer_read_pos THEN w - buffer_read_pos
    ELSE KEYBOARD_BUFFER_SIZE - buffer_read_pos + w
CountAfter(w) ==
    IF w >= buffer_read_pos THEN (buffer_write_pos - buffer_read_pos) % UINT8
    ELSE (KEYBOARD_BUFFER_SIZE - buffer_read_pos + buffer_write_pos) % UINT8

Count ==
    /\ pc = "count" /\ pc' = "idle"
    /\ counted' = CountAfter(seen) /\ seen' = 0
    /\ UNCHANGED <<decoder, ring, struck, blocking, c, got>>

(* keyboard_clear_buffer: two stores. *)
ClearRead ==
    /\ pc = "idle" /\ pc' = "clear"
    /\ buffer_read_pos' = 0
    /\ UNCHANGED <<decoder, keyboard_buffer, buffer_write_pos, struck, Thread>>

ClearWrite ==
    /\ pc = "clear" /\ pc' = "idle"
    /\ buffer_write_pos' = 0
    /\ UNCHANGED <<decoder, keyboard_buffer, buffer_read_pos, struck, Thread>>

Call == (\E wait \in BOOLEAN : StartRead(wait)) \/ StartCount \/ ClearRead
Step == Test \/ Hlt \/ Take \/ Advance \/ Count \/ ClearWrite
Interrupt == (\E key \in Keys : keyboard_handler(key)) \/ Tick

Next == Call \/ Step \/ Interrupt

Spec == Init /\ [][Next]_vars

(* The processor executes the thread, and the timer, unmasked before the    *)
(* keyboard is, interrupts it for ever.                                     *)
FairSpec == Spec /\ WF_vars(Step) /\ WF_vars(Tick)

-----------------------------------------------------------------------------
(* Properties. *)

(* Every variable has its type; both positions stay in the ring. *)
TypeOK ==
    /\ pressed \in [Modifier -> BOOLEAN] /\ caps_lock \in BOOLEAN
    /\ keyboard_buffer \in [Slot -> Char \cup {NOCHAR}]
    /\ buffer_read_pos \in Slot /\ buffer_write_pos \in Slot
    /\ shifts \subseteq ShiftKeys /\ struck \in BOOLEAN
    /\ pc \in {"idle", "test", "hlt", "halted", "take", "advance", "count", "clear"}
    /\ blocking \in BOOLEAN
    /\ c \in Char \cup {NOCHAR} /\ seen \in Slot
    /\ got \in Char \cup {NOCHAR} /\ counted \in Nat

(* The characters between the two positions. *)
Waiting == (buffer_write_pos - buffer_read_pos) % KEYBOARD_BUFFER_SIZE
Contents ==
    [n \in 1 .. Waiting |->
        keyboard_buffer[(buffer_read_pos + n - 1) % KEYBOARD_BUFFER_SIZE]]

(* Readers get what was typed, in order and once; a character is lost only  *)
(* when all but one slot are taken or during keyboard_clear_buffer, between *)
(* whose stores the ring holds stale slots.                                 *)
Abstract == INSTANCE KeyQueueSpec WITH
    CAPACITY <- KEYBOARD_BUFFER_SIZE - 1,
    queue <- IF pc = "clear" THEN <<>> ELSE Contents,
    emptying <- pc = "clear"
ImplementsKeyQueue == Abstract!Spec

(* keyboard_buffer_count reads the write position twice and decides by the  *)
(* first value; its result is still the number waiting when it returns,     *)
(* even if interrupts moved the position past the end of the ring between.  *)
CountIsCurrent == [][pc = "count" /\ pc' = "idle" => counted' = Waiting]_vars

(* The interrupt that fills the ring may come between the test and hlt: the *)
(* reader then sleeps on a character, but not for ever.                     *)
CharacterIsRead == (blocking /\ HasInput) ~> (pc = "idle")

(* ARCHITECTURE.md:387, "Shift (izq/der)": the driver's state of Shift is   *)
(* that of the left and the right key, of which one may be released first.  *)
ShiftFollowsKeys == pressed["shift"] <=> shifts # {}
=============================================================================
