------------------------------- MODULE System -------------------------------
(***************************************************************************)
(* The machine with a user at its keyboard: the interrupts of module       *)
(* Interrupts, the driver of module Keyboard behind vector 33, and         *)
(* kernel_main's program from its question on.  The keyboard controller    *)
(* is hardware: it holds one byte, raises line 1 as it puts the byte in,   *)
(* and sends no other before inb(0x60) has emptied it; the line is edge    *)
(* triggered, so a byte whose edge is forgotten raises nothing more.       *)
(* What each part of a step does is the part's own action.                 *)
(***************************************************************************)
EXTENDS Integers, Sequences

CONSTANTS
    Lines, Glitches, FirmwareMasks, Faults, FREQUENCY, UINT32, Delays,
    KEYBOARD_BUFFER_SIZE, UINT8, Keys,
    Bytes,             \* what the keyboard may send: a key, made or broken
    NONE               \* the controller's output buffer is empty

KEYBOARD == 1          \* its line
VECTOR == 33           \* and its vector, once remapped

VARIABLES
    pc, if_flag, idt, offset, firmware, masked, irr, in_service, frames,
    timer_frequency, remaining, cause,
    pressed, caps_lock, keyboard_buffer, buffer_read_pos, buffer_write_pos,
    shifts, struck, reader_pc, blocking, c, seen, got, counted,
    output,            \* the byte in the keyboard controller, or NONE
    program            \* where kernel_main is, once the drivers are installed

I == INSTANCE Interrupts
K == INSTANCE Keyboard WITH pc <- reader_pc

ASSUME SystemAssumption ==
    /\ I!InterruptsAssumption /\ K!KeyboardAssumption
    /\ {0, KEYBOARD} \subseteq Lines /\ KEYBOARD \notin Glitches
    /\ Bytes \subseteq [key : Keys, made : BOOLEAN] /\ NONE \notin Bytes

machine == <<pc, if_flag, idt, offset, firmware, masked, irr, in_service, frames,
             timer_frequency, remaining, cause>>
driver == <<pressed, caps_lock, keyboard_buffer, buffer_read_pos, buffer_write_pos,
            shifts, struck, reader_pc, blocking, c, seen, got, counted>>
vars == <<machine, driver, output, program>>

Init == I!Init /\ K!Init /\ output = NONE /\ program = "question"

-----------------------------------------------------------------------------
(* Hardware. *)

(* A shift key is released after it was pressed. *)
Possible(b) == b.key \in K!ShiftKeys /\ ~b.made => b.key \in shifts

Strike(b) ==
    /\ output = NONE /\ Possible(b)
    /\ output' = b
    /\ I!Raise(KEYBOARD)
    /\ UNCHANGED <<driver, program>>

Raise(l) ==
    /\ l # KEYBOARD /\ I!Raise(l)
    /\ UNCHANGED <<driver, output, program>>

Take == (I!Accept \/ I!Spurious) /\ UNCHANGED <<driver, output, program>>
Accept == I!Accept /\ UNCHANGED <<driver, output, program>>

-----------------------------------------------------------------------------
(* irq_handler, now with the body of keyboard_handler. *)

(* Any interrupt ends the reader's hlt. *)
Woken == IF reader_pc = "halted" THEN K!Tick ELSE UNCHANGED driver

(* Mutants: the case of the timer has no break; the byte is not read. *)
IsKeyboard_NoBreak(v) == v \in {32, VECTOR}
IsKeyboard(v) == v = VECTOR
Inb_Skipped == UNCHANGED output
Inb == output' = NONE

keyboard_handler(b) ==
    /\ Inb
    /\ IF b.made THEN K!Pressed(b.key) ELSE K!Released(b.key)

(* InterruptPerByte: keyboard_handler never finds the buffer empty. *)
irq_handler ==
    /\ I!Dispatch
    /\ LET key == IsKeyboard(frames[Len(frames)].vector) /\ output # NONE
       IN  \/ key /\ keyboard_handler(output)
           \/ ~key /\ Woken /\ UNCHANGED output
    /\ UNCHANGED program

Handler ==
    \/ irq_handler
    \/ (I!pic_send_eoi \/ I!Iretq) /\ UNCHANGED <<driver, output, program>>

-----------------------------------------------------------------------------
(* kernel_main and what it calls. *)
Boot == I!Boot /\ UNCHANGED <<driver, output, program>>
Waiting == I!Waiting /\ UNCHANGED <<driver, output, program>>

Running == pc = "running" /\ frames = <<>>
ReaderStep == Running /\ K!Step /\ UNCHANGED <<machine, output, program>>

At(here) == Running /\ reader_pc = "idle" /\ program = here

Goto(there) == program' = there /\ UNCHANGED <<machine, driver, output>>

getchar(there) ==
    /\ K!StartRead(TRUE) /\ program' = there
    /\ UNCHANGED <<machine, output>>

(* Wait, stop or fail within a place of the program. *)
Doing(A) == A /\ UNCHANGED <<driver, output, program>>

(* "Run the test suite? (s/n)" *)
Question == At("question") /\ getchar("answer")
Answer == At("answer") /\ Goto(IF got \in {"s", "S"} THEN "suite" ELSE "shell")

(* run_test_suite: it reads, counts, clears and waits, in an order of its   *)
(* own that is left open here, and raises exceptions on request.            *)
Suite ==
    /\ At("suite")
    /\ \/ K!Call /\ UNCHANGED <<machine, output, program>>
       \/ \E ms \in Delays : Doing(I!timer_wait(ms))
       \/ \E v \in Faults : Doing(I!Fault(v))
       \/ Goto("shell")

(* shell_run: a character at a time up to Enter; the command may wait, as   *)
(* reboot does, or stop the machine.  Module Shell has the rest.            *)
ReadLine == At("shell") /\ getchar("line")
Edit == At("line") /\ Goto(IF got = "newline" THEN "command" ELSE "shell")
Execute ==
    /\ At("command")
    /\ \/ \E ms \in Delays : Doing(I!timer_wait(ms))
       \/ Doing(I!Halt)
       \/ Goto("shell")

Program == Question \/ Answer \/ Suite \/ ReadLine \/ Edit \/ Execute

Next ==
    \/ \E b \in Bytes : Strike(b)
    \/ \E l \in Lines : Raise(l)
    \/ Take \/ Handler
    \/ Boot \/ Waiting \/ ReaderStep \/ Program

Spec == Init /\ [][Next]_vars

(* As in Interrupts; the reader, like the rest of the thread, gets its turn *)
(* between interrupts.  The tick has the higher priority, so a key also     *)
(* needs that not every handler ends with another tick pending: ticks are   *)
(* 10 ms apart, the handlers a few instructions long.  Nothing is assumed   *)
(* of the keys.                                                             *)
AcceptKey == Accept /\ KEYBOARD \in irr \ irr'
Quiet == pc = "stopped" \/ (frames = <<>> /\ 0 \notin I!Deliverable)

FairSpec ==
    /\ Spec
    /\ WF_vars(Handler) /\ WF_vars(Accept) /\ WF_vars(Raise(0))
    /\ SF_vars(Boot) /\ SF_vars(Waiting) /\ SF_vars(ReaderStep)
    /\ SF_vars(AcceptKey) /\ []<>Quiet

-----------------------------------------------------------------------------
(* Properties. *)

(* Every variable has its type, and the thread is in one function at a      *)
(* time: no key is read while timer_wait runs or before the drivers are in. *)
TypeOK ==
    /\ I!TypeOK /\ K!TypeOK
    /\ output \in Bytes \cup {NONE}
    /\ program \in {"question", "answer", "suite", "shell", "line", "command"}
    /\ pc # "running" => reader_pc = "idle"

InHandler ==
    \E n \in DOMAIN frames : frames[n].vector = VECTOR /\ frames[n].at = "dispatch"
Pending == KEYBOARD \in irr
Stranded == output # NONE /\ ~Pending /\ ~InHandler

(* keyboard_handler reads the port without looking at the controller's      *)
(* status: that gives a key once, and not the last one again, because every *)
(* interrupt it is called for, pending or taken, has a byte of its own.     *)
InterruptPerByte ==
    /\ output = NONE => ~Pending /\ ~InHandler
    /\ ~(Pending /\ InHandler)

(* A byte struck before or during the boot, with the line masked or open,   *)
(* waits for its interrupt; only ICW1 of pic_remap forgets one, and leaves  *)
(* a keyboard that raises nothing more.                                     *)
StrandedOnlyAtRemap ==
    [][~Stranded /\ Stranded' => pc = "remap" /\ pc' = "irq gates"]_vars

(* The system is the one of module Interrupts, and gives the driver what    *)
(* module Keyboard assumes: interrupts that come as one step between those  *)
(* of the reader, a reader that goes on, and a tick that ends its hlt.      *)
ImplementsParts == I!Spec /\ K!FairSpec

(* A reader who waits gets the key that is struck, or one struck before it, *)
(* through masks, pending interrupts and hlt, unless the boot stranded it.  *)
Legible(b) == b # NONE /\ b.made /\ b.key \in {"A", "S", "One", "Enter"}
KeyIsRead == (blocking /\ Legible(output) /\ ~Stranded) ~> (reader_pc = "idle")
=============================================================================
