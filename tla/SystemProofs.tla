---------------------------- MODULE SystemProofs ----------------------------
(***************************************************************************)
(* Proofs about the machine of module System.  It runs the modules         *)
(* Interrupts and Keyboard as its parts, so their inductive invariants,    *)
(* taken from the modules that prove them, are the larger share of its     *)
(* own; what is added relates the parts: the byte in the keyboard's        *)
(* controller to the interrupt of line 1, and the place of the thread to   *)
(* that of the reader.  The first two lemmas say that a part is the same   *)
(* whether it is named through System or through its proofs.               *)
(***************************************************************************)
EXTENDS System, SequenceTheorems, TLAPS

IP == INSTANCE InterruptsProofs
KP == INSTANCE KeyboardProofs WITH pc <- reader_pc

(* The interrupts of System are those the proofs are about, action by action. *)
LEMMA SameInterrupts ==
    /\ (I!Init <=> IP!Init) /\ I!vars = IP!vars /\ (I!Next <=> IP!Next)
    /\ (I!Accept <=> IP!Accept) /\ (I!Spurious <=> IP!Spurious)
<1>1. (I!Init <=> IP!Init) /\ I!vars = IP!vars
  BY Zenon DEF I!Init, IP!Init, I!BIOS, IP!BIOS, I!vars, IP!vars, I!pic, IP!pic,
     I!timer, IP!timer
<1>2. (I!Accept <=> IP!Accept) /\ (I!Spurious <=> IP!Spurious) /\ \A l : I!Raise(l) <=> IP!Raise(l)
  BY Zenon DEF I!Accept, IP!Accept, I!Spurious, IP!Spurious, I!Raise, IP!Raise,
     I!Deliverable, IP!Deliverable, I!CASCADE, IP!CASCADE, I!Slave, IP!Slave,
     I!Rank, IP!Rank, I!Highest, IP!Highest, I!Vector, IP!Vector, I!Take, IP!Take,
     I!AfterHlt, IP!AfterHlt, I!GateClearsIF, IP!GateClearsIF, I!FIRST_IRQ,
     IP!FIRST_IRQ, I!timer, IP!timer
<1>3. I!Handler <=> IP!Handler
  BY Zenon DEF I!Handler, IP!Handler, I!Dispatch, IP!Dispatch, I!pic_send_eoi,
     IP!pic_send_eoi, I!Iretq, IP!Iretq, I!At, IP!At, I!Goto, IP!Goto, I!Top,
     IP!Top, I!timer_handler, IP!timer_handler, I!Max, IP!Max, I!Acknowledged, IP!Acknowledged,
     I!Eoi, IP!Eoi, I!Highest, IP!Highest, I!Rank, IP!Rank, I!Slave, IP!Slave,
     I!FIRST_IRQ, IP!FIRST_IRQ, I!pic, IP!pic, I!timer, IP!timer
<1>4. I!Boot <=> IP!Boot
  BY Zenon DEF I!Boot, IP!Boot, I!CheckMultiboot, IP!CheckMultiboot, I!idt_install,
     IP!idt_install, I!InstallExceptions, IP!InstallExceptions, I!pic_remap,
     IP!pic_remap, I!InstallIrqs, IP!InstallIrqs, I!Sti, IP!Sti, I!InitMemory,
     IP!InitMemory, I!timer_install, IP!timer_install, I!keyboard_install,
     IP!keyboard_install, I!Thread, IP!Thread, I!Stop, IP!Stop, I!Exception,
     IP!Exception, I!REMAPPED, IP!REMAPPED, I!FIRST_IRQ, IP!FIRST_IRQ,
     I!irq_clear_mask, IP!irq_clear_mask, I!pic, IP!pic, I!timer, IP!timer
<1>5. (I!Waiting <=> IP!Waiting) /\ (I!Command <=> IP!Command)
  BY Zenon DEF I!Waiting, IP!Waiting, I!Test, IP!Test, I!Hlt, IP!Hlt, I!Command,
     IP!Command, I!Halt, IP!Halt, I!Stop, IP!Stop, I!Thread, IP!Thread, I!Fault,
     IP!Fault, I!timer_wait, IP!timer_wait, I!WaitTicks, IP!WaitTicks, I!pic,
     IP!pic, I!Take, IP!Take, I!AfterHlt, IP!AfterHlt, I!GateClearsIF,
     IP!GateClearsIF, I!FIRST_IRQ, IP!FIRST_IRQ, I!timer, IP!timer
<1> QED
  BY <1>1, <1>2, <1>3, <1>4, <1>5, Zenon DEF I!Next, IP!Next

(* And so are keyboard_handler and the readers of the ring. *)
LEMMA SameKeyboard ==
    (K!Init <=> KP!Init) /\ K!vars = KP!vars /\ (K!Next <=> KP!Next)
<1>1. (K!Init <=> KP!Init) /\ K!vars = KP!vars
  BY Zenon DEF K!Init, KP!Init, K!vars, KP!vars, K!decoder, KP!decoder, K!ring,
     KP!ring, K!results, KP!results, K!Slot, KP!Slot, K!Modifier, KP!Modifier,
     K!NOCHAR, KP!NOCHAR
<1>2. K!Interrupt <=> KP!Interrupt
  BY Zenon DEF K!Interrupt, KP!Interrupt, K!keyboard_handler, KP!keyboard_handler,
     K!Pressed, KP!Pressed, K!Released, KP!Released, K!PressModifier,
     KP!PressModifier, K!PressCapsLock, KP!PressCapsLock, K!PressCharacter,
     KP!PressCharacter, K!NoCharacter, KP!NoCharacter, K!ReleaseModifier,
     KP!ReleaseModifier, K!Ignored, KP!Ignored, K!Tick, KP!Tick, K!Wake, KP!Wake,
     K!Ascii, KP!Ascii, K!modifier_of, KP!modifier_of, K!ShiftKeys, KP!ShiftKeys,
     K!scancode_to_ascii, KP!scancode_to_ascii, K!scancode_to_ascii_shift,
     KP!scancode_to_ascii_shift, K!Upper, KP!Upper, K!NOCHAR, KP!NOCHAR,
     K!keyboard_buffer_push, KP!keyboard_buffer_push, K!HasRoom, KP!HasRoom,
     K!Following, KP!Following, K!decoder, KP!decoder, K!ring, KP!ring, K!results,
     KP!results, K!Thread, KP!Thread
<1>3. K!Call <=> KP!Call
  BY Zenon DEF K!Call, KP!Call, K!StartRead, KP!StartRead, K!StartCount,
     KP!StartCount, K!ClearRead, KP!ClearRead, K!decoder, KP!decoder, K!ring,
     KP!ring, K!results, KP!results, K!Thread, KP!Thread
<1>4. K!Step <=> KP!Step
  BY Zenon DEF K!Step, KP!Step, K!Test, KP!Test, K!Hlt, KP!Hlt, K!Take, KP!Take,
     K!Advance, KP!Advance, K!Count, KP!Count, K!ClearWrite, KP!ClearWrite,
     K!HasInput, KP!HasInput, K!Following, KP!Following, K!CountAfter,
     KP!CountAfter, K!NOCHAR, KP!NOCHAR, K!decoder, KP!decoder, K!ring, KP!ring,
     K!results, KP!results, K!Thread, KP!Thread
<1> QED
  BY <1>1, <1>2, <1>3, <1>4, Zenon DEF K!Next, KP!Next

-----------------------------------------------------------------------------
(* What the two modules assume of their constants. *)
LEMMA PartsAssumptions == IP!InterruptsAssumption /\ KP!KeyboardAssumption
BY SystemAssumption DEF I!InterruptsAssumption, IP!InterruptsAssumption,
   K!KeyboardAssumption, KP!KeyboardAssumption, I!Line, IP!Line, I!CASCADE, IP!CASCADE,
   I!Exception, IP!Exception

(* A step of the machine is a step of module Interrupts, or leaves its       *)
(* variables alone.                                                          *)
LEMMA NextIsInterrupts ==
    ASSUME [Next]_vars
    PROVE  [I!Next]_(I!vars)
<1>0. UNCHANGED machine => UNCHANGED I!vars
  BY DEF machine, I!vars, I!pic, I!timer
<1>1. ASSUME NEW b \in Bytes, Strike(b) PROVE I!Next
  BY <1>1, SystemAssumption DEF Strike, I!Next
<1>2. ASSUME NEW l \in Lines, Raise(l) PROVE I!Next
  BY <1>2 DEF Raise, I!Next
<1>3. CASE Take \/ Handler
  BY <1>3 DEF Take, Handler, irq_handler, I!Handler, I!Next
<1>4. CASE Boot \/ Waiting
  BY <1>4 DEF Boot, Waiting, I!Next
<1>5. CASE ReaderStep
  BY <1>0, <1>5 DEF ReaderStep
<1>6. CASE Question \/ Answer \/ ReadLine \/ Edit
  BY <1>0, <1>6 DEF Question, Answer, ReadLine, Edit, getchar, Goto
<1>7. CASE Suite \/ Execute
  BY <1>0, <1>7 DEF Suite, Execute, Doing, Goto, I!Next, I!Command
<1>8. CASE UNCHANGED vars
  BY <1>0, <1>8 DEF vars
<1> QED
  BY <1>1, <1>2, <1>3, <1>4, <1>5, <1>6, <1>7, <1>8 DEF Next, Program

(* And a step of the driver and its reader, or of something else. *)
LEMMA NextIsKeyboard ==
    ASSUME output \in Bytes \cup {NONE}, [Next]_vars
    PROVE  [K!Next]_(K!vars)
<1>0. UNCHANGED driver => UNCHANGED K!vars
  BY DEF driver, K!vars, K!decoder, K!ring, K!results
<1>1. CASE (\E b \in Bytes : Strike(b)) \/ (\E l \in Lines : Raise(l)) \/ Take \/ Boot \/ Waiting
  BY <1>0, <1>1 DEF Strike, Raise, Take, Boot, Waiting
<1>2. CASE irq_handler
  <2>1. ASSUME NEW b \in Bytes, keyboard_handler(b) PROVE K!Next
    <3>1. b.key \in Keys
      BY SystemAssumption
    <3> QED
      BY <2>1, <3>1 DEF keyboard_handler, K!Next, K!Interrupt, K!keyboard_handler
  <2>2. ASSUME Woken PROVE K!Next \/ UNCHANGED driver
    BY <2>2 DEF Woken, K!Next, K!Interrupt
  <2> QED
    BY <1>0, <1>2, <2>1, <2>2 DEF irq_handler
<1>3. CASE Handler /\ ~irq_handler
  BY <1>0, <1>3 DEF Handler
<1>4. CASE ReaderStep
  BY <1>4 DEF ReaderStep, K!Next
<1>5. CASE Question \/ ReadLine
  BY <1>5 DEF Question, ReadLine, getchar, K!Next, K!Call
<1>6. CASE Answer \/ Edit
  BY <1>0, <1>6 DEF Answer, Edit, Goto
<1>7. CASE Suite \/ Execute
  BY <1>0, <1>7 DEF Suite, Execute, Doing, Goto, K!Next
<1>8. CASE UNCHANGED vars
  BY <1>0, <1>8 DEF vars
<1> QED
  BY <1>1, <1>2, <1>3, <1>4, <1>5, <1>6, <1>7, <1>8 DEF Next, Handler, Program

(* The controller holds one byte of the keyboard, or none. *)
LEMMA OutputTyped ==
    ASSUME output \in Bytes \cup {NONE}, [Next]_vars
    PROVE  output' \in Bytes \cup {NONE}
BY DEF Next, vars, Strike, Raise, Take, Handler, irq_handler, keyboard_handler, Inb, Boot, Waiting,
   ReaderStep, Program, Question, Answer, Suite, ReadLine, Edit, Execute, getchar, Goto, Doing

-----------------------------------------------------------------------------
(* The parts keep their own invariants. *)
(* At power-on each part is as its own module starts it. *)
LEMMA InitParts == Init => IP!Init /\ KP!Init
BY SameInterrupts, SameKeyboard DEF Init

(* The gates, masks and handlers stay as kernel_main sets them up. *)
LEMMA InterruptsKept ==
    ASSUME IP!IInv, [Next]_vars
    PROVE  IP!IInv'
<1>1. IP!InterruptsAssumption
  BY PartsAssumptions
<1>2. [IP!Next]_(IP!vars)
  BY NextIsInterrupts, SameInterrupts DEF I!vars, I!pic, I!timer, IP!vars, IP!pic, IP!timer
<1> QED
  BY <1>1, <1>2, IP!NextIInv

(* The ring and its readers stay consistent under the whole program. *)
LEMMA KeyboardKept ==
    ASSUME KP!IInv, output \in Bytes \cup {NONE}, [Next]_vars
    PROVE  KP!IInv'
<1>1. KP!KeyboardAssumption
  BY PartsAssumptions
<1>2. [KP!Next]_(KP!vars)
  BY NextIsKeyboard, SameKeyboard DEF K!vars, K!decoder, K!ring, K!results, KP!vars,
     KP!decoder, KP!ring, KP!results
<1> QED
  BY <1>1, <1>2, KP!NextIInv

-----------------------------------------------------------------------------
(* The interrupts of line 1, as far as the byte in the controller goes. *)

Handled(s) == \E n \in DOMAIN s : s[n].vector = VECTOR /\ s[n].at = "dispatch"

(* Of one frame, at most, the first is the one to look at. *)
LEMMA HandledFrame ==
    ASSUME NEW f
    PROVE  /\ Handled(<<f>>) <=> f.vector = VECTOR /\ f.at = "dispatch"
           /\ ~Handled(<<>>)
<1>1. Handled(<<f>>) <=> f.vector = VECTOR /\ f.at = "dispatch"
  <2>1. DOMAIN <<f>> = {1} /\ <<f>>[1] = f
    OBVIOUS
  <2> QED
    BY <2>1 DEF Handled
<1>2. DOMAIN <<>> = {}
  OBVIOUS
<1> QED
  BY <1>1, <1>2 DEF Handled

(* There is at most one frame. *)
LEMMA OnlyHandler ==
    ASSUME IP!IInv, frames # <<>>
    PROVE  /\ frames = <<frames[1]>> /\ Len(frames) = 1
           /\ \A step : [frames EXCEPT ![Len(frames)].at = step]
                          = <<[frames[1] EXCEPT !.at = step]>>
           /\ frames[1] \in IP!Frame
<1>1. frames \in Seq(IP!Frame) /\ Len(frames) <= 1
  BY Zenon DEF IP!IInv, IP!TypeOK, IP!HandlerState
<1> QED
  BY <1>1, IP!OnlyFrame, PartsAssumptions

(* Accept puts the pending line 1, and no other, at the head of              *)
(* keyboard_handler.                                                         *)
LEMMA TakeEffect ==
    ASSUME IP!IInv, I!Accept \/ I!Spurious
    PROVE  /\ ~InHandler
           /\ \/ (Pending' <=> Pending) /\ ~InHandler'
              \/ Pending /\ ~Pending' /\ InHandler'
<1>1. /\ IP!InterruptsAssumption
      /\ IP!Accept \/ IP!Spurious
  BY PartsAssumptions, SameInterrupts
<1>2. ~Handled(<<>>) /\ \A f : Handled(<<f>>) <=> f.vector = VECTOR /\ f.at = "dispatch"
  BY HandledFrame
<1>3. /\ InHandler <=> Handled(frames)
      /\ InHandler' <=> Handled(frames')
  BY DEF InHandler, Handled
<1>4. CASE IP!Accept
  <2>1. frames = <<>>
    BY <1>1, <1>4, IP!AcceptIInv
  <2>2. PICK l \in irr : /\ irr' = irr \ {l} /\ l \in IP!Line
                         /\ frames' = <<[vector |-> IP!FIRST_IRQ + l, at |-> "dispatch"]>>
    BY <1>1, <1>4, IP!AcceptIInv
  <2>3. IP!FIRST_IRQ + l = VECTOR <=> l = KEYBOARD
    BY <2>2 DEF IP!FIRST_IRQ, VECTOR, KEYBOARD, IP!Line
  <2>4. InHandler' <=> l = KEYBOARD
    BY <1>2, <1>3, <2>2, <2>3
  <2>5. KEYBOARD \in irr' <=> KEYBOARD \in irr /\ l # KEYBOARD
    BY <2>2
  <2> QED
    BY <1>2, <1>3, <2>1, <2>2, <2>4, <2>5 DEF Pending
<1>5. CASE IP!Spurious
  <2>1. frames = <<>>
    BY <1>1, <1>5, IP!SpuriousIInv
  <2>2. PICK l \in irr \cap Glitches, lowest \in {7, 15} :
           /\ irr' = irr \ {l}
           /\ frames' = <<[vector |-> IP!FIRST_IRQ + lowest, at |-> "dispatch"]>>
    BY <1>1, <1>5, IP!SpuriousIInv
  <2>3. IP!FIRST_IRQ + lowest # VECTOR
    BY DEF IP!FIRST_IRQ, VECTOR
  <2>4. ~InHandler'
    BY <1>2, <1>3, <2>2, <2>3
  <2>5. KEYBOARD \in irr' <=> KEYBOARD \in irr
    BY <2>2, SystemAssumption
  <2> QED
    BY <1>2, <1>3, <2>1, <2>4, <2>5 DEF Pending
<1> QED
  BY <1>1, <1>4, <1>5

(* keyboard_handler runs for the interrupt of vector 33, once. *)
LEMMA HandlerEffect ==
    ASSUME IP!IInv, I!Handler
    PROVE  (Pending' <=> Pending) /\ ~InHandler'
<1>1. frames # <<>>
  BY DEF I!Handler, I!Dispatch, I!pic_send_eoi, I!Iretq, I!At
<1>2. /\ frames = <<frames[1]>> /\ Len(frames) = 1
      /\ \A step : [frames EXCEPT ![Len(frames)].at = step]
                     = <<[frames[1] EXCEPT !.at = step]>>
      /\ frames[1] \in IP!Frame
  BY <1>1, OnlyHandler
<1>3. Pending' <=> Pending
  BY DEF Pending, I!Handler, I!Dispatch, I!pic_send_eoi, I!Iretq, I!pic
<1>4. InHandler' <=> Handled(frames')
  BY DEF InHandler, Handled
<1>5. CASE I!Dispatch \/ I!pic_send_eoi
  <2>1. PICK step \in {"eoi", "iretq"} : frames' = <<[frames[1] EXCEPT !.at = step]>>
    BY <1>2, <1>5 DEF I!Dispatch, I!pic_send_eoi, I!Goto, I!Top
  <2>2. [frames[1] EXCEPT !.at = step].at # "dispatch"
    BY <1>2, <2>1 DEF IP!Frame
  <2> QED
    BY <1>3, <1>4, <2>1, <2>2, HandledFrame
<1>6. CASE I!Iretq
  <2>1. frames' = <<>>
    BY <1>2, <1>6 DEF I!Iretq, I!Top
  <2> QED
    BY <1>3, <1>4, <2>1, HandledFrame
<1> QED
  BY <1>5, <1>6 DEF I!Handler

(* The thread's own steps raise and take nothing; only ICW1 of pic_remap     *)
(* drops what is pending.                                                    *)
LEMMA ThreadEffect ==
    ASSUME IP!IInv, I!Boot \/ I!Waiting \/ I!Command
    PROVE  /\ ~InHandler /\ ~InHandler'
           /\ \/ Pending' <=> Pending
              \/ ~Pending' /\ pc = "remap" /\ pc' = "irq gates"
<1>1. /\ frames = <<>> /\ frames' = frames
      /\ irr' = irr \/ (irr' = {} /\ pc = "remap" /\ pc' = "irq gates")
  <2>1. CASE I!Boot \/ I!Waiting
    BY <2>1 DEF I!Boot, I!Waiting, I!Thread, I!CheckMultiboot, I!Stop, I!idt_install,
       I!InstallExceptions, I!pic_remap, I!InstallIrqs, I!Sti, I!InitMemory,
       I!timer_install, I!keyboard_install, I!irq_clear_mask, I!Test, I!Hlt, I!pic
  <2>2. CASE I!Halt \/ \E ms \in Delays : I!timer_wait(ms)
    BY <2>2 DEF I!Halt, I!Stop, I!timer_wait, I!Thread, I!pic
  <2>3. ASSUME NEW v \in Faults, I!Fault(v) PROVE frames = <<>> /\ frames' = frames /\ irr' = irr
    <3>1. v \in 0 .. 31
      BY PartsAssumptions DEF IP!InterruptsAssumption, IP!Exception
    <3>2. ~(v >= I!FIRST_IRQ)
      BY <3>1 DEF I!FIRST_IRQ
    <3> QED
      BY <2>3, <3>2, Zenon DEF I!Fault, I!Take, I!Thread, I!pic
  <2> QED
    BY <2>1, <2>2, <2>3 DEF I!Command
<1>2. ~Handled(<<>>)
  BY HandledFrame
<1>3. /\ InHandler <=> Handled(frames)
      /\ InHandler' <=> Handled(frames')
  BY DEF InHandler, Handled
<1> QED
  BY <1>1, <1>2, <1>3 DEF Pending

-----------------------------------------------------------------------------
(* What a step does to the byte in the controller and to its interrupt.      *)

(* The interrupt under way is in no state but the one of its frame.          *)
LEMMA DispatchedIsTop ==
    ASSUME IP!IInv, frames # <<>>
    PROVE  InHandler <=> /\ frames[Len(frames)].vector = VECTOR
                         /\ frames[Len(frames)].at = "dispatch"
<1>1. frames = <<frames[1]>> /\ Len(frames) = 1
  BY OnlyHandler
<1>2. InHandler <=> Handled(frames)
  BY DEF InHandler, Handled
<1>3. Handled(<<frames[1]>>) <=> frames[1].vector = VECTOR /\ frames[1].at = "dispatch"
  BY HandledFrame
<1> QED
  BY <1>1, <1>2, <1>3, Zenon

(* Nothing changes of the byte and its interrupt. *)
ByteKept == output' = output /\ (Pending' <=> Pending) /\ (InHandler' <=> InHandler)
(* A byte comes into the empty buffer, and its interrupt with it. *)
ByteStruck ==
    output = NONE /\ output' # NONE /\ Pending' /\ (InHandler' <=> InHandler)
(* The pending interrupt is taken. *)
ByteTaken ==
    output' = output /\ Pending /\ ~InHandler /\ ~Pending' /\ InHandler'
(* keyboard_handler reads the byte. *)
ByteRead ==
    InHandler /\ output # NONE /\ output' = NONE /\ ~InHandler' /\ (Pending' <=> Pending)
(* A handler goes on that has no byte to read. *)
NoByteRead ==
    /\ output' = output /\ (Pending' <=> Pending) /\ ~InHandler'
    /\ output = NONE \/ ~InHandler
(* pic_remap drops what is pending. *)
ByteStranded ==
    /\ output' = output /\ ~InHandler /\ ~InHandler' /\ ~Pending'
    /\ pc = "remap" /\ pc' = "irq gates"

(* Every step of the system does one of these. *)
LEMMA ByteEffect ==
    ASSUME IP!IInv, [Next]_vars
    PROVE  ByteKept \/ ByteStruck \/ ByteTaken \/ ByteRead \/ NoByteRead \/ ByteStranded
<1>0. UNCHANGED <<irr, frames, output>> => ByteKept
  BY DEF ByteKept, Pending, InHandler
<1>1. ASSUME NEW b \in Bytes, Strike(b) PROVE ByteStruck
  <2>1. output = NONE /\ output' # NONE
    BY <1>1, SystemAssumption DEF Strike
  <2>2. Pending' /\ frames' = frames
    BY <1>1 DEF Strike, I!Raise, Pending
  <2> QED
    BY <2>1, <2>2 DEF ByteStruck, InHandler
<1>2. ASSUME NEW l \in Lines, Raise(l) PROVE ByteKept
  <2>1. (Pending' <=> Pending) /\ frames' = frames /\ output' = output
    BY <1>2 DEF Raise, I!Raise, Pending
  <2> QED
    BY <2>1 DEF ByteKept, InHandler
<1>3. CASE Take
  <2>1. output' = output /\ (I!Accept \/ I!Spurious)
    BY <1>3 DEF Take
  <2> QED
    BY <2>1, TakeEffect DEF ByteKept, ByteTaken
<1>4. CASE irq_handler
  <2>1. I!Dispatch /\ (Pending' <=> Pending) /\ ~InHandler'
    BY <1>4, HandlerEffect DEF irq_handler, I!Handler
  <2>2. frames # <<>> /\ frames[Len(frames)].at = "dispatch"
    BY <2>1 DEF I!Dispatch, I!At, I!Top
  <2>3. InHandler <=> frames[Len(frames)].vector = VECTOR
    BY <2>2, DispatchedIsTop
  <2>4. CASE IsKeyboard(frames[Len(frames)].vector) /\ output # NONE /\ keyboard_handler(output)
    BY <2>1, <2>3, <2>4 DEF IsKeyboard, keyboard_handler, Inb, ByteRead
  <2>5. CASE ~(IsKeyboard(frames[Len(frames)].vector) /\ output # NONE) /\ UNCHANGED output
    BY <2>1, <2>3, <2>5 DEF IsKeyboard, NoByteRead
  <2> QED
    BY <1>4, <2>4, <2>5 DEF irq_handler
<1>5. CASE Handler /\ ~irq_handler
  <2>1. (I!pic_send_eoi \/ I!Iretq) /\ output' = output
    BY <1>5 DEF Handler
  <2>2. (Pending' <=> Pending) /\ ~InHandler'
    BY <2>1, HandlerEffect DEF I!Handler
  <2>3. frames # <<>> /\ frames[Len(frames)].at # "dispatch"
    BY <2>1 DEF I!pic_send_eoi, I!Iretq, I!At, I!Top
  <2>4. ~InHandler
    BY <2>3, DispatchedIsTop
  <2> QED
    BY <2>1, <2>2, <2>4 DEF NoByteRead
<1>6. CASE (I!Boot \/ I!Waiting \/ I!Command) /\ output' = output
  BY <1>6, ThreadEffect DEF ByteKept, ByteStranded
<1>7. CASE UNCHANGED machine /\ output' = output
  BY <1>0, <1>7 DEF machine
<1>8. CASE Boot \/ Waiting
  BY <1>6, <1>8 DEF Boot, Waiting
<1>9. CASE ReaderStep \/ Question \/ Answer \/ ReadLine \/ Edit
  BY <1>7, <1>9 DEF ReaderStep, Question, Answer, ReadLine, Edit, getchar, Goto
<1>10. CASE Suite \/ Execute
  BY <1>6, <1>7, <1>10 DEF Suite, Execute, Doing, Goto, I!Command
<1>11. CASE UNCHANGED vars
  BY <1>7, <1>11 DEF vars
<1> QED
  BY <1>1, <1>2, <1>3, <1>4, <1>5, <1>8, <1>9, <1>10, <1>11 DEF Next, Handler, Program

(* So a byte keeps its interrupt until it is read, and an interrupt its      *)
(* byte: keyboard_handler finds each byte once, and none twice.              *)
LEMMA InterruptPerByteKept ==
    ASSUME IP!IInv, InterruptPerByte, [Next]_vars
    PROVE  InterruptPerByte'
<1>1. CASE ByteKept
  BY <1>1 DEF ByteKept, InterruptPerByte
<1>2. CASE ByteStruck
  BY <1>2 DEF ByteStruck, InterruptPerByte
<1>3. CASE ByteTaken
  BY <1>3 DEF ByteTaken, InterruptPerByte
<1>4. CASE ByteRead
  BY <1>4 DEF ByteRead, InterruptPerByte
<1>5. CASE NoByteRead
  BY <1>5 DEF NoByteRead, InterruptPerByte
<1>6. CASE ByteStranded
  BY <1>6 DEF ByteStranded, InterruptPerByte
<1> QED
  BY <1>1, <1>2, <1>3, <1>4, <1>5, <1>6, ByteEffect

-----------------------------------------------------------------------------
(* The thread: one function at a time. *)

OneFunction == pc # "running" => reader_pc = "idle"
ProgramTyped == program \in {"question", "answer", "suite", "shell", "line", "command"}

(* An interrupt, whatever it does for the driver, starts no reader. *)
LEMMA HandlerStartsNoReader ==
    ASSUME Handler, reader_pc = "idle"
    PROVE  reader_pc' = "idle"
BY DEF Handler, irq_handler, Woken, keyboard_handler, driver, K!Pressed, K!Released,
   K!PressModifier, K!ReleaseModifier, K!PressCapsLock, K!PressCharacter, K!NoCharacter,
   K!Ignored, K!Tick, K!Wake

(* The machine leaves the place where the readers run only by timer_wait,    *)
(* `halt` and faults, which the thread reaches with no reader under way.     *)
LEMMA OneFunctionKept ==
    ASSUME IP!IInv, OneFunction, [Next]_vars
    PROVE  OneFunction'
<1>0. UNCHANGED <<pc, reader_pc>> => OneFunction'
  BY DEF OneFunction
<1>1. CASE (\E b \in Bytes : Strike(b)) \/ (\E l \in Lines : Raise(l))
  BY <1>0, <1>1 DEF Strike, Raise, I!Raise, driver
<1>2. CASE Take
  <2>1. IP!Accept \/ IP!Spurious
    BY <1>2, SameInterrupts DEF Take
  <2>2. pc' = IP!AfterHlt(pc)
    BY <2>1, PartsAssumptions, IP!AcceptIInv, IP!SpuriousIInv
  <2>3. reader_pc' = reader_pc
    BY <1>2 DEF Take, driver
  <2> QED
    BY <2>2, <2>3 DEF IP!AfterHlt, OneFunction
<1>3. CASE Handler
  <2>1. pc' = pc
    BY <1>3 DEF Handler, irq_handler, I!Dispatch, I!pic_send_eoi, I!Iretq
  <2> QED
    BY <1>3, <2>1, HandlerStartsNoReader DEF OneFunction
<1>4. CASE Boot \/ Waiting
  <2>1. pc # "running"
    BY <1>4 DEF Boot, Waiting, I!Boot, I!Waiting, I!Thread, I!CheckMultiboot, I!idt_install,
       I!InstallExceptions, I!pic_remap, I!InstallIrqs, I!Sti, I!InitMemory, I!timer_install,
       I!keyboard_install, I!Test, I!Hlt
  <2>2. reader_pc' = reader_pc
    BY <1>4 DEF Boot, Waiting, driver
  <2> QED
    BY <2>1, <2>2 DEF OneFunction
<1>5. CASE ReaderStep
  BY <1>5 DEF ReaderStep, Running, machine, OneFunction
<1>6. CASE Question \/ ReadLine
  BY <1>6 DEF Question, ReadLine, At, Running, getchar, machine, OneFunction
<1>7. CASE Answer \/ Edit
  BY <1>0, <1>7 DEF Answer, Edit, Goto, machine, driver
<1>8. CASE Suite \/ Execute
  <2>1. pc = "running" /\ reader_pc = "idle" /\ (UNCHANGED machine \/ UNCHANGED driver)
    BY <1>8 DEF Suite, Execute, At, Running, Doing, Goto
  <2> QED
    BY <2>1 DEF machine, driver, OneFunction
<1>9. CASE UNCHANGED vars
  BY <1>0, <1>9 DEF vars, machine, driver
<1> QED
  BY <1>1, <1>2, <1>3, <1>4, <1>5, <1>6, <1>7, <1>8, <1>9 DEF Next, Program

-----------------------------------------------------------------------------
(* The invariant of the system: those of the parts, and what relates them.   *)
OutputTypeOK == output \in Bytes \cup {NONE}
SInv ==
    /\ IP!IInv /\ KP!IInv
    /\ OutputTypeOK /\ ProgramTyped /\ OneFunction
    /\ InterruptPerByte

(* It holds at power-on. *)
LEMMA InitSInv == ASSUME Init PROVE SInv
<1>1. IP!Init /\ KP!Init
  BY InitParts
<1>2. IP!IInv /\ KP!IInv
  BY <1>1, PartsAssumptions, IP!InitIInv, KP!InitIInv
<1>3. irr = {} /\ frames = <<>> /\ reader_pc = "idle"
  BY DEF Init, I!Init, K!Init
<1>4. ~Pending /\ ~InHandler
  BY <1>3 DEF Pending, InHandler
<1> QED
  BY <1>2, <1>3, <1>4 DEF Init, SInv, OutputTypeOK, ProgramTyped, OneFunction, InterruptPerByte

(* And every step keeps it. *)
LEMMA NextSInv == ASSUME SInv, [Next]_vars PROVE SInv'
<1>1. ProgramTyped'
  BY DEF SInv, ProgramTyped, Next, vars, Strike, Raise, Take, Handler, irq_handler, Boot,
     Waiting, ReaderStep, Program, Question, Answer, Suite, ReadLine, Edit, Execute, getchar,
     Goto, Doing
<1>2. OutputTypeOK'
  BY OutputTyped DEF SInv, OutputTypeOK
<1>3. IP!IInv' /\ KP!IInv'
  BY InterruptsKept, KeyboardKept DEF SInv, OutputTypeOK
<1>4. OneFunction' /\ InterruptPerByte'
  BY OneFunctionKept, InterruptPerByteKept DEF SInv
<1> QED
  BY <1>1, <1>2, <1>3, <1>4 DEF SInv

(* So it always holds. *)
LEMMA AlwaysSInv == Spec => []SInv
<1>1. Init => SInv
  BY InitSInv
<1>2. SInv /\ [Next]_vars => SInv'
  BY NextSInv
<1> QED
  BY <1>1, <1>2, PTL DEF Spec

-----------------------------------------------------------------------------
(* Every variable has its type, and kernel_main's thread is in one function  *)
(* at a time: timer_wait, the boot and the reader of keys never overlap.     *)
THEOREM SystemTyped == Spec => []TypeOK
<1>1. SInv => TypeOK
  <2> SUFFICES ASSUME SInv PROVE TypeOK
    OBVIOUS
  <2>1. I!TypeOK
    BY Zenon DEF SInv, IP!IInv, IP!TypeOK, I!TypeOK, I!Line, IP!Line, I!BIOS, IP!BIOS,
       I!REMAPPED, IP!REMAPPED, I!Frame, IP!Frame
  <2>2. K!TypeOK
    BY Zenon DEF SInv, KP!IInv, KP!TypeOK, K!TypeOK, K!Modifier, KP!Modifier, K!Slot, KP!Slot,
       K!Char, KP!Char, K!NOCHAR, KP!NOCHAR, K!ShiftKeys, KP!ShiftKeys
  <2> QED
    BY <2>1, <2>2 DEF SInv, TypeOK, OutputTypeOK, ProgramTyped, OneFunction
<1> QED
  BY <1>1, AlwaysSInv, PTL

(* keyboard_handler reads port 0x60 without asking the controller's status:  *)
(* the buffer is never empty then, and its byte has not been read before.    *)
THEOREM BytesHaveTheirInterrupt == Spec => []InterruptPerByte
<1>1. SInv => InterruptPerByte
  BY DEF SInv
<1> QED
  BY <1>1, AlwaysSInv, PTL

(* A struck key waits for its interrupt through masks, cli and other         *)
(* interrupts; only pic_remap's ICW1 can leave it in the controller.         *)
THEOREM OnlyRemapStrands == Spec => StrandedOnlyAtRemap
<1>1. ASSUME SInv, [Next]_vars, ~Stranded, Stranded'
      PROVE  pc = "remap" /\ pc' = "irq gates"
  <2>1. output' # NONE /\ ~Pending' /\ ~InHandler'
    BY <1>1 DEF Stranded
  <2>2. output = NONE \/ Pending \/ InHandler
    BY <1>1 DEF Stranded
  <2>3. ~ByteKept
    BY <2>1, <2>2 DEF ByteKept
  <2>4. ~ByteStruck /\ ~ByteTaken /\ ~ByteRead
    BY <2>1 DEF ByteStruck, ByteTaken, ByteRead
  <2>5. ~NoByteRead
    BY <1>1, <2>1, <2>2 DEF NoByteRead, SInv, InterruptPerByte
  <2> QED
    BY <1>1, <2>3, <2>4, <2>5, ByteEffect DEF ByteStranded, SInv
<1>2. SInv /\ [Next]_vars
      => [~Stranded /\ Stranded' => pc = "remap" /\ pc' = "irq gates"]_vars
  BY <1>1
<1> QED
  BY <1>2, AlwaysSInv, PTL DEF Spec, StrandedOnlyAtRemap

(* The whole machine is a machine of module Interrupts, whatever the program *)
(* does, and the driver in it is the one of module Keyboard: the safety part *)
(* of ImplementsParts.                                                       *)
THEOREM SystemHasItsParts == Spec => I!Spec /\ K!Spec
<1>1. Init => I!Init /\ K!Init
  BY DEF Init
<1>2. [Next]_vars => [I!Next]_(I!vars)
  BY NextIsInterrupts
<1>3. SInv /\ [Next]_vars => [K!Next]_(K!vars)
  BY NextIsKeyboard DEF SInv, OutputTypeOK
<1> QED
  BY <1>1, <1>2, <1>3, AlwaysSInv, PTL DEF Spec, I!Spec, K!Spec

(* What is proved of the interrupts alone therefore holds with the driver    *)
(* behind vector 33 and the program on top: no line resets the machine, the  *)
(* EOIs balance, no other device is unmasked.                                *)
THEOREM InterruptsStaySound == Spec => [](I!OnlyFaultsStop /\ I!EoiBalanced /\ I!MasksKept)
<1>1. SInv => I!OnlyFaultsStop /\ I!MasksKept
  BY DEF SInv, IP!IInv, IP!OnlyFaultsStop, I!OnlyFaultsStop, IP!MaskState, I!MasksKept
<1>2. SInv => I!EoiBalanced
  <2> SUFFICES ASSUME SInv PROVE I!EoiBalanced
    OBVIOUS
  <2>1. Len(frames) <= 1 /\ (if_flag => in_service = {})
    BY DEF SInv, IP!IInv, IP!HandlerState
  <2>2. ASSUME NEW s \in in_service \cap I!Slave PROVE I!CASCADE \in in_service
    BY <2>2 DEF SInv, IP!IInv, IP!HandlerState, IP!Served, IP!Line, IP!Slave, IP!CASCADE,
       I!Slave, I!CASCADE
  <2> QED
    BY <2>1, <2>2 DEF I!EoiBalanced
<1> QED
  BY <1>1, <1>2, AlwaysSInv, PTL
=============================================================================
