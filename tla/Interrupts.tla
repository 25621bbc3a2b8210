----------------------------- MODULE Interrupts -----------------------------
(***************************************************************************)
(* Interrupts from power-on to the shell: the order in which kernel_main   *)
(* of kernel.c, isr_install of isr.c and the drivers set up the IDT, the   *)
(* two 8259 controllers and the timer; the path of an interrupt through    *)
(* gate, stub, irq_handler, EOI and iretq; timer_wait; and what stops the  *)
(* machine.  The controllers, the processor and the devices are hardware:  *)
(* lines rise at any time, and one that falls before the processor asks    *)
(* for it gives the spurious interrupt of its controller.                  *)
(***************************************************************************)
EXTENDS Integers, Sequences, FiniteSetsExt

CONSTANTS
    Lines,             \* the interrupt lines that ever rise
    Glitches,          \* those of them that may fall too early
    FirmwareMasks,     \* the sets of lines a boot loader may leave masked
    Faults,            \* exceptions the running system may raise
    FREQUENCY,         \* kernel_main's argument of timer_install (100)
    UINT32,            \* 2^32: the range of timer_wait's product
    Delays             \* milliseconds passed to timer_wait

Line == 0 .. 15
Slave == 8 .. 15
CASCADE == 2
Exception == 0 .. 31
FIRST_IRQ == 32

ASSUME InterruptsAssumption ==
    /\ Lines \subseteq Line \ {CASCADE}
    /\ Glitches \subseteq Lines \ {0}   \* the PIT's square wave stays high
    /\ FirmwareMasks \subseteq SUBSET Line
    /\ Faults \subseteq Exception
    /\ FREQUENCY \in Nat /\ UINT32 \in Nat \ {0}
    /\ Delays \subseteq Nat

VARIABLES
    pc,                \* where kernel_main's thread is
    if_flag,           \* the processor's interrupt flag
    idt,               \* the vectors with a gate
    offset,            \* the controllers' vector offsets, ICW2
    firmware,          \* the lines masked at power-on; never written
    masked, irr, in_service,   \* the controllers' registers, by line
    frames,            \* interrupts under way, innermost last
    timer_frequency,
    remaining,         \* timer_wait's target - timer_ticks, not below 0
    cause              \* what stopped the machine

pic == <<offset, masked, irr, in_service>>
timer == <<timer_frequency, remaining>>
vars == <<pc, if_flag, idt, firmware, pic, frames, timer, cause>>

BIOS == [master |-> 8, slave |-> 112]
REMAPPED == [master |-> 32, slave |-> 40]

Init ==
    /\ pc = "start" /\ if_flag = FALSE /\ idt = {} /\ offset = BIOS
    /\ firmware \in FirmwareMasks /\ masked = firmware
    /\ irr = {} /\ in_service = {}
    /\ frames = <<>>
    /\ timer_frequency = 0 /\ remaining = 0
    /\ cause = "none"

-----------------------------------------------------------------------------
(* Hardware: the controllers. *)

(* The slave's lines come in at CASCADE. *)
Rank(l) == IF l \in Slave THEN 8 + l ELSE 8 * l
Vector(l) == IF l \in Slave THEN offset.slave + l - 8 ELSE offset.master + l

Deliverable ==
    {l \in irr \ masked :
        /\ l \in Slave => CASCADE \notin masked
        /\ \A s \in in_service : Rank(l) < Rank(s)}

Highest(S) == CHOOSE l \in S : \A k \in S : Rank(l) <= Rank(k)

Raise(l) ==
    /\ l \notin irr /\ irr' = irr \cup {l}
    /\ UNCHANGED <<pc, if_flag, idt, offset, firmware, masked, in_service, frames>>
    /\ UNCHANGED <<timer, cause>>

(* A non-specific EOI ends the highest interrupt in service. *)
Eoi(S) == IF S = {} THEN {} ELSE S \ {Highest(S)}

-----------------------------------------------------------------------------
(* Hardware: the processor takes vector v, raised by a "line" or a "fault", *)
(* behind a hlt if it was in one.  isr_handler clears the flag, reports and *)
(* halts for ever.  No gate: the faults that follow find none either.       *)
AfterHlt(p) == IF p = "halted" THEN "test" ELSE p

(* The type 0x8E of every gate: the flag is cleared.  Mutant: 0x8F. *)
GateClearsIF_Trap == FALSE
GateClearsIF == TRUE

Take(v, why) ==
    \/ /\ v \in idt /\ v >= FIRST_IRQ
       /\ frames' = Append(frames, [vector |-> v, at |-> "dispatch"])
       /\ if_flag' = (if_flag /\ ~GateClearsIF)
       /\ pc' = AfterHlt(pc) /\ UNCHANGED cause
    \/ /\ v \in idt /\ v < FIRST_IRQ
       /\ if_flag' = FALSE /\ pc' = "stopped" /\ cause' = why
       /\ UNCHANGED frames
    \/ /\ v \notin idt
       /\ if_flag' = FALSE /\ pc' = "stopped" /\ cause' = "reset"
       /\ UNCHANGED frames

Accept ==
    /\ if_flag /\ Deliverable # {}
    /\ LET l == Highest(Deliverable)
           serving == IF l \in Slave THEN {l, CASCADE} ELSE {l}
       IN  /\ Take(Vector(l), "line")
           /\ irr' = irr \ {l} /\ in_service' = in_service \cup serving
    /\ UNCHANGED <<idt, offset, firmware, masked, timer>>

(* The line fell: the lowest vector of its controller, which has nothing in *)
(* service.                                                                 *)
Spurious ==
    /\ if_flag /\ Deliverable # {} /\ Highest(Deliverable) \in Glitches
    /\ LET l == Highest(Deliverable)
           serving == IF l \in Slave THEN {CASCADE} ELSE {}
       IN  /\ Take(Vector(IF l \in Slave THEN 15 ELSE 7), "line")
           /\ irr' = irr \ {l} /\ in_service' = in_service \cup serving
    /\ UNCHANGED <<idt, offset, firmware, masked, timer>>

-----------------------------------------------------------------------------
(* The handler: irqN, irq_common_stub and irq_handler. *)
Top == Len(frames)
At(step) == frames # <<>> /\ frames[Top].at = step /\ pc # "stopped"
Goto(step) == frames' = [frames EXCEPT ![Top].at = step]

(* keyboard_handler, vector 33, is in module Keyboard.  timer_ticks, 64 bits *)
(* wide, does not wrap: all a reader of it sees is the target coming nearer. *)
timer_handler == remaining' = Max({0, remaining - 1})

Dispatch ==
    /\ At("dispatch") /\ Goto("eoi")
    /\ \/ frames[Top].vector = 32 /\ timer_handler
       \/ frames[Top].vector # 32 /\ UNCHANGED remaining
    /\ UNCHANGED <<pc, if_flag, idt, pic, firmware, timer_frequency, cause>>

(* Mutant: the slave is not told. *)
Acknowledged_MasterOnly(irq) == Eoi(in_service \ Slave) \cup (in_service \cap Slave)
Acknowledged(irq) ==
    Eoi(in_service \ Slave)
    \cup (IF irq >= 8 THEN Eoi(in_service \cap Slave) ELSE in_service \cap Slave)

pic_send_eoi ==
    /\ At("eoi") /\ Goto("iretq")
    /\ in_service' = Acknowledged(frames[Top].vector - FIRST_IRQ)
    /\ UNCHANGED <<pc, if_flag, idt, offset, masked, irr, firmware, timer, cause>>

(* The interrupted code ran with the flag set. *)
Iretq ==
    /\ At("iretq")
    /\ frames' = SubSeq(frames, 1, Top - 1) /\ if_flag' = TRUE
    /\ UNCHANGED <<pc, idt, firmware, pic, timer, cause>>

Handler == Dispatch \/ pic_send_eoi \/ Iretq

-----------------------------------------------------------------------------
(* kernel_main. *)
Thread(here) == pc = here /\ frames = <<>>

Stop(why) ==
    /\ pc' = "stopped" /\ cause' = why /\ if_flag' = FALSE
    /\ UNCHANGED <<idt, firmware, pic, frames, timer>>

(* Wrong magic number or misaligned information: return to boot.asm, which  *)
(* halts.                                                                   *)
CheckMultiboot ==
    /\ Thread("start")
    /\ \/ /\ pc' = "idt"
          /\ UNCHANGED <<if_flag, idt, firmware, pic, frames, timer, cause>>
       \/ Stop("return")

idt_install ==
    /\ Thread("idt") /\ pc' = "exceptions"
    /\ idt' = {}
    /\ UNCHANGED <<if_flag, firmware, pic, frames, timer, cause>>

(* isr_install; the mutant sets the flag before the gates of the IRQs. *)
InstallExceptions_StiFirst ==
    /\ Thread("exceptions") /\ pc' = "remap"
    /\ idt' = idt \cup Exception /\ if_flag' = TRUE
    /\ UNCHANGED <<firmware, pic, frames, timer, cause>>
InstallExceptions ==
    /\ Thread("exceptions") /\ pc' = "remap"
    /\ idt' = idt \cup Exception
    /\ UNCHANGED <<if_flag, firmware, pic, frames, timer, cause>>

(* ICW1 clears the mask, what is pending and what is in service; the saved  *)
(* masks are written back.  Mutants: they are not; one offset for both.     *)
pic_remap_SameOffset ==
    /\ Thread("remap") /\ pc' = "irq gates"
    /\ offset' = [REMAPPED EXCEPT !.slave = 32] /\ irr' = {} /\ in_service' = {}
    /\ UNCHANGED <<masked, if_flag, idt, firmware, frames, timer, cause>>
pic_remap_NoRestore ==
    /\ Thread("remap") /\ pc' = "irq gates"
    /\ offset' = REMAPPED /\ masked' = {} /\ irr' = {} /\ in_service' = {}
    /\ UNCHANGED <<if_flag, idt, firmware, frames, timer, cause>>
pic_remap ==
    /\ Thread("remap") /\ pc' = "irq gates"
    /\ offset' = REMAPPED /\ masked' = masked /\ irr' = {} /\ in_service' = {}
    /\ UNCHANGED <<if_flag, idt, firmware, frames, timer, cause>>

InstallIrqs ==
    /\ Thread("irq gates") /\ pc' = "sti"
    /\ idt' = idt \cup (FIRST_IRQ .. FIRST_IRQ + 15)
    /\ UNCHANGED <<if_flag, firmware, pic, frames, timer, cause>>

Sti ==
    /\ Thread("sti") /\ pc' = "memory"
    /\ if_flag' = TRUE
    /\ UNCHANGED <<idt, firmware, pic, frames, timer, cause>>

(* pmm_init and heap_init: modules Pmm and Kmalloc. *)
InitMemory ==
    /\ Thread("memory") /\ pc' = "timer"
    /\ UNCHANGED <<if_flag, idt, firmware, pic, frames, timer, cause>>

irq_clear_mask(l) == masked' = masked \ {l} /\ UNCHANGED <<offset, irr, in_service>>

(* Mutant: the PIT is programmed, its line stays as the firmware left it. *)
timer_install_StaysMasked ==
    /\ Thread("timer") /\ pc' = "keyboard"
    /\ timer_frequency' = FREQUENCY
    /\ UNCHANGED <<if_flag, idt, firmware, pic, frames, remaining, cause>>
timer_install ==
    /\ Thread("timer") /\ pc' = "keyboard"
    /\ timer_frequency' = FREQUENCY
    /\ irq_clear_mask(0)
    /\ UNCHANGED <<if_flag, idt, firmware, frames, remaining, cause>>

(* Mutant: its line stays as the firmware left it. *)
keyboard_install_StaysMasked ==
    /\ Thread("keyboard") /\ pc' = "running"
    /\ UNCHANGED <<if_flag, idt, pic, firmware, frames, timer, cause>>
keyboard_install ==
    /\ Thread("keyboard") /\ pc' = "running"
    /\ irq_clear_mask(1)
    /\ UNCHANGED <<if_flag, idt, firmware, frames, timer, cause>>

(* The shell and the test suite, as far as they wait, stop or fail. *)
WaitTicks(milliseconds) == ((milliseconds * timer_frequency) % UINT32) \div 1000

timer_wait(milliseconds) ==
    /\ Thread("running") /\ pc' = "test"
    /\ remaining' = WaitTicks(milliseconds)
    /\ UNCHANGED <<if_flag, idt, firmware, pic, frames, timer_frequency, cause>>

Test ==
    /\ Thread("test")
    /\ pc' = IF remaining > 0 THEN "hlt" ELSE "running"
    /\ UNCHANGED <<if_flag, idt, firmware, pic, frames, timer, cause>>

(* An interrupt that came since the test has gone by. *)
Hlt ==
    /\ Thread("hlt") /\ pc' = "halted"
    /\ UNCHANGED <<if_flag, idt, firmware, pic, frames, timer, cause>>

(* The command `halt`, and kernel_panic: cli, then hlt for ever. *)
Halt_NoCli ==
    /\ Thread("running") /\ pc' = "stopped" /\ cause' = "halt"
    /\ UNCHANGED <<if_flag, idt, firmware, pic, frames, timer>>
Halt ==
    /\ Thread("running")
    /\ Stop("halt")

Fault(v) ==
    /\ Thread("running")
    /\ Take(v, "fault")
    /\ UNCHANGED <<idt, firmware, pic, timer>>

Boot ==
    CheckMultiboot \/ idt_install \/ InstallExceptions \/ pic_remap
    \/ InstallIrqs \/ Sti \/ InitMemory \/ timer_install \/ keyboard_install
Waiting == Test \/ Hlt
Command ==
    Halt \/ (\E v \in Faults : Fault(v)) \/ (\E ms \in Delays : timer_wait(ms))

Next ==
    \/ \E l \in Lines : Raise(l)
    \/ Accept \/ Spurious
    \/ Handler
    \/ Boot \/ Waiting \/ Command

Spec == Init /\ [][Next]_vars

(* The processor serves what it has accepted, and accepts what stands at    *)
(* its pin; the PIT fires again and again; the handlers are far shorter     *)
(* than the time between interrupts, so that the thread gets its turn       *)
(* between them (strong fairness: handlers keep disabling it).              *)
FairSpec ==
    /\ Spec
    /\ WF_vars(Handler) /\ WF_vars(Accept) /\ WF_vars(Raise(0))
    /\ SF_vars(Boot) /\ SF_vars(Waiting)

-----------------------------------------------------------------------------
(* Properties. *)

(* Every variable has its type. *)
Frame == [vector : 0 .. 47, at : {"dispatch", "eoi", "iretq"}]
TypeOK ==
    /\ pc \in {"start", "idt", "exceptions", "remap", "irq gates", "sti", "memory",
               "timer", "keyboard", "running", "test", "hlt", "halted", "stopped"}
    /\ if_flag \in BOOLEAN /\ idt \subseteq 0 .. 47 /\ offset \in {BIOS, REMAPPED}
    /\ firmware \in FirmwareMasks /\ masked \subseteq Line
    /\ irr \subseteq Lines /\ in_service \subseteq Line
    /\ frames \in Seq(Frame)
    /\ timer_frequency \in {0, FREQUENCY} /\ remaining \in Nat
    /\ cause \in {"none", "return", "halt", "reset", "line", "fault"}

(* From the sti of isr_install on, a line of the controllers, spurious or   *)
(* not, ends in irq_handler: never in a missing gate, which resets the      *)
(* machine, nor, by the firmware's vectors 8 to 15, in isr_handler, which   *)
(* would report a fault nobody caused and stop.                             *)
OnlyFaultsStop == cause \notin {"reset", "line"}

(* Interrupts do not nest, and whenever one can be taken the EOIs have left *)
(* nothing in service in either controller, after slave interrupts and      *)
(* spurious ones too: no line is blocked for ever, and no more than one     *)
(* frame is on the stack.                                                   *)
EoiBalanced ==
    /\ Len(frames) <= 1
    /\ if_flag => in_service = {}
    /\ \A s \in in_service \cap Slave : CASCADE \in in_service

(* Remapping leaves the masks as the firmware set them, and the drivers     *)
(* open their own line only: the handler never sees another device more.    *)
MasksKept ==
    /\ masked \subseteq firmware /\ firmware \ masked \subseteq {0, 1}
    /\ pc \in {"running", "test", "hlt", "halted"} => masked = firmware \ {0, 1}

(* "Presione RESET para reiniciar": after `halt`, a panic or a fault no     *)
(* interrupt brings the machine back to work, not even for the clock.       *)
StopsForGood ==
    [][pc = "stopped" => UNCHANGED <<pc, cause, frames, timer, in_service>>]_vars

(* The interrupts that arrive while the system is half set up do not keep   *)
(* kernel_main from reaching the shell.                                     *)
BootCompletes == (pc = "idt") ~> (pc = "running")

(* timer_wait returns, although the tick it waits for may come between the  *)
(* test and hlt.                                                            *)
WaitReturns == (pc \in {"test", "hlt", "halted"}) ~> (pc = "running")
=============================================================================
