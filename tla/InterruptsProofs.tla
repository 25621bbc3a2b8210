-------------------------- MODULE InterruptsProofs --------------------------
(***************************************************************************)
(* Proofs about the interrupts of module Interrupts, for every set of      *)
(* lines that rise, of masks the firmware leaves, of faults and of delays. *)
(* The inductive invariant follows kernel_main: what gates, offsets and    *)
(* masks are at each of its steps, that the flag is set only when all the  *)
(* gates stand, no handler runs and nothing is in service, and, while a    *)
(* handler runs, what its EOIs still have to end.                          *)
(***************************************************************************)
EXTENDS Interrupts, Extrema, SequenceTheorems

Working == {"memory", "timer", "keyboard", "running", "test", "hlt", "halted"}

(* What kernel_main has set up when it is where pc says. *)
BootState ==
    /\ pc \in {"remap", "irq gates", "sti"} \cup Working => Exception \subseteq idt
    /\ pc \in {"irq gates", "sti"} \cup Working => offset = REMAPPED
    /\ pc \in {"sti"} \cup Working => idt = 0 .. 47
    /\ pc \notin Working => ~if_flag /\ frames = <<>> /\ in_service = {}

MaskState ==
    /\ masked \subseteq firmware /\ firmware \ masked \subseteq {0, 1}
    /\ pc \in {"start", "idt", "exceptions", "remap", "irq gates", "sti", "memory", "timer"}
          => masked = firmware
    /\ pc = "keyboard" => masked = firmware \ {0}
    /\ pc \in {"running", "test", "hlt", "halted"} => masked = firmware \ {0, 1}

(* What stands in service for the interrupt of a vector until its EOIs:     *)
(* its line, or none if it was spurious, and CASCADE for the slave's.       *)
Served(v, S) ==
    LET irq == v - FIRST_IRQ IN
    \/ irq \in Line \ Slave /\ S \subseteq {irq}
    \/ irq \in Slave /\ CASCADE \in S /\ S \subseteq {irq, CASCADE}

HandlerState ==
    /\ Len(frames) <= 1
    /\ if_flag => frames = <<>>
    /\ frames = <<>> => in_service = {}
    /\ frames # <<>> =>
          IF frames[1].at = "iretq" THEN in_service = {}
          ELSE Served(frames[1].vector, in_service)

IInv == TypeOK /\ OnlyFaultsStop /\ BootState /\ MaskState /\ HandlerState

-----------------------------------------------------------------------------
(* The controllers. *)

(* The lines of a set have a highest one. *)
LEMMA HighestIsIn ==
    ASSUME NEW S \in SUBSET Line, S # {}
    PROVE  Highest(S) \in S
<1> DEFINE ranks == {Rank(l) : l \in S}
<1>1. \A l \in S : Rank(l) \in Nat
  BY DEF Rank, Line, Slave
<1>2. ranks \in SUBSET Nat /\ ranks # {}
  <2> HIDE DEF ranks
  <2>1. \A r \in ranks : \E l \in S : r = Rank(l)
    BY DEF ranks
  <2>2. \A l \in S : Rank(l) \in ranks
    BY DEF ranks
  <2> QED
    BY <1>1, <2>1, <2>2
<1>3. PICK r \in ranks : \A k \in ranks : r <= k
  BY <1>2, LeastNatural
<1>4. \E l \in S : \A k \in S : Rank(l) <= Rank(k)
  BY <1>3
<1> QED
  BY <1>4 DEF Highest

(* A line the processor can be given is one that is pending and raised. *)
LEMMA DeliverableLine ==
    ASSUME TypeOK, Deliverable # {}
    PROVE  Highest(Deliverable) \in irr /\ Highest(Deliverable) \in Line \ {CASCADE}
<1>1. Deliverable \in SUBSET irr /\ irr \subseteq Line \ {CASCADE}
  BY InterruptsAssumption DEF TypeOK, Deliverable
<1>2. Highest(Deliverable) \in Deliverable
  BY <1>1, HighestIsIn
<1> QED
  BY <1>1, <1>2

(* The EOIs of irq_handler end whatever its interrupt put in service. *)
LEMMA EoiEndsAll ==
    ASSUME NEW v \in 0 .. 47, Served(v, in_service)
    PROVE  Acknowledged(v - FIRST_IRQ) = {}
<1> DEFINE irq == v - FIRST_IRQ
<1>0. \A l \in Line : Eoi({l}) = {}
  <2> TAKE l \in Line
  <2>1. Highest({l}) \in {l}
    BY HighestIsIn
  <2> QED
    BY <2>1 DEF Eoi
<1>1. CASE irq \in Line \ Slave /\ in_service \subseteq {irq}
  <2>1. in_service \cap Slave = {} /\ ~(irq >= 8)
    BY <1>1 DEF Line, Slave
  <2>2. in_service \ Slave = {} \/ in_service \ Slave = {irq}
    BY <1>1
  <2>3. Eoi({}) = {}
    BY DEF Eoi
  <2> QED
    BY <1>0, <1>1, <2>1, <2>2, <2>3 DEF Acknowledged
<1>2. CASE irq \in Slave /\ CASCADE \in in_service /\ in_service \subseteq {irq, CASCADE}
  <2>1. irq >= 8 /\ irq \in Line /\ CASCADE \in Line \ Slave
    BY <1>2 DEF Line, Slave, CASCADE
  <2>2. in_service \ Slave = {CASCADE}
    BY <1>2, <2>1
  <2>3. in_service \cap Slave = {} \/ in_service \cap Slave = {irq}
    BY <1>2, <2>1
  <2>4. Eoi({}) = {}
    BY DEF Eoi
  <2> QED
    BY <1>0, <2>1, <2>2, <2>3, <2>4 DEF Acknowledged
<1> QED
  BY <1>1, <1>2 DEF Served

-----------------------------------------------------------------------------
(* The stack of frames. *)

(* No interrupt under way: the empty stack. *)
LEMMA NoFrame == <<>> \in Seq(Frame) /\ Len(<<>>) = 0
OBVIOUS

(* The stack with the frame of one interrupt, pushed on the empty one. *)
LEMMA OneFrame ==
    ASSUME NEW f \in Frame
    PROVE  /\ <<f>> \in Seq(Frame) /\ Len(<<f>>) = 1 /\ <<f>>[1] = f /\ <<f>> # <<>>
           /\ \A s \in Seq(Frame) : s = <<>> => Append(s, f) = <<f>>
<1>1. /\ <<f>> \in Seq(Frame) /\ Len(<<f>>) = 1 /\ <<f>>[1] = f /\ <<f>> # <<>>
  OBVIOUS
<1>2. ASSUME NEW s \in Seq(Frame), s = <<>> PROVE Append(s, f) = <<f>>
  BY <1>2
<1> QED
  BY <1>1, <1>2

(* A stack that does not nest is its one frame; iretq empties it. *)
LEMMA OnlyFrame ==
    ASSUME NEW s \in Seq(Frame), s # <<>>, Len(s) <= 1
    PROVE  /\ Len(s) = 1 /\ s[1] \in Frame /\ s = <<s[1]>>
           /\ SubSeq(s, 1, Len(s) - 1) = <<>>
           /\ \A step : [s EXCEPT ![Len(s)].at = step] = <<[s[1] EXCEPT !.at = step]>>
<1>1. Len(s) = 1
  <2>1. Len(s) \in Nat /\ Len(s) # 0
    BY EmptySeq, LenProperties
  <2> QED
    BY <2>1
<1>2. s[1] \in Frame
  BY <1>1, ElementOfSeq
<1>3. s = <<s[1]>>
  <2>1. /\ <<s[1]>> \in Seq(Frame) /\ Len(<<s[1]>>) = 1 /\ <<s[1]>>[1] = s[1]
    BY <1>2, OneFrame
  <2> QED
    BY <1>1, <2>1, SeqEqual
<1>4. SubSeq(s, 1, Len(s) - 1) = <<>>
  BY <1>1
<1>5. ASSUME NEW step
      PROVE  [s EXCEPT ![Len(s)].at = step] = <<[s[1] EXCEPT !.at = step]>>
  BY <1>1, <1>3
<1> QED
  BY <1>1, <1>2, <1>3, <1>4, <1>5

(* irq_handler changes where it is in a frame, never the vector. *)
LEMMA FrameParts ==
    ASSUME NEW f \in Frame
    PROVE  /\ f.vector \in 0 .. 47
           /\ \A step \in {"dispatch", "eoi", "iretq"} :
                 /\ [f EXCEPT !.at = step] \in Frame
                 /\ [f EXCEPT !.at = step].at = step
                 /\ [f EXCEPT !.at = step].vector = f.vector
BY DEF Frame

(* What the processor pushes is a frame. *)
LEMMA NewFrame ==
    ASSUME NEW v \in 0 .. 47
    PROVE  [vector |-> v, at |-> "dispatch"] \in Frame
BY DEF Frame

-----------------------------------------------------------------------------
(* The invariant holds at power-on and is kept by every step. *)

(* The firmware hands over with the flag clear and nothing in service. *)
LEMMA InitIInv == Init => IInv
<1> SUFFICES ASSUME Init PROVE IInv
  OBVIOUS
<1> USE InterruptsAssumption
<1>1. TypeOK
  BY NoFrame DEF Init, TypeOK
<1>2. BootState /\ MaskState /\ HandlerState /\ OnlyFaultsStop
  BY NoFrame DEF Init, BootState, MaskState, HandlerState, OnlyFaultsStop, Working
<1> QED
  BY <1>1, <1>2 DEF IInv

(* What a step that leaves the thread and the processor alone may do. *)
LEMMA RaiseIInv ==
    ASSUME IInv, NEW l \in Lines, Raise(l)
    PROVE  IInv'
<1>1. TypeOK'
  BY DEF IInv, TypeOK, Raise, timer
<1> QED
  BY <1>1 DEF IInv, Raise, timer, OnlyFaultsStop, BootState, MaskState, HandlerState

(* An interrupt of the controllers is taken only when nothing else is under *)
(* way and every gate stands, so it ends in irq_handler.                    *)
LEMMA TakeIInv ==
    ASSUME IInv, if_flag, NEW v \in FIRST_IRQ .. 47, Take(v, "line"),
           Served(v, in_service'), in_service' \subseteq Line, irr' \subseteq irr,
           UNCHANGED <<idt, offset, firmware, masked, timer>>
    PROVE  /\ IInv' /\ frames = <<>> /\ pc' = AfterHlt(pc)
           /\ frames' = <<[vector |-> v, at |-> "dispatch"]>>
<1> DEFINE f == [vector |-> v, at |-> "dispatch"]
<1>1. pc \in Working /\ idt = 0 .. 47 /\ frames = <<>>
  BY DEF IInv, BootState, HandlerState
<1>2. v \in 0 .. 47 /\ v >= FIRST_IRQ /\ f \in Frame
  BY NewFrame DEF FIRST_IRQ
<1>3. /\ frames' = <<f>> /\ if_flag' = FALSE
      /\ pc' = AfterHlt(pc) /\ cause' = cause
  <2>0. v \in idt /\ ~(v < FIRST_IRQ)
    BY <1>1, <1>2 DEF FIRST_IRQ
  <2>1. /\ frames' = Append(frames, f) /\ if_flag' = (if_flag /\ ~GateClearsIF)
        /\ pc' = AfterHlt(pc) /\ cause' = cause
    BY <2>0, Zenon DEF Take
  <2>2. if_flag' = FALSE
    BY <2>1 DEF GateClearsIF
  <2>3. pc' = AfterHlt(pc) /\ cause' = cause
    BY <2>1
  <2> HIDE DEF f
  <2>4. frames' = <<f>>
    BY <1>1, <1>2, <2>1, OneFrame, NoFrame
  <2> QED
    BY <2>2, <2>3, <2>4
<1>4. pc' \in Working /\ (pc' = pc \/ (pc = "halted" /\ pc' = "test"))
  <2>1. pc \in Working
    BY <1>1
  <2>2. pc' = IF pc = "halted" THEN "test" ELSE pc
    BY <1>3 DEF AfterHlt
  <2> HIDE DEF f
  <2> QED
    BY <2>1, <2>2 DEF Working
<1>5. TypeOK'
  <2>1. frames' \in Seq(Frame)
    BY <1>2, <1>3, OneFrame
  <2> QED
    BY <1>3, <1>4, <2>1 DEF IInv, TypeOK, timer, Working
<1>6. BootState'
  BY <1>1, <1>4 DEF IInv, BootState
<1>7. MaskState'
  BY <1>4 DEF IInv, MaskState, Working
<1>8. HandlerState'
  BY <1>2, <1>3, OneFrame DEF HandlerState
<1> QED
  BY <1>1, <1>3, <1>5, <1>6, <1>7, <1>8 DEF IInv, OnlyFaultsStop

(* The vector of a line, once the controllers are remapped. *)
LEMMA RemappedVector ==
    ASSUME offset = REMAPPED, NEW l \in Line
    PROVE  Vector(l) = FIRST_IRQ + l /\ Vector(l) \in FIRST_IRQ .. 47
BY DEF Vector, REMAPPED, FIRST_IRQ, Line, Slave

(* Accept takes a pending line to the gate of its own vector. *)
LEMMA AcceptIInv ==
    ASSUME IInv, Accept
    PROVE  /\ IInv' /\ frames = <<>> /\ pc' = AfterHlt(pc)
           /\ \E l \in irr : /\ irr' = irr \ {l} /\ l \in Line
                            /\ frames' = <<[vector |-> FIRST_IRQ + l, at |-> "dispatch"]>>
<1> DEFINE l == Highest(Deliverable)
<1>1. l \in irr /\ l \in Line \ {CASCADE}
  BY DeliverableLine DEF IInv, Accept
<1>2. offset = REMAPPED /\ in_service = {}
  BY DEF IInv, TypeOK, Accept, BootState, HandlerState, Working
<1>3. in_service' = IF l \in Slave THEN {l, CASCADE} ELSE {l}
  BY <1>2 DEF Accept
<1>4. Vector(l) = FIRST_IRQ + l /\ Vector(l) \in FIRST_IRQ .. 47
  BY <1>1, <1>2, RemappedVector
<1>5. Served(Vector(l), in_service') /\ in_service' \subseteq Line
  BY <1>1, <1>3, <1>4 DEF Served, Line, Slave, CASCADE, FIRST_IRQ
<1>6. irr' = irr \ {l}
  BY DEF Accept
<1>7. /\ IInv' /\ frames = <<>> /\ pc' = AfterHlt(pc)
      /\ frames' = <<[vector |-> Vector(l), at |-> "dispatch"]>>
  BY <1>4, <1>5, TakeIInv DEF Accept
<1> HIDE DEF l
<1> QED
  BY <1>1, <1>4, <1>6, <1>7

(* Spurious takes a line that fell to the lowest vector of its controller. *)
LEMMA SpuriousIInv ==
    ASSUME IInv, Spurious
    PROVE  /\ IInv' /\ frames = <<>> /\ pc' = AfterHlt(pc)
           /\ \E l \in irr \cap Glitches, lowest \in {7, 15} :
                 /\ irr' = irr \ {l}
                 /\ frames' = <<[vector |-> FIRST_IRQ + lowest, at |-> "dispatch"]>>
<1> DEFINE l == Highest(Deliverable)
           lowest == IF l \in Slave THEN 15 ELSE 7
<1>1. l \in irr /\ l \in Line \ {CASCADE}
  BY DeliverableLine DEF IInv, Spurious
<1>2. offset = REMAPPED /\ in_service = {}
  BY DEF IInv, TypeOK, Spurious, BootState, HandlerState, Working
<1>3. in_service' = IF l \in Slave THEN {CASCADE} ELSE {}
  BY <1>2 DEF Spurious
<1>4. Vector(lowest) = FIRST_IRQ + lowest /\ Vector(lowest) \in FIRST_IRQ .. 47
  BY <1>2, RemappedVector DEF Line
<1>5. Served(Vector(lowest), in_service') /\ in_service' \subseteq Line
  BY <1>1, <1>3, <1>4 DEF Served, Line, Slave, CASCADE, FIRST_IRQ
<1>6. irr' = irr \ {l} /\ l \in Glitches /\ lowest \in {7, 15}
  BY DEF Spurious
<1>7. /\ IInv' /\ frames = <<>> /\ pc' = AfterHlt(pc)
      /\ frames' = <<[vector |-> Vector(lowest), at |-> "dispatch"]>>
  BY <1>4, <1>5, TakeIInv DEF Spurious
<1> HIDE DEF l, lowest
<1> QED
  BY <1>1, <1>4, <1>6, <1>7

(* While a handler runs there is one frame, and the system is set up. *)
LEMMA InHandler ==
    ASSUME IInv, NEW step \in {"dispatch", "eoi", "iretq"}, At(step)
    PROVE  /\ frames # <<>> /\ Top = 1 /\ frames[1].at = step /\ frames[1] \in Frame
           /\ SubSeq(frames, 1, Top - 1) = <<>>
           /\ \A s : [frames EXCEPT ![Top].at = s] = <<[frames[1] EXCEPT !.at = s]>>
           /\ ~if_flag /\ pc \in Working
<1>1. frames \in Seq(Frame) /\ frames # <<>> /\ Len(frames) <= 1
  BY DEF IInv, TypeOK, At, HandlerState
<1>2. ~if_flag /\ pc \in Working
  BY <1>1 DEF IInv, TypeOK, BootState, HandlerState
<1> QED
  BY <1>1, <1>2, OnlyFrame DEF At, Top

(* The handler moves on by a step that leaves thread, gates and masks alone. *)
LEMMA HandlerMoves ==
    ASSUME IInv, NEW from \in {"dispatch", "eoi", "iretq"}, At(from),
           NEW to \in {"dispatch", "eoi", "iretq"}, Goto(to),
           IF to = "iretq" THEN in_service' = {} ELSE in_service' = in_service,
           from # "iretq", remaining' \in Nat,
           UNCHANGED <<pc, if_flag, idt, offset, firmware, masked, irr>>,
           UNCHANGED <<timer_frequency, cause>>
    PROVE  IInv'
<1> DEFINE f == [frames[1] EXCEPT !.at = to]
<1>1. /\ frames # <<>> /\ frames[1].at = from /\ frames[1] \in Frame
      /\ frames' = <<f>> /\ ~if_flag /\ pc \in Working
  BY InHandler DEF Goto
<1>2. f \in Frame /\ f.at = to /\ f.vector = frames[1].vector
  BY <1>1, FrameParts
<1> HIDE DEF f
<1>3. frames' \in Seq(Frame) /\ Len(frames') = 1 /\ frames'[1] = f /\ frames' # <<>>
  BY <1>1, <1>2, OneFrame
<1>4. TypeOK'
  BY <1>3 DEF IInv, TypeOK
<1>5. HandlerState'
  BY <1>1, <1>2, <1>3 DEF IInv, HandlerState
<1>6. BootState' /\ MaskState' /\ OnlyFaultsStop'
  BY <1>1 DEF IInv, BootState, MaskState, OnlyFaultsStop
<1> QED
  BY <1>4, <1>5, <1>6 DEF IInv

(* The call of the line's handler, timer_handler among them. *)
LEMMA DispatchIInv ==
    ASSUME IInv, Dispatch
    PROVE  IInv'
<1>1. remaining' \in Nat
  <2>0. remaining \in Nat
    BY Zenon DEF IInv, TypeOK
  <2>1. remaining - 1 \in Int
    BY <2>0
  <2>2. CASE timer_handler
    BY <2>0, <2>1, <2>2, ClippedAtZero DEF timer_handler
  <2>3. CASE UNCHANGED remaining
    BY <2>0, <2>3
  <2> QED
    BY <2>2, <2>3 DEF Dispatch
<1> QED
  BY <1>1, HandlerMoves DEF Dispatch, pic

(* pic_send_eoi ends all that the interrupt put in service. *)
LEMMA EoiIInv ==
    ASSUME IInv, pic_send_eoi
    PROVE  IInv'
<1>1. frames # <<>> /\ Top = 1 /\ frames[1].at = "eoi" /\ frames[1] \in Frame
  BY InHandler DEF pic_send_eoi
<1>2. frames[1].vector \in 0 .. 47 /\ Served(frames[1].vector, in_service)
  BY <1>1, FrameParts DEF IInv, HandlerState
<1>3. in_service' = {}
  BY <1>1, <1>2, EoiEndsAll DEF pic_send_eoi
<1>4. remaining' \in Nat
  BY DEF IInv, TypeOK, pic_send_eoi, timer
<1> QED
  BY <1>3, <1>4, HandlerMoves DEF pic_send_eoi, timer

(* The last step of a handler opens the processor to the next interrupt. *)
LEMMA IretqIInv ==
    ASSUME IInv, Iretq
    PROVE  IInv'
<1>1. frames # <<>> /\ frames[1].at = "iretq" /\ frames' = <<>> /\ pc \in Working
  BY InHandler DEF Iretq
<1>2. in_service' = {} /\ if_flag'
  BY <1>1 DEF IInv, HandlerState, Iretq, pic
<1>3. TypeOK'
  BY <1>1, <1>2, NoFrame DEF IInv, TypeOK, Iretq, pic, timer
<1>4. HandlerState'
  BY <1>1, <1>2, NoFrame DEF HandlerState
<1>5. BootState' /\ MaskState' /\ OnlyFaultsStop'
  BY <1>1 DEF IInv, BootState, MaskState, OnlyFaultsStop, Iretq, pic
<1> QED
  BY <1>3, <1>4, <1>5 DEF IInv

-----------------------------------------------------------------------------
(* kernel_main's own steps: none is taken while a handler runs. *)

(* kernel_main's thread runs when no handler does. *)
LEMMA ThreadIsAlone ==
    ASSUME IInv, NEW here, Thread(here)
    PROVE  frames = <<>> /\ in_service = {} /\ pc = here
BY DEF IInv, HandlerState, Thread

(* With no frame and nothing in service the handlers owe nothing. *)
LEMMA QuietHandlers ==
    ASSUME frames' = <<>>, in_service' = {}
    PROVE  HandlerState' /\ frames' \in Seq(Frame) /\ in_service' \subseteq Line
BY NoFrame DEF HandlerState

(* cli and hlt, wherever kernel_main stops. *)
LEMMA StopIInv ==
    ASSUME IInv, NEW here, Thread(here), NEW why \in {"return", "halt"}, Stop(why)
    PROVE  IInv'
<1>1. frames' = <<>> /\ in_service' = {}
  BY ThreadIsAlone DEF Stop, pic
<1>2. TypeOK'
  BY <1>1, QuietHandlers DEF IInv, TypeOK, Stop, pic, timer
<1>3. BootState' /\ MaskState' /\ OnlyFaultsStop'
  BY <1>1 DEF IInv, BootState, MaskState, OnlyFaultsStop, Stop, pic, Working
<1> QED
  BY <1>1, <1>2, <1>3, QuietHandlers DEF IInv

(* kernel_main's check of the magic number and the information's address. *)
LEMMA CheckMultibootIInv ==
    ASSUME IInv, CheckMultiboot
    PROVE  IInv'
<1>1. CASE Stop("return")
  BY <1>1, StopIInv DEF CheckMultiboot
<1>2. CASE pc' = "idt" /\ UNCHANGED <<if_flag, idt, firmware, pic, frames, timer, cause>>
  <2>1. frames' = <<>> /\ in_service' = {} /\ pc = "start"
    BY <1>2, ThreadIsAlone DEF CheckMultiboot, pic
  <2>2. TypeOK'
    BY <1>2, <2>1, QuietHandlers DEF IInv, TypeOK, pic, timer
  <2>3. BootState' /\ MaskState' /\ OnlyFaultsStop'
    BY <1>2, <2>1 DEF IInv, BootState, MaskState, OnlyFaultsStop, pic, Working
  <2> QED
    BY <2>1, <2>2, <2>3, QuietHandlers DEF IInv
<1> QED
  BY <1>1, <1>2 DEF CheckMultiboot

(* idt_install clears the table while the flag is still clear. *)
LEMMA idt_installIInv ==
    ASSUME IInv, idt_install
    PROVE  IInv'
<1>1. frames' = <<>> /\ in_service' = {} /\ pc = "idt"
  BY ThreadIsAlone DEF idt_install, pic
<1>2. TypeOK'
  BY <1>1, QuietHandlers DEF IInv, TypeOK, idt_install, pic, timer
<1>3. BootState' /\ MaskState' /\ OnlyFaultsStop'
  BY <1>1 DEF IInv, TypeOK, BootState, MaskState, OnlyFaultsStop, idt_install, pic, Working
<1> QED
  BY <1>1, <1>2, <1>3, QuietHandlers DEF IInv

(* isr_install's first 32 gates. *)
LEMMA InstallExceptionsIInv ==
    ASSUME IInv, InstallExceptions
    PROVE  IInv'
<1>1. frames' = <<>> /\ in_service' = {} /\ pc = "exceptions"
  BY ThreadIsAlone DEF InstallExceptions, pic
<1>2. Exception \subseteq idt' /\ idt' \subseteq 0 .. 47
  <2>1. idt \subseteq 0 .. 47 /\ idt' = idt \cup Exception
    BY Zenon DEF IInv, TypeOK, InstallExceptions
  <2>2. Exception \subseteq 0 .. 47
    BY DEF Exception
  <2> QED
    BY <2>1, <2>2
<1>3. TypeOK'
  BY <1>1, QuietHandlers, <1>2 DEF IInv, TypeOK, InstallExceptions, pic, timer
<1>4. BootState' /\ MaskState' /\ OnlyFaultsStop'
  BY <1>1, <1>2 DEF IInv, TypeOK, BootState, MaskState, OnlyFaultsStop, InstallExceptions, pic, Working
<1> QED
  BY <1>1, <1>3, <1>4, QuietHandlers DEF IInv

(* pic_remap, on controllers that have nothing in service yet. *)
LEMMA pic_remapIInv ==
    ASSUME IInv, pic_remap
    PROVE  IInv'
<1>1. frames' = <<>> /\ in_service' = {} /\ pc = "remap"
  BY ThreadIsAlone DEF pic_remap, pic
<1>2. TypeOK'
  BY <1>1, QuietHandlers DEF IInv, TypeOK, pic_remap, pic, timer
<1>3. BootState' /\ MaskState' /\ OnlyFaultsStop'
  BY <1>1 DEF IInv, TypeOK, BootState, MaskState, OnlyFaultsStop, pic_remap, pic, Working
<1> QED
  BY <1>1, <1>2, <1>3, QuietHandlers DEF IInv

(* isr_install's last 16 gates complete the table. *)
LEMMA InstallIrqsIInv ==
    ASSUME IInv, InstallIrqs
    PROVE  IInv'
<1>1. frames' = <<>> /\ in_service' = {} /\ pc = "irq gates"
  BY ThreadIsAlone DEF InstallIrqs, pic
<1>2. Exception \subseteq idt' /\ idt' = 0 .. 47
  <2>1. idt \subseteq 0 .. 47 /\ idt' = idt \cup (FIRST_IRQ .. FIRST_IRQ + 15)
    BY Zenon DEF IInv, TypeOK, InstallIrqs
  <2>2. Exception \subseteq idt
    BY <1>1 DEF IInv, BootState
  <2>3. \A v \in 0 .. 47 : v \in Exception \/ v \in FIRST_IRQ .. FIRST_IRQ + 15
    BY DEF Exception, FIRST_IRQ
  <2>4. FIRST_IRQ .. FIRST_IRQ + 15 \subseteq 0 .. 47
    BY DEF FIRST_IRQ
  <2> QED
    BY <2>1, <2>2, <2>3, <2>4
<1>3. TypeOK'
  BY <1>1, QuietHandlers, <1>2 DEF IInv, TypeOK, InstallIrqs, pic, timer
<1>4. BootState' /\ MaskState' /\ OnlyFaultsStop'
  BY <1>1, <1>2 DEF IInv, TypeOK, BootState, MaskState, OnlyFaultsStop, InstallIrqs, pic, Working
<1> QED
  BY <1>1, <1>3, <1>4, QuietHandlers DEF IInv

(* sti comes when every line has its gate and nothing is in service. *)
LEMMA StiIInv ==
    ASSUME IInv, Sti
    PROVE  IInv'
<1>1. frames' = <<>> /\ in_service' = {} /\ pc = "sti"
  BY ThreadIsAlone DEF Sti, pic
<1>2. TypeOK'
  BY <1>1, QuietHandlers DEF IInv, TypeOK, Sti, pic, timer
<1>3. BootState' /\ MaskState' /\ OnlyFaultsStop'
  BY <1>1 DEF IInv, TypeOK, BootState, MaskState, OnlyFaultsStop, Sti, pic, Working
<1> QED
  BY <1>1, <1>2, <1>3, QuietHandlers DEF IInv

(* pmm_init and heap_init leave the controllers alone. *)
LEMMA InitMemoryIInv ==
    ASSUME IInv, InitMemory
    PROVE  IInv'
<1>1. frames' = <<>> /\ in_service' = {} /\ pc = "memory"
  BY ThreadIsAlone DEF InitMemory, pic
<1>2. TypeOK'
  BY <1>1, QuietHandlers DEF IInv, TypeOK, InitMemory, pic, timer
<1>3. BootState' /\ MaskState' /\ OnlyFaultsStop'
  BY <1>1 DEF IInv, TypeOK, BootState, MaskState, OnlyFaultsStop, InitMemory, pic, Working
<1> QED
  BY <1>1, <1>2, <1>3, QuietHandlers DEF IInv

(* timer_install opens line 0. *)
LEMMA timer_installIInv ==
    ASSUME IInv, timer_install
    PROVE  IInv'
<1>1. frames' = <<>> /\ in_service' = {} /\ pc = "timer"
  BY ThreadIsAlone DEF timer_install, pic, irq_clear_mask
<1>2. TypeOK'
  BY <1>1, QuietHandlers DEF IInv, TypeOK, timer_install, pic, timer, irq_clear_mask
<1>3. BootState' /\ MaskState' /\ OnlyFaultsStop'
  BY <1>1 DEF IInv, TypeOK, BootState, MaskState, OnlyFaultsStop, timer_install, pic, Working, irq_clear_mask
<1> QED
  BY <1>1, <1>2, <1>3, QuietHandlers DEF IInv

(* keyboard_install opens line 1, the last one to be opened. *)
LEMMA keyboard_installIInv ==
    ASSUME IInv, keyboard_install
    PROVE  IInv'
<1>1. frames' = <<>> /\ in_service' = {} /\ pc = "keyboard"
  BY ThreadIsAlone DEF keyboard_install, pic, irq_clear_mask
<1>2. TypeOK'
  BY <1>1, QuietHandlers DEF IInv, TypeOK, keyboard_install, pic, timer, irq_clear_mask
<1>3. BootState' /\ MaskState' /\ OnlyFaultsStop'
  BY <1>1 DEF IInv, TypeOK, BootState, MaskState, OnlyFaultsStop, keyboard_install, pic, Working, irq_clear_mask
<1> QED
  BY <1>1, <1>2, <1>3, QuietHandlers DEF IInv

(* timer_wait's test of the clock. *)
LEMMA TestIInv ==
    ASSUME IInv, Test
    PROVE  IInv'
<1>1. frames' = <<>> /\ in_service' = {} /\ pc = "test"
  BY ThreadIsAlone DEF Test, pic
<1>2. TypeOK'
  BY <1>1, QuietHandlers DEF IInv, TypeOK, Test, pic, timer
<1>3. BootState' /\ MaskState' /\ OnlyFaultsStop'
  BY <1>1 DEF IInv, TypeOK, BootState, MaskState, OnlyFaultsStop, Test, pic, Working
<1> QED
  BY <1>1, <1>2, <1>3, QuietHandlers DEF IInv

(* timer_wait's hlt. *)
LEMMA HltIInv ==
    ASSUME IInv, Hlt
    PROVE  IInv'
<1>1. frames' = <<>> /\ in_service' = {} /\ pc = "hlt"
  BY ThreadIsAlone DEF Hlt, pic
<1>2. TypeOK'
  BY <1>1, QuietHandlers DEF IInv, TypeOK, Hlt, pic, timer
<1>3. BootState' /\ MaskState' /\ OnlyFaultsStop'
  BY <1>1 DEF IInv, TypeOK, BootState, MaskState, OnlyFaultsStop, Hlt, pic, Working
<1> QED
  BY <1>1, <1>2, <1>3, QuietHandlers DEF IInv

(* timer_wait's target in ticks is a number, reduced to 32 bits. *)
LEMMA timer_waitIInv ==
    ASSUME IInv, NEW ms \in Delays, timer_wait(ms)
    PROVE  IInv'
<1>1. frames' = <<>> /\ in_service' = {} /\ pc = "running"
  BY ThreadIsAlone DEF timer_wait, pic
<1>2. remaining' \in Nat
  <2>0. timer_frequency \in {0, FREQUENCY}
    BY Zenon DEF IInv, TypeOK
  <2>1. timer_frequency \in Nat /\ ms \in Nat
    BY <2>0, InterruptsAssumption
  <2>2. ms * timer_frequency \in Nat
    BY <2>1
  <2>3. (ms * timer_frequency) % UINT32 \in Nat
    BY <2>2, InterruptsAssumption
  <2> QED
    BY <2>3 DEF timer_wait, WaitTicks
<1>3. TypeOK'
  BY <1>1, <1>2, QuietHandlers DEF IInv, TypeOK, timer_wait, pic, timer
<1>4. BootState' /\ MaskState' /\ OnlyFaultsStop'
  BY <1>1 DEF IInv, TypeOK, BootState, MaskState, OnlyFaultsStop, timer_wait, pic, Working
<1> QED
  BY <1>1, <1>3, <1>4, QuietHandlers DEF IInv

(* An exception finds its gate, which halts for good. *)
LEMMA FaultIInv ==
    ASSUME IInv, NEW v \in Faults, Fault(v)
    PROVE  IInv'
<1>1. frames = <<>> /\ in_service' = {} /\ pc = "running"
  BY ThreadIsAlone DEF Fault, pic
<1>2. v \in idt /\ v < FIRST_IRQ /\ ~(v >= FIRST_IRQ)
  <2>1. idt = 0 .. 47
    BY <1>1 DEF IInv, BootState, Working
  <2>2. v \in Exception
    BY InterruptsAssumption
  <2> QED
    BY <2>1, <2>2 DEF Exception, FIRST_IRQ
<1>3. if_flag' = FALSE /\ pc' = "stopped" /\ cause' = "fault" /\ frames' = <<>>
  BY <1>1, <1>2 DEF Fault, Take
<1>4. TypeOK'
  BY <1>1, <1>3, QuietHandlers DEF IInv, TypeOK, Fault, pic, timer
<1>5. BootState' /\ MaskState' /\ OnlyFaultsStop'
  BY <1>1, <1>3 DEF IInv, BootState, MaskState, OnlyFaultsStop, Fault, pic, Working
<1> QED
  BY <1>1, <1>3, <1>4, <1>5, QuietHandlers DEF IInv

-----------------------------------------------------------------------------
(* The theorems. *)

(* Every step of the machine keeps the invariant. *)
LEMMA NextIInv == IInv /\ [Next]_vars => IInv'
<1> SUFFICES ASSUME IInv, [Next]_vars PROVE IInv'
  OBVIOUS
<1>1. CASE \E l \in Lines : Raise(l)
  BY <1>1, RaiseIInv
<1>2. CASE Accept
  BY <1>2, AcceptIInv
<1>3. CASE Spurious
  BY <1>3, SpuriousIInv
<1>4. CASE Handler
  BY <1>4, DispatchIInv, EoiIInv, IretqIInv DEF Handler
<1>5. CASE Boot
  BY <1>5, CheckMultibootIInv, idt_installIInv, InstallExceptionsIInv, pic_remapIInv,
     InstallIrqsIInv, StiIInv, InitMemoryIInv, timer_installIInv, keyboard_installIInv
     DEF Boot
<1>6. CASE Waiting
  BY <1>6, TestIInv, HltIInv DEF Waiting
<1>7. CASE Command
  <2>1. CASE Halt
    BY <2>1, StopIInv DEF Halt
  <2> QED
    BY <1>7, <2>1, FaultIInv, timer_waitIInv DEF Command
<1>8. CASE UNCHANGED vars
  <2>1. UNCHANGED <<pc, if_flag, idt, offset, firmware, masked, irr, in_service, frames>>
        /\ UNCHANGED <<timer_frequency, remaining, cause>>
    BY <1>8 DEF vars, pic, timer
  <2>2. TypeOK' /\ OnlyFaultsStop'
    BY <2>1 DEF IInv, TypeOK, OnlyFaultsStop
  <2>3. BootState' /\ MaskState'
    BY <2>1 DEF IInv, BootState, MaskState
  <2>4. HandlerState'
    BY <2>1 DEF IInv, HandlerState
  <2> QED
    BY <2>2, <2>3, <2>4 DEF IInv
<1> QED
  BY <1>1, <1>2, <1>3, <1>4, <1>5, <1>6, <1>7, <1>8 DEF Next

(* So it always holds. *)
LEMMA AlwaysIInv == Spec => []IInv
BY InitIInv, NextIInv, PTL DEF Spec

(* The machine of the boot sequence keeps its types. *)
THEOREM InterruptsTyped == Spec => []TypeOK
<1>1. IInv => TypeOK
  BY DEF IInv
<1> QED
  BY <1>1, AlwaysIInv, PTL

(* Interrupts are let in only when every line, spurious or not, has its gate *)
(* above the exceptions' (isr_install's order: gates, remapping, gates, sti), *)
(* so that none ends in isr_handler or in no gate at all.                     *)
THEOREM LinesReachTheirHandler == Spec => []OnlyFaultsStop
<1>1. IInv => OnlyFaultsStop
  BY DEF IInv
<1> QED
  BY <1>1, AlwaysIInv, PTL

(* irq_handler's EOIs, one or two of them, leave nothing in service behind,  *)
(* whatever line and whichever spurious interrupt they answer.               *)
THEOREM EoisBalance == Spec => []EoiBalanced
<1>1. IInv => EoiBalanced
  <2> SUFFICES ASSUME IInv PROVE EoiBalanced
    OBVIOUS
  <2>1. Len(frames) <= 1 /\ (if_flag => in_service = {})
    BY DEF IInv, HandlerState
  <2>2. ASSUME NEW s \in in_service \cap Slave PROVE CASCADE \in in_service
    BY <2>2 DEF IInv, HandlerState, Served, Line, Slave, CASCADE
  <2> QED
    BY <2>1, <2>2 DEF EoiBalanced
<1> QED
  BY <1>1, AlwaysIInv, PTL

(* pic_remap puts back the firmware's masks, and the two drivers open one    *)
(* line each.                                                                *)
THEOREM MasksStay == Spec => []MasksKept
<1>1. IInv => MasksKept
  BY DEF IInv, MaskState, MasksKept
<1> QED
  BY <1>1, AlwaysIInv, PTL

(* Once isr_handler, `halt` or kernel_panic has stopped the machine no       *)
(* action moves it: the flag is clear and no handler is under way.           *)
THEOREM StopIsFinal == Spec => StopsForGood
<1>1. ASSUME IInv, [Next]_vars, pc = "stopped"
      PROVE  UNCHANGED <<pc, cause, frames, timer, in_service>>
  <2>1. ~if_flag /\ frames = <<>>
    BY <1>1 DEF IInv, BootState, Working
  <2>2. ~Accept /\ ~Spurious /\ ~Handler /\ ~Waiting /\ ~Command /\ ~Boot
    <3>1. ~Accept /\ ~Spurious /\ ~Handler
      BY <2>1 DEF Accept, Spurious, Handler, At, Dispatch, pic_send_eoi, Iretq
    <3>2. ~Waiting /\ ~Command
      BY <1>1 DEF Waiting, Test, Hlt, Command, Halt, Fault, timer_wait, Thread
    <3>3. ~Boot
      BY <1>1 DEF Boot, Thread, CheckMultiboot, idt_install, InstallExceptions, pic_remap,
                  InstallIrqs, Sti, InitMemory, timer_install, keyboard_install
    <3> QED
      BY <3>1, <3>2, <3>3
  <2>3. CASE \E l \in Lines : Raise(l)
    BY <2>3 DEF Raise
  <2>4. CASE UNCHANGED vars
    BY <2>4 DEF vars, pic
  <2> QED
    BY <1>1, <2>2, <2>3, <2>4 DEF Next
<1>2. IInv /\ [Next]_vars
      => [pc = "stopped" => UNCHANGED <<pc, cause, frames, timer, in_service>>]_vars
  BY <1>1
<1> QED
  BY <1>2, AlwaysIInv, PTL DEF Spec, StopsForGood
=============================================================================
