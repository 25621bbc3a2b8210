--------------------------- MODULE KeyboardProofs ---------------------------
(***************************************************************************)
(* Proofs about the keyboard driver of module Keyboard, for every size of  *)
(* the ring whose count fits its 8 bits, and every set of keys.  The       *)
(* handler may come between any two steps of the thread; what a reader     *)
(* relies on then is that the ring, once not empty, stays so, and that the *)
(* slot it reads from is not written before it has moved on.               *)
(***************************************************************************)
EXTENDS Keyboard, SequenceTheorems, TLAPS

N == KEYBOARD_BUFFER_SIZE

ReaderState ==
    /\ pc \in {"take", "advance"} => HasInput
    /\ pc = "advance" => c = keyboard_buffer[buffer_read_pos]
    /\ pc = "clear" => buffer_read_pos = 0

IInv == TypeOK /\ ReaderState

-----------------------------------------------------------------------------
(* Positions of the ring. *)

(* Remainders of what the driver computes: never further than one turn off. *)
LEMMA OneTurn ==
    ASSUME NEW a \in Int
    PROVE  /\ a \in Slot => a % N = a
           /\ N <= a /\ a < 2 * N => a % N = a - N
           /\ -N <= a /\ a < 0 => a % N = a + N
<1>1. N \in Nat \ {0}
  BY KeyboardAssumption DEF N
<1> QED
  BY <1>1 DEF Slot, N

(* The position behind a slot is a slot: it wraps round at the end. *)
LEMMA FollowingSlot ==
    ASSUME NEW pos \in Slot
    PROVE  /\ Following(pos) \in Slot
           /\ Following(pos) = IF pos = N - 1 THEN 0 ELSE pos + 1
<1>1. pos + 1 \in Int /\ N \in Nat /\ N > 1
  BY KeyboardAssumption DEF Slot, N
<1> QED
  BY <1>1, OneTurn DEF Following, Slot, N

(* How far the write position w is ahead of the read position r. *)
Distance(r, w) == (w - r) % N

(* How far the write position is ahead, and what empty and full mean. *)
LEMMA DistanceValue ==
    ASSUME NEW r \in Slot, NEW w \in Slot
    PROVE  /\ Distance(r, w) \in Slot
           /\ Distance(r, w) = IF w >= r THEN w - r ELSE w - r + N
           /\ r # w <=> Distance(r, w) # 0
           /\ Following(w) # r <=> Distance(r, w) # N - 1
<1>1. N \in Nat /\ N > 1
  BY KeyboardAssumption DEF N
<1> DEFINE d == w - r
<1>2. d \in Int /\ -N <= d /\ d < N /\ (d >= 0 => d \in Slot)
  BY <1>1 DEF Slot, N
<1>3. Distance(r, w) \in Slot /\ Distance(r, w) = IF w >= r THEN w - r ELSE w - r + N
  <2>1. Distance(r, w) = d % N
    BY DEF Distance
  <2>2. CASE d >= 0
    BY <1>1, <1>2, <2>1, <2>2, OneTurn DEF Slot, N
  <2>3. CASE d < 0
    BY <1>1, <1>2, <2>1, <2>3, OneTurn DEF Slot, N
  <2> QED
    BY <1>2, <2>2, <2>3
<1>4. r # w <=> Distance(r, w) # 0
  BY <1>1, <1>3 DEF Slot, N
<1>5. Following(w) # r <=> Distance(r, w) # N - 1
  BY <1>1, <1>3, FollowingSlot DEF Slot, N
<1> QED
  BY <1>3, <1>4, <1>5

(* keyboard_buffer_count's number, and the tests of push and getchar. *)
LEMMA WaitingNumber ==
    ASSUME buffer_read_pos \in Slot, buffer_write_pos \in Slot
    PROVE  /\ Waiting = Distance(buffer_read_pos, buffer_write_pos) /\ Waiting \in Slot
           /\ HasInput <=> Waiting # 0
           /\ HasRoom <=> Waiting # N - 1
<1>1. Waiting = Distance(buffer_read_pos, buffer_write_pos)
  BY DEF Waiting, Distance, N
<1> QED
  BY <1>1, DistanceValue DEF HasInput, HasRoom

(* What keyboard_buffer_count computes, whichever way its stale view of the *)
(* write position sends it: N more or less are the same in 8 bits.          *)
LEMMA CountedIsWaiting ==
    ASSUME TypeOK
    PROVE  CountAfter(seen) = Waiting
<1>1. N \in Nat /\ N > 1 /\ UINT8 = N
  BY KeyboardAssumption DEF N
<1> DEFINE d == buffer_write_pos - buffer_read_pos
<1>2. d \in Int /\ -N < d /\ d < N
  BY <1>1 DEF TypeOK, Slot, N
<1>3. (d + N) % N = d % N
  <2>1. CASE d >= 0
    BY <1>1, <1>2, <2>1, OneTurn DEF Slot, N
  <2>2. CASE d < 0
    BY <1>1, <1>2, <2>2, OneTurn DEF Slot, N
  <2> QED
    BY <1>2, <2>1, <2>2
<1>4. N - buffer_read_pos + buffer_write_pos = d + N
  BY <1>1 DEF TypeOK, Slot, N
<1> QED
  BY <1>1, <1>3, <1>4 DEF CountAfter, Waiting, N

(* The slot of the n-th character waiting behind the read position r. *)
SlotOf(r, n) == (r + n - 1) % N

(* The nth waiting character has its slot, behind the wrap if need be. *)
LEMMA SlotOfNth ==
    ASSUME NEW r \in Slot, NEW n \in 1 .. N
    PROVE  /\ SlotOf(r, n) \in Slot
           /\ SlotOf(r, n) = IF r + n - 1 < N THEN r + n - 1 ELSE r + n - 1 - N
<1>1. N \in Nat /\ N > 1
  BY KeyboardAssumption DEF N
<1> DEFINE p == r + n - 1
<1>2. p \in Int /\ 0 <= p /\ p < 2 * N /\ (p < N => p \in Slot)
  BY <1>1 DEF Slot, N
<1>3. SlotOf(r, n) = p % N
  BY DEF SlotOf
<1>4. CASE p < N
  BY <1>1, <1>2, <1>3, <1>4, OneTurn DEF Slot, N
<1>5. CASE p >= N
  BY <1>1, <1>2, <1>3, <1>5, OneTurn DEF Slot, N
<1> QED
  BY <1>1, <1>2, <1>4, <1>5

Text == Char \cup {NOCHAR}

(* What waits in the ring b, as a sequence. *)
TextOf(b, r, w) == [n \in 1 .. Distance(r, w) |-> b[SlotOf(r, n)]]

(* The text in the ring: as long as the positions are apart, never N. *)
LEMMA TextOfRing ==
    ASSUME NEW r \in Slot, NEW w \in Slot, NEW b \in [Slot -> Text]
    PROVE  /\ TextOf(b, r, w) \in Seq(Text) /\ Len(TextOf(b, r, w)) = Distance(r, w)
           /\ Distance(r, w) \in Nat /\ Distance(r, w) < N
           /\ \A n \in 1 .. Distance(r, w) : TextOf(b, r, w)[n] = b[SlotOf(r, n)]
           /\ TextOf(b, r, w) = <<>> <=> Distance(r, w) = 0
<1>0. N \in Nat /\ N > 1
  BY KeyboardAssumption DEF N
<1>1. Distance(r, w) \in Nat /\ Distance(r, w) < N
  <2>1. Distance(r, w) \in Slot
    BY DistanceValue
  <2> QED
    BY <1>0, <2>1 DEF Slot, N
<1>2. \A n \in 1 .. Distance(r, w) : b[SlotOf(r, n)] \in Text
  BY <1>0, <1>1, SlotOfNth
<1> HIDE DEF Text, Slot, N
<1>3. TextOf(b, r, w) \in Seq(Text) /\ Len(TextOf(b, r, w)) = Distance(r, w)
  BY <1>1, <1>2 DEF TextOf
<1> QED
  BY <1>1, <1>3, EmptySeq DEF TextOf

-----------------------------------------------------------------------------
(* The inductive invariant. *)

(* keyboard_install leaves an empty ring and no reader. *)
LEMMA InitIInv == Init => IInv
<1> SUFFICES ASSUME Init PROVE IInv
  OBVIOUS
<1>1. 0 \in Slot
  BY KeyboardAssumption DEF Slot
<1>2. TypeOK
  BY <1>1 DEF Init, TypeOK
<1>3. ReaderState
  BY DEF Init, ReaderState
<1> QED
  BY <1>2, <1>3 DEF IInv

(* The tables give a character, or NOCHAR. *)
LEMMA AsciiIsText ==
    ASSUME NEW key \in DOMAIN scancode_to_ascii
    PROVE  Ascii(key) \in Text
BY DEF Ascii, scancode_to_ascii, scancode_to_ascii_shift, Upper, Text, Char, NOCHAR

(* keyboard_buffer_push leaves the slots that wait to be read as they are,   *)
(* and never empties the ring.                                               *)
LEMMA PushKeepsReader ==
    ASSUME TypeOK, NEW ch \in Text, keyboard_buffer_push(ch)
    PROVE  /\ keyboard_buffer' \in [Slot -> Text] /\ buffer_write_pos' \in Slot
           /\ buffer_read_pos' = buffer_read_pos
           /\ HasInput => HasInput'
                          /\ keyboard_buffer'[buffer_read_pos] = keyboard_buffer[buffer_read_pos]
<1>0. keyboard_buffer \in [Slot -> Text] /\ buffer_read_pos \in Slot /\ buffer_write_pos \in Slot
  BY DEF TypeOK, Text
<1>1. CASE HasRoom /\ UNCHANGED buffer_read_pos
           /\ keyboard_buffer' = [keyboard_buffer EXCEPT ![buffer_write_pos] = ch]
           /\ buffer_write_pos' = Following(buffer_write_pos)
  BY <1>0, <1>1, FollowingSlot DEF HasInput, HasRoom
<1>2. CASE UNCHANGED ring
  BY <1>0, <1>2 DEF ring, HasInput
<1> QED
  BY <1>1, <1>2 DEF keyboard_buffer_push

(* An interrupt changes the thread's pc only by ending its hlt. *)
LEMMA WakeKeepsReader ==
    ASSUME IInv, Wake, UNCHANGED Thread,
           buffer_read_pos' = buffer_read_pos, buffer_write_pos' \in Slot,
           keyboard_buffer' \in [Slot -> Text],
           HasInput => HasInput'
                       /\ keyboard_buffer'[buffer_read_pos] = keyboard_buffer[buffer_read_pos],
           pressed' \in [Modifier -> BOOLEAN], caps_lock' \in BOOLEAN,
           shifts' \subseteq ShiftKeys, struck' \in BOOLEAN
    PROVE  IInv'
<1>1. /\ pc' \in {"idle", "test", "hlt", "halted", "take", "advance", "count", "clear"}
      /\ pc' \in {"take", "advance", "clear"} => pc' = pc
  BY DEF IInv, TypeOK, Wake
<1>2. TypeOK'
  BY <1>1 DEF IInv, TypeOK, Thread, results, Text
<1>3. ReaderState'
  BY <1>1 DEF IInv, ReaderState, Thread
<1> QED
  BY <1>2, <1>3 DEF IInv

(* The handler, whatever key it is for. *)
LEMMA InterruptIInv ==
    ASSUME IInv, Interrupt
    PROVE  IInv'
<1>0. /\ keyboard_buffer \in [Slot -> Text] /\ buffer_read_pos \in Slot /\ buffer_write_pos \in Slot
      /\ pressed \in [Modifier -> BOOLEAN] /\ caps_lock \in BOOLEAN
      /\ shifts \subseteq ShiftKeys /\ struck \in BOOLEAN
  BY DEF IInv, TypeOK, Text
<1>1. ASSUME UNCHANGED ring PROVE
        /\ buffer_read_pos' = buffer_read_pos /\ buffer_write_pos' \in Slot
        /\ keyboard_buffer' \in [Slot -> Text]
        /\ HasInput => HasInput'
                       /\ keyboard_buffer'[buffer_read_pos] = keyboard_buffer[buffer_read_pos]
  BY <1>0, <1>1 DEF ring, HasInput
<1>2. CASE Tick
  BY <1>0, <1>1, <1>2, WakeKeepsReader DEF Tick, decoder
<1>3. CASE \E key \in Keys : keyboard_handler(key)
  <2>1. PICK key \in Keys : keyboard_handler(key)
    BY <1>3
  <2>2. CASE PressModifier(key)
    <3>1. pressed' \in [Modifier -> BOOLEAN] /\ shifts' \subseteq ShiftKeys
      BY <1>0, <2>2 DEF PressModifier
    <3> QED
      BY <1>0, <1>1, <2>2, <3>1, WakeKeepsReader DEF PressModifier
  <2>3. CASE ReleaseModifier(key)
    <3>1. pressed' \in [Modifier -> BOOLEAN] /\ shifts' \subseteq ShiftKeys
      BY <1>0, <2>3 DEF ReleaseModifier
    <3> QED
      BY <1>0, <1>1, <2>3, <3>1, WakeKeepsReader DEF ReleaseModifier
  <2>4. CASE PressCapsLock(key)
    <3>1. caps_lock' \in BOOLEAN
      BY <1>0, <2>4 DEF PressCapsLock
    <3> QED
      BY <1>0, <1>1, <2>4, <3>1, WakeKeepsReader DEF PressCapsLock
  <2>5. CASE PressCharacter(key)
    <3>1. Ascii(key) \in Text
      BY <2>5, AsciiIsText DEF PressCharacter
    <3>2. struck' \in BOOLEAN
      BY <1>0, <2>5 DEF PressCharacter
    <3> QED
      BY <1>0, <2>5, <3>1, <3>2, PushKeepsReader, WakeKeepsReader
         DEF PressCharacter, decoder, IInv
  <2>6. CASE Ignored(key)
    BY <1>0, <1>1, <2>6, WakeKeepsReader DEF Ignored, decoder
  <2> QED
    BY <2>1, <2>2, <2>3, <2>4, <2>5, <2>6
       DEF keyboard_handler, Pressed, Released, NoCharacter
<1> QED
  BY <1>2, <1>3 DEF Interrupt

(* The thread: it reads only what it has tested to be there. *)
LEMMA ThreadIInv ==
    ASSUME IInv, Call \/ Step
    PROVE  IInv'
<1> USE DEF IInv
<1>1. CASE \E wait \in BOOLEAN : StartRead(wait)
  BY <1>1 DEF StartRead, TypeOK, ReaderState, decoder, ring, results
<1>2. CASE StartCount
  BY <1>2 DEF StartCount, TypeOK, ReaderState, decoder, ring, results
<1>3. CASE ClearRead
  <2>1. 0 \in Slot
    BY KeyboardAssumption DEF Slot
  <2> QED
    BY <1>3, <2>1 DEF ClearRead, TypeOK, ReaderState, decoder, Thread, results
<1>4. CASE Test
  BY <1>4 DEF Test, TypeOK, ReaderState, HasInput, decoder, ring
<1>5. CASE Hlt
  BY <1>5 DEF Hlt, TypeOK, ReaderState, decoder, ring, Thread, results
<1>6. CASE Take
  <2>1. TypeOK'
    BY <1>6 DEF Take, TypeOK, decoder, ring, results
  <2>2. ReaderState'
    BY <1>6 DEF Take, ReaderState, HasInput, ring
  <2> QED
    BY <2>1, <2>2
<1>7. CASE Advance
  <2>1. Following(buffer_read_pos) \in Slot
    BY FollowingSlot DEF TypeOK
  <2> QED
    BY <1>7, <2>1 DEF Advance, TypeOK, ReaderState, decoder
<1>8. CASE Count
  <2>1. CountAfter(seen) = Waiting
    BY CountedIsWaiting
  <2>2. Waiting \in Nat
    BY WaitingNumber DEF TypeOK, Slot
  <2>3. 0 \in Slot
    BY KeyboardAssumption DEF Slot
  <2>4. TypeOK'
    BY <1>8, <2>1, <2>2, <2>3 DEF Count, TypeOK, decoder, ring
  <2>5. ReaderState'
    BY <1>8 DEF Count, ReaderState
  <2> QED
    BY <2>4, <2>5
<1>9. CASE ClearWrite
  <2>1. 0 \in Slot
    BY KeyboardAssumption DEF Slot
  <2> QED
    BY <1>9, <2>1 DEF ClearWrite, TypeOK, ReaderState, decoder, Thread, results
<1> QED
  BY <1>1, <1>2, <1>3, <1>4, <1>5, <1>6, <1>7, <1>8, <1>9 DEF Call, Step

(* Every handler and every step of a reader keeps the invariant. *)
LEMMA NextIInv == IInv /\ [Next]_vars => IInv'
<1> SUFFICES ASSUME IInv, [Next]_vars PROVE IInv'
  OBVIOUS
<1>1. CASE UNCHANGED vars
  BY <1>1 DEF vars, decoder, ring, results, IInv, TypeOK, ReaderState, HasInput
<1> QED
  BY <1>1, ThreadIInv, InterruptIInv DEF Next

(* So it always holds. *)
LEMMA AlwaysIInv == Spec => []IInv
BY InitIInv, NextIInv, PTL DEF Spec

(* Both positions stay in the ring, whatever keys come at whatever moment;   *)
(* readers get a character of the tables or none.                            *)
THEOREM KeyboardTyped == Spec => []TypeOK
<1>1. IInv => TypeOK
  BY DEF IInv
<1> QED
  BY <1>1, AlwaysIInv, PTL

(* keyboard_buffer_count decides by a write position it has read before and  *)
(* subtracts one it reads afterwards; in 8 bits both branches give the same. *)
THEOREM CountStaysCurrent == Spec => CountIsCurrent
<1>1. IInv /\ [Next]_vars => [pc = "count" /\ pc' = "idle" => counted' = Waiting]_vars
  <2> SUFFICES ASSUME IInv, Next, pc = "count", pc' = "idle" PROVE counted' = Waiting
    OBVIOUS
  <2>1. CASE Count
    BY <2>1, CountedIsWaiting DEF Count, IInv
  <2>2. CASE Interrupt
    <3>1. pc' = pc \/ pc' = "test"
      BY <2>2 DEF Interrupt, Tick, keyboard_handler, Pressed, Released, PressModifier,
                  ReleaseModifier, PressCapsLock, PressCharacter, NoCharacter, Ignored, Wake
    <3> QED
      BY <3>1
  <2>3. ~Call /\ (Step => Count)
    BY DEF Call, Step, StartRead, StartCount, ClearRead, Test, Hlt, Take, Advance, ClearWrite
  <2> QED
    BY <2>1, <2>2, <2>3 DEF Next
<1> QED
  BY <1>1, AlwaysIInv, PTL DEF Spec, CountIsCurrent

-----------------------------------------------------------------------------
(* The driver implements KeyQueueSpec. *)

Queue == IF pc = "clear" THEN <<>> ELSE Contents

(* What module Keyboard shows of the ring is the text in it. *)
LEMMA ContentsAsText ==
    Contents = TextOf(keyboard_buffer, buffer_read_pos, buffer_write_pos)
BY DEF Contents, Waiting, TextOf, Distance, SlotOf, N

(* A character pushed comes behind all that wait: no slot of theirs is       *)
(* written, also when the position wraps round.                              *)
LEMMA PushAppends ==
    ASSUME NEW r \in Slot, NEW w \in Slot, NEW b \in [Slot -> Text], NEW ch \in Text,
           Following(w) # r
    PROVE  TextOf([b EXCEPT ![w] = ch], r, Following(w)) = Append(TextOf(b, r, w), ch)
<1> DEFINE b2 == [b EXCEPT ![w] = ch]
           w2 == Following(w)
           d == Distance(r, w)
<1>0. N \in Nat /\ N > 1
  BY KeyboardAssumption DEF N
<1>1. b2 \in [Slot -> Text] /\ w2 \in Slot /\ w2 = IF w = N - 1 THEN 0 ELSE w + 1
  BY FollowingSlot
<1>2. d \in Nat /\ d < N - 1 /\ Distance(r, w2) = d + 1
  <2> HIDE DEF b2, w2
  <2>1. Distance(r, w) = (IF w >= r THEN w - r ELSE w - r + N) /\ Distance(r, w) # N - 1
    BY DistanceValue
  <2>2. Distance(r, w2) = IF w2 >= r THEN w2 - r ELSE w2 - r + N
    BY <1>1, DistanceValue
  <2> QED
    BY <1>0, <1>1, <2>1, <2>2 DEF Slot, N
<1>3. /\ TextOf(b, r, w) \in Seq(Text) /\ Len(TextOf(b, r, w)) = d
      /\ \A n \in 1 .. d : TextOf(b, r, w)[n] = b[SlotOf(r, n)]
  BY TextOfRing
<1>4. /\ TextOf(b2, r, w2) \in Seq(Text) /\ Len(TextOf(b2, r, w2)) = d + 1
      /\ \A n \in 1 .. d + 1 : TextOf(b2, r, w2)[n] = b2[SlotOf(r, n)]
  <2> HIDE DEF b2, w2, d
  <2>1. /\ TextOf(b2, r, w2) \in Seq(Text) /\ Len(TextOf(b2, r, w2)) = Distance(r, w2)
        /\ \A n \in 1 .. Distance(r, w2) : TextOf(b2, r, w2)[n] = b2[SlotOf(r, n)]
    BY <1>1, TextOfRing
  <2> QED
    BY <1>2, <2>1
<1>5. SlotOf(r, d + 1) = w
  <2>1. d + 1 \in 1 .. N
    BY <1>0, <1>2
  <2>2. SlotOf(r, d + 1) = IF r + d < N THEN r + d ELSE r + d - N
    <3> HIDE DEF d
    <3>1. SlotOf(r, d + 1) = IF r + (d + 1) - 1 < N THEN r + (d + 1) - 1
                             ELSE r + (d + 1) - 1 - N
      BY <2>1, SlotOfNth
    <3> QED
      BY <1>0, <1>2, <3>1 DEF Slot, N
  <2>3. d = IF w >= r THEN w - r ELSE w - r + N
    BY DistanceValue
  <2> HIDE DEF d
  <2> QED
    BY <1>0, <2>2, <2>3 DEF Slot, N
<1>6. \A n \in 1 .. d : SlotOf(r, n) \in Slot /\ SlotOf(r, n) # w
  <2> TAKE n \in 1 .. d
  <2>1. n \in 1 .. N
    BY <1>0, <1>2
  <2>2. /\ SlotOf(r, n) \in Slot
        /\ SlotOf(r, n) = IF r + n - 1 < N THEN r + n - 1 ELSE r + n - 1 - N
    BY <2>1, SlotOfNth
  <2>3. d = IF w >= r THEN w - r ELSE w - r + N
    BY DistanceValue
  <2> HIDE DEF d
  <2> QED
    BY <1>0, <2>1, <2>2, <2>3 DEF Slot, N
<1>7. \A n \in 1 .. d : TextOf(b2, r, w2)[n] = TextOf(b, r, w)[n]
  <2> TAKE n \in 1 .. d
  <2>1. b2[SlotOf(r, n)] = b[SlotOf(r, n)]
    BY <1>6
  <2> HIDE DEF b2, w2, d
  <2> QED
    BY <1>2, <1>3, <1>4, <2>1
<1>8. TextOf(b2, r, w2)[d + 1] = ch
  <2>1. b2[w] = ch
    OBVIOUS
  <2> HIDE DEF b2, w2, d
  <2> QED
    BY <1>2, <1>4, <1>5, <2>1
<1> HIDE DEF b2, w2, d, Text
<1>9. /\ Append(TextOf(b, r, w), ch) \in Seq(Text)
      /\ Len(Append(TextOf(b, r, w), ch)) = d + 1
      /\ Append(TextOf(b, r, w), ch)[d + 1] = ch
      /\ \A n \in 1 .. d : Append(TextOf(b, r, w), ch)[n] = TextOf(b, r, w)[n]
  BY <1>2, <1>3
<1>10. TextOf(b2, r, w2) = Append(TextOf(b, r, w), ch)
  BY <1>2, <1>4, <1>7, <1>8, <1>9, SeqEqual
<1> QED
  BY <1>10 DEF b2, w2

(* A reader takes the first of them. *)
LEMMA AdvanceTakesFirst ==
    ASSUME NEW r \in Slot, NEW w \in Slot, NEW b \in [Slot -> Text], r # w
    PROVE  /\ TextOf(b, r, w) # <<>> /\ Head(TextOf(b, r, w)) = b[r]
           /\ TextOf(b, Following(r), w) = Tail(TextOf(b, r, w))
<1> DEFINE r2 == Following(r)
           d == Distance(r, w)
<1>0. N \in Nat /\ N > 1
  BY KeyboardAssumption DEF N
<1>1. r2 \in Slot /\ r2 = IF r = N - 1 THEN 0 ELSE r + 1
  BY FollowingSlot
<1>2. d \in Nat /\ d # 0 /\ d < N /\ Distance(r2, w) = d - 1
  <2> HIDE DEF r2
  <2>1. Distance(r, w) = (IF w >= r THEN w - r ELSE w - r + N) /\ Distance(r, w) # 0
    BY DistanceValue
  <2>2. Distance(r2, w) = IF w >= r2 THEN w - r2 ELSE w - r2 + N
    BY <1>1, DistanceValue
  <2> QED
    BY <1>0, <1>1, <2>1, <2>2 DEF Slot, N
<1>3. /\ TextOf(b, r, w) \in Seq(Text) /\ Len(TextOf(b, r, w)) = d
      /\ \A n \in 1 .. d : TextOf(b, r, w)[n] = b[SlotOf(r, n)]
      /\ TextOf(b, r, w) # <<>>
  BY <1>2, TextOfRing
<1>4. /\ TextOf(b, r2, w) \in Seq(Text) /\ Len(TextOf(b, r2, w)) = d - 1
      /\ \A n \in 1 .. d - 1 : TextOf(b, r2, w)[n] = b[SlotOf(r2, n)]
  <2> HIDE DEF r2, d
  <2>1. /\ TextOf(b, r2, w) \in Seq(Text) /\ Len(TextOf(b, r2, w)) = Distance(r2, w)
        /\ \A n \in 1 .. Distance(r2, w) : TextOf(b, r2, w)[n] = b[SlotOf(r2, n)]
    BY <1>1, TextOfRing
  <2> QED
    BY <1>2, <2>1
<1>5. \A n \in 1 .. d - 1 : SlotOf(r2, n) = SlotOf(r, n + 1)
  <2> TAKE n \in 1 .. d - 1
  <2> HIDE DEF r2
  <2>1. n \in 1 .. N /\ n + 1 \in 1 .. N
    BY <1>0, <1>2
  <2>2. SlotOf(r2, n) = IF r2 + n - 1 < N THEN r2 + n - 1 ELSE r2 + n - 1 - N
    BY <1>1, <2>1, SlotOfNth
  <2>3. SlotOf(r, n + 1) = IF r + (n + 1) - 1 < N THEN r + (n + 1) - 1
                           ELSE r + (n + 1) - 1 - N
    BY <2>1, SlotOfNth
  <2> QED
    BY <1>0, <1>1, <2>1, <2>2, <2>3 DEF Slot, N
<1>6. SlotOf(r, 1) = r
  BY <1>0, SlotOfNth DEF Slot, N
<1> HIDE DEF r2, d, Text
<1>7. /\ Tail(TextOf(b, r, w)) \in Seq(Text) /\ Len(Tail(TextOf(b, r, w))) = d - 1
      /\ \A n \in 1 .. d - 1 : Tail(TextOf(b, r, w))[n] = TextOf(b, r, w)[n + 1]
  BY <1>2, <1>3, HeadTailProperties
<1>8. \A n \in 1 .. d - 1 : TextOf(b, r2, w)[n] = Tail(TextOf(b, r, w))[n]
  BY <1>2, <1>3, <1>4, <1>5, <1>7
<1>9. TextOf(b, r2, w) = Tail(TextOf(b, r, w))
  BY <1>2, <1>4, <1>7, <1>8, SeqEqual
<1>10. Head(TextOf(b, r, w)) = b[r]
  BY <1>2, <1>3, <1>6
<1> QED
  BY <1>3, <1>9, <1>10 DEF r2

(* A queue that is empty at rest, and full one short of the ring's size. *)
LEMMA QueueLength ==
    ASSUME TypeOK
    PROVE  /\ Contents \in Seq(Text) /\ Len(Contents) = Waiting
           /\ Contents = <<>> <=> ~HasInput
           /\ ~HasRoom <=> Len(Contents) = KEYBOARD_BUFFER_SIZE - 1
<1>1. /\ buffer_read_pos \in Slot /\ buffer_write_pos \in Slot
      /\ keyboard_buffer \in [Slot -> Text]
  BY DEF TypeOK, Text
<1>2. Waiting = Distance(buffer_read_pos, buffer_write_pos)
  BY <1>1, WaitingNumber
<1>3. /\ Contents \in Seq(Text) /\ Len(Contents) = Waiting
      /\ Contents = <<>> <=> Waiting = 0
  BY <1>1, <1>2, ContentsAsText, TextOfRing
<1>4. (HasInput <=> Waiting # 0) /\ (HasRoom <=> Waiting # N - 1)
  BY <1>1, WaitingNumber
<1> QED
  BY <1>3, <1>4 DEF N

(* The empty ring is the empty queue. *)
LEMMA InitIsAbstract == Init => Abstract!Init
<1> SUFFICES ASSUME Init PROVE Abstract!Init
  OBVIOUS
<1>1. TypeOK /\ ~HasInput
  BY InitIInv DEF IInv, Init, HasInput
<1>2. Contents = <<>>
  BY <1>1, QueueLength
<1> QED
  BY <1>2 DEF Init, Abstract!Init

(* A key's character is typed if there is room, and lost if the ring is full *)
(* or being emptied.                                                         *)
LEMMA CharacterIsTypedOrLost ==
    ASSUME IInv, IInv', NEW key, PressCharacter(key)
    PROVE  Abstract!Next
<1>1. /\ buffer_read_pos \in Slot /\ buffer_write_pos \in Slot
      /\ keyboard_buffer \in [Slot -> Text]
  BY DEF IInv, TypeOK, Text
<1>2. Ascii(key) \in Char
  BY AsciiIsText DEF PressCharacter, Text
<1>3. struck' = ~struck /\ UNCHANGED got /\ (pc' = "clear" <=> pc = "clear")
  BY DEF PressCharacter, Wake, Thread, results
<1>4. CASE pc = "clear"
  <2>1. Abstract!Lost
    BY <1>3, <1>4 DEF Abstract!Lost
  <2> QED
    BY <2>1 DEF Abstract!Next
<1>5. CASE pc # "clear" /\ ~HasRoom
  <2>1. UNCHANGED ring
    BY <1>5 DEF PressCharacter, keyboard_buffer_push
  <2>2. Contents' = Contents
    BY <2>1 DEF ring, Contents, Waiting
  <2>3. Len(Contents) = KEYBOARD_BUFFER_SIZE - 1
    BY <1>5, QueueLength DEF IInv
  <2>4. Abstract!Lost
    BY <1>3, <1>5, <2>2, <2>3 DEF Abstract!Lost
  <2> QED
    BY <2>4 DEF Abstract!Next
<1>6. CASE pc # "clear" /\ HasRoom
  <2>1. /\ keyboard_buffer' = [keyboard_buffer EXCEPT ![buffer_write_pos] = Ascii(key)]
        /\ buffer_write_pos' = Following(buffer_write_pos)
        /\ buffer_read_pos' = buffer_read_pos
    BY <1>6 DEF PressCharacter, keyboard_buffer_push
  <2>2. Contents' = TextOf(keyboard_buffer', buffer_read_pos', buffer_write_pos')
    BY DEF Contents, Waiting, TextOf, Distance, SlotOf, N
  <2>3. Following(buffer_write_pos) # buffer_read_pos /\ Ascii(key) \in Text
    BY <1>2, <1>6 DEF HasRoom, Text
  <2>4. Contents' = Append(Contents, Ascii(key))
    BY <1>1, <2>1, <2>2, <2>3, ContentsAsText, PushAppends
  <2>5. Len(Contents) < KEYBOARD_BUFFER_SIZE - 1
    <3>1. Len(Contents) # KEYBOARD_BUFFER_SIZE - 1 /\ Len(Contents) = Waiting
      BY <1>6, QueueLength DEF IInv
    <3>2. Waiting \in Slot
      BY <1>1, WaitingNumber
    <3> QED
      BY <3>1, <3>2, KeyboardAssumption DEF Slot
  <2>6. Abstract!Typed(Ascii(key))
    BY <1>3, <1>6, <2>4, <2>5 DEF Abstract!Typed
  <2> QED
    BY <1>2, <2>6 DEF Abstract!Next
<1> QED
  BY <1>4, <1>5, <1>6

(* The queue stands still. *)
LEMMA NothingHappens ==
    ASSUME UNCHANGED <<ring, got, struck>>, pc' = "clear" <=> pc = "clear"
    PROVE  UNCHANGED Abstract!vars
<1>1. Contents' = Contents
  BY DEF ring, Contents, Waiting
<1> QED
  BY <1>1 DEF Abstract!vars

(* Every other interrupt does not touch it. *)
LEMMA InterruptIsAbstract ==
    ASSUME IInv, IInv', Interrupt
    PROVE  [Abstract!Next]_(Abstract!vars)
<1>1. CASE Tick
  BY <1>1, NothingHappens DEF Tick, Wake, Thread, results
<1>2. ASSUME NEW key \in Keys, keyboard_handler(key)
      PROVE  [Abstract!Next]_(Abstract!vars)
  <2>1. CASE PressCharacter(key)
    BY <2>1, CharacterIsTypedOrLost
  <2>2. CASE PressModifier(key) \/ ReleaseModifier(key) \/ PressCapsLock(key) \/ Ignored(key)
    BY <2>2, NothingHappens
       DEF PressModifier, ReleaseModifier, PressCapsLock, Ignored, Wake, Thread, results
  <2> QED
    BY <1>2, <2>1, <2>2 DEF keyboard_handler, Pressed, Released, NoCharacter
<1> QED
  BY <1>1, <1>2 DEF Interrupt

(* A reader takes the head with its last step; clearing starts with its      *)
(* first store and is over after its second.                                 *)
LEMMA ThreadIsAbstract ==
    ASSUME IInv, IInv', Call \/ Step
    PROVE  [Abstract!Next]_(Abstract!vars)
<1>0. /\ buffer_read_pos \in Slot /\ buffer_write_pos \in Slot
      /\ keyboard_buffer \in [Slot -> Text]
  BY DEF IInv, TypeOK, Text
<1>1. CASE (\E wait \in BOOLEAN : StartRead(wait)) \/ StartCount \/ Hlt \/ Take \/ Count
  BY <1>1, NothingHappens DEF StartRead, StartCount, Hlt, Take, Count, Thread, results
<1>2. CASE Test
  <2>1. CASE HasInput \/ blocking
    BY <1>2, <2>1, NothingHappens DEF Test
  <2>2. CASE ~HasInput /\ ~blocking
    <3>1. Contents = <<>> /\ Contents' = Contents
      BY <1>2, <2>2, QueueLength DEF IInv, Test, ring, Contents, Waiting
    <3>2. Abstract!NothingWaiting
      BY <1>2, <2>2, <3>1 DEF Test, Abstract!NothingWaiting
    <3> QED
      BY <3>2 DEF Abstract!Next
  <2> QED
    BY <2>1, <2>2
<1>3. CASE Advance
  <2>1. HasInput /\ c = keyboard_buffer[buffer_read_pos]
    BY <1>3 DEF IInv, ReaderState, Advance
  <2>2. Contents' = TextOf(keyboard_buffer', buffer_read_pos', buffer_write_pos')
    BY DEF Contents, Waiting, TextOf, Distance, SlotOf, N
  <2>3. /\ Contents # <<>> /\ Head(Contents) = c /\ Contents' = Tail(Contents)
    BY <1>0, <1>3, <2>1, <2>2, ContentsAsText, AdvanceTakesFirst DEF Advance, HasInput
  <2>4. Abstract!Read
    BY <1>3, <2>3 DEF Advance, Abstract!Read
  <2> QED
    BY <2>4 DEF Abstract!Next
<1>4. CASE ClearRead
  <2>1. Abstract!StartEmptying
    BY <1>4 DEF ClearRead, Thread, results, Abstract!StartEmptying
  <2> QED
    BY <2>1 DEF Abstract!Next
<1>5. CASE ClearWrite
  <2>1. buffer_read_pos' = 0 /\ buffer_write_pos' = 0
    BY <1>5 DEF ClearWrite, IInv, ReaderState
  <2>2. Contents' = TextOf(keyboard_buffer', 0, 0)
    BY <2>1 DEF Contents, Waiting, TextOf, Distance, SlotOf, N
  <2>3. 0 \in Slot /\ keyboard_buffer' \in [Slot -> Text]
    BY KeyboardAssumption DEF IInv, TypeOK, Slot, Text
  <2>4. Contents' = <<>>
    BY <2>2, <2>3, TextOfRing, DistanceValue
  <2>5. Abstract!DoneEmptying
    BY <1>5, <2>4 DEF ClearWrite, Thread, results, Abstract!DoneEmptying
  <2> QED
    BY <2>5 DEF Abstract!Next
<1> QED
  BY <1>1, <1>2, <1>3, <1>4, <1>5 DEF Call, Step

(* The ring and its two positions are a queue of KEYBOARD_BUFFER_SIZE - 1    *)
(* characters: with interrupts between any two accesses of the reader every  *)
(* character comes out once and in order, and is lost only when the queue    *)
(* is full or keyboard_clear_buffer is between its stores.                   *)
THEOREM RingIsQueue == Spec => ImplementsKeyQueue
<1>1. IInv /\ IInv' /\ [Next]_vars => [Abstract!Next]_(Abstract!vars)
  <2> SUFFICES ASSUME IInv, IInv', [Next]_vars PROVE [Abstract!Next]_(Abstract!vars)
    OBVIOUS
  <2>1. CASE UNCHANGED vars
    BY <2>1, NothingHappens DEF vars, results
  <2> QED
    BY <2>1, ThreadIsAbstract, InterruptIsAbstract DEF Next
<1> QED
  BY <1>1, InitIsAbstract, AlwaysIInv, PTL DEF Spec, Abstract!Spec, ImplementsKeyQueue
=============================================================================
