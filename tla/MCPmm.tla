-------------------------------- MODULE MCPmm --------------------------------
(* Memory scaled so that a page is 2 bytes and a megabyte 4: the kernel's   *)
(* two megabytes are 4 frames, the heap starts at 12 and is 8 bytes long.   *)
(* But for Overlapping, entries begin at page boundaries of the region.     *)
EXTENDS Pmm

LOCAL Usable(b, n) == [base |-> b, length |-> n, available |-> TRUE]
LOCAL Reserved(b, n) == [base |-> b, length |-> n, available |-> FALSE]
LOCAL Map(regions) == [type |-> "mmap", regions |-> regions]
LOCAL Basic(l, u) == [type |-> "basic", lower |-> l, upper |-> u]
LOCAL Other == [type |-> "other"]
LOCAL End == [type |-> "end"]

(* One region above the kernel, the usual case. *)
Plain == <<Other, Basic(1, 10),
           Map(<<Usable(0, 2), Reserved(2, 2), Usable(4, 20), Reserved(24, 4)>>), End>>
(* The longest region is a high one: the bitmap lies outside of it. *)
High == <<Map(<<Usable(4, 14), Reserved(18, 6), Usable(24, 19)>>), Basic(2, 70), End>>
(* No region: the fallback, with nothing known about it. *)
Nothing == <<>>
(* Regions too small: the fallback, the bitmap above the kernel's frames,   *)
(* reserved entries on both sides of it and one that leaves the region.     *)
Scattered == <<Map(<<Reserved(12, 2), Usable(16, 7), Reserved(24, 1), Reserved(26, 9)>>), End>>
(* The longest region starts at 0; what follows the END tag is not read. *)
FromZero == <<Map(<<Usable(0, 21)>>), End, Map(<<Usable(4, 30)>>)>>
(* A hole in the region; the fifth entry does not fit memory_info. *)
Hole == <<Map(<<Usable(4, 18), Reserved(16, 2), Usable(30, 4)>>),
          Map(<<Reserved(40, 4), Usable(44, 22)>>), End>>
(* Reserved entries that overlap, start off a page or below the region. *)
Overlapping ==
    <<Map(<<Usable(4, 22), Reserved(14, 4), Reserved(17, 2), Reserved(2, 12)>>), End>>

MCPlain == {Plain}
MCFirmware == {Plain, High, Nothing, Scattered, FromZero, Hole, Overlapping}
=============================================================================
