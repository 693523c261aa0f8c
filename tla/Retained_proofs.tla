-------------------------- MODULE Retained_proofs --------------------------
(***************************************************************************)
(* Proofs about Retained, for every RAM size of an nRF52, every size and   *)
(* every placement of the object.                                          *)
(***************************************************************************)
EXTENDS Retained, TLAPS

End(bs) == SectionBegin(bs[1], bs[2]) + SizeIn(bs[1])

InRam(a) ==
    a \in SRAM_BEGIN..(LARGE_SECTION_BEGIN + LARGE_SECTIONS_PER_BLOCK * LARGE_SECTION_SIZE - 1)

-----------------------------------------------------------------------------
(* The sections *)

\* The start of RAM is a multiple of the section sizes.
LEMMA Aligned ==
    \E k \in Nat : SRAM_BEGIN = 32768 * k
<1> DEFINE k == SRAM_BEGIN \div 32768
<1>1. k \in Nat /\ SRAM_BEGIN = 32768 * k
  BY RetainedAssumption DEF LARGE_SECTION_SIZE
<1> HIDE DEF k
<1> QED BY <1>1

\* The bit that a turn sets is that of the section in which addr lies.
LEMMA MaskHolds ==
    ASSUME NEW a, InRam(a)
    PROVE  /\ SectionMask(a) \in Sections
           /\ SectionBegin(SectionMask(a)[1], SectionMask(a)[2]) <= a
           /\ a < End(SectionMask(a))
<1>1. SRAM_BEGIN \in Nat /\ a \in Nat
  BY RetainedAssumption DEF InRam, LARGE_SECTION_BEGIN, SMALL_SECTION_SPAN,
     SMALL_BLOCK_COUNT, SMALL_SECTIONS_PER_BLOCK, SMALL_SECTION_SIZE,
     LARGE_SECTIONS_PER_BLOCK, LARGE_SECTION_SIZE
<1>2. CASE IsLarge(a)
  <2> DEFINE s == (a - LARGE_SECTION_BEGIN) \div 32768
  <2>1. s \in 0..15 /\ LARGE_SECTION_BEGIN + s * 32768 <= a
        /\ a < LARGE_SECTION_BEGIN + s * 32768 + 32768
    BY <1>1, <1>2 DEF IsLarge, InRam, LARGE_SECTION_BEGIN, SMALL_SECTION_SPAN,
       SMALL_BLOCK_COUNT, SMALL_SECTIONS_PER_BLOCK, SMALL_SECTION_SIZE,
       LARGE_SECTIONS_PER_BLOCK, LARGE_SECTION_SIZE
  <2>2. SectionMask(a) = <<8 + (s \div 16), s % 16>>
    BY <1>2 DEF SectionMask, BlockBase, SectionSize, FirstBlock, PerBlock,
       LARGE_SECTION_SIZE, LARGE_SECTIONS_PER_BLOCK, SMALL_BLOCK_COUNT
  <2> HIDE DEF s
  <2>3. SectionMask(a) = <<8, s>>
    BY <2>1, <2>2
  <2> QED BY <1>1, <2>1, <2>3 DEF Sections, SectionsIn, SectionBegin, SizeIn, End,
       SMALL_BLOCK_COUNT, LARGE_SECTIONS_PER_BLOCK, LARGE_SECTION_SIZE,
       LARGE_SECTION_BEGIN, SMALL_SECTION_SPAN, SMALL_SECTIONS_PER_BLOCK,
       SMALL_SECTION_SIZE
<1>3. CASE ~IsLarge(a)
  <2> DEFINE s == (a - SRAM_BEGIN) \div 4096
  <2>1. s \in 0..15 /\ SRAM_BEGIN + s * 4096 <= a
        /\ a < SRAM_BEGIN + s * 4096 + 4096
    BY <1>1, <1>3 DEF IsLarge, InRam, LARGE_SECTION_BEGIN, SMALL_SECTION_SPAN,
       SMALL_BLOCK_COUNT, SMALL_SECTIONS_PER_BLOCK, SMALL_SECTION_SIZE
  <2>2. SectionMask(a) = <<0 + (s \div 2), s % 2>>
    BY <1>3 DEF SectionMask, BlockBase, SectionSize, FirstBlock, PerBlock,
       SMALL_SECTION_SIZE, SMALL_SECTIONS_PER_BLOCK
  <2> HIDE DEF s
  <2>3. s \div 2 \in 0..7 /\ s % 2 \in 0..1 /\ (s \div 2) * 2 + (s % 2) = s
    BY <2>1
  <2> QED BY <1>1, <2>1, <2>2, <2>3 DEF Sections, SectionsIn, SectionBegin, SizeIn, End,
       SMALL_BLOCK_COUNT, SMALL_SECTIONS_PER_BLOCK, SMALL_SECTION_SIZE
<1> QED BY <1>2, <1>3

\* The next address is the end of that section.
LEMMA NextIsEnd ==
    ASSUME NEW a, InRam(a)
    PROVE  NextAddr(a) = End(SectionMask(a))
<1>1. SRAM_BEGIN \in Nat /\ a \in Nat
  BY RetainedAssumption DEF InRam, LARGE_SECTION_BEGIN, SMALL_SECTION_SPAN,
     SMALL_BLOCK_COUNT, SMALL_SECTIONS_PER_BLOCK, SMALL_SECTION_SIZE,
     LARGE_SECTIONS_PER_BLOCK, LARGE_SECTION_SIZE
<1>2. PICK k \in Nat : SRAM_BEGIN = 32768 * k
  BY Aligned
<1>3. CASE IsLarge(a)
  <2> DEFINE s == (a - LARGE_SECTION_BEGIN) \div 32768
  <2>1. s \in 0..15 /\ LARGE_SECTION_BEGIN = 32768 * k + 65536
        /\ a = LARGE_SECTION_BEGIN + s * 32768 + (a % 32768)
    BY <1>1, <1>2, <1>3 DEF IsLarge, InRam, LARGE_SECTION_BEGIN, SMALL_SECTION_SPAN,
       SMALL_BLOCK_COUNT, SMALL_SECTIONS_PER_BLOCK, SMALL_SECTION_SIZE,
       LARGE_SECTIONS_PER_BLOCK, LARGE_SECTION_SIZE
  <2>2. SectionMask(a) = <<8 + (s \div 16), s % 16>>
    BY <1>3 DEF SectionMask, BlockBase, SectionSize, FirstBlock, PerBlock,
       LARGE_SECTION_SIZE, LARGE_SECTIONS_PER_BLOCK, SMALL_BLOCK_COUNT
  <2>3. NextAddr(a) = a + (32768 - (a % 32768))
    BY <1>3 DEF NextAddr, SectionSize, LARGE_SECTION_SIZE
  <2> HIDE DEF s
  <2>4. SectionMask(a) = <<8, s>>
    BY <2>1, <2>2
  <2>5. End(<<8, s>>) = LARGE_SECTION_BEGIN + s * 32768 + 32768
    BY <1>1, <2>1 DEF End, SectionBegin, SizeIn, SMALL_BLOCK_COUNT,
       LARGE_SECTIONS_PER_BLOCK, LARGE_SECTION_SIZE
  <2> QED BY <1>1, <2>1, <2>3, <2>4, <2>5
<1>4. CASE ~IsLarge(a)
  <2> DEFINE s == (a - SRAM_BEGIN) \div 4096
  <2>1. s \in 0..15 /\ a = SRAM_BEGIN + s * 4096 + (a % 4096)
    BY <1>1, <1>2, <1>4 DEF IsLarge, InRam, LARGE_SECTION_BEGIN, SMALL_SECTION_SPAN,
       SMALL_BLOCK_COUNT, SMALL_SECTIONS_PER_BLOCK, SMALL_SECTION_SIZE
  <2>2. SectionMask(a) = <<0 + (s \div 2), s % 2>>
    BY <1>4 DEF SectionMask, BlockBase, SectionSize, FirstBlock, PerBlock,
       SMALL_SECTION_SIZE, SMALL_SECTIONS_PER_BLOCK
  <2>3. NextAddr(a) = a + (4096 - (a % 4096))
    BY <1>4 DEF NextAddr, SectionSize, SMALL_SECTION_SIZE
  <2> HIDE DEF s
  <2>4. s \div 2 \in 0..7 /\ s % 2 \in 0..1 /\ (s \div 2) * 2 + (s % 2) = s
    BY <2>1
  <2>5. End(SectionMask(a)) = SRAM_BEGIN + s * 4096 + 4096
    BY <1>1, <2>1, <2>2, <2>4 DEF End, SectionBegin, SizeIn, SMALL_BLOCK_COUNT,
       SMALL_SECTIONS_PER_BLOCK, SMALL_SECTION_SIZE
  <2> QED BY <1>1, <2>1, <2>3, <2>5
<1> QED BY <1>3, <1>4

\* Of two sections one lies behind the other, or they are the same.
LEMMA InOrder ==
    ASSUME NEW bs \in Sections, NEW cs \in Sections
    PROVE  /\ End(bs) \in Nat /\ SectionBegin(bs[1], bs[2]) \in Nat
           /\ SectionBegin(bs[1], bs[2]) < End(bs)
           /\ \/ End(bs) <= SectionBegin(cs[1], cs[2])
              \/ End(cs) <= SectionBegin(bs[1], bs[2])
              \/ bs = cs
<1> DEFINE b == bs[1]  s == bs[2]  c == cs[1]  t == cs[2]
<1>1. /\ SRAM_BEGIN \in Nat
      /\ b \in 0..8 /\ s \in 0..15 /\ c \in 0..8 /\ t \in 0..15
      /\ b < 8 => s < 2
      /\ c < 8 => t < 2
      /\ bs = <<b, s>> /\ cs = <<c, t>>
  BY RetainedAssumption DEF Sections, SectionsIn, SMALL_BLOCK_COUNT,
     SMALL_SECTIONS_PER_BLOCK
<1> HIDE DEF b, s, c, t
<1>2. SectionBegin(bs[1], bs[2]) = IF b < 8 THEN SRAM_BEGIN + (b * 2 + s) * 4096
                                   ELSE SRAM_BEGIN + 65536 + s * 32768
  BY <1>1 DEF b, s, SectionBegin, LARGE_SECTION_BEGIN, SMALL_SECTION_SPAN, SMALL_BLOCK_COUNT,
     SMALL_SECTIONS_PER_BLOCK, SMALL_SECTION_SIZE, LARGE_SECTIONS_PER_BLOCK,
     LARGE_SECTION_SIZE
<1>3. SectionBegin(cs[1], cs[2]) = IF c < 8 THEN SRAM_BEGIN + (c * 2 + t) * 4096
                                   ELSE SRAM_BEGIN + 65536 + t * 32768
  BY <1>1 DEF c, t, SectionBegin, LARGE_SECTION_BEGIN, SMALL_SECTION_SPAN, SMALL_BLOCK_COUNT,
     SMALL_SECTIONS_PER_BLOCK, SMALL_SECTION_SIZE, LARGE_SECTIONS_PER_BLOCK,
     LARGE_SECTION_SIZE
<1>4. /\ End(bs) = SectionBegin(bs[1], bs[2]) + (IF b < 8 THEN 4096 ELSE 32768)
      /\ End(cs) = SectionBegin(cs[1], cs[2]) + (IF c < 8 THEN 4096 ELSE 32768)
  BY DEF b, c, End, SizeIn, SMALL_BLOCK_COUNT, SMALL_SECTION_SIZE, LARGE_SECTION_SIZE
<1> QED BY <1>1, <1>2, <1>3, <1>4

\* A turn of the loop adds the one section that ends between addr and the next
\* address.
LEMMA TurnAddsSection ==
    ASSUME NEW a, InRam(a), NEW p \in Nat, p <= a
    PROVE  {bs \in Sections : p < End(bs) /\ End(bs) <= NextAddr(a)}
             = {bs \in Sections : p < End(bs) /\ End(bs) <= a} \cup {SectionMask(a)}
<1> DEFINE m == SectionMask(a)
<1>1. m \in Sections /\ SectionBegin(m[1], m[2]) <= a /\ a < End(m)
  BY MaskHolds
<1>2. NextAddr(a) = End(m)
  BY NextIsEnd
<1>3. a \in Nat
  BY RetainedAssumption DEF InRam, LARGE_SECTION_BEGIN, SMALL_SECTION_SPAN,
     SMALL_BLOCK_COUNT, SMALL_SECTIONS_PER_BLOCK, SMALL_SECTION_SIZE,
     LARGE_SECTIONS_PER_BLOCK, LARGE_SECTION_SIZE
<1> HIDE DEF m
<1>4. ASSUME NEW bs \in Sections
      PROVE  End(bs) <= End(m) <=> End(bs) <= a \/ bs = m
  BY <1>1, <1>3, InOrder
<1>5. p < End(m)
  BY <1>1, <1>3, InOrder
<1> QED BY <1>1, <1>2, <1>4, <1>5 DEF m

\* When the loop ends behind the object, exactly its sections have been added.
LEMMA LoopAddsSections ==
    ASSUME NEW a, InRam(a), NEW p \in Nat, NEW e \in Nat, p <= a, a < e,
           e <= NextAddr(a)
    PROVE  {bs \in Sections : p < End(bs) /\ End(bs) <= NextAddr(a)}
             = {bs \in Sections : SectionBegin(bs[1], bs[2]) < e /\ p < End(bs)}
<1> DEFINE m == SectionMask(a)
<1>1. m \in Sections /\ SectionBegin(m[1], m[2]) <= a /\ a < End(m)
  BY MaskHolds
<1>2. NextAddr(a) = End(m)
  BY NextIsEnd
<1>3. a \in Nat
  BY RetainedAssumption DEF InRam, LARGE_SECTION_BEGIN, SMALL_SECTION_SPAN,
     SMALL_BLOCK_COUNT, SMALL_SECTIONS_PER_BLOCK, SMALL_SECTION_SIZE,
     LARGE_SECTIONS_PER_BLOCK, LARGE_SECTION_SIZE
<1> HIDE DEF m
<1>4. ASSUME NEW bs \in Sections
      PROVE  End(bs) <= End(m) <=> SectionBegin(bs[1], bs[2]) < e
  BY <1>1, <1>2, <1>3, InOrder
<1> QED BY <1>2, <1>4

-----------------------------------------------------------------------------
(* The inductive invariant *)

\* What the sums are at each point of a session; the data that the CRC vouches
\* for, if any, is that of the last update that has finished.
Sums ==
    /\ crc # Garbage => crc[2] = past + mine
    /\ finished => crc = <<latest, sum>> /\ pc \in {"validate", "accrue", "run"}
    /\ pc = "accrue" => mine = 0 /\ (finished => valid)
    /\ pc \in {"accrue", "retain", "run"} => sum = past + mine
    /\ pc \in {"retain", "run", "latest"} => latest = mine
    /\ pc \in {"retain", "run", "latest", "crc"} => mine <= uptime
    /\ pc \in {"latest", "crc"} => sum = past + now
    /\ pc = "crc" => latest = now

\* How far the loop has come, and what it has done by then.
Loop ==
    /\ pc \in {"validate", "accrue"} => section_on = {}
    /\ pc = "retain" =>
         /\ ptr <= addr /\ addr < ptr + LEN
         /\ section_on = {bs \in Sections : ptr < End(bs) /\ End(bs) <= addr}
    /\ pc \in {"run", "latest", "crc"} => section_on = {bs \in Sections : Holds(bs[1], bs[2])}

IInv == TypeOK /\ Sums /\ Loop

\* The object lies in RAM.
LEMMA ObjectInRam ==
    ASSUME TypeOK
    PROVE  /\ ptr \in Nat /\ LEN \in Nat \ {0} /\ ptr + LEN \in Nat
           /\ InRange /\ InRam(ptr)
           /\ \A a \in Nat : ptr <= a /\ a < ptr + LEN => InRam(a)
<1>1. /\ SRAM_BEGIN \in Nat /\ SRAM_END \in Nat /\ LEN \in Nat \ {0}
      /\ ptr \in SRAM_BEGIN..(SRAM_END - LEN)
  BY RetainedAssumption DEF TypeOK
<1>2. SRAM_END <= LARGE_SECTION_BEGIN + LARGE_SECTIONS_PER_BLOCK * LARGE_SECTION_SIZE
  BY RetainedAssumption
<1> QED BY <1>1, <1>2 DEF InRange, InRam, LARGE_SECTION_BEGIN, SMALL_SECTION_SPAN,
       SMALL_BLOCK_COUNT, SMALL_SECTIONS_PER_BLOCK, SMALL_SECTION_SIZE,
       LARGE_SECTIONS_PER_BLOCK, LARGE_SECTION_SIZE

LEMMA InitIInv == Init => IInv
<1> SUFFICES ASSUME Init PROVE IInv
  OBVIOUS
<1> USE DEF Init
<1>1. TypeOK
  <2>1. MaxUptime \in Nat /\ MaxSum \in Nat
    BY RetainedAssumption
  <2>2. valid \in BOOLEAN /\ finished \in BOOLEAN
    OBVIOUS
  <2>3. /\ latest \in 0..MaxUptime /\ sum \in 0..MaxSum
        /\ uptime \in 0..MaxUptime /\ now \in 0..uptime
    BY <2>1
  <2>4. section_on \subseteq Sections /\ crc \in {Garbage} \cup (Nat \X Nat)
    OBVIOUS
  <2> QED BY <2>2, <2>3, <2>4 DEF TypeOK
<1>2. Sums
  BY DEF Sums
<1>3. Loop
  BY DEF Loop
<1> QED BY <1>1, <1>2, <1>3 DEF IInv

\* A reset, a loss of power and a waking from System OFF leave what a session
\* starts with, if RAM keeps the data or loses all of it.
LEMMA BootIInv ==
    ASSUME IInv, Boot,
           \/ UNCHANGED <<latest, sum, crc, finished>>
           \/ latest' = 0 /\ sum' = 0 /\ crc' = Garbage /\ finished' = FALSE
    PROVE  IInv'
<1> USE DEF IInv
<1>1. TypeOK'
  <2>1. MaxUptime \in Nat /\ MaxSum \in Nat
    BY RetainedAssumption
  <2>2. valid' \in BOOLEAN /\ finished' \in BOOLEAN
    BY DEF Boot, TypeOK
  <2>3. /\ latest' \in 0..MaxUptime /\ sum' \in 0..MaxSum
        /\ uptime' \in 0..MaxUptime /\ now' \in 0..uptime'
    BY <2>1 DEF Boot, TypeOK
  <2>4. section_on' \subseteq Sections /\ crc' \in {Garbage} \cup (Nat \X Nat)
    BY DEF Boot, TypeOK
  <2> QED BY <2>2, <2>3, <2>4 DEF TypeOK, Boot
<1>2. Sums'
  BY DEF Sums, Boot
<1>3. Loop'
  BY DEF Loop, Boot
<1> QED BY <1>1, <1>2, <1>3

LEMMA NextIInv == IInv /\ [Next]_vars => IInv'
<1> SUFFICES ASSUME IInv, [Next]_vars PROVE IInv'
  OBVIOUS
<1> USE DEF IInv
<1>1. CASE Validate
  <2>1. TypeOK'
    BY <1>1, RetainedAssumption DEF TypeOK, Validate, data, history, Garbage
  <2>2. crc # Garbage /\ crc = <<latest, sum>> => sum = past + mine
    BY DEF Sums
  <2>3. Sums'
    BY <1>1, <2>2 DEF Sums, TypeOK, Validate, data, Garbage
  <2>4. Loop'
    BY <1>1 DEF Loop, Validate
  <2> QED BY <2>1, <2>3, <2>4
<1>2. CASE Accrue
  <2>1. TypeOK'
    <3>1. ptr \in Nat /\ MaxUptime \in Nat
      BY ObjectInRam, RetainedAssumption
    <3>2. finished' \in BOOLEAN /\ valid' \in BOOLEAN
      BY <1>2 DEF TypeOK, Accrue
    <3>3. latest' \in 0..MaxUptime
      BY <1>2, <3>1 DEF Accrue
    <3> QED BY <1>2, <3>1, <3>2, <3>3 DEF TypeOK, Accrue
  <2>2. Sums'
    BY <1>2 DEF Sums, TypeOK, Accrue
  <2>3. ~\E bs \in Sections : ptr < End(bs) /\ End(bs) <= ptr
    BY InOrder, ObjectInRam
  <2>4. Loop'
    BY <1>2, <2>3, ObjectInRam DEF Loop, Accrue
  <2> QED BY <2>1, <2>2, <2>4
<1>3. CASE Retain
  <2>1. /\ addr \in Nat /\ ptr \in Nat /\ ptr + LEN \in Nat /\ InRange
        /\ InRam(addr) /\ ptr <= addr /\ addr < ptr + LEN
    BY <1>3, ObjectInRam DEF TypeOK, Loop, Retain
  <2>2. SectionMask(addr) \in Sections /\ NextAddr(addr) \in Nat /\ addr < NextAddr(addr)
    BY <2>1, MaskHolds, NextIsEnd, InOrder
  <2>3. section_on' = {bs \in Sections : ptr < End(bs) /\ End(bs) <= NextAddr(addr)}
    BY <1>3, <2>1, TurnAddsSection DEF Retain, Loop
  <2>4. TypeOK'
    BY <1>3, <2>1, <2>2 DEF TypeOK, Retain, data, history
  <2>5. Sums'
    BY <1>3 DEF Sums, TypeOK, Retain, data, history
  <2>6. CASE addr' < ptr + LEN
    <3>1. /\ pc' = "retain" /\ ptr' = ptr /\ addr' = NextAddr(addr)
          /\ ptr <= addr' /\ addr' < ptr' + LEN
      BY <1>3, <2>1, <2>2, <2>6 DEF Retain
    <3>2. Loop'
      BY <2>3, <3>1 DEF Loop
    <3> QED BY <2>4, <2>5, <3>2
  <2>7. CASE ~(addr' < ptr + LEN)
    <3>1. section_on' = {bs \in Sections : Holds(bs[1], bs[2])}
      BY <1>3, <2>1, <2>2, <2>3, <2>7, LoopAddsSections DEF Holds, End, Retain
    <3> QED BY <1>3, <2>7, <2>4, <2>5, <3>1 DEF Loop, Retain, Holds
  <2> QED BY <2>4, <2>5, <2>6, <2>7 DEF Loop
<1>4. CASE Tick
  <2>1. TypeOK'
    BY <1>4, RetainedAssumption DEF TypeOK, Tick, data, history
  <2>2. Sums'
    BY <1>4 DEF Sums, TypeOK, Tick, data, history
  <2>3. Loop'
    BY <1>4 DEF Loop, Tick, Holds
  <2> QED BY <2>1, <2>2, <2>3
<1>5. CASE UpdateSum
  <2>1. TypeOK'
    <3>1. /\ MaxUptime \in Nat /\ MaxSum \in Nat
          /\ sum \in 0..MaxSum /\ latest \in Nat /\ uptime \in 0..MaxUptime
          /\ latest <= uptime
      BY <1>5, RetainedAssumption DEF TypeOK, Sums, UpdateSum
    <3>2. sum' \in 0..MaxSum /\ now' \in 0..uptime'
      BY <1>5, <3>1 DEF UpdateSum
    <3> QED BY <1>5, <3>2 DEF TypeOK, UpdateSum
  <2>2. Sums'
    BY <1>5 DEF Sums, TypeOK, UpdateSum
  <2>3. Loop'
    BY <1>5 DEF Loop, UpdateSum, Holds
  <2> QED BY <2>1, <2>2, <2>3
<1>6. CASE UpdateLatest
  <2>1. TypeOK'
    BY <1>6, RetainedAssumption DEF TypeOK, UpdateLatest, history
  <2>2. Sums'
    BY <1>6 DEF Sums, TypeOK, UpdateLatest, history
  <2>3. Loop'
    BY <1>6 DEF Loop, UpdateLatest, Holds
  <2> QED BY <2>1, <2>2, <2>3
<1>7. CASE UpdateCrc
  <2>1. TypeOK'
    BY <1>7, RetainedAssumption DEF TypeOK, UpdateCrc
  <2>2. Sums'
    BY <1>7 DEF Sums, TypeOK, UpdateCrc
  <2>3. Loop'
    BY <1>7 DEF Loop, UpdateCrc, Holds
  <2> QED BY <2>1, <2>2, <2>3
<1>8. CASE Reset
  BY <1>8, BootIInv DEF Reset, data
<1>9. CASE PowerLoss
  BY <1>9, BootIInv DEF PowerLoss
<1>10. CASE SystemOff
  <2>1. Kept
    BY <1>10 DEF Loop, SystemOff, Kept
  <2> QED BY <1>10, <2>1, BootIInv DEF SystemOff, data
<1>11. CASE UNCHANGED vars
  <2>1. TypeOK'
    BY <1>11 DEF TypeOK, vars, data, history
  <2>2. Sums'
    BY <1>11 DEF Sums, vars, data, history
  <2>3. Loop'
    BY <1>11 DEF Loop, vars, data, history, Holds
  <2> QED BY <2>1, <2>2, <2>3
<1> QED BY <1>1, <1>2, <1>3, <1>4, <1>5, <1>6, <1>7, <1>8, <1>9, <1>10, <1>11 DEF Next

LEMMA SpecIInv == Spec => []IInv
BY InitIInv, NextIInv, PTL DEF Spec

-----------------------------------------------------------------------------
(* The theorems *)

\* The sums are unsigned and the sections those of the chip.
THEOREM TypeCorrect == Spec => []TypeOK
<1>1. IInv => TypeOK
  BY DEF IInv
<1> QED BY <1>1, SpecIInv, PTL

\* uptime_sum counts each recorded tick once, wherever a reset comes.
THEOREM SumCorrect == Spec => []SumIsRecorded
<1>1. IInv => SumIsRecorded
  BY DEF IInv, Sums, SumIsRecorded
<1> QED BY <1>1, SpecIInv, PTL

\* A finished update is found again after a reset and after System OFF,
\* wherever the object lies.
THEOREM UpdatesSurvive == Spec => []UpdateSurvives
<1>1. IInv => UpdateSurvives
  BY DEF IInv, Sums, UpdateSurvives
<1> QED BY <1>1, SpecIInv, PTL

\* ram_range_retain switches on exactly the object's sections.
THEOREM SectionsCorrect == Spec => []RetainsItsSections
<1>1. IInv => RetainsItsSections
  BY DEF IInv, Loop, RetainsItsSections
<1> QED BY <1>1, SpecIInv, PTL
=============================================================================
