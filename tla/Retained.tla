------------------------------ MODULE Retained ------------------------------
(***************************************************************************)
(* Retained memory (retained.c): uptime kept over System OFF and resets in *)
(* an uninitialised object that a CRC vouches for.  A session begins with  *)
(* retained_validate and calls retained_update now and then.  The device   *)
(* can be reset between any two of their stores, and System OFF loses each *)
(* RAM section whose retention ram_range_retain has not switched on.       *)
(*                                                                         *)
(* Sizes and addresses are those of the nRF52.  The CRC is what it was     *)
(* computed over: no other data has the same.                              *)
(***************************************************************************)
EXTENDS Integers

CONSTANTS SRAM_BEGIN, SRAM_END,  \* from the devicetree
          LEN,                   \* RETAINED_CHECKED_SIZE
          Placements,            \* where the linker can put the object
          MaxUptime, MaxSum      \* bounds: ticks of a session, of all sessions

SMALL_SECTION_SIZE       == 4096
SMALL_SECTIONS_PER_BLOCK == 2
SMALL_BLOCK_COUNT        == 8
SMALL_SECTION_SPAN       == SMALL_BLOCK_COUNT * SMALL_SECTIONS_PER_BLOCK * SMALL_SECTION_SIZE
LARGE_SECTION_BEGIN      == SRAM_BEGIN + SMALL_SECTION_SPAN
LARGE_SECTION_SIZE       == 32768
LARGE_SECTIONS_PER_BLOCK == 16

ASSUME RetainedAssumption ==
    /\ SRAM_BEGIN \in Nat /\ SRAM_BEGIN % LARGE_SECTION_SIZE = 0
    /\ SRAM_END \in Nat
    /\ SRAM_END <= LARGE_SECTION_BEGIN + LARGE_SECTIONS_PER_BLOCK * LARGE_SECTION_SIZE
    /\ LEN \in Nat \ {0}
    /\ Placements \subseteq SRAM_BEGIN..(SRAM_END - LEN)
    /\ MaxUptime \in Nat /\ MaxSum \in Nat

VARIABLES
    ptr,             \* &retained
    latest, sum, crc,\* its uptime_latest and uptime_sum, and what crc covers
    section_on,      \* sections whose retention is on, each <<block, section>>
    pc,              \* where the session is
    addr,            \* ram_range_retain's
    uptime, now,     \* k_uptime_ticks() and what retained_update read of it
    valid,           \* what retained_validate returns
    past, mine,      \* (history) the uptime that updates have recorded in
                     \* earlier sessions and in this one
    finished         \* (history) was the session's last store the last one of
                     \* retained_update, and has there been power since?

data == <<latest, sum, crc>>
history == <<past, mine, finished>>
vars == <<ptr, data, section_on, pc, addr, uptime, now, valid, history>>

\* The bytes an uninitialised or lost object is made of have no valid CRC.
Garbage == <<>>

-----------------------------------------------------------------------------
(* ram_range_retain *)

\* Mutant: the large block's sections are counted from the start of RAM.
BlockBaseOfSmall(a) == SRAM_BEGIN

IsLarge(a)     == a >= LARGE_SECTION_BEGIN
BlockBase(a)   == IF IsLarge(a) THEN LARGE_SECTION_BEGIN ELSE SRAM_BEGIN
SectionSize(a) == IF IsLarge(a) THEN LARGE_SECTION_SIZE ELSE SMALL_SECTION_SIZE
PerBlock(a)    == IF IsLarge(a) THEN LARGE_SECTIONS_PER_BLOCK
                                ELSE SMALL_SECTIONS_PER_BLOCK
FirstBlock(a)  == IF IsLarge(a) THEN SMALL_BLOCK_COUNT ELSE 0

\* The retention bit that one turn of the loop sets.
SectionMask(a) == LET section == (a - BlockBase(a)) \div SectionSize(a)
                  IN  <<FirstBlock(a) + (section \div PerBlock(a)), section % PerBlock(a)>>

\* Mutant: addr advances by the size of a section.
NextAddrAhead(a) == a + SectionSize(a)

\* The first address in the next section.
NextAddr(a) == a + (SectionSize(a) - (a % SectionSize(a)))

InRange == LEN # 0 /\ ptr >= SRAM_BEGIN /\ ptr <= SRAM_END - LEN

-----------------------------------------------------------------------------
Init == /\ ptr \in Placements
        /\ latest = 0 /\ sum = 0 /\ crc = Garbage
        /\ section_on = {}
        /\ pc = "validate" /\ addr = 0
        /\ uptime = 0 /\ now = 0
        /\ valid = FALSE
        /\ past = 0 /\ mine = 0 /\ finished = FALSE

\* crc32_ieee and the memset of an object whose CRC is wrong.
Validate == /\ pc = "validate"
            /\ valid' = (crc = <<latest, sum>>)
            /\ IF valid' THEN UNCHANGED data
                         ELSE latest' = 0 /\ sum' = 0 /\ crc' = Garbage
            /\ past' = IF valid' THEN past + mine ELSE 0
            /\ mine' = 0
            /\ pc' = "accrue"
            /\ UNCHANGED <<ptr, section_on, addr, uptime, now, finished>>

\* Mutant: uptime_latest is left as the last session wrote it.
AccrueOn == /\ pc = "accrue"
            /\ pc' = "retain" /\ addr' = ptr
            /\ finished' = FALSE
            /\ UNCHANGED <<ptr, data, section_on, uptime, now, valid, past, mine>>

\* uptime_latest = 0: the CRC does not cover it until the next update.
Accrue == /\ pc = "accrue"
          /\ latest' = 0
          /\ pc' = "retain" /\ addr' = ptr
          /\ finished' = FALSE
          /\ UNCHANGED <<ptr, sum, crc, section_on, uptime, now, valid, past, mine>>

\* A turn of ram_range_retain's loop, or its early return.
Retain == /\ pc = "retain"
          /\ section_on' = IF InRange THEN section_on \cup {SectionMask(addr)}
                                      ELSE section_on
          /\ addr' = NextAddr(addr)
          /\ pc' = IF InRange /\ addr' < ptr + LEN THEN "retain" ELSE "run"
          /\ UNCHANGED <<ptr, data, uptime, now, valid, history>>

Tick == /\ pc = "run" /\ uptime < MaxUptime
        /\ uptime' = uptime + 1
        /\ UNCHANGED <<ptr, data, section_on, pc, addr, now, valid, history>>

\* Mutant: the difference is taken the wrong way round.
UpdateSumReversed == /\ pc = "run"
                     /\ now' = uptime
                     /\ sum' = sum + (latest - uptime)
                     /\ sum' <= MaxSum
                     /\ pc' = "latest"
                     /\ finished' = FALSE
                     /\ UNCHANGED <<ptr, latest, crc, section_on, addr, uptime,
                                    valid, past, mine>>

\* retained_update; sums beyond MaxSum are not looked at.
UpdateSum == /\ pc = "run"
             /\ now' = uptime
             /\ sum' = sum + (uptime - latest)
             /\ sum' <= MaxSum
             /\ pc' = "latest"
             /\ finished' = FALSE
             /\ UNCHANGED <<ptr, latest, crc, section_on, addr, uptime, valid,
                            past, mine>>

UpdateLatest == /\ pc = "latest"
                /\ latest' = now
                /\ pc' = "crc"
                /\ UNCHANGED <<ptr, sum, crc, section_on, addr, uptime, now,
                               valid, history>>

UpdateCrc == /\ pc = "crc"
             /\ crc' = <<latest, sum>>
             /\ pc' = "run"
             /\ mine' = now /\ finished' = TRUE
             /\ UNCHANGED <<ptr, latest, sum, section_on, addr, uptime, now,
                            valid, past>>

-----------------------------------------------------------------------------
(* The device *)

\* A new session: retention is off until it is asked for, uptime is 0.
Boot == /\ pc' = "validate" /\ addr' = 0
        /\ uptime' = 0 /\ now' = 0
        /\ valid' = FALSE
        /\ section_on' = {}
        /\ UNCHANGED <<ptr, past, mine>>

\* RAM survives a reset, wherever it comes.
Reset == Boot /\ UNCHANGED <<data, finished>>

PowerLoss == Boot /\ latest' = 0 /\ sum' = 0 /\ crc' = Garbage /\ finished' = FALSE

\* The addresses that the bit of section s of block b retains.
SectionBegin(b, s) ==
    IF b < SMALL_BLOCK_COUNT
      THEN SRAM_BEGIN + (b * SMALL_SECTIONS_PER_BLOCK + s) * SMALL_SECTION_SIZE
      ELSE LARGE_SECTION_BEGIN + ((b - SMALL_BLOCK_COUNT) * LARGE_SECTIONS_PER_BLOCK + s)
                                   * LARGE_SECTION_SIZE
SizeIn(b)     == IF b < SMALL_BLOCK_COUNT THEN SMALL_SECTION_SIZE ELSE LARGE_SECTION_SIZE
SectionsIn(b) == IF b < SMALL_BLOCK_COUNT THEN SMALL_SECTIONS_PER_BLOCK
                                          ELSE LARGE_SECTIONS_PER_BLOCK

\* Section s of block b holds bytes of the object.
Holds(b, s) == /\ SectionBegin(b, s) < ptr + LEN
               /\ ptr < SectionBegin(b, s) + SizeIn(b)

\* An nRF52 has 9 blocks.
Sections == {bs \in (0..8) \X (0..15) : bs[2] < SectionsIn(bs[1])}
Kept     == \A bs \in Sections : Holds(bs[1], bs[2]) => bs \in section_on

\* The application turns the system off and is woken by a reset.
SystemOff == /\ pc = "run"
             /\ Boot /\ UNCHANGED finished
             /\ IF Kept THEN UNCHANGED data
                        ELSE latest' = 0 /\ sum' = 0 /\ crc' = Garbage

-----------------------------------------------------------------------------
Next == \/ Validate \/ Accrue \/ Retain
        \/ UpdateSum \/ UpdateLatest \/ UpdateCrc
        \/ Tick \/ Reset \/ PowerLoss \/ SystemOff

Spec == Init /\ [][Next]_vars

-----------------------------------------------------------------------------
(* Properties *)

\* The sum is unsigned, and uptime_latest never lies ahead of the clock.
TypeOK ==
    /\ ptr \in Placements
    /\ latest \in 0..MaxUptime /\ sum \in 0..MaxSum
    /\ crc \in {Garbage} \cup (Nat \X Nat)
    /\ section_on \subseteq Sections
    /\ pc \in {"validate", "accrue", "retain", "run", "latest", "crc"}
    /\ addr \in Nat
    /\ uptime \in 0..MaxUptime /\ now \in 0..uptime
    /\ valid \in BOOLEAN /\ finished \in BOOLEAN
    /\ past \in Nat /\ mine \in Nat

\* retained.h: uptime_sum is the "cumulative uptime from all previous sessions
\* up through uptime_latest of this session", wherever resets have cut updates
\* and validations: no tick counts twice, and data cut in the middle of an
\* update is never taken for valid.
SumIsRecorded == pc \in {"accrue", "retain", "run"} => sum = past + mine

\* After a finished update the next session finds the data valid, after a
\* reset as well as after System OFF, wherever the linker has put the object
\* (retained_update's "so subsequent boots can verify the retained state").
UpdateSurvives == pc = "accrue" /\ finished => valid

\* Once retained_validate has returned, retention is on in the sections that
\* hold the object and, since each costs current in System OFF, in no other.
RetainsItsSections ==
    pc = "run" => section_on = {bs \in Sections : Holds(bs[1], bs[2])}
=============================================================================
