\* nRF52840: 256 KiB of RAM at 0x20000000.
SPECIFICATION Spec
CONSTANTS
    SRAM_BEGIN = 536870912
    SRAM_END = 537133056
    LEN = 28
    Placements <- AtEdges
    MaxUptime = 3
    MaxSum = 6
INVARIANTS TypeOK SumIsRecorded UpdateSurvives RetainsItsSections
