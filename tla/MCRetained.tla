----------------------------- MODULE MCRetained -----------------------------
(***************************************************************************)
(* Retained memory on the nRF52840 of the controller's dongle.  Objects of *)
(* the struct's 28 checked bytes are put where a section begins or ends.   *)
(***************************************************************************)
EXTENDS Retained

\* Addresses at which a section begins, and the end of RAM.
Edges == {SectionBegin(bs[1], bs[2]) : bs \in Sections} \cup {SRAM_END}

\* Before an edge, over it by some bytes, and from it on.
AtEdges == {e + d : e \in Edges, d \in {-28, -27, -8, -1, 0, 4}}
             \cap (SRAM_BEGIN..(SRAM_END - LEN))
=============================================================================
