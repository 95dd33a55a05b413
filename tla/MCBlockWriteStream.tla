------------------------- MODULE MCBlockWriteStream -------------------------
(* Model checking of BlockWriteStream. *)
EXTENDS BlockWriteStream

\* Sectors of three bytes, two sectors to a block, three blocks: a sector as data have it, two
\* blank sectors as a new header has them, and a blank word that is no whole sector.
SectorWords == {[i \in 0 .. 2 |-> i \div 2], Zeros(6), Zeros(4)}
SectorPositions == {0}
SectorCounts == {6}

\* Nothing is promised of a file that was left too short: its states are not followed.
LongEnough == ~ short

\* The words are such as the theorems are about.
ASSUME WordsAssumption
=============================================================================
