---------------------------- MODULE HeightOrder ----------------------------
(***************************************************************************)
(* Heights are indexed one after the other, each encoded (IndexBlocks,     *)
(* services/store.go 138): every key must sort above the one before.       *)
(***************************************************************************)
EXTENDS Lexinum

CONSTANT Ranges     \* pairs of a first and a last height; a bound on the heights

\* Heights are unsigned numbers of 32 bits.
ASSUME RangesAssumption == Ranges \subseteq U32 \X U32

VARIABLES height, last

heights == <<height, last>>

FirstHeights == \E r \in Ranges : height = r[1] /\ last = r[2]

\* The next block.
Advance == height < last /\ height' = height + 1 /\ UNCHANGED last

HeightsSpec == FirstHeights /\ [][Advance]_heights

----------------------------------------------------------------------------
\* The encoding of a height is above that of the height before it, within a
\* format, from one to the other and where the digits grow in number: a seek
\* relies on it (EncodeHeight, lexinum.go 47-94; lexinum_test.go goes no
\* further than the short format).
OrderKept == [][Less(EncodeHeight(height), EncodeHeight(height'))]_heights

\* A height survives its encoding, which is a string of bytes and leaves out
\* zero (EncodeHeight and DecodeHeight, lexinum.go 11-94).
RoundTrip ==
  /\ DecodeHeight(EncodeHeight(height)) = Height(height)
  /\ EncodeHeight(height) \in Seq(1..Byte)
=============================================================================
