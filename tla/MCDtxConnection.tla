--------------------------- MODULE MCDtxConnection ---------------------------
(* Instances of DtxConnection for TLC.                                       *)
EXTENDS DtxConnection

Shape(len, cnt, ok) == [len |-> len, cnt |-> cnt, ok |-> ok]
NoBody == Shape(0, 1, TRUE)
Fragmented == Shape(2, 3, TRUE)

\* An event may announce a size that its fragment does not have, a reply may not decode.
MCEventShapes == {NoBody, Fragmented, Shape(2, 2, TRUE)}
MCReplyShapes == {NoBody, Fragmented, Shape(1, 1, FALSE)}
=============================================================================
