--------------------------- MODULE MCXpcConnection ---------------------------
(* Instances of XpcConnection for TLC.                                       *)
EXTENDS XpcConnection
=============================================================================
