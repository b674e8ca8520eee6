----------------------------- MODULE MCH2Demux -----------------------------
(* Instances of H2Demux for TLC.                                            *)
EXTENDS H2Demux
=============================================================================
