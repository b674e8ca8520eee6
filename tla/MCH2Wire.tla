------------------------------ MODULE MCH2Wire ------------------------------
(* Instances of H2Wire for TLC: one of the two fixed XPC streams and one    *)
(* stream the client opens itself, windows of a few bytes.                  *)
EXTENDS H2Wire
=============================================================================
