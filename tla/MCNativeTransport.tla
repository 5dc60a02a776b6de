-------------------------- MODULE MCNativeTransport --------------------------
(***************************************************************************)
(* A small instance of NativeTransport for TLC.                            *)
(***************************************************************************)
EXTENDS NativeTransport, TLC

CONSTANTS r1, r2
=============================================================================
