---------------------------- MODULE MC_DriveChain ----------------------------
(***************************************************************************)
(* DriveChain for TLC.  The configurations scale the code's timeouts down: *)
(* the deadman is longer than the mux's hold on manual control, and both   *)
(* are several publish periods.                                            *)
(***************************************************************************)
EXTENDS DriveChain
=============================================================================
