--------------------------- MODULE MCUdpHandshake ---------------------------
(***************************************************************************)
(* UdpHandshake with the clients of the .cfg files: no symmetry, because   *)
(* the run checks liveness.                                                *)
(***************************************************************************)
EXTENDS UdpHandshake
=============================================================================
