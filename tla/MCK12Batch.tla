----------------------------- MODULE MCK12Batch -----------------------------
EXTENDS K12Batch

(* One chunk, the seam between one and two, and last chunks of each length. *)
MCLengths == {0, 4, 5, 8, 9, 10}
=============================================================================
