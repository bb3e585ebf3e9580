---------------------------- MODULE MCUdpDisplay ----------------------------
EXTENDS UdpDisplay

(* Grids that differ at every assignment, and blocks that do not always.   *)
MCGridOf(m) == 5 * m.epoch + m.assigned

MCFilled(grid) == {grid % 3}
=============================================================================
