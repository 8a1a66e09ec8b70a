--------------------------- MODULE MCFacebookGates ---------------------------
(* Small instances of FacebookGates for TLC.                                *)
EXTENDS FacebookGates, TLC

Symmetry ==
    Permutations(Nodes) \cup Permutations(Requests) \cup Permutations(Admins)
        \cup Permutations(GateIds) \cup Permutations(Pages) \cup Permutations(Peers)
=============================================================================
