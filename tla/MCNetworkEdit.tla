--------------------------- MODULE MCNetworkEdit ---------------------------
(* Constants and the bounds of TLC's runs of the network editing modules. *)
EXTENDS NetworkEditRefinement, TLC

Symmetry ==
    Permutations(Request) \cup Permutations(Answer) \cup Permutations(Device)
        \cup Permutations(Profile) \cup Permutations(Config)
=============================================================================
