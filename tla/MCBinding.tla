------------------------------ MODULE MCBinding -----------------------------
(***************************************************************************)
(* Binding on a small instance for TLC.                                    *)
(***************************************************************************)
EXTENDS Binding, TLC
CONSTANTS h1, h2, h3, i1, i2, o1, o2

Symmetry == Permutations(Handles) \cup Permutations(Ifs) \cup Permutations(Objs)

\* Modes: valid with and without persistence, none and both types.
SomeModes == {{"TUNNEL"}, {"TUNNEL", "PERSIST"}, {"PERSIST"}, {"TUNNEL", "ETHERNET"}}
AllIds == {-1, 0, TUNTAP_ID_ANY, TUNTAP_ID_ANY + 1}
=============================================================================
