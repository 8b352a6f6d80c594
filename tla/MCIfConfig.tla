----------------------------- MODULE MCIfConfig -----------------------------
(***************************************************************************)
(* IfConfig on small instances for TLC.                                    *)
(***************************************************************************)
EXTENDS IfConfig, TLC

Nothing == {}
SomeMtus == {67, 1400}
FaultsOfAttributes == {"SIOCSIFMTU", "SIOCSIFFLAGS", "SIOCSIFADDR", "SIOCSIFNETMASK"}
FaultsOfIPv6 == {"socket", "SIOCGIFINDEX", "SIOCSIFADDR6"}
SomeNetmasks == {0, 1, W - 1, W, W + 1, 4 * W, 4 * W + 1}
EveryNetmask == -1..(4 * W + 1)
TouchNames == {"name"}
TouchAttributes == {"flags", "hwaddr", "addr"}
Symmetry == Permutations(Handles) \cup Permutations(Ifs) \cup Permutations(IfNames)
=============================================================================
