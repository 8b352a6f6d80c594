---------------------------- MODULE MCTunTapLinux ---------------------------
(***************************************************************************)
(* TunTapLinux on small instances for TLC.                                 *)
(***************************************************************************)
EXTENDS TunTapLinux, TLC

CONSTANTS h1, h2, i1, i2

IfSymmetry == Permutations(Ifs)
Symmetry == Permutations(Handles) \cup IfSymmetry

\* Descriptors: each instance has a number above its TUNTAP_ID_MAX.
Fds3 == 0..2
Fds4 == 0..3

\* Modes: one type with and without persistence, or every combination of the
\* three flags, the invalid ones included.
TwoModes == {{"TUNNEL"}, {"TUNNEL", "PERSIST"}}
AllModes == SUBSET Flags

\* Units: a negative one, the first, the wild card, one above it.
SomeTuns == {0, TUNTAP_ID_ANY}
AllTuns == {-1, 0, TUNTAP_ID_ANY, TUNTAP_ID_ANY + 1}

\* Names: empty, the longest the kernel keeps, the longest the library takes,
\* too long; or a name that the kernel cuts and one that it gives itself.
LongNames == {<<"user", 0>>, <<"user", 15>>, <<"user", 16>>, <<"user", 17>>}
SomeNames == {<<"user", 16>>, <<"tun", 0>>}
NoNames == {}

NoFaults == {}
IffFaults == {"TUNSETIFF"}
AllFaults == SysCalls

\* Explore up to and including the first theft.
UpToTheft == ~stolen
=============================================================================
