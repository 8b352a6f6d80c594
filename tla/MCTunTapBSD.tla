---------------------------- MODULE MCTunTapBSD -----------------------------
(***************************************************************************)
(* TunTapBSD on small instances for TLC.                                   *)
(***************************************************************************)
EXTENDS TunTapBSD, FiniteSets, TLC

CONSTANTS h1, h2

Symmetry == Permutations(Handles)

AllSystems == {"OpenBSD", "NetBSD", "FreeBSD", "Darwin"}

\* One tun, and the taps of the units that the scans try and of the one after
\* them: a persistent start takes no wild card.
Nodes == {<<"tun", 0>>, <<"tap", 0>>, <<"tap", 1>>, <<"tap", 2>>}

SomeModes == {{"TUNNEL", "PERSIST"}, {"ETHERNET", "PERSIST"}, {"ETHERNET"}}
SomeTuns == {0, TUNTAP_ID_MAX, TUNTAP_ID_ANY}
SomeNames == {<<"tun", 1>>}
SomeFaults == {"malloc", "SIOCGIFFLAGS"}
Fds4 == 0..3

\* Explore up to the first theft, with at most one interface that nobody has
\* open, and one lost descriptor of one handle that is alone.
Losses == {f \in Fds : \E h \in Handles : Lost(h, f)}
Alive == {h \in Handles : pc[h] # "null"}
Leftovers == {i \in Ifs : Exists(i) /\ ~Attached(i)}
Bounds == /\ ~stolen /\ ~undone /\ Cardinality(Leftovers) <= 1
          /\ \/ Losses = {}
             \/ Cardinality(Losses) = 1 /\ Cardinality(Alive) <= 1
=============================================================================
