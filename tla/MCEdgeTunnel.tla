---------------------------- MODULE MCEdgeTunnel ----------------------------
EXTENDS EdgeTunnel, TLC

CONSTANTS r1, r2, t1, t2, t3

TwoReplicas == {r1, r2}
OneReplica == {r1}
ThreeTunnels == {t1, t2, t3}
TwoTunnels == {t1, t2}
OneTunnel == {t1}
NoReaders == {}

\* Replicas are interchangeable, and so are sockets.
Symmetry == Permutations(Replicas) \cup Permutations(Tunnels)
=============================================================================
