------------------------ MODULE MCRepositoryResources ------------------------
\* Two clients load one URI and expect the same body; one of them or both
\* may be offline.
EXTENDS RepositoryResources, TLC

Small == "small"
Other == "other"
Large == "large"

MCBodies == {Small, Other, Large}
MCInitialBodies == {Other}
MCDigest == [b \in MCBodies |-> b]
MCOversized == {Large}
Request(offline, expected, ttl) ==
    [offline |-> offline, allowStale |-> TRUE, expected |-> expected, ttl |-> ttl]
MCRequests ==
    {Request(FALSE, Small, 1), Request(TRUE, Small, 1)}

ClientSymmetry == Permutations(Clients)
=============================================================================
