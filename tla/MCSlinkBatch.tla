---------------------------- MODULE MCSlinkBatch ----------------------------
(***************************************************************************)
(* All batches of four documents with four distances.                      *)
(***************************************************************************)
EXTENDS SlinkBatch

\* A cluster of two needs the medium threshold, one of three the large one, and
\* nothing is bigger; anything goes up to the small threshold; only the sites
\* and the medium threshold restrict.
Limited ==
    [small_threshold |-> 2, medium_threshold |-> 1, large_threshold |-> 0,
     small_cluster_size |-> 1, medium_cluster_size |-> 2, large_cluster_size |-> 3,
     ban_same_hosts |-> FALSE]
Unlimited == [Limited EXCEPT !.small_cluster_size = 4]
Banned == [Limited EXCEPT !.small_cluster_size = 2, !.medium_cluster_size = 4,
                          !.ban_same_hosts = TRUE]
MCConfigs == {Limited, Unlimited, Banned}

MCSitings == {[i \in 0 .. 3 |-> i % 3], [i \in 0 .. 3 |-> i % 2]}
=============================================================================
