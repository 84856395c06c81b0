---------------------------- MODULE MCDiskCache ----------------------------
(* Model checking of the cache: two cards and two hosts, any card at any host. *)
EXTENDS DiskCache, TLC

\* Nothing distinguishes the cards, or the hosts, and every property checked is one
\* of states and steps.
Alike == Permutations(Cards) \cup Permutations(Hosts)
=============================================================================
