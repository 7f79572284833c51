------------------------------ MODULE MCProxy ------------------------------
(* Instances of Proxy for TLC. *)
EXTENDS Proxy, TLC

\* Clients and channels are interchangeable in the runs without liveness.
Interchangeable == Permutations(Clients) \union Permutations(Channels)
=============================================================================
