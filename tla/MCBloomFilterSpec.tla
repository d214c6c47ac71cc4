-------------------------- MODULE MCBloomFilterSpec --------------------------
(* Items are named by their two digests, so that every pair of small digests *)
(* occurs; ten bits take two bytes, the last of them partly used.            *)
EXTENDS BloomFilterSpec

MCItems == {0, 7, 8, 9} \X {0, 1, 8}
MCHashOne == [item \in MCItems |-> item[1]]
MCHashTwo == [item \in MCItems |-> item[2]]
=============================================================================
