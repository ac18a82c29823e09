------------------------------ MODULE MCEthArp ------------------------------
(***************************************************************************)
(* An instance of EthArp for TLC: three hosts and a table of two entries,  *)
(* so that entries are recycled; one host changes its hardware address.    *)
(***************************************************************************)
EXTENDS EthArp

CONSTANTS yls, yv, pc, m1, m2, m3

MCClaims == {<<yls, m1>>, <<yv, m2>>, <<yv, m3>>, <<pc, m3>>}
=============================================================================
