------------------------------ MODULE MCEthRx -------------------------------
(* Model checking of EthRx: the constants' values are in the .cfg files.   *)
EXTENDS EthRx, TLC

(* RX_POOL's elements are interchangeable; only for runs without liveness. *)
PoolSymmetry == Permutations(Pbufs)
=============================================================================
