---------------------------- MODULE MCEthRxBare -----------------------------
(* Model checking of EthRxBare: the constants' values are in the .cfg       *)
(* files.                                                                   *)
EXTENDS EthRxBare
=============================================================================
