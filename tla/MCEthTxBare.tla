---------------------------- MODULE MCEthTxBare -----------------------------
(* Model checking of EthTxBare: the constants' values are in the .cfg      *)
(* files.                                                                  *)
EXTENDS EthTxBare

ASSUME BareContexts
=============================================================================
