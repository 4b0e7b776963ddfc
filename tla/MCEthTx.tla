------------------------------ MODULE MCEthTx -------------------------------
(* Model checking of EthTx: the constants' values are in the .cfg file.    *)
EXTENDS EthTx
=============================================================================
