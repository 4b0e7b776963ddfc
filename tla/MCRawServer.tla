---------------------------- MODULE MCRawServer -----------------------------
(* Model checking of RawServer: the constants' values are in the .cfg      *)
(* file.                                                                   *)
EXTENDS RawServer
=============================================================================
