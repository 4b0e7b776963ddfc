---------------------------- MODULE MCRawClient -----------------------------
(* Model checking of RawClient: the constants' values are in the .cfg      *)
(* file.                                                                   *)
EXTENDS RawClient
=============================================================================
