---------------------------- MODULE MCNetconnApps ---------------------------
(* Model checking of NetconnApps: the constants' values are in the .cfg    *)
(* file.                                                                   *)
EXTENDS NetconnApps
=============================================================================
