---------------------------- MODULE MCStartup -------------------------------
(* Model checking of Startup: the constants' values are in the .cfg        *)
(* file.                                                                   *)
EXTENDS Startup
=============================================================================
