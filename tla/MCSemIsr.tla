------------------------------ MODULE MCSemIsr ------------------------------
(* Model checking of SemIsr: the constants' values are in the .cfg files.  *)
EXTENDS SemIsr
=============================================================================
