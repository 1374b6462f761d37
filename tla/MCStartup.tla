----------------------------- MODULE MCStartup -----------------------------
(***************************************************************************)
(* Two invocations, one of which may find what the other left behind or    *)
(* start beside it, and two addresses, so that a process may hold one and  *)
(* lack the other.                                                         *)
(***************************************************************************)
EXTENDS StartupProps

CONSTANTS p1, p2, a, b
=============================================================================
