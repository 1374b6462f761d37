------------------------------ MODULE MCServer ------------------------------
(***************************************************************************)
(* Two networks; network files that bind one IPv4 address, the other one,  *)
(* or one of each family, so that addresses move between networks, clash,  *)
(* appear and disappear.                                                   *)
(***************************************************************************)
EXTENDS ServerProps

CONSTANTS n1, n2, a4, b4, c6, onlyA, onlyB, dual

MCListenIps ==
    [c \in Content |-> CASE c = onlyA -> {a4} [] c = onlyB -> {b4}
                         [] c = dual -> {a4, c6}]
=============================================================================
