---------------------------- MODULE MCDeployment ----------------------------
(***************************************************************************)
(* The networks and contents of MCServer, and one query.                   *)
(***************************************************************************)
EXTENDS Deployment

CONSTANTS n1, n2, a4, b4, c6, onlyA, onlyB, dual

MCListenIps ==
    [c \in Content |-> CASE c = onlyA -> {a4} [] c = onlyB -> {b4}
                         [] c = dual -> {a4, c6}]
=============================================================================
