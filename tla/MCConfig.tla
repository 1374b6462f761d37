------------------------------ MODULE MCConfig ------------------------------
(***************************************************************************)
(* Three files, two of them for one network. Their texts have a shared     *)
(* name, spelled in two ways, an address used by two containers, several   *)
(* addresses in one entry, servers at both levels, no container at all,    *)
(* and each way in which a line can be wrong or nearly so.                 *)
(***************************************************************************)
EXTENDS ConfigProps, TLC

CONSTANTS n1, n2, f1, f2, f2int, c1, c2, x4, y4, x6, l1, L1, l2, s1, s2, none

MCNetworkOf == (f1 :> n1) @@ (f2 :> n2) @@ (f2int :> n2)

MCWord == {c1, c2, x4, y4, x6, l1, L1, l2, s1, s2, none}
MCLower == [w \in MCWord |-> IF w = L1 THEN l1 ELSE w]

MCText ==
    {<<  <<{x4}>>,       <<{c1}, {x4}, {}, {l1}>>>>,
     <<  <<{x4}, {s2}>>, <<{c2}, {y4}, {x6}, {l1, l2}, {s1}>>>>,
     <<  <<{x4}, {s1}>>, <<{c1}, {x4}, {}, {l2}>>, <<{c2}, {y4}, {}, {L1}, {}>>>>,
     <<  <<{x4, x6}>>,   <<{c2}, {x4}, {}, {l2}, {s2}>>>>,
     <<  <<{x4}, {s1}>> >>,
     \* six columns, the fifth ignored
     <<  <<{x4}>>,       <<{c1}, {x4}, {}, {l1}, {s1}, {s2}>>>>,
     \* rejected: a space at the end of the first line, an address of the
     \* wrong family, three columns, and no line at all
     <<  <<{x4}, {}>>,   <<{c1}, {x4}, {}, {l1}>>>>,
     <<  <<{x4}>>,       <<{c1}, {x4}, {}, {l1}>>, <<{c2}, {x6}, {}, {l2}>>>>,
     <<  <<{x4}>>,       <<{c1}, {x4}, {l1}>>>>,
     <<>>}
=============================================================================
