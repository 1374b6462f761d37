---------------------------- MODULE ListenerSet ----------------------------
(***************************************************************************)
(* What the supervisor of aardvark-dns promises about its listeners,       *)
(* without saying how: a target set changes under it, and listeners open   *)
(* and close one at a time towards the target. A listener opens only if it *)
(* is wanted and its address is free, closes only if it is not wanted (or  *)
(* fails), the process is ready only once every wanted listener is open,   *)
(* and ends in good order only when nothing is wanted and nothing is open. *)
(***************************************************************************)
CONSTANTS
    Listener,    \* the (network, address) pairs
    Address,     \* [Listener -> the address it binds]
    MayFail,     \* listeners may fail on their own
    MayPanic     \* so may the process

VARIABLES
    target,      \* the listeners the configuration asks for
    open,        \* the listeners that run
    status       \* "starting", "serving", "stopped" or "failed"

lvars == <<target, open, status>>

Alive == status \in {"starting", "serving"}

LInit == target = {} /\ open = {} /\ status = "starting"

Retarget ==
    /\ Alive
    /\ target' \in SUBSET Listener
    /\ UNCHANGED <<open, status>>

Open(k) ==
    /\ Alive
    /\ k \in target \ open
    /\ \A j \in open : Address[j] # Address[k]
    /\ open' = open \cup {k}
    /\ UNCHANGED <<target, status>>

Close(k) ==
    /\ Alive
    /\ k \in open \ target
    /\ open' = open \ {k}
    /\ UNCHANGED <<target, status>>

Fail(k) ==
    /\ MayFail
    /\ Alive
    /\ k \in open
    /\ open' = open \ {k}
    /\ UNCHANGED <<target, status>>

BecomeReady ==
    /\ status = "starting"
    /\ open = target \/ MayFail
    /\ status' = "serving"
    /\ UNCHANGED <<target, open>>

\* In good order: nothing is wanted any more and nothing runs.
Stop ==
    /\ Alive
    /\ target = {}
    /\ open = {}
    /\ status' = "stopped"
    /\ UNCHANGED <<target, open>>

\* In error: only before it was ready, or when nothing is wanted, unless
\* the process may panic.
Abort ==
    /\ \/ status = "starting"
       \/ status = "serving" /\ (target = {} \/ MayPanic)
    /\ status' = "failed"
    /\ open' = {}
    /\ UNCHANGED target

LNext ==
    \/ Retarget
    \/ \E k \in Listener : Open(k) \/ Close(k) \/ Fail(k)
    \/ BecomeReady
    \/ Stop
    \/ Abort

\* A listener that is not wanted, and stays so, closes in the end.
LSafeSpec == LInit /\ [][LNext]_lvars
LSpec == LSafeSpec /\ \A k \in Listener : WF_lvars(Close(k))
=============================================================================
