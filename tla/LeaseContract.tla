----------------------------- MODULE LeaseContract -----------------------------
(***************************************************************************)
(* What the environment lease of one agent promises to those who run       *)
(* processes in its container: processes belong to the environment that is *)
(* registered, it is replaced only when none of them is left, and one that *)
(* could not be cleaned up is never replaced.  Who asks for a replacement, *)
(* who waits for it and who gives up waiting does not matter here.         *)
(***************************************************************************)
CONSTANTS Environments, Processes, NoEnvironment

VARIABLES
    current,     \* the registered environment
    accepting,   \* it takes new processes
    busy,        \* the processes that run in it, or are about to
    broken       \* a cleanup in it is not confirmed

Init ==
    /\ current = NoEnvironment /\ busy = {}
    /\ ~accepting /\ ~broken

Install(e) ==
    /\ busy = {} /\ ~accepting /\ ~broken
    /\ current' = e /\ accepting' = TRUE
    /\ UNCHANGED <<busy, broken>>

StopAccepting ==
    /\ accepting
    /\ accepting' = FALSE
    /\ UNCHANGED <<current, busy, broken>>

Clear ==
    /\ busy = {} /\ ~accepting /\ ~broken
    /\ current' = NoEnvironment
    /\ UNCHANGED <<accepting, busy, broken>>

Enter(p) ==
    /\ accepting /\ p \notin busy
    /\ busy' = busy \cup {p}
    /\ UNCHANGED <<current, accepting, broken>>

\* The end of a process, or a step towards it.
Leave(p) ==
    /\ p \in busy
    /\ busy' \in {busy, busy \ {p}}
    /\ broken' \in {broken, TRUE}
    /\ UNCHANGED <<current, accepting>>

Next ==
    \/ \E e \in Environments : Install(e)
    \/ StopAccepting
    \/ Clear
    \/ \E p \in Processes : Enter(p) \/ Leave(p)

Spec == Init /\ [][Next]_<<current, accepting, busy, broken>>
================================================================================
