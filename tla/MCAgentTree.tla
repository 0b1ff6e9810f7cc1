---------------------------- MODULE MCAgentTree -----------------------------
(***************************************************************************)
(* A root, its child and its grandchild.                                   *)
(***************************************************************************)
EXTENDS AgentTree

CONSTANTS root, child, grandchild

Chain == [a \in {root, child, grandchild} |->
            CASE a = root -> None [] a = child -> root [] OTHER -> child]
=============================================================================
