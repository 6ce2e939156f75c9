----------------------------- MODULE MCVersioned -----------------------------
(* Small instances of Versioned for TLC. *)
EXTENDS Versioned, TLC

CONSTANTS k1, k2, f1, r1

\* Every legal pair of resync policy and history.
AllSetups ==
    {[policy |-> p, history |-> h] : p \in {"replay", "copy", "overwrite"}, h \in BOOLEAN}
        \ {[policy |-> "replay", history |-> TRUE]}
=============================================================================
