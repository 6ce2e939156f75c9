-------------------------- MODULE ExclusiveAccess --------------------------
(***************************************************************************)
(* What `Guarded<T>` promises its callers, with no pipes, queues, locks or *)
(* counters in it: every submitted access eventually runs its body once,   *)
(* or is cancelled before it starts, and two bodies overlap only if no     *)
(* object they share is written by either of them.                         *)
(***************************************************************************)
CONSTANTS
    Tasks,  \* the accesses a program submits
    Mode    \* Mode[t][p]: how access t uses object p, for the objects p it names

VARIABLE state

Conflict(t, u) ==
    \E p \in DOMAIN Mode[t] \cap DOMAIN Mode[u] :
        Mode[t][p] = "read_write" \/ Mode[u][p] = "read_write"

Init == state = [t \in Tasks |-> "idle"]

Submit(t) ==
    /\ state[t] = "idle"
    /\ state' = [state EXCEPT ![t] = "pending"]

\* A body that finds its objects free may start in the very call that submits
\* it (a held grant taken without waiting).
Begin(t) ==
    /\ state[t] \in {"idle", "pending"}
    /\ \A u \in Tasks \ {t} : state[u] = "running" => ~Conflict(t, u)
    /\ state' = [state EXCEPT ![t] = "running"]

Skip(t) ==
    /\ state[t] = "pending"
    /\ state' = [state EXCEPT ![t] = "done"]

End(t) ==
    /\ state[t] = "running"
    /\ state' = [state EXCEPT ![t] = "done"]

Next == \E t \in Tasks : Submit(t) \/ Begin(t) \/ Skip(t) \/ End(t)

BeginOrSkip(t) == state[t] = "pending" /\ (Begin(t) \/ Skip(t))

SafetySpec == Init /\ [][Next]_state

Spec ==
    /\ SafetySpec
    /\ \A t \in Tasks : SF_state(BeginOrSkip(t)) /\ WF_state(End(t))
=============================================================================
