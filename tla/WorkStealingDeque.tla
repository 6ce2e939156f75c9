------------------------- MODULE WorkStealingDeque -------------------------
(***************************************************************************)
(* Work_stealing_deque (include/ts/detail/work_stealing_deque.h): a        *)
(* bounded Chase-Lev deque.  One owner pushes and takes at the bottom,     *)
(* thieves steal at the top; the last entry is decided by a                *)
(* compare-and-swap on the top index.  Every access to a shared word is an *)
(* action.  Memory is sequentially consistent: the two fences of the code  *)
(* are taken to do what they are there for.                                *)
(***************************************************************************)
EXTENDS Integers

CONSTANTS
    Capacity,       \* the number of cells, mask_ + 1
    Thieves,
    MaxPush         \* bound: how many entries the owner ever offers

ASSUME DequeAssumption == Capacity \in Nat \ {0} /\ MaxPush \in Nat

Entries == 1..MaxPush       \* the entry of the i-th push is i

VARIABLES
    top, bottom,    \* top_, bottom_
    buffer,         \* buffer_: cell -> entry, 0 before the first store
    offered,        \* how many pushes the owner has begun
    owner,          \* the owner's locals: [pc, t, out]
    thief,          \* thief[v]: a thief's locals: [pc, t, out]
    got,            \* got[e]: how often e was handed out
    refused         \* the entries push turned away

dequeVars == <<top, bottom, buffer, offered, owner, thief, got, refused>>

Cell(i) == i % Capacity

DequeInit ==
    /\ top = 0 /\ bottom = 0
    /\ buffer = [i \in 0..(Capacity - 1) |-> 0]
    /\ offered = 0
    /\ owner = [pc |-> "idle", t |-> 0, out |-> 0]
    /\ thief = [v \in Thieves |-> [pc |-> "idle", t |-> 0, out |-> 0]]
    /\ got = [e \in Entries |-> 0]
    /\ refused = {}

Owner(s) == owner' = [owner EXCEPT !.pc = s]
Hand(e)  == got' = [got EXCEPT ![e] = @ + 1]

-----------------------------------------------------------------------------
(* push: owner only *)

\* Mutant: the deque is full one entry too late.
pushOneMore ==
    /\ owner.pc = "idle" /\ offered < MaxPush
    /\ offered' = offered + 1
    /\ IF bottom - top > Capacity
       THEN refused' = refused \cup {offered + 1} /\ UNCHANGED owner
       ELSE Owner("store") /\ UNCHANGED refused
    /\ UNCHANGED <<top, bottom, buffer, thief, got>>

\* Read the top; a full deque refuses the entry.
push ==
    /\ owner.pc = "idle" /\ offered < MaxPush
    /\ offered' = offered + 1
    /\ IF bottom - top > Capacity - 1
       THEN refused' = refused \cup {offered + 1} /\ UNCHANGED owner
       ELSE Owner("store") /\ UNCHANGED refused
    /\ UNCHANGED <<top, bottom, buffer, thief, got>>

push_store ==
    /\ owner.pc = "store"
    /\ buffer' = [buffer EXCEPT ![Cell(bottom)] = offered]
    /\ Owner("publish")
    /\ UNCHANGED <<top, bottom, offered, thief, got, refused>>

push_publish ==
    /\ owner.pc = "publish"
    /\ bottom' = bottom + 1
    /\ Owner("idle")
    /\ UNCHANGED <<top, buffer, offered, thief, got, refused>>

-----------------------------------------------------------------------------
(* take: owner only *)

\* Claim the bottom entry by lowering the bottom index ...
take ==
    /\ owner.pc = "idle"
    /\ bottom' = bottom - 1
    /\ Owner("take")
    /\ UNCHANGED <<top, buffer, offered, thief, got, refused>>

\* Mutant: the last entry is taken without a race for it.
take_topNoRace ==
    /\ owner.pc = "take"
    /\ \/ /\ top <= bottom
          /\ Hand(buffer[Cell(bottom)]) /\ Owner("idle")
       \/ top > bottom /\ Owner("restore") /\ UNCHANGED got
    /\ UNCHANGED <<top, bottom, buffer, offered, thief, refused>>

\* ... then read the top: more than one entry, the last one, or none.
take_top ==
    /\ owner.pc = "take"
    /\ \/ /\ top < bottom
          /\ Hand(buffer[Cell(bottom)]) /\ Owner("idle")
       \/ /\ top = bottom
          /\ owner' = [pc |-> "take_cas", t |-> top, out |-> buffer[Cell(bottom)]]
          /\ UNCHANGED got
       \/ top > bottom /\ Owner("restore") /\ UNCHANGED got
    /\ UNCHANGED <<top, bottom, buffer, offered, thief, refused>>

\* The last entry goes to whoever moves the top.
take_cas ==
    /\ owner.pc = "take_cas"
    /\ \/ top = owner.t /\ top' = top + 1 /\ Hand(owner.out)
       \/ top # owner.t /\ UNCHANGED <<top, got>>
    /\ owner' = [pc |-> "restore", t |-> 0, out |-> 0]
    /\ UNCHANGED <<bottom, buffer, offered, thief, refused>>

\* An empty or a lost take, and the take of the last entry, put the bottom index back.
take_restore ==
    /\ owner.pc = "restore"
    /\ bottom' = bottom + 1
    /\ Owner("idle")
    /\ UNCHANGED <<top, buffer, offered, thief, got, refused>>

-----------------------------------------------------------------------------
(* steal: any other thread *)

steal(v) ==
    /\ thief[v].pc = "idle"
    /\ thief' = [thief EXCEPT ![v] = [pc |-> "bottom", t |-> top, out |-> 0]]
    /\ UNCHANGED <<top, bottom, buffer, offered, owner, got, refused>>

Home == [pc |-> "idle", t |-> 0, out |-> 0]

steal_bottom(v) ==
    /\ thief[v].pc = "bottom"
    /\ thief' = [thief EXCEPT ![v] = IF @.t < bottom THEN [@ EXCEPT !.pc = "read"] ELSE Home]
    /\ UNCHANGED <<top, bottom, buffer, offered, owner, got, refused>>

\* The entry is read before it is won.
steal_read(v) ==
    /\ thief[v].pc = "read"
    /\ thief' = [thief EXCEPT ![v].out = buffer[Cell(thief[v].t)], ![v].pc = "cas"]
    /\ UNCHANGED <<top, bottom, buffer, offered, owner, got, refused>>

steal_cas(v) ==
    /\ thief[v].pc = "cas"
    /\ \/ top = thief[v].t /\ top' = top + 1 /\ Hand(thief[v].out)
       \/ top # thief[v].t /\ UNCHANGED <<top, got>>
    /\ thief' = [thief EXCEPT ![v] = Home]
    /\ UNCHANGED <<bottom, buffer, offered, owner, refused>>

-----------------------------------------------------------------------------

DequeNext ==
    \/ push \/ push_store \/ push_publish
    \/ take \/ take_top \/ take_cas \/ take_restore
    \/ \E v \in Thieves : steal(v) \/ steal_bottom(v) \/ steal_read(v) \/ steal_cas(v)

DequeSpec == DequeInit /\ [][DequeNext]_dequeVars

-----------------------------------------------------------------------------
(* Properties *)

\* Every variable keeps its type; the bottom index drops below zero by one at most,
\* inside a take of an empty deque.
TypeOK ==
    /\ top \in Nat /\ bottom \in Nat \cup {-1}
    /\ buffer \in [0..(Capacity - 1) -> 0..MaxPush]
    /\ offered \in 0..MaxPush /\ refused \subseteq Entries
    /\ owner.pc \in {"idle", "store", "publish", "take", "take_cas", "restore"}
    /\ owner.t \in Nat /\ owner.out \in 0..MaxPush
    /\ thief \in [Thieves -> [pc : {"idle", "bottom", "read", "cas"}, t : Nat, out : 0..MaxPush]]
    /\ got \in [Entries -> Nat]

\* The indices that still belong to the deque; a take under way has not yet won its own.
Live == top..(IF owner.pc \in {"take", "take_cas"} THEN bottom ELSE bottom - 1)

\* The pushes that have been published.
Published == IF owner.pc \in {"store", "publish"} THEN offered - 1 ELSE offered

\* Exactly once: every published entry is either in one cell of the deque or has been
\* handed out once, to the owner or to a thief, though a thief reads its cell before
\* it wins it and the owner may have gone round the buffer meanwhile.
ExactlyOnce ==
    TypeOK /\ \A e \in Entries :
        got[e] + (IF \E i \in Live : buffer[Cell(i)] = e THEN 1 ELSE 0)
            = IF e <= Published /\ e \notin refused THEN 1 ELSE 0

\* A thief is given the oldest entry: when a steal wins its compare-and-swap, no entry
\* left in the deque was pushed before the one it read.
OldestStolen ==
    [][\A v \in Thieves :
        thief[v].pc = "cas" /\ thief'[v].pc = "idle" /\ top' # top =>
            \A i \in Live : buffer[Cell(i)] >= thief[v].out]_dequeVars
=============================================================================
