--------------------------- MODULE RouteLifecycle ---------------------------
(***************************************************************************)
(* What the operator promises about the life of a Route, without saying    *)
(* how: no caches, no work queue, no steps of Reconcile.                   *)
(*                                                                         *)
(* A Route is admitted, guarded (the finalizer is stored), asked to leave, *)
(* released and gone.  Resources are attached to a guarded Route only, and *)
(* a Route that holds a lease, a resource that no garbage collector looks  *)
(* after, is not released before the lease is given up.                    *)
(***************************************************************************)
EXTENDS Naturals, RouteKeys

CONSTANT Leaky      \* may a Route be released while it still holds a lease?

VARIABLES
    route,      \* route[r]: Nil or [uid, guarded, leaving]
    next,       \* the uid of the next Route
    leases,     \* the uids with a resource outside the namespace of the Route
    owned       \* the uids with a resource that follows its owner

abstractVars == <<route, next, leases, owned>>

Present == {r \in Routes : route[r] # Nil}
Guarded == {route[r].uid : r \in {q \in Present : route[q].guarded}}

Init ==
    /\ route = [r \in Routes |-> Nil]
    /\ next = 0
    /\ leases = {}
    /\ owned = {}

Become(r, state) == route' = [route EXCEPT ![r] = state]

Admit(r) ==
    /\ route[r] = Nil
    /\ Become(r, [uid |-> next, guarded |-> FALSE, leaving |-> FALSE])
    /\ next' = next + 1
    /\ UNCHANGED <<leases, owned>>

Guard(r) ==
    /\ route[r] # Nil
    /\ ~route[r].leaving
    /\ Become(r, [route[r] EXCEPT !.guarded = TRUE])
    /\ UNCHANGED <<next, leases, owned>>

\* A Route that is not guarded may go at once.
Leave(r) ==
    /\ route[r] # Nil
    /\ ~route[r].leaving
    /\ \/ Become(r, [route[r] EXCEPT !.leaving = TRUE])
       \/ ~route[r].guarded /\ Become(r, Nil)
    /\ UNCHANGED <<next, leases, owned>>

\* Resources are attached to guarded Routes; any may be taken away.
Attach ==
    /\ leases' \in SUBSET (leases \cup Guarded)
    /\ owned' \in SUBSET (owned \cup Guarded)
    /\ UNCHANGED <<route, next>>

Release(r) ==
    /\ route[r] # Nil
    /\ route[r].leaving
    /\ route[r].guarded
    /\ Leaky \/ route[r].uid \notin leases
    /\ Become(r, [route[r] EXCEPT !.guarded = FALSE]) \/ Become(r, Nil)
    /\ UNCHANGED <<next, leases, owned>>

\* What else held the Route lets it go.
Vanish(r) ==
    /\ route[r] # Nil
    /\ route[r].leaving
    /\ ~route[r].guarded
    /\ Become(r, Nil)
    /\ UNCHANGED <<next, leases, owned>>

Next ==
    \/ \E r \in Routes : Admit(r) \/ Guard(r) \/ Leave(r) \/ Release(r) \/ Vanish(r)
    \/ Attach

Spec == Init /\ [][Next]_abstractVars

=============================================================================
