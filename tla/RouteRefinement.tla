--------------------------- MODULE RouteRefinement ---------------------------
(***************************************************************************)
(* The controller implements the promised life of a Route.  The mapping    *)
(* forgets everything but the objects at the API server: the finalizer is  *)
(* the guard, the deletionTimestamp the wish to leave, and the children    *)
(* are the resources, told apart by whether they have an ownerReference.   *)
(***************************************************************************)
EXTENDS RouteController

\* Where the cleanup may miss a child: its errors are dropped, its Lists come
\* from a cache, and it looks only beside the Gateway the Route names now.
CleanupMayMiss ==
    \/ Budget["fault"] > 0
    \/ ChildLag
    \/ \E g, h \in GatewayRefs : g.ns # h.ns

Uids(ids) == { children[id].uid : id \in { i \in ids : children[i] # Nil } }

\* What is left of a Route.
Lives == [uid: Nat, guarded: BOOLEAN, leaving: BOOLEAN]
Life(o) ==
    IF o = Nil THEN Nil
    ELSE [uid |-> o.uid, guarded |-> o.finalizer, leaving |-> o.deleting]

ASSUME NilIsNoLife == Nil \notin Lives

Lifecycle == INSTANCE RouteLifecycle WITH
    Leaky  <- CleanupMayMiss,
    route  <- [r \in Routes |-> Life(routes[r])],
    next   <- spent["create"],
    leases <- Uids({id \in ChildIds : ~Owned(id)}),
    owned  <- Uids({id \in ChildIds : Owned(id)})

\* Every behaviour of the controller, its caches, restarts, retries and lost
\* answers included, is a life that RouteLifecycle allows: no child before the
\* finalizer, no release before the children of the gateway namespace are gone.
ImplementsLifecycle == Lifecycle!Spec

=============================================================================
