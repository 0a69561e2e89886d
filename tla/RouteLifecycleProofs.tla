------------------------ MODULE RouteLifecycleProofs ------------------------
(***************************************************************************)
(* What the promise of RouteLifecycle is worth: without leaks, a resource  *)
(* that no garbage collector looks after always has a guarded Route.       *)
(***************************************************************************)
EXTENDS RouteLifecycle, TLAPS

\* What a Route may be here.
Lives == [uid: Nat, guarded: BOOLEAN, leaving: BOOLEAN]

LivesOK ==
    /\ route \in [Routes -> Lives \cup {Nil}]
    /\ next \in Nat

\* A uid is given out once.
UidsOnce ==
    /\ \A r \in Present : route[r].uid < next
    /\ \A r, q \in Present : route[r].uid = route[q].uid => r = q

\* Every lease is held by a Route that is there and guarded.
Covered == leases \subseteq Guarded

LifeInv == LivesOK /\ UidsOnce /\ Covered

\* The lease of a guarded Route survives what happens to another Route.
LEMMA BecomeKeepsOthers ==
    ASSUME LifeInv, NEW r \in Routes, NEW state \in Lives \cup {Nil}, Become(r, state),
           Nil \notin Lives,
           UNCHANGED <<next, leases>>,
           route[r] # Nil,
           state # Nil => state.uid = route[r].uid,
           route[r].guarded => (state # Nil /\ state.guarded) \/ route[r].uid \notin leases
    PROVE  LifeInv'
<1>1. /\ route \in [Routes -> Lives \cup {Nil}] /\ next \in Nat
      /\ route' = [route EXCEPT ![r] = state]
  BY DEF LifeInv, LivesOK, Become
<1>2. route'[r] = state /\ \A q \in Routes : q # r => route'[q] = route[q]
  BY <1>1
<1>3. LivesOK'
  BY <1>1 DEF LivesOK
<1>4. UidsOnce'
  BY <1>1, <1>2 DEF LifeInv, UidsOnce, Present
<1>5. Covered'
  <2> SUFFICES ASSUME NEW u \in leases
               PROVE  \E q \in Routes : route'[q] # Nil /\ route'[q].guarded /\ route'[q].uid = u
    BY DEF Covered, Guarded, Present
  <2>1. PICK q \in Routes : route[q] # Nil /\ route[q].guarded /\ route[q].uid = u
    BY DEF LifeInv, Covered, Guarded, Present
  <2>2. CASE q = r
    BY <1>2, <2>1, <2>2
  <2>3. CASE q # r
    BY <1>2, <2>1, <2>3
  <2>4. QED
    BY <2>2, <2>3
<1>6. QED
  BY <1>3, <1>4, <1>5 DEF LifeInv

\* Every step keeps the leases covered.
LEMMA LifeStep ==
    ASSUME ~Leaky, Nil \notin Lives, LifeInv, [Next]_abstractVars
    PROVE  LifeInv'
<1>1. route \in [Routes -> Lives \cup {Nil}] /\ next \in Nat
  BY DEF LifeInv, LivesOK
<1>2. ASSUME NEW r \in Routes, Admit(r) PROVE LifeInv'
  <2> DEFINE new == [uid |-> next, guarded |-> FALSE, leaving |-> FALSE]
  <2>1. new \in Lives /\ new # Nil /\ new.uid = next /\ ~new.guarded
    <3>1. new \in Lives
      BY <1>1 DEF Lives
    <3>2. new.uid = next /\ new.guarded = FALSE
      OBVIOUS
    <3>3. QED
      BY <3>1, <3>2
  <2>2. /\ route' = [route EXCEPT ![r] = new] /\ next' = next + 1
        /\ leases' = leases /\ route[r] = Nil
    BY <1>2 DEF Admit, Become
  <2> HIDE DEF new
  <2>3. route'[r] = new /\ \A q \in Routes : q # r => route'[q] = route[q]
    BY <1>1, <2>2
  <2>4. LivesOK'
    BY <1>1, <2>1, <2>2 DEF LivesOK
  <2>5. \A q \in Routes : route[q] # Nil => route[q].uid \in Nat
    BY <1>1 DEF Lives
  <2>6. UidsOnce'
    BY <1>1, <2>1, <2>2, <2>3, <2>5 DEF LifeInv, UidsOnce, Present
  <2>7. Covered'
    BY <2>1, <2>2, <2>3 DEF LifeInv, Covered, Guarded, Present
  <2>8. QED
    BY <2>4, <2>6, <2>7 DEF LifeInv
<1>3. ASSUME NEW r \in Routes, Guard(r) PROVE LifeInv'
  <2> DEFINE new == [route[r] EXCEPT !.guarded = TRUE]
  <2>1. route[r] \in Lives /\ route[r] # Nil
    BY <1>1, <1>3 DEF Guard
  <2>2. new \in Lives /\ new.uid = route[r].uid /\ new.guarded
    BY <2>1 DEF Lives
  <2>3. Become(r, new) /\ UNCHANGED <<next, leases>>
    BY <1>3 DEF Guard
  <2> HIDE DEF new
  <2>4. QED
    BY <2>1, <2>2, <2>3, BecomeKeepsOthers
<1>4. ASSUME NEW r \in Routes, Leave(r) PROVE LifeInv'
  <2> DEFINE new == [route[r] EXCEPT !.leaving = TRUE]
  <2>1. route[r] \in Lives /\ route[r] # Nil /\ UNCHANGED <<next, leases>>
    BY <1>1, <1>4 DEF Leave
  <2>2. new \in Lives /\ new.uid = route[r].uid /\ new.guarded = route[r].guarded
    BY <2>1 DEF Lives
  <2>3. Become(r, new) \/ (~route[r].guarded /\ Become(r, Nil))
    BY <1>4 DEF Leave
  <2> HIDE DEF new
  <2>4. QED
    BY <2>1, <2>2, <2>3, BecomeKeepsOthers
<1>5. ASSUME NEW r \in Routes, Release(r) PROVE LifeInv'
  <2> DEFINE new == [route[r] EXCEPT !.guarded = FALSE]
  <2>1. /\ route[r] \in Lives /\ route[r] # Nil /\ UNCHANGED <<next, leases>>
        /\ route[r].uid \notin leases
    BY <1>1, <1>5 DEF Release
  <2>2. new \in Lives /\ new.uid = route[r].uid
    BY <2>1 DEF Lives
  <2>3. Become(r, new) \/ Become(r, Nil)
    BY <1>5 DEF Release
  <2> HIDE DEF new
  <2>4. QED
    BY <2>1, <2>2, <2>3, BecomeKeepsOthers
<1>6. ASSUME NEW r \in Routes, Vanish(r) PROVE LifeInv'
  BY <1>6, BecomeKeepsOthers DEF Vanish
<1>7. CASE Attach
  BY <1>7 DEF Attach, LifeInv, LivesOK, UidsOnce, Covered, Guarded, Present
<1>8. CASE UNCHANGED abstractVars
  BY <1>8 DEF abstractVars, LifeInv, LivesOK, UidsOnce, Covered, Guarded, Present
<1>9. QED
  BY <1>2, <1>3, <1>4, <1>5, <1>6, <1>7, <1>8 DEF Next

\* A Route that is not leaky holds its leases as long as they exist: a resource
\* that no garbage collector looks after never outlives the Route it is for.
THEOREM LeasesCovered ==
    ASSUME ~Leaky, Nil \notin Lives
    PROVE  Spec => []Covered
<1>1. Init => LifeInv
  BY DEF Init, LifeInv, LivesOK, UidsOnce, Covered, Guarded, Present
<1>2. LifeInv /\ [Next]_abstractVars => LifeInv'
  BY LifeStep
<1>3. LifeInv => Covered
  BY DEF LifeInv
<1>4. QED
  BY <1>1, <1>2, <1>3, PTL DEF Spec

=============================================================================
