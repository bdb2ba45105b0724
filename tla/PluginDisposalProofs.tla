------------------------ MODULE PluginDisposalProofs ------------------------
(***************************************************************************)
(* A settled plugin tree is torn down consumers first, and only rows that  *)
(* fight exhaust the rounds of a settle, for every set of rows, children   *)
(* and services and every composition.                                     *)
(*                                                                         *)
(* What Root.dispose relies on is its activation order.  The invariant     *)
(* says what that order knows of the tree (Ordered), and, like Good, is    *)
(* shown of each operation on a tree; the fiber being refreshed is exempt  *)
(* (X) from the part about the epoch it loaded with.  The rounds are       *)
(* bounded by the fibers a settle is done with (Quiet).                    *)
(***************************************************************************)
EXTENDS PluginTreeProofs, FiniteSetTheorems

-----------------------------------------------------------------------------
(* What the activation order knows *)

\* An active fiber has its place in the order, a child behind its parent.
Placed(T) ==
    \A f \in Fiber : T.state[f] = "active" =>
        f \in T.after[f] /\ (f \notin Row => Parent[f] \in T.after[f])

\* No two fibers are before each other.
Linear(T) == \A f, g \in Fiber : f \in T.after[g] /\ g \in T.after[f] => f = g

\* A registration a fiber loaded with and that is still current has an owner; a
\* fiber only ever owns what it declares.
Registrations(T) ==
    /\ \A g \in Fiber, s \in Service : T.epoch[g][s] = "live" => T.owner[s] # Nobody
    /\ \A s \in Service : T.owner[s] # Nobody => s \in composition.provide[T.owner[s]]

\* An active fiber is behind the active owner of what it loaded with.
Behind(T, g) ==
    T.state[g] = "active" =>
        \A s \in Service :
            T.epoch[g][s] = "live" /\ T.state[T.owner[s]] = "active" =>
                T.owner[s] \in T.after[g]

Ordered(T, X) ==
    /\ Placed(T) /\ Linear(T) /\ Registrations(T)
    /\ \A g \in Fiber \ X : Behind(T, g)

-----------------------------------------------------------------------------
(* What keeps it *)

\* The order is about states, epochs, owners and places only.
LEMMA OrderedFrame ==
    ASSUME NEW T, NEW U, NEW X, Ordered(T, X), U.state = T.state, U.epoch = T.epoch,
           U.owner = T.owner, U.after = T.after
    PROVE  Ordered(U, X)
BY DEF Ordered, Placed, Linear, Registrations, Behind

\* A fiber that is not active need not be exempt.
LEMMA OrderedClose ==
    ASSUME NEW T, NEW f, Ordered(T, {f}), T.state[f] # "active"
    PROVE  Ordered(T, {})
BY DEF Ordered, Behind

\* A fiber may stop being active.
LEMMA SetStateOrdered ==
    ASSUME NEW T \in Tree, NEW X, NEW f \in Fiber, NEW st \in State \ {"active"},
           Ordered(T, X)
    PROVE  Ordered(SetState(T, f, st), X) /\ SetState(T, f, st) \in Tree
<1> DEFINE U == SetState(T, f, st)
<1>1. /\ U.state = [T.state EXCEPT ![f] = st] /\ U.epoch = T.epoch /\ U.owner = T.owner
      /\ U.after = T.after
  BY DEF Tree, SetState
<1>2. T.state \in [Fiber -> State] /\ T.owner \in [Service -> {Nobody} \cup Fiber]
  BY Fields
<1>3. \A g : U.state[g] = "active" => T.state[g] = "active"
  BY <1>1, <1>2
<1>4. U \in Tree
  BY StateUpdate DEF SetState
<1> HIDE DEF U
<1>5. Ordered(U, X)
  BY <1>1, <1>3 DEF Ordered, Placed, Linear, Registrations, Behind
<1>6. QED
  BY <1>4, <1>5 DEF U

\* The exempt fiber may take the epoch of the registrations.
LEMMA SetEpochOrdered ==
    ASSUME NEW T \in Tree, NEW f \in Fiber, NEW e \in [Service -> Serial],
           Ordered(T, {f}), \A s \in Service : e[s] = "live" => T.owner[s] # Nobody
    PROVE  /\ Ordered([T EXCEPT !.epoch[f] = e], {f})
           /\ [T EXCEPT !.epoch[f] = e] \in Tree
           /\ [T EXCEPT !.epoch[f] = e].state = T.state
<1> DEFINE U == [T EXCEPT !.epoch[f] = e]
<1>1. /\ U.state = T.state /\ U.epoch = [T.epoch EXCEPT ![f] = e] /\ U.owner = T.owner
      /\ U.after = T.after
  BY DEF Tree
<1>2. T.epoch \in [Fiber -> [Service -> Serial]]
  BY Fields
<1>3. U \in Tree
  BY EpochUpdate
<1> HIDE DEF U
<1>4. U.epoch[f] = e /\ \A g \in Fiber \ {f} : U.epoch[g] = T.epoch[g]
  BY <1>1, <1>2
<1>5. Registrations(U)
  BY <1>1, <1>4 DEF Ordered, Registrations
<1>6. Ordered(U, {f})
  BY <1>1, <1>4, <1>5 DEF Ordered, Placed, Linear, Behind
<1>7. QED
  BY <1>1, <1>3, <1>6 DEF U

\* Withdrawing registrations leaves no live serial of them behind.
LEMMA WithdrawOrdered ==
    ASSUME NEW T \in Tree, NEW S \in SUBSET Service, NEW X, Ordered(T, X)
    PROVE  Ordered(Withdraw(T, S), X)
<1> DEFINE W == Withdraw(T, S)
<1>1. /\ W.state = T.state /\ W.after = T.after
      /\ W.owner = [s \in Service |-> IF s \in S THEN Nobody ELSE T.owner[s]]
      /\ W.epoch = [f \in Fiber |-> [s \in Service |->
            IF s \in S /\ T.epoch[f][s] = "live" THEN "gone" ELSE T.epoch[f][s]]]
  BY WithdrawFields
<1> HIDE DEF W
<1>2. \A g \in Fiber, s \in Service : W.epoch[g][s] = "live" =>
          s \notin S /\ T.epoch[g][s] = "live" /\ W.owner[s] = T.owner[s]
  BY <1>1
<1>3. Registrations(W)
  BY <1>1, <1>2 DEF Ordered, Registrations
<1>4. \A g \in Fiber \ X : Behind(W, g)
  BY <1>1, <1>2 DEF Ordered, Behind
<1>5. QED
  BY <1>1, <1>3, <1>4 DEF Ordered, Placed, Linear, W

\* The places of the fibers that are left, once some are forgotten.
LEMMA ForgetAfter ==
    ASSUME NEW T \in Tree, NEW F \in SUBSET Fiber
    PROVE  Forget(T, F).after = [f \in Fiber |-> IF f \in F THEN {} ELSE T.after[f] \ F]
BY DEF Tree, Forget

\* Fibers without active children can be forgotten.
LEMMA ForgetOrdered ==
    ASSUME NEW T \in Tree, NEW F \in SUBSET Fiber, NEW X, Ordered(T, X),
           \A k \in Fiber \ Row : T.state[k] = "active" /\ Parent[k] \in F => k \in F
    PROVE  Ordered(Forget(T, F), X)
<1> DEFINE G == Forget(T, F)
<1>1. /\ G.owner = T.owner
      /\ G.state = [f \in Fiber |-> IF f \in F THEN "absent" ELSE T.state[f]]
      /\ G.epoch = [f \in Fiber |-> IF f \in F THEN INACTIVE ELSE T.epoch[f]]
      /\ G.after = [f \in Fiber |-> IF f \in F THEN {} ELSE T.after[f] \ F]
  BY ForgetFields, ForgetAfter
<1>2. T.owner \in [Service -> {Nobody} \cup Fiber] /\ T.state \in [Fiber -> State]
  BY Fields
<1> HIDE DEF G
<1>3. \A g \in Fiber, s \in Service : G.epoch[g][s] = "live" =>
          g \notin F /\ T.epoch[g][s] = "live"
  BY <1>1 DEF INACTIVE
<1>4. \A g \in Fiber : G.state[g] = "active" => g \notin F /\ T.state[g] = "active"
  BY <1>1
<1>5. Placed(G)
  BY <1>1, <1>4 DEF Ordered, Placed
<1>6. Linear(G)
  BY <1>1 DEF Ordered, Linear
<1>7. Registrations(G)
  BY <1>1, <1>3 DEF Ordered, Registrations
<1>8. ASSUME NEW g \in Fiber \ X PROVE Behind(G, g)
  <2> SUFFICES ASSUME G.state[g] = "active", NEW s \in Service, G.epoch[g][s] = "live",
                      G.state[G.owner[s]] = "active"
               PROVE  G.owner[s] \in G.after[g]
    BY DEF Behind
  <2>1. T.owner[s] \in Fiber
    BY <1>1, <1>2, <1>3 DEF Ordered, Registrations
  <2>2. T.owner[s] \in T.after[g] /\ T.owner[s] \notin F /\ g \notin F
    BY <1>1, <1>3, <1>4, <2>1 DEF Ordered, Behind
  <2>3. QED
    BY <1>1, <2>2
<1>9. QED
  BY <1>5, <1>6, <1>7, <1>8 DEF Ordered, G

\* A fiber whose effects are undone has none left to undo, and nothing else changes.
LEMMA UnwoundFields ==
    ASSUME NEW T \in Tree, NEW f \in Fiber
    PROVE  LET U == [T EXCEPT !.unwinding = @ \ {f}] IN
           /\ U \in Tree
           /\ U.state = T.state /\ U.epoch = T.epoch /\ U.owner = T.owner
           /\ U.after = T.after /\ U.orphans = T.orphans
           /\ U.queue = T.queue /\ U.batch = T.batch
<1> DEFINE U == [T EXCEPT !.unwinding = @ \ {f}]
<1>1. T.unwinding \ {f} \in SUBSET Fiber
  BY Fields
<1>2. U \in Tree
  BY <1>1, Zenon DEF Tree
<1>3. QED
  BY <1>2 DEF Tree

\* Everything a load produced can be undone.
LEMMA DiscardOrdered ==
    ASSUME NEW T \in Tree, NEW X, NEW f \in Fiber, Ordered(T, X)
    PROVE  Ordered(Discard(T, f), X) /\ Discard(T, f) \in Tree
<1> DEFINE S == Held(T, Children(f) \cup {f})
           W == Withdraw(T, S)
           G == Forget(W, Children(f))
           D == [G EXCEPT !.unwinding = @ \ {f}]
<1>1. S \in SUBSET Service /\ Children(f) \in SUBSET Fiber
  BY Fields DEF Held, Children
<1> HIDE DEF S
<1>2. Ordered(W, X) /\ W \in Tree
  BY <1>1, WithdrawOrdered, WithdrawFields
<1>3. Discard(T, f) = D
  BY DEF Discard, S
<1> HIDE DEF W
<1>4. \A k \in Fiber \ Row : Parent[k] \in Children(f) => k \in Children(f)
  BY Parents, TreeAssumption DEF Children, Row, Nobody, Fiber
<1>5. Ordered(G, X)
  BY <1>1, <1>2, <1>4, ForgetOrdered, Zenon
<1>6. G \in Tree
  BY <1>1, <1>2, ForgetFields, Zenon
<1> HIDE DEF G
<1>7. /\ D \in Tree /\ D.state = G.state /\ D.epoch = G.epoch /\ D.owner = G.owner
      /\ D.after = G.after
  BY <1>6, UnwoundFields
<1> HIDE DEF D
<1>8. QED
  BY <1>3, <1>5, <1>7, OrderedFrame

\* A load given up: its fiber is pending again, or failed, or left half undone.
LEMMA UnloadOrdered ==
    ASSUME NEW T \in Tree, NEW X, NEW f \in Fiber, NEW st \in State \ {"active"},
           Ordered(T, X)
    PROVE  LET U == SetState(Discard(T, f), f, st) IN
           Ordered(U, X) /\ U \in Tree /\ U.state[f] = st
<1> DEFINE D == Discard(T, f)
<1>1. Ordered(D, X) /\ D \in Tree
  BY DiscardOrdered
<1> HIDE DEF D
<1>2. Ordered(SetState(D, f, st), X) /\ SetState(D, f, st) \in Tree
  BY <1>1, SetStateOrdered
<1>3. SetState(D, f, st).state[f] = st
  BY <1>1, Fields DEF SetState, Tree
<1>4. QED
  BY <1>2, <1>3 DEF D

\* INACTIVE names no registration.
LEMMA InactiveOrdered ==
    ASSUME NEW T \in Tree, NEW f \in Fiber, Ordered(T, {})
    PROVE  Ordered([T EXCEPT !.epoch[f] = INACTIVE], {})
<1> DEFINE U == [T EXCEPT !.epoch[f] = INACTIVE]
<1>1. INACTIVE \in [Service -> Serial] /\ \A s \in Service : INACTIVE[s] # "live"
  BY DEF INACTIVE, Serial
<1>2. Ordered(T, {f})
  BY DEF Ordered
<1>3. Ordered(U, {f})
  BY <1>1, <1>2, SetEpochOrdered
<1>4. U.epoch[f] = INACTIVE
  BY Fields DEF Tree
<1>5. Behind(U, f)
  BY <1>1, <1>4 DEF Behind
<1>6. QED
  BY <1>3, <1>5 DEF Ordered

\* A requested restart keeps the order.
LEMMA RestartedOrdered ==
    ASSUME NEW T \in Tree, NEW f \in Fiber, Ordered(T, {})
    PROVE  Ordered(Restarted(T, f), {})
<1>1. CASE f \notin T.restart
  BY <1>1 DEF Restarted
<1>2. CASE f \in T.restart
  <2> DEFINE cleared == [T EXCEPT !.restart = @ \ {f}]
             undone == IF T.state[f] = "failed" THEN SetState(cleared, f, "pending")
                       ELSE IF HasLoad(T, f) THEN Unload(cleared, f)
                       ELSE cleared
  <2>1. Ordered(cleared, {}) /\ cleared \in Tree
    <3>1. /\ cleared.state = T.state /\ cleared.epoch = T.epoch
          /\ cleared.owner = T.owner /\ cleared.after = T.after
      BY DEF Tree
    <3>2. T.restart \ {f} \in SUBSET Fiber
      BY Fields
    <3>3. cleared \in Tree
      BY <3>2, QueueUpdate, Zenon
    <3> HIDE DEF cleared
    <3>4. QED
      BY <3>1, <3>3, OrderedFrame
  <2>2. Restarted(T, f) = [undone EXCEPT !.epoch[f] = INACTIVE]
    BY <1>2 DEF Restarted
  <2> HIDE DEF cleared
  <2>3. "pending" \in State \ {"active"}
    BY DEF State
  <2>4. Ordered(SetState(cleared, f, "pending"), {}) /\ SetState(cleared, f, "pending") \in Tree
    BY <2>1, <2>3, SetStateOrdered, Zenon
  <2>5. Ordered(Unload(cleared, f), {}) /\ Unload(cleared, f) \in Tree
    BY <2>1, <2>3, UnloadOrdered, Zenon DEF Unload
  <2>6. Ordered(undone, {}) /\ undone \in Tree
    BY <2>1, <2>4, <2>5
  <2> HIDE DEF undone
  <2>7. QED
    BY <2>2, <2>6, InactiveOrdered
<1>3. QED
  BY <1>1, <1>2

\* A fiber takes the epoch of the registrations while it is not active, or gives its
\* load up for it.
LEMMA RefreshedOrdered ==
    ASSUME composition \in Compositions, NEW T \in Tree, NEW f \in Fiber, Ordered(T, {}),
           Restarted(T, f) \in Tree
    PROVE  Ordered(Refreshed(T, f), {})
<1> DEFINE R == Restarted(T, f)
           new == compute_epoch(R, f)
           moved == [R EXCEPT !.epoch[f] = new]
           D == Refreshed(T, f)
<1>1. Ordered(R, {}) /\ R \in Tree
  BY RestartedOrdered
<1>2. D = IF ~Outdated(R, f) THEN R
          ELSE IF R.state[f] = "active" \/ (new # INACTIVE /\ R.epoch[f] # INACTIVE)
               THEN Unload(moved, f) ELSE moved
  BY DEF Refreshed
<1> HIDE DEF R, D
<1>3. new \in [Service -> Serial]
  BY <1>1, Epochs
<1>4. \A s \in Service : new[s] = "live" => R.owner[s] # Nobody
  BY DEF compute_epoch, INACTIVE
<1> HIDE DEF new
<1>5. Ordered(R, {f})
  BY <1>1 DEF Ordered
<1>6. Ordered(moved, {f}) /\ moved \in Tree /\ moved.state = R.state
  BY <1>1, <1>3, <1>4, <1>5, SetEpochOrdered
<1> HIDE DEF moved
<1>7. Ordered(Unload(moved, f), {})
  <2>1. "pending" \in State \ {"active"}
    BY DEF State
  <2>2. Ordered(Unload(moved, f), {f}) /\ Unload(moved, f).state[f] = "pending"
    BY <1>6, <2>1, UnloadOrdered DEF Unload
  <2>3. QED
    BY <2>2, OrderedClose
<1>8. R.state[f] # "active" => Ordered(moved, {})
  BY <1>6, OrderedClose
<1>9. QED
  BY <1>1, <1>2, <1>7, <1>8 DEF D

-----------------------------------------------------------------------------
(* Loading and providing *)

\* An activated fiber is last: the others keep their places.
LEMMA LoadAfter ==
    ASSUME NEW T \in Tree, NEW f \in Fiber, NEW S, NEW C
    PROVE  Activate(Mount(Provide(T, f, S), C), f).after =
             [g \in Fiber |-> IF g = f THEN {h \in Fiber : h \in T.after[h]} \cup {f}
                                       ELSE T.after[g] \ {f}]
BY DEF Activate, Mount, Provide, Tree

\* A fiber that loads is behind all it uses, and nobody uses yet what it publishes.
LEMMA LoadOrdered ==
    ASSUME composition \in Compositions, NEW T \in Tree, NEW f \in Fiber,
           NEW C \in SUBSET Children(f), Ordered(T, {}), Kids(T), f \in Mounted(T),
           \A k \in Children(f) : T.state[k] = "absent",
           \A s \in composition.provide[f] : T.owner[s] = Nobody
    PROVE  Ordered(Activate(Mount(Provide(T, f, composition.provide[f]), C), f), {})
<1> DEFINE S == composition.provide[f]
           U == Activate(Mount(Provide(T, f, S), C), f)
<1>0. S \in SUBSET Service
  BY UsesType
<1>1. /\ U.state = [g \in Fiber |-> IF g = f THEN "active"
                                    ELSE IF g \in C THEN "pending" ELSE T.state[g]]
      /\ U.epoch = T.epoch
      /\ U.owner = [s \in Service |-> IF s \in S THEN f ELSE T.owner[s]]
      /\ U.after = [g \in Fiber |-> IF g = f THEN {h \in Fiber : h \in T.after[h]} \cup {f}
                                             ELSE T.after[g] \ {f}]
  BY <1>0, LoadFields, LoadAfter
<1> HIDE DEF U
<1>2. f # Nobody
  BY DEF Fiber, Nobody
<1>3. \A g \in Fiber \ {f} : U.state[g] = "active" => T.state[g] = "active"
  BY <1>1
<1>4. \A g \in Fiber, s \in Service : U.epoch[g][s] = "live" =>
          T.epoch[g][s] = "live" /\ s \notin S /\ U.owner[s] = T.owner[s]
  BY <1>1 DEF Ordered, Registrations
<1>5. ASSUME NEW g \in Fiber, U.state[g] = "active"
      PROVE  g \in U.after[g] /\ (g \notin Row => Parent[g] \in U.after[g])
  <2>1. CASE g = f
    <3>1. f \notin Row => Parent[f] \in Fiber /\ T.state[Parent[f]] = "active"
      BY TreeAssumption DEF Kids, Row, Children, Mounted
    <3>2. f \notin Row => Parent[f] \in T.after[Parent[f]]
      BY <3>1 DEF Ordered, Placed
    <3>3. QED
      BY <1>1, <2>1, <3>1, <3>2
  <2>2. CASE g # f
    <3>1. T.state[g] = "active"
      BY <1>3, <1>5, <2>2
    <3>2. Parent[g] # f
      BY <3>1 DEF Children
    <3>3. QED
      BY <1>1, <2>2, <3>1, <3>2 DEF Ordered, Placed
  <2>3. QED
    BY <2>1, <2>2
<1>6. Linear(U)
  BY <1>1 DEF Ordered, Linear
<1>7. Registrations(U)
  <2>1. \A g \in Fiber, s \in Service : U.epoch[g][s] = "live" => U.owner[s] # Nobody
    BY <1>4 DEF Ordered, Registrations
  <2>2. \A s \in Service : U.owner[s] # Nobody => s \in composition.provide[U.owner[s]]
    BY <1>1 DEF Ordered, Registrations
  <2>3. QED
    BY <2>1, <2>2 DEF Registrations
<1>8. ASSUME NEW g \in Fiber PROVE Behind(U, g)
  <2> SUFFICES ASSUME U.state[g] = "active", NEW s \in Service, U.epoch[g][s] = "live",
                      U.state[U.owner[s]] = "active"
               PROVE  U.owner[s] \in U.after[g]
    BY DEF Behind
  <2> DEFINE h == T.owner[s]
  <2>1. U.owner[s] = h /\ T.epoch[g][s] = "live" /\ s \notin S
    BY <1>4
  <2>2. h # Nobody /\ h \in Fiber /\ s \in composition.provide[h]
    BY <2>1, Fields DEF Ordered, Registrations
  <2>3. h # f
    BY <2>1, <2>2
  <2>4. T.state[h] = "active"
    BY <1>3, <2>1, <2>2, <2>3
  <2>5. h \in T.after[h]
    BY <2>2, <2>4 DEF Ordered, Placed
  <2>6. g # f => h \in T.after[g]
    BY <1>3, <2>1, <2>4 DEF Ordered, Behind
  <2> HIDE DEF h
  <2>7. QED
    BY <1>1, <2>1, <2>2, <2>3, <2>5, <2>6
<1>9. QED
  BY <1>5, <1>6, <1>7, <1>8 DEF Ordered, Placed, U

\* A registration of a service nobody owned is not what anybody loaded with.
LEMMA ProvideOrdered ==
    ASSUME NEW T \in Tree, NEW U \in Tree, NEW f \in Fiber, NEW s \in Service, Ordered(T, {}),
           s \in composition.provide[f], T.owner[s] = Nobody,
           U.state = T.state, U.epoch = T.epoch, U.after = T.after,
           U.owner = [r \in Service |-> IF r = s THEN f ELSE T.owner[r]]
    PROVE  Ordered(U, {})
<1>1. f # Nobody
  BY DEF Fiber, Nobody
<1>2. \A g \in Fiber, r \in Service : T.epoch[g][r] = "live" => r # s /\ U.owner[r] = T.owner[r]
  BY DEF Ordered, Registrations
<1>3. Registrations(U)
  BY <1>1, <1>2 DEF Ordered, Registrations
<1>4. \A g \in Fiber : Behind(U, g)
  BY <1>2 DEF Ordered, Behind
<1>5. QED
  BY <1>3, <1>4 DEF Ordered, Placed, Linear

-----------------------------------------------------------------------------
(* Every step keeps it *)

\* The fiber taken off the batch, before it loads again.
LEMMA PreparedOrdered ==
    ASSUME IInv, Ordered(tree, {}), NEW f \in Fiber, Ready(f)
    PROVE  /\ Ordered(Popped(f), {}) /\ Popped(f) \in Tree
           /\ Ordered(Prepared(f), {}) /\ Prepared(f) \in Tree
<1> DEFINE T == Popped(f)
<1>1. /\ composition \in Compositions /\ Good(T, publishing, aborted, {f}) /\ T \in Tree
      /\ f \in Mounted(T) /\ Consistent(T, f, aborted)
  BY PoppedGood DEF Good
<1>2. /\ T.state = tree.state /\ T.epoch = tree.epoch /\ T.owner = tree.owner
      /\ T.after = tree.after
  BY DEF IInv, TypeOK, Tree, Popped
<1> HIDE DEF T
<1>3. Ordered(T, {})
  BY <1>2, OrderedFrame
<1>4. Restarted(T, f) \in Tree /\ Refreshed(T, f) \in Tree
  BY <1>1, RestartedGood, RefreshedGood
<1>5. Ordered(Refreshed(T, f), {})
  BY <1>1, <1>3, <1>4, RefreshedOrdered
<1>6. QED
  BY <1>1, <1>3, <1>4, <1>5 DEF Prepared, T

\* A load that is given up.
LEMMA GiveUpOrdered ==
    ASSUME NEW T \in Tree, NEW f \in Fiber, NEW st \in {"pending", "failed"}, Ordered(T, {})
    PROVE  LET U == [Discard(T, f) EXCEPT !.state[f] = st, !.epoch[f] = INACTIVE] IN
           Ordered(U, {}) /\ U \in Tree
<1> DEFINE V == SetState(Discard(T, f), f, st)
           U == [V EXCEPT !.epoch[f] = INACTIVE]
<1>1. U = [Discard(T, f) EXCEPT !.state[f] = st, !.epoch[f] = INACTIVE]
  BY DEF SetState
<1>2. st \in State \ {"active"}
  BY DEF State
<1>3. Ordered(V, {}) /\ V \in Tree
  BY <1>2, UnloadOrdered
<1> HIDE DEF V
<1>4. INACTIVE \in [Service -> Serial]
  BY DEF INACTIVE, Serial
<1>5. Ordered(U, {}) /\ U \in Tree
  BY <1>3, <1>4, InactiveOrdered, EpochUpdate
<1>6. QED
  BY <1>1, <1>5

\* An unload cut short by its disposers.
LEMMA AbortedUnloadOrdered ==
    ASSUME composition \in Compositions, NEW T \in Tree, NEW f \in Fiber, Ordered(T, {})
    PROVE  Ordered(AbortedUnload(T, f), {}) /\ AbortedUnload(T, f) \in Tree
<1> DEFINE e == IF f \in T.restart THEN T.epoch[f] ELSE compute_epoch(T, f)
           R == [T EXCEPT !.restart = @ \ {f}]
           V == [R EXCEPT !.epoch[f] = e]
<1>1. e \in [Service -> Serial]
  BY Fields, Epochs
<1>2. \A s \in Service : e[s] = "live" => T.owner[s] # Nobody
  BY DEF compute_epoch, INACTIVE, Ordered, Registrations
<1>3. AbortedUnload(T, f) = SetState(Discard(V, f), f, "unloading")
  <2>1. V = [T EXCEPT !.restart = @ \ {f}, !.epoch[f] = e]
    OBVIOUS
  <2>2. QED
    BY <2>1 DEF AbortedUnload
<1> HIDE DEF e
<1>4. R.state = T.state /\ R.epoch = T.epoch /\ R.owner = T.owner /\ R.after = T.after
  BY DEF Tree
<1>5. R \in Tree
  <2>1. T.restart \ {f} \in SUBSET Fiber
    BY Fields
  <2>2. QED
    BY <2>1, QueueUpdate, Zenon
<1> HIDE DEF R
<1>6. Ordered(R, {f})
  BY <1>4, OrderedFrame DEF Ordered
<1>7. Ordered(V, {f}) /\ V \in Tree
  BY <1>1, <1>2, <1>4, <1>5, <1>6, SetEpochOrdered
<1> HIDE DEF V
<1>8. "unloading" \in State \ {"active"}
  BY DEF State
<1> DEFINE U == SetState(Discard(V, f), f, "unloading")
<1>9. Ordered(U, {f}) /\ U \in Tree /\ U.state[f] = "unloading"
  BY <1>7, <1>8, UnloadOrdered
<1> HIDE DEF U
<1>10. Ordered(U, {})
  BY <1>9, OrderedClose
<1>11. QED
  BY <1>3, <1>9, <1>10 DEF U

\* What a load that failed leaves behind is queued fibers.
LEMMA AttemptedFields ==
    ASSUME composition \in Compositions, NEW T \in Tree, NEW f \in Fiber,
           NEW A \in Attempted(T, f)
    PROVE  /\ A \in Tree
           /\ A.state = T.state /\ A.epoch = T.epoch /\ A.owner = T.owner
           /\ A.after = T.after /\ A.batch = T.batch
           /\ A.queue \subseteq
                 T.queue \cup UsersOf(T, composition.provide[f]) \cup Children(f)
<1> DEFINE P == {s \in composition.provide[f] : T.owner[s] = Nobody}
           woken(S, C) == Enqueue(T, UsersOf(T, S) \cup C)
<1>1. PICK S \in SUBSET P, C \in SUBSET Children(f) : A = woken(S, C)
  <2>1. Attempted(T, f) = {woken(S, C) : S \in SUBSET P, C \in SUBSET Children(f)}
    BY DEF Attempted
  <2> HIDE DEF P, woken
  <2>2. QED
    BY <2>1
<1> DEFINE Q == T.queue \cup (UsersOf(T, S) \cup C)
<1>2. Q \in SUBSET Fiber
  BY Fields DEF UsersOf, Mounted, Children
<1>3. A = [T EXCEPT !.queue = Q]
  BY <1>1 DEF Enqueue, Tree
<1>4. UsersOf(T, S) \subseteq UsersOf(T, composition.provide[f])
  BY <1>1 DEF UsersOf
<1> HIDE DEF P, woken
<1>5. A.queue = Q
  BY <1>3 DEF Tree
<1>6. A.queue \subseteq T.queue \cup UsersOf(T, composition.provide[f]) \cup Children(f)
  BY <1>4, <1>5
<1> HIDE DEF Q
<1>7. A \in Tree
  BY <1>2, <1>3, QueueUpdate, Zenon
<1>8. /\ A.state = T.state /\ A.epoch = T.epoch /\ A.owner = T.owner
      /\ A.after = T.after /\ A.batch = T.batch
  BY <1>3 DEF Tree
<1>9. QED
  BY <1>6, <1>7, <1>8

\* A settle that raises, or takes its next batch, changes no fiber.
LEMMA SettleOrdered ==
    ASSUME NEW T \in Tree, Ordered(T, {})
    PROVE  /\ Escape(T) => Ordered(tree', {})
           /\ Ordered(FirstBatch(T), {})
           /\ \A woken : SettleAfter(T, woken) => Ordered(tree', {})
<1>1. /\ FirstBatch(T).state = T.state /\ FirstBatch(T).epoch = T.epoch
      /\ FirstBatch(T).owner = T.owner /\ FirstBatch(T).after = T.after
  BY DEF FirstBatch, Tree
<1>2. Ordered(FirstBatch(T), {})
  BY <1>1, OrderedFrame
<1>3. ASSUME Escape(T) PROVE Ordered(tree', {})
  <2>1. /\ tree'.state = T.state /\ tree'.epoch = T.epoch
        /\ tree'.owner = T.owner /\ tree'.after = T.after
    BY <1>3 DEF Escape, Tree
  <2>2. QED
    BY <2>1, OrderedFrame
<1>4. QED
  BY <1>2, <1>3 DEF SettleAfter

\* The refresh of a mounted fiber keeps the order.
LEMMA ReadyOrdered ==
    ASSUME IInv, Ordered(tree, {}), NEW f \in Fiber, Ready(f),
           RefreshOnly(f) \/ RefreshLoads(f) \/ RefreshFails(f) \/ RefreshAborts(f)
    PROVE  Ordered(tree', {})
<1> DEFINE T == Popped(f)
           D == Prepared(f)
<1>0. composition \in Compositions
  BY DEF IInv, TypeOK
<1>1. Ordered(T, {}) /\ T \in Tree /\ Ordered(D, {}) /\ D \in Tree
  BY PreparedOrdered
<1>2. CASE RefreshOnly(f)
  BY <1>1, <1>2 DEF RefreshOnly
<1>3. CASE RefreshLoads(f)
  <2>1. /\ Loads(T, f) /\ \A s \in composition.provide[f] : D.owner[s] = Nobody
    BY <1>3 DEF RefreshLoads, Doomed, Taken
  <2>2. PICK C \in SUBSET Children(f) :
            tree' = Activate(Mount(Provide(D, f, composition.provide[f]), C), f)
    BY <1>3 DEF RefreshLoads
  <2>3. Good(D, publishing, aborted, {f}) /\ f \in Mounted(D) /\ Idle(D, f, publishing)
    BY <1>0, <2>1, PoppedGood, RefreshedGood DEF Prepared
  <2> HIDE DEF D
  <2>4. Kids(D) /\ \A k \in Children(f) : D.state[k] = "absent"
    BY <2>3 DEF Good, Idle
  <2>5. QED
    BY <1>0, <1>1, <2>1, <2>2, <2>3, <2>4, LoadOrdered
<1>4. \A A \in Attempted(D, f) : A \in Tree /\ Ordered(A, {})
  <2> HIDE DEF D
  <2>1. ASSUME NEW A \in Attempted(D, f) PROVE A \in Tree /\ Ordered(A, {})
    <3>1. /\ A \in Tree /\ A.state = D.state /\ A.epoch = D.epoch /\ A.owner = D.owner
          /\ A.after = D.after
      BY <1>0, <1>1, AttemptedFields
    <3>2. QED
      BY <1>1, <3>1, OrderedFrame
  <2>2. QED
    BY <2>1
<1>5. CASE RefreshFails(f)
  <2>1. PICK A \in Attempted(D, f) :
            tree' = [Discard(A, f) EXCEPT !.state[f] = "failed", !.epoch[f] = INACTIVE]
    BY <1>5 DEF RefreshFails
  <2> HIDE DEF D
  <2>2. A \in Tree /\ Ordered(A, {})
    BY <1>4
  <2>3. QED
    BY <2>1, <2>2, GiveUpOrdered
<1>6. CASE RefreshAborts(f)
  <2>1. PICK U : /\ Escape(U)
                 /\ \/ \E A \in Attempted(D, f) :
                          \/ U = [Discard(A, f) EXCEPT !.state[f] = "pending",
                                                       !.epoch[f] = INACTIVE]
                          \/ U = SetState(Discard(A, f), f, "loading")
                    \/ U = AbortedUnload(T, f)
    BY <1>6, Zenon DEF RefreshAborts
  <2> HIDE DEF D, T
  <2>2. "loading" \in State \ {"active"}
    BY DEF State
  <2>3. Ordered(U, {}) /\ U \in Tree
    <3>1. ASSUME NEW A \in Attempted(D, f),
                 U = [Discard(A, f) EXCEPT !.state[f] = "pending", !.epoch[f] = INACTIVE]
          PROVE  Ordered(U, {}) /\ U \in Tree
      BY <1>4, <3>1, GiveUpOrdered
    <3>2. ASSUME NEW A \in Attempted(D, f), U = SetState(Discard(A, f), f, "loading")
          PROVE  Ordered(U, {}) /\ U \in Tree
      BY <1>4, <2>2, <3>2, UnloadOrdered
    <3>3. CASE U = AbortedUnload(T, f)
      BY <1>0, <1>1, <3>3, AbortedUnloadOrdered
    <3>4. QED
      BY <2>1, <3>1, <3>2, <3>3
  <2>4. QED
    BY <2>1, <2>3, SettleOrdered
<1>7. QED
  BY <1>2, <1>3, <1>5, <1>6

\* And of one that is gone.
LEMMA RefreshOrdered ==
    ASSUME IInv, Ordered(tree, {}), NEW f \in Fiber, Refresh(f)
    PROVE  Ordered(tree', {})
<1>1. CASE RefreshGone(f)
  <2>1. /\ tree'.state = tree.state /\ tree'.epoch = tree.epoch
        /\ tree'.owner = tree.owner /\ tree'.after = tree.after
    BY <1>1 DEF RefreshGone, Popped, IInv, TypeOK, Tree
  <2>2. QED
    BY <2>1, OrderedFrame
<1>2. CASE RefreshOnly(f) \/ RefreshLoads(f) \/ RefreshFails(f) \/ RefreshAborts(f)
  <2>1. Ready(f)
    BY <1>2 DEF RefreshOnly, RefreshLoads, RefreshFails, RefreshAborts
  <2>2. QED
    BY <1>2, <2>1, ReadyOrdered
<1>3. QED
  BY <1>1, <1>2 DEF Refresh

\* A child can be forgotten.
LEMMA LeafOrdered ==
    ASSUME NEW T \in Tree, NEW k \in Fiber \ Row, Ordered(T, {})
    PROVE  Ordered(Forget(T, {k}), {})
<1>1. \A j \in Fiber \ Row : Parent[j] # k
  BY TreeAssumption DEF Children, Row, Nobody, Fiber
<1>2. {k} \in SUBSET Fiber
  OBVIOUS
<1>3. QED
  BY <1>1, <1>2, ForgetOrdered

\* So does every call by the host.
LEMMA HostOrdered ==
    ASSUME IInv, Ordered(tree, {}), HostStep
    PROVE  Ordered(tree', {})
<1>0. tree \in Tree /\ composition \in Compositions /\ Good(tree, publishing, aborted, {})
  BY DEF IInv, TypeOK
<1>1. ASSUME NEW f \in Fiber, Restart(f) PROVE Ordered(tree', {})
  <2> DEFINE T == [tree EXCEPT !.restart = @ \cup {f}, !.queue = @ \cup {f}]
  <2>1. T \in Tree
    <3>1. tree.restart \cup {f} \in SUBSET Fiber /\ tree.queue \cup {f} \in SUBSET Fiber
      BY <1>0, Fields
    <3>2. QED
      BY <1>0, <3>1, QueueUpdate, Zenon
  <2>2. /\ T.state = tree.state /\ T.epoch = tree.epoch /\ T.owner = tree.owner
        /\ T.after = tree.after
    BY <1>0 DEF Tree
  <2>3. tree' = T \/ SettleAfter(T, {f})
    BY <1>1 DEF Restart
  <2> HIDE DEF T
  <2>4. Ordered(T, {})
    BY <2>2, OrderedFrame
  <2>5. QED
    BY <2>1, <2>3, <2>4, SettleOrdered
<1>2. ASSUME NEW k \in Fiber, Unmount(k) PROVE Ordered(tree', {})
  <2> DEFINE S == Held(tree, {k})
             W == Withdraw(tree, S)
             st == IF tree.state[k] = "failed" THEN "failed" ELSE "unloading"
             U == [tree EXCEPT !.state[k] = st, !.unmounting = {k}, !.unwinding = {k}]
  <2>1. (tree' = Forget(W, {k}) \/ tree' = U) /\ k \notin Row
    BY <1>2 DEF Unmount
  <2>2. S \in SUBSET Service
    BY <1>0, Fields DEF Held
  <2> HIDE DEF S
  <2>3. Ordered(W, {}) /\ W \in Tree
    BY <1>0, <2>2, WithdrawOrdered, WithdrawFields
  <2> HIDE DEF W
  <2>4. Ordered(Forget(W, {k}), {})
    BY <2>1, <2>3, LeafOrdered
  <2>5. Ordered(U, {})
    <3> DEFINE V == SetState(tree, k, st)
    <3>1. st \in State \ {"active"}
      BY DEF State
    <3>2. Ordered(V, {})
      BY <1>0, <3>1, SetStateOrdered
    <3>3. V.state = U.state /\ V.epoch = U.epoch /\ V.owner = U.owner /\ V.after = U.after
      BY <1>0 DEF SetState, Tree
    <3> HIDE DEF U, V
    <3>4. QED
      BY <3>2, <3>3, OrderedFrame
  <2>6. QED
    BY <2>1, <2>4, <2>5
<1>3. ASSUME NEW s \in Service, WithdrawService(s) PROVE Ordered(tree', {})
  <2> DEFINE T == Withdraw(tree, {s})
  <2>1. {s} \in SUBSET Service
    OBVIOUS
  <2>2. Ordered(T, {}) /\ T \in Tree
    BY <1>0, <2>1, WithdrawOrdered, WithdrawFields, ZenonT(40)
  <2>3. SettleAfter(T, UsersOf(tree, {s}))
    BY <1>3 DEF WithdrawService
  <2> HIDE DEF T
  <2>4. QED
    BY <2>2, <2>3, SettleOrdered
<1>4. ASSUME NEW s \in Service, NEW f \in Fiber, Republish(f, s) PROVE Ordered(tree', {})
  <2> DEFINE U(H) == Registered(tree, f, {s}, H)
  <2>1. s \in composition.provide[f] /\ tree.owner[s] = Nobody
    BY <1>4 DEF Republish
  <2>2. \/ tree' = U(tree.held \cup {s})
        \/ tree' = FirstBatch(U((tree.held \cup {s}) \ {s}))
    <3>1. \/ tree' = Provide(tree, f, {s})
          \/ tree' = FirstBatch([Provide(tree, f, {s}) EXCEPT !.held = @ \ {s}])
      BY <1>4, SMTT(30) DEF Republish
    <3>2. /\ Provide(tree, f, {s}) = U(tree.held \cup {s})
          /\ [Provide(tree, f, {s}) EXCEPT !.held = @ \ {s}]
                = U((tree.held \cup {s}) \ {s})
      BY <1>0, ProvideRegisters
    <3> HIDE DEF U
    <3>3. QED
      BY <3>1, <3>2
  <2>3. ASSUME NEW H \in SUBSET Service PROVE Ordered(U(H), {}) /\ U(H) \in Tree
    <3>1. /\ U(H) \in Tree
          /\ U(H).state = tree.state /\ U(H).epoch = tree.epoch
          /\ U(H).owner = [r \in Service |-> IF r \in {s} THEN f ELSE tree.owner[r]]
      BY <1>0, RegisteredFields
    <3>2. U(H).after = tree.after
      BY <1>0 DEF Registered, Tree
    <3> HIDE DEF U
    <3>3. QED
      BY <1>0, <2>1, <3>1, <3>2, ProvideOrdered
  <2>4. tree.held \cup {s} \in SUBSET Service /\ (tree.held \cup {s}) \ {s} \in SUBSET Service
    BY <1>0, Fields
  <2> HIDE DEF U
  <2>5. QED
    BY <2>2, <2>3, <2>4, SettleOrdered
<1>5. CASE Dispose
  BY <1>5 DEF Dispose
<1>6. QED
  BY <1>1, <1>2, <1>3, <1>4, <1>5 DEF HostStep

\* Each step of the disposal of a child.
LEMMA ChildOrdered ==
    ASSUME IInv, Ordered(tree, {}), ChildStep
    PROVE  Ordered(tree', {})
<1>0. tree \in Tree /\ Good(tree, publishing, aborted, {})
  BY DEF IInv, TypeOK
<1>1. ASSUME NEW k \in Fiber, UnmountNext(k) PROVE Ordered(tree', {})
  <2>1. PICK s \in Held(tree, {k}) : SettleAfter(Withdraw(tree, {s}), UsersOf(tree, {s}))
    BY <1>1 DEF UnmountNext
  <2>2. {s} \in SUBSET Service
    BY <1>0, Fields DEF Held
  <2> DEFINE T == Withdraw(tree, {s})
  <2>3. Ordered(T, {}) /\ T \in Tree
    BY <1>0, <2>2, WithdrawOrdered, WithdrawFields, ZenonT(40)
  <2>4. SettleAfter(T, UsersOf(tree, {s}))
    BY <2>1
  <2> HIDE DEF T
  <2>5. QED
    BY <2>3, <2>4, SettleOrdered
<1>2. ASSUME NEW k \in Fiber, UnmountEnd(k) PROVE Ordered(tree', {})
  <2>1. tree' = Forget(tree, {k}) /\ k \in Fiber \ Row
    BY <1>0, <1>2 DEF UnmountEnd, Good, Unmounts
  <2>2. QED
    BY <1>0, <2>1, LeafOrdered
<1>3. QED
  BY <1>1, <1>2 DEF ChildStep

\* And every step of a disposal.
LEMMA DisposeOrdered ==
    ASSUME IInv, Ordered(tree, {}), DisposeStep
    PROVE  Ordered(tree', {})
<1>0. tree \in Tree /\ composition \in Compositions /\ Good(tree, publishing, aborted, {})
  BY DEF IInv, TypeOK
<1>1. ASSUME NEW f \in Fiber, DisposeNext(f) PROVE Ordered(tree', {})
  <2> DEFINE D == Discard(tree, f)
  <2>1. Ordered(D, {}) /\ D \in Tree /\ Idle(D, f, publishing)
    BY <1>0, DiscardOrdered, DiscardGood
  <2>2. tree' = Forget(D, {f}) /\ {f} \in SUBSET Fiber
    BY <1>1 DEF DisposeNext
  <2> HIDE DEF D
  <2>3. \A k \in Fiber \ Row : D.state[k] = "active" => Parent[k] \notin {f}
    BY <2>1 DEF Idle, Children
  <2>4. QED
    BY <2>1, <2>2, <2>3, ForgetOrdered
<1>2. CASE DisposeEnd
  <2>1. /\ tree'.state = tree.state /\ tree'.epoch = tree.epoch
        /\ tree'.owner = tree.owner /\ tree'.after = tree.after
    BY <1>0, <1>2 DEF DisposeEnd, Tree
  <2>2. QED
    BY <2>1, OrderedFrame
<1>3. QED
  BY <1>1, <1>2 DEF DisposeStep

\* The order of the next state.
LEMMA NextOrdered ==
    ASSUME UNCHANGED composition, Ordered(tree', {})
    PROVE  Ordered(tree, {})'
BY DEF Ordered, Placed, Linear, Registrations, Behind, Row, Children, Fiber, Nobody

\* The composition is fixed.
LEMMA CompositionFixed == [Next]_vars => UNCHANGED composition
<1> SUFFICES ASSUME [Next]_vars PROVE UNCHANGED composition
  OBVIOUS
<1>1. CASE SettleStep
  BY <1>1 DEF SettleStep, Refresh, BootSettle, NextRound, Diverge, Settled, RefreshGone,
     RefreshOnly, RefreshLoads, RefreshFails, RefreshAborts, Calm, Escape
<1>2. CASE HostStep \/ ChildStep
  BY <1>2 DEF HostStep, Restart, Unmount, WithdrawService, Republish, Change, Dispose,
     ChildStep, UnmountNext, UnmountEnd
<1>3. CASE DisposeStep \/ UNCHANGED vars
  BY <1>3 DEF DisposeStep, DisposeEnd, DisposeNext, vars
<1>4. QED
  BY <1>1, <1>2, <1>3 DEF Next

\* Every step of the tree keeps the order.
LEMMA OrderedStep == IInv /\ Ordered(tree, {}) /\ [Next]_vars => Ordered(tree, {})'
<1> SUFFICES ASSUME IInv, Ordered(tree, {}), [Next]_vars PROVE Ordered(tree', {})
  BY CompositionFixed, NextOrdered
<1>0. tree \in Tree
  BY DEF IInv, TypeOK
<1>1. CASE SettleStep
  <2>1. CASE BootSettle \/ NextRound \/ Diverge
    BY <1>0, <2>1, SettleOrdered DEF BootSettle, NextRound, Diverge
  <2>2. CASE Settled
    <3>1. /\ tree'.state = tree.state /\ tree'.epoch = tree.epoch
          /\ tree'.owner = tree.owner /\ tree'.after = tree.after
      BY <1>0, <2>2 DEF Settled, Tree
    <3>2. QED
      BY <3>1, OrderedFrame
  <2>3. QED
    BY <1>1, <2>1, <2>2, RefreshOrdered DEF SettleStep
<1>2. CASE UNCHANGED vars
  BY <1>2 DEF vars
<1>3. QED
  BY <1>1, <1>2, HostOrdered, ChildOrdered, DisposeOrdered DEF Next

\* The fresh tree has loaded nothing.
LEMMA OrderedInit == Init => Ordered(tree, {})
<1> SUFFICES ASSUME Init PROVE Ordered(tree, {})
  OBVIOUS
<1>1. /\ \A f \in Fiber : /\ tree.state[f] # "active" /\ tree.after[f] = {}
                          /\ tree.epoch[f] = INACTIVE
      /\ \A s \in Service : tree.owner[s] = Nobody
  BY DEF Init
<1>2. QED
  BY <1>1 DEF Ordered, Placed, Linear, Registrations, Behind, INACTIVE

-----------------------------------------------------------------------------
(* The disposal of a settled tree *)

\* Nothing is being published while the tree boots.
BootQuiet == phase = "boot" => publishing = {}

\* What a settled tree is while it is torn down: no service was left without its
\* effect, and the services of every active fiber are those it loaded with.
Standing ==
    phase = "disposing" /\ orderly =>
        /\ tree.orphans = {}
        /\ \A f \in Fiber : tree.state[f] = "active" => tree.epoch[f] = compute_epoch(tree, f)

DisposalInv == IInv /\ Ordered(tree, {}) /\ BootQuiet /\ Standing

\* The fiber whose turn it is has no active child, and nothing active loaded with a
\* service of it: what did was activated later, and is disposed before.
LEMMA NobodyBehind ==
    ASSUME DisposalInv, orderly, NEW f \in Fiber, DisposeNext(f),
           NEW g \in Fiber \ (Children(f) \cup {f}), tree.state[g] = "active",
           NEW s \in Held(tree, Children(f) \cup {f})
    PROVE  s \notin Uses(g)
<1> DEFINE h == tree.owner[s]
<1> SUFFICES ASSUME s \in Uses(g) PROVE FALSE
  OBVIOUS
<1>0. /\ tree \in Tree /\ composition \in Compositions /\ Good(tree, publishing, aborted, {})
      /\ Ordered(tree, {}) /\ publishing = {} /\ Mounted(tree) \subseteq leaving
      /\ phase = "disposing"
  BY DEF DisposalInv, IInv, TypeOK, Control, DisposeNext
<1>1. s \in Service /\ h \in Children(f) \cup {f} /\ h \in Fiber /\ h # Nobody
  BY <1>0, Fields DEF Held, Children, Fiber, Nobody
<1>2. tree.state[h] = "active"
  <2>1. tree.unwinding = {} /\ tree.orphans = {}
    BY <1>0 DEF Good, Unmounts, DisposalInv, Standing
  <2>2. QED
    BY <1>0, <1>1, <2>1 DEF Good, OwnedUp
<1>3. tree.epoch[g][s] = "live"
  <2>1. tree.epoch[g] = compute_epoch(tree, g) /\ tree.epoch[g] # INACTIVE
    BY <1>0 DEF DisposalInv, Standing, Good, Consistent
  <2>2. Missing(tree, g) = {}
    BY <2>1 DEF compute_epoch
  <2>3. QED
    BY <1>1, <2>1, <2>2 DEF compute_epoch
<1>4. h \in tree.after[g]
  BY <1>0, <1>1, <1>2, <1>3 DEF Ordered, Behind
<1>5. Activated(g) /\ Activated(h)
  BY <1>0, <1>1, <1>2 DEF Ordered, Placed, Activated
<1>6. g \in leaving /\ h \in leaving /\ g # h /\ g # f
  BY <1>0, <1>1, <1>2 DEF Mounted
<1>7. CASE h = f
  <2>1. g \in tree.after[f]
    BY <1>5, <1>6, <1>7 DEF DisposeNext, Before
  <2>2. QED
    BY <1>0, <1>4, <1>6, <1>7, <2>1 DEF Ordered, Linear
<1>8. CASE h \in Children(f)
  <2>1. h # f /\ h \notin Row /\ Parent[h] = f
    BY <1>8, Parents
  <2>2. f \in tree.after[h] /\ tree.state[f] = "active"
    BY <1>0, <1>1, <1>2, <2>1 DEF Ordered, Placed, Good, Kids, Mounted
  <2>3. Activated(f)
    BY <1>0, <2>2 DEF Ordered, Placed, Activated
  <2>4. h \in tree.after[f]
    BY <1>5, <1>6, <2>1, <2>3 DEF DisposeNext, Before
  <2>5. QED
    BY <1>0, <1>1, <2>1, <2>2, <2>4 DEF Ordered, Linear
<1>9. QED
  BY <1>1, <1>7, <1>8

\* So the fibers that are left stay what they were.
LEMMA DisposeStanding ==
    ASSUME DisposalInv, NEW f \in Fiber, DisposeNext(f)
    PROVE  Standing'
<1> SUFFICES ASSUME orderly'
             PROVE  /\ tree'.orphans = {}
                    /\ \A g \in Fiber : tree'.state[g] = "active" =>
                          tree'.epoch[g] = compute_epoch(tree', g)
  BY DEF Standing, DisposeNext, compute_epoch, Missing, Uses, Fiber, INACTIVE, Nobody
<1> DEFINE S == Held(tree, Children(f) \cup {f})
           W == Withdraw(tree, S)
           V == Forget(W, Children(f))
           D == [V EXCEPT !.unwinding = @ \ {f}]
           G == Forget(D, {f})
<1>0. /\ tree \in Tree /\ composition \in Compositions /\ orderly
      /\ phase = "disposing" /\ tree' = G
  BY DEF DisposalInv, IInv, TypeOK, DisposeNext, history, Discard
<1>1. S \in SUBSET Service /\ Children(f) \in SUBSET Fiber /\ {f} \in SUBSET Fiber
  BY <1>0, Fields DEF Held, Children
<1>2. \A g \in Fiber \ (Children(f) \cup {f}) : tree.state[g] = "active" =>
          S \cap Uses(g) = {}
  BY <1>0, NobodyBehind
<1>3. tree.orphans = {} /\ \A g \in Fiber : tree.state[g] = "active" =>
          tree.epoch[g] = compute_epoch(tree, g)
  BY <1>0 DEF DisposalInv, Standing
<1> HIDE DEF S
<1>4. /\ W \in Tree /\ W.state = tree.state /\ W.orphans = tree.orphans \ S
      /\ W.owner = [s \in Service |-> IF s \in S THEN Nobody ELSE tree.owner[s]]
      /\ W.epoch = [g \in Fiber |-> [s \in Service |->
            IF s \in S /\ tree.epoch[g][s] = "live" THEN "gone" ELSE tree.epoch[g][s]]]
  BY <1>0, <1>1, WithdrawFields
<1> HIDE DEF W
<1>5. /\ D \in Tree /\ D.orphans = W.orphans /\ D.owner = W.owner
      /\ D.state = [g \in Fiber |-> IF g \in Children(f) THEN "absent" ELSE W.state[g]]
      /\ D.epoch = [g \in Fiber |-> IF g \in Children(f) THEN INACTIVE ELSE W.epoch[g]]
  <2>1. /\ V \in Tree /\ V.orphans = W.orphans /\ V.owner = W.owner
        /\ V.state = [g \in Fiber |-> IF g \in Children(f) THEN "absent" ELSE W.state[g]]
        /\ V.epoch = [g \in Fiber |-> IF g \in Children(f) THEN INACTIVE ELSE W.epoch[g]]
    BY <1>1, <1>4, ForgetFields, ZenonT(40)
  <2> HIDE DEF V
  <2>2. QED
    BY <2>1, UnwoundFields
<1> HIDE DEF D
<1>6. /\ G.orphans = D.orphans /\ G.owner = D.owner
      /\ G.state = [g \in Fiber |-> IF g \in {f} THEN "absent" ELSE D.state[g]]
      /\ G.epoch = [g \in Fiber |-> IF g \in {f} THEN INACTIVE ELSE D.epoch[g]]
  BY <1>1, <1>5, ForgetFields
<1> HIDE DEF G
<1>7. ASSUME NEW g \in Fiber, G.state[g] = "active"
      PROVE  G.epoch[g] = compute_epoch(G, g)
  <2>1. g \notin Children(f) \cup {f} /\ tree.state[g] = "active"
    BY <1>4, <1>5, <1>6, <1>7
  <2>2. tree.epoch[g] = compute_epoch(tree, g) /\ S \cap Uses(g) = {}
    BY <1>2, <1>3, <2>1
  <2>3. Uses(g) \subseteq Service
    BY <1>0, UsesType
  <2>4. \A s \in Uses(g) : tree.owner[s] = Nobody <=> G.owner[s] = Nobody
    BY <1>4, <1>5, <1>6, <2>2, <2>3
  <2>5. compute_epoch(tree, g) = compute_epoch(G, g)
    BY <2>4, EpochSame
  <2>6. \A s \in S : tree.epoch[g][s] # "live"
    BY <1>0, <1>1, <2>2, Epochs
  <2>7. G.epoch[g] = [s \in Service |->
            IF s \in S /\ tree.epoch[g][s] = "live" THEN "gone" ELSE tree.epoch[g][s]]
    BY <1>4, <1>5, <1>6, <2>1
  <2>8. tree.epoch[g] \in [Service -> Serial]
    BY <1>0, Fields
  <2>9. G.epoch[g] = tree.epoch[g]
    BY <2>6, <2>7, <2>8
  <2>10. QED
    BY <2>2, <2>5, <2>9
<1>8. QED
  BY <1>0, <1>3, <1>4, <1>5, <1>6, <1>7

\* A disposal is orderly if it finds a settled tree.
LEMMA DisposalBegins ==
    ASSUME IInv, BootQuiet, [Next]_vars, phase' = "disposing", phase # "disposing", orderly'
    PROVE  tree'.queue = {} /\ tree'.orphans = {} /\ aborted' \cap Mounted(tree') = {}
<1>0. tree \in Tree /\ composition \in Compositions
  BY DEF IInv, TypeOK
<1>1. CASE \E T : Escape(T)
  BY <1>1 DEF Escape, BeginDispose
<1>2. CASE Settled
  <2>1. /\ orderly' = (tree.queue = {} /\ tree.orphans = {} /\ aborted' \cap Mounted(tree) = {})
        /\ publishing = {}
    BY <1>2 DEF Settled, BeginDispose, BootQuiet
  <2>2. tree'.queue = tree.queue /\ tree'.orphans = tree.orphans /\ tree'.state = tree.state
    BY <1>0, <1>2, <2>1 DEF Settled, Tree
  <2>3. Mounted(tree') = Mounted(tree)
    BY <2>2 DEF Mounted
  <2>4. QED
    BY <2>1, <2>2, <2>3
<1>3. CASE Dispose
  BY <1>3 DEF Dispose, BeginDispose
<1>4. CASE SettleStep /\ ~ (\E T : Escape(T)) /\ ~ Settled
  BY <1>4 DEF SettleStep, Refresh, BootSettle, NextRound, Diverge, RefreshGone, RefreshOnly,
     RefreshLoads, RefreshFails, RefreshAborts, Calm
<1>5. CASE (HostStep /\ ~ Dispose) \/ ChildStep
  BY <1>5 DEF HostStep, Restart, Unmount, WithdrawService, Republish, Change, ChildStep,
     UnmountNext, UnmountEnd
<1>6. CASE DisposeStep \/ UNCHANGED vars
  BY <1>6 DEF DisposeStep, DisposeEnd, DisposeNext, vars
<1>7. QED
  BY <1>1, <1>2, <1>3, <1>4, <1>5, <1>6 DEF Next

\* Then every active fiber has the services it loaded with.
LEMMA BeginStanding ==
    ASSUME IInv, IInv', BootQuiet, [Next]_vars, phase # "disposing"
    PROVE  Standing'
<1> SUFFICES ASSUME phase' = "disposing", orderly'
             PROVE  (/\ tree.orphans = {}
                     /\ \A f \in Fiber : tree.state[f] = "active" =>
                           tree.epoch[f] = compute_epoch(tree, f))'
  BY DEF Standing
<1>1. tree'.queue = {} /\ tree'.orphans = {} /\ aborted' \cap Mounted(tree') = {}
  BY DisposalBegins
<1>2. tree'.batch = {}
  BY DEF IInv, Control
<1>3. (\A f \in Fiber : Fresh(tree, f, aborted))'
  BY DEF IInv, Good
<1>4. Mounted(tree') = Mounted(tree)'
  BY DEF Mounted, Fiber
<1>5. QED
  BY <1>1, <1>2, <1>3, <1>4 DEF Fresh, Waits, Mounted, Fiber

\* The host publishes only once the tree is up.
LEMMA BootQuietStep ==
    ASSUME BootQuiet, [Next]_vars
    PROVE  BootQuiet'
<1>1. CASE SettleStep
  BY <1>1 DEF SettleStep, Refresh, BootSettle, NextRound, Diverge, Settled, RefreshGone,
     RefreshOnly, RefreshLoads, RefreshFails, RefreshAborts, Calm, Escape, BootQuiet
<1>2. CASE HostStep \/ ChildStep
  BY <1>2 DEF HostStep, Restart, Unmount, WithdrawService, Republish, Change, Dispose,
     BeginDispose, BootQuiet, Settling, ChildStep, UnmountNext, UnmountEnd
<1>3. CASE DisposeStep \/ UNCHANGED vars
  BY <1>3 DEF DisposeStep, DisposeEnd, DisposeNext, vars, BootQuiet
<1>4. QED
  BY <1>1, <1>2, <1>3 DEF Next

\* Every step keeps a disposal in order.
LEMMA DisposalStep == DisposalInv /\ IInv' /\ [Next]_vars => DisposalInv'
<1> SUFFICES ASSUME DisposalInv, IInv', [Next]_vars PROVE DisposalInv'
  OBVIOUS
<1>0. IInv /\ Ordered(tree, {}) /\ BootQuiet
  BY DEF DisposalInv
<1>1. Ordered(tree, {})' /\ BootQuiet'
  BY <1>0, OrderedStep, BootQuietStep
<1>2. CASE phase # "disposing"
  BY <1>0, <1>1, <1>2, BeginStanding DEF DisposalInv
<1>3. CASE phase = "disposing"
  <2>1. CASE \E f \in Fiber : DisposeNext(f)
    BY <1>1, <2>1, DisposeStanding DEF DisposalInv
  <2>2. CASE DisposeEnd
    BY <1>1, <2>2 DEF DisposeEnd, DisposalInv, Standing
  <2>3. CASE UNCHANGED vars
    <3>1. Standing'
      BY <2>3 DEF vars, history, DisposalInv, Standing, compute_epoch, Missing, Uses, Fiber,
         INACTIVE, Nobody
    <3>2. QED
      BY <1>1, <3>1 DEF DisposalInv
  <2>4. ~ SettleStep /\ ~ HostStep
    BY <1>0, <1>3 DEF IInv, Control, SettleStep, Refresh, BootSettle, NextRound, Diverge,
       Settled, RefreshGone, RefreshOnly, RefreshLoads, RefreshFails, RefreshAborts, Ready,
       HostStep, Restart, Unmount, WithdrawService, Republish, Change, Dispose
  <2>5. ~ ChildStep
    BY <1>0, <1>3 DEF IInv, Good, Unmounts, ChildStep, UnmountNext, UnmountEnd
  <2>6. QED
    BY <2>1, <2>2, <2>3, <2>4, <2>5 DEF Next, DisposeStep
<1>4. QED
  BY <1>2, <1>3

\* Root.dispose: a settled tree is torn down consumers first.  When a fiber's
\* disposers run, every service of an active fiber is the one it loaded with.
THEOREM ConsumersAreStoppedFirst == Spec => []ConsumersStopFirst
<1>1. Init => DisposalInv
  <2>1. Init => BootQuiet /\ Standing
    BY DEF Init, BootQuiet, Standing
  <2>2. QED
    BY <2>1, InitInv, OrderedInit DEF DisposalInv
<1>2. DisposalInv => ConsumersStopFirst
  BY DEF DisposalInv, Standing, ConsumersStopFirst
<1>3. QED
  BY <1>1, <1>2, DisposalStep, Invariant, PTL DEF Spec

-----------------------------------------------------------------------------
(* The rounds of a settle *)

Fighting == \E F \in SUBSET Fiber : F # {} /\ \A f \in F : \E g \in F : DependsOn(f, g)

\* Fibers that are done until the host calls: none is queued, and all they depend on
\* is among them and has had its refresh of this round.
Quiet(T, D) ==
    \A d \in D : /\ d \notin T.queue
                 /\ \A g \in Fiber : DependsOn(d, g) => g \in D \ T.batch

\* Every round adds a fiber to those; a call by the host can wake them all.
Paid(D, r, c) == r <= Cardinality(D) + Fibers * c
RoundsPaid ==
    ~Fighting =>
        /\ ~diverged
        /\ Fibers > 0 => \E D \in SUBSET Fiber : Quiet(tree, D) /\ Paid(D, rounds, changes)

RoundsInv == IInv /\ Ordered(tree, {}) /\ RoundsPaid

\* The fibers a refresh of f may wake: those that depend on it, or on a child of it.
Woken(f) ==
    {u \in Fiber : DependsOn(u, f) \/ \E k \in Children(f) : DependsOn(u, k)}
Wakes(T, U, f) == U.queue \subseteq T.queue \cup Woken(f) /\ U.batch \subseteq T.batch

\* Undoing a load wakes the users of what the fiber and its children declare.
LEMMA DiscardWakes ==
    ASSUME NEW T \in Tree, NEW f \in Fiber, Registrations(T)
    PROVE  Discard(T, f) \in Tree /\ Wakes(T, Discard(T, f), f)
<1> DEFINE S == Held(T, Children(f) \cup {f})
           W == Withdraw(T, S)
           G == Forget(W, Children(f))
           D == [G EXCEPT !.unwinding = @ \ {f}]
<1>1. S \in SUBSET Service /\ Children(f) \in SUBSET Fiber
  BY Fields DEF Held, Children
<1>2. UsersOf(T, S) \subseteq Woken(f)
  <2> SUFFICES ASSUME NEW u \in UsersOf(T, S) PROVE u \in Woken(f)
    OBVIOUS
  <2>1. PICK s \in S : s \in Uses(u)
    BY DEF UsersOf
  <2>2. T.owner[s] \in Children(f) \cup {f} /\ T.owner[s] # Nobody
    BY <2>1 DEF Held, Children, Fiber, Nobody
  <2>3. s \in composition.provide[T.owner[s]]
    BY <1>1, <2>1, <2>2 DEF Registrations
  <2>4. DependsOn(u, T.owner[s])
    BY <2>1, <2>3 DEF DependsOn
  <2>5. QED
    BY <2>2, <2>4 DEF Woken, UsersOf, Mounted
<1> HIDE DEF S
<1>3. W \in Tree /\ W.queue = T.queue \cup UsersOf(T, S) /\ W.batch = T.batch
  BY <1>1, WithdrawFields
<1> HIDE DEF W
<1>4. G \in Tree /\ G.queue = W.queue /\ G.batch = W.batch
  BY <1>1, <1>3, ForgetFields
<1>5. D = Discard(T, f)
  BY DEF Discard, W, S
<1> HIDE DEF G
<1>6. D \in Tree /\ D.queue = G.queue /\ D.batch = G.batch
  BY <1>4, UnwoundFields
<1> HIDE DEF D
<1>7. QED
  BY <1>2, <1>3, <1>4, <1>5, <1>6 DEF Wakes

\* So does a load that is given up, whatever becomes of its fiber.
LEMMA UnloadWakes ==
    ASSUME NEW T \in Tree, NEW f \in Fiber, NEW st \in State, Registrations(T)
    PROVE  /\ SetState(Discard(T, f), f, st) \in Tree
           /\ Wakes(T, SetState(Discard(T, f), f, st), f)
<1> DEFINE D == Discard(T, f)
<1>1. D \in Tree /\ Wakes(T, D, f)
  BY DiscardWakes
<1> HIDE DEF D
<1>2. SetState(D, f, st) \in Tree
  BY <1>1, StateUpdate DEF SetState
<1>3. SetState(D, f, st).queue = D.queue /\ SetState(D, f, st).batch = D.batch
  BY <1>1 DEF SetState, Tree
<1>4. QED
  BY <1>1, <1>2, <1>3 DEF Wakes, D

\* A requested restart wakes no others.
LEMMA RestartedWakes ==
    ASSUME NEW T \in Tree, NEW f \in Fiber, Registrations(T)
    PROVE  Wakes(T, Restarted(T, f), f)
<1>1. CASE f \notin T.restart
  BY <1>1 DEF Restarted, Wakes
<1>2. CASE f \in T.restart
  <2> DEFINE cleared == [T EXCEPT !.restart = @ \ {f}]
             undone == IF T.state[f] = "failed" THEN SetState(cleared, f, "pending")
                       ELSE IF HasLoad(T, f) THEN Unload(cleared, f)
                       ELSE cleared
  <2>1. /\ cleared.epoch = T.epoch /\ cleared.owner = T.owner
        /\ cleared.queue = T.queue /\ cleared.batch = T.batch
    BY DEF Tree
  <2>2. cleared \in Tree
    <3>1. T.restart \ {f} \in SUBSET Fiber
      BY Fields
    <3>2. QED
      BY <3>1, QueueUpdate, Zenon
  <2>3. Restarted(T, f) = [undone EXCEPT !.epoch[f] = INACTIVE]
    BY <1>2 DEF Restarted
  <2> HIDE DEF cleared
  <2>4. Registrations(cleared) /\ "pending" \in State
    BY <2>1 DEF Registrations, State
  <2>5. Unload(cleared, f) \in Tree /\ Wakes(cleared, Unload(cleared, f), f)
    BY <2>2, <2>4, UnloadWakes DEF Unload
  <2>6. SetState(cleared, f, "pending") \in Tree /\ Wakes(cleared, SetState(cleared, f, "pending"), f)
    <3>1. SetState(cleared, f, "pending") \in Tree
      BY <2>2, <2>4, StateUpdate DEF SetState
    <3>2. QED
      BY <2>2, <3>1 DEF SetState, Tree, Wakes
  <2>7. undone \in Tree /\ Wakes(cleared, undone, f)
    BY <2>2, <2>5, <2>6 DEF Wakes
  <2> HIDE DEF undone
  <2>8. Restarted(T, f).queue = undone.queue /\ Restarted(T, f).batch = undone.batch
    BY <2>3, <2>7 DEF Tree
  <2>9. QED
    BY <2>1, <2>7, <2>8 DEF Wakes
<1>3. QED
  BY <1>1, <1>2

\* Nor does the rest of the refresh, before the fiber loads.
LEMMA RefreshedWakes ==
    ASSUME composition \in Compositions, NEW T \in Tree, NEW f \in Fiber, Ordered(T, {}),
           Restarted(T, f) \in Tree
    PROVE  Wakes(T, Refreshed(T, f), f)
<1> DEFINE R == Restarted(T, f)
           new == compute_epoch(R, f)
           moved == [R EXCEPT !.epoch[f] = new]
           D == Refreshed(T, f)
<1>1. Registrations(R) /\ R \in Tree /\ Wakes(T, R, f)
  BY RestartedOrdered, RestartedWakes DEF Ordered
<1>2. D = IF ~Outdated(R, f) THEN R
          ELSE IF R.state[f] = "active" \/ (new # INACTIVE /\ R.epoch[f] # INACTIVE)
               THEN Unload(moved, f) ELSE moved
  BY DEF Refreshed
<1> HIDE DEF R, D
<1>3. new \in [Service -> Serial] /\ \A s \in Service : new[s] = "live" => R.owner[s] # Nobody
  BY <1>1, Epochs DEF compute_epoch, INACTIVE
<1> HIDE DEF new
<1>4. moved \in Tree
  BY <1>1, <1>3, EpochUpdate
<1>5. /\ moved.queue = R.queue /\ moved.batch = R.batch /\ moved.owner = R.owner
      /\ moved.epoch = [R.epoch EXCEPT ![f] = new]
  BY <1>1 DEF Tree
<1>6. R.epoch \in [Fiber -> [Service -> Serial]]
  BY <1>1, Fields
<1> HIDE DEF moved
<1>7. Registrations(moved)
  BY <1>1, <1>3, <1>5, <1>6 DEF Registrations
<1>8. "pending" \in State
  BY DEF State
<1>9. Wakes(moved, Unload(moved, f), f)
  BY <1>4, <1>7, <1>8, UnloadWakes DEF Unload
<1>10. QED
  BY <1>1, <1>2, <1>5, <1>9 DEF Wakes, D

\* A load wakes the users of what it publishes, and the children it mounts.
LEMMA LoadWakes ==
    ASSUME NEW T \in Tree, NEW f \in Fiber,
           NEW C \in SUBSET Children(f)
    PROVE  Wakes(T, Activate(Mount(Provide(T, f, composition.provide[f]), C), f), f)
<1> DEFINE S == composition.provide[f]
           U == Activate(Mount(Provide(T, f, S), C), f)
<1>1. UsersOf(T, S) \subseteq Woken(f)
  BY DEF UsersOf, Mounted, Woken, DependsOn
<1>2. C \subseteq Woken(f)
  BY DEF Children, Woken, DependsOn
<1> HIDE DEF S
<1>3. U.queue = T.queue \cup UsersOf(T, S) \cup C /\ U.batch = T.batch \ C
  BY DEF Activate, Mount, Provide, Tree
<1> HIDE DEF U
<1>4. Wakes(T, U, f)
  BY <1>1, <1>2, <1>3 DEF Wakes
<1>5. QED
  BY <1>4 DEF U, S

\* So does one that failed.
LEMMA AttemptedWakes ==
    ASSUME composition \in Compositions, NEW T \in Tree, NEW f \in Fiber,
           NEW A \in Attempted(T, f)
    PROVE  Wakes(T, A, f)
<1>1. /\ A.queue \subseteq T.queue \cup UsersOf(T, composition.provide[f]) \cup Children(f)
      /\ A.batch = T.batch
  BY AttemptedFields
<1>2. UsersOf(T, composition.provide[f]) \subseteq Woken(f)
  BY DEF UsersOf, Mounted, Woken, DependsOn
<1>3. Children(f) \subseteq Woken(f)
  BY DEF Children, Woken, DependsOn
<1>4. QED
  BY <1>1, <1>2, <1>3 DEF Wakes

\* The refresh of one fiber wakes only what depends on it or on its children.
LEMMA RefreshWakes ==
    ASSUME IInv, Ordered(tree, {}), NEW f \in Fiber,
           RefreshOnly(f) \/ RefreshLoads(f) \/ RefreshFails(f)
    PROVE  Wakes(tree, tree', f)
<1> DEFINE T == Popped(f)
           D == Prepared(f)
<1>0. Ready(f) /\ composition \in Compositions /\ tree \in Tree
  BY DEF RefreshOnly, RefreshLoads, RefreshFails, IInv, TypeOK
<1>1. Ordered(T, {}) /\ T \in Tree /\ Ordered(D, {}) /\ D \in Tree
  BY <1>0, PreparedOrdered
<1>2. T.queue = tree.queue /\ T.batch \subseteq tree.batch
  BY <1>0 DEF Popped, Tree
<1>3. Wakes(T, D, f)
  <2>1. Good(T, publishing, aborted, {f}) /\ f \in Mounted(T) /\ Consistent(T, f, aborted)
    BY <1>0, PoppedGood
  <2> HIDE DEF T
  <2>2. Restarted(T, f) \in Tree
    BY <1>0, <1>1, <2>1, RestartedGood
  <2>3. Wakes(T, Refreshed(T, f), f)
    BY <1>0, <1>1, <2>2, RefreshedWakes
  <2>4. QED
    BY <2>3 DEF Prepared, T
<1> HIDE DEF T
<1>4. CASE RefreshOnly(f)
  BY <1>2, <1>3, <1>4 DEF RefreshOnly, Wakes
<1>5. CASE RefreshLoads(f)
  <2>1. PICK C \in SUBSET Children(f) :
            tree' = Activate(Mount(Provide(D, f, composition.provide[f]), C), f)
    BY <1>5 DEF RefreshLoads
  <2> HIDE DEF D
  <2>2. Wakes(D, tree', f)
    BY <1>0, <1>1, <2>1, LoadWakes
  <2>3. QED
    BY <1>2, <1>3, <2>2 DEF Wakes
<1>6. CASE RefreshFails(f)
  <2>1. PICK A \in Attempted(D, f) :
            tree' = [Discard(A, f) EXCEPT !.state[f] = "failed", !.epoch[f] = INACTIVE]
    BY <1>6 DEF RefreshFails
  <2> DEFINE G == Discard(A, f)
  <2> HIDE DEF D
  <2>2. A \in Tree /\ A.owner = D.owner /\ A.epoch = D.epoch /\ Wakes(D, A, f)
    BY <1>0, <1>1, AttemptedFields, AttemptedWakes
  <2>3. Registrations(A)
    BY <1>1, <2>2 DEF Ordered, Registrations
  <2>4. G \in Tree /\ Wakes(A, G, f)
    BY <2>2, <2>3, DiscardWakes
  <2> HIDE DEF G
  <2>5. tree'.queue = G.queue /\ tree'.batch = G.batch
    BY <2>1, <2>4 DEF Tree, G
  <2>6. QED
    BY <1>2, <1>3, <2>2, <2>4, <2>5 DEF Wakes
<1>7. QED
  BY <1>4, <1>5, <1>6

\* None of those is done.
LEMMA QuietKept ==
    ASSUME NEW T, NEW U, NEW D \in SUBSET Fiber, NEW f \in T.batch, f \in Fiber,
           Quiet(T, D), Wakes(T, U, f)
    PROVE  Quiet(U, D)
<1>1. D \cap Woken(f) = {}
  <2> SUFFICES ASSUME NEW u \in D, u \in Woken(f) PROVE FALSE
    OBVIOUS
  <2>1. ~ DependsOn(u, f)
    BY DEF Quiet
  <2>2. PICK k \in Children(f) : DependsOn(u, k)
    BY <2>1 DEF Woken
  <2>3. k \in D
    BY <2>2 DEF Quiet, Children
  <2>4. DependsOn(k, f)
    BY DEF DependsOn, Children
  <2>5. QED
    BY <2>3, <2>4 DEF Quiet
<1>2. QED
  BY <1>1 DEF Quiet, Wakes

\* Fibers.
LEMMA FiberCount == IsFiniteSet(Fiber) /\ Cardinality(Fiber) = Fibers
<1>1. Fibers \in Nat
  BY TreeAssumption
<1>2. CASE Fibers = 0
  BY <1>2, FS_EmptySet DEF Fiber
<1>3. CASE Fibers > 0
  BY <1>1, <1>3, FS_Interval DEF Fiber
<1>4. QED
  BY <1>1, <1>2, <1>3

\* Unless some fight, one of the fibers that are not done depends only on those that
\* are; if it is not queued any more, a round is paid for.
LEMMA QuietGrows ==
    ASSUME ~Fighting, NEW T, NEW D \in SUBSET Fiber, D # Fiber, T.batch \cap D = {},
           T.queue = {}, \A d \in D, g \in Fiber : DependsOn(d, g) => g \in D
    PROVE  \E E \in SUBSET Fiber : Quiet(T, E) /\ Cardinality(E) = Cardinality(D) + 1
<1>1. PICK m \in Fiber \ D : \A g \in Fiber \ D : ~ DependsOn(m, g)
  BY DEF Fighting
<1>2. Quiet(T, D \cup {m})
  BY <1>1 DEF Quiet
<1>3. IsFiniteSet(D)
  BY FiberCount, FS_Subset
<1>4. Cardinality(D \cup {m}) = Cardinality(D) + 1
  BY <1>1, <1>3, FS_AddElement
<1>5. QED
  BY <1>1, <1>2, <1>4

\* What calls by the host pay for: rounds up to the number of fibers each.
LEMMA CallPays ==
    ASSUME Fibers > 0, NEW D \in SUBSET Fiber, NEW r \in Nat, NEW c \in Nat, Paid(D, r, c)
    PROVE  Paid({}, r, c + 1) /\ Paid({}, 1, c + 1)
<1>1. Cardinality(D) \in Nat /\ Cardinality(D) <= Fibers
  BY FiberCount, FS_Subset, FS_CardinalityType
<1>2. Fibers \in Nat /\ Fibers * c \in Nat
  BY TreeAssumption
<1>3. Fibers * (c + 1) = Fibers * c + Fibers
  BY <1>2
<1>4. Cardinality({}) = 0
  BY FS_EmptySet
<1>5. QED
  BY <1>1, <1>2, <1>3, <1>4 DEF Paid

\* Without a settle there is nothing to pay for.
LEMMA NothingDue ==
    ASSUME NEW T, NEW c \in Nat
    PROVE  Quiet(T, {}) /\ Paid({}, 0, c)
<1>1. Fibers \in Nat /\ Fibers * c \in Nat
  BY TreeAssumption
<1>2. Cardinality({}) = 0
  BY FS_EmptySet
<1>3. QED
  BY <1>1, <1>2 DEF Quiet, Paid

\* A fiber that has not been paid for is left while any is queued.
LEMMA RoundsLeft ==
    ASSUME SettleRounds >= Fibers * (MaxChanges + 1), NEW D \in SUBSET Fiber, D # Fiber,
           NEW r \in Nat, NEW c \in 0 .. MaxChanges, Paid(D, r, c)
    PROVE  r < SettleRounds
<1>1. /\ Fibers \in Nat /\ MaxChanges \in Nat /\ SettleRounds \in Nat /\ c \in Nat
      /\ Fibers * c \in Nat
  BY TreeAssumption
<1>2. Cardinality(D) \in Nat /\ Cardinality(D) < Fibers
  BY <1>1, FiberCount, FS_Subset, FS_CardinalityType
<1>3. Fibers * (MaxChanges + 1) >= Fibers * c + Fibers
  <2> DEFINE more == MaxChanges - c
  <2>1. more \in Nat /\ MaxChanges + 1 = (c + 1) + more
    BY <1>1
  <2> HIDE DEF more
  <2>2. Fibers * more \in Nat
    BY <1>1, <2>1
  <2>3. Fibers * ((c + 1) + more) = Fibers * c + Fibers + Fibers * more
    BY <1>1, <2>1
  <2>4. QED
    BY <1>1, <2>1, <2>2, <2>3
<1>4. QED
  BY <1>1, <1>2, <1>3 DEF Paid

\* What is to be shown of a step.
LEMMA NextPaid ==
    ASSUME UNCHANGED composition,
           ~Fighting => /\ ~diverged'
                        /\ Fibers > 0 => \E D \in SUBSET Fiber :
                              Quiet(tree', D) /\ Paid(D, rounds', changes')
    PROVE  RoundsPaid'
<1>1. Fighting' <=> Fighting
  BY DEF Fighting, DependsOn, Uses, Fiber
<1>2. \A D : Quiet(tree, D)' <=> Quiet(tree', D)
  BY DEF Quiet, DependsOn, Uses, Fiber
<1>3. \A D : Paid(D, rounds, changes)' <=> Paid(D, rounds', changes')
  BY DEF Paid
<1>4. Fiber' = Fiber
  BY DEF Fiber
<1>5. QED
  BY <1>1, <1>2, <1>3, <1>4 DEF RoundsPaid

\* A step that ends a settle, or finds none, owes nothing.
LEMMA IdlePaid ==
    ASSUME RoundsInv, UNCHANGED composition, UNCHANGED diverged, rounds' = 0,
           changes' \in Nat
    PROVE  RoundsPaid'
<1>1. Quiet(tree', {}) /\ Paid({}, rounds', changes')
  BY NothingDue
<1>2. {} \in SUBSET Fiber
  OBVIOUS
<1>3. ~Fighting => ~diverged'
  BY DEF RoundsInv, RoundsPaid
<1>4. QED
  BY <1>1, <1>2, <1>3, NextPaid

\* A round is paid for by a fiber that has been refreshed for the last time.
LEMMA RoundPaid ==
    ASSUME RoundsInv, BootSettle \/ NextRound
    PROVE  RoundsPaid'
<1>0. /\ UNCHANGED <<composition, diverged, changes>> /\ tree' = FirstBatch(tree)
      /\ tree \in Tree
  BY DEF BootSettle, NextRound, Calm, bounds, RoundsInv, IInv, TypeOK
<1>1. tree'.queue = {} /\ tree'.batch = tree.queue /\ tree.queue \subseteq Fiber
  BY <1>0, Fields DEF FirstBatch, Tree
<1>2. SUFFICES ASSUME ~Fighting, Fibers > 0
               PROVE  \E D \in SUBSET Fiber : Quiet(tree', D) /\ Paid(D, rounds', changes')
  BY <1>0, NextPaid DEF RoundsInv, RoundsPaid
<1>3. /\ changes \in Nat /\ rounds \in Nat
      /\ Fibers \in Nat /\ Fibers * changes \in Nat
  BY TreeAssumption DEF RoundsInv, IInv, TypeOK
<1>4. PICK D \in SUBSET Fiber :
            /\ D # Fiber /\ Cardinality(D) + Fibers * changes + 1 >= rounds'
            /\ D \cap tree.queue = {} /\ \A d \in D, g \in Fiber : DependsOn(d, g) => g \in D
  <2>1. CASE BootSettle
    <3>1. 1 \in Fiber
      BY <1>2, <1>3 DEF Fiber
    <3>2. Cardinality({}) = 0
      BY FS_EmptySet
    <3>3. Cardinality({}) + Fibers * changes + 1 >= rounds'
      BY <1>3, <2>1, <3>2 DEF BootSettle
    <3>4. QED
      BY <3>1, <3>3
  <2>2. CASE NextRound
    <3>1. PICK D \in SUBSET Fiber : Quiet(tree, D) /\ Paid(D, rounds, changes)
      BY <1>2 DEF RoundsInv, RoundsPaid
    <3>2. D # Fiber /\ D \cap tree.queue = {}
      BY <1>1, <2>2, <3>1 DEF NextRound, Quiet
    <3>3. Cardinality(D) \in Nat
      BY FiberCount, FS_Subset, FS_CardinalityType
    <3>4. Cardinality(D) + Fibers * changes + 1 >= rounds'
      BY <1>3, <2>2, <3>1, <3>3 DEF NextRound, Paid
    <3>5. \A d \in D, g \in Fiber : DependsOn(d, g) => g \in D
      BY <3>1 DEF Quiet
    <3>6. QED
      BY <3>2, <3>4, <3>5
  <2>3. QED
    BY <2>1, <2>2
<1>5. PICK E \in SUBSET Fiber : Quiet(tree', E) /\ Cardinality(E) = Cardinality(D) + 1
  BY <1>1, <1>2, <1>4, QuietGrows
<1>6. Cardinality(D) \in Nat
  BY FiberCount, FS_Subset, FS_CardinalityType
<1>7. Paid(E, rounds', changes')
  BY <1>0, <1>3, <1>4, <1>5, <1>6 DEF Paid
<1>8. QED
  BY <1>5, <1>7

\* So the rounds do not run out.
LEMMA NeverDiverges ==
    ASSUME SettleRounds >= Fibers * (MaxChanges + 1), RoundsInv, Diverge
    PROVE  Fighting
<1> SUFFICES ASSUME ~Fighting PROVE FALSE
  OBVIOUS
<1>1. /\ tree.queue # {} /\ tree.queue \subseteq Fiber /\ rounds = SettleRounds
      /\ rounds \in Nat /\ changes \in 0 .. MaxChanges
  BY Fields, TreeAssumption DEF Diverge, RoundsInv, IInv, TypeOK
<1>2. Fibers > 0
  BY <1>1, TreeAssumption DEF Fiber
<1>3. PICK D \in SUBSET Fiber : Quiet(tree, D) /\ Paid(D, rounds, changes)
  BY <1>2 DEF RoundsInv, RoundsPaid
<1>4. D # Fiber
  BY <1>1, <1>3 DEF Quiet
<1>5. rounds < SettleRounds
  BY <1>1, <1>3, <1>4, RoundsLeft
<1>6. QED
  BY <1>1, <1>5

\* A settle that fights may diverge.
LEMMA FightsAnyway ==
    ASSUME Fighting, UNCHANGED composition
    PROVE  RoundsPaid'
BY NextPaid

\* A refresh wakes none of the fibers that are done.
LEMMA RefreshPaid ==
    ASSUME RoundsInv, NEW f \in Fiber, Refresh(f)
    PROVE  RoundsPaid'
<1>0. IInv /\ Ordered(tree, {}) /\ changes \in Nat
  BY TreeAssumption DEF RoundsInv, IInv, TypeOK
<1>1. CASE RefreshAborts(f)
  <2>1. rounds' = 0 /\ UNCHANGED <<composition, diverged, changes>>
    BY <1>1 DEF RefreshAborts, Escape
  <2>2. QED
    BY <1>0, <2>1, IdlePaid
<1>2. CASE RefreshOnly(f) \/ RefreshLoads(f) \/ RefreshFails(f)
  <2>1. UNCHANGED <<composition, diverged, rounds, changes>> /\ f \in tree.batch
    BY <1>2 DEF RefreshOnly, RefreshLoads, RefreshFails, Calm, bounds, Ready
  <2>2. Wakes(tree, tree', f)
    BY <1>0, <1>2, RefreshWakes
  <2>3. ASSUME NEW D \in SUBSET Fiber, Quiet(tree, D) PROVE Quiet(tree', D)
    BY <2>1, <2>2, <2>3, QuietKept
  <2>4. QED
    BY <2>1, <2>3, NextPaid DEF RoundsInv, RoundsPaid
<1>3. CASE RefreshGone(f)
  <2>1. UNCHANGED <<composition, diverged, rounds, changes>>
    BY <1>3 DEF RefreshGone, Calm, bounds
  <2>2. tree'.queue = tree.queue /\ tree'.batch \subseteq tree.batch
    BY <1>0, <1>3 DEF RefreshGone, Popped, IInv, TypeOK, Tree
  <2>3. ASSUME NEW D \in SUBSET Fiber, Quiet(tree, D) PROVE Quiet(tree', D)
    BY <2>2, <2>3 DEF Quiet
  <2>4. QED
    BY <2>1, <2>3, NextPaid DEF RoundsInv, RoundsPaid
<1>4. QED
  BY <1>1, <1>2, <1>3 DEF Refresh

\* So does the first round of a settle that a disposer of a child starts.
LEMMA ChildPaid ==
    ASSUME RoundsInv, UNCHANGED composition, ChildStep
    PROVE  RoundsPaid'
<1>0. /\ UNCHANGED <<diverged, changes>> /\ ~Settling /\ tree \in Tree
      /\ changes \in Nat /\ rounds = 0
  BY TreeAssumption DEF ChildStep, UnmountNext, UnmountEnd, history, bounds, Settling,
     RoundsInv, IInv, TypeOK
<1>1. CASE rounds' = 0
  BY <1>0, <1>1, IdlePaid
<1>2. CASE rounds' # 0
  <2>1. PICK k \in Fiber : UnmountNext(k)
    BY <1>0, <1>2 DEF ChildStep, UnmountEnd
  <2>2. PICK s \in Held(tree, {k}) :
            /\ tree' = FirstBatch(Withdraw(tree, {s})) /\ rounds' = 1
    BY <1>0, <1>2, <2>1 DEF UnmountNext, SettleAfter
  <2> DEFINE T == Withdraw(tree, {s})
  <2>3. T \in Tree
    <3>1. {s} \in SUBSET Service
      BY <1>0, Fields DEF Held
    <3>2. QED
      BY <1>0, <3>1, WithdrawFields
  <2>4. tree' = FirstBatch(T)
    BY <2>2
  <2> HIDE DEF T
  <2>5. tree'.queue = {}
    BY <2>3, <2>4 DEF FirstBatch, Tree
  <2> SUFFICES ASSUME ~Fighting, Fibers > 0
               PROVE  \E D \in SUBSET Fiber : Quiet(tree', D) /\ Paid(D, rounds', changes')
    BY <1>0, NextPaid DEF RoundsInv, RoundsPaid
  <2>6. Fibers \in Nat /\ Fibers * changes \in Nat /\ {} # Fiber
    <3>1. Fibers \in Nat /\ Fibers * changes \in Nat
      BY <1>0, TreeAssumption
    <3>2. 1 \in Fiber
      BY <3>1 DEF Fiber
    <3>3. QED
      BY <3>1, <3>2
  <2>7. PICK E \in SUBSET Fiber : Quiet(tree', E) /\ Cardinality(E) = Cardinality({}) + 1
    BY <2>5, <2>6, QuietGrows
  <2>8. Paid(E, rounds', changes')
    BY <1>0, <2>2, <2>6, <2>7, FS_EmptySet DEF Paid
  <2>9. QED
    BY <2>7, <2>8
<1>3. QED
  BY <1>1, <1>2

\* A call by the host pays for the rounds of the fibers it wakes.
LEMMA ChangePaid ==
    ASSUME RoundsInv, Change, rounds' = rounds \/ rounds' = 1
    PROVE  RoundsPaid'
<1>0. /\ UNCHANGED <<composition, diverged>> /\ changes' = changes + 1
      /\ changes \in Nat /\ rounds \in Nat
  BY TreeAssumption DEF Change, history, RoundsInv, IInv, TypeOK
<1>1. SUFFICES ASSUME ~Fighting, Fibers > 0
               PROVE  \E D \in SUBSET Fiber : Quiet(tree', D) /\ Paid(D, rounds', changes')
  BY <1>0, NextPaid DEF RoundsInv, RoundsPaid
<1>2. PICK D \in SUBSET Fiber : Paid(D, rounds, changes)
  BY <1>1 DEF RoundsInv, RoundsPaid
<1>3. Paid({}, rounds', changes')
  BY <1>0, <1>1, <1>2, CallPays
<1>4. Quiet(tree', {}) /\ {} \in SUBSET Fiber
  BY DEF Quiet
<1>5. QED
  BY <1>3, <1>4

\* Every step of the tree is paid for.
LEMMA RoundsStep ==
    ASSUME SettleRounds >= Fibers * (MaxChanges + 1), RoundsInv, IInv', [Next]_vars
    PROVE  RoundsInv'
<1>0. /\ UNCHANGED composition /\ Ordered(tree, {})' /\ changes' \in Nat
      /\ rounds \in Nat
  BY CompositionFixed, OrderedStep, TreeAssumption DEF RoundsInv, IInv, TypeOK
<1> SUFFICES RoundsPaid'
  BY <1>0 DEF RoundsInv
<1>1. CASE SettleStep
  <2>1. CASE Diverge
    BY <1>0, <2>1, NeverDiverges, FightsAnyway
  <2>2. CASE Settled
    BY <1>0, <2>2, IdlePaid DEF Settled
  <2>3. QED
    BY <1>1, <2>1, <2>2, RoundPaid, RefreshPaid DEF SettleStep
<1>2. CASE HostStep
  <2>1. CASE Dispose
    <3>1. rounds' = 0 /\ UNCHANGED diverged
      BY <1>0, <2>1 DEF Dispose, Settling
    <3>2. QED
      BY <1>0, <3>1, IdlePaid
  <2>2. CASE ~Dispose
    <3>1. Change /\ (rounds' = rounds \/ rounds' = 1)
      BY <1>2, <2>2 DEF HostStep, Restart, Unmount, WithdrawService, Republish, SettleAfter
    <3>2. QED
      BY <3>1, ChangePaid
  <2>3. QED
    BY <2>1, <2>2
<1>3. CASE DisposeStep
  <2>1. rounds' = rounds /\ UNCHANGED diverged /\ phase = "disposing"
    BY <1>3 DEF DisposeStep, DisposeNext, DisposeEnd, history
  <2>2. rounds = 0
    BY <1>0, <2>1 DEF RoundsInv, IInv, Control, Settling
  <2>3. QED
    BY <1>0, <2>1, <2>2, IdlePaid
<1>4. CASE UNCHANGED vars
  <2>1. UNCHANGED <<tree, diverged, rounds, changes>>
    BY <1>4 DEF vars, history, bounds
  <2>2. QED
    BY <1>0, <2>1, NextPaid DEF RoundsInv, RoundsPaid
<1>5. QED
  BY <1>0, <1>1, <1>2, <1>3, <1>4, ChildPaid DEF Next

\* Root.settle: exhausting the rounds means that rows are fighting, as long as there is
\* a round for every fiber, for the boot and again for each call by the host.
THEOREM DivergenceNeedsAFight ==
    ASSUME SettleRounds >= Fibers * (MaxChanges + 1)
    PROVE  Spec => []DivergenceIsAFight
<1>1. Init => RoundsInv
  <2> SUFFICES ASSUME Init PROVE RoundsInv
    OBVIOUS
  <2>1. diverged = FALSE /\ Quiet(tree, {}) /\ Paid({}, rounds, changes)
    BY NothingDue DEF Init
  <2>2. RoundsPaid
    BY <2>1 DEF RoundsPaid
  <2>3. QED
    BY <2>2, InitInv, OrderedInit DEF RoundsInv
<1>2. RoundsInv /\ IInv' /\ [Next]_vars => RoundsInv'
  BY RoundsStep
<1>3. RoundsInv => DivergenceIsAFight
  BY DEF RoundsInv, RoundsPaid, Fighting, DivergenceIsAFight
<1>4. QED
  BY <1>1, <1>2, <1>3, Invariant, PTL DEF Spec
=============================================================================
