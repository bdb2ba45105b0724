-------------------------- MODULE PluginTreeProofs --------------------------
(***************************************************************************)
(* What PluginTree keeps for every set of rows, children and services, and *)
(* every composition, whatever the plugins do and wherever a refresh       *)
(* aborts.                                                                 *)
(*                                                                         *)
(* A refresh and a disposal are built from a few operations on the tree,   *)
(* so the invariant is stated of any tree (Good) and each operation is     *)
(* shown to keep it.  The fiber being refreshed is exempt (X) until its    *)
(* refresh ends, as it is neither queued nor up to date meanwhile.         *)
(***************************************************************************)
EXTENDS PluginTree, TLAPS

-----------------------------------------------------------------------------
(* The inductive invariant *)

\* A mounted child has an active parent.
Kids(T) == \A k \in Mounted(T) \ Row : T.state[Parent[k]] = "active"

\* Only a child is unmounted step by step, and only when the tree is up.
Unmounts(T) ==
    /\ T.unwinding \subseteq T.unmounting /\ T.unmounting \cap Row = {}
    /\ T.unmounting # {} => phase = "up"

\* A service is held by an active fiber or one whose effects are being undone, unless
\* its provide() was cut short.
OwnedUp(T, pub) ==
    \A s \in Service \ (pub \cup T.orphans) :
        T.owner[s] # Nobody =>
            /\ s \in T.held
            /\ T.state[T.owner[s]] = "active" \/ T.owner[s] \in T.unwinding

\* Between refreshes a fiber has an epoch exactly when it is active, unless it is being
\* unmounted; otherwise only an aborted refresh leaves one loading or unloading.
Consistent(T, f, ab) ==
    /\ T.state[f] \in {"loading", "unloading"} => f \in ab \cup T.unmounting
    /\ T.state[f] = "active" => T.epoch[f] # INACTIVE
    /\ T.state[f] \in {"absent", "pending", "failed"} => T.epoch[f] = INACTIVE

\* A fiber whose epoch is not that of the registrations is queued.
Waits(T, f) == f \in T.queue \cup T.batch \/ T.epoch[f] = compute_epoch(T, f)
Fresh(T, f, ab) == f \in Mounted(T) \ ab /\ T.state[f] # "failed" => Waits(T, f)

Good(T, pub, ab, X) ==
    /\ T \in Tree /\ Kids(T) /\ Unmounts(T) /\ OwnedUp(T, pub)
    /\ \A f \in Fiber \ X : Consistent(T, f, ab) /\ Fresh(T, f, ab)

\* What is under way in each phase.
Control ==
    /\ Settling => phase \in {"boot", "up"}
    /\ ~Settling => tree.batch = {} /\ publishing = {}
    /\ phase \in {"disposing", "closed"} => Mounted(tree) \subseteq leaving
    /\ phase = "closed" => leaving = {} /\ tree.queue = {}

IInv == TypeOK /\ Good(tree, publishing, aborted, {}) /\ Control

-----------------------------------------------------------------------------
(* Epochs *)

\* What a composition gives each fiber.
LEMMA UsesType ==
    ASSUME composition \in Compositions, NEW f \in Fiber
    PROVE  /\ composition.inject[f] \subseteq Service /\ Uses(f) \subseteq Service
           /\ composition.provide[f] \subseteq Service
<1>1. composition \in [inject : [Fiber -> SUBSET Service],
                       optional : [Fiber -> SUBSET Service],
                       provide : [Fiber -> SUBSET Service]]
  BY TreeAssumption
<1>2. QED
  BY <1>1 DEF Uses

\* The parent of a fiber is another, and a child has no children.
LEMMA Parents ==
    ASSUME NEW f \in Fiber, NEW k \in Children(f)
    PROVE  /\ k \in Fiber /\ k # f /\ k \notin Row /\ f \in Row /\ Parent[k] = f
           /\ f # Nobody
BY TreeAssumption DEF Children, Row, Fiber, Nobody

\* An epoch is one, and is INACTIVE exactly when a required service is missing.
LEMMA Epochs ==
    ASSUME composition \in Compositions, NEW T \in Tree, NEW f \in Fiber
    PROVE  /\ compute_epoch(T, f) \in [Service -> Serial]
           /\ INACTIVE \in [Service -> Serial]
           /\ compute_epoch(T, f) = INACTIVE <=> Missing(T, f) # {}
           /\ \A s \in Service \ Uses(f) : compute_epoch(T, f)[s] # "live"
<1>1. PICK s \in Service : TRUE
  BY TreeAssumption
<1>2. INACTIVE \in [Service -> Serial]
  BY DEF INACTIVE, Serial
<1>3. CASE Missing(T, f) # {}
  BY <1>2, <1>3 DEF compute_epoch, INACTIVE
<1>4. CASE Missing(T, f) = {}
  <2>1. compute_epoch(T, f) =
          [r \in Service |-> IF r \in Uses(f) /\ T.owner[r] # Nobody THEN "live" ELSE "none"]
    BY <1>4 DEF compute_epoch
  <2>2. compute_epoch(T, f)[s] # INACTIVE[s]
    BY <2>1 DEF INACTIVE
  <2>3. QED
    BY <1>2, <1>4, <2>1, <2>2 DEF Serial
<1>5. QED
  BY <1>3, <1>4

\* The epoch of a fiber depends on the services it uses.
LEMMA EpochSame ==
    ASSUME NEW T, NEW U, NEW f,
           \A s \in Uses(f) : T.owner[s] = Nobody <=> U.owner[s] = Nobody
    PROVE  compute_epoch(T, f) = compute_epoch(U, f)
<1>1. Missing(T, f) = Missing(U, f)
  BY DEF Missing, Uses
<1>2. QED
  BY <1>1 DEF compute_epoch

\* The fields of a tree.
LEMMA Fields ==
    ASSUME NEW T \in Tree
    PROVE  /\ T.state \in [Fiber -> State] /\ T.epoch \in [Fiber -> [Service -> Serial]]
           /\ T.restart \subseteq Fiber /\ T.owner \in [Service -> {Nobody} \cup Fiber]
           /\ T.held \subseteq Service /\ T.orphans \subseteq Service
           /\ T.queue \subseteq Fiber /\ T.batch \subseteq Fiber
           /\ T.after \in [Fiber -> SUBSET Fiber]
           /\ T.unmounting \subseteq Fiber /\ T.unwinding \subseteq Fiber
BY DEF Tree

-----------------------------------------------------------------------------
(* Withdraw *)

\* What Withdraw does to each field.
LEMMA WithdrawFields ==
    ASSUME NEW T \in Tree, NEW S \in SUBSET Service
    PROVE  LET W == Withdraw(T, S) IN
           /\ W \in Tree
           /\ W.state = T.state /\ W.restart = T.restart /\ W.batch = T.batch
           /\ W.after = T.after
           /\ W.unmounting = T.unmounting /\ W.unwinding = T.unwinding
           /\ W.queue = T.queue \cup UsersOf(T, S)
           /\ W.held = T.held \ S /\ W.orphans = T.orphans \ S
           /\ W.owner = [s \in Service |-> IF s \in S THEN Nobody ELSE T.owner[s]]
           /\ W.epoch = [f \in Fiber |-> [s \in Service |->
                 IF s \in S /\ T.epoch[f][s] = "live" THEN "gone" ELSE T.epoch[f][s]]]
<1> DEFINE owner == [s \in Service |-> IF s \in S THEN Nobody ELSE T.owner[s]]
           epoch == [f \in Fiber |-> [s \in Service |->
                 IF s \in S /\ T.epoch[f][s] = "live" THEN "gone" ELSE T.epoch[f][s]]]
           W == Withdraw(T, S)
<1>1. /\ owner \in [Service -> {Nobody} \cup Fiber]
      /\ epoch \in [Fiber -> [Service -> Serial]]
      /\ T.held \ S \subseteq Service /\ T.orphans \ S \subseteq Service
      /\ T.queue \cup UsersOf(T, S) \subseteq Fiber
  BY Fields DEF Serial, UsersOf, Mounted
<1> HIDE DEF owner, epoch
<1>2. W = [T EXCEPT !.owner = owner, !.held = @ \ S, !.orphans = @ \ S,
                    !.epoch = epoch, !.queue = @ \cup UsersOf(T, S)]
  BY DEF Withdraw, owner, epoch
<1>3. W \in Tree
  BY <1>1, <1>2, ZenonT(40) DEF Tree
<1>4. QED
  BY <1>2, <1>3 DEF Tree, owner, epoch

\* The mounted fibers are those of the states; UsersOf are mounted.
LEMMA SameMounted ==
    ASSUME NEW T, NEW U, T.state = U.state, NEW S
    PROVE  Mounted(T) = Mounted(U) /\ UsersOf(T, S) = UsersOf(U, S)
BY DEF Mounted, UsersOf

\* A fiber whose services are withdrawn waits; INACTIVE stays INACTIVE.
LEMMA WithdrawEpoch ==
    ASSUME composition \in Compositions, NEW T \in Tree, NEW S \in SUBSET Service,
           NEW f \in Fiber
    PROVE  LET W == Withdraw(T, S) IN
           /\ W.epoch[f] = INACTIVE <=> T.epoch[f] = INACTIVE
           /\ compute_epoch(T, f) = INACTIVE => compute_epoch(W, f) = INACTIVE
           /\ f \in Mounted(T) /\ Waits(T, f) => Waits(W, f)
<1> DEFINE W == Withdraw(T, S)
<1>1. /\ W \in Tree /\ W.batch = T.batch
      /\ W.queue = T.queue \cup UsersOf(T, S)
      /\ W.owner = [s \in Service |-> IF s \in S THEN Nobody ELSE T.owner[s]]
      /\ W.epoch[f] = [s \in Service |->
             IF s \in S /\ T.epoch[f][s] = "live" THEN "gone" ELSE T.epoch[f][s]]
  <2>1. /\ W \in Tree /\ W.batch = T.batch
        /\ W.queue = T.queue \cup UsersOf(T, S)
        /\ W.owner = [s \in Service |-> IF s \in S THEN Nobody ELSE T.owner[s]]
        /\ W.epoch = [g \in Fiber |-> [s \in Service |->
               IF s \in S /\ T.epoch[g][s] = "live" THEN "gone" ELSE T.epoch[g][s]]]
    BY WithdrawFields
  <2> HIDE DEF W
  <2>2. QED
    BY <2>1
<1> HIDE DEF W
<1>2. T.epoch[f] \in [Service -> Serial]
  BY DEF Tree
<1>3. W.epoch[f] = INACTIVE <=> T.epoch[f] = INACTIVE
  <2>1. W.epoch[f] \in [Service -> Serial]
    BY <1>1 DEF Tree
  <2>2. \A s \in Service : W.epoch[f][s] = "inactive" <=> T.epoch[f][s] = "inactive"
    BY <1>1
  <2>3. QED
    BY <1>2, <2>1, <2>2 DEF INACTIVE
<1>4. Missing(T, f) \subseteq Missing(W, f)
  BY <1>1, UsesType DEF Missing
<1>5. compute_epoch(T, f) = INACTIVE => compute_epoch(W, f) = INACTIVE
  BY <1>1, <1>4, Epochs
<1>6. ASSUME f \in Mounted(T), Waits(T, f)
      PROVE  Waits(W, f)
  <2>1. CASE f \in T.queue \cup T.batch \/ Uses(f) \cap S # {}
    BY <1>1, <1>6, <2>1 DEF Waits, UsersOf
  <2>2. CASE T.epoch[f] = compute_epoch(T, f) /\ Uses(f) \cap S = {}
    <3>1. compute_epoch(W, f) = compute_epoch(T, f)
      BY <1>1, <2>2, EpochSame, UsesType
    <3>2. \A s \in S : T.epoch[f][s] # "live"
      BY <2>2, Epochs
    <3>3. W.epoch[f] = T.epoch[f]
      BY <1>1, <1>2, <3>2
    <3>4. QED
      BY <2>2, <3>1, <3>3 DEF Waits
  <2>3. QED
    BY <1>6, <2>1, <2>2 DEF Waits
<1>7. QED
  BY <1>3, <1>5, <1>6 DEF W

\* Withdrawing services keeps the invariant.
LEMMA WithdrawGood ==
    ASSUME composition \in Compositions, NEW T, NEW pub, NEW ab, NEW X,
           NEW S \in SUBSET Service, Good(T, pub, ab, X)
    PROVE  Good(Withdraw(T, S), pub, ab, X)
<1> DEFINE W == Withdraw(T, S)
<1>0. T \in Tree
  BY DEF Good
<1>1. /\ W \in Tree /\ W.state = T.state /\ W.batch = T.batch
      /\ W.queue = T.queue \cup UsersOf(T, S)
      /\ W.held = T.held \ S /\ W.orphans = T.orphans \ S
      /\ W.unmounting = T.unmounting /\ W.unwinding = T.unwinding
      /\ W.owner = [s \in Service |-> IF s \in S THEN Nobody ELSE T.owner[s]]
  BY <1>0, WithdrawFields, ZenonT(40)
<1>2. \A f \in Fiber : /\ W.epoch[f] = INACTIVE <=> T.epoch[f] = INACTIVE
                       /\ f \in Mounted(T) /\ Waits(T, f) => Waits(W, f)
  BY <1>0, WithdrawEpoch
<1> HIDE DEF W
<1>3. Mounted(W) = Mounted(T)
  BY <1>1 DEF Mounted
<1>4. Kids(W)
  BY <1>1, <1>3 DEF Good, Kids
<1>5. Unmounts(W)
  BY <1>1 DEF Good, Unmounts
<1>6. OwnedUp(W, pub)
  BY <1>1 DEF Good, OwnedUp
<1>7. ASSUME NEW f \in Fiber \ X
      PROVE  Consistent(W, f, ab) /\ Fresh(W, f, ab)
  <2>1. Consistent(T, f, ab) /\ Fresh(T, f, ab)
    BY DEF Good
  <2>2. Consistent(W, f, ab)
    BY <1>1, <1>2, <2>1 DEF Consistent
  <2>3. Fresh(W, f, ab)
    BY <1>1, <1>2, <1>3, <2>1 DEF Fresh
  <2>4. QED
    BY <2>2, <2>3
<1>8. QED
  BY <1>1, <1>4, <1>5, <1>6, <1>7 DEF Good, W

-----------------------------------------------------------------------------
(* Forget and Discard *)

\* What Forget does to each field.
LEMMA ForgetFields ==
    ASSUME NEW T \in Tree, NEW F \in SUBSET Fiber
    PROVE  LET G == Forget(T, F) IN
           /\ G \in Tree
           /\ G.owner = T.owner /\ G.held = T.held /\ G.orphans = T.orphans
           /\ G.queue = T.queue /\ G.batch = T.batch /\ G.restart = T.restart \ F
           /\ G.unmounting = T.unmounting \ F /\ G.unwinding = T.unwinding \ F
           /\ G.state = [f \in Fiber |-> IF f \in F THEN "absent" ELSE T.state[f]]
           /\ G.epoch = [f \in Fiber |-> IF f \in F THEN INACTIVE ELSE T.epoch[f]]
<1> DEFINE state == [f \in Fiber |-> IF f \in F THEN "absent" ELSE T.state[f]]
           epoch == [f \in Fiber |-> IF f \in F THEN INACTIVE ELSE T.epoch[f]]
           after == [f \in Fiber |-> IF f \in F THEN {} ELSE T.after[f] \ F]
           G == Forget(T, F)
<1>1. /\ state \in [Fiber -> State]
      /\ T.restart \ F \subseteq Fiber /\ T.unmounting \ F \subseteq Fiber
      /\ T.unwinding \ F \subseteq Fiber
      /\ after \in [Fiber -> SUBSET Fiber]
  BY Fields DEF State
<1>2. epoch \in [Fiber -> [Service -> Serial]]
  <2>1. INACTIVE \in [Service -> Serial]
    BY DEF INACTIVE, Serial
  <2>2. QED
    BY <2>1, Fields
<1> HIDE DEF state, epoch, after
<1>3. G = [T EXCEPT !.state = state, !.epoch = epoch, !.restart = @ \ F,
                    !.unmounting = @ \ F, !.unwinding = @ \ F, !.after = after]
  BY DEF Forget, state, epoch, after
<1>4. G \in Tree
  BY <1>1, <1>2, <1>3, ZenonT(40) DEF Tree
<1>5. QED
  BY <1>3, <1>4 DEF Tree, state, epoch

\* Fibers that own nothing and have no children but each other can be forgotten.
LEMMA ForgetGood ==
    ASSUME composition \in Compositions, NEW T, NEW pub, NEW ab, NEW X,
           NEW F \in SUBSET Fiber, Good(T, pub, ab, X),
           \A s \in Service \ (pub \cup T.orphans) : T.owner[s] \notin F,
           \A k \in Mounted(T) \ Row : Parent[k] \in F => k \in F
    PROVE  Good(Forget(T, F), pub, ab, X)
<1> DEFINE G == Forget(T, F)
<1>0. T \in Tree
  BY DEF Good
<1>1. /\ G \in Tree
      /\ G.owner = T.owner /\ G.held = T.held /\ G.orphans = T.orphans
      /\ G.queue = T.queue /\ G.batch = T.batch
      /\ G.unmounting = T.unmounting \ F /\ G.unwinding = T.unwinding \ F
      /\ G.state = [f \in Fiber |-> IF f \in F THEN "absent" ELSE T.state[f]]
      /\ G.epoch = [f \in Fiber |-> IF f \in F THEN INACTIVE ELSE T.epoch[f]]
  BY <1>0, ForgetFields
<1> HIDE DEF G
<1>2. Mounted(G) = Mounted(T) \ F
  BY <1>1 DEF Mounted
<1>3. \A k \in Mounted(T) \ Row : Parent[k] \in Fiber
  BY TreeAssumption DEF Mounted, Row, Children
<1>4. Kids(G)
  BY <1>1, <1>2, <1>3 DEF Good, Kids
<1>5. Unmounts(G)
  BY <1>1 DEF Good, Unmounts
<1>6. OwnedUp(G, pub)
  <2>1. T.owner \in [Service -> {Nobody} \cup Fiber]
    BY <1>0, Fields
  <2>2. QED
    BY <1>1, <2>1 DEF Good, OwnedUp
<1>7. ASSUME NEW f \in Fiber \ X
      PROVE  Consistent(G, f, ab) /\ Fresh(G, f, ab)
  <2>1. Consistent(T, f, ab) /\ Fresh(T, f, ab)
    BY DEF Good
  <2>2. Consistent(G, f, ab)
    BY <1>1, <2>1 DEF Consistent
  <2>3. compute_epoch(G, f) = compute_epoch(T, f)
    BY <1>1, EpochSame
  <2>4. Fresh(G, f, ab)
    BY <1>1, <1>2, <2>1, <2>3 DEF Fresh, Waits
  <2>5. QED
    BY <2>2, <2>4
<1>8. QED
  BY <1>1, <1>4, <1>5, <1>6, <1>7 DEF Good, G

\* Once the services of F are withdrawn, F owns none but the exempt ones.
LEMMA WithdrawOwned ==
    ASSUME NEW T \in Tree, NEW pub, NEW F \in SUBSET Fiber, OwnedUp(T, pub)
    PROVE  LET W == Withdraw(T, Held(T, F)) IN
           /\ Held(T, F) \in SUBSET Service
           /\ \A s \in Service \ (pub \cup W.orphans) : W.owner[s] \notin F
<1>1. Held(T, F) \in SUBSET Service
  BY Fields DEF Held
<1>2. Nobody \notin F
  BY DEF Nobody, Fiber
<1> DEFINE W == Withdraw(T, Held(T, F))
<1>3. /\ W.orphans = T.orphans \ Held(T, F)
      /\ W.owner = [s \in Service |-> IF s \in Held(T, F) THEN Nobody ELSE T.owner[s]]
  BY <1>1, WithdrawFields
<1> HIDE DEF W
<1>4. ASSUME NEW s \in Service \ (pub \cup W.orphans), s \notin Held(T, F)
      PROVE  T.owner[s] \notin F
  BY <1>2, <1>3, <1>4 DEF OwnedUp, Held
<1>5. \A s \in Service \ (pub \cup W.orphans) : W.owner[s] \notin F
  BY <1>2, <1>3, <1>4
<1>6. QED
  BY <1>1, <1>5 DEF W

\* A fiber owns nothing that outlasts it, and none of its children is mounted.
Bare(T, f, pub) ==
    /\ \A k \in Children(f) : T.state[k] = "absent"
    /\ \A s \in Service \ (pub \cup T.orphans) : T.owner[s] # f

\* Or what it owns is being undone.
Idle(T, f, pub) ==
    /\ \A k \in Children(f) : T.state[k] = "absent"
    /\ \/ f \in T.unwinding
       \/ \A s \in Service \ (pub \cup T.orphans) : T.owner[s] # f

\* The effects of a fiber that owns nothing are undone.
LEMMA UnwoundGood ==
    ASSUME NEW T, NEW pub, NEW ab, NEW X, NEW f \in Fiber,
           Good(T, pub, ab, X), Bare(T, f, pub)
    PROVE  LET U == [T EXCEPT !.unwinding = @ \ {f}] IN
           /\ Good(U, pub, ab, X) /\ U \in Tree
           /\ U.state = T.state /\ U.epoch = T.epoch /\ U.owner = T.owner
           /\ U.orphans = T.orphans /\ U.queue = T.queue /\ U.batch = T.batch
<1> DEFINE U == [T EXCEPT !.unwinding = @ \ {f}]
<1>0. T \in Tree
  BY DEF Good
<1>1. U \in Tree
  <2>1. T.unwinding \ {f} \in SUBSET Fiber
    BY <1>0, Fields
  <2>2. QED
    BY <1>0, <2>1, Zenon DEF Tree
<1>2. /\ U.state = T.state /\ U.epoch = T.epoch /\ U.owner = T.owner /\ U.held = T.held
      /\ U.orphans = T.orphans /\ U.queue = T.queue /\ U.batch = T.batch
      /\ U.unmounting = T.unmounting /\ U.unwinding = T.unwinding \ {f}
  BY <1>0 DEF Tree
<1> HIDE DEF U
<1>3. Mounted(U) = Mounted(T)
  BY <1>2 DEF Mounted
<1>4. Kids(U) /\ Unmounts(U) /\ OwnedUp(U, pub)
  BY <1>2, <1>3 DEF Good, Kids, Unmounts, OwnedUp, Bare
<1>5. ASSUME NEW g \in Fiber \ X
      PROVE  Consistent(U, g, ab) /\ Fresh(U, g, ab)
  <2>1. Consistent(T, g, ab) /\ Fresh(T, g, ab)
    BY DEF Good
  <2>2. compute_epoch(U, g) = compute_epoch(T, g)
    BY <1>2, EpochSame
  <2>3. QED
    BY <1>2, <1>3, <2>1, <2>2 DEF Consistent, Fresh, Waits
<1>6. QED
  BY <1>1, <1>2, <1>4, <1>5 DEF Good, U

\* A fiber that is not active is idle.
LEMMA InactiveIdle ==
    ASSUME NEW T, NEW pub, NEW ab, NEW X, Good(T, pub, ab, X), NEW f \in Fiber,
           T.state[f] # "active"
    PROVE  Idle(T, f, pub)
<1>1. f \in T.unwinding \/ \A s \in Service \ (pub \cup T.orphans) : T.owner[s] # f
  BY DEF Good, OwnedUp, Nobody, Fiber
<1>2. ASSUME NEW k \in Children(f)
      PROVE  T.state[k] = "absent"
  <2>1. k \in Fiber /\ k \notin Row /\ Parent[k] = f
    BY Parents
  <2>2. QED
    BY <2>1 DEF Good, Kids, Mounted
<1>3. QED
  BY <1>1, <1>2 DEF Idle

\* Undoing a load keeps the invariant and leaves the fiber idle.
LEMMA DiscardGood ==
    ASSUME composition \in Compositions, NEW T, NEW pub, NEW ab, NEW X, NEW f \in Fiber,
           Good(T, pub, ab, X)
    PROVE  LET D == Discard(T, f) IN
           /\ Good(D, pub, ab, X) /\ D \in Tree
           /\ Idle(D, f, pub) /\ Bare(D, f, pub)
           /\ D.state[f] = T.state[f]
           /\ D.epoch[f] = INACTIVE <=> T.epoch[f] = INACTIVE
           /\ compute_epoch(T, f) = INACTIVE => compute_epoch(D, f) = INACTIVE
           /\ f \in Mounted(T) /\ Waits(T, f) => Waits(D, f)
<1> DEFINE F == Children(f) \cup {f}
           S == Held(T, F)
           W == Withdraw(T, S)
           G == Forget(W, Children(f))
           D == [G EXCEPT !.unwinding = @ \ {f}]
<1>0. T \in Tree /\ OwnedUp(T, pub)
  BY DEF Good
<1>1. F \in SUBSET Fiber /\ Children(f) \in SUBSET Fiber
  BY DEF Children
<1>2. /\ S \in SUBSET Service
      /\ \A s \in Service \ (pub \cup W.orphans) : W.owner[s] \notin F
  <2> HIDE DEF F
  <2>1. QED
    BY <1>0, <1>1, WithdrawOwned
<1> HIDE DEF S
<1>3. /\ Good(W, pub, ab, X)
      /\ W \in Tree /\ W.state = T.state
  BY <1>0, <1>2, WithdrawGood, WithdrawFields
<1>4. /\ W.epoch[f] = INACTIVE <=> T.epoch[f] = INACTIVE
      /\ compute_epoch(T, f) = INACTIVE => compute_epoch(W, f) = INACTIVE
      /\ f \in Mounted(T) /\ Waits(T, f) => Waits(W, f)
  BY <1>0, <1>2, WithdrawEpoch
<1> HIDE DEF W
<1>5. f \notin Children(f)
  BY Parents
<1>6. \A k \in Mounted(W) \ Row : Parent[k] \in Children(f) => k \in Children(f)
  <2>1. \A k \in Mounted(W) \ Row : Parent[k] \notin Children(f)
    BY TreeAssumption DEF Mounted, Row, Children, Nobody, Fiber
  <2>2. QED
    BY <2>1
<1>7. Good(G, pub, ab, X)
  BY <1>1, <1>2, <1>3, <1>6, ForgetGood
<1>8. /\ G \in Tree
      /\ G.owner = W.owner /\ G.orphans = W.orphans
      /\ G.queue = W.queue /\ G.batch = W.batch
      /\ G.state = [g \in Fiber |-> IF g \in Children(f) THEN "absent" ELSE W.state[g]]
      /\ G.epoch = [g \in Fiber |-> IF g \in Children(f) THEN INACTIVE ELSE W.epoch[g]]
  BY <1>1, <1>3, ForgetFields
<1>9. D = Discard(T, f)
  BY DEF Discard, D, G, W, S, F
<1> HIDE DEF G
<1>10. Bare(G, f, pub)
  BY <1>1, <1>2, <1>8 DEF Bare
<1>11. /\ Good(D, pub, ab, X) /\ D \in Tree
       /\ D.state = G.state /\ D.epoch = G.epoch /\ D.owner = G.owner
       /\ D.orphans = G.orphans /\ D.queue = G.queue /\ D.batch = G.batch
  BY <1>7, <1>10, UnwoundGood
<1> HIDE DEF D
<1>12. Idle(D, f, pub) /\ Bare(D, f, pub)
  BY <1>10, <1>11 DEF Idle, Bare
<1>13. D.state[f] = T.state[f] /\ D.epoch[f] = W.epoch[f]
  BY <1>3, <1>5, <1>8, <1>11
<1>14. compute_epoch(D, f) = compute_epoch(W, f)
  BY <1>8, <1>11, EpochSame
<1>15. Waits(W, f) => Waits(D, f)
  BY <1>8, <1>11, <1>13, <1>14 DEF Waits
<1>16. QED
  BY <1>4, <1>9, <1>11, <1>12, <1>13, <1>14, <1>15

-----------------------------------------------------------------------------
(* Updates of the exempt fibers *)

\* A change to the exempt fibers and the queue that takes no other mounted fiber off it.
LEMMA Update ==
    ASSUME NEW T, NEW U \in Tree, NEW pub, NEW pub2, NEW ab, NEW ab2, NEW X,
           Good(T, pub, ab, X), U.owner = T.owner, OwnedUp(U, pub2),
           \A g \in Fiber \ X : /\ U.state[g] = T.state[g] /\ U.epoch[g] = T.epoch[g]
                                /\ g \in ab <=> g \in ab2,
           \A g \in Fiber \cap X :
               \/ U.state[g] = T.state[g]
               \/ /\ T.state[g] # "absent" /\ U.state[g] # "absent"
                  /\ \A k \in Children(g) : T.state[k] = "absent",
           ((T.queue \cup T.batch) \cap Mounted(T)) \ X \subseteq U.queue \cup U.batch,
           U.unmounting = T.unmounting, U.unwinding = T.unwinding
    PROVE  Good(U, pub2, ab2, X)
<1>1. Mounted(U) = Mounted(T)
  BY DEF Mounted
<1>2. ASSUME NEW k \in Mounted(U) \ Row
      PROVE  U.state[Parent[k]] = "active"
  <2>1. T.state[Parent[k]] = "active"
    BY <1>1 DEF Good, Kids
  <2>2. k \in Fiber /\ Parent[k] \in Fiber /\ k \in Children(Parent[k])
    BY TreeAssumption DEF Mounted, Row, Children
  <2>3. T.state[k] # "absent"
    BY <1>1 DEF Mounted
  <2>4. QED
    BY <2>1, <2>2, <2>3
<1>3. ASSUME NEW g \in Fiber \ X
      PROVE  Consistent(U, g, ab2) /\ Fresh(U, g, ab2)
  <2>1. Consistent(T, g, ab) /\ Fresh(T, g, ab)
    BY DEF Good
  <2>2. compute_epoch(U, g) = compute_epoch(T, g)
    BY EpochSame
  <2>3. Consistent(U, g, ab2)
    BY <2>1 DEF Consistent
  <2>4. Fresh(U, g, ab2)
    BY <1>1, <2>1, <2>2 DEF Fresh, Waits
  <2>5. QED
    BY <2>3, <2>4
<1>4. QED
  BY <1>1, <1>2, <1>3 DEF Good, Kids, Unmounts

\* A tree with another state for one fiber is a tree.
LEMMA StateUpdate ==
    ASSUME NEW T \in Tree, NEW f \in Fiber, NEW st \in State
    PROVE  [T EXCEPT !.state[f] = st] \in Tree
<1>1. [T.state EXCEPT ![f] = st] \in [Fiber -> State]
  BY Fields
<1>2. QED
  BY <1>1, Zenon DEF Tree

\* A tree with another epoch for one fiber is a tree.
LEMMA EpochUpdate ==
    ASSUME NEW T \in Tree, NEW f \in Fiber, NEW e \in [Service -> Serial]
    PROVE  [T EXCEPT !.epoch[f] = e] \in Tree
<1>1. [T.epoch EXCEPT ![f] = e] \in [Fiber -> [Service -> Serial]]
  BY Fields
<1>2. QED
  BY <1>1, Zenon DEF Tree

\* A tree with other fibers queued or asked to restart is a tree.
LEMMA QueueUpdate ==
    ASSUME NEW T \in Tree, NEW Q \in SUBSET Fiber, NEW B \in SUBSET Fiber
    PROVE  /\ [T EXCEPT !.queue = Q, !.batch = B] \in Tree
           /\ [T EXCEPT !.restart = Q, !.queue = B] \in Tree
           /\ [T EXCEPT !.restart = Q] \in Tree
           /\ [T EXCEPT !.batch = Q] \in Tree
           /\ [T EXCEPT !.queue = Q] \in Tree
BY Zenon DEF Tree

\* A tree with another queue and other orphans is a tree.
LEMMA OrphanUpdate ==
    ASSUME NEW T \in Tree, NEW Q \in SUBSET Fiber, NEW B \in SUBSET Fiber,
           NEW R \in SUBSET Service
    PROVE  [T EXCEPT !.queue = Q, !.batch = B, !.orphans = R] \in Tree
BY Zenon DEF Tree

\* The state of an idle exempt fiber may change.
LEMMA SetStateGood ==
    ASSUME NEW T, NEW pub, NEW ab, NEW f \in Fiber, NEW st \in State \ {"absent"},
           Good(T, pub, ab, {f}), Idle(T, f, pub), f \in Mounted(T)
    PROVE  LET U == SetState(T, f, st) IN
           /\ Good(U, pub, ab, {f}) /\ U \in Tree
           /\ Idle(U, f, pub) /\ f \in Mounted(U)
           /\ U.state[f] = st /\ U.epoch = T.epoch
           /\ compute_epoch(U, f) = compute_epoch(T, f)
           /\ Waits(T, f) => Waits(U, f)
<1> DEFINE U == SetState(T, f, st)
<1>0. T \in Tree
  BY DEF Good
<1>1. U \in Tree
  BY <1>0, StateUpdate, Zenon DEF SetState
<1>2. /\ U.state = [T.state EXCEPT ![f] = st] /\ U.epoch = T.epoch /\ U.owner = T.owner
      /\ U.held = T.held /\ U.orphans = T.orphans /\ U.queue = T.queue /\ U.batch = T.batch
      /\ U.unmounting = T.unmounting /\ U.unwinding = T.unwinding
  BY <1>0 DEF SetState, Tree
<1>3. T.state \in [Fiber -> State]
  BY <1>0, Fields
<1> HIDE DEF U
<1>4. OwnedUp(U, pub)
  BY <1>2, <1>3 DEF Good, OwnedUp, Idle
<1>5. T.state[f] # "absent"
  BY DEF Mounted
<1>6. Good(U, pub, ab, {f})
  BY <1>1, <1>2, <1>3, <1>4, <1>5, Update DEF Idle
<1>7. compute_epoch(U, f) = compute_epoch(T, f)
  BY <1>2, EpochSame
<1>8. Idle(U, f, pub) /\ f \in Mounted(U)
  BY <1>2, <1>3, Parents DEF Idle, Mounted, Children
<1>9. QED
  BY <1>1, <1>2, <1>3, <1>6, <1>7, <1>8 DEF Waits, U

\* The epoch of an exempt fiber may change.
LEMMA SetEpochGood ==
    ASSUME NEW T, NEW pub, NEW ab, NEW f \in Fiber, NEW e \in [Service -> Serial],
           Good(T, pub, ab, {f})
    PROVE  LET U == [T EXCEPT !.epoch[f] = e] IN
           /\ Good(U, pub, ab, {f}) /\ U \in Tree
           /\ U.state = T.state /\ U.epoch[f] = e /\ U.unmounting = T.unmounting
           /\ Idle(T, f, pub) => Idle(U, f, pub)
           /\ compute_epoch(U, f) = compute_epoch(T, f)
<1> DEFINE U == [T EXCEPT !.epoch[f] = e]
<1>0. T \in Tree
  BY DEF Good
<1>1. U \in Tree
  BY <1>0, EpochUpdate, Zenon
<1>2. /\ U.epoch = [T.epoch EXCEPT ![f] = e] /\ U.state = T.state /\ U.owner = T.owner
      /\ U.held = T.held /\ U.orphans = T.orphans /\ U.queue = T.queue /\ U.batch = T.batch
      /\ U.unmounting = T.unmounting /\ U.unwinding = T.unwinding
  BY <1>0 DEF Tree
<1>3. T.epoch \in [Fiber -> [Service -> Serial]]
  BY <1>0, Fields
<1> HIDE DEF U
<1>4. OwnedUp(U, pub)
  BY <1>2 DEF Good, OwnedUp
<1>5. Good(U, pub, ab, {f})
  BY <1>1, <1>2, <1>3, <1>4, Update
<1>6. compute_epoch(U, f) = compute_epoch(T, f)
  BY <1>2, EpochSame
<1>7. QED
  BY <1>1, <1>2, <1>3, <1>5, <1>6 DEF Idle, U

-----------------------------------------------------------------------------
(* A refresh *)

\* The load of an exempt fiber is undone: it is pending.
LEMMA UnloadGood ==
    ASSUME composition \in Compositions, NEW T, NEW pub, NEW ab, NEW f \in Fiber,
           Good(T, pub, ab, {f}), f \in Mounted(T)
    PROVE  LET U == Unload(T, f) IN
           /\ Good(U, pub, ab, {f}) /\ U \in Tree
           /\ Idle(U, f, pub) /\ f \in Mounted(U)
           /\ U.state[f] = "pending"
           /\ U.epoch[f] = INACTIVE <=> T.epoch[f] = INACTIVE
           /\ compute_epoch(T, f) = INACTIVE => compute_epoch(U, f) = INACTIVE
           /\ Waits(T, f) => Waits(U, f)
<1> DEFINE D == Discard(T, f)
<1>1. /\ Good(D, pub, ab, {f}) /\ D \in Tree
      /\ Idle(D, f, pub)
      /\ D.state[f] = T.state[f]
      /\ D.epoch[f] = INACTIVE <=> T.epoch[f] = INACTIVE
      /\ compute_epoch(T, f) = INACTIVE => compute_epoch(D, f) = INACTIVE
      /\ Waits(T, f) => Waits(D, f)
  BY DiscardGood
<1> HIDE DEF D
<1>2. f \in Mounted(D)
  BY <1>1 DEF Mounted
<1>3. "pending" \in State \ {"absent"}
  BY DEF State
<1> DEFINE U == SetState(D, f, "pending")
<1>4. /\ Good(U, pub, ab, {f}) /\ U \in Tree
      /\ Idle(U, f, pub) /\ f \in Mounted(U)
      /\ U.state[f] = "pending" /\ U.epoch = D.epoch
      /\ compute_epoch(U, f) = compute_epoch(D, f)
      /\ Waits(D, f) => Waits(U, f)
  BY <1>1, <1>2, <1>3, SetStateGood
<1>5. U = Unload(T, f)
  BY DEF Unload, U, D
<1> HIDE DEF U
<1>6. QED
  BY <1>1, <1>4, <1>5

\* A fiber asked to restart has no load and no epoch.
LEMMA RestartedGood ==
    ASSUME composition \in Compositions, NEW T, NEW pub, NEW ab, NEW f \in Fiber,
           Good(T, pub, ab, {f}), f \in Mounted(T), Consistent(T, f, ab)
    PROVE  LET R == Restarted(T, f) IN
           /\ Good(R, pub, ab, {f}) /\ R \in Tree
           /\ f \in Mounted(R) /\ Consistent(R, f, ab)
           /\ R = T \/ (R.epoch[f] = INACTIVE /\ R.state[f] \notin {"active", "failed"})
<1>0. T \in Tree
  BY DEF Good
<1>1. CASE f \notin T.restart
  BY <1>0, <1>1 DEF Restarted
<1>2. CASE f \in T.restart
  <2> DEFINE cleared == [T EXCEPT !.restart = @ \ {f}]
             undone == IF T.state[f] = "failed" THEN SetState(cleared, f, "pending")
                       ELSE IF HasLoad(T, f) THEN Unload(cleared, f)
                       ELSE cleared
             R == [undone EXCEPT !.epoch[f] = INACTIVE]
  <2>1. /\ cleared \in Tree
        /\ cleared.state = T.state /\ cleared.epoch = T.epoch /\ cleared.owner = T.owner
        /\ cleared.held = T.held /\ cleared.orphans = T.orphans
        /\ cleared.queue = T.queue /\ cleared.batch = T.batch
        /\ cleared.unmounting = T.unmounting /\ cleared.unwinding = T.unwinding
    <3>1. T.restart \ {f} \in SUBSET Fiber
      BY <1>0, Fields
    <3>2. cleared \in Tree
      BY <1>0, <3>1, QueueUpdate, Zenon
    <3>3. QED
      BY <1>0, <3>2 DEF Tree
  <2> HIDE DEF cleared
  <2>2. Good(cleared, pub, ab, {f})
    <3>1. OwnedUp(cleared, pub)
      BY <2>1 DEF Good, OwnedUp
    <3>2. QED
      BY <2>1, <3>1, Update
  <2>3. f \in Mounted(cleared)
    BY <2>1 DEF Mounted
  <2>4. /\ Good(undone, pub, ab, {f}) /\ undone \in Tree /\ f \in Mounted(undone)
        /\ \/ undone.state[f] = "pending"
           \/ /\ undone.state[f] = T.state[f] /\ T.state[f] \notin {"active", "failed"}
              /\ undone.unmounting = T.unmounting
    <3>1. CASE T.state[f] = "failed"
      <4>1. Idle(cleared, f, pub)
        BY <2>1, <2>2, <3>1, InactiveIdle
      <4>2. "pending" \in State \ {"absent"}
        BY DEF State
      <4>3. QED
        BY <2>2, <2>3, <3>1, <4>1, <4>2, SetStateGood
    <3>2. CASE T.state[f] # "failed" /\ HasLoad(T, f)
      BY <2>2, <2>3, <3>2, UnloadGood
    <3>3. CASE T.state[f] # "failed" /\ ~HasLoad(T, f)
      <4>1. undone = cleared
        BY <3>3
      <4>2. T.state[f] # "active"
        BY <3>3 DEF HasLoad
      <4>3. QED
        BY <2>1, <2>2, <2>3, <3>3, <4>1, <4>2
    <3>4. QED
      BY <3>1, <3>2, <3>3
  <2> HIDE DEF undone
  <2>5. INACTIVE \in [Service -> Serial]
    BY DEF INACTIVE, Serial
  <2>6. /\ Good(R, pub, ab, {f}) /\ R \in Tree
        /\ R.state = undone.state /\ R.epoch[f] = INACTIVE
        /\ R.unmounting = undone.unmounting
    <3>1. Good(undone, pub, ab, {f})
      BY <2>4
    <3>2. \A e \in [Service -> Serial] :
             /\ Good([undone EXCEPT !.epoch[f] = e], pub, ab, {f})
             /\ [undone EXCEPT !.epoch[f] = e] \in Tree
             /\ [undone EXCEPT !.epoch[f] = e].state = undone.state
             /\ [undone EXCEPT !.epoch[f] = e].epoch[f] = e
             /\ [undone EXCEPT !.epoch[f] = e].unmounting = undone.unmounting
      BY <3>1, SetEpochGood, SMTT(30)
    <3>3. QED
      BY <2>5, <3>2
  <2>7. R = Restarted(T, f)
    BY <1>2 DEF Restarted, R, undone, cleared
  <2> HIDE DEF R
  <2>8. f \in Mounted(R) /\ R.state[f] \notin {"active", "failed"}
    BY <2>4, <2>6 DEF Mounted
  <2>9. Consistent(R, f, ab)
    BY <2>4, <2>6, <2>8 DEF Consistent
  <2>10. QED
    BY <2>6, <2>7, <2>8, <2>9
<1>3. QED
  BY <1>1, <1>2

\* Before it loads a fiber is idle and has the epoch it will load with; a fiber that
\* does not load is where it belongs.
LEMMA RefreshedGood ==
    ASSUME composition \in Compositions, NEW T, NEW pub, NEW ab, NEW f \in Fiber,
           Good(T, pub, ab, {f}), f \in Mounted(T), Consistent(T, f, ab)
    PROVE  LET D == Refreshed(T, f) IN
           /\ Good(D, pub, ab, {f}) /\ D \in Tree /\ f \in Mounted(D)
           /\ Loads(T, f) => Idle(D, f, pub) /\ D.epoch[f] # INACTIVE /\ Waits(D, f)
           /\ ~Loads(T, f) =>
                Consistent(D, f, ab) /\ (D.state[f] = "failed" \/ Waits(D, f))
<1> DEFINE R == Restarted(T, f)
           new == compute_epoch(R, f)
           moved == [R EXCEPT !.epoch[f] = new]
           D == Refreshed(T, f)
<1>1. /\ Good(R, pub, ab, {f}) /\ R \in Tree
      /\ f \in Mounted(R) /\ Consistent(R, f, ab)
  BY RestartedGood
<1>2. /\ Loads(T, f) <=> Outdated(R, f) /\ new # INACTIVE
      /\ D = IF ~Outdated(R, f) THEN R
             ELSE IF R.state[f] = "active" \/ (new # INACTIVE /\ R.epoch[f] # INACTIVE)
                  THEN Unload(moved, f) ELSE moved
  BY DEF Loads, Refreshed
<1> HIDE DEF R, D
<1>3. new \in [Service -> Serial]
  BY <1>1, Epochs
<1>4. Outdated(R, f) <=> R.state[f] # "failed" /\ new # R.epoch[f]
  BY DEF Outdated
<1> HIDE DEF new
<1>5. /\ Good(moved, pub, ab, {f}) /\ moved \in Tree
      /\ moved.state = R.state /\ moved.epoch[f] = new /\ moved.unmounting = R.unmounting
      /\ Idle(R, f, pub) => Idle(moved, f, pub)
      /\ compute_epoch(moved, f) = new
  <2>1. /\ Good(moved, pub, ab, {f}) /\ moved \in Tree
        /\ moved.state = R.state /\ moved.epoch[f] = new /\ moved.unmounting = R.unmounting
        /\ Idle(R, f, pub) => Idle(moved, f, pub)
        /\ compute_epoch(moved, f) = compute_epoch(R, f)
    BY <1>1, <1>3, SetEpochGood, ZenonT(40)
  <2>2. QED
    BY <2>1 DEF new
<1> HIDE DEF moved
<1>6. f \in Mounted(moved) /\ Waits(moved, f)
  BY <1>1, <1>5 DEF Mounted, Waits
<1>7. CASE ~Outdated(R, f)
  <2>1. D = R /\ ~Loads(T, f)
    BY <1>2, <1>7
  <2>2. R.state[f] = "failed" \/ Waits(R, f)
    BY <1>4, <1>7 DEF Waits, new
  <2>3. QED
    BY <1>1, <2>1, <2>2 DEF D
<1>8. CASE Outdated(R, f) /\ (R.state[f] = "active" \/ (new # INACTIVE /\ R.epoch[f] # INACTIVE))
  <2>1. D = Unload(moved, f)
    BY <1>2, <1>8
  <2>2. /\ Good(D, pub, ab, {f}) /\ D \in Tree
        /\ Idle(D, f, pub) /\ f \in Mounted(D)
        /\ D.state[f] = "pending"
        /\ D.epoch[f] = INACTIVE <=> new = INACTIVE
        /\ Waits(D, f)
    BY <1>5, <1>6, <2>1, UnloadGood
  <2>3. new = INACTIVE => Consistent(D, f, ab)
    BY <2>2 DEF Consistent
  <2>4. QED
    BY <1>2, <1>8, <2>2, <2>3 DEF D
<1>9. CASE /\ Outdated(R, f) /\ R.state[f] # "active"
           /\ new = INACTIVE \/ R.epoch[f] = INACTIVE
  <2>1. D = moved
    BY <1>2, <1>9
  <2>2. Idle(moved, f, pub)
    BY <1>1, <1>5, <1>9, InactiveIdle
  <2>3. new = INACTIVE => Consistent(moved, f, ab)
    BY <1>1, <1>5, <1>9 DEF Consistent
  <2>4. QED
    BY <1>2, <1>5, <1>6, <1>9, <2>1, <2>2, <2>3 DEF D
<1>10. QED
  BY <1>7, <1>8, <1>9

\* A fiber that gives its load up.
LEMMA GiveUpGood ==
    ASSUME composition \in Compositions, NEW T, NEW pub, NEW ab, NEW f \in Fiber,
           NEW st \in {"pending", "failed"}, Good(T, pub, ab, {f}), f \in Mounted(T)
    PROVE  LET U == [Discard(T, f) EXCEPT !.state[f] = st, !.epoch[f] = INACTIVE] IN
           /\ Good(U, pub, ab, {f})
           /\ U.state[f] = st /\ U.epoch[f] = INACTIVE
<1> DEFINE D == Discard(T, f)
           V == SetState(D, f, st)
           U == [V EXCEPT !.epoch[f] = INACTIVE]
<1>1. Good(D, pub, ab, {f}) /\ D \in Tree /\ Idle(D, f, pub) /\ D.state[f] = T.state[f]
  BY DiscardGood
<1>2. st \in State \ {"absent"}
  BY DEF State
<1>3. U = [Discard(T, f) EXCEPT !.state[f] = st, !.epoch[f] = INACTIVE]
  BY DEF SetState
<1> HIDE DEF D
<1>4. f \in Mounted(D)
  BY <1>1 DEF Mounted
<1>5. Good(V, pub, ab, {f}) /\ V.state[f] = st
  BY <1>1, <1>2, <1>4, SetStateGood
<1> HIDE DEF V
<1>6. INACTIVE \in [Service -> Serial]
  BY DEF INACTIVE, Serial
<1>7. V \in Tree
  BY <1>5 DEF Good
<1>8. Good(U, pub, ab, {f}) /\ U.state[f] = st /\ U.epoch[f] = INACTIVE
  <2>1. U \in Tree
    BY <1>6, <1>7, EpochUpdate
  <2>2. /\ U.epoch = [V.epoch EXCEPT ![f] = INACTIVE] /\ U.state = V.state
        /\ U.owner = V.owner /\ U.held = V.held /\ U.orphans = V.orphans
        /\ U.queue = V.queue /\ U.batch = V.batch
        /\ U.unmounting = V.unmounting /\ U.unwinding = V.unwinding
    BY <1>7 DEF Tree
  <2>3. V.epoch \in [Fiber -> [Service -> Serial]]
    BY <1>7, Fields
  <2> HIDE DEF U
  <2>4. OwnedUp(U, pub)
    BY <1>5, <2>2 DEF Good, OwnedUp
  <2>5. Good(U, pub, ab, {f})
    BY <1>5, <2>1, <2>2, <2>3, <2>4, Update
  <2>6. QED
    BY <1>5, <2>2, <2>3, <2>5
<1>9. QED
  BY <1>3, <1>8

\* A fiber publishes services nobody owned and mounts children: what depends on them
\* is queued.
LEMMA LoadGood ==
    ASSUME composition \in Compositions, NEW T, NEW U \in Tree, NEW pub, NEW pub2, NEW ab,
           NEW f \in Fiber, NEW X \in SUBSET {f}, NEW S \in SUBSET Service,
           NEW C \in SUBSET Children(f),
           Good(T, pub, ab, X), f \in Mounted(T),
           \A s \in S : T.owner[s] = Nobody,
           \A k \in C : T.state[k] = "absent",
           f \in X \/ T.state[f] = "active",
           U.state = [g \in Fiber |-> IF g = f THEN "active"
                                      ELSE IF g \in C THEN "pending" ELSE T.state[g]],
           U.epoch = T.epoch, U.batch = T.batch \ C, U.orphans = T.orphans,
           U.unmounting = T.unmounting, U.unwinding = T.unwinding,
           U.owner = [s \in Service |-> IF s \in S THEN f ELSE T.owner[s]],
           U.queue = T.queue \cup UsersOf(T, S) \cup C,
           pub \subseteq pub2, T.held \cup S \subseteq U.held \cup pub2
    PROVE  Good(U, pub2, ab, X) /\ (Waits(T, f) => Waits(U, f))
<1>0. T \in Tree /\ T.state \in [Fiber -> State]
  BY Fields DEF Good
<1>1. Mounted(U) = Mounted(T) \cup C
  <2>1. C \subseteq Fiber
    BY DEF Children
  <2>2. QED
    BY <2>1 DEF Mounted
<1>2. Kids(U)
  <2>1. \A k \in C : Parent[k] = f
    BY DEF Children
  <2>2. \A k \in Mounted(T) \ Row : Parent[k] \in Fiber /\ Parent[k] \notin C
    BY TreeAssumption DEF Mounted, Row, Children, Nobody, Fiber
  <2>3. QED
    BY <1>1, <2>1, <2>2 DEF Good, Kids
<1>3. Unmounts(U)
  BY DEF Good, Unmounts
<1>4. OwnedUp(U, pub2)
  <2> SUFFICES ASSUME NEW s \in Service \ (pub2 \cup U.orphans), U.owner[s] # Nobody
               PROVE  /\ s \in U.held
                      /\ U.state[U.owner[s]] = "active" \/ U.owner[s] \in U.unwinding
    BY DEF OwnedUp
  <2>1. CASE s \in S
    BY <2>1
  <2>2. CASE s \notin S
    <3>1. /\ s \in T.held /\ T.owner[s] # Nobody /\ U.owner[s] = T.owner[s]
          /\ T.state[T.owner[s]] = "active" \/ T.owner[s] \in T.unwinding
      BY <2>2 DEF Good, OwnedUp
    <3>2. T.owner[s] \in Fiber
      BY <1>0, <3>1, Fields
    <3>3. T.state[T.owner[s]] = "active" => U.state[T.owner[s]] = "active"
      BY <3>2
    <3>4. QED
      BY <2>2, <3>1, <3>3
  <2>3. QED
    BY <2>1, <2>2
<1>5. ASSUME NEW g \in Mounted(T), Waits(T, g)
      PROVE  Waits(U, g)
  <2>1. g \in Fiber
    BY DEF Mounted
  <2>2. CASE g \in T.queue \cup T.batch \/ Uses(g) \cap S # {}
    BY <1>5, <2>2 DEF Waits, UsersOf
  <2>3. CASE T.epoch[g] = compute_epoch(T, g) /\ Uses(g) \cap S = {}
    <3>1. \A s \in Uses(g) : U.owner[s] = T.owner[s]
      BY <2>1, <2>3, UsesType
    <3>2. compute_epoch(U, g) = compute_epoch(T, g)
      BY <3>1, EpochSame
    <3>3. QED
      BY <2>3, <3>2 DEF Waits
  <2>4. QED
    BY <1>5, <2>2, <2>3 DEF Waits
<1>6. ASSUME NEW g \in Fiber \ X
      PROVE  Consistent(U, g, ab) /\ Fresh(U, g, ab)
  <2>1. Consistent(T, g, ab) /\ Fresh(T, g, ab)
    BY DEF Good
  <2>2. CASE g \in C
    <3>1. g # f /\ T.epoch[g] = INACTIVE
      BY <2>1, <2>2, Parents DEF Consistent
    <3>2. QED
      BY <2>2, <3>1 DEF Consistent, Fresh, Waits
  <2>3. CASE g \notin C
    <3>1. U.state[g] = T.state[g]
      BY <2>3
    <3>2. Consistent(U, g, ab)
      BY <2>1, <3>1 DEF Consistent
    <3>3. Fresh(U, g, ab)
      BY <1>1, <1>5, <2>1, <2>3, <3>1 DEF Fresh
    <3>4. QED
      BY <3>2, <3>3
  <2>4. QED
    BY <2>2, <2>3
<1>7. QED
  BY <1>2, <1>3, <1>4, <1>5, <1>6 DEF Good

\* Nothing is exempt once the fiber is where it belongs.
LEMMA CloseGood ==
    ASSUME NEW T, NEW pub, NEW ab, NEW ab2, NEW f \in Fiber, Good(T, pub, ab, {f}),
           \A g \in Fiber \ {f} : g \in ab <=> g \in ab2,
           Consistent(T, f, ab2), Fresh(T, f, ab2)
    PROVE  Good(T, pub, ab2, {})
<1>1. ASSUME NEW g \in Fiber
      PROVE  Consistent(T, g, ab2) /\ Fresh(T, g, ab2)
  BY DEF Good, Consistent, Fresh
<1>2. QED
  BY <1>1 DEF Good

\* The invariant of the next state.
LEMMA NextGood ==
    ASSUME UNCHANGED composition, Good(tree', publishing', aborted', {}),
           phase = "up" => phase' = "up" \/ tree'.unmounting = {}
    PROVE  Good(tree, publishing, aborted, {})'
BY DEF Good, Kids, Unmounts, OwnedUp, Consistent, Fresh, Waits, compute_epoch, Missing, Uses,
       Mounted, INACTIVE, Row, Children, Tree, Fiber, State, Serial, Nobody

-----------------------------------------------------------------------------
(* The refresh of one fiber keeps the invariant *)

\* The fiber taken off the batch.
LEMMA PoppedGood ==
    ASSUME IInv, NEW f \in Fiber, Ready(f)
    PROVE  LET T == Popped(f) IN
           /\ composition \in Compositions
           /\ Good(T, publishing, aborted, {f})
           /\ f \in Mounted(T) /\ Consistent(T, f, aborted)
           /\ phase \in {"boot", "up"}
<1> DEFINE T == Popped(f)
<1>1. /\ composition \in Compositions /\ Good(tree, publishing, aborted, {})
      /\ tree \in Tree /\ phase \in {"boot", "up"}
  BY DEF IInv, TypeOK, Good, Control, Ready
<1>2. T \in Tree
  <2>1. tree.batch \ {f} \in SUBSET Fiber
    BY <1>1, Fields
  <2>2. QED
    BY <1>1, <2>1, QueueUpdate, Zenon DEF Popped
<1>3. /\ T.state = tree.state /\ T.epoch = tree.epoch /\ T.owner = tree.owner
      /\ T.held = tree.held /\ T.orphans = tree.orphans
      /\ T.queue = tree.queue /\ T.batch = tree.batch \ {f}
      /\ T.unmounting = tree.unmounting /\ T.unwinding = tree.unwinding
  BY <1>1 DEF Tree, Popped
<1> HIDE DEF T
<1>4. OwnedUp(T, publishing)
  BY <1>1, <1>3 DEF Good, OwnedUp
<1>5. Good(tree, publishing, aborted, {f})
  BY <1>1 DEF Good
<1>6. Good(T, publishing, aborted, {f})
  BY <1>2, <1>3, <1>4, <1>5, Update
<1>7. f \in Mounted(T)
  BY <1>3 DEF Ready, Mounted
<1>8. Consistent(T, f, aborted)
  BY <1>1, <1>3 DEF Good, Consistent
<1>9. QED
  BY <1>1, <1>6, <1>7, <1>8 DEF T

\* The rest of the invariant while the settle goes on.
LEMMA CalmStep ==
    ASSUME IInv, Settling, Calm, UNCHANGED rounds,
           aborted' \subseteq Fiber, failures' \in 0 .. MaxFailures,
           UNCHANGED <<aborts, changes>>,
           Good(tree', publishing', aborted', {})
    PROVE  IInv'
<1>1. Good(tree, publishing, aborted, {})'
  BY NextGood DEF Calm
<1>2. tree' \in Tree
  BY DEF Good
<1>3. TypeOK'
  BY <1>2 DEF IInv, TypeOK, Calm, Tree, State, Serial, Fiber, Nobody
<1>4. Control'
  BY DEF IInv, Control, Calm, Settling
<1>5. QED
  BY <1>1, <1>3, <1>4 DEF IInv

\* A fiber that was disposed of is passed over.
LEMMA RefreshGoneStep ==
    ASSUME IInv, NEW f \in Fiber, RefreshGone(f)
    PROVE  IInv'
<1> DEFINE T == Popped(f)
<1>1. /\ Good(tree, publishing, aborted, {}) /\ tree \in Tree
      /\ Settling /\ f \notin Mounted(tree) /\ tree' = T
      /\ Calm /\ UNCHANGED <<rounds, aborted, bounds>>
  BY DEF IInv, TypeOK, RefreshGone
<1>2. T \in Tree
  <2>1. tree.batch \ {f} \in SUBSET Fiber
    BY <1>1, Fields
  <2>2. QED
    BY <1>1, <2>1, QueueUpdate, Zenon DEF Popped
<1>3. /\ T.state = tree.state /\ T.epoch = tree.epoch /\ T.owner = tree.owner
      /\ T.held = tree.held /\ T.orphans = tree.orphans
      /\ T.queue = tree.queue /\ T.batch = tree.batch \ {f}
      /\ T.unmounting = tree.unmounting /\ T.unwinding = tree.unwinding
  BY <1>1 DEF Tree, Popped
<1> HIDE DEF T
<1>4. OwnedUp(T, publishing)
  BY <1>1, <1>3 DEF Good, OwnedUp
<1>5. Good(T, publishing, aborted, {})
  BY <1>1, <1>2, <1>3, <1>4, Update
<1>6. aborted' \subseteq Fiber /\ failures' \in 0 .. MaxFailures
  BY <1>1 DEF IInv, TypeOK, bounds
<1>7. QED
  BY <1>1, <1>5, <1>6, CalmStep DEF Calm, bounds

\* A fiber with nothing to load.
LEMMA RefreshOnlyStep ==
    ASSUME IInv, NEW f \in Fiber, RefreshOnly(f)
    PROVE  IInv'
<1> DEFINE T == Popped(f)
           D == Refreshed(T, f)
<1>1. /\ Ready(f) /\ ~Loads(T, f) /\ tree' = D /\ Calm /\ UNCHANGED <<rounds, bounds>>
      /\ aborted' = IF D.state[f] \in {"loading", "unloading"} THEN aborted ELSE aborted \ {f}
  BY DEF RefreshOnly, Prepared
<1>2. /\ composition \in Compositions /\ Good(T, publishing, aborted, {f})
      /\ f \in Mounted(T) /\ Consistent(T, f, aborted)
  BY <1>1, PoppedGood
<1> HIDE DEF T
<1>3. /\ Good(D, publishing, aborted, {f})
      /\ Consistent(D, f, aborted) /\ (D.state[f] = "failed" \/ Waits(D, f))
  BY <1>1, <1>2, RefreshedGood
<1> HIDE DEF D
<1>4. Consistent(D, f, aborted') /\ Fresh(D, f, aborted')
  BY <1>1, <1>3 DEF Consistent, Fresh
<1>5. \A g \in Fiber \ {f} : g \in aborted <=> g \in aborted'
  BY <1>1
<1>6. Good(D, publishing, aborted', {})
  BY <1>3, <1>4, <1>5, CloseGood
<1>7. aborted' \subseteq Fiber /\ failures' \in 0 .. MaxFailures
  BY <1>1 DEF IInv, TypeOK, bounds
<1>8. QED
  BY <1>1, <1>6, <1>7, CalmStep DEF Calm, Ready, bounds

\* What a load left behind before it failed: more fibers are queued.
LEMMA AttemptedGood ==
    ASSUME composition \in Compositions, NEW T, NEW pub, NEW ab, NEW X, NEW f \in Fiber,
           Good(T, pub, ab, X), NEW A \in Attempted(T, f)
    PROVE  Good(A, pub, ab, X) /\ Mounted(A) = Mounted(T)
<1>0. T \in Tree
  BY DEF Good
<1> DEFINE P == {s \in composition.provide[f] : T.owner[s] = Nobody}
           woken(S, C) == Enqueue(T, UsersOf(T, S) \cup C)
<1>1. PICK S \in SUBSET P, C \in SUBSET Children(f) : A = woken(S, C)
  <2>1. Attempted(T, f) = {woken(S, C) : S \in SUBSET P, C \in SUBSET Children(f)}
    BY DEF Attempted
  <2> HIDE DEF P, woken
  <2>2. QED
    BY <2>1
<1> DEFINE Q == T.queue \cup (UsersOf(T, S) \cup C)
<1>2. Q \in SUBSET Fiber
  BY <1>0, Fields DEF UsersOf, Mounted, Children
<1>3. A = [T EXCEPT !.queue = Q]
  BY <1>0, <1>1 DEF Enqueue, Tree
<1> HIDE DEF Q
<1>4. A \in Tree
  BY <1>0, <1>2, <1>3, QueueUpdate, Zenon
<1>5. /\ A.state = T.state /\ A.epoch = T.epoch /\ A.owner = T.owner /\ A.held = T.held
      /\ A.orphans = T.orphans /\ A.queue = Q /\ A.batch = T.batch
      /\ A.unmounting = T.unmounting /\ A.unwinding = T.unwinding
  BY <1>0, <1>3 DEF Tree
<1>6. OwnedUp(A, pub)
  BY <1>5 DEF Good, OwnedUp
<1>7. T.queue \cup T.batch \subseteq A.queue \cup A.batch
  BY <1>5 DEF Q
<1>8. Good(A, pub, ab, X)
  BY <1>4, <1>5, <1>6, <1>7, Update
<1>9. QED
  BY <1>5, <1>8 DEF Mounted

\* A fiber whose load fails.
LEMMA RefreshFailsStep ==
    ASSUME IInv, NEW f \in Fiber, RefreshFails(f)
    PROVE  IInv'
<1> DEFINE T == Popped(f)
           P == Refreshed(T, f)
<1>0. PICK D \in Attempted(P, f) :
          tree' = [Discard(D, f) EXCEPT !.state[f] = "failed", !.epoch[f] = INACTIVE]
  BY DEF RefreshFails, Prepared
<1> DEFINE U == [Discard(D, f) EXCEPT !.state[f] = "failed", !.epoch[f] = INACTIVE]
<1>1. /\ Ready(f) /\ tree' = U /\ Calm /\ UNCHANGED <<rounds, aborts, changes>>
      /\ aborted' = aborted \ {f}
      /\ UNCHANGED failures \/ (failures < MaxFailures /\ failures' = failures + 1)
  BY <1>0 DEF RefreshFails, Prepared
<1>2. /\ composition \in Compositions /\ Good(T, publishing, aborted, {f})
      /\ f \in Mounted(T) /\ Consistent(T, f, aborted)
  BY <1>1, PoppedGood
<1> HIDE DEF T
<1>3. Good(D, publishing, aborted, {f}) /\ f \in Mounted(D)
  <2>1. Good(P, publishing, aborted, {f}) /\ f \in Mounted(P)
    BY <1>2, RefreshedGood
  <2>2. QED
    BY <1>0, <1>2, <2>1, AttemptedGood
<1> HIDE DEF P
<1>4. Good(U, publishing, aborted, {f}) /\ U.state[f] = "failed" /\ U.epoch[f] = INACTIVE
  BY <1>2, <1>3, GiveUpGood
<1> HIDE DEF U
<1>5. Consistent(U, f, aborted') /\ Fresh(U, f, aborted')
  BY <1>4 DEF Consistent, Fresh
<1>6. \A g \in Fiber \ {f} : g \in aborted <=> g \in aborted'
  BY <1>1
<1>7. Good(U, publishing, aborted', {})
  BY <1>4, <1>5, <1>6, CloseGood
<1>8. aborted' \subseteq Fiber /\ failures' \in 0 .. MaxFailures
  BY <1>1, TreeAssumption DEF IInv, TypeOK
<1>9. QED
  BY <1>1, <1>7, <1>8, CalmStep DEF Calm, Ready

\* What a fiber that loads publishes and mounts.
LEMMA LoadFields ==
    ASSUME composition \in Compositions, NEW T \in Tree, NEW f \in Fiber,
           NEW S \in SUBSET Service, NEW C \in SUBSET Children(f)
    PROVE  LET U == Activate(Mount(Provide(T, f, S), C), f) IN
           /\ U \in Tree
           /\ U.state = [g \in Fiber |-> IF g = f THEN "active"
                                         ELSE IF g \in C THEN "pending" ELSE T.state[g]]
           /\ U.epoch = T.epoch /\ U.batch = T.batch \ C /\ U.orphans = T.orphans
           /\ U.unmounting = T.unmounting /\ U.unwinding = T.unwinding
           /\ U.owner = [s \in Service |-> IF s \in S THEN f ELSE T.owner[s]]
           /\ U.queue = T.queue \cup UsersOf(T, S) \cup C
           /\ U.held = T.held \cup S
<1> DEFINE owner == [s \in Service |-> IF s \in S THEN f ELSE T.owner[s]]
           mounted == [g \in Fiber |-> IF g \in C THEN "pending" ELSE T.state[g]]
           state == [mounted EXCEPT ![f] = "active"]
           queue == T.queue \cup UsersOf(T, S) \cup C
           after == [g \in Fiber |-> IF g = f THEN {h \in Fiber : h \in T.after[h]} \cup {f}
                                                ELSE T.after[g] \ {f}]
           U == [T EXCEPT !.owner = owner, !.held = T.held \cup S, !.queue = queue,
                          !.batch = T.batch \ C, !.state = state, !.after = after]
<1>1. C \subseteq Fiber
  BY DEF Children
<1>2. /\ owner \in [Service -> {Nobody} \cup Fiber]
      /\ T.held \cup S \subseteq Service
      /\ queue \subseteq Fiber /\ T.batch \ C \subseteq Fiber
      /\ after \in [Fiber -> SUBSET Fiber]
  BY <1>1, Fields DEF UsersOf, Mounted
<1>3. mounted \in [Fiber -> State] /\ state \in [Fiber -> State]
  BY Fields DEF State
<1>4. U = Activate(Mount(Provide(T, f, S), C), f)
  BY ZenonT(40) DEF Activate, Mount, Provide, Tree
<1> HIDE DEF owner, state, queue, after
<1>5. U \in Tree
  BY <1>2, <1>3, Zenon DEF Tree
<1>6. /\ U.state = state /\ U.epoch = T.epoch /\ U.batch = T.batch \ C
      /\ U.orphans = T.orphans
      /\ U.unmounting = T.unmounting /\ U.unwinding = T.unwinding
      /\ U.owner = owner /\ U.queue = queue /\ U.held = T.held \cup S
  BY <1>5 DEF Tree
<1>7. state = [g \in Fiber |-> IF g = f THEN "active"
                               ELSE IF g \in C THEN "pending" ELSE T.state[g]]
  BY DEF state
<1> HIDE DEF U
<1>8. QED
  BY <1>4, <1>5, <1>6, <1>7 DEF owner, queue

\* A fiber that loads.
LEMMA RefreshLoadsStep ==
    ASSUME IInv, NEW f \in Fiber, RefreshLoads(f)
    PROVE  IInv'
<1> DEFINE T == Popped(f)
           D == Refreshed(T, f)
           S == composition.provide[f]
<1>1. /\ Ready(f) /\ Loads(T, f) /\ Calm /\ UNCHANGED <<rounds, bounds>>
      /\ aborted' = aborted \ {f} /\ \A s \in S : D.owner[s] = Nobody
  BY DEF RefreshLoads, Prepared, Doomed, Taken
<1>2. /\ composition \in Compositions /\ Good(T, publishing, aborted, {f})
      /\ f \in Mounted(T) /\ Consistent(T, f, aborted)
  BY <1>1, PoppedGood
<1>3. PICK C \in SUBSET Children(f) : tree' = Activate(Mount(Provide(D, f, S), C), f)
  BY DEF RefreshLoads, Prepared
<1> HIDE DEF T
<1>4. /\ Good(D, publishing, aborted, {f}) /\ D \in Tree /\ f \in Mounted(D)
      /\ Idle(D, f, publishing) /\ D.epoch[f] # INACTIVE /\ Waits(D, f)
  BY <1>1, <1>2, RefreshedGood
<1>5. S \in SUBSET Service
  BY <1>2, UsesType
<1> HIDE DEF D, S
<1> DEFINE U == Activate(Mount(Provide(D, f, S), C), f)
<1>6. /\ U \in Tree
      /\ U.state = [g \in Fiber |-> IF g = f THEN "active"
                                    ELSE IF g \in C THEN "pending" ELSE D.state[g]]
      /\ U.epoch = D.epoch /\ U.batch = D.batch \ C /\ U.orphans = D.orphans
      /\ U.unmounting = D.unmounting /\ U.unwinding = D.unwinding
      /\ U.owner = [s \in Service |-> IF s \in S THEN f ELSE D.owner[s]]
      /\ U.queue = D.queue \cup UsersOf(D, S) \cup C
      /\ U.held = D.held \cup S
  BY <1>2, <1>4, <1>5, LoadFields
<1>7. U = tree'
  BY <1>3
<1> HIDE DEF U
<1>8. Good(U, publishing, aborted, {f}) /\ Waits(U, f)
  <2> DEFINE X == {f}
  <2>1. /\ \A k \in C : D.state[k] = "absent"
        /\ composition \in Compositions /\ f \in Mounted(D)
    BY <1>2, <1>4 DEF Idle
  <2>2. /\ D.held \cup S \subseteq U.held \cup publishing
        /\ publishing \subseteq publishing
    BY <1>6
  <2>3. X \in SUBSET {f} /\ f \in X /\ \A s \in S : D.owner[s] = Nobody
    BY <1>1
  <2>4. Good(D, publishing, aborted, X)
    BY <1>4
  <2> HIDE DEF X
  <2>5. Good(U, publishing, aborted, X) /\ (Waits(D, f) => Waits(U, f))
    BY <1>5, <1>6, <2>1, <2>2, <2>3, <2>4, LoadGood
  <2>6. QED
    BY <1>4, <2>5 DEF X
<1>9. Consistent(U, f, aborted') /\ Fresh(U, f, aborted')
  BY <1>4, <1>6, <1>8 DEF Consistent, Fresh
<1>10. \A g \in Fiber \ {f} : g \in aborted <=> g \in aborted'
  BY <1>1
<1>11. Good(U, publishing, aborted', {})
  BY <1>8, <1>9, <1>10, CloseGood
<1>12. aborted' \subseteq Fiber /\ failures' \in 0 .. MaxFailures
  BY <1>1 DEF IInv, TypeOK, bounds
<1>13. QED
  BY <1>1, <1>7, <1>11, <1>12, CalmStep DEF Calm, Ready, bounds

\* A settle that raises.
LEMMA EscapeStep ==
    ASSUME IInv, Settling, NEW T, Good(T, publishing, aborted', {}), Escape(T),
           aborted' \subseteq Fiber, diverged' \in BOOLEAN, aborts' \in 0 .. MaxAborts,
           UNCHANGED <<failures, changes>>
    PROVE  IInv'
<1> DEFINE U == [T EXCEPT !.queue = @ \cup T.batch, !.batch = {},
                          !.orphans = @ \cup publishing]
<1>0. T \in Tree /\ publishing \subseteq Service
  BY DEF Good, IInv, TypeOK
<1>1. U \in Tree
  <2>1. /\ T.queue \cup T.batch \in SUBSET Fiber /\ {} \in SUBSET Fiber
        /\ T.orphans \cup publishing \in SUBSET Service
    BY <1>0, Fields
  <2>2. QED
    BY <1>0, <2>1, OrphanUpdate, Zenon
<1>2. /\ U.state = T.state /\ U.epoch = T.epoch /\ U.owner = T.owner /\ U.held = T.held
      /\ U.queue = T.queue \cup T.batch /\ U.batch = {}
      /\ U.unmounting = T.unmounting /\ U.unwinding = T.unwinding
      /\ U.orphans = T.orphans \cup publishing
  BY <1>0 DEF Tree
<1>3. tree' = U /\ rounds' = 0 /\ publishing' = {} /\ UNCHANGED composition
  BY DEF Escape
<1> HIDE DEF U
<1>4. OwnedUp(U, {})
  BY <1>2 DEF Good, OwnedUp
<1>5. Good(U, {}, aborted', {})
  BY <1>1, <1>2, <1>4, Update
<1>6. Good(tree, publishing, aborted, {})'
  BY <1>3, <1>5, NextGood DEF Escape
<1>7. \/ phase' = "disposing" /\ leaving' = Mounted(tree') /\ orderly' \in BOOLEAN
      \/ phase' = phase /\ phase = "up" /\ leaving' = leaving /\ orderly' = orderly
  BY DEF Escape, BeginDispose, IInv, TypeOK, Control
<1>8. Mounted(tree)' = Mounted(tree')
  BY DEF Mounted, Fiber
<1>9. TypeOK'
  <2>1. /\ tree' \in Tree /\ composition' \in Compositions /\ rounds' \in 0 .. SettleRounds
        /\ publishing' \subseteq Service
    BY <1>1, <1>3, TreeAssumption DEF IInv, TypeOK
  <2>2. /\ phase' \in {"boot", "up", "disposing", "closed"} /\ leaving' \subseteq Fiber
        /\ orderly' \in BOOLEAN
    BY <1>7 DEF IInv, TypeOK, Mounted
  <2>3. failures' \in 0 .. MaxFailures /\ changes' \in 0 .. MaxChanges
    BY DEF IInv, TypeOK
  <2>4. QED
    BY <2>1, <2>2, <2>3 DEF TypeOK, Tree, Fiber, State, Serial, Nobody
<1>10. Control'
  <2>1. rounds' = 0 /\ publishing' = {} /\ tree'.batch = {}
    BY <1>2, <1>3
  <2>2. \/ phase' = "disposing" /\ leaving' = Mounted(tree)'
        \/ phase' = "up"
    BY <1>7, <1>8
  <2>3. QED
    BY <2>1, <2>2 DEF Control, Settling
<1>11. QED
  BY <1>6, <1>9, <1>10 DEF IInv

\* A load whose disposers abort leaves an idle fiber that is not where it belongs.
LEMMA StrandedGood ==
    ASSUME composition \in Compositions, NEW T, NEW pub, NEW ab, NEW f \in Fiber,
           NEW st \in {"loading", "unloading"}, Good(T, pub, ab, {f}), f \in Mounted(T)
    PROVE  LET U == SetState(Discard(T, f), f, st) IN
           Good(U, pub, ab, {f}) /\ U.state[f] = st
<1> DEFINE D == Discard(T, f)
<1>1. Good(D, pub, ab, {f}) /\ Idle(D, f, pub) /\ D.state[f] = T.state[f]
  BY DiscardGood
<1>2. st \in State \ {"absent"}
  BY DEF State
<1> HIDE DEF D
<1>3. f \in Mounted(D)
  BY <1>1 DEF Mounted
<1>4. Good(SetState(D, f, st), pub, ab, {f}) /\ SetState(D, f, st).state[f] = st
  BY <1>1, <1>2, <1>3, SetStateGood
<1>5. QED
  BY <1>4 DEF D

\* So does a refresh cut short by a disposer of the old load.
LEMMA AbortedUnloadGood ==
    ASSUME composition \in Compositions, NEW T, NEW pub, NEW ab, NEW f \in Fiber,
           Good(T, pub, ab, {f}), f \in Mounted(T)
    PROVE  LET U == AbortedUnload(T, f) IN
           Good(U, pub, ab, {f}) /\ U.state[f] = "unloading"
<1> DEFINE e == IF f \in T.restart THEN T.epoch[f] ELSE compute_epoch(T, f)
           R == [T EXCEPT !.restart = @ \ {f}]
           V == [R EXCEPT !.epoch[f] = e]
<1>0. T \in Tree
  BY DEF Good
<1>1. e \in [Service -> Serial]
  BY <1>0, Fields, Epochs
<1>2. V = [T EXCEPT !.restart = @ \ {f}, !.epoch[f] = e]
  OBVIOUS
<1>3. R \in Tree
  <2>1. T.restart \ {f} \in SUBSET Fiber
    BY <1>0, Fields
  <2>2. QED
    BY <1>0, <2>1, QueueUpdate, Zenon
<1> HIDE DEF e
<1>4. V \in Tree
  <2> HIDE DEF R
  <2>1. QED
    BY <1>1, <1>3, EpochUpdate
<1>5. /\ V.epoch = [T.epoch EXCEPT ![f] = e] /\ V.state = T.state
      /\ V.owner = T.owner /\ V.held = T.held /\ V.orphans = T.orphans
      /\ V.queue = T.queue /\ V.batch = T.batch
      /\ V.unmounting = T.unmounting /\ V.unwinding = T.unwinding
  BY <1>0 DEF Tree
<1>6. T.epoch \in [Fiber -> [Service -> Serial]]
  BY <1>0, Fields
<1>7. AbortedUnload(T, f) = SetState(Discard(V, f), f, "unloading")
  BY <1>2 DEF AbortedUnload, e
<1> HIDE DEF V
<1>8. OwnedUp(V, pub)
  BY <1>5 DEF Good, OwnedUp
<1>9. Good(V, pub, ab, {f}) /\ f \in Mounted(V)
  BY <1>4, <1>5, <1>6, <1>8, Update DEF Mounted
<1>10. QED
  BY <1>7, <1>9, StrandedGood

\* A refresh that aborts.
LEMMA RefreshAbortsStep ==
    ASSUME IInv, NEW f \in Fiber, RefreshAborts(f)
    PROVE  IInv'
<1> DEFINE T == Popped(f)
           P == Refreshed(T, f)
<1>1. /\ Ready(f) /\ aborts < MaxAborts /\ aborts' = aborts + 1
      /\ aborted' = aborted \cup {f} /\ UNCHANGED <<diverged, failures, changes>>
  BY DEF RefreshAborts
<1>2. PICK U : /\ Escape(U)
               /\ \/ \E D \in Attempted(P, f) :
                      \/ U = [Discard(D, f) EXCEPT !.state[f] = "pending", !.epoch[f] = INACTIVE]
                      \/ U = SetState(Discard(D, f), f, "loading")
                  \/ U = AbortedUnload(T, f)
  BY Zenon DEF RefreshAborts, Prepared
<1>3. /\ composition \in Compositions /\ Good(T, publishing, aborted, {f})
      /\ f \in Mounted(T) /\ Consistent(T, f, aborted)
  BY <1>1, PoppedGood
<1> HIDE DEF T
<1>4. \A D \in Attempted(P, f) : Good(D, publishing, aborted, {f}) /\ f \in Mounted(D)
  <2>1. Good(P, publishing, aborted, {f}) /\ f \in Mounted(P)
    BY <1>3, RefreshedGood
  <2> HIDE DEF P
  <2>2. QED
    BY <1>3, <2>1, AttemptedGood
<1> HIDE DEF P
<1>5. /\ Good(U, publishing, aborted, {f})
      /\ \/ U.state[f] = "pending" /\ U.epoch[f] = INACTIVE
         \/ U.state[f] \in {"loading", "unloading"}
  <2>1. ASSUME NEW D \in Attempted(P, f),
               U = [Discard(D, f) EXCEPT !.state[f] = "pending", !.epoch[f] = INACTIVE]
        PROVE  Good(U, publishing, aborted, {f}) /\ U.state[f] = "pending" /\ U.epoch[f] = INACTIVE
    BY <1>3, <1>4, <2>1, GiveUpGood
  <2>2. ASSUME NEW D \in Attempted(P, f), U = SetState(Discard(D, f), f, "loading")
        PROVE  Good(U, publishing, aborted, {f}) /\ U.state[f] = "loading"
    BY <1>3, <1>4, <2>2, StrandedGood
  <2>3. CASE U = AbortedUnload(T, f)
    BY <1>3, <2>3, AbortedUnloadGood
  <2>4. QED
    BY <1>2, <2>1, <2>2, <2>3
<1>6. Consistent(U, f, aborted') /\ Fresh(U, f, aborted')
  BY <1>1, <1>5 DEF Consistent, Fresh
<1>7. \A g \in Fiber \ {f} : g \in aborted <=> g \in aborted'
  BY <1>1
<1>8. Good(U, publishing, aborted', {})
  BY <1>5, <1>6, <1>7, CloseGood
<1>9. aborted' \subseteq Fiber /\ diverged' \in BOOLEAN /\ aborts' \in 0 .. MaxAborts
  BY <1>1, TreeAssumption DEF IInv, TypeOK
<1>10. QED
  BY <1>1, <1>2, <1>8, <1>9, EscapeStep DEF Ready

-----------------------------------------------------------------------------
(* Settling *)

\* The queue becomes the next batch.
LEMMA FirstBatchGood ==
    ASSUME NEW T, NEW pub, NEW ab, Good(T, pub, ab, {}), T.batch = {}
    PROVE  Good(FirstBatch(T), pub, ab, {})
<1> DEFINE U == FirstBatch(T)
<1>0. T \in Tree
  BY DEF Good
<1>1. U \in Tree
  <2>1. U = [T EXCEPT !.queue = {}, !.batch = T.queue]
    BY <1>0 DEF FirstBatch, Tree
  <2>2. T.queue \in SUBSET Fiber /\ {} \in SUBSET Fiber
    BY <1>0, Fields
  <2> HIDE DEF U
  <2>3. [T EXCEPT !.queue = {}, !.batch = T.queue] \in Tree
    BY <1>0, <2>2, QueueUpdate, Zenon
  <2>4. QED
    BY <2>1, <2>3
<1>2. /\ U.state = T.state /\ U.epoch = T.epoch /\ U.owner = T.owner /\ U.held = T.held
      /\ U.orphans = T.orphans /\ U.queue = {} /\ U.batch = T.queue
      /\ U.unmounting = T.unmounting /\ U.unwinding = T.unwinding
  BY <1>0 DEF Tree, FirstBatch
<1> HIDE DEF U
<1>3. OwnedUp(U, pub)
  BY <1>2 DEF Good, OwnedUp
<1>4. Good(U, pub, ab, {})
  BY <1>1, <1>2, <1>3, Update
<1>5. QED
  BY <1>4 DEF U

\* The rest of the invariant in a step that changes the tree, the rounds and the
\* services being published.
LEMMA UpStep ==
    ASSUME IInv, phase \in {"boot", "up"},
           UNCHANGED <<composition, phase, leaving, history, failures, aborts>>,
           changes' \in 0 .. MaxChanges, rounds' \in 0 .. SettleRounds,
           publishing' \subseteq Service,
           Good(tree', publishing', aborted, {}),
           rounds' = 0 => tree'.batch = {} /\ publishing' = {}
    PROVE  IInv'
<1>1. aborted' = aborted /\ UNCHANGED <<diverged, orderly>>
  BY DEF history
<1>2. Good(tree, publishing, aborted, {})'
  BY <1>1, NextGood
<1>3. tree' \in Tree
  BY DEF Good
<1>4. TypeOK'
  BY <1>1, <1>3 DEF IInv, TypeOK, Tree, State, Serial, Fiber, Nobody
<1>5. Control'
  BY DEF IInv, TypeOK, Control, Settling
<1>6. QED
  BY <1>2, <1>4, <1>5 DEF IInv

\* The first batch of a boot.
LEMMA BootSettleStep ==
    ASSUME IInv, BootSettle PROVE IInv'
<1>1. Good(tree', publishing', aborted, {})
  BY FirstBatchGood DEF IInv, Control, BootSettle, Calm
<1>2. rounds' = 1 /\ rounds' \in 0 .. SettleRounds
  BY TreeAssumption DEF BootSettle
<1>3. QED
  BY <1>1, <1>2, UpStep DEF BootSettle, Calm, history, bounds, IInv, TypeOK

\* The next round of a settle.
LEMMA NextRoundStep ==
    ASSUME IInv, NextRound PROVE IInv'
<1>1. Good(tree', publishing', aborted, {})
  BY FirstBatchGood DEF IInv, NextRound, Calm
<1>2. rounds' # 0 /\ rounds' \in 0 .. SettleRounds
  BY TreeAssumption DEF NextRound, IInv, TypeOK, Settling
<1>3. QED
  BY <1>1, <1>2, UpStep DEF NextRound, Calm, history, bounds, IInv, TypeOK, Control

\* The rounds are exhausted: settle raises.
LEMMA DivergeStep ==
    ASSUME IInv, Diverge PROVE IInv'
<1>1. Good(tree, publishing, aborted', {})
  BY DEF IInv, Diverge
<1>2. aborted' \subseteq Fiber /\ diverged' \in BOOLEAN /\ aborts' \in 0 .. MaxAborts
  BY DEF IInv, TypeOK, Diverge, bounds
<1>3. QED
  BY <1>1, <1>2, EscapeStep DEF Diverge, bounds

\* The services the host was publishing are filed.
LEMMA SettledStep ==
    ASSUME IInv, Settled PROVE IInv'
<1> DEFINE H == tree.held \cup publishing
           O == tree.orphans \cup {s \in publishing : tree.state[tree.owner[s]] # "active"}
           U == [tree EXCEPT !.held = H, !.orphans = O]
<1>0. /\ tree \in Tree /\ publishing \subseteq Service /\ Good(tree, publishing, aborted, {})
      /\ phase \in {"boot", "up"} /\ tree.batch = {}
      /\ composition' = composition /\ aborted' = aborted
  BY DEF IInv, TypeOK, Settled, Control
<1>1. tree' = U /\ rounds' = 0 /\ publishing' = {} /\ UNCHANGED <<diverged, bounds>>
  BY <1>0 DEF Settled, Tree
<1>2. U \in Tree
  <2>1. H \subseteq Service /\ O \subseteq Service
    BY <1>0, Fields
  <2> HIDE DEF H, O
  <2>2. QED
    BY <1>0, <2>1, Zenon DEF Tree
<1>3. /\ U.state = tree.state /\ U.epoch = tree.epoch /\ U.owner = tree.owner /\ U.held = H
      /\ U.queue = tree.queue /\ U.batch = tree.batch /\ U.orphans = O
      /\ U.unmounting = tree.unmounting /\ U.unwinding = tree.unwinding
  BY <1>0 DEF Tree
<1> HIDE DEF U
<1>4. OwnedUp(U, {})
  BY <1>0, <1>3 DEF Good, OwnedUp
<1>5. Good(U, {}, aborted, {})
  BY <1>0, <1>2, <1>3, <1>4, Update
<1>6. phase = "up" => phase' = "up"
  BY DEF Settled
<1>7. Good(tree, publishing, aborted, {})'
  BY <1>0, <1>1, <1>5, <1>6, NextGood
<1>8. \/ phase' = "disposing" /\ leaving' = Mounted(tree) /\ orderly' \in BOOLEAN
      \/ phase' = "up" /\ leaving' = leaving /\ orderly' = orderly
  BY DEF Settled, BeginDispose
<1>9. Mounted(tree)' = Mounted(tree)
  BY <1>1, <1>3 DEF Mounted, Fiber
<1>10. TypeOK'
  <2>1. tree' \in Tree /\ rounds' \in 0 .. SettleRounds
    BY <1>1, <1>2, TreeAssumption
  <2>2. /\ phase' \in {"boot", "up", "disposing", "closed"} /\ leaving' \subseteq Fiber
        /\ orderly' \in BOOLEAN
    BY <1>8 DEF IInv, TypeOK, Mounted
  <2>3. QED
    BY <1>0, <1>1, <2>1, <2>2 DEF IInv, TypeOK, bounds, Tree, Fiber, State, Serial, Nobody
<1>11. Control'
  BY <1>0, <1>1, <1>3, <1>8, <1>9 DEF Control, Settling
<1>12. QED
  BY <1>7, <1>10, <1>11 DEF IInv

-----------------------------------------------------------------------------
(* Calls by the host *)

\* A call, and the settle it starts unless one is under way or nobody was woken.
LEMMA SettleAfterStep ==
    ASSUME IInv, phase \in {"boot", "up"},
           UNCHANGED <<composition, phase, leaving, history, failures, aborts>>,
           publishing = {}, UNCHANGED publishing, changes' \in 0 .. MaxChanges,
           NEW T, NEW woken, SettleAfter(T, woken),
           Good(T, publishing, aborted, {}), ~Settling => T.batch = {}
    PROVE  IInv'
<1>1. /\ phase \in {"boot", "up"} /\ composition' = composition
      /\ changes' \in 0 .. MaxChanges /\ publishing' \subseteq Service
      /\ publishing' = {}
  OBVIOUS
<1>2. \/ tree' = T /\ rounds' = rounds
      \/ ~Settling /\ tree' = FirstBatch(T) /\ rounds' = 1
  BY DEF SettleAfter
<1>3. Good(tree', publishing', aborted, {})
  BY <1>2, FirstBatchGood
<1>4. rounds' \in 0 .. SettleRounds
  BY <1>2, TreeAssumption DEF IInv, TypeOK
<1>5. rounds' = 0 => tree'.batch = {}
  BY <1>2 DEF Settling
<1>6. QED
  BY <1>1, <1>3, <1>4, <1>5, UpStep

\* A call by the host: the tree is up, or settles.
LEMMA ChangeUp ==
    ASSUME IInv, Change
    PROVE  /\ phase \in {"boot", "up"} /\ publishing = {} /\ changes' \in 0 .. MaxChanges
           /\ UNCHANGED <<composition, phase, leaving, history, failures, aborts>>
BY TreeAssumption DEF IInv, TypeOK, Control, Change

\* A fiber is asked to restart: it is queued.
LEMMA RestartStep ==
    ASSUME IInv, NEW f \in Fiber, Restart(f) PROVE IInv'
<1> DEFINE T == [tree EXCEPT !.restart = @ \cup {f}, !.queue = @ \cup {f}]
<1>0. Good(tree, publishing, aborted, {}) /\ tree \in Tree /\ f \in Mounted(tree)
  BY DEF IInv, TypeOK, Restart
<1>1. T \in Tree
  <2>1. tree.restart \cup {f} \in SUBSET Fiber /\ tree.queue \cup {f} \in SUBSET Fiber
    BY <1>0, Fields
  <2>2. QED
    BY <1>0, <2>1, QueueUpdate, Zenon
<1>2. /\ T.state = tree.state /\ T.epoch = tree.epoch /\ T.owner = tree.owner
      /\ T.held = tree.held /\ T.orphans = tree.orphans
      /\ T.queue = tree.queue \cup {f} /\ T.batch = tree.batch
      /\ T.unmounting = tree.unmounting /\ T.unwinding = tree.unwinding
  BY <1>0 DEF Tree
<1>3. \/ tree' = T /\ rounds' = rounds
      \/ SettleAfter(T, {f})
  BY DEF Restart
<1> HIDE DEF T
<1>4. OwnedUp(T, publishing)
  BY <1>0, <1>2 DEF Good, OwnedUp
<1>5. Good(T, publishing, aborted, {})
  BY <1>0, <1>1, <1>2, <1>4, Update
<1>6. ~Settling => T.batch = {}
  BY <1>2 DEF IInv, Control
<1>7. Change /\ UNCHANGED publishing
  BY DEF Restart
<1>8. CASE SettleAfter(T, {f})
  BY <1>5, <1>6, <1>7, <1>8, ChangeUp, SettleAfterStep
<1>9. CASE tree' = T /\ rounds' = rounds
  <2>1. /\ phase \in {"boot", "up"} /\ changes' \in 0 .. MaxChanges
        /\ publishing' = {} /\ rounds' \in 0 .. SettleRounds
    BY <1>7, <1>9, TreeAssumption DEF IInv, TypeOK, Control, Change
  <2>2. rounds' = 0 => tree'.batch = {}
    BY <1>6, <1>9 DEF Settling, IInv, TypeOK
  <2>3. Good(tree', publishing', aborted, {}) /\ publishing' \subseteq Service
    BY <1>5, <1>7, <1>9 DEF IInv, TypeOK
  <2>4. QED
    BY <1>7, <2>1, <2>2, <2>3, UpStep DEF Change
<1>10. QED
  BY <1>3, <1>8, <1>9

\* A disposer of a registration is called: the users are queued.
LEMMA WithdrawServiceStep ==
    ASSUME IInv, NEW s \in Service, WithdrawService(s) PROVE IInv'
<1> DEFINE T == Withdraw(tree, {s})
<1>1. Good(tree, publishing, aborted, {}) /\ tree \in Tree /\ composition \in Compositions
  BY DEF IInv, TypeOK
<1>2. {s} \in SUBSET Service
  OBVIOUS
<1>3. Good(T, publishing, aborted, {}) /\ T.batch = tree.batch
  BY <1>1, <1>2, WithdrawGood, WithdrawFields
<1>4. ~Settling => T.batch = {}
  BY <1>3 DEF IInv, Control
<1>5. Change /\ SettleAfter(T, UsersOf(tree, {s})) /\ UNCHANGED publishing
  BY DEF WithdrawService
<1> HIDE DEF T
<1>6. QED
  BY <1>3, <1>4, <1>5, ChangeUp, SettleAfterStep

\* A registration, whether or not its effect is filed.
Registered(T, f, S, H) ==
    [T EXCEPT !.owner = [s \in Service |-> IF s \in S THEN f ELSE @[s]],
              !.held = H, !.queue = @ \cup UsersOf(T, S)]

\* What a registration does to each field.
LEMMA RegisteredFields ==
    ASSUME NEW T \in Tree, NEW f \in Fiber, NEW S \in SUBSET Service, NEW H \in SUBSET Service
    PROVE  LET U == Registered(T, f, S, H) IN
           /\ U \in Tree
           /\ U.state = T.state /\ U.epoch = T.epoch /\ U.batch = T.batch
           /\ U.orphans = T.orphans
           /\ U.unmounting = T.unmounting /\ U.unwinding = T.unwinding
           /\ U.owner = [s \in Service |-> IF s \in S THEN f ELSE T.owner[s]]
           /\ U.queue = T.queue \cup UsersOf(T, S)
           /\ U.held = H
<1> DEFINE owner == [s \in Service |-> IF s \in S THEN f ELSE T.owner[s]]
           queue == T.queue \cup UsersOf(T, S)
           U == [T EXCEPT !.owner = owner, !.held = H, !.queue = queue]
<1>1. owner \in [Service -> {Nobody} \cup Fiber] /\ queue \subseteq Fiber
  BY Fields DEF UsersOf, Mounted
<1>2. U = Registered(T, f, S, H)
  BY DEF Registered, Tree
<1> HIDE DEF owner, queue
<1>3. U \in Tree
  BY <1>1, Zenon DEF Tree
<1>4. /\ U.state = T.state /\ U.epoch = T.epoch /\ U.batch = T.batch
      /\ U.orphans = T.orphans /\ U.owner = owner /\ U.queue = queue /\ U.held = H
      /\ U.unmounting = T.unmounting /\ U.unwinding = T.unwinding
  BY <1>3 DEF Tree
<1> HIDE DEF U
<1>5. QED
  BY <1>2, <1>3, <1>4 DEF owner, queue

\* Both ways of Context.provide are registrations.
LEMMA ProvideRegisters ==
    ASSUME NEW T \in Tree, NEW f, NEW S
    PROVE  /\ Provide(T, f, S) = Registered(T, f, S, T.held \cup S)
           /\ [Provide(T, f, S) EXCEPT !.held = @ \ S] = Registered(T, f, S, (T.held \cup S) \ S)
BY DEF Provide, Registered, Tree

\* An active fiber publishes another service; its effect may be filed only later.
LEMMA RepublishStep ==
    ASSUME IInv, NEW f \in Fiber, NEW s \in Service, Republish(f, s) PROVE IInv'
<1> DEFINE S == {s}
           U(H) == Registered(tree, f, S, H)
<1>1. /\ Change /\ tree.state[f] = "active" /\ \A r \in S : tree.owner[r] = Nobody
      /\ Good(tree, publishing, aborted, {}) /\ tree \in Tree
      /\ composition \in Compositions
      /\ phase \in {"boot", "up"} /\ publishing = {}
      /\ ~Settling => tree.batch = {}
      /\ S \in SUBSET Service
  BY DEF IInv, TypeOK, Republish, Control, Change
<1>2. \/ tree' = U(tree.held \cup S) /\ UNCHANGED <<rounds, publishing>>
      \/ /\ ~Settling /\ tree' = FirstBatch(U((tree.held \cup S) \ S))
         /\ rounds' = 1 /\ publishing' = S
  BY <1>1, ProvideRegisters DEF Republish
<1> HIDE DEF S
<1>3. ASSUME NEW H \in SUBSET Service, NEW pub2, tree.held \cup S \subseteq H \cup pub2
      PROVE  Good(U(H), pub2, aborted, {}) /\ U(H).batch = tree.batch
  <2> DEFINE N == U(H)
             C == {}
             X == {}
  <2>0. tree \in Tree /\ S \in SUBSET Service
    BY <1>1
  <2>1. /\ N \in Tree
        /\ N.state = tree.state /\ N.epoch = tree.epoch /\ N.batch = tree.batch
        /\ N.orphans = tree.orphans
        /\ N.unmounting = tree.unmounting /\ N.unwinding = tree.unwinding
        /\ N.owner = [r \in Service |-> IF r \in S THEN f ELSE tree.owner[r]]
        /\ N.queue = tree.queue \cup UsersOf(tree, S)
        /\ N.held = H
    BY <2>0, RegisteredFields
  <2> HIDE DEF N
  <2>2. N.state = [g \in Fiber |-> IF g = f THEN "active"
                                   ELSE IF g \in C THEN "pending" ELSE tree.state[g]]
    BY <1>1, <2>1, Fields
  <2>3. f \in Mounted(tree) /\ X \in SUBSET {f} /\ C \in SUBSET Children(f)
    BY <1>1 DEF Mounted
  <2>4. N.queue = tree.queue \cup UsersOf(tree, S) \cup C /\ N.batch = tree.batch \ C
    BY <2>1
  <2>5. publishing \subseteq pub2 /\ tree.held \cup S \subseteq N.held \cup pub2
    BY <1>1, <1>3, <2>1
  <2>6. /\ Good(tree, publishing, aborted, X) /\ \A k \in C : tree.state[k] = "absent"
        /\ f \in X \/ tree.state[f] = "active"
    BY <1>1
  <2> HIDE DEF C, X
  <2>7. Good(N, pub2, aborted, X)
    BY <1>1, <2>1, <2>2, <2>3, <2>4, <2>5, <2>6, LoadGood
  <2>8. QED
    BY <2>1, <2>7 DEF N, X
<1>4. tree.held \cup S \in SUBSET Service /\ (tree.held \cup S) \ S \in SUBSET Service
  BY <1>1, Fields
<1> HIDE DEF U
<1>5. /\ UNCHANGED <<composition, phase, leaving, history, failures, aborts>>
      /\ changes' \in 0 .. MaxChanges
  BY <1>1, TreeAssumption DEF Change, IInv, TypeOK
<1>6. CASE tree' = U(tree.held \cup S) /\ UNCHANGED <<rounds, publishing>>
  <2>1. Good(tree', publishing', aborted, {}) /\ tree'.batch = tree.batch
    <3>1. Good(U(tree.held \cup S), {}, aborted, {}) /\ U(tree.held \cup S).batch = tree.batch
      BY <1>3, <1>4
    <3>2. QED
      BY <1>1, <1>6, <3>1
  <2>2. rounds' \in 0 .. SettleRounds /\ publishing' \subseteq Service
    BY <1>6 DEF IInv, TypeOK
  <2>3. rounds' = 0 => tree'.batch = {} /\ publishing' = {}
    BY <1>1, <1>6, <2>1 DEF Settling
  <2>4. QED
    BY <1>1, <1>5, <2>1, <2>2, <2>3, UpStep
<1>7. CASE /\ ~Settling /\ tree' = FirstBatch(U((tree.held \cup S) \ S))
           /\ rounds' = 1 /\ publishing' = S
  <2> DEFINE N == U((tree.held \cup S) \ S)
  <2>1. Good(N, S, aborted, {}) /\ N.batch = {}
    BY <1>1, <1>3, <1>4, <1>7
  <2> HIDE DEF N
  <2>2. Good(tree', publishing', aborted, {})
    BY <1>7, <2>1, FirstBatchGood DEF N
  <2>3. rounds' \in 0 .. SettleRounds /\ rounds' # 0
    BY <1>7, TreeAssumption
  <2>4. QED
    BY <1>1, <1>5, <1>7, <2>2, <2>3, UpStep
<1>8. QED
  BY <1>2, <1>6, <1>7

\* A fiber whose children are gone, or are none, is disposed.
LEMMA DisposedGood ==
    ASSUME composition \in Compositions, NEW T, NEW pub, NEW ab, NEW f \in Fiber,
           Good(T, pub, ab, {}), Bare(T, f, pub)
    PROVE  LET G == Forget(T, {f}) IN
           Good(G, pub, ab, {}) /\ G \in Tree /\ Mounted(G) \subseteq Mounted(T) \ {f}
                /\ G.batch = T.batch
<1>1. T \in Tree /\ {f} \in SUBSET Fiber
  BY DEF Good
<1>2. \A s \in Service \ (pub \cup T.orphans) : T.owner[s] \notin {f}
  BY DEF Bare
<1>3. \A k \in Mounted(T) \ Row : Parent[k] \in {f} => k \in {f}
  BY DEF Bare, Mounted, Children
<1>4. Good(Forget(T, {f}), pub, ab, {})
  BY <1>1, <1>2, <1>3, ForgetGood
<1> DEFINE G == Forget(T, {f})
<1>5. /\ G \in Tree /\ G.batch = T.batch
      /\ G.state = [g \in Fiber |-> IF g \in {f} THEN "absent" ELSE T.state[g]]
  BY <1>1, ForgetFields
<1> HIDE DEF G
<1>6. Mounted(G) \subseteq Mounted(T) \ {f}
  BY <1>5 DEF Mounted
<1>7. QED
  BY <1>4, <1>5, <1>6 DEF G

\* A child has no children.
LEMMA Childless ==
    ASSUME NEW k \in Fiber \ Row
    PROVE  Children(k) = {}
BY TreeAssumption DEF Children, Row, Nobody, Fiber

\* A child is disposed of at once.
LEMMA UnmountAtOnce ==
    ASSUME IInv, NEW k \in Fiber, Unmount(k),
           tree' = Forget(Withdraw(tree, Held(tree, {k})), {k})
    PROVE  IInv'
<1> DEFINE S == Held(tree, {k})
           W == Withdraw(tree, S)
           G == Forget(W, {k})
<1>1. /\ Change /\ k \notin Row /\ tree' = G /\ UNCHANGED <<rounds, publishing>>
      /\ Good(tree, publishing, aborted, {}) /\ tree \in Tree
      /\ composition \in Compositions
      /\ phase \in {"boot", "up"} /\ publishing = {}
  BY DEF IInv, TypeOK, Unmount, Control, Change
<1>2. OwnedUp(tree, publishing) /\ {k} \in SUBSET Fiber
  BY <1>1 DEF Good
<1>3. /\ S \in SUBSET Service
      /\ \A s \in Service \ (publishing \cup W.orphans) : W.owner[s] \notin {k}
  BY <1>1, <1>2, WithdrawOwned
<1> HIDE DEF S
<1>4. Good(W, publishing, aborted, {}) /\ W.batch = tree.batch
  <2>1. Good(W, publishing, aborted, {})
    BY <1>1, <1>3, WithdrawGood
  <2>2. W.batch = tree.batch
    BY <1>1, <1>3, WithdrawFields
  <2>3. QED
    BY <2>1, <2>2
<1>5. Children(k) = {}
  BY <1>1, Childless
<1>6. Bare(W, k, publishing)
  BY <1>3, <1>5 DEF Bare
<1> HIDE DEF W
<1>7. Good(G, publishing, aborted, {}) /\ G.batch = W.batch
  BY <1>1, <1>4, <1>6, DisposedGood
<1> HIDE DEF G
<1>8. /\ UNCHANGED <<composition, phase, leaving, history, failures, aborts>>
      /\ changes' \in 0 .. MaxChanges
  BY <1>1, TreeAssumption DEF Change, IInv, TypeOK
<1>9. rounds' = 0 => tree'.batch = {}
  BY <1>1, <1>4, <1>7 DEF IInv, Control, Settling, TypeOK
<1>10. QED
  BY <1>1, <1>7, <1>8, <1>9, UpStep DEF IInv, TypeOK

\* Its effects begin to be undone: it owns what it owned, though it is not active.
LEMMA UnmountBegins ==
    ASSUME IInv, NEW k \in Fiber, Unmount(k), ~Settling,
           tree' = [tree EXCEPT !.state[k] = IF @ = "failed" THEN "failed" ELSE "unloading",
                                !.unmounting = {k}, !.unwinding = {k}]
    PROVE  IInv'
<1> DEFINE st == IF tree.state[k] = "failed" THEN "failed" ELSE "unloading"
           U == [tree EXCEPT !.state[k] = st, !.unmounting = {k}, !.unwinding = {k}]
<1>1. /\ Change /\ k \in Mounted(tree) /\ k \notin Row /\ tree' = U
      /\ UNCHANGED <<rounds, publishing>>
      /\ Good(tree, publishing, aborted, {}) /\ tree \in Tree
      /\ phase = "up" /\ tree.batch = {} /\ tree.unmounting = {}
  BY DEF IInv, TypeOK, Unmount, Control, Change
<1>2. /\ tree.state \in [Fiber -> State] /\ st \in State \ {"absent"}
      /\ tree.state[k] \in State \ {"absent"}
  BY <1>1, Fields DEF State, Mounted
<1>3. U \in Tree
  <2>1. [tree.state EXCEPT ![k] = st] \in [Fiber -> State] /\ {k} \in SUBSET Fiber
    BY <1>2
  <2>2. U = [tree EXCEPT !.state = [tree.state EXCEPT ![k] = st],
                         !.unmounting = {k}, !.unwinding = {k}]
    BY <1>1 DEF Tree
  <2> HIDE DEF U, st
  <2>3. QED
    BY <1>1, <2>1, <2>2, Zenon DEF Tree
<1>4. /\ U.state = [tree.state EXCEPT ![k] = st] /\ U.epoch = tree.epoch
      /\ U.owner = tree.owner /\ U.held = tree.held /\ U.orphans = tree.orphans
      /\ U.queue = tree.queue /\ U.batch = tree.batch
      /\ U.unmounting = {k} /\ U.unwinding = {k}
  BY <1>1 DEF Tree
<1> HIDE DEF U
<1>5. Mounted(U) = Mounted(tree)
  BY <1>2, <1>4 DEF Mounted
<1>6. Kids(U)
  <2>1. \A g \in Mounted(U) \ Row : Parent[g] \in Fiber \ {k}
    BY <1>1, TreeAssumption DEF Mounted, Row, Children
  <2>2. QED
    BY <1>1, <1>2, <1>4, <1>5, <2>1 DEF Good, Kids
<1>7. Unmounts(U)
  BY <1>1, <1>4 DEF Unmounts
<1>8. OwnedUp(U, publishing)
  <2>1. tree.unwinding = {}
    BY <1>1 DEF Good, Unmounts
  <2>2. \A s \in Service : tree.owner[s] \in Fiber \/ tree.owner[s] = Nobody
    BY <1>1, Fields
  <2>3. QED
    BY <1>1, <1>2, <1>4, <2>1, <2>2 DEF Good, OwnedUp
<1>9. ASSUME NEW g \in Fiber
      PROVE  Consistent(U, g, aborted) /\ Fresh(U, g, aborted)
  <2>1. Consistent(tree, g, aborted) /\ Fresh(tree, g, aborted)
    BY <1>1 DEF Good
  <2>2. compute_epoch(U, g) = compute_epoch(tree, g)
    BY <1>4, EpochSame
  <2>3. g = k => U.state[g] = st
    BY <1>2, <1>4
  <2>4. g # k => U.state[g] = tree.state[g]
    BY <1>4
  <2>5. Consistent(U, g, aborted)
    BY <1>1, <1>2, <1>4, <2>1, <2>3, <2>4 DEF Consistent
  <2>6. Fresh(U, g, aborted)
    BY <1>4, <1>5, <2>1, <2>2, <2>3, <2>4 DEF Fresh, Waits
  <2>7. QED
    BY <2>5, <2>6
<1>10. Good(U, publishing, aborted, {})
  BY <1>3, <1>6, <1>7, <1>8, <1>9 DEF Good
<1>11. tree'.batch = {} /\ publishing' = {} /\ rounds' \in 0 .. SettleRounds
  BY <1>1, <1>4 DEF IInv, TypeOK, Control
<1>12. QED
  BY <1>1, <1>10, <1>11, ChangeUp, UpStep DEF IInv, TypeOK

\* A child is disposed of by a call.
LEMMA UnmountStep ==
    ASSUME IInv, NEW k \in Fiber, Unmount(k) PROVE IInv'
<1>1. CASE tree' = Forget(Withdraw(tree, Held(tree, {k})), {k})
  BY <1>1, UnmountAtOnce
<1>2. CASE ~(Settling \/ UsersOf(tree, Held(tree, {k})) = {})
  BY <1>2, UnmountBegins DEF Unmount
<1>3. QED
  BY <1>1, <1>2 DEF Unmount

\* The next of its services is withdrawn.
LEMMA UnmountNextStep ==
    ASSUME IInv, NEW k \in Fiber, UnmountNext(k) PROVE IInv'
<1>1. /\ Good(tree, publishing, aborted, {}) /\ tree \in Tree /\ composition \in Compositions
      /\ phase = "up" /\ ~Settling /\ tree.batch = {} /\ publishing = {}
  BY DEF IInv, TypeOK, UnmountNext, Control, Good, Unmounts
<1>2. PICK s \in Held(tree, {k}) : SettleAfter(Withdraw(tree, {s}), UsersOf(tree, {s}))
  BY DEF UnmountNext
<1>3. {s} \in SUBSET Service
  BY <1>1, Fields DEF Held
<1> DEFINE T == Withdraw(tree, {s})
<1>4. Good(T, publishing, aborted, {}) /\ T.batch = {}
  BY <1>1, <1>3, WithdrawGood, WithdrawFields
<1>5. /\ UNCHANGED <<composition, phase, leaving, history, failures, aborts>>
      /\ UNCHANGED publishing /\ changes' \in 0 .. MaxChanges
  BY DEF UnmountNext, bounds, IInv, TypeOK
<1>6. SettleAfter(T, UsersOf(tree, {s}))
  BY <1>2
<1> HIDE DEF T
<1>7. QED
  BY <1>1, <1>4, <1>5, <1>6, SettleAfterStep

\* All its effects are undone: it is forgotten.
LEMMA UnmountEndStep ==
    ASSUME IInv, NEW k \in Fiber, UnmountEnd(k) PROVE IInv'
<1> DEFINE G == Forget(tree, {k})
<1>1. /\ Good(tree, publishing, aborted, {}) /\ tree \in Tree /\ composition \in Compositions
      /\ phase = "up" /\ ~Settling /\ tree.batch = {} /\ publishing = {}
      /\ k \notin Row /\ Held(tree, {k}) = {} /\ tree' = G
      /\ UNCHANGED <<composition, phase, rounds, publishing, leaving, history, bounds>>
  BY DEF IInv, TypeOK, UnmountEnd, Control, Good, Unmounts
<1>2. Bare(tree, k, publishing)
  <2>1. Children(k) = {} /\ k # Nobody
    BY <1>1, Childless DEF Nobody, Fiber
  <2>2. QED
    BY <1>1, <2>1 DEF Bare, Good, OwnedUp, Held
<1>3. Good(G, publishing, aborted, {}) /\ G.batch = {}
  BY <1>1, <1>2, DisposedGood
<1> HIDE DEF G
<1>4. /\ UNCHANGED <<composition, phase, leaving, history, failures, aborts>>
      /\ publishing' = {} /\ changes' \in 0 .. MaxChanges /\ rounds' \in 0 .. SettleRounds
  BY <1>1 DEF bounds, IInv, TypeOK
<1>5. QED
  BY <1>1, <1>3, <1>4, UpStep

-----------------------------------------------------------------------------
(* Disposal *)

\* Root.dispose takes the list of the fibers.
LEMMA DisposeStarts ==
    ASSUME IInv, Dispose PROVE IInv'
<1>1. /\ phase' = "disposing" /\ leaving' = Mounted(tree) /\ orderly' \in BOOLEAN
      /\ tree' = tree /\ aborted' = aborted /\ publishing' = publishing
      /\ rounds' = rounds /\ ~Settling /\ composition' = composition
      /\ UNCHANGED <<diverged, failures, aborts, changes>> /\ tree'.unmounting = {}
  BY DEF Dispose, BeginDispose, bounds
<1>2. Good(tree, publishing, aborted, {})'
  BY <1>1, NextGood DEF IInv
<1>3. Mounted(tree)' = Mounted(tree)
  BY <1>1 DEF Mounted, Fiber
<1>4. TypeOK'
  BY <1>1 DEF IInv, TypeOK, Mounted, Tree, Fiber, State, Serial, Nobody
<1>5. Control'
  BY <1>1, <1>3 DEF IInv, Control, Settling
<1>6. QED
  BY <1>2, <1>4, <1>5 DEF IInv

\* The next fiber is disposed.
LEMMA DisposeNextStep ==
    ASSUME IInv, NEW f \in Fiber, DisposeNext(f) PROVE IInv'
<1> DEFINE D == Discard(tree, f)
           G == Forget(D, {f})
<1>1. /\ phase = "disposing" /\ leaving' = leaving \ {f} /\ tree' = G
      /\ UNCHANGED <<composition, phase, rounds, publishing, history, bounds>>
      /\ Good(tree, publishing, aborted, {}) /\ composition \in Compositions
      /\ ~Settling /\ publishing = {} /\ tree.batch = {}
      /\ Mounted(tree) \subseteq leaving
  BY DEF DisposeNext, IInv, TypeOK, Control
<1>2. Good(D, publishing, aborted, {}) /\ Bare(D, f, publishing)
  BY <1>1, DiscardGood
<1>3. Mounted(D) \subseteq Mounted(tree) /\ D.batch = {}
  <2> DEFINE S == Held(tree, Children(f) \cup {f})
             W == Withdraw(tree, S)
  <2>1. tree \in Tree /\ S \in SUBSET Service /\ Children(f) \in SUBSET Fiber
    BY <1>1, Fields DEF Good, Held, Children
  <2> DEFINE H == Forget(W, Children(f))
  <2>2. D = [H EXCEPT !.unwinding = @ \ {f}]
    BY DEF Discard
  <2> HIDE DEF S, D
  <2>3. W \in Tree /\ W.state = tree.state /\ W.batch = tree.batch
    BY <2>1, WithdrawFields
  <2> HIDE DEF W
  <2>4. /\ H.state = [g \in Fiber |-> IF g \in Children(f) THEN "absent" ELSE W.state[g]]
        /\ H.batch = W.batch /\ H \in Tree
    BY <2>1, <2>3, ForgetFields
  <2> HIDE DEF H
  <2>5. D.state = H.state /\ D.batch = H.batch
    BY <2>2, <2>4 DEF Tree
  <2>6. QED
    BY <1>1, <2>3, <2>4, <2>5 DEF Mounted
<1> HIDE DEF D
<1>4. /\ Good(G, publishing, aborted, {}) /\ G \in Tree
      /\ Mounted(G) \subseteq Mounted(D) \ {f} /\ G.batch = D.batch
  BY <1>1, <1>2, DisposedGood
<1> HIDE DEF G
<1>5. Good(tree, publishing, aborted, {})'
  BY <1>1, <1>4, NextGood DEF history
<1>6. Mounted(tree)' = Mounted(G)
  BY <1>1 DEF Mounted, Fiber
<1>7. TypeOK'
  BY <1>1, <1>4 DEF IInv, TypeOK, history, bounds, Tree, Fiber, State, Serial, Nobody
<1>8. Control'
  BY <1>1, <1>3, <1>4, <1>6 DEF Control, Settling
<1>9. QED
  BY <1>5, <1>7, <1>8 DEF IInv

\* The queue is dropped with the last fiber.
LEMMA DisposeEndStep ==
    ASSUME IInv, DisposeEnd PROVE IInv'
<1> DEFINE U == [tree EXCEPT !.queue = {}]
<1>1. /\ phase = "disposing" /\ leaving = {} /\ phase' = "closed" /\ tree' = U
      /\ UNCHANGED <<composition, rounds, publishing, leaving, history, bounds>>
      /\ Good(tree, publishing, aborted, {}) /\ tree \in Tree
      /\ ~Settling /\ publishing = {} /\ tree.batch = {} /\ Mounted(tree) = {}
  BY DEF DisposeEnd, IInv, TypeOK, Control
<1>2. U \in Tree
  <2>1. {} \in SUBSET Fiber
    OBVIOUS
  <2>2. QED
    BY <1>1, <2>1, Zenon DEF Tree
<1>3. /\ U.state = tree.state /\ U.epoch = tree.epoch /\ U.owner = tree.owner
      /\ U.held = tree.held /\ U.queue = {} /\ U.batch = tree.batch
      /\ U.orphans = tree.orphans
      /\ U.unmounting = tree.unmounting /\ U.unwinding = tree.unwinding
  BY <1>1 DEF Tree
<1> HIDE DEF U
<1>4. OwnedUp(U, publishing)
  BY <1>1, <1>3 DEF Good, OwnedUp
<1>5. ((tree.queue \cup tree.batch) \cap Mounted(tree)) \ {} \subseteq U.queue \cup U.batch
  BY <1>1
<1>6. Good(U, publishing, aborted, {})
  BY <1>1, <1>2, <1>3, <1>4, <1>5, Update
<1>7. Good(tree, publishing, aborted, {})'
  BY <1>1, <1>6, NextGood DEF history
<1>8. Mounted(tree)' = {}
  BY <1>1, <1>3 DEF Mounted, Fiber
<1>9. TypeOK'
  BY <1>1, <1>2 DEF IInv, TypeOK, history, bounds, Tree, Fiber, State, Serial, Nobody
<1>10. Control'
  BY <1>1, <1>3, <1>8 DEF Control, Settling
<1>11. QED
  BY <1>7, <1>9, <1>10 DEF IInv

-----------------------------------------------------------------------------
(* The invariant holds *)

\* A composition boots with its rows queued and nothing else.
LEMMA InitInv == Init => IInv
<1> SUFFICES ASSUME Init PROVE IInv
  OBVIOUS
<1> DEFINE state == [f \in Fiber |-> IF f \in Row THEN "pending" ELSE "absent"]
           epoch == [f \in Fiber |-> INACTIVE]
           owner == [s \in Service |-> Nobody]
           after == [f \in Fiber |-> {}]
<1>1. tree = [state |-> state, epoch |-> epoch, restart |-> {}, owner |-> owner,
              held |-> {}, orphans |-> {}, queue |-> Row, batch |-> {}, after |-> after,
              unmounting |-> {}, unwinding |-> {}]
  BY DEF Init
<1>2. /\ state \in [Fiber -> State] /\ owner \in [Service -> {Nobody} \cup Fiber]
      /\ after \in [Fiber -> SUBSET Fiber] /\ Row \subseteq Fiber
  BY DEF State, Row, Children
<1>3. epoch \in [Fiber -> [Service -> Serial]]
  <2>1. INACTIVE \in [Service -> Serial]
    BY DEF INACTIVE, Serial
  <2>2. QED
    BY <2>1
<1> HIDE DEF state, epoch, owner, after
<1>4. tree \in Tree
  BY <1>1, <1>2, <1>3 DEF Tree
<1>5. /\ tree.state = state /\ tree.epoch = epoch /\ tree.owner = owner
      /\ tree.queue = Row /\ tree.batch = {}
      /\ tree.unmounting = {} /\ tree.unwinding = {}
  BY <1>1
<1>6. Mounted(tree) = Row
  BY <1>2, <1>5 DEF Mounted, state
<1>7. Kids(tree) /\ Unmounts(tree) /\ OwnedUp(tree, {})
  BY <1>5, <1>6 DEF Kids, Unmounts, OwnedUp, owner
<1>8. ASSUME NEW f \in Fiber
      PROVE  Consistent(tree, f, {}) /\ Fresh(tree, f, {})
  <2>1. tree.epoch[f] = INACTIVE /\ tree.state[f] \in {"pending", "absent"}
    BY <1>5 DEF epoch, state
  <2>2. QED
    BY <1>5, <1>6, <2>1 DEF Consistent, Fresh, Waits
<1>9. TypeOK
  <2>1. /\ 0 \in 0 .. SettleRounds /\ 0 \in 0 .. MaxFailures
        /\ 0 \in 0 .. MaxAborts /\ 0 \in 0 .. MaxChanges
    BY TreeAssumption
  <2>2. QED
    BY <1>4, <2>1 DEF Init, TypeOK
<1>10. Control
  BY <1>5 DEF Init, Control, Settling
<1>11. QED
  BY <1>4, <1>7, <1>8, <1>9, <1>10 DEF Init, IInv, Good

\* Every step keeps it.
LEMMA NextInv == IInv /\ [Next]_vars => IInv'
<1> SUFFICES ASSUME IInv, [Next]_vars PROVE IInv'
  OBVIOUS
<1>1. CASE SettleStep
  <2>1. CASE \E f \in Fiber : Refresh(f)
    BY <2>1, RefreshGoneStep, RefreshOnlyStep, RefreshLoadsStep, RefreshFailsStep,
       RefreshAbortsStep DEF Refresh
  <2>2. QED
    BY <1>1, <2>1, BootSettleStep, NextRoundStep, DivergeStep, SettledStep DEF SettleStep
<1>2. CASE HostStep
  <2>1. CASE \E f \in Fiber : Restart(f) \/ Unmount(f)
    BY <2>1, RestartStep, UnmountStep
  <2>2. CASE \E s \in Service : WithdrawService(s) \/ \E f \in Fiber : Republish(f, s)
    BY <2>2, WithdrawServiceStep, RepublishStep
  <2>3. CASE Dispose
    BY <2>3, DisposeStarts
  <2>4. QED
    BY <1>2, <2>1, <2>2, <2>3 DEF HostStep
<1>3. CASE DisposeStep
  BY <1>3, DisposeEndStep, DisposeNextStep DEF DisposeStep
<1>4. CASE ChildStep
  BY <1>4, UnmountNextStep, UnmountEndStep DEF ChildStep
<1>5. CASE UNCHANGED vars
  <2>1. Good(tree, publishing, aborted, {})'
    <3>1. Good(tree', publishing', aborted', {})
      BY <1>5 DEF IInv, vars, history
    <3>2. QED
      BY <1>5, <3>1, NextGood DEF vars
  <2>2. TypeOK'
    BY <1>5 DEF IInv, TypeOK, vars, history, bounds, Tree, Fiber, State, Serial, Nobody
  <2>3. Mounted(tree)' = Mounted(tree)
    BY <1>5 DEF vars, Mounted, Fiber
  <2>4. Control'
    BY <1>5, <2>3 DEF IInv, Control, vars, Settling
  <2>5. QED
    BY <2>1, <2>2, <2>4 DEF IInv
<1>6. QED
  BY <1>1, <1>2, <1>3, <1>4, <1>5 DEF Next

\* The invariant holds in every reachable state.
LEMMA Invariant == Spec => []IInv
BY InitInv, NextInv, PTL DEF Spec

-----------------------------------------------------------------------------
(* What the tree promises *)

\* Fibers, epochs, registrations, rounds and history keep their types.
THEOREM TypeCorrect == Spec => []TypeOK
<1>1. IInv => TypeOK
  BY DEF IInv
<1>2. QED
  BY <1>1, Invariant, PTL

\* Root.settle: once nothing is queued, every fiber is where its dependencies put it,
\* whatever failed or aborted, unless its own refresh was the one cut short.
THEOREM SettledStaysCurrent == Spec => []SettledIsCurrent
<1>1. IInv => SettledIsCurrent
  <2> SUFFICES ASSUME IInv, phase = "up", ~Settling, tree.queue = {}, tree.unmounting = {},
                      NEW f \in Mounted(tree) \ aborted
               PROVE  \/ tree.state[f] = "failed" /\ tree.epoch[f] = INACTIVE
                      \/ /\ tree.state[f] = (IF Missing(tree, f) = {} THEN "active" ELSE "pending")
                         /\ tree.epoch[f] = compute_epoch(tree, f)
    BY DEF SettledIsCurrent
  <2>1. /\ f \in Fiber /\ tree.state[f] \in State /\ tree \in Tree
        /\ composition \in Compositions /\ tree.state[f] # "absent"
    BY Fields DEF IInv, TypeOK, Mounted
  <2>2. Consistent(tree, f, aborted) /\ Fresh(tree, f, aborted) /\ tree.batch = {}
    BY <2>1 DEF IInv, Good, Control
  <2>3. tree.state[f] \in {"pending", "active", "failed"}
    BY <2>1, <2>2 DEF Consistent, State
  <2>4. tree.state[f] # "failed" => tree.epoch[f] = compute_epoch(tree, f)
    BY <2>2 DEF Fresh, Waits
  <2>5. compute_epoch(tree, f) = INACTIVE <=> Missing(tree, f) # {}
    BY <2>1, Epochs
  <2>6. QED
    BY <2>2, <2>3, <2>4, <2>5 DEF Consistent
<1>2. QED
  BY <1>1, Invariant, PTL

\* Effects: what a fiber published or mounted is gone when its load is, but for a child
\* that the host disposes of: its services go one settle after another.
THEOREM ContributionsEnd == Spec => []ContributionsEndWithLoad
<1>1. IInv => ContributionsEndWithLoad
  BY DEF IInv, Good, Kids, Unmounts, OwnedUp, ContributionsEndWithLoad
<1>2. QED
  BY <1>1, Invariant, PTL

\* Root.dispose: every fiber is reached, those mounted or left behind while it ran too.
THEOREM DisposalIsComplete == Spec => []ClosedIsEmpty
<1>1. IInv => ClosedIsEmpty
  <2> SUFFICES ASSUME IInv, phase = "closed" PROVE ClosedIsEmpty
    BY DEF ClosedIsEmpty
  <2>1. Mounted(tree) = {} /\ tree.queue = {} /\ publishing = {} /\ OwnedUp(tree, publishing)
    BY DEF IInv, Control, Good
  <2>2. ASSUME NEW s \in Service \ tree.orphans, tree.owner[s] # Nobody
        PROVE  FALSE
    <3>1. tree.owner[s] \in Fiber
      BY <2>2, Fields DEF IInv, TypeOK
    <3>2. tree.state[tree.owner[s]] = "active"
      BY <2>1, <2>2 DEF OwnedUp, IInv, Good, Unmounts
    <3>3. QED
      BY <2>1, <3>1, <3>2 DEF Mounted
  <2>3. QED
    BY <2>1, <2>2 DEF ClosedIsEmpty
<1>2. QED
  BY <1>1, Invariant, PTL
=============================================================================
