------------------------------ MODULE PluginTree ------------------------------
(***************************************************************************)
(* The plugin tree (core/fiber.py, core/registry.py, core/loader.py):      *)
(* fibers that load when the services they inject are published, reload    *)
(* when one is replaced, and are torn down consumers first.                *)
(*                                                                         *)
(* The code is one thread.  A step is what runs between two points at      *)
(* which another fiber can be reached: the refresh of one queued fiber, a  *)
(* round of settle(), one disposer of a child, the disposal of one fiber,  *)
(* a call by the host.  What a plugin does in apply() is a choice among    *)
(* its outcomes.                                                           *)
(***************************************************************************)
EXTENDS Integers, FiniteSets

CONSTANTS
    Fibers,       \* the number of rows and children
    Parent,       \* of each fiber: 0 for a row of the composition
    Required,     \* the required rows and children
    Service,
    Compositions, \* what each fiber injects, may inject and provides
    SettleRounds, \* DEFAULT_SETTLE_ROUNDS
    MaxFailures, MaxAborts, MaxChanges
                  \* bounds: exceptions, aborts (BaseException) and host calls

Fiber == 1 .. Fibers
Nobody == 0
Children(f) == {k \in Fiber : Parent[k] = f}
Row == Children(Nobody)

ASSUME TreeAssumption ==
    /\ Fibers \in Nat /\ SettleRounds \in Nat \ {0}
    /\ Parent \in [Fiber -> {Nobody} \cup Fiber]
    /\ \A f \in Fiber : Parent[f] # Nobody => Parent[Parent[f]] = Nobody
    /\ Required \subseteq Fiber
    /\ Service # {}
    /\ Compositions \subseteq [inject : [Fiber -> SUBSET Service],
                               optional : [Fiber -> SUBSET Service],
                               provide : [Fiber -> SUBSET Service]]
    /\ MaxFailures \in Nat /\ MaxAborts \in Nat /\ MaxChanges \in Nat

VARIABLES
    composition, \* the one in force, fixed
    tree,        \* Root and its fibers, see Tree below
    phase,       \* "boot", "up", "disposing", "closed"
    rounds,      \* of the settle under way; 0 when none is
    publishing,  \* services of a provide() by the host that is settling
    leaving,     \* fibers dispose() has yet to reach
    aborted,     \* history: fibers an aborted refresh left behind
    diverged,    \* history: has a settle run out of rounds?
    orderly,     \* history: was the tree settled when its disposal began?
    failures, aborts, changes    \* bounds used

history == <<aborted, diverged, orderly>>
bounds == <<failures, aborts, changes>>
vars == <<composition, tree, phase, rounds, publishing, leaving, history, bounds>>

-----------------------------------------------------------------------------
(* Epochs.  The serials of an epoch are named by what has become of the    *)
(* registration: "live" while it is the current one, "gone" afterwards.    *)

State == {"absent", "pending", "loading", "active", "unloading", "failed"}
Serial == {"live", "gone", "none", "inactive"}

INACTIVE == [s \in Service |-> "inactive"]

Uses(f) == composition.inject[f] \cup composition.optional[f]

Missing(T, f) == {s \in composition.inject[f] : T.owner[s] = Nobody}

compute_epoch(T, f) ==
    IF Missing(T, f) # {}
    THEN INACTIVE
    ELSE [s \in Service |-> IF s \in Uses(f) /\ T.owner[s] # Nobody THEN "live" ELSE "none"]

Mounted(T) == {f \in Fiber : T.state[f] # "absent"}
UsersOf(T, S) == {f \in Mounted(T) : Uses(f) \cap S # {}}

-----------------------------------------------------------------------------
(* What a fiber does to the tree                                           *)

Enqueue(T, F) == [T EXCEPT !.queue = @ \cup F]

SetState(T, f, state) == [T EXCEPT !.state[f] = state]

\* Realm.provide with the effect that undoes it, and _service_changed.
Provide(T, f, S) ==
    [T EXCEPT !.owner = [s \in Service |-> IF s \in S THEN f ELSE @[s]],
              !.held = @ \cup S,
              !.queue = @ \cup UsersOf(T, S)]

\* The disposers of registrations, and _service_changed.
Withdraw(T, S) ==
    [T EXCEPT !.owner = [s \in Service |-> IF s \in S THEN Nobody ELSE @[s]],
              !.held = @ \ S,
              !.orphans = @ \ S,
              !.epoch = [f \in Fiber |-> [s \in Service |->
                            IF s \in S /\ @[f][s] = "live" THEN "gone" ELSE @[f][s]]],
              !.queue = @ \cup UsersOf(T, S)]

\* The fibers of F are DISPOSED and forgotten, though not by the queue.
Forget(T, F) ==
    [T EXCEPT !.state = [f \in Fiber |-> IF f \in F THEN "absent" ELSE @[f]],
              !.epoch = [f \in Fiber |-> IF f \in F THEN INACTIVE ELSE @[f]],
              !.restart = @ \ F,
              !.unmounting = @ \ F,
              !.unwinding = @ \ F,
              !.after = [f \in Fiber |-> IF f \in F THEN {} ELSE @[f] \ F]]

Held(T, F) == {s \in T.held : T.owner[s] \in F}

\* Mutant: services published by the children stay registered.
DiscardOwnServices(T, f) ==
    LET undone == Forget(Withdraw(T, Held(T, {f})), Children(f))
    IN [undone EXCEPT !.unwinding = @ \ {f}]

\* Everything the load produced is undone, children first, even if a disposer aborts.
Discard(T, f) ==
    LET undone == Forget(Withdraw(T, Held(T, Children(f) \cup {f})), Children(f))
    IN [undone EXCEPT !.unwinding = @ \ {f}]

Unload(T, f) == SetState(Discard(T, f), f, "pending")

\* Mutant: a fiber that is activated again keeps its old place.
ActivateInPlace(T, f) ==
    [T EXCEPT !.state[f] = "active",
              !.after[f] = @ \cup {h \in Fiber : h \in T.after[h]} \cup {f}]

\* observe: an activated fiber moves to the end of _activation_order.
Activate(T, f) ==
    [T EXCEPT !.state[f] = "active",
              !.after = [g \in Fiber |-> IF g = f THEN {h \in Fiber : h \in @[h]} \cup {f}
                                                  ELSE @[g] \ {f}]]

\* Context.plugin: the children are mounted and queued.  An entry for a former one of the
\* same name does nothing but fill its round.
Mount(T, F) ==
    [T EXCEPT !.state = [f \in Fiber |-> IF f \in F THEN "pending" ELSE @[f]],
              !.queue = @ \cup F, !.batch = @ \ F]

\* Services it may publish and children it may mount before a load fails; undone, they
\* leave behind the entries of those they woke.
Attempted(T, f) ==
    {Enqueue(T, UsersOf(T, S) \cup C) :
        S \in SUBSET {s \in composition.provide[f] : T.owner[s] = Nobody},
        C \in SUBSET Children(f)}

-----------------------------------------------------------------------------
(* refresh *)

HasLoad(T, f) == T.state[f] = "active" \/ Held(T, {f}) # {}

\* A requested restart: the old load is discarded.
Restarted(T, f) ==
    IF f \notin T.restart THEN T
    ELSE LET cleared == [T EXCEPT !.restart = @ \ {f}]
             undone == IF T.state[f] = "failed" THEN SetState(cleared, f, "pending")
                       ELSE IF HasLoad(T, f) THEN Unload(cleared, f)
                       ELSE cleared
         IN [undone EXCEPT !.epoch[f] = INACTIVE]

\* Does the epoch the fiber loaded with still hold?
Outdated(T, f) == T.state[f] # "failed" /\ compute_epoch(T, f) # T.epoch[f]

\* The fiber before it loads again: its epoch is set, then the old load discarded.
Refreshed(T, f) ==
    LET R == Restarted(T, f)
        new == compute_epoch(R, f)
        moved == [R EXCEPT !.epoch[f] = new]
    IN IF ~Outdated(R, f) THEN R
       ELSE IF R.state[f] = "active" \/ (new # INACTIVE /\ R.epoch[f] # INACTIVE)
            THEN Unload(moved, f) ELSE moved

Loads(T, f) ==
    LET R == Restarted(T, f) IN Outdated(R, f) /\ compute_epoch(R, f) # INACTIVE

\* Does the refresh run the disposers of a load?
Unloads(T, f) ==
    /\ HasLoad(T, f) /\ T.state[f] # "failed"
    /\ f \in T.restart \/ Outdated(T, f)

\* A disposer aborts: it is all undone, but the refresh goes no further.
AbortedUnload(T, f) ==
    LET epoch == IF f \in T.restart THEN T.epoch[f] ELSE compute_epoch(T, f)
    IN SetState(Discard([T EXCEPT !.restart = @ \ {f}, !.epoch[f] = epoch], f), f, "unloading")

-----------------------------------------------------------------------------
(* settle *)

Settling == rounds > 0

FirstBatch(T) == [T EXCEPT !.batch = T.queue, !.queue = {}]

\* settle() returns at once inside a settle; an idle tree starts one, unless nobody
\* was woken.
SettleAfter(T, woken) ==
    IF Settling \/ woken = {}
    THEN tree' = T /\ UNCHANGED rounds
    ELSE tree' = FirstBatch(T) /\ rounds' = 1

\* Mutant: only active fibers are disposed.
BeginDisposeActive(T) ==
    /\ phase' = "disposing"
    /\ leaving' = {f \in Fiber : T.state[f] = "active"}
    /\ orderly' = (T.queue = {} /\ T.orphans = {} /\ aborted' \cap Mounted(T) = {})

BeginDispose(T) ==
    /\ phase' = "disposing"
    /\ leaving' = Mounted(T)
    /\ orderly' = (T.queue = {} /\ T.orphans = {} /\ aborted' \cap Mounted(T) = {})

\* Mutant: the rest of the batch is dropped.
EscapeDropping(T) ==
    /\ tree' = [T EXCEPT !.batch = {}, !.orphans = @ \cup publishing]
    /\ rounds' = 0
    /\ publishing' = {}
    /\ IF phase = "boot" THEN BeginDispose(tree') ELSE UNCHANGED <<phase, leaving, orderly>>
    /\ UNCHANGED composition

\* settle() raises: what is left of the batch stays queued.  A boot that raises is
\* disposed; a provide() that raises never files the effect that undoes it.
Escape(T) ==
    /\ tree' = [T EXCEPT !.queue = @ \cup T.batch, !.batch = {},
                         !.orphans = @ \cup publishing]
    /\ rounds' = 0
    /\ publishing' = {}
    /\ IF phase = "boot" THEN BeginDispose(tree') ELSE UNCHANGED <<phase, leaving, orderly>>
    /\ UNCHANGED composition

Calm == UNCHANGED <<composition, phase, publishing, leaving, diverged, orderly>>

BootSettle ==
    /\ phase = "boot" /\ ~Settling
    /\ tree' = FirstBatch(tree)
    /\ rounds' = 1
    /\ Calm /\ UNCHANGED <<aborted, bounds>>

\* Mutants: the rounds are not limited, not counted, or spent by the fiber.
UnlimitedRound ==
    /\ Settling /\ tree.batch = {} /\ tree.queue # {}
    /\ tree' = FirstBatch(tree)
    /\ rounds' = rounds + 1
    /\ Calm /\ UNCHANGED <<aborted, bounds>>
UncountedRound ==
    /\ Settling /\ tree.batch = {} /\ tree.queue # {} /\ rounds < SettleRounds
    /\ tree' = FirstBatch(tree)
    /\ Calm /\ UNCHANGED <<rounds, aborted, bounds>>
RoundPerFiber ==
    /\ Settling /\ tree.batch = {} /\ tree.queue # {} /\ rounds < SettleRounds
    /\ tree' = FirstBatch(tree)
    /\ LET spent == rounds + Cardinality(tree.queue)
       IN rounds' = IF spent > SettleRounds THEN SettleRounds ELSE spent
    /\ Calm /\ UNCHANGED <<aborted, bounds>>

NextRound ==
    /\ Settling /\ tree.batch = {} /\ tree.queue # {} /\ rounds < SettleRounds
    /\ tree' = FirstBatch(tree)
    /\ rounds' = rounds + 1
    /\ Calm /\ UNCHANGED <<aborted, bounds>>

\* SettleDivergence
Diverge ==
    /\ Settling /\ tree.batch = {} /\ tree.queue # {} /\ rounds = SettleRounds
    /\ diverged' = TRUE
    /\ UNCHANGED <<aborted, bounds>>
    /\ Escape(tree)

\* The queue is empty.  A boot accepts the tree if every required row is active, and
\* every required child that is mounted; a provide() files its effect with the fiber,
\* whatever became of its load.
Settled ==
    /\ Settling /\ tree.batch = {} /\ tree.queue = {}
    /\ rounds' = 0
    /\ UNCHANGED <<composition, aborted, diverged, bounds>>
    /\ tree' = [tree EXCEPT !.held = @ \cup publishing,
                            !.orphans = @ \cup {s \in publishing :
                                                   tree.state[tree.owner[s]] # "active"}]
    /\ publishing' = {}
    /\ IF phase = "boot" /\ \E f \in Required \cap (Row \cup Mounted(tree)) :
                                tree.state[f] # "active"
       THEN BeginDispose(tree)
       ELSE phase' = "up" /\ UNCHANGED <<leaving, orderly>>

Ready(f) == Settling /\ f \in tree.batch \cap Mounted(tree)
Popped(f) == [tree EXCEPT !.batch = @ \ {f}]
Prepared(f) == Refreshed(Popped(f), f)
Taken(T, f) == \E s \in composition.provide[f] : T.owner[s] # Nobody

\* An effect filed with a stack that is being unwound is undone at once, so a load then
\* never publishes what it declares.
Doomed(T, f) == Taken(T, f) \/ f \in T.unwinding

\* A disposed fiber is still queued, and passed over.
RefreshGone(f) ==
    /\ Settling /\ f \in tree.batch \ Mounted(tree)
    /\ tree' = Popped(f)
    /\ Calm /\ UNCHANGED <<rounds, aborted, bounds>>

\* Nothing to load: up to date, waiting, or failed.
RefreshOnly(f) ==
    /\ Ready(f) /\ ~Loads(Popped(f), f)
    /\ tree' = Prepared(f)
    /\ aborted' = IF Prepared(f).state[f] \in {"loading", "unloading"}
                  THEN aborted ELSE aborted \ {f}
    /\ Calm /\ UNCHANGED <<rounds, bounds>>

\* apply() publishes what the row declares, mounts children and returns.
RefreshLoads(f) ==
    /\ Ready(f) /\ Loads(Popped(f), f) /\ ~Doomed(Prepared(f), f)
    /\ \E C \in SUBSET Children(f) :
           tree' = Activate(Mount(Provide(Prepared(f), f, composition.provide[f]), C), f)
    /\ aborted' = aborted \ {f}
    /\ Calm /\ UNCHANGED <<rounds, bounds>>

\* An exception, DuplicateProvide, or a declared service that was not published.
RefreshFails(f) ==
    /\ Ready(f) /\ Loads(Popped(f), f)
    /\ IF Doomed(Prepared(f), f) THEN UNCHANGED failures
       ELSE failures < MaxFailures /\ failures' = failures + 1
    /\ \E T \in Attempted(Prepared(f), f) :
           tree' = [Discard(T, f) EXCEPT !.state[f] = "failed", !.epoch[f] = INACTIVE]
    /\ aborted' = aborted \ {f}
    /\ Calm /\ UNCHANGED <<rounds, aborts, changes>>

\* EnvironmentUnavailable or an interrupt: from apply(), from a disposer run because
\* apply() failed, or from a disposer of the old load.
RefreshAborts(f) ==
    /\ Ready(f) /\ aborts < MaxAborts
    /\ aborts' = aborts + 1
    /\ aborted' = aborted \cup {f}
    /\ \/ /\ Loads(Popped(f), f)
          /\ \E T \in Attempted(Prepared(f), f) :
                \/ Escape([Discard(T, f) EXCEPT !.state[f] = "pending", !.epoch[f] = INACTIVE])
                \/ Escape(SetState(Discard(T, f), f, "loading"))
       \/ /\ Unloads(Popped(f), f)
          /\ Escape(AbortedUnload(Popped(f), f))
    /\ UNCHANGED <<diverged, failures, changes>>

-----------------------------------------------------------------------------
(* Calls by the host, or by a plugin between two refreshes                 *)

Change ==
    /\ (phase = "up" /\ tree.unmounting = {}) \/ Settling
    /\ publishing = {} /\ changes < MaxChanges /\ changes' = changes + 1
    /\ UNCHANGED <<composition, phase, leaving, history, failures, aborts>>

Restart(f) ==
    /\ Change /\ f \in Mounted(tree)
    /\ LET asked == [tree EXCEPT !.restart = @ \cup {f}, !.queue = @ \cup {f}]
       IN IF tree.state[f] \in {"loading", "unloading"}
          THEN tree' = asked /\ UNCHANGED rounds
          ELSE SettleAfter(asked, {f})
    /\ UNCHANGED publishing

\* The disposer returned by Context.provide.
WithdrawService(s) ==
    /\ Change /\ s \in tree.held
    /\ SettleAfter(Withdraw(tree, {s}), UsersOf(tree, {s}))
    /\ UNCHANGED publishing

\* Context.provide by an active fiber.  Its effect is filed after the notification,
\* which outside a settle is a whole settle.
Republish(f, s) ==
    /\ Change /\ tree.state[f] = "active"
    /\ s \in composition.provide[f] /\ tree.owner[s] = Nobody
    /\ LET registered == Provide(tree, f, {s})
       IN IF Settling \/ UsersOf(tree, {s}) = {}
          THEN tree' = registered /\ UNCHANGED <<rounds, publishing>>
          ELSE /\ tree' = FirstBatch([registered EXCEPT !.held = @ \ {s}])
               /\ rounds' = 1
               /\ publishing' = {s}

\* Fiber.dispose of a child.  Within a settle, or when nobody uses what it publishes, its
\* effects are undone without a refresh in between.
Unmount(k) ==
    /\ Change /\ k \in Mounted(tree) \ Row
    /\ IF Settling \/ UsersOf(tree, Held(tree, {k})) = {}
       THEN tree' = Forget(Withdraw(tree, Held(tree, {k})), {k})
       ELSE tree' = [tree EXCEPT !.state[k] = IF @ = "failed" THEN "failed" ELSE "unloading",
                                 !.unmounting = {k}, !.unwinding = {k}]
    /\ UNCHANGED <<rounds, publishing>>

\* Otherwise each service withdrawn is a whole settle, in which the child itself may be
\* refreshed: it loads again, and then that load is undone like the first.
UnmountNext(k) ==
    /\ k \in tree.unmounting /\ ~Settling
    /\ \E s \in Held(tree, {k}) :
           SettleAfter(Withdraw(tree, {s}), UsersOf(tree, {s}))
    /\ UNCHANGED <<composition, phase, publishing, leaving, history, bounds>>

UnmountEnd(k) ==
    /\ k \in tree.unmounting /\ ~Settling /\ Held(tree, {k}) = {}
    /\ tree' = Forget(tree, {k})
    /\ UNCHANGED <<composition, phase, rounds, publishing, leaving, history, bounds>>

-----------------------------------------------------------------------------
(* Root.dispose *)

Dispose ==
    /\ phase = "up" /\ ~Settling /\ tree.unmounting = {}
    /\ UNCHANGED aborted
    /\ BeginDispose(tree)
    /\ UNCHANGED <<composition, tree, rounds, publishing, diverged, bounds>>

\* Reverse activation order; what never was active comes last, newest first.
Activated(f) == f \in tree.after[f]
Before(f, g) ==
    IF Activated(f) THEN ~Activated(g) \/ g \in tree.after[f]
    ELSE ~Activated(g) /\ f > g

\* An abort is kept for the end: the rest is still disposed.
DisposeNext(f) ==
    /\ phase = "disposing" /\ f \in leaving
    /\ \A g \in leaving \ {f} : Before(f, g)
    /\ leaving' = leaving \ {f}
    /\ tree' = Forget(Discard(tree, f), {f})
    /\ UNCHANGED <<composition, phase, rounds, publishing, history, bounds>>

DisposeEnd ==
    /\ phase = "disposing" /\ leaving = {}
    /\ phase' = "closed"
    /\ tree' = [tree EXCEPT !.queue = {}]
    /\ UNCHANGED <<composition, rounds, publishing, leaving, history, bounds>>

-----------------------------------------------------------------------------
Init ==
    /\ composition \in Compositions
    /\ tree = [state |-> [f \in Fiber |-> IF f \in Row THEN "pending" ELSE "absent"],
               epoch |-> [f \in Fiber |-> INACTIVE], restart |-> {},
               owner |-> [s \in Service |-> Nobody], held |-> {}, orphans |-> {},
               queue |-> Row, batch |-> {}, after |-> [f \in Fiber |-> {}],
               unmounting |-> {}, unwinding |-> {}]
    /\ phase = "boot" /\ rounds = 0 /\ publishing = {} /\ leaving = {}
    /\ aborted = {} /\ diverged = FALSE /\ orderly = FALSE
    /\ failures = 0 /\ aborts = 0 /\ changes = 0

Refresh(f) ==
    \/ RefreshGone(f) \/ RefreshOnly(f) \/ RefreshLoads(f) \/ RefreshFails(f)
    \/ RefreshAborts(f)
SettleStep ==
    \/ BootSettle \/ NextRound \/ Diverge \/ Settled
    \/ \E f \in Fiber : Refresh(f)
HostStep ==
    \/ \E f \in Fiber : Restart(f) \/ Unmount(f)
    \/ \E s \in Service : WithdrawService(s) \/ \E f \in Fiber : Republish(f, s)
    \/ Dispose
DisposeStep == DisposeEnd \/ \E f \in Fiber : DisposeNext(f)

ChildStep == \E k \in Fiber : UnmountNext(k) \/ UnmountEnd(k)

Next == SettleStep \/ HostStep \/ ChildStep \/ DisposeStep

\* settle() and dispose() are loops of the calling thread; nothing waits in them.
Fairness == WF_vars(SettleStep) /\ WF_vars(ChildStep) /\ WF_vars(DisposeStep)

Spec == Init /\ [][Next]_vars /\ Fairness

-----------------------------------------------------------------------------
(* Properties *)

Tree == [state : [Fiber -> State], epoch : [Fiber -> [Service -> Serial]],
         restart : SUBSET Fiber,                       \* _restart_requested
         owner : [Service -> {Nobody} \cup Fiber],     \* Realm._impls
         held : SUBSET Service,                        \* registrations an effect undoes
         orphans : SUBSET Service,                     \* history: those none undoes in time
         queue : SUBSET Fiber,                         \* Root._pending
         batch : SUBSET Fiber,
         after : [Fiber -> SUBSET Fiber],              \* _activation_order: the fibers
                                                       \* before it, and itself
         unmounting : SUBSET Fiber,                    \* the child dispose() was called on
         unwinding : SUBSET Fiber]                     \* EffectStack._unwinding: what it had
                                                       \* when that began is not undone yet

TypeOK ==
    /\ composition \in Compositions
    /\ tree \in Tree
    /\ phase \in {"boot", "up", "disposing", "closed"}
    /\ rounds \in 0 .. SettleRounds
    /\ publishing \subseteq Service /\ leaving \subseteq Fiber
    /\ aborted \subseteq Fiber /\ diverged \in BOOLEAN /\ orderly \in BOOLEAN
    /\ failures \in 0 .. MaxFailures /\ aborts \in 0 .. MaxAborts /\ changes \in 0 .. MaxChanges

\* When nothing is queued and no call is under way, every fiber is where its
\* dependencies put it: active with the registrations it loaded with, waiting for one
\* that is missing, or failed.  Only a fiber whose own refresh was aborted may be
\* elsewhere, never one behind it.
SettledIsCurrent ==
    phase = "up" /\ ~Settling /\ tree.queue = {} /\ tree.unmounting = {} =>
        \A f \in Mounted(tree) \ aborted :
            \/ tree.state[f] = "failed" /\ tree.epoch[f] = INACTIVE
            \/ /\ tree.state[f] = (IF Missing(tree, f) = {} THEN "active" ELSE "pending")
               /\ tree.epoch[f] = compute_epoch(tree, f)

\* What a fiber contributes lasts as long as its load: a mounted child belongs to an active
\* fiber, and so does a service, with a disposer to undo it.  Two services are excepted:
\* one whose provide() was cut short, and one of a child that is being disposed of by the
\* host while its services have users.  There each disposer settles the tree, so that those
\* the child has yet to withdraw are resolved by the fibers reloaded meanwhile
\* (fiber.py:257, 475); they go before the call returns, or with the child's next refresh.
ContributionsEndWithLoad ==
    /\ \A s \in Service \ (publishing \cup tree.orphans) :
           tree.owner[s] # Nobody =>
               /\ s \in tree.held
               /\ tree.state[tree.owner[s]] = "active" \/ tree.owner[s] \in tree.unwinding
    /\ tree.unwinding \subseteq tree.unmounting
    /\ \A k \in Mounted(tree) \ Row : tree.state[Parent[k]] = "active"

\* The tree is torn down consumers first: the services of an active fiber are the ones
\* it loaded with when its disposers run.
ConsumersStopFirst ==
    phase = "disposing" /\ orderly =>
        \A f \in Fiber : tree.state[f] = "active" => tree.epoch[f] = compute_epoch(tree, f)

\* Disposal leaves nothing mounted, nothing queued, no service.
ClosedIsEmpty ==
    phase = "closed" =>
        /\ Mounted(tree) = {} /\ tree.queue = {}
        /\ \A s \in Service \ tree.orphans : tree.owner[s] = Nobody

\* Only rows that fight exhaust the rounds: a cycle of fibers each of which uses a
\* service of the next, or is mounted by it.
DependsOn(f, g) == Uses(f) \cap composition.provide[g] # {} \/ Parent[f] = g
DivergenceIsAFight ==
    diverged => \E F \in SUBSET Fiber : F # {} /\ \A f \in F : \E g \in F : DependsOn(f, g)

\* fiber.py:343 "Publish a service owned by this fiber's current load", and effects.py:4
\* "every contribution a plugin makes [...] is filed as an effect owned by the fiber":
\* no service is left behind by a fiber that is neither active nor being disposed of.
RegistrationEndsWithItsLoad ==
    \A s \in Service \ publishing :
        tree.owner[s] # Nobody =>
            tree.state[tree.owner[s]] = "active" \/ tree.owner[s] \in tree.unwinding

\* Every call on the tree ends: a settle, even when rows fight, and a disposal.  Only the
\* disposal of a child that fights may go on for ever: the settle of each service it
\* withdraws makes it publish that service again, and runs out of rounds.
CallsEnd ==
    \/ <>[](~Settling /\ phase # "disposing" /\ tree.unmounting = {})
    \/ []<>(tree.unmounting # {} /\ rounds = SettleRounds)
=============================================================================
