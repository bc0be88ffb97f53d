---------------------------- MODULE Subscriptions ----------------------------
(***************************************************************************)
(* Subscribers and the writers that announce deltas to them.  A write      *)
(* announces the delta of each of its operations after its transaction and *)
(* before it releases the write lock; one announcement goes through the    *)
(* registry entry by entry under the registry's own lock (the guard lives  *)
(* to the end of deliver_delta), calling an inline sink and spawning a     *)
(* thread for a detached one.  subscribe takes the write lock nowhere: it  *)
(* reads the initial snapshot, reads its identifier, delivers the          *)
(* snapshot, persists the registration and joins the registry, each by     *)
(* itself.                                                                 *)
(*                                                                         *)
(* What a write does to logs, outbox and checkpoints is WritePath's, the   *)
(* session a read may overlay is Staging's.                                *)
(***************************************************************************)
EXTENDS VersionedLog

CONSTANTS Threads, NoThread,
          Sinks, NoSink,
          Inline,           \* the sinks whose delivery_mode is Inline
          Accepts,          \* the keys each sink's plan asks for (QueryFilter)
          Batches,          \* the operation lists writers submit
          MaxCommits,       \* bound: no write commits beyond this snapshot
          MaxSubscriptions  \* bound: the identifiers are 1 .. MaxSubscriptions

ASSUME ThreadsAssumption == NoThread \notin Threads
ASSUME SinksAssumption == /\ NoSink \notin Sinks /\ Inline \subseteq Sinks
                          /\ Accepts \in [Sinks -> SUBSET Keys]
ASSUME WritesAssumption == /\ Batches \subseteq Seq(Operations)
                           /\ MaxCommits \in Nat /\ MaxSubscriptions \in Nat

VARIABLES
  \* durable
  history,           \* the operations of each commit; a snapshot is an index
  rows,
  registrations,     \* SUBSCRIPTIONS, by identifier
  nextSubscription,  \* NEXT_SUBSCRIPTION_KEY
  \* the engine's memory
  lock,              \* who holds write_lock
  registryLock,      \* who holds the mutex of the registry
  registry,          \* SubscriptionRegistry::entries
  failures,          \* the recorded failures: which delta, for whom
  inflight,          \* the deltas in detached threads
  received,          \* the events each sink has accepted
  \* the threads
  pc,
  todo,              \* the deltas a write has yet to announce
  fanout,            \* the entries the current delta has yet to reach
  request            \* what a subscribe in progress has read

storeVars == <<history, rows>>
registrationVars == <<registrations, nextSubscription>>
feedVars == <<failures, inflight, received>>
vars == <<storeVars, registrationVars, lock, registryLock, registry, feedVars,
          pc, todo, fanout, request>>

-----------------------------------------------------------------------------
(* Shapes *)

\* An event is a position in the history: a delta is named by its commit and
\* its operation, which determine its kind, key and record; operation 0 is the
\* initial snapshot.
Events == [snapshot : Nat, operation : Nat]
InitialSnapshot(snapshot) == [snapshot |-> snapshot, operation |-> 0]

\* The deltas of the history.
Positions ==
  UNION {{[snapshot |-> n, operation |-> i] : i \in DOMAIN history[n]} :
           n \in DOMAIN history}

\* ActiveSubscription; its sink stands for its plan and mode.
ActiveSubscriptions == [id : Nat, snapshot : Nat, sink : Sinks]

\* SubscriptionRegistration
Registrations == [snapshot : Nat, filter : SUBSET Keys]
Registration(subscription) == [snapshot |-> subscription.snapshot,
                               filter |-> Accepts[subscription.sink]]

Deliveries == [to : ActiveSubscriptions, delta : Events]

NoRequest == [id |-> 0, snapshot |-> 0, sink |-> NoSink]

TypeOK ==
  /\ history \in Seq(Seq(Operations)) /\ rows \in Rows
  /\ DOMAIN registrations \subseteq Nat
  /\ \A id \in DOMAIN registrations : registrations[id] \in Registrations
  /\ nextSubscription \in Nat
  /\ lock \in Threads \cup {NoThread}
  /\ registryLock \in Threads \cup {NoThread}
  /\ registry \in Seq(ActiveSubscriptions)
  /\ failures \in SUBSET Deliveries /\ inflight \in SUBSET Deliveries
  /\ received \in [Sinks -> Seq(Events)]
  /\ pc \in [Threads -> {"idle", "announce", "fanout",
                         "number", "initial", "persist", "join"}]
  /\ todo \in [Threads -> Seq(Positions)]
  /\ fanout \in [Threads -> Seq(ActiveSubscriptions)]
  /\ request \in [Threads -> ActiveSubscriptions \cup {NoRequest}]

Init ==
  /\ history = <<>>
  /\ rows = EmptyRows
  /\ registrations = <<>>
  /\ nextSubscription = 1
  /\ lock = NoThread
  /\ registryLock = NoThread
  /\ registry = <<>>
  /\ failures = {}
  /\ inflight = {}
  /\ received = [s \in Sinks |-> <<>>]
  /\ pc = [t \in Threads |-> "idle"]
  /\ todo = [t \in Threads |-> <<>>]
  /\ fanout = [t \in Threads |-> <<>>]
  /\ request = [t \in Threads |-> NoRequest]

Goto(t, place) == pc' = [pc EXCEPT ![t] = place]

-----------------------------------------------------------------------------
(* Writers *)

\* Mutant: the lock is given back with the transaction.
Released(t) == NoThread

\* The write lock is held until every delta is announced.
Held(t) == t

\* Mutant: deltas carry the snapshot that was the latest before the commit.
LatestSnapshot == Len(history)

NextSnapshot == Len(history) + 1

\* assert, mutate, retract, commit and commit_atomic up to their transaction.
Write(t, operations) ==
  /\ pc[t] = "idle" /\ lock = NoThread
  /\ Len(history) < MaxCommits
  /\ Admitted(operations, rows)
  /\ lock' = Held(t)
  /\ history' = Append(history, operations)
  /\ rows' = Apply(operations, rows)
  /\ todo' = [todo EXCEPT ![t] =
                [i \in DOMAIN operations |->
                   [snapshot |-> NextSnapshot, operation |-> i]]]
  /\ Goto(t, "announce")
  /\ UNCHANGED <<registrationVars, registryLock, registry, feedVars, fanout, request>>

\* deliver_delta locks the registry and copies its entries.
Announce(t) ==
  /\ pc[t] = "announce" /\ todo[t] # <<>>
  /\ registryLock = NoThread
  /\ registryLock' = t
  /\ fanout' = [fanout EXCEPT ![t] = registry]
  /\ Goto(t, "fanout")
  /\ UNCHANGED <<storeVars, registrationVars, lock, registry, feedVars, todo, request>>

Accepted(subscription, delta) ==
  history[delta.snapshot][delta.operation].key \in Accepts[subscription.sink]

\* Mutant: a sink that fails ends the announcement.
AfterFailure(entries) == <<>>

\* A sink's failure is recorded, and the announcement goes on.
Onward(entries) == Tail(entries)

\* The entry asks for another key.
Skip(t) ==
  /\ pc[t] = "fanout" /\ fanout[t] # <<>>
  /\ ~Accepted(Head(fanout[t]), Head(todo[t]))
  /\ fanout' = [fanout EXCEPT ![t] = Tail(@)]
  /\ UNCHANGED <<storeVars, registrationVars, lock, registryLock, registry,
                 feedVars, pc, todo, request>>

\* An inline sink is called, and may fail.
Call(t) ==
  /\ pc[t] = "fanout" /\ fanout[t] # <<>>
  /\ LET entry == Head(fanout[t])
         delta == Head(todo[t])
     IN  /\ entry.sink \in Inline
         /\ Accepted(entry, delta)
         /\ \/ /\ received' = [received EXCEPT ![entry.sink] = Append(@, delta)]
               /\ fanout' = [fanout EXCEPT ![t] = Tail(@)]
               /\ UNCHANGED failures
            \/ /\ failures' = failures \cup {[to |-> entry, delta |-> delta]}
               /\ fanout' = [fanout EXCEPT ![t] = Onward(@)]
               /\ UNCHANGED received
  /\ UNCHANGED <<storeVars, registrationVars, lock, registryLock, registry,
                 inflight, pc, todo, request>>

\* A detached sink gets a thread of its own, which nobody joins.
Spawn(t) ==
  /\ pc[t] = "fanout" /\ fanout[t] # <<>>
  /\ LET entry == Head(fanout[t])
         delta == Head(todo[t])
     IN  /\ entry.sink \notin Inline
         /\ Accepted(entry, delta)
         /\ inflight' = inflight \cup {[to |-> entry, delta |-> delta]}
         /\ fanout' = [fanout EXCEPT ![t] = Tail(@)]
  /\ UNCHANGED <<storeVars, registrationVars, lock, registryLock, registry,
                 failures, received, pc, todo, request>>

\* Mutant: the announcement waits for the threads it spawned.
Joined(t) == \A d \in inflight : d.delta # Head(todo[t])

\* Nothing waits for a detached thread.
Dropped(t) == TRUE

Announced(t) ==
  /\ pc[t] = "fanout" /\ fanout[t] = <<>>
  /\ Dropped(t)
  /\ registryLock' = NoThread
  /\ todo' = [todo EXCEPT ![t] = Tail(@)]
  /\ Goto(t, "announce")
  /\ UNCHANGED <<storeVars, registrationVars, lock, registry, feedVars, fanout, request>>

Return(t) ==
  /\ pc[t] = "announce" /\ todo[t] = <<>>
  /\ lock' = IF lock = t THEN NoThread ELSE lock
  /\ Goto(t, "idle")
  /\ UNCHANGED <<storeVars, registrationVars, registryLock, registry, feedVars,
                 todo, fanout, request>>

\* A detached thread delivers its delta, or records the sink's failure.
DeliverDetached(d) ==
  /\ inflight' = inflight \ {d}
  /\ \/ /\ received' = [received EXCEPT ![d.to.sink] = Append(@, d.delta)]
        /\ UNCHANGED failures
     \/ /\ failures' = failures \cup {d}
        /\ UNCHANGED received
  /\ UNCHANGED <<storeVars, registrationVars, lock, registryLock, registry,
                 pc, todo, fanout, request>>

-----------------------------------------------------------------------------
(* subscribe *)

\* A sink subscribes once while the engine lives, and not after the bound.
MaySubscribe(sink) ==
  /\ received[sink] = <<>>
  /\ \A t \in Threads : request[t].sink # sink
  /\ nextSubscription <= MaxSubscriptions

\* match_records reads the rows and the latest snapshot in one transaction.
MatchRecords(t, sink) ==
  /\ pc[t] = "idle"
  /\ MaySubscribe(sink)
  /\ request' = [request EXCEPT ![t] =
                   [id |-> 0, snapshot |-> Len(history), sink |-> sink]]
  /\ Goto(t, "number")
  /\ UNCHANGED <<storeVars, registrationVars, lock, registryLock, registry,
                 feedVars, todo, fanout>>

NextSubscriptionHandle(t) ==
  /\ pc[t] = "number"
  /\ request' = [request EXCEPT ![t].id = nextSubscription]
  /\ Goto(t, "initial")
  /\ UNCHANGED <<storeVars, registrationVars, lock, registryLock, registry,
                 feedVars, todo, fanout>>

\* The caller's own thread delivers the initial snapshot, whatever the mode.
DeliverInitial(t) ==
  /\ pc[t] = "initial"
  /\ LET sink == request[t].sink
     IN  received' = [received EXCEPT ![sink] =
                        Append(@, InitialSnapshot(request[t].snapshot))]
  /\ Goto(t, "persist")
  /\ UNCHANGED <<storeVars, registrationVars, lock, registryLock, registry,
                 failures, inflight, todo, fanout, request>>

\* The sink refuses the initial snapshot, or the transaction fails.
SubscribeFails(t) ==
  /\ pc[t] \in {"initial", "persist"}
  /\ request' = [request EXCEPT ![t] = NoRequest]
  /\ Goto(t, "idle")
  /\ UNCHANGED <<storeVars, registrationVars, lock, registryLock, registry,
                 feedVars, todo, fanout>>

PersistSubscription(t) ==
  /\ pc[t] = "persist"
  /\ LET id == request[t].id
     IN  /\ registrations' =
              [n \in DOMAIN registrations \cup {id} |->
                 IF n = id THEN Registration(request[t]) ELSE registrations[n]]
         /\ nextSubscription' = id + 1
  /\ Goto(t, "join")
  /\ UNCHANGED <<storeVars, lock, registryLock, registry, feedVars, todo, fanout, request>>

\* Mutant: an announcement in progress does not keep a subscriber waiting.
RegistryShared == TRUE

RegistryFree == registryLock = NoThread

\* SubscriptionRegistry::add
Join(t) ==
  /\ pc[t] = "join"
  /\ RegistryFree
  /\ registry' = Append(registry, request[t])
  /\ request' = [request EXCEPT ![t] = NoRequest]
  /\ Goto(t, "idle")
  /\ UNCHANGED <<storeVars, registrationVars, lock, registryLock, feedVars, todo, fanout>>

-----------------------------------------------------------------------------

\* The process ends; registrations stay, and nothing joins again by itself.
Crash ==
  /\ lock' = NoThread
  /\ registryLock' = NoThread
  /\ registry' = <<>>
  /\ failures' = {}
  /\ inflight' = {}
  /\ received' = [s \in Sinks |-> <<>>]
  /\ pc' = [t \in Threads |-> "idle"]
  /\ todo' = [t \in Threads |-> <<>>]
  /\ fanout' = [t \in Threads |-> <<>>]
  /\ request' = [t \in Threads |-> NoRequest]
  /\ UNCHANGED <<storeVars, registrationVars>>

\* The steps of a write once its transaction is durable.
Proceed(t) == Announce(t) \/ Skip(t) \/ Call(t) \/ Spawn(t) \/ Announced(t) \/ Return(t)

Subscribe(t) ==
  \/ \E sink \in Sinks : MatchRecords(t, sink)
  \/ NextSubscriptionHandle(t)
  \/ DeliverInitial(t)
  \/ SubscribeFails(t)
  \/ PersistSubscription(t)
  \/ Join(t)

Next ==
  \/ \E t \in Threads :
       \/ \E operations \in Batches : Write(t, operations)
       \/ Proceed(t)
       \/ Subscribe(t)
  \/ \E d \in inflight : DeliverDetached(d)
  \/ Crash

Spec == Init /\ [][Next]_vars

-----------------------------------------------------------------------------
(* Safety *)

Before(p, q) ==
  \/ p.snapshot < q.snapshot
  \/ p.snapshot = q.snapshot /\ p.operation < q.operation

\* The deltas of the history that a subscription asks for, and those it has
\* been given, by a call or by a thread, successfully or not.
Wanted(subscription) == {p \in Positions : Accepted(subscription, p)}

Given(subscription) ==
  {p \in Positions :
     \/ \E n \in DOMAIN received[subscription.sink] :
          received[subscription.sink][n] = p
     \/ [to |-> subscription, delta |-> p] \in failures \cup inflight}

\* An inline sink gets deltas in commit order and each once, whichever threads
\* wrote: "inline exists for actor enqueue sinks that need deterministic
\* post-commit ordering".
InlineInOrder ==
  \A s \in Inline : \A m, n \in DOMAIN received[s] :
    m < n /\ received[s][m].operation # 0 => Before(received[s][m], received[s][n])

\* Once a subscription has been given a delta it asks for, it is given every
\* later one, however its own sink and the others fail.
NoGapOnceFed ==
  \A n \in DOMAIN registry :
    LET subscription == registry[n]
    IN  \A p \in Given(subscription), q \in Wanted(subscription) :
          Before(p, q) =>
            \/ q \in Given(subscription)
            \/ \E t \in Threads : \E i \in DOMAIN todo[t] : todo[t][i] = q

\* A write leaves a delta behind only when everyone registered by then who
\* asks for it has been given it: nobody joins in the middle of one.
AnnouncedToAll ==
  [][\A t \in Threads :
       todo[t] # <<>> /\ todo'[t] = Tail(todo[t]) /\ registry' = registry =>
         \A n \in DOMAIN registry :
           Head(todo[t]) \in Wanted(registry[n]) => Head(todo[t]) \in Given(registry[n])]_vars

-----------------------------------------------------------------------------
(* Liveness *)

\* Threads in a write are scheduled and inline sinks return.  Detached sinks
\* may block for ever.
Fairness == \A t \in Threads : WF_vars(Proceed(t))

FairSpec == Spec /\ Fairness

\* A write returns although a detached sink blocks ("a blocking sink does not
\* freeze later writes", tests/subscriptions.rs).
WritesReturn ==
  \A t \in Threads : pc[t] = "announce" ~> pc[t] = "idle"

=============================================================================
