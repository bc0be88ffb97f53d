------------------------ MODULE SubscriptionsProofs --------------------------
(***************************************************************************)
(* The safety theorems of Subscriptions, for any threads, sinks, plans and *)
(* lists of operations: a write holds the write lock until it has          *)
(* announced its last delta, an announcement holds the registry's lock     *)
(* until it has reached its last entry, and from these two an inline sink  *)
(* gets deltas in commit order and each once, and no subscription is       *)
(* passed over once it has been fed.                                       *)
(***************************************************************************)
EXTENDS Subscriptions, VersionedLogProofs

-----------------------------------------------------------------------------
(* The inductive invariant *)

\* The locks, and what each location of a thread implies about its locals.
Locked ==
  \A t \in Threads :
    /\ pc[t] \in {"announce", "fanout"} <=> lock = t
    /\ pc[t] = "fanout" <=> registryLock = t
    /\ todo[t] # <<>> => pc[t] \in {"announce", "fanout"}
    /\ pc[t] = "fanout" => todo[t] # <<>>

\* What a write has yet to announce is the rest of the newest commit, in order.
TodoIsRest ==
  \A t \in Threads :
    /\ \A i \in DOMAIN todo[t] : todo[t][i].snapshot = Len(history)
    /\ \A i, j \in DOMAIN todo[t] :
         i < j => todo[t][i].operation < todo[t][j].operation
    /\ \A p \in Positions :
         todo[t] # <<>> /\ Before(todo[t][1], p) =>
           \E i \in DOMAIN todo[t] : todo[t][i] = p

\* A subscribe in progress has a sink of its own, which has at most had its
\* initial snapshot.
OwnsSink(t) ==
  /\ pc[t] \in {"number", "initial", "persist", "join"} => request[t].sink \in Sinks
  /\ request[t].sink \in Sinks =>
       /\ pc[t] \in {"number", "initial", "persist", "join"}
       /\ pc[t] \in {"number", "initial"} => received[request[t].sink] = <<>>
       /\ pc[t] \in {"persist", "join"} => received[request[t].sink] # <<>>
       /\ \A n \in DOMAIN received[request[t].sink] :
            received[request[t].sink][n].operation = 0
       /\ \A u \in Threads : request[u].sink = request[t].sink => u = t
       /\ \A n \in DOMAIN registry : registry[n].sink # request[t].sink

RequestsOwnSinks == \A t \in Threads : OwnsSink(t)

\* A registered sink is registered once and has had its initial snapshot, so it
\* does not subscribe again.
SinksRegisteredOnce ==
  /\ \A n \in DOMAIN registry : received[registry[n].sink] # <<>>
  /\ \A m, n \in DOMAIN registry : registry[m].sink = registry[n].sink => m = n

\* Who an announcement in progress has yet to reach: registered entries, each
\* once, and among them everyone who asks for the delta and has not been given
\* it.
FanoutIsRest ==
  \A t \in Threads : pc[t] = "fanout" =>
    /\ \A i \in DOMAIN fanout[t] : \E n \in DOMAIN registry : fanout[t][i] = registry[n]
    /\ \A i, j \in DOMAIN fanout[t] : fanout[t][i].sink = fanout[t][j].sink => i = j
    /\ \A n \in DOMAIN registry : Head(todo[t]) \in Wanted(registry[n]) =>
         \/ Head(todo[t]) \in Given(registry[n])
         \/ \E i \in DOMAIN fanout[t] : fanout[t][i] = registry[n]

\* Failures and detached deliveries are of registered entries, and inline sinks
\* have no detached ones.
DeliveriesRegistered ==
  /\ \A d \in failures \cup inflight : \E n \in DOMAIN registry : d.to = registry[n]
  /\ \A d \in inflight : d.to.sink \notin Inline

\* An inline sink has had nothing that is still to be announced, but the delta
\* of the announcement that has already reached it.
InlinePast ==
  \A s \in Inline : \A m \in DOMAIN received[s] : received[s][m].operation # 0 =>
    /\ received[s][m].snapshot <= Len(history)
    /\ \A t \in Threads : \A i \in DOMAIN todo[t] :
         \/ Before(received[s][m], todo[t][i])
         \/ /\ i = 1 /\ pc[t] = "fanout" /\ received[s][m] = todo[t][1]
            /\ \A j \in DOMAIN fanout[t] : fanout[t][j].sink # s

Feeding ==
  /\ Locked
  /\ TodoIsRest
  /\ RequestsOwnSinks
  /\ SinksRegisteredOnce
  /\ FanoutIsRest
  /\ DeliveriesRegistered

-----------------------------------------------------------------------------
(* Positions *)

\* A position is a commit and one of its operations, counted from 1.
LEMMA PositionShape ==
  ASSUME TypeOK, NEW p
  PROVE  p \in Positions <=>
           /\ p = [snapshot |-> p.snapshot, operation |-> p.operation]
           /\ p.snapshot \in 1 .. Len(history)
           /\ p.operation \in DOMAIN history[p.snapshot]
<1>1. DOMAIN history = 1 .. Len(history)
  BY LenProperties DEF TypeOK
<1>2. QED  BY <1>1 DEF Positions

\* Positions are events, none of them an initial snapshot.
LEMMA PositionsAreEvents ==
  ASSUME TypeOK
  PROVE  /\ Positions \subseteq Events
         /\ \A p \in Positions : p.operation # 0
<1> SUFFICES ASSUME NEW p \in Positions
             PROVE  p \in Events /\ p.operation # 0
  OBVIOUS
<1>1. /\ p = [snapshot |-> p.snapshot, operation |-> p.operation]
      /\ p.snapshot \in 1 .. Len(history)
      /\ p.operation \in DOMAIN history[p.snapshot]
  BY PositionShape
<1>2. Len(history) \in Nat /\ history[p.snapshot] \in Seq(Operations)
  BY <1>1, LenProperties DEF TypeOK
<1>3. p.operation \in 1 .. Len(history[p.snapshot])
      /\ Len(history[p.snapshot]) \in Nat
  BY <1>1, <1>2, LenProperties
<1>4. p.snapshot \in Nat /\ p.operation \in Nat /\ p.operation # 0
  BY <1>1, <1>2, <1>3
<1>5. QED  BY <1>1, <1>4 DEF Events

\* A commit adds its own operations to the positions and changes no other.
LEMMA WritePositions ==
  ASSUME TypeOK, NEW operations \in Seq(Operations),
         history' = Append(history, operations)
  PROVE  /\ Len(history) \in Nat
         /\ history' \in Seq(Seq(Operations)) /\ Len(history') = Len(history) + 1
         /\ Positions \subseteq Positions'
         /\ \A i \in DOMAIN operations :
              [snapshot |-> Len(history) + 1, operation |-> i] \in Positions'
         /\ \A p \in Positions : /\ p.snapshot \in 1 .. Len(history)
                                 /\ history'[p.snapshot] = history[p.snapshot]
         /\ \A p \in Positions' : p \notin Positions =>
              \E i \in DOMAIN operations :
                p = [snapshot |-> Len(history) + 1, operation |-> i]
<1>1. /\ Len(history) \in Nat /\ history \in Seq(Seq(Operations))
      /\ DOMAIN history = 1 .. Len(history)
  BY LenProperties DEF TypeOK
<1>2. /\ history' \in Seq(Seq(Operations)) /\ Len(history') = Len(history) + 1
      /\ \A i \in 1 .. Len(history) : history'[i] = history[i]
      /\ history'[Len(history) + 1] = operations
  BY <1>1, AppendProperties
<1>3. DOMAIN history' = 1 .. Len(history) + 1
  BY <1>2, LenProperties
<1>4. Positions' = UNION {{[snapshot |-> n, operation |-> i] : i \in DOMAIN history'[n]} :
                            n \in DOMAIN history'}
  BY DEF Positions
<1>5. \A p \in Positions : /\ p.snapshot \in 1 .. Len(history)
                           /\ history'[p.snapshot] = history[p.snapshot]
  BY <1>1, <1>2 DEF Positions
<1>6. Positions \subseteq Positions'
  <2> SUFFICES ASSUME NEW p \in Positions PROVE p \in Positions'
    OBVIOUS
  <2>1. PICK n \in DOMAIN history : \E i \in DOMAIN history[n] :
          p = [snapshot |-> n, operation |-> i]
    BY DEF Positions
  <2>2. n \in DOMAIN history' /\ history'[n] = history[n]
    BY <1>1, <1>2, <1>3
  <2>3. QED  BY <1>4, <2>1, <2>2
<1>7. \A i \in DOMAIN operations :
        [snapshot |-> Len(history) + 1, operation |-> i] \in Positions'
  <2>1. Len(history) + 1 \in DOMAIN history'
    BY <1>1, <1>3
  <2>2. QED  BY <1>2, <1>4, <2>1
<1>8. ASSUME NEW p \in Positions', p \notin Positions
      PROVE  \E i \in DOMAIN operations :
               p = [snapshot |-> Len(history) + 1, operation |-> i]
  <2>1. PICK n \in DOMAIN history' : \E i \in DOMAIN history'[n] :
          p = [snapshot |-> n, operation |-> i]
    BY <1>4
  <2>2. CASE n \in 1 .. Len(history)
    BY <1>1, <1>2, <1>8, <2>1, <2>2 DEF Positions
  <2>3. CASE n = Len(history) + 1
    BY <1>2, <2>1, <2>3
  <2>4. QED  BY <1>1, <1>3, <2>2, <2>3
<1>9. QED  BY <1>1, <1>2, <1>5, <1>6, <1>7, <1>8

-----------------------------------------------------------------------------
(* Type correctness *)

\* An engine that starts is well typed and feeds nobody.
LEMMA InitType == Init => TypeOK
<1> SUFFICES ASSUME Init PROVE TypeOK
  OBVIOUS
<1>1. \A S : << >> \in Seq(S)
  BY EmptySeq
<1>2. EmptyRows \in Rows
  BY DEF EmptyRows, Rows
<1>3. QED  BY <1>1, <1>2 DEF Init, TypeOK

\* What a write does keeps the state well typed.
LEMMA WriteType ==
  ASSUME TypeOK, NEW t \in Threads, NEW operations \in Batches, Write(t, operations)
  PROVE  TypeOK'
<1>1. operations \in Seq(Operations) /\ history' = Append(history, operations)
  BY WritesAssumption DEF Write
<1>2. /\ history' \in Seq(Seq(Operations)) /\ Positions \subseteq Positions'
      /\ \A i \in DOMAIN operations :
           [snapshot |-> Len(history) + 1, operation |-> i] \in Positions'
  BY <1>1, WritePositions
<1>3. rows' \in Rows
  BY <1>1, ApplyType DEF Write, TypeOK
<1> DEFINE rest == [i \in DOMAIN operations |->
                      [snapshot |-> Len(history) + 1, operation |-> i]]
<1>4. rest \in Seq(Positions')
  <2>1. Len(operations) \in Nat /\ DOMAIN operations = 1 .. Len(operations)
    BY <1>1, LenProperties
  <2>2. rest \in [1 .. Len(operations) -> Positions']
    BY <1>2, <2>1
  <2> HIDE DEF rest
  <2>3. QED  BY <2>1, <2>2, SeqDef
<1>5. todo' = [todo EXCEPT ![t] = rest]
  BY DEF Write, NextSnapshot
<1>6. \A u \in Threads : todo[u] \in Seq(Positions')
  BY <1>2, SeqOfMore DEF TypeOK
<1> HIDE DEF rest
<1>7. todo' \in [Threads -> Seq(Positions')]
  BY <1>4, <1>5, <1>6 DEF TypeOK
<1>8. /\ lock' = t /\ pc' = [pc EXCEPT ![t] = "announce"]
      /\ UNCHANGED <<registrations, nextSubscription, registryLock, registry, failures,
                     inflight, received, fanout, request>>
  BY DEF Write, Held, Goto, registrationVars, feedVars
<1>9. QED  BY <1>2, <1>3, <1>7, <1>8 DEF TypeOK

\* So do the steps of an announcement.
LEMMA ProceedType ==
  ASSUME TypeOK, Locked, NEW t \in Threads, Proceed(t)
  PROVE  TypeOK'
<1> USE DEF storeVars, registrationVars, feedVars, Goto
<1>1. UNCHANGED <<history, rows, registrations, nextSubscription, registry, request>>
      /\ Positions' = Positions
  BY DEF Proceed, Announce, Skip, Call, Spawn, Announced, Return, Positions
<1>2. fanout[t] # <<>> => /\ Head(fanout[t]) \in ActiveSubscriptions
                          /\ Tail(fanout[t]) \in Seq(ActiveSubscriptions)
  BY TailProperties DEF TypeOK
<1>3. todo[t] # <<>> => /\ Head(todo[t]) \in Events
                        /\ Tail(todo[t]) \in Seq(Positions)
  <2>1. todo[t] \in Seq(Positions)
    BY DEF TypeOK
  <2>2. QED  BY <2>1, TailProperties, PositionsAreEvents
<1>4. CASE Announce(t)
  BY <1>1, <1>4 DEF Announce, TypeOK
<1>5. CASE Skip(t)
  BY <1>1, <1>2, <1>5 DEF Skip, TypeOK
<1>6. CASE Call(t) \/ Spawn(t)
  <2> DEFINE entry == Head(fanout[t])
             delta == Head(todo[t])
             delivery == [to |-> entry, delta |-> delta]
  <2>1. fanout[t] # <<>> /\ todo[t] # <<>>
    BY <1>6 DEF Call, Spawn, Locked
  <2>2. /\ entry \in ActiveSubscriptions /\ delta \in Events
        /\ delivery \in Deliveries
    BY <1>2, <1>3, <2>1 DEF Deliveries
  <2>3. entry.sink \in Sinks
    BY <2>2 DEF ActiveSubscriptions
  <2>4. Append(received[entry.sink], delta) \in Seq(Events)
    BY <2>2, <2>3, AppendProperties DEF TypeOK
  <2>5. /\ \/ received' = received
           \/ received' = [received EXCEPT ![entry.sink] = Append(@, delta)]
        /\ fanout' = [fanout EXCEPT ![t] = Tail(@)]
        /\ failures' \subseteq failures \cup {delivery}
        /\ inflight' \subseteq inflight \cup {delivery}
        /\ UNCHANGED <<lock, registryLock, pc, todo>>
    BY <1>6 DEF Call, Spawn, Onward
  <2> HIDE DEF entry, delta, delivery
  <2>6. received' \in [Sinks -> Seq(Events)]
    BY <2>3, <2>4, <2>5 DEF TypeOK
  <2>7. fanout' \in [Threads -> Seq(ActiveSubscriptions)]
    BY <1>2, <2>1, <2>5 DEF TypeOK
  <2>8. failures' \in SUBSET Deliveries /\ inflight' \in SUBSET Deliveries
    BY <2>2, <2>5 DEF TypeOK
  <2>9. QED  BY <1>1, <2>5, <2>6, <2>7, <2>8 DEF TypeOK
<1>7. CASE Announced(t)
  <2>1. todo[t] # <<>>
    BY <1>7 DEF Announced, Locked
  <2>2. todo' \in [Threads -> Seq(Positions)]
    BY <1>3, <1>7, <2>1 DEF Announced, TypeOK
  <2>3. QED  BY <1>1, <1>7, <2>2 DEF Announced, TypeOK
<1>8. CASE Return(t)
  BY <1>1, <1>8 DEF Return, TypeOK
<1>9. QED  BY <1>4, <1>5, <1>6, <1>7, <1>8 DEF Proceed

\* So do a detached thread's delivery and a crash.
LEMMA DetachedCrashType ==
  ASSUME TypeOK, Crash \/ \E d \in inflight : DeliverDetached(d)
  PROVE  TypeOK'
<1> USE DEF storeVars, registrationVars
<1>1. CASE Crash
  <2>1. \A S : << >> \in Seq(S)
    BY EmptySeq
  <2>2. UNCHANGED <<history, rows, registrations, nextSubscription>>
    BY <1>1 DEF Crash
  <2>3. QED  BY <1>1, <2>1, <2>2 DEF Crash, TypeOK
<1>2. ASSUME NEW d \in inflight, DeliverDetached(d)
      PROVE  TypeOK'
  <2>1. d \in Deliveries /\ d.to.sink \in Sinks /\ d.delta \in Events
    BY DEF TypeOK, Deliveries, ActiveSubscriptions
  <2>2. Append(received[d.to.sink], d.delta) \in Seq(Events)
    BY <2>1, AppendProperties DEF TypeOK
  <2>3. /\ \/ received' = received
           \/ received' = [received EXCEPT ![d.to.sink] = Append(@, d.delta)]
        /\ failures' \subseteq failures \cup {d} /\ inflight' \subseteq inflight
        /\ UNCHANGED <<history, rows, registrations, nextSubscription, lock,
                       registryLock, registry, pc, todo, fanout, request>>
    BY <1>2 DEF DeliverDetached
  <2>4. received' \in [Sinks -> Seq(Events)]
    BY <2>1, <2>2, <2>3 DEF TypeOK
  <2>5. Positions' = Positions
    BY <2>3 DEF Positions
  <2>6. QED  BY <2>1, <2>3, <2>4, <2>5 DEF TypeOK
<1>3. QED  BY <1>1, <1>2

\* A subscribe in progress holds a well-formed request.
LEMMA RequestType ==
  ASSUME TypeOK, RequestsOwnSinks, NEW t \in Threads,
         pc[t] \in {"number", "initial", "persist", "join"}
  PROVE  request[t] \in ActiveSubscriptions
<1>1. request[t].sink \in Sinks
  BY DEF RequestsOwnSinks, OwnsSink
<1>2. NoRequest.sink \notin Sinks
  BY SinksAssumption DEF NoRequest
<1>3. QED  BY <1>1, <1>2 DEF TypeOK

\* subscribe keeps the state well typed.
LEMMA SubscribeType ==
  ASSUME TypeOK, RequestsOwnSinks, NEW t \in Threads, Subscribe(t)
  PROVE  TypeOK'
<1> USE DEF storeVars, registrationVars, feedVars, Goto
<1>1. UNCHANGED <<history, rows, lock, registryLock, failures, inflight, todo, fanout>>
      /\ Positions' = Positions
  BY DEF Subscribe, MatchRecords, NextSubscriptionHandle, DeliverInitial,
         SubscribeFails, PersistSubscription, Join, Positions
<1>2. Len(history) \in Nat
  BY LenProperties DEF TypeOK
<1>3. pc' \in [Threads -> {"idle", "announce", "fanout",
                           "number", "initial", "persist", "join"}]
  BY DEF Subscribe, MatchRecords, NextSubscriptionHandle, DeliverInitial,
         SubscribeFails, PersistSubscription, Join, TypeOK
<1>4. ASSUME NEW sink \in Sinks, MatchRecords(t, sink)
      PROVE  TypeOK'
  <2>1. [id |-> 0, snapshot |-> Len(history), sink |-> sink] \in ActiveSubscriptions
    BY <1>2 DEF ActiveSubscriptions
  <2>2. request' \in [Threads -> ActiveSubscriptions \cup {NoRequest}]
    BY <1>4, <2>1 DEF MatchRecords, TypeOK
  <2>3. UNCHANGED <<registrations, nextSubscription, registry, received>>
    BY <1>4 DEF MatchRecords
  <2>4. QED  BY <1>1, <1>3, <2>2, <2>3 DEF TypeOK
<1>5. CASE NextSubscriptionHandle(t)
  <2>1. request[t] \in ActiveSubscriptions
    BY <1>5, RequestType DEF NextSubscriptionHandle
  <2>2. [request[t] EXCEPT !.id = nextSubscription] \in ActiveSubscriptions
    BY <2>1 DEF ActiveSubscriptions, TypeOK
  <2>3. request' = [request EXCEPT ![t] = [request[t] EXCEPT !.id = nextSubscription]]
    BY <1>5 DEF NextSubscriptionHandle, TypeOK
  <2>4. request' \in [Threads -> ActiveSubscriptions \cup {NoRequest}]
    BY <2>2, <2>3 DEF TypeOK
  <2>5. UNCHANGED <<registrations, nextSubscription, registry, received>>
    BY <1>5 DEF NextSubscriptionHandle
  <2>6. QED  BY <1>1, <1>3, <2>4, <2>5 DEF TypeOK
<1>6. CASE DeliverInitial(t)
  <2>1. request[t].sink \in Sinks /\ request[t].snapshot \in Nat
    BY <1>6, RequestType DEF DeliverInitial, ActiveSubscriptions
  <2>2. InitialSnapshot(request[t].snapshot) \in Events
    BY <2>1 DEF InitialSnapshot, Events
  <2>3. Append(received[request[t].sink], InitialSnapshot(request[t].snapshot))
          \in Seq(Events)
    BY <2>1, <2>2, AppendProperties DEF TypeOK
  <2>4. received' \in [Sinks -> Seq(Events)]
    BY <1>6, <2>1, <2>3 DEF DeliverInitial, TypeOK
  <2>5. UNCHANGED <<registrations, nextSubscription, registry, request>>
    BY <1>6 DEF DeliverInitial
  <2>6. QED  BY <1>1, <1>3, <2>4, <2>5 DEF TypeOK
<1>7. CASE SubscribeFails(t)
  <2>1. request' \in [Threads -> ActiveSubscriptions \cup {NoRequest}]
    BY <1>7 DEF SubscribeFails, TypeOK
  <2>2. UNCHANGED <<registrations, nextSubscription, registry, received>>
    BY <1>7 DEF SubscribeFails
  <2>3. QED  BY <1>1, <1>3, <2>1, <2>2 DEF TypeOK
<1>8. CASE PersistSubscription(t)
  <2> DEFINE id == request[t].id
             row == Registration(request[t])
  <2>1. request[t] \in ActiveSubscriptions
    BY <1>8, RequestType DEF PersistSubscription
  <2>2. id \in Nat /\ row \in Registrations
    BY <2>1, SinksAssumption DEF ActiveSubscriptions, Registration, Registrations
  <2>3. /\ registrations' = [n \in DOMAIN registrations \cup {id} |->
                               IF n = id THEN row ELSE registrations[n]]
        /\ nextSubscription' = id + 1
        /\ UNCHANGED <<registry, received, request>>
    BY <1>8 DEF PersistSubscription
  <2> HIDE DEF id, row
  <2>4. /\ DOMAIN registrations' \subseteq Nat /\ nextSubscription' \in Nat
        /\ \A n \in DOMAIN registrations' : registrations'[n] \in Registrations
    BY <2>2, <2>3 DEF TypeOK
  <2>5. QED  BY <1>1, <1>3, <2>3, <2>4 DEF TypeOK
<1>9. CASE Join(t)
  <2>1. request[t] \in ActiveSubscriptions
    BY <1>9, RequestType DEF Join
  <2>2. registry' \in Seq(ActiveSubscriptions)
    BY <1>9, <2>1, AppendProperties DEF Join, TypeOK
  <2>3. request' \in [Threads -> ActiveSubscriptions \cup {NoRequest}]
    BY <1>9 DEF Join, TypeOK
  <2>4. UNCHANGED <<registrations, nextSubscription, received>>
    BY <1>9 DEF Join
  <2>5. QED  BY <1>1, <1>3, <2>2, <2>3, <2>4 DEF TypeOK
<1>10. QED  BY <1>4, <1>5, <1>6, <1>7, <1>8, <1>9 DEF Subscribe

\* Every step keeps the state well typed.
LEMMA NextType == TypeOK /\ Feeding /\ [Next]_vars => TypeOK'
<1> SUFFICES ASSUME TypeOK, Feeding, [Next]_vars PROVE TypeOK'
  OBVIOUS
<1>1. CASE UNCHANGED vars
  BY <1>1 DEF vars, storeVars, registrationVars, feedVars, TypeOK, Positions
<1>2. QED
  BY <1>1, WriteType, ProceedType, DetachedCrashType, SubscribeType DEF Next, Feeding

-----------------------------------------------------------------------------
(* The locks and the rest of the newest commit *)

\* While the write lock is free, nothing is being announced.
LEMMA NothingAnnounced ==
  ASSUME Locked, lock = NoThread, NEW t \in Threads
  PROVE  pc[t] \notin {"announce", "fanout"} /\ todo[t] = <<>>
  BY ThreadsAssumption DEF Locked

\* Every step respects the locks.
LEMMA NextLocked ==
  ASSUME TypeOK, Locked, [Next]_vars
  PROVE  Locked'
<1> USE DEF Goto, storeVars, registrationVars, feedVars
<1>1. ASSUME NEW t \in Threads, NEW operations \in Batches, Write(t, operations)
      PROVE  Locked'
  <2>1. /\ \A u \in Threads : pc[u] \notin {"announce", "fanout"} /\ todo[u] = <<>>
    BY <1>1, NothingAnnounced DEF Write
  <2>2. /\ lock' = t /\ pc' = [pc EXCEPT ![t] = "announce"]
        /\ registryLock' = registryLock
        /\ \A u \in Threads \ {t} : todo'[u] = todo[u]
    BY <1>1 DEF Write, Held, TypeOK
  <2>3. QED  BY <2>1, <2>2 DEF Locked, TypeOK
<1>2. ASSUME NEW t \in Threads, Announce(t)
      PROVE  Locked'
  BY <1>2, ThreadsAssumption DEF Announce, Locked, TypeOK
<1>3. ASSUME NEW t \in Threads, Announced(t)
      PROVE  Locked'
  BY <1>3, ThreadsAssumption DEF Announced, Locked, TypeOK
<1>4. ASSUME NEW t \in Threads, Return(t)
      PROVE  Locked'
  BY <1>4, ThreadsAssumption DEF Return, Locked, TypeOK
<1>5. CASE UNCHANGED <<lock, registryLock, pc, todo>>
  BY <1>5 DEF Locked
<1>6. ASSUME NEW t \in Threads, Skip(t) \/ Call(t) \/ Spawn(t)
      PROVE  Locked'
  BY <1>5, <1>6 DEF Skip, Call, Spawn
<1>7. ASSUME NEW d \in inflight, DeliverDetached(d)
      PROVE  Locked'
  BY <1>5, <1>7 DEF DeliverDetached
<1>8. ASSUME NEW t \in Threads, Subscribe(t)
      PROVE  Locked'
  <2>1. /\ UNCHANGED <<lock, registryLock, todo>>
        /\ pc[t] \notin {"announce", "fanout"} /\ pc'[t] \notin {"announce", "fanout"}
        /\ \A u \in Threads \ {t} : pc'[u] = pc[u]
    BY <1>8 DEF Subscribe, MatchRecords, NextSubscriptionHandle, DeliverInitial,
                SubscribeFails, PersistSubscription, Join, TypeOK
  <2>2. QED  BY <2>1 DEF Locked
<1>9. CASE Crash
  BY <1>9, ThreadsAssumption DEF Crash, Locked
<1>10. CASE UNCHANGED vars
  BY <1>5, <1>10 DEF vars
<1>11. QED
  BY <1>1, <1>2, <1>3, <1>4, <1>6, <1>7, <1>8, <1>9, <1>10 DEF Next, Proceed

\* A commit leaves exactly its own operations to announce.
LEMMA WriteTodo ==
  ASSUME TypeOK, Locked, NEW t \in Threads, NEW operations \in Batches,
         Write(t, operations)
  PROVE  TodoIsRest'
<1> DEFINE next == Len(history) + 1
<1>1. operations \in Seq(Operations) /\ history' = Append(history, operations)
  BY WritesAssumption DEF Write
<1>2. /\ Len(history) \in Nat /\ Len(history') = next
      /\ \A p \in Positions : p.snapshot \in 1 .. Len(history)
      /\ \A p \in Positions' : p \notin Positions =>
           \E i \in DOMAIN operations : p = [snapshot |-> next, operation |-> i]
  BY <1>1, WritePositions
<1>3. /\ DOMAIN todo'[t] = DOMAIN operations
      /\ \A i \in DOMAIN operations :
           todo'[t][i] = [snapshot |-> next, operation |-> i]
      /\ \A u \in Threads \ {t} : todo'[u] = <<>>
  <2>1. \A u \in Threads : todo[u] = <<>>
    BY NothingAnnounced DEF Write
  <2>2. QED  BY <2>1 DEF Write, NextSnapshot, TypeOK
<1>4. DOMAIN operations \subseteq Nat
  BY <1>1, LenProperties
<1> HIDE DEF next
<1>5. ASSUME NEW p \in Positions', todo'[t] # <<>>, Before(todo'[t][1], p)
      PROVE  \E i \in DOMAIN todo'[t] : todo'[t][i] = p
  <2>1. todo'[t][1].snapshot = next
    <3>1. todo'[t] \in Seq(Positions')
      BY WriteType DEF TypeOK
    <3>2. Len(todo'[t]) \in Nat /\ Len(todo'[t]) >= 1
          /\ DOMAIN todo'[t] = 1 .. Len(todo'[t])
      BY <1>5, <3>1, TailProperties
    <3>3. 1 \in DOMAIN todo'[t]
      BY <3>2
    <3>4. 1 \in DOMAIN operations
      BY <1>3, <3>3
    <3>5. todo'[t][1] = [snapshot |-> next, operation |-> 1]
      BY <1>3, <3>4
    <3>6. QED  BY <3>5
  <2>2. p \notin Positions
    <3>1. ASSUME p \in Positions PROVE FALSE
      <4>1. p.snapshot \in Nat /\ p.snapshot < next
        BY <1>2, <3>1 DEF next
      <4>2. QED  BY <1>2, <1>5, <2>1, <4>1 DEF Before, next
    <3>2. QED  BY <3>1
  <2>3. QED  BY <1>2, <1>3, <2>2
<1>6. ASSUME NEW u \in Threads
      PROVE  /\ \A i \in DOMAIN todo'[u] : todo'[u][i].snapshot = Len(history')
             /\ \A i, j \in DOMAIN todo'[u] :
                  i < j => todo'[u][i].operation < todo'[u][j].operation
             /\ \A p \in Positions' : todo'[u] # <<>> /\ Before(todo'[u][1], p) =>
                  \E i \in DOMAIN todo'[u] : todo'[u][i] = p
  <2>1. CASE u = t
    <3>1. \A i \in DOMAIN todo'[t] : /\ todo'[t][i].snapshot = Len(history')
                                    /\ todo'[t][i].operation = i
      <4> TAKE i \in DOMAIN todo'[t]
      <4>1. todo'[t][i] = [snapshot |-> next, operation |-> i]
        BY <1>3
      <4>2. Len(history') = next
        BY <1>2
      <4>3. QED  BY <4>1, <4>2
    <3>2. \A i, j \in DOMAIN todo'[t] :
            i < j => todo'[t][i].operation < todo'[t][j].operation
      BY <3>1
    <3>3. QED  BY <1>5, <2>1, <3>1, <3>2
  <2>2. CASE u # t
    <3>1. todo'[u] = <<>> /\ DOMAIN todo'[u] = {}
      BY <1>3, <2>2
    <3>2. QED  BY <3>1
  <2>3. QED  BY <2>1, <2>2
<1>7. QED  BY <1>6 DEF TodoIsRest, Before

\* Announcing the head leaves the rest.
LEMMA AnnouncedTodo ==
  ASSUME TypeOK, Locked, TodoIsRest, NEW t \in Threads, Announced(t)
  PROVE  TodoIsRest'
<1> DEFINE old == todo[t]
           new == Tail(old)
<1>1. /\ old # <<>> /\ todo' = [todo EXCEPT ![t] = new]
      /\ history' = history /\ Positions' = Positions
      /\ old \in Seq(Positions)
  <2>1. old # <<>>
    BY DEF Announced, Locked
  <2>2. todo' = [todo EXCEPT ![t] = new]
    BY DEF Announced
  <2>3. history' = history
    BY DEF Announced, storeVars
  <2>4. Positions' = Positions
    BY <2>3 DEF Positions
  <2>5. old \in Seq(Positions)
    BY DEF TypeOK
  <2>6. QED  BY <2>1, <2>2, <2>3, <2>4, <2>5
<1>2. /\ Len(old) \in Nat /\ DOMAIN old = 1 .. Len(old)
      /\ DOMAIN new = 1 .. Len(old) - 1 /\ new \in Seq(Positions)
      /\ 1 \in DOMAIN old
      /\ \A i \in 1 .. Len(old) - 1 : new[i] = old[i + 1]
      /\ \A i \in DOMAIN old : i # 1 => i - 1 \in DOMAIN new /\ new[i - 1] = old[i]
  BY <1>1, TailProperties
<1>3. /\ \A i \in DOMAIN old : old[i].snapshot = Len(history)
      /\ \A i, j \in DOMAIN old : i < j => old[i].operation < old[j].operation
      /\ \A p \in Positions : Before(old[1], p) =>
           \E i \in DOMAIN old : old[i] = p
  BY <1>1 DEF TodoIsRest
<1>4. \A i \in DOMAIN old : old[i].operation \in Nat /\ old[i].snapshot \in Nat
  <2>1. \A i \in DOMAIN old : old[i] \in Events
    BY <1>1, ElementOfSeq, PositionsAreEvents, <1>2
  <2>2. QED  BY <2>1 DEF Events
<1>5. \A p \in Positions : p.operation \in Nat /\ p.snapshot \in Nat
  BY PositionsAreEvents DEF Events
<1> HIDE DEF old, new
<1>6. /\ \A i \in DOMAIN new : new[i].snapshot = Len(history)
      /\ \A i, j \in DOMAIN new : i < j => new[i].operation < new[j].operation
  <2>1. \A i \in DOMAIN new : i \in Int /\ i + 1 \in DOMAIN old /\ new[i] = old[i + 1]
    BY <1>2
  <2>2. ASSUME NEW i \in DOMAIN new, NEW j \in DOMAIN new, i < j
        PROVE  new[i].operation < new[j].operation
    <3>1. i + 1 < j + 1 /\ i + 1 \in DOMAIN old /\ j + 1 \in DOMAIN old
      BY <2>1, <2>2
    <3>2. old[i + 1].operation < old[j + 1].operation
      BY <1>3, <3>1
    <3>3. QED  BY <2>1, <3>2
  <2>3. QED  BY <1>3, <2>1, <2>2
<1>7. ASSUME NEW p \in Positions, new # <<>>, Before(new[1], p)
      PROVE  \E i \in DOMAIN new : new[i] = p
  <2>1. 1 \in DOMAIN new
    BY <1>2, <1>7, TailProperties
  <2>2. 2 \in DOMAIN old /\ new[1] = old[2]
    BY <1>2, <2>1
  <2>3. old[1].operation < old[2].operation /\ old[1].snapshot = old[2].snapshot
    BY <1>2, <1>3, <2>2
  <2>4. Before(old[1], p)
    BY <1>2, <1>4, <1>5, <1>7, <2>2, <2>3 DEF Before
  <2>5. PICK i \in DOMAIN old : old[i] = p
    BY <1>3, <2>4
  <2>6. i # 1
    BY <1>2, <1>4, <2>4, <2>5 DEF Before
  <2>7. QED  BY <1>2, <2>5, <2>6
<1>8. todo'[t] = new /\ \A u \in Threads \ {t} : todo'[u] = todo[u]
  BY <1>1 DEF TypeOK
<1>9. ASSUME NEW u \in Threads
      PROVE  /\ \A i \in DOMAIN todo'[u] : todo'[u][i].snapshot = Len(history)
             /\ \A i, j \in DOMAIN todo'[u] :
                  i < j => todo'[u][i].operation < todo'[u][j].operation
             /\ \A p \in Positions : todo'[u] # <<>> /\ Before(todo'[u][1], p) =>
                  \E i \in DOMAIN todo'[u] : todo'[u][i] = p
  <2>1. CASE u = t
    BY <1>6, <1>7, <1>8, <2>1
  <2>2. CASE u # t
    BY <1>8, <2>2 DEF TodoIsRest
  <2>3. QED  BY <2>1, <2>2
<1>10. QED  BY <1>1, <1>9 DEF TodoIsRest, Before

\* What is left to announce stays the rest of the newest commit.
LEMMA NextTodo ==
  ASSUME TypeOK, Locked, TodoIsRest, [Next]_vars
  PROVE  TodoIsRest'
<1> USE DEF storeVars
<1>1. CASE UNCHANGED <<history, todo>>
  <2>1. Positions' = Positions
    BY <1>1 DEF Positions
  <2>2. QED  BY <1>1, <2>1 DEF TodoIsRest, Before
<1>2. CASE Crash
  <2>1. \A t \in Threads : todo'[t] = <<>> /\ DOMAIN todo'[t] = {}
    BY <1>2 DEF Crash
  <2>2. QED  BY <2>1 DEF TodoIsRest
<1>3. ASSUME NEW t \in Threads, Proceed(t), ~Announced(t)
      PROVE  UNCHANGED <<history, todo>>
  BY <1>3 DEF Proceed, Announce, Skip, Call, Spawn, Return
<1>4. ASSUME NEW t \in Threads, Subscribe(t)
      PROVE  UNCHANGED <<history, todo>>
  BY <1>4 DEF Subscribe, MatchRecords, NextSubscriptionHandle, DeliverInitial,
              SubscribeFails, PersistSubscription, Join
<1>5. ASSUME NEW d \in inflight, DeliverDetached(d)
      PROVE  UNCHANGED <<history, todo>>
  BY <1>5 DEF DeliverDetached
<1>6. CASE UNCHANGED vars
  BY <1>1, <1>6 DEF vars
<1>7. QED
  BY <1>1, <1>2, <1>3, <1>4, <1>5, <1>6, WriteTodo, AnnouncedTodo DEF Next

-----------------------------------------------------------------------------
(* The sinks of subscribes in progress, and what has been given *)

\* A step that moves nothing but a thread's own location or request.
Quiet ==
  /\ UNCHANGED <<history, registry, failures, inflight, received, todo, fanout>>
  /\ \A t \in Threads : pc'[t] = "fanout" <=> pc[t] = "fanout"

\* The steps that touch what subscribers get, one by one.
LEMMA StepCases ==
  ASSUME TypeOK, [Next]_vars
  PROVE  \/ \E t \in Threads, operations \in Batches : Write(t, operations)
         \/ \E t \in Threads : Announce(t)
         \/ \E t \in Threads : Skip(t)
         \/ \E t \in Threads : Call(t)
         \/ \E t \in Threads : Spawn(t)
         \/ \E t \in Threads : Announced(t)
         \/ \E t \in Threads : DeliverInitial(t)
         \/ \E t \in Threads : Join(t)
         \/ \E d \in inflight : DeliverDetached(d)
         \/ Crash
         \/ Quiet
<1> USE DEF storeVars, registrationVars, feedVars, Goto
<1>1. ASSUME NEW t \in Threads, Return(t) PROVE Quiet
  BY <1>1 DEF Return, Quiet, TypeOK
<1>2. ASSUME NEW t \in Threads, NEW sink \in Sinks, MatchRecords(t, sink) PROVE Quiet
  BY <1>2 DEF MatchRecords, Quiet, TypeOK
<1>3. ASSUME NEW t \in Threads, NextSubscriptionHandle(t) PROVE Quiet
  BY <1>3 DEF NextSubscriptionHandle, Quiet, TypeOK
<1>4. ASSUME NEW t \in Threads, SubscribeFails(t) PROVE Quiet
  BY <1>4 DEF SubscribeFails, Quiet, TypeOK
<1>5. ASSUME NEW t \in Threads, PersistSubscription(t) PROVE Quiet
  BY <1>5 DEF PersistSubscription, Quiet, TypeOK
<1>6. CASE UNCHANGED vars
  BY <1>6 DEF vars, Quiet
<1>7. QED  BY <1>1, <1>2, <1>3, <1>4, <1>5, <1>6 DEF Next, Proceed, Subscribe

\* The entry an announcement has reached is registered, and the delta is the
\* write's next.
LEMMA EntryReached ==
  ASSUME TypeOK, Feeding, NEW t \in Threads, pc[t] = "fanout", fanout[t] # <<>>
  PROVE  LET entry == Head(fanout[t])
             delta == Head(todo[t])
         IN  /\ entry = fanout[t][1] /\ 1 \in DOMAIN fanout[t]
             /\ entry \in ActiveSubscriptions /\ entry.sink \in Sinks
             /\ \E n \in DOMAIN registry : entry = registry[n]
             /\ todo[t] # <<>> /\ delta = todo[t][1] /\ 1 \in DOMAIN todo[t]
             /\ delta \in Positions /\ delta \in Events
<1>1. fanout[t] \in Seq(ActiveSubscriptions) /\ todo[t] \in Seq(Positions)
  BY DEF TypeOK
<1>2. todo[t] # <<>>
  BY DEF Feeding, Locked
<1>3. /\ Len(fanout[t]) \in Nat /\ Len(fanout[t]) >= 1
      /\ DOMAIN fanout[t] = 1 .. Len(fanout[t])
      /\ Head(fanout[t]) = fanout[t][1] /\ fanout[t][1] \in ActiveSubscriptions
  BY <1>1, TailProperties
<1>4. /\ Len(todo[t]) \in Nat /\ Len(todo[t]) >= 1 /\ DOMAIN todo[t] = 1 .. Len(todo[t])
      /\ Head(todo[t]) = todo[t][1] /\ todo[t][1] \in Positions
  BY <1>1, <1>2, TailProperties
<1>5. 1 \in DOMAIN fanout[t] /\ 1 \in DOMAIN todo[t]
  BY <1>3, <1>4
<1>6. \E n \in DOMAIN registry : fanout[t][1] = registry[n]
  BY <1>5 DEF Feeding, FanoutIsRest
<1>7. fanout[t][1].sink \in Sinks
  BY <1>3 DEF ActiveSubscriptions
<1>8. todo[t][1] \in Events
  BY <1>4, PositionsAreEvents
<1>9. QED  BY <1>2, <1>3, <1>4, <1>5, <1>6, <1>7, <1>8

\* The registry's entries are subscriptions, whose sinks are sinks.
LEMMA RegistryShape ==
  ASSUME TypeOK, NEW n \in DOMAIN registry
  PROVE  registry[n] \in ActiveSubscriptions /\ registry[n].sink \in Sinks
<1>1. registry[n] \in ActiveSubscriptions
  <2>1. registry \in [1 .. Len(registry) -> ActiveSubscriptions]
    BY LenProperties DEF TypeOK
  <2>2. QED  BY <2>1
<1>2. QED  BY <1>1 DEF ActiveSubscriptions

\* Who is called has not a subscribe in progress.
LEMMA CallIsOfRegistered ==
  ASSUME TypeOK, Feeding, NEW s \in Sinks, NEW n \in DOMAIN registry, registry[n].sink = s,
         NEW t \in Threads
  PROVE  request[t].sink # s
  BY DEF Feeding, RequestsOwnSinks, OwnsSink

\* What the engine has given a sink stays in front of what it gives it next:
\* received'[s] is received[s], or received[s] with one more event.
LEMMA ReceivedGrows ==
  ASSUME TypeOK, Feeding, [Next]_vars, ~Crash, NEW s \in Sinks
  PROVE  /\ \/ received'[s] = received[s]
            \/ \E e \in Events : received'[s] = Append(received[s], e)
         /\ \A n \in DOMAIN received[s] :
              n \in DOMAIN received'[s] /\ received'[s][n] = received[s][n]
<1> USE DEF storeVars, registrationVars, feedVars
<1>1. received[s] \in Seq(Events)
  BY DEF TypeOK
<1> DEFINE Grows == \/ received'[s] = received[s]
                    \/ \E e \in Events : received'[s] = Append(received[s], e)
<1>2. Grows
  <2>1. CASE received' = received
    BY <2>1
  <2>2. ASSUME NEW t \in Threads, Call(t)
        PROVE  Grows
    <3> DEFINE entry == Head(fanout[t])
               delta == Head(todo[t])
    <3>1. pc[t] = "fanout" /\ fanout[t] # <<>>
          /\ \/ received' = received
             \/ received' = [received EXCEPT ![entry.sink] = Append(@, delta)]
      BY <2>2 DEF Call
    <3>2. entry.sink \in Sinks /\ delta \in Events
      BY <3>1, EntryReached
    <3> HIDE DEF entry, delta
    <3>3. QED  BY <2>1, <3>1, <3>2 DEF TypeOK
  <2>3. ASSUME NEW d \in inflight, DeliverDetached(d)
        PROVE  Grows
    <3>1. d.to.sink \in Sinks /\ d.delta \in Events
      BY DEF TypeOK, Deliveries, ActiveSubscriptions
    <3>2. QED  BY <2>1, <2>3, <3>1 DEF DeliverDetached, TypeOK
  <2>4. ASSUME NEW t \in Threads, DeliverInitial(t)
        PROVE  Grows
    <3>1. request[t] \in ActiveSubscriptions
      BY <2>4, RequestType DEF DeliverInitial, Feeding
    <3>2. request[t].sink \in Sinks /\ InitialSnapshot(request[t].snapshot) \in Events
      BY <3>1 DEF ActiveSubscriptions, InitialSnapshot, Events
    <3>3. QED  BY <2>4, <3>2 DEF DeliverInitial, TypeOK
  <2>5. QED
    BY <2>1, <2>2, <2>3, <2>4, StepCases
       DEF Write, Announce, Skip, Spawn, Announced, Join, Quiet
<1>3. QED  BY <1>1, <1>2, AppendOne

\* A registered sink is no subscribe's, whatever a step gives it.
LEMMA KeepsRequests ==
  ASSUME TypeOK, Feeding, NEW s \in Sinks,
         \E n \in DOMAIN registry : registry[n].sink = s,
         \A r \in Sinks \ {s} : received'[r] = received[r],
         UNCHANGED <<registry, request, pc>>
  PROVE  RequestsOwnSinks'
<1>1. \A t \in Threads : request[t].sink \in Sinks =>
        received'[request[t].sink] = received[request[t].sink]
  BY CallIsOfRegistered
<1>2. QED  BY <1>1 DEF Feeding, RequestsOwnSinks, OwnsSink

\* The steps of a write leave subscribes in progress alone.
LEMMA WritersRequests ==
  ASSUME TypeOK, Feeding, NEW t \in Threads,
         Proceed(t) \/ \E operations \in Batches : Write(t, operations)
  PROVE  RequestsOwnSinks'
<1> USE DEF storeVars, registrationVars, feedVars, Goto
<1>1. CASE Call(t)
  <2> DEFINE s == Head(fanout[t]).sink
  <2>1. /\ pc[t] = "fanout" /\ fanout[t] # <<>> /\ UNCHANGED <<registry, request, pc>>
        /\ \A r \in Sinks \ {s} : received'[r] = received[r]
    BY <1>1 DEF Call, TypeOK
  <2>2. s \in Sinks /\ \E n \in DOMAIN registry : registry[n].sink = s
    BY <2>1, EntryReached
  <2>3. QED  BY <2>1, <2>2, KeepsRequests
<1>2. CASE ~Call(t)
  <2>1. /\ UNCHANGED <<registry, request, received>>
        /\ pc[t] \in {"idle", "announce", "fanout"}
        /\ pc'[t] \in {"idle", "announce", "fanout"}
        /\ \A u \in Threads \ {t} : pc'[u] = pc[u]
    BY <1>2 DEF Proceed, Write, Announce, Skip, Spawn, Announced, Return, TypeOK
  <2>2. QED  BY <2>1 DEF Feeding, RequestsOwnSinks, OwnsSink
<1>3. QED  BY <1>1, <1>2

\* The steps of a subscribe keep its sink its own.
LEMMA SubscribeRequests ==
  ASSUME TypeOK, Feeding, NEW t \in Threads, Subscribe(t)
  PROVE  RequestsOwnSinks'
<1> USE DEF storeVars, registrationVars, feedVars, Goto
<1>1. NoRequest.sink \notin Sinks
  BY SinksAssumption DEF NoRequest
<1>2. ASSUME NEW sink \in Sinks, MatchRecords(t, sink)
      PROVE  RequestsOwnSinks'
  <2>1. /\ received[sink] = <<>> /\ \A u \in Threads : request[u].sink # sink
        /\ request'[t].sink = sink /\ \A u \in Threads \ {t} : request'[u] = request[u]
        /\ pc'[t] = "number" /\ \A u \in Threads \ {t} : pc'[u] = pc[u]
        /\ UNCHANGED <<registry, received>>
    BY <1>2 DEF MatchRecords, MaySubscribe, TypeOK
  <2>2. \A n \in DOMAIN registry : registry[n].sink # sink
    BY <2>1 DEF Feeding, SinksRegisteredOnce
  <2>3. DOMAIN received[sink] = {}
    BY <2>1
  <2>4. ASSUME NEW u \in Threads, u # t
        PROVE  OwnsSink(u)'
    <3>1. OwnsSink(u) /\ request[u].sink # sink
      BY <2>1 DEF Feeding, RequestsOwnSinks, OwnsSink
    <3>2. QED  BY <2>1, <2>4, <3>1 DEF OwnsSink
  <2>5. OwnsSink(t)'
    BY <2>1, <2>2, <2>3 DEF OwnsSink
  <2>6. QED  BY <2>4, <2>5 DEF RequestsOwnSinks
<1>3. CASE NextSubscriptionHandle(t)
  <2>1. /\ request[t] \in ActiveSubscriptions
        /\ pc[t] = "number"
    BY <1>3, RequestType DEF NextSubscriptionHandle, Feeding
  <2>2. /\ request'[t].sink = request[t].sink
        /\ \A u \in Threads \ {t} : request'[u] = request[u]
        /\ pc'[t] = "initial" /\ \A u \in Threads \ {t} : pc'[u] = pc[u]
        /\ UNCHANGED <<registry, received>>
    BY <1>3, <2>1 DEF NextSubscriptionHandle, TypeOK, ActiveSubscriptions
  <2>3. ASSUME NEW u \in Threads
        PROVE  OwnsSink(u)'
    <3>1. OwnsSink(u)
      BY DEF Feeding, RequestsOwnSinks, OwnsSink
    <3>2. \A v \in Threads : request'[v].sink = request[v].sink
      BY <2>2
    <3>3. /\ pc'[u] \in {"number", "initial"} <=> pc[u] \in {"number", "initial"}
          /\ pc'[u] \in {"persist", "join"} <=> pc[u] \in {"persist", "join"}
      BY <2>1, <2>2
    <3>4. QED  BY <2>2, <3>1, <3>2, <3>3 DEF OwnsSink
  <2>4. QED  BY <2>3 DEF RequestsOwnSinks
<1>4. CASE DeliverInitial(t)
  <2> DEFINE sink == request[t].sink
             event == InitialSnapshot(request[t].snapshot)
  <2>1. request[t] \in ActiveSubscriptions /\ pc[t] = "initial"
    BY <1>4, RequestType DEF DeliverInitial, Feeding
  <2>2. sink \in Sinks /\ event \in Events /\ event.operation = 0
    BY <2>1 DEF ActiveSubscriptions, InitialSnapshot, Events
  <2>3. /\ received'[sink] = Append(received[sink], event)
        /\ \A r \in Sinks \ {sink} : received'[r] = received[r]
        /\ pc'[t] = "persist" /\ \A u \in Threads \ {t} : pc'[u] = pc[u]
        /\ UNCHANGED <<registry, request>>
    BY <1>4, <2>2 DEF DeliverInitial, TypeOK
  <2>4. received[sink] \in Seq(Events)
    BY <2>2 DEF TypeOK
  <2>5. \A n \in DOMAIN received[sink] : received[sink][n].operation = 0
    BY <2>2 DEF Feeding, RequestsOwnSinks, OwnsSink
  <2> HIDE DEF event
  <2>6. /\ received'[sink] # <<>>
        /\ \A n \in DOMAIN received'[sink] : received'[sink][n].operation = 0
    BY <2>2, <2>3, <2>4, <2>5, AppendOne
  <2> HIDE DEF sink
  <2>7. \A u \in Threads \ {t} : request[u].sink # sink
    BY <2>2 DEF Feeding, RequestsOwnSinks, OwnsSink, sink
  <2>8. request[t].sink = sink
    BY DEF sink
  <2>9. \A u \in Threads \ {t} : request[u].sink \in Sinks =>
          received'[request[u].sink] = received[request[u].sink]
    BY <2>3, <2>7
  <2>10. \A n \in DOMAIN registry : registry[n].sink # sink
    BY <2>2, <2>8 DEF Feeding, RequestsOwnSinks, OwnsSink
  <2>11. request' = request /\ registry' = registry
    BY <2>3
  <2>12. \A u \in Threads : request[u].sink = sink => u = t
    BY <2>7
  <2> DEFINE own(u) == request[u].sink
             Own(u) ==
               /\ pc'[u] \in {"number", "initial", "persist", "join"} => own(u) \in Sinks
               /\ own(u) \in Sinks =>
                    /\ pc'[u] \in {"number", "initial", "persist", "join"}
                    /\ pc'[u] \in {"number", "initial"} => received'[own(u)] = <<>>
                    /\ pc'[u] \in {"persist", "join"} => received'[own(u)] # <<>>
                    /\ \A n \in DOMAIN received'[own(u)] : received'[own(u)][n].operation = 0
                    /\ \A v \in Threads : own(v) = own(u) => v = u
                    /\ \A n \in DOMAIN registry : registry[n].sink # own(u)
  <2>13. Own(t)
    BY <2>2, <2>3, <2>6, <2>8, <2>10, <2>12
  <2>14. ASSUME NEW u \in Threads \ {t} PROVE Own(u)
    <3>1. pc'[u] = pc[u]
      BY <2>3
    <3>2. CASE own(u) \in Sinks
      <4>1. received'[own(u)] = received[own(u)]
        BY <2>9, <3>2
      <4>2. QED  BY <3>1, <3>2, <4>1 DEF Feeding, RequestsOwnSinks, OwnsSink
    <3>3. CASE own(u) \notin Sinks
      BY <3>1, <3>3 DEF Feeding, RequestsOwnSinks, OwnsSink
    <3>4. QED  BY <3>2, <3>3
  <2>15. QED  BY <2>11, <2>13, <2>14 DEF RequestsOwnSinks, OwnsSink
<1>5. CASE SubscribeFails(t)
  <2>1. /\ request'[t] = NoRequest /\ \A u \in Threads \ {t} : request'[u] = request[u]
        /\ pc'[t] = "idle" /\ \A u \in Threads \ {t} : pc'[u] = pc[u]
        /\ UNCHANGED <<registry, received>>
    BY <1>5 DEF SubscribeFails, TypeOK
  <2>2. QED  BY <1>1, <2>1 DEF Feeding, RequestsOwnSinks, OwnsSink
<1>6. CASE PersistSubscription(t)
  <2>1. /\ pc[t] = "persist" /\ pc'[t] = "join"
        /\ \A u \in Threads \ {t} : pc'[u] = pc[u]
        /\ UNCHANGED <<registry, received, request>>
    BY <1>6 DEF PersistSubscription, TypeOK
  <2>2. QED  BY <2>1 DEF Feeding, RequestsOwnSinks, OwnsSink
<1>7. CASE Join(t)
  <2>1. request[t] \in ActiveSubscriptions /\ request[t].sink \in Sinks
    BY <1>7, RequestType DEF Join, Feeding, ActiveSubscriptions
  <2>2. /\ request'[t] = NoRequest /\ \A u \in Threads \ {t} : request'[u] = request[u]
        /\ pc'[t] = "idle" /\ \A u \in Threads \ {t} : pc'[u] = pc[u]
        /\ received' = received
    BY <1>7 DEF Join, TypeOK
  <2>3. registry' = Append(registry, request[t]) /\ registry \in Seq(ActiveSubscriptions)
    BY <1>7 DEF Join, TypeOK
  <2>4. \A n \in DOMAIN registry' :
          \/ n \in DOMAIN registry /\ registry'[n] = registry[n]
          \/ registry'[n] = request[t]
    BY <2>1, <2>3, AppendOne
  <2>5. \A u \in Threads \ {t} : request[u].sink # request[t].sink
    BY <2>1 DEF Feeding, RequestsOwnSinks, OwnsSink
  <2>6. QED  BY <1>1, <2>2, <2>4, <2>5 DEF Feeding, RequestsOwnSinks, OwnsSink
<1>8. QED  BY <1>2, <1>3, <1>4, <1>5, <1>6, <1>7 DEF Subscribe

\* Every step keeps the sinks of subscribes in progress their own.
LEMMA NextRequests ==
  ASSUME TypeOK, Feeding, [Next]_vars
  PROVE  RequestsOwnSinks'
<1>1. ASSUME NEW d \in inflight, DeliverDetached(d)
      PROVE  RequestsOwnSinks'
  <2> DEFINE s == d.to.sink
  <2>1. s \in Sinks
    BY DEF TypeOK, Deliveries, ActiveSubscriptions
  <2>2. \E n \in DOMAIN registry : registry[n].sink = s
    BY DEF Feeding, DeliveriesRegistered
  <2>3. /\ UNCHANGED <<registry, request, pc>>
        /\ \A r \in Sinks \ {s} : received'[r] = received[r]
    BY <1>1 DEF DeliverDetached, TypeOK
  <2>4. QED  BY <2>1, <2>2, <2>3, KeepsRequests
<1>2. CASE Crash
  BY <1>2, SinksAssumption DEF Crash, RequestsOwnSinks, OwnsSink, NoRequest
<1>3. CASE UNCHANGED vars
  BY <1>3 DEF vars, feedVars, Feeding, RequestsOwnSinks, OwnsSink
<1>4. QED  BY <1>1, <1>2, <1>3, WritersRequests, SubscribeRequests DEF Next

\* Every step keeps each sink registered once.
LEMMA NextRegistered ==
  ASSUME TypeOK, Feeding, [Next]_vars
  PROVE  SinksRegisteredOnce'
<1> USE DEF storeVars, registrationVars, feedVars
<1>1. CASE Crash
  <2>1. DOMAIN registry' = {}
    BY <1>1 DEF Crash
  <2>2. QED  BY <2>1 DEF SinksRegisteredOnce
<1>2. \A n \in DOMAIN registry : registry[n].sink \in Sinks
  BY RegistryShape
<1>3. CASE ~Crash
  <2>1. \A s \in Sinks : received[s] # <<>> => received'[s] # <<>>
    BY <1>3, ReceivedGrows, AppendOne DEF TypeOK
  <2>2. CASE registry' = registry
    BY <1>2, <2>1, <2>2 DEF Feeding, SinksRegisteredOnce
  <2>3. ASSUME NEW t \in Threads, Join(t)
        PROVE  SinksRegisteredOnce'
    <3>1. /\ request[t] \in ActiveSubscriptions /\ request[t].sink \in Sinks
          /\ pc[t] = "join"
      BY <2>3, RequestType DEF Join, Feeding, ActiveSubscriptions
    <3>2. registry' = Append(registry, request[t]) /\ registry \in Seq(ActiveSubscriptions)
      BY <2>3 DEF Join, TypeOK
    <3>3. /\ \A n \in DOMAIN registry' :
               \/ n \in DOMAIN registry /\ registry'[n] = registry[n]
               \/ n = Len(registry) + 1 /\ registry'[n] = request[t]
      BY <3>1, <3>2, AppendOne
    <3>4. \A n \in DOMAIN registry : registry[n].sink # request[t].sink
      BY <3>1 DEF Feeding, RequestsOwnSinks, OwnsSink
    <3>5. received[request[t].sink] # <<>>
      BY <3>1 DEF Feeding, RequestsOwnSinks, OwnsSink
    <3>6. QED
      BY <1>2, <2>1, <3>1, <3>3, <3>4, <3>5 DEF Feeding, SinksRegisteredOnce
  <2>4. QED
    BY <1>3, <2>2, <2>3, StepCases
       DEF Write, Announce, Skip, Call, Spawn, Announced, DeliverInitial,
           DeliverDetached, Quiet
<1>4. QED  BY <1>1, <1>3

\* What a subscription has been given stays given while the engine lives, also
\* when a detached thread hands its delta over to the sink or to the failures.
LEMMA GivenKept ==
  ASSUME TypeOK, Feeding, [Next]_vars, ~Crash, NEW S \in ActiveSubscriptions,
         NEW p \in Given(S)
  PROVE  p \in Given(S)'
<1> USE DEF storeVars, registrationVars, feedVars
<1>1. S.sink \in Sinks
  BY DEF ActiveSubscriptions
<1>2. /\ p \in Positions
      /\ \/ \E n \in DOMAIN received[S.sink] : received[S.sink][n] = p
         \/ [to |-> S, delta |-> p] \in failures \cup inflight
  BY DEF Given
<1>3. p \in Positions'
  <2>1. CASE history' = history
    BY <1>2, <2>1 DEF Positions
  <2>2. ASSUME NEW t \in Threads, NEW operations \in Batches, Write(t, operations)
        PROVE  p \in Positions'
    BY <1>2, <2>2, WritePositions, WritesAssumption DEF Write
  <2>3. QED
    BY <2>1, <2>2, StepCases
       DEF Announce, Skip, Call, Spawn, Announced, DeliverInitial, Join,
           DeliverDetached, Quiet
<1>4. CASE \E n \in DOMAIN received[S.sink] : received[S.sink][n] = p
  <2>1. \E n \in DOMAIN received'[S.sink] : received'[S.sink][n] = p
    BY <1>1, <1>4, ReceivedGrows
  <2>2. QED  BY <1>3, <2>1 DEF Given
<1>5. CASE [to |-> S, delta |-> p] \in failures \cup inflight
  <2>1. CASE failures \cup inflight \subseteq failures' \cup inflight'
    <3>1. [to |-> S, delta |-> p] \in failures' \cup inflight'
      BY <1>5, <2>1
    <3>2. QED  BY <1>3, <3>1 DEF Given
  <2>2. ASSUME NEW d \in inflight, DeliverDetached(d)
        PROVE  p \in Given(S)'
    <3>1. CASE d # [to |-> S, delta |-> p] \/ failures' = failures \cup {d}
      <4>1. [to |-> S, delta |-> p] \in failures' \cup inflight'
        BY <1>5, <2>2, <3>1 DEF DeliverDetached
      <4>2. QED  BY <1>3, <4>1 DEF Given
    <3>2. CASE d = [to |-> S, delta |-> p] /\ failures' # failures \cup {d}
      <4>1. d.to.sink = S.sink /\ d.delta = p
        BY <3>2
      <4>2. received'[S.sink] = Append(received[S.sink], p)
        BY <1>1, <2>2, <3>2, <4>1 DEF DeliverDetached, TypeOK
      <4>3. received[S.sink] \in Seq(Events) /\ p \in Events
        BY <1>1, <1>2, PositionsAreEvents DEF TypeOK
      <4>4. \E n \in DOMAIN received'[S.sink] : received'[S.sink][n] = p
        <5>1. /\ Len(received[S.sink]) + 1 \in DOMAIN received'[S.sink]
              /\ received'[S.sink][Len(received[S.sink]) + 1] = p
          BY <4>2, <4>3, AppendOne
        <5>2. QED  BY <5>1
      <4>5. QED  BY <1>3, <4>4 DEF Given
    <3>3. QED  BY <3>1, <3>2
  <2>3. QED
    BY <2>1, <2>2, StepCases
       DEF Write, Announce, Skip, Call, Spawn, Announced, DeliverInitial, Join, Quiet
<1>6. QED  BY <1>2, <1>4, <1>5

\* Nothing but a commit adds to the deltas a subscription asks for.
LEMMA WantedKept ==
  ASSUME NEW S, history' = history
  PROVE  Positions' = Positions /\ Wanted(S)' = Wanted(S)
<1>1. Positions' = Positions
  BY DEF Positions
<1>2. QED  BY <1>1 DEF Wanted, Accepted

\* What a delta is given by reaching an entry that asks for it: the sink has
\* it, or its failure is recorded, or a thread carries it.
LEMMA ReachedIsGiven ==
  ASSUME TypeOK, Feeding, NEW t \in Threads, Call(t) \/ Spawn(t),
         NEW entry, entry = Head(fanout[t]), NEW delta, delta = Head(todo[t])
  PROVE  delta \in Given(entry)'
<1> USE DEF storeVars, registrationVars
<1>1. /\ pc[t] = "fanout" /\ fanout[t] # <<>> /\ history' = history
      /\ \/ received' = [received EXCEPT ![entry.sink] = Append(@, delta)]
         \/ [to |-> entry, delta |-> delta] \in failures' \cup inflight'
  BY DEF Call, Spawn
<1>2. /\ entry.sink \in Sinks /\ delta \in Positions /\ delta \in Events
  BY <1>1, EntryReached
<1>3. delta \in Positions'
  BY <1>1, <1>2 DEF Positions
<1>4. CASE received' = [received EXCEPT ![entry.sink] = Append(@, delta)]
  <2>1. /\ received'[entry.sink] = Append(received[entry.sink], delta)
        /\ received[entry.sink] \in Seq(Events)
    BY <1>2, <1>4 DEF TypeOK
  <2>2. /\ Len(received[entry.sink]) + 1 \in DOMAIN received'[entry.sink]
        /\ received'[entry.sink][Len(received[entry.sink]) + 1] = delta
    <3>1. /\ Len(received[entry.sink]) + 1 \in DOMAIN Append(received[entry.sink], delta)
          /\ Append(received[entry.sink], delta)[Len(received[entry.sink]) + 1] = delta
      <4>1. PICK r : r = received[entry.sink]
        OBVIOUS
      <4>2. delta \in Events /\ r \in Seq(Events)
        BY <1>2, <2>1, <4>1
      <4>3. Len(r) + 1 \in DOMAIN Append(r, delta) /\ Append(r, delta)[Len(r) + 1] = delta
        BY <4>2, AppendOne
      <4>4. QED  BY <4>1, <4>3
    <3>2. QED  BY <2>1, <3>1, Zenon
  <2>3. QED  BY <1>3, <2>2 DEF Given
<1>5. CASE [to |-> entry, delta |-> delta] \in failures' \cup inflight'
  BY <1>3, <1>5 DEF Given
<1>6. QED  BY <1>1, <1>4, <1>5

\* An announcement that has passed an entry has given it the delta, or the
\* entry does not ask for it.
LEMMA PassedFanout ==
  ASSUME TypeOK, Feeding, [Next]_vars, NEW t \in Threads, Skip(t) \/ Call(t) \/ Spawn(t)
  PROVE  FanoutIsRest'
<1> USE DEF storeVars, registrationVars
<1> DEFINE old == fanout[t]
           new == Tail(old)
<1>1. PICK delta : delta = Head(todo[t])
  OBVIOUS
<1>2. /\ pc[t] = "fanout" /\ old # <<>> /\ fanout' = [fanout EXCEPT ![t] = new]
      /\ UNCHANGED <<history, registry, pc, todo>>
  BY DEF Skip, Call, Spawn, Onward
<1>3. ~Crash
  <2>1. pc'[t] = "fanout"
    BY <1>2
  <2>2. QED  BY <2>1 DEF Crash
<1>4. old \in Seq(ActiveSubscriptions)
  BY DEF TypeOK
<1>5. /\ Len(old) \in Nat /\ Len(old) >= 1 /\ DOMAIN old = 1 .. Len(old)
      /\ DOMAIN new = 1 .. Len(old) - 1 /\ Head(old) = old[1]
      /\ \A i \in 1 .. Len(old) - 1 : new[i] = old[i + 1]
      /\ \A i \in DOMAIN old : i # 1 => i - 1 \in DOMAIN new /\ new[i - 1] = old[i]
  BY <1>2, <1>4, TailProperties
<1>6. /\ \A i \in DOMAIN old : \E n \in DOMAIN registry : old[i] = registry[n]
      /\ \A i, j \in DOMAIN old : old[i].sink = old[j].sink => i = j
      /\ \A n \in DOMAIN registry : delta \in Wanted(registry[n]) =>
           \/ delta \in Given(registry[n])
           \/ \E i \in DOMAIN old : old[i] = registry[n]
  BY <1>1, <1>2 DEF Feeding, FanoutIsRest
<1>7. Skip(t) => delta \notin Wanted(old[1])
  BY <1>1, <1>5 DEF Skip, Wanted
<1>8. ~Skip(t) => \A S : S = old[1] => delta \in Given(S)'
  BY <1>1, <1>5, ReachedIsGiven
<1>9. \A S \in ActiveSubscriptions : delta \in Given(S) => delta \in Given(S)'
  BY <1>3, GivenKept
<1>10. todo'[t] = todo[t] /\ fanout'[t] = new
  BY <1>2, <1>4 DEF TypeOK
<1> HIDE DEF old, new
<1>11. \A i \in DOMAIN new : i \in Int /\ i + 1 \in DOMAIN old /\ new[i] = old[i + 1]
  BY <1>5
<1>12. \A i \in DOMAIN new : \E n \in DOMAIN registry : new[i] = registry[n]
  BY <1>6, <1>11
<1>13. \A i, j \in DOMAIN new : new[i].sink = new[j].sink => i = j
  <2> SUFFICES ASSUME NEW i \in DOMAIN new, NEW j \in DOMAIN new,
                      new[i].sink = new[j].sink
               PROVE  i = j
    OBVIOUS
  <2>1. i + 1 = j + 1
    BY <1>6, <1>11
  <2>2. QED  BY <1>11, <2>1
<1>14. ASSUME NEW n \in DOMAIN registry, NEW S, S = registry[n], delta \in Wanted(S)
       PROVE  \/ delta \in Given(S)'
              \/ \E i \in DOMAIN new : new[i] = registry[n]
  <2>1. CASE delta \in Given(S)
    BY <1>9, <1>14, <2>1, RegistryShape
  <2>2. ASSUME NEW i \in DOMAIN old, old[i] = S
        PROVE  \/ delta \in Given(S)'
               \/ \E k \in DOMAIN new : new[k] = registry[n]
    <3>1. CASE i # 1
      BY <1>5, <1>14, <2>2, <3>1
    <3>2. CASE i = 1
      BY <1>7, <1>8, <1>14, <2>2, <3>2
    <3>3. QED  BY <3>1, <3>2
  <2>3. QED  BY <1>6, <1>14, <2>1, <2>2
<1>15. ASSUME NEW n \in DOMAIN registry', Head(todo'[t]) \in Wanted(registry[n])'
       PROVE  \/ Head(todo'[t]) \in Given(registry[n])'
              \/ \E i \in DOMAIN fanout'[t] : fanout'[t][i] = registry'[n]
  <2>1. PICK S : S = registry[n]
    OBVIOUS
  <2>2. n \in DOMAIN registry /\ registry'[n] = S /\ Head(todo'[t]) = delta
    BY <1>1, <1>2, <1>10, <2>1
  <2>3. Wanted(registry[n])' = Wanted(S)' /\ Given(registry[n])' = Given(S)'
    BY <2>2 DEF Wanted, Given, Accepted
  <2>4. delta \in Wanted(S)
    BY <1>2, <1>15, <2>2, <2>3, WantedKept
  <2>5. QED  BY <1>10, <1>14, <2>1, <2>2, <2>3, <2>4
<1>16. ASSUME NEW u \in Threads, pc'[u] = "fanout"
       PROVE  u = t
  BY <1>2, <1>16 DEF Feeding, Locked
<1>17. QED
  BY <1>2, <1>10, <1>12, <1>13, <1>15, <1>16 DEF FanoutIsRest

\* Every step keeps account of whom an announcement has yet to reach.
LEMMA NextFanout ==
  ASSUME TypeOK, Feeding, [Next]_vars
  PROVE  FanoutIsRest'
<1> USE DEF storeVars, registrationVars, feedVars, Goto
<1>1. CASE \A u \in Threads : pc'[u] # "fanout"
  BY <1>1 DEF FanoutIsRest
<1>2. registryLock = NoThread => \A u \in Threads : pc[u] # "fanout"
  BY ThreadsAssumption DEF Feeding, Locked
<1>3. lock = NoThread => \A u \in Threads : pc[u] # "fanout"
  BY NothingAnnounced DEF Feeding
<1>4. ASSUME NEW t \in Threads, NEW operations \in Batches, Write(t, operations)
      PROVE  FanoutIsRest'
  BY <1>1, <1>3, <1>4 DEF Write, TypeOK
<1>5. ASSUME NEW t \in Threads, Announced(t)
      PROVE  FanoutIsRest'
  <2>1. \A u \in Threads \ {t} : pc[u] # "fanout"
    BY <1>5 DEF Announced, Feeding, Locked
  <2>2. QED  BY <1>1, <1>5, <2>1 DEF Announced, TypeOK
<1>6. ASSUME NEW t \in Threads, Join(t)
      PROVE  FanoutIsRest'
  BY <1>1, <1>2, <1>6 DEF Join, RegistryFree, TypeOK
<1>7. CASE Crash
  BY <1>1, <1>7 DEF Crash
<1>8. ASSUME NEW t \in Threads, Announce(t)
      PROVE  FanoutIsRest'
  <2>1. /\ \A u \in Threads \ {t} : pc'[u] # "fanout"
        /\ fanout'[t] = registry /\ registry' = registry
    BY <1>2, <1>8 DEF Announce, TypeOK
  <2>2. QED  BY <2>1 DEF FanoutIsRest, Feeding, SinksRegisteredOnce
<1>9. ASSUME UNCHANGED <<history, registry, todo, fanout>>, ~Crash,
             \A t \in Threads : pc'[t] = "fanout" <=> pc[t] = "fanout"
      PROVE  FanoutIsRest'
  <2> SUFFICES ASSUME NEW t \in Threads, pc[t] = "fanout", NEW n \in DOMAIN registry,
                      (Head(todo[t]) \in Wanted(registry[n]))'
               PROVE  \/ (Head(todo[t]) \in Given(registry[n]))'
                      \/ \E i \in DOMAIN fanout[t] : fanout[t][i] = registry[n]
    BY <1>9 DEF FanoutIsRest, Feeding
  <2>1. PICK S, delta : S = registry[n] /\ delta = Head(todo[t])
    OBVIOUS
  <2>2. /\ Wanted(registry[n])' = Wanted(S)' /\ Given(registry[n])' = Given(S)'
        /\ Head(todo[t])' = delta
    BY <1>9, <2>1 DEF Wanted, Given, Accepted
  <2>3. delta \in Wanted(S)
    BY <1>9, <2>2, WantedKept
  <2>4. delta \in Given(S) \/ \E i \in DOMAIN fanout[t] : fanout[t][i] = registry[n]
    BY <2>1, <2>3 DEF FanoutIsRest, Feeding
  <2>5. delta \in Given(S) => delta \in Given(S)'
    BY <1>9, <2>1, RegistryShape, GivenKept
  <2>6. QED  BY <2>2, <2>4, <2>5
<1>10. ASSUME NEW t \in Threads, DeliverInitial(t)
       PROVE  FanoutIsRest' \/ Crash
  BY <1>9, <1>10 DEF DeliverInitial, TypeOK
<1>11. ASSUME NEW d \in inflight, DeliverDetached(d)
       PROVE  FanoutIsRest' \/ Crash
  BY <1>9, <1>11 DEF DeliverDetached
<1>12. Quiet => FanoutIsRest' \/ Crash
  BY <1>9 DEF Quiet
<1>13. QED
  BY <1>4, <1>5, <1>6, <1>7, <1>8, <1>10, <1>11, <1>12, PassedFanout, StepCases

\* Every step records failures, and starts threads, for registered entries only.
LEMMA NextDeliveries ==
  ASSUME TypeOK, Feeding, [Next]_vars
  PROVE  DeliveriesRegistered'
<1> USE DEF storeVars, registrationVars, feedVars
<1>1. CASE UNCHANGED <<registry, failures, inflight>>
  BY <1>1 DEF Feeding, DeliveriesRegistered
<1>2. ASSUME NEW t \in Threads, Call(t) \/ Spawn(t)
      PROVE  DeliveriesRegistered'
  <2> DEFINE entry == Head(fanout[t])
             delta == Head(todo[t])
             delivery == [to |-> entry, delta |-> delta]
  <2>1. /\ pc[t] = "fanout" /\ fanout[t] # <<>> /\ registry' = registry
        /\ failures' \subseteq failures \cup {delivery}
        /\ inflight' \subseteq inflight \cup {delivery}
        /\ inflight' # inflight => entry.sink \notin Inline
    BY <1>2 DEF Call, Spawn
  <2>2. \E n \in DOMAIN registry : entry = registry[n]
    BY <2>1, EntryReached
  <2>3. delivery.to = entry
    OBVIOUS
  <2> HIDE DEF entry, delivery
  <2>4. QED  BY <2>1, <2>2, <2>3 DEF Feeding, DeliveriesRegistered
<1>3. ASSUME NEW t \in Threads, Join(t)
      PROVE  DeliveriesRegistered'
  <2>1. request[t] \in ActiveSubscriptions
    BY <1>3, RequestType DEF Join, Feeding
  <2>2. /\ registry' = Append(registry, request[t]) /\ registry \in Seq(ActiveSubscriptions)
        /\ UNCHANGED <<failures, inflight>>
    BY <1>3 DEF Join, TypeOK
  <2>3. \A n \in DOMAIN registry : n \in DOMAIN registry' /\ registry'[n] = registry[n]
    BY <2>1, <2>2, AppendOne
  <2>4. QED  BY <2>2, <2>3 DEF Feeding, DeliveriesRegistered
<1>4. ASSUME NEW d \in inflight, DeliverDetached(d)
      PROVE  DeliveriesRegistered'
  <2>1. /\ registry' = registry /\ failures' \subseteq failures \cup {d}
        /\ inflight' \subseteq inflight
    BY <1>4 DEF DeliverDetached
  <2>2. QED  BY <2>1 DEF Feeding, DeliveriesRegistered
<1>5. CASE Crash
  BY <1>5 DEF Crash, DeliveriesRegistered
<1>6. QED
  BY <1>1, <1>2, <1>3, <1>4, <1>5, StepCases
     DEF Write, Announce, Skip, Announced, DeliverInitial, Quiet

\* The invariant holds of an engine that starts.
LEMMA InitFeeding == Init => Feeding
<1> SUFFICES ASSUME Init PROVE Feeding
  OBVIOUS
<1>1. NoRequest.sink \notin Sinks
  BY SinksAssumption DEF NoRequest
<1>2. DOMAIN << >> = {}
  OBVIOUS
<1>3. Locked
  BY ThreadsAssumption DEF Init, Locked
<1>4. TodoIsRest
  BY <1>2 DEF Init, TodoIsRest
<1>5. RequestsOwnSinks
  BY <1>1 DEF Init, RequestsOwnSinks, OwnsSink
<1>6. SinksRegisteredOnce /\ FanoutIsRest /\ DeliveriesRegistered
  BY <1>2 DEF Init, SinksRegisteredOnce, FanoutIsRest, DeliveriesRegistered
<1>7. QED  BY <1>3, <1>4, <1>5, <1>6 DEF Feeding

\* Every step keeps the invariant.
LEMMA NextFeeding == TypeOK /\ Feeding /\ [Next]_vars => TypeOK' /\ Feeding'
<1> SUFFICES ASSUME TypeOK, Feeding, [Next]_vars PROVE TypeOK' /\ Feeding'
  OBVIOUS
<1>1. TypeOK' /\ Locked' /\ TodoIsRest'
  BY NextType, NextLocked, NextTodo DEF Feeding
<1>2. QED
  BY <1>1, NextRequests, NextRegistered, NextFanout, NextDeliveries DEF Feeding

\* Every reachable state is well typed: requests, registry entries and deltas
\* have the shape the engine gives them, and a write only ever announces deltas
\* of the history.
THEOREM FeedTyped == Spec => []TypeOK
<1>1. Init => TypeOK /\ Feeding
  BY InitType, InitFeeding
<1>2. QED  BY <1>1, NextFeeding, PTL DEF Spec

-----------------------------------------------------------------------------
(* The order of inline deliveries *)

\* While a write announces, no other thread has anything to announce.
LEMMA OneAnnouncer ==
  ASSUME Locked, NEW t \in Threads, pc[t] \in {"announce", "fanout"},
         NEW u \in Threads, u # t
  PROVE  todo[u] = <<>> /\ DOMAIN todo[u] = {}
<1>1. todo[u] = <<>>
  BY DEF Locked
<1>2. QED  BY <1>1

\* A sequence that a call appends to keeps its order, when all it holds comes
\* before what is appended.
LEMMA AppendInOrder ==
  ASSUME NEW s \in Seq(Events), NEW e \in Events,
         \A m, n \in DOMAIN s : m < n /\ s[m].operation # 0 => Before(s[m], s[n]),
         \A m \in DOMAIN s : s[m].operation # 0 => Before(s[m], e)
  PROVE  \A m, n \in DOMAIN Append(s, e) :
           m < n /\ Append(s, e)[m].operation # 0 =>
             Before(Append(s, e)[m], Append(s, e)[n])
<1> DEFINE a == Append(s, e)
<1>1. /\ Len(s) \in Nat /\ DOMAIN s = 1 .. Len(s) /\ DOMAIN a = 1 .. Len(s) + 1
      /\ \A i \in DOMAIN s : a[i] = s[i]
      /\ a[Len(s) + 1] = e
  BY AppendOne
<1> HIDE DEF a
<1> SUFFICES ASSUME NEW m \in DOMAIN a, NEW n \in DOMAIN a, m < n, a[m].operation # 0
             PROVE  Before(a[m], a[n])
  BY DEF a
<1>2. m \in DOMAIN s /\ a[m] = s[m]
  BY <1>1
<1>3. CASE n \in DOMAIN s
  BY <1>1, <1>2, <1>3
<1>4. CASE n = Len(s) + 1
  BY <1>1, <1>2, <1>4
<1>5. QED  BY <1>1, <1>3, <1>4

\* A step that gives inline sinks nothing, and announces or reaches nothing new,
\* leaves what they have had in the past.
LEMMA PastKept ==
  ASSUME TypeOK, InlinePast, history' = history,
         \A s \in Inline : \A m \in DOMAIN received'[s] :
           received'[s][m].operation # 0 =>
             m \in DOMAIN received[s] /\ received'[s][m] = received[s][m],
         \A t \in Threads : DOMAIN todo'[t] # {} =>
           /\ todo'[t] = todo[t]
           /\ pc[t] = "fanout" =>
                /\ pc'[t] = "fanout"
                /\ \A j \in DOMAIN fanout'[t] : \E i \in DOMAIN fanout[t] :
                     fanout'[t][j] = fanout[t][i]
  PROVE  InlinePast'
<1> SUFFICES ASSUME NEW s \in Inline, NEW m \in DOMAIN received'[s],
                    received'[s][m].operation # 0
             PROVE  /\ received'[s][m].snapshot <= Len(history')
                    /\ \A t \in Threads : \A i \in DOMAIN todo'[t] :
                         \/ Before(received[s][m], todo[t][i])'
                         \/ /\ i = 1 /\ pc'[t] = "fanout" /\ received'[s][m] = todo'[t][1]
                            /\ \A j \in DOMAIN fanout'[t] : fanout'[t][j].sink # s
  BY DEF InlinePast
<1>1. m \in DOMAIN received[s] /\ received'[s][m] = received[s][m]
  OBVIOUS
<1>2. received'[s][m].snapshot <= Len(history')
  BY <1>1 DEF InlinePast
<1>3. ASSUME NEW t \in Threads, NEW i \in DOMAIN todo'[t]
      PROVE  \/ Before(received[s][m], todo[t][i])'
             \/ /\ i = 1 /\ pc'[t] = "fanout" /\ received'[s][m] = todo'[t][1]
                /\ \A j \in DOMAIN fanout'[t] : fanout'[t][j].sink # s
  <2>1. /\ todo'[t] = todo[t] /\ i \in DOMAIN todo[t]
        /\ pc[t] = "fanout" =>
             /\ pc'[t] = "fanout"
             /\ \A j \in DOMAIN fanout'[t] : \E k \in DOMAIN fanout[t] :
                  fanout'[t][j] = fanout[t][k]
    BY <1>3
  <2>2. \/ Before(received[s][m], todo[t][i])
        \/ /\ i = 1 /\ pc[t] = "fanout" /\ received[s][m] = todo[t][1]
           /\ \A j \in DOMAIN fanout[t] : fanout[t][j].sink # s
    BY <1>1, <2>1 DEF InlinePast
  <2>3. CASE Before(received[s][m], todo[t][i])
    BY <1>1, <2>1, <2>3 DEF Before
  <2>4. CASE /\ i = 1 /\ pc[t] = "fanout" /\ received[s][m] = todo[t][1]
             /\ \A j \in DOMAIN fanout[t] : fanout[t][j].sink # s
    BY <1>1, <2>1, <2>4
  <2>5. QED  BY <2>2, <2>3, <2>4
<1>4. QED  BY <1>2, <1>3

\* A commit is newer than all that has been delivered.
LEMMA WritePast ==
  ASSUME TypeOK, Locked, InlinePast, NEW t \in Threads, NEW operations \in Batches,
         Write(t, operations)
  PROVE  InlinePast'
<1>1. operations \in Seq(Operations) /\ history' = Append(history, operations)
      /\ received' = received
  BY WritesAssumption DEF Write, feedVars
<1>2. Len(history) \in Nat /\ Len(history') = Len(history) + 1
  BY <1>1, WritePositions
<1>3. ASSUME NEW u \in Threads, NEW i \in DOMAIN todo'[u]
      PROVE  todo'[u][i].snapshot = Len(history) + 1
  BY <1>2, WriteTodo DEF TodoIsRest
<1>4. ASSUME NEW s \in Inline, NEW m \in DOMAIN received'[s],
             received'[s][m].operation # 0
      PROVE  /\ received'[s][m].snapshot <= Len(history')
             /\ \A u \in Threads : \A i \in DOMAIN todo'[u] :
                  Before(received[s][m], todo[u][i])'
  <2>1. received[s][m].snapshot <= Len(history) /\ received[s][m].snapshot \in Nat
    <3>1. m \in DOMAIN received[s] /\ received[s][m].operation # 0
      BY <1>1, <1>4
    <3>2. received[s] \in Seq(Events)
      BY SinksAssumption DEF TypeOK
    <3>3. received[s][m] \in Events
      BY <3>1, <3>2, LenProperties
    <3>4. QED  BY <3>1, <3>3 DEF InlinePast, Events
  <2>2. received[s][m].snapshot < Len(history) + 1
        /\ received[s][m].snapshot <= Len(history) + 1
    BY <1>2, <2>1
  <2>3. QED  BY <1>1, <1>2, <1>3, <2>2 DEF Before
<1>5. QED  BY <1>4 DEF InlinePast

\* What is left to announce after a delta comes after it.
LEMMA AnnouncedPast ==
  ASSUME TypeOK, Feeding, InlinePast, NEW t \in Threads, Announced(t)
  PROVE  InlinePast'
<1>1. /\ pc[t] = "fanout" /\ todo' = [todo EXCEPT ![t] = Tail(@)]
      /\ history' = history /\ received' = received
  BY DEF Announced, storeVars, feedVars
<1>2. todo[t] # <<>> /\ todo[t] \in Seq(Positions)
  BY <1>1 DEF Feeding, Locked, TypeOK
<1>3. todo'[t] = Tail(todo[t])
  BY <1>1 DEF TypeOK
<1>4. \A i \in DOMAIN todo'[t] :
        i + 1 \in DOMAIN todo[t] /\ i + 1 # 1 /\ todo'[t][i] = todo[t][i + 1]
  BY <1>2, <1>3, TailProperties
<1>5. \A u \in Threads \ {t} : DOMAIN todo'[u] = {}
  BY <1>1, OneAnnouncer DEF Feeding, TypeOK
<1>6. ASSUME NEW s \in Inline, NEW m \in DOMAIN received'[s],
             received'[s][m].operation # 0, NEW u \in Threads, NEW i \in DOMAIN todo'[u]
      PROVE  Before(received[s][m], todo[u][i])'
  <2>1. u = t
    BY <1>5
  <2>2. i + 1 \in DOMAIN todo[t] /\ i + 1 # 1 /\ todo'[t][i] = todo[t][i + 1]
    BY <1>4, <2>1
  <2>3. Before(received[s][m], todo[t][i + 1])
    BY <1>1, <1>6, <2>2 DEF InlinePast
  <2>4. QED  BY <1>1, <2>1, <2>2, <2>3 DEF Before
<1>7. ASSUME NEW s \in Inline, NEW m \in DOMAIN received'[s], received'[s][m].operation # 0
      PROVE  received'[s][m].snapshot <= Len(history')
  BY <1>1, <1>7 DEF InlinePast
<1>8. QED  BY <1>6, <1>7 DEF InlinePast

\* A call that has handed its delta over has passed the sink: it is in no other
\* entry, and what is left to announce comes later.
LEMMA CallPast ==
  ASSUME TypeOK, Feeding, InlinePast, NEW t \in Threads, Call(t)
  PROVE  InlinePast'
<1> USE DEF storeVars
<1> DEFINE old == fanout[t]
           new == Tail(old)
           sink == Head(old).sink
           delta == Head(todo[t])
<1>1. /\ pc[t] = "fanout" /\ old # <<>> /\ sink \in Inline
      /\ fanout' = [fanout EXCEPT ![t] = new]
      /\ UNCHANGED <<history, pc, todo>>
      /\ \/ received' = received
         \/ received' = [received EXCEPT ![sink] = Append(@, delta)]
  BY DEF Call, Onward
<1>2. /\ 1 \in DOMAIN old /\ old[1].sink = sink /\ sink \in Sinks
      /\ 1 \in DOMAIN todo[t] /\ delta = todo[t][1] /\ delta \in Events
  BY <1>1, EntryReached
<1>3. old \in Seq(ActiveSubscriptions)
  BY DEF TypeOK
<1>4. /\ Len(old) \in Nat
      /\ DOMAIN new = 1 .. Len(old) - 1 /\ DOMAIN old = 1 .. Len(old)
      /\ \A i \in 1 .. Len(old) - 1 : new[i] = old[i + 1]
  BY <1>1, <1>3, TailProperties
<1>5. fanout'[t] = new /\ \A u \in Threads \ {t} : fanout'[u] = fanout[u]
  BY <1>1 DEF TypeOK
<1>6. \A i, j \in DOMAIN old : old[i].sink = old[j].sink => i = j
  BY <1>1 DEF Feeding, FanoutIsRest
<1>7. /\ \A i \in DOMAIN todo[t] : todo[t][i].snapshot = Len(history)
      /\ \A i, j \in DOMAIN todo[t] :
           i < j => todo[t][i].operation < todo[t][j].operation
  BY DEF Feeding, TodoIsRest
<1>8. DOMAIN todo[t] \subseteq Nat \ {0} /\ Len(history) \in Nat
  BY LenProperties DEF TypeOK
<1>9. \A u \in Threads \ {t} : DOMAIN todo[u] = {}
  BY <1>1, OneAnnouncer DEF Feeding
<1> HIDE DEF old, new, sink, delta
<1>10. \A j \in DOMAIN new : /\ \E i \in DOMAIN old : new[j] = old[i]
                              /\ new[j].sink # sink
  <2> TAKE j \in DOMAIN new
  <2>1. j + 1 \in DOMAIN old /\ j + 1 # 1 /\ new[j] = old[j + 1]
    BY <1>4
  <2>2. QED  BY <1>2, <1>6, <2>1
<1> DEFINE Past(s, e) ==
             /\ e.snapshot <= Len(history)
             /\ \A u \in Threads : \A i \in DOMAIN todo[u] :
                  \/ Before(e, todo[u][i])
                  \/ /\ i = 1 /\ pc[u] = "fanout" /\ e = todo[u][1]
                     /\ \A j \in DOMAIN fanout'[u] : fanout'[u][j].sink # s
<1>11. ASSUME NEW s \in Inline, NEW m \in DOMAIN received[s], received[s][m].operation # 0
       PROVE  Past(s, received[s][m])
  <2>1. ASSUME NEW i \in DOMAIN todo[t]
        PROVE  \/ Before(received[s][m], todo[t][i])
               \/ /\ i = 1 /\ pc[t] = "fanout" /\ received[s][m] = todo[t][1]
                  /\ \A j \in DOMAIN fanout'[t] : fanout'[t][j].sink # s
    <3>1. \/ Before(received[s][m], todo[t][i])
          \/ /\ i = 1 /\ pc[t] = "fanout" /\ received[s][m] = todo[t][1]
             /\ \A j \in DOMAIN old : old[j].sink # s
      BY <1>11 DEF InlinePast, old
    <3>2. QED  BY <1>5, <1>10, <3>1
  <2>2. received[s][m].snapshot <= Len(history)
    BY <1>11 DEF InlinePast
  <2>3. QED  BY <1>9, <2>1, <2>2
<1>12. Past(sink, delta)
  <2>1. delta.snapshot <= Len(history)
    BY <1>2, <1>7, <1>8
  <2>2. ASSUME NEW i \in DOMAIN todo[t], i # 1
        PROVE  Before(delta, todo[t][i])
    <3>1. 1 < i
      BY <1>8, <2>2
    <3>2. QED  BY <1>2, <1>7, <3>1 DEF Before
  <2>3. QED  BY <1>1, <1>2, <1>5, <1>9, <1>10, <2>1, <2>2
<1>13. ASSUME NEW s \in Inline, NEW m \in DOMAIN received'[s], received'[s][m].operation # 0
       PROVE  Past(s, received'[s][m])
  <2> HIDE DEF Past
  <2>1. CASE received'[s] = received[s]
    BY <1>11, <1>13, <2>1
  <2>2. CASE received'[s] # received[s]
    <3>1. s = sink /\ received'[s] = Append(received[s], delta)
      BY <1>1, <2>2, SinksAssumption DEF TypeOK
    <3>2. received[s] \in Seq(Events)
      BY SinksAssumption DEF TypeOK
    <3>3. \/ m \in DOMAIN received[s] /\ received'[s][m] = received[s][m]
          \/ received'[s][m] = delta
      BY <1>2, <1>13, <3>1, <3>2, AppendOne
    <3>4. QED  BY <1>11, <1>12, <1>13, <3>1, <3>3
  <2>3. QED  BY <2>1, <2>2
<1>14. QED  BY <1>1, <1>13 DEF InlinePast, Before

\* Every step leaves what inline sinks have had in the past.
LEMMA NextPast ==
  ASSUME TypeOK, Feeding, InlinePast, [Next]_vars
  PROVE  InlinePast'
<1> USE DEF storeVars, registrationVars, feedVars, Goto
<1>1. ASSUME NEW t \in Threads, Skip(t) \/ Spawn(t)
      PROVE  InlinePast'
  <2>1. /\ fanout[t] # <<>> /\ fanout[t] \in Seq(ActiveSubscriptions)
        /\ fanout'[t] = Tail(fanout[t])
        /\ \A u \in Threads \ {t} : fanout'[u] = fanout[u]
        /\ UNCHANGED <<history, received, todo, pc>>
    BY <1>1 DEF Skip, Spawn, TypeOK
  <2>2. \A j \in DOMAIN fanout'[t] : \E i \in DOMAIN fanout[t] : fanout'[t][j] = fanout[t][i]
    <3> TAKE j \in DOMAIN fanout'[t]
    <3>1. j + 1 \in DOMAIN fanout[t] /\ fanout'[t][j] = fanout[t][j + 1]
      BY <2>1, TailProperties
    <3>2. QED  BY <3>1
  <2>3. \A u \in Threads :
          /\ todo'[u] = todo[u] /\ pc'[u] = pc[u]
          /\ \A j \in DOMAIN fanout'[u] : \E i \in DOMAIN fanout[u] : fanout'[u][j] = fanout[u][i]
    BY <2>1, <2>2
  <2>4. QED  BY <2>1, <2>3, PastKept
<1>2. ASSUME NEW t \in Threads, Announce(t)
      PROVE  InlinePast'
  <2>1. /\ pc[t] # "fanout" /\ \A u \in Threads \ {t} : fanout'[u] = fanout[u] /\ pc'[u] = pc[u]
        /\ UNCHANGED <<history, received, todo>>
    BY <1>2 DEF Announce, TypeOK
  <2>2. QED  BY <2>1, PastKept
<1>3. ASSUME NEW t \in Threads, DeliverInitial(t)
      PROVE  InlinePast'
  <2> DEFINE s == request[t].sink
             event == InitialSnapshot(request[t].snapshot)
  <2>1. request[t] \in ActiveSubscriptions
    BY <1>3, RequestType DEF DeliverInitial, Feeding
  <2>2. s \in Sinks /\ event \in Events /\ event.operation = 0
    BY <2>1 DEF ActiveSubscriptions, InitialSnapshot, Events
  <2>3. /\ received'[s] = Append(received[s], event) /\ received[s] \in Seq(Events)
        /\ \A r \in Sinks \ {s} : received'[r] = received[r]
        /\ UNCHANGED <<history, todo, fanout>>
        /\ \A u \in Threads : pc[u] = "fanout" => pc'[u] = "fanout"
    BY <1>3, <2>2 DEF DeliverInitial, TypeOK
  <2> HIDE DEF s, event
  <2>4. \A m \in DOMAIN received'[s] : received'[s][m].operation # 0 =>
          m \in DOMAIN received[s] /\ received'[s][m] = received[s][m]
    BY <2>2, <2>3, AppendOne
  <2>5. \A r \in Inline : \A m \in DOMAIN received'[r] : received'[r][m].operation # 0 =>
          m \in DOMAIN received[r] /\ received'[r][m] = received[r][m]
    BY <2>3, <2>4, SinksAssumption
  <2>6. QED  BY <2>3, <2>5, PastKept
<1>4. ASSUME NEW d \in inflight, DeliverDetached(d)
      PROVE  InlinePast'
  <2>1. d.to.sink \notin Inline
    BY DEF Feeding, DeliveriesRegistered
  <2>2. /\ \A s \in Inline : received'[s] = received[s]
        /\ UNCHANGED <<history, todo, fanout, pc>>
    BY <1>4, <2>1, SinksAssumption DEF DeliverDetached, TypeOK
  <2>3. QED  BY <2>2, PastKept
<1>5. ASSUME NEW t \in Threads, Join(t)
      PROVE  InlinePast'
  <2>1. /\ UNCHANGED <<history, received, todo, fanout>>
        /\ \A u \in Threads : pc[u] = "fanout" => pc'[u] = "fanout"
    BY <1>5 DEF Join, TypeOK
  <2>2. QED  BY <2>1, PastKept
<1>6. CASE Quiet
  BY <1>6, PastKept DEF Quiet
<1>7. CASE Crash
  <2>1. \A s \in Inline : DOMAIN received'[s] = {}
    BY <1>7, SinksAssumption DEF Crash
  <2>2. QED  BY <2>1 DEF InlinePast
<1>8. QED
  BY <1>1, <1>2, <1>3, <1>4, <1>5, <1>6, <1>7, WritePast, CallPast, AnnouncedPast,
     StepCases DEF Feeding

\* The order is kept by every step: what a call hands over comes after all the
\* sink has had, since the announcement has not reached it yet.
LEMMA NextInOrder ==
  ASSUME TypeOK, Feeding, InlinePast, InlineInOrder, [Next]_vars
  PROVE  InlineInOrder'
<1> USE DEF storeVars, registrationVars, feedVars
<1>1. CASE \A s \in Inline : received'[s] = received[s]
  BY <1>1 DEF InlineInOrder, Before
<1> DEFINE Gets(s, e) ==
             /\ received'[s] = Append(received[s], e)
             /\ \A r \in Inline \ {s} : received'[r] = received[r]
             /\ \A m \in DOMAIN received[s] :
                  received[s][m].operation # 0 => Before(received[s][m], e)
<1>2. ASSUME NEW s \in Inline, NEW e \in Events, Gets(s, e)
      PROVE  InlineInOrder'
  <2>1. received[s] \in Seq(Events)
    BY SinksAssumption DEF TypeOK
  <2>2. \A m, n \in DOMAIN received[s] :
          m < n /\ received[s][m].operation # 0 => Before(received[s][m], received[s][n])
    BY DEF InlineInOrder
  <2>3. \A m, n \in DOMAIN received'[s] :
          m < n /\ received'[s][m].operation # 0 => Before(received'[s][m], received'[s][n])
    BY <1>2, <2>1, <2>2, AppendInOrder
  <2>4. \A r \in Inline \ {s} : received'[r] = received[r]
    BY <1>2
  <2>5. QED  BY <2>3, <2>4 DEF InlineInOrder, Before
<1>3. ASSUME NEW t \in Threads, Call(t)
      PROVE  InlineInOrder'
  <2> DEFINE s == Head(fanout[t]).sink
             delta == Head(todo[t])
  <2>1. /\ pc[t] = "fanout" /\ fanout[t] # <<>> /\ s \in Inline
        /\ \/ received' = received
           \/ received' = [received EXCEPT ![s] = Append(@, delta)]
    BY <1>3 DEF Call
  <2>2. CASE received' = received
    BY <1>1, <2>2
  <2>3. CASE received' = [received EXCEPT ![s] = Append(@, delta)]
    <3>1. /\ 1 \in DOMAIN fanout[t] /\ fanout[t][1].sink = s
          /\ 1 \in DOMAIN todo[t] /\ delta = todo[t][1] /\ delta \in Events
      BY <2>1, EntryReached
    <3> HIDE DEF s, delta
    <3>2. \A m \in DOMAIN received[s] :
            received[s][m].operation # 0 => Before(received[s][m], delta)
      BY <2>1, <3>1 DEF InlinePast
    <3>3. /\ received'[s] = Append(received[s], delta)
          /\ \A r \in Inline \ {s} : received'[r] = received[r]
      BY <2>1, <2>3, SinksAssumption DEF TypeOK
    <3>4. PICK r \in Inline, e \in Events : r = s /\ e = delta
      BY <2>1, <3>1
    <3>5. Gets(r, e)
      BY <3>2, <3>3, <3>4
    <3> HIDE DEF Gets
    <3>6. QED  BY <1>2, <3>4, <3>5
  <2>4. QED  BY <2>1, <2>2, <2>3
<1>4. ASSUME NEW d \in inflight, DeliverDetached(d)
      PROVE  InlineInOrder'
  <2>1. d.to.sink \notin Inline
    BY DEF Feeding, DeliveriesRegistered
  <2>2. QED  BY <1>1, <1>4, <2>1, SinksAssumption DEF DeliverDetached, TypeOK
<1>5. ASSUME NEW t \in Threads, DeliverInitial(t)
      PROVE  InlineInOrder'
  <2> DEFINE s == request[t].sink
             event == InitialSnapshot(request[t].snapshot)
  <2>1. request[t] \in ActiveSubscriptions /\ pc[t] = "initial"
    BY <1>5, RequestType DEF DeliverInitial, Feeding
  <2>2. s \in Sinks /\ event \in Events
    BY <2>1 DEF ActiveSubscriptions, InitialSnapshot, Events
  <2>3. received[s] = <<>>
    BY <2>1, <2>2 DEF Feeding, RequestsOwnSinks, OwnsSink
  <2>4. /\ received'[s] = Append(received[s], event)
        /\ \A r \in Sinks \ {s} : received'[r] = received[r]
    BY <1>5, <2>2 DEF DeliverInitial, TypeOK
  <2> HIDE DEF s, event
  <2>5. DOMAIN received[s] = {}
    BY <2>3
  <2>6. CASE s \in Inline
    <3>1. PICK r \in Inline, e \in Events : r = s /\ e = event
      BY <2>2, <2>6
    <3>2. Gets(r, e)
      BY <2>4, <2>5, <3>1, SinksAssumption
    <3> HIDE DEF Gets
    <3>3. QED  BY <1>2, <3>1, <3>2
  <2>7. CASE s \notin Inline
    BY <1>1, <2>4, <2>7, SinksAssumption
  <2>8. QED  BY <2>6, <2>7
<1>6. CASE Crash
  <2>1. \A s \in Inline : received'[s] = <<>> /\ DOMAIN received'[s] = {}
    BY <1>6, SinksAssumption DEF Crash
  <2>2. QED  BY <2>1 DEF InlineInOrder
<1>7. QED
  BY <1>1, <1>3, <1>4, <1>5, <1>6, StepCases
     DEF Write, Announce, Skip, Spawn, Announced, Join, Quiet

\* An inline sink gets deltas in commit order and each once, whichever threads
\* write, fail and subscribe, and however many sinks there are.
THEOREM InlineOrdered == Spec => []InlineInOrder
<1>1. Init => InlinePast /\ InlineInOrder
  <2> SUFFICES ASSUME Init PROVE InlinePast /\ InlineInOrder
    OBVIOUS
  <2>1. \A s \in Inline : DOMAIN received[s] = {}
    BY SinksAssumption DEF Init
  <2>2. QED  BY <2>1 DEF InlinePast, InlineInOrder
<1>2. /\ TypeOK /\ Feeding /\ InlinePast /\ InlineInOrder /\ [Next]_vars
      => TypeOK' /\ Feeding' /\ InlinePast' /\ InlineInOrder'
  BY NextFeeding, NextPast, NextInOrder
<1>3. QED  BY <1>1, <1>2, InitType, InitFeeding, PTL DEF Spec

-----------------------------------------------------------------------------
(* No gap, and nobody passed over *)

\* What becomes given in a step is what the announcement has just reached.
LEMMA NewlyGiven ==
  ASSUME TypeOK, Feeding, [Next]_vars, history' = history,
         NEW n \in DOMAIN registry, NEW S, S = registry[n],
         NEW p \in Given(S)', p \notin Given(S)
  PROVE  \E t \in Threads : pc[t] = "fanout" /\ p = Head(todo[t])
<1> USE DEF storeVars, registrationVars, feedVars
<1>1. S \in ActiveSubscriptions /\ S.sink \in Sinks
  BY RegistryShape
<1>2. p \in Positions /\ p \in Events /\ p.operation # 0
  <2>1. p \in Positions'
    BY DEF Given
  <2>2. p \in Positions
    BY <2>1, WantedKept
  <2>3. QED  BY <2>2, PositionsAreEvents
<1>3. /\ ~\E m \in DOMAIN received[S.sink] : received[S.sink][m] = p
      /\ [to |-> S, delta |-> p] \notin failures \cup inflight
  BY <1>2 DEF Given
<1>4. \/ \E m \in DOMAIN received'[S.sink] : received'[S.sink][m] = p
      \/ [to |-> S, delta |-> p] \in failures' \cup inflight'
  BY DEF Given
<1>5. received[S.sink] \in Seq(Events)
  BY <1>1 DEF TypeOK
<1>6. ASSUME NEW e \in Events, NEW d, failures' \cup inflight' \subseteq failures \cup inflight \cup {d},
             \/ received'[S.sink] = received[S.sink]
             \/ received'[S.sink] = Append(received[S.sink], e)
      PROVE  \/ p = e /\ received'[S.sink] = Append(received[S.sink], e)
             \/ d = [to |-> S, delta |-> p]
  <2>1. ASSUME NEW m \in DOMAIN received'[S.sink], received'[S.sink][m] = p
        PROVE  p = e /\ received'[S.sink] = Append(received[S.sink], e)
    <3>1. received'[S.sink] = Append(received[S.sink], e)
      BY <1>3, <1>6, <2>1
    <3>2. \/ m \in DOMAIN received[S.sink] /\ received'[S.sink][m] = received[S.sink][m]
          \/ received'[S.sink][m] = e
      BY <1>5, <2>1, <3>1, AppendOne
    <3>3. QED  BY <1>3, <2>1, <3>1, <3>2
  <2>2. CASE [to |-> S, delta |-> p] \in failures' \cup inflight'
    BY <1>3, <1>6, <2>2
  <2>3. QED  BY <1>4, <2>1, <2>2
<1>7. CASE UNCHANGED <<failures, inflight, received>>
  BY <1>3, <1>4, <1>7
<1>8. ASSUME NEW t \in Threads, Call(t) \/ Spawn(t)
      PROVE  pc[t] = "fanout" /\ p = Head(todo[t])
  <2>1. PICK entry, delta : entry = Head(fanout[t]) /\ delta = Head(todo[t])
    OBVIOUS
  <2>2. PICK d : d = [to |-> entry, delta |-> delta]
    OBVIOUS
  <2>3. /\ pc[t] = "fanout" /\ fanout[t] # <<>>
        /\ failures' \cup inflight' \subseteq failures \cup inflight \cup {d}
        /\ \/ received' = received
           \/ received' = [received EXCEPT ![entry.sink] = Append(@, delta)]
    BY <1>8, <2>1, <2>2 DEF Call, Spawn
  <2>4. delta \in Events
    BY <2>1, <2>3, EntryReached
  <2>5. \/ received'[S.sink] = received[S.sink]
        \/ received'[S.sink] = Append(received[S.sink], delta)
    BY <1>1, <2>3 DEF TypeOK
  <2>6. p = delta \/ d = [to |-> S, delta |-> p]
    BY <1>6, <2>3, <2>4, <2>5
  <2>7. QED  BY <2>1, <2>2, <2>3, <2>6
<1>9. ASSUME NEW d \in inflight, DeliverDetached(d)
      PROVE  FALSE
  <2>1. d \in Deliveries /\ d.delta \in Events /\ d = [to |-> d.to, delta |-> d.delta]
    BY DEF TypeOK, Deliveries
  <2>2. /\ failures' \cup inflight' \subseteq failures \cup inflight
        /\ \/ received' = received
           \/ received' = [received EXCEPT ![d.to.sink] = Append(@, d.delta)]
    BY <1>9 DEF DeliverDetached
  <2>3. PICK m \in DOMAIN received'[S.sink] : received'[S.sink][m] = p
    BY <1>3, <1>4, <2>2
  <2>4. d.to.sink = S.sink /\ received'[S.sink] = Append(received[S.sink], d.delta)
    <3>1. received'[S.sink] # received[S.sink]
      BY <1>3, <2>3
    <3>2. received' = [received EXCEPT ![d.to.sink] = Append(@, d.delta)]
      BY <2>2, <3>1
    <3>3. received \in [Sinks -> Seq(Events)] /\ S.sink \in Sinks
      BY <1>1 DEF TypeOK
    <3>4. QED  BY <3>1, <3>2, <3>3
  <2>5. p = d.delta
    BY <1>3, <1>5, <2>1, <2>3, <2>4, AppendOne
  <2>6. d.to = S
    BY <2>4 DEF Feeding, DeliveriesRegistered, SinksRegisteredOnce
  <2>7. QED  BY <1>3, <2>1, <2>5, <2>6
<1>10. ASSUME NEW t \in Threads, DeliverInitial(t)
       PROVE  FALSE
  <2>1. PICK sink, e : sink = request[t].sink /\ e = InitialSnapshot(request[t].snapshot)
    OBVIOUS
  <2>2. request[t] \in ActiveSubscriptions
    BY <1>10, RequestType DEF DeliverInitial, Feeding
  <2>3. sink \in Sinks /\ e \in Events /\ e.operation = 0
    BY <2>1, <2>2 DEF ActiveSubscriptions, InitialSnapshot, Events
  <2>4. /\ UNCHANGED <<failures, inflight>>
        /\ received' = [received EXCEPT ![sink] = Append(@, e)]
    BY <1>10, <2>1 DEF DeliverInitial
  <2>5. PICK m \in DOMAIN received'[S.sink] : received'[S.sink][m] = p
    BY <1>3, <1>4, <2>4
  <2>6. received'[S.sink] = Append(received[S.sink], e)
    BY <1>1, <1>3, <2>4, <2>5 DEF TypeOK
  <2>7. p = e
    BY <1>3, <1>5, <2>3, <2>5, <2>6, AppendOne
  <2>8. QED  BY <1>2, <2>3, <2>7
<1>11. CASE Crash
  <2>1. /\ DOMAIN received'[S.sink] = {} /\ failures' \cup inflight' = {}
    BY <1>1, <1>11 DEF Crash
  <2>2. QED  BY <1>4, <2>1
<1>12. QED
  BY <1>7, <1>8, <1>9, <1>10, <1>11, StepCases
     DEF Write, Announce, Skip, Announced, Join, Quiet

\* A commit's own deltas are all still to be announced, and every other delta is
\* as much given and asked for as before.
LEMMA WriteNoGap ==
  ASSUME TypeOK, Feeding, NoGapOnceFed, NEW t \in Threads, NEW operations \in Batches,
         Write(t, operations), NEW n \in DOMAIN registry, NEW S, S = registry[n],
         NEW p \in Given(S)', NEW q \in Wanted(S)', Before(p, q)
  PROVE  q \in Given(S)' \/ \E u \in Threads : \E i \in DOMAIN todo'[u] : todo'[u][i] = q
<1>1. operations \in Seq(Operations) /\ history' = Append(history, operations)
      /\ UNCHANGED <<failures, inflight, received>>
  BY WritesAssumption DEF Write, feedVars
<1>2. /\ Len(history) \in Nat
      /\ Positions \subseteq Positions'
      /\ \A r \in Positions : /\ r.snapshot \in 1 .. Len(history)
                              /\ history'[r.snapshot] = history[r.snapshot]
      /\ \A r \in Positions' : r \notin Positions =>
           \E i \in DOMAIN operations :
             r = [snapshot |-> Len(history) + 1, operation |-> i]
  BY <1>1, WritePositions
<1>3. p \in Positions' /\ q \in Positions'
  BY DEF Given, Wanted
<1>4. CASE q \notin Positions
  <2>1. PICK i \in DOMAIN operations : q = [snapshot |-> Len(history) + 1, operation |-> i]
    BY <1>2, <1>3, <1>4
  <2>2. i \in DOMAIN todo'[t] /\ todo'[t][i] = q
    BY <2>1 DEF Write, NextSnapshot, TypeOK
  <2>3. QED  BY <2>2
<1>5. CASE q \in Positions
  <2>1. p \in Positions
    <3>1. ASSUME p \notin Positions PROVE FALSE
      <4>1. p.snapshot = Len(history) + 1
        BY <1>2, <1>3, <3>1
      <4>2. q.snapshot \in 1 .. Len(history)
        BY <1>2, <1>5
      <4>3. QED  BY <1>2, <4>1, <4>2 DEF Before
    <3>2. QED  BY <3>1
  <2>2. p \in Given(S)
    BY <1>1, <2>1 DEF Given
  <2>3. q \in Wanted(S)
    <3>1. history'[q.snapshot] = history[q.snapshot]
      BY <1>2, <1>5
    <3>2. QED  BY <1>5, <3>1 DEF Wanted, Accepted
  <2>4. \A u \in Threads : todo[u] = <<>> /\ DOMAIN todo[u] = {}
    <3>1. \A u \in Threads : todo[u] = <<>>
      BY NothingAnnounced DEF Write, Feeding
    <3>2. QED  BY <3>1
  <2>5. q \in Given(S)
    BY <2>2, <2>3, <2>4 DEF NoGapOnceFed
  <2>6. QED  BY <1>1, <1>3, <2>5 DEF Given
<1>6. QED  BY <1>4, <1>5

\* A delta that leaves the list of those to announce has been given to everyone
\* registered who asks for it.
LEMMA LeftIsGiven ==
  ASSUME TypeOK, Feeding, NEW t \in Threads, Announced(t),
         NEW n \in DOMAIN registry, Head(todo[t]) \in Wanted(registry[n])
  PROVE  Head(todo[t]) \in Given(registry[n])
<1>1. pc[t] = "fanout" /\ DOMAIN fanout[t] = {}
  BY DEF Announced
<1>2. QED  BY <1>1 DEF Feeding, FanoutIsRest

\* What was still to be announced still is, or has just been announced.
LEMMA StillToAnnounce ==
  ASSUME TypeOK, Feeding, [Next]_vars, ~Crash, NEW t \in Threads,
         NEW i \in DOMAIN todo[t]
  PROVE  \/ \E j \in DOMAIN todo'[t] : todo'[t][j] = todo[t][i]
         \/ Announced(t) /\ todo[t][i] = Head(todo[t])
<1> USE DEF storeVars, registrationVars, feedVars
<1>1. CASE todo'[t] = todo[t]
  BY <1>1
<1>2. ASSUME NEW u \in Threads, NEW operations \in Batches, Write(u, operations)
      PROVE  FALSE
  <2>1. todo[t] = <<>>
    BY <1>2, NothingAnnounced DEF Write, Feeding
  <2>2. QED  BY <2>1
<1>3. ASSUME NEW u \in Threads, Announced(u), u # t
      PROVE  todo'[t] = todo[t]
  BY <1>3 DEF Announced, TypeOK
<1>4. CASE Announced(t)
  <2>1. todo[t] # <<>> /\ todo[t] \in Seq(Positions)
    BY <1>4 DEF Announced, Feeding, Locked, TypeOK
  <2>2. todo'[t] = Tail(todo[t])
    BY <1>4 DEF Announced, TypeOK
  <2>3. CASE i = 1
    BY <1>4, <2>1, <2>3, TailProperties
  <2>4. CASE i # 1
    <3>1. i - 1 \in DOMAIN todo'[t] /\ todo'[t][i - 1] = todo[t][i]
      BY <2>1, <2>2, <2>4, TailProperties
    <3>2. QED  BY <3>1
  <2>5. QED  BY <2>3, <2>4
<1>5. QED
  BY <1>1, <1>2, <1>3, <1>4, StepCases
     DEF Announce, Skip, Call, Spawn, DeliverInitial, Join, DeliverDetached, Quiet

\* A subscription that joins has been given no delta yet.
LEMMA JoinsUnfed ==
  ASSUME TypeOK, Feeding, NEW t \in Threads, Join(t), NEW S, S = request[t]
  PROVE  Given(S)' = {}
<1> SUFFICES ASSUME NEW p \in Given(S)' PROVE FALSE
  OBVIOUS
<1>1. UNCHANGED <<history, failures, inflight, received>>
  BY DEF Join, storeVars, feedVars
<1>2. /\ p \in Positions'
      /\ \/ \E m \in DOMAIN received[S.sink] : received[S.sink][m] = p
         \/ [to |-> S, delta |-> p] \in failures \cup inflight
  BY <1>1 DEF Given
<1>3. p.operation # 0
  BY <1>1, <1>2, WantedKept, PositionsAreEvents
<1>4. S.sink \in Sinks
  BY RequestType DEF Join, Feeding, ActiveSubscriptions
<1>5. ~\E m \in DOMAIN received[S.sink] : received[S.sink][m] = p
  BY <1>3, <1>4 DEF Feeding, RequestsOwnSinks, OwnsSink
<1>6. \A k \in DOMAIN registry : registry[k].sink # S.sink
  BY <1>4 DEF Feeding, RequestsOwnSinks, OwnsSink
<1>7. [to |-> S, delta |-> p] \notin failures \cup inflight
  <2>1. ASSUME NEW d, d = [to |-> S, delta |-> p], d \in failures \cup inflight
        PROVE  FALSE
    <3>1. d.to = S
      BY <2>1
    <3>2. PICK k \in DOMAIN registry : d.to = registry[k]
      BY <2>1 DEF Feeding, DeliveriesRegistered
    <3>3. QED  BY <1>6, <3>1, <3>2
  <2>2. QED  BY <2>1
<1>8. QED  BY <1>2, <1>5, <1>7

\* No step opens a gap.
LEMMA NextNoGap ==
  ASSUME TypeOK, Feeding, NoGapOnceFed, [Next]_vars
  PROVE  NoGapOnceFed'
<1> USE DEF storeVars, registrationVars, feedVars
<1> DEFINE Pending(q) == \E t \in Threads : \E i \in DOMAIN todo[t] : todo[t][i] = q
<1>1. CASE Crash
  <2>1. DOMAIN registry' = {}
    BY <1>1 DEF Crash
  <2>2. QED  BY <2>1 DEF NoGapOnceFed
<1>2. SUFFICES ASSUME ~Crash PROVE NoGapOnceFed'
  BY <1>1
<1>3. ASSUME NEW n \in DOMAIN registry, NEW S, S = registry[n],
             NEW p \in Given(S)', NEW q \in Wanted(S)', Before(p, q)
      PROVE  q \in Given(S)' \/ Pending(q)'
  <2>1. ASSUME NEW t \in Threads, NEW operations \in Batches, Write(t, operations)
        PROVE  q \in Given(S)' \/ Pending(q)'
    BY <1>3, <2>1, WriteNoGap
  <2>2. CASE history' = history
    <3>1. q \in Wanted(S) /\ q \in Positions
      BY <2>2, WantedKept DEF Wanted
    <3>2. S \in ActiveSubscriptions
      BY <1>3, RegistryShape
    <3>3. q \in Given(S) \/ Pending(q)
      <4>1. CASE p \in Given(S)
        BY <1>3, <3>1, <4>1 DEF NoGapOnceFed
      <4>2. CASE p \notin Given(S)
        <5>1. PICK t \in Threads : pc[t] = "fanout" /\ p = Head(todo[t])
          BY <1>3, <2>2, <4>2, NewlyGiven
        <5>2. todo[t] # <<>> /\ todo[t] \in Seq(Positions)
          BY <5>1 DEF Feeding, Locked, TypeOK
        <5>3. p = todo[t][1]
          BY <5>1, <5>2, TailProperties
        <5>4. \E i \in DOMAIN todo[t] : todo[t][i] = q
          BY <1>3, <3>1, <5>2, <5>3 DEF Feeding, TodoIsRest
        <5>5. QED  BY <5>4
      <4>3. QED  BY <4>1, <4>2
    <3>4. CASE q \in Given(S)
      BY <1>2, <3>2, <3>4, GivenKept
    <3>5. CASE Pending(q)
      <4>0. PICK t \in Threads : \E i \in DOMAIN todo[t] : todo[t][i] = q
        BY <3>5
      <4>1. PICK i \in DOMAIN todo[t] : todo[t][i] = q
        BY <4>0
      <4>2. CASE \E j \in DOMAIN todo'[t] : todo'[t][j] = q
        BY <4>2
      <4>3. CASE Announced(t) /\ q = Head(todo[t])
        <5>1. q \in Given(S)
          BY <1>3, <3>1, <4>3, LeftIsGiven
        <5>2. QED  BY <1>2, <3>2, <5>1, GivenKept
      <4>4. QED  BY <1>2, <4>1, <4>2, <4>3, StillToAnnounce
    <3>6. QED  BY <3>3, <3>4, <3>5
  <2>3. QED
    BY <1>2, <2>1, <2>2, StepCases
       DEF Announce, Skip, Call, Spawn, Announced, DeliverInitial, Join,
           DeliverDetached, Quiet
<1> HIDE DEF Pending
<1>4. SUFFICES ASSUME NEW n \in DOMAIN registry', NEW S, S = registry'[n],
                      NEW p \in Given(S)', NEW q \in Wanted(S)', Before(p, q)
               PROVE  q \in Given(S)' \/ Pending(q)'
  <2>1. ASSUME NEW n \in DOMAIN registry', NEW p, p \in Given(registry[n])',
               NEW q, q \in Wanted(registry[n])', Before(p, q)
        PROVE  q \in Given(registry[n])' \/ Pending(q)'
    <3>1. PICK S : S = registry'[n]
      OBVIOUS
    <3>2. Given(registry[n])' = Given(S)' /\ Wanted(registry[n])' = Wanted(S)'
      BY <3>1 DEF Given, Wanted, Accepted
    <3>3. QED  BY <1>4, <2>1, <3>1, <3>2
  <2>2. QED  BY <2>1 DEF NoGapOnceFed, Pending, Before
<1>5. CASE registry' = registry
  BY <1>3, <1>4, <1>5
<1>6. ASSUME NEW t \in Threads, Join(t)
      PROVE  q \in Given(S)' \/ Pending(q)'
  <2>1. request[t] \in ActiveSubscriptions
    BY <1>6, RequestType DEF Join, Feeding
  <2>2. registry' = Append(registry, request[t]) /\ registry \in Seq(ActiveSubscriptions)
    BY <1>6 DEF Join, TypeOK
  <2>3. \/ n \in DOMAIN registry /\ registry'[n] = registry[n]
        \/ S = request[t]
    BY <1>4, <2>1, <2>2, AppendOne
  <2>4. CASE n \in DOMAIN registry /\ registry'[n] = registry[n]
    BY <1>3, <1>4, <2>4
  <2>5. CASE S = request[t]
    BY <1>4, <1>6, <2>5, JoinsUnfed
  <2>6. QED  BY <2>3, <2>4, <2>5
<1>7. QED
  BY <1>2, <1>5, <1>6, StepCases
     DEF Write, Announce, Skip, Call, Spawn, Announced, DeliverInitial,
         DeliverDetached, Quiet

\* Once a subscription has been given a delta it asks for, it is given every
\* later one, however many threads write and subscribe and sinks fail.
THEOREM NoGap == Spec => []NoGapOnceFed
<1>1. Init => NoGapOnceFed
  <2> SUFFICES ASSUME Init PROVE NoGapOnceFed
    OBVIOUS
  <2>1. DOMAIN registry = {}
    BY DEF Init
  <2>2. QED  BY <2>1 DEF NoGapOnceFed
<1>2. TypeOK /\ Feeding /\ NoGapOnceFed /\ [Next]_vars
      => TypeOK' /\ Feeding' /\ NoGapOnceFed'
  BY NextFeeding, NextNoGap
<1>3. QED  BY <1>1, <1>2, InitType, InitFeeding, PTL DEF Spec

\* The only step that takes the head off a write's list while the registry stays
\* is the end of an announcement, or the end of the process with nobody
\* registered.
LEMMA HeadLeaves ==
  ASSUME TypeOK, Feeding, [Next]_vars, NEW t \in Threads,
         todo[t] # <<>>, todo'[t] = Tail(todo[t]), registry' = registry
  PROVE  Announced(t) \/ DOMAIN registry = {}
<1> USE DEF storeVars, registrationVars, feedVars
<1>1. todo'[t] # todo[t]
  BY TailProperties DEF TypeOK
<1>2. ASSUME NEW u \in Threads, NEW operations \in Batches, Write(u, operations)
      PROVE  FALSE
  BY <1>2, NothingAnnounced DEF Write, Feeding
<1>3. ASSUME NEW u \in Threads, Announced(u)
      PROVE  Announced(t)
  <2>1. u = t
    BY <1>1, <1>3 DEF Announced, TypeOK
  <2>2. QED  BY <1>3, <2>1
<1>4. CASE Crash
  BY <1>4 DEF Crash
<1>5. QED
  BY <1>1, <1>2, <1>3, <1>4, StepCases
     DEF Announce, Skip, Call, Spawn, DeliverInitial, Join, DeliverDetached, Quiet

\* A write leaves a delta behind only when everyone registered by then who asks
\* for it has been given it, for any number of writers and subscribers.
THEOREM EveryoneReached == Spec => AnnouncedToAll
<1> DEFINE Reached ==
      \A t \in Threads :
        todo[t] # <<>> /\ todo'[t] = Tail(todo[t]) /\ registry' = registry =>
          \A n \in DOMAIN registry :
            Head(todo[t]) \in Wanted(registry[n]) => Head(todo[t]) \in Given(registry[n])
<1>1. TypeOK /\ Feeding /\ [Next]_vars => [Reached]_vars
  <2> SUFFICES ASSUME TypeOK, Feeding, [Next]_vars PROVE Reached
    OBVIOUS
  <2> SUFFICES ASSUME NEW t \in Threads, todo[t] # <<>>, todo'[t] = Tail(todo[t]),
                      registry' = registry, NEW n \in DOMAIN registry,
                      Head(todo[t]) \in Wanted(registry[n])
               PROVE  Head(todo[t]) \in Given(registry[n])
    OBVIOUS
  <2>1. Announced(t)
    BY HeadLeaves
  <2>2. QED  BY <2>1, LeftIsGiven
<1>2. Init => TypeOK /\ Feeding
  BY InitType, InitFeeding
<1>3. QED  BY <1>1, <1>2, NextFeeding, PTL DEF Spec, AnnouncedToAll

=============================================================================
