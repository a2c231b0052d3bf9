------------------------ MODULE RetryTopologyProofs ------------------------
(* Theorems about RetryTopology, for every deployment. *)
EXTENDS RetryTopology, FiniteSetTheorems, TLAPS

-----------------------------------------------------------------------------
(* Bags: what a step that delivers and takes copies does to the queues.    *)

\* A bag of at least one of each of its elements.
Counted(B) == \A x \in DOMAIN B : B[x] \in Nat \ {0}

\* Routing a copy to a set of queues adds it to those queues and no other.
LEMMA BagPlus ==
    ASSUME NEW B, Counted(B), NEW S
    PROVE  /\ DOMAIN (B (+) SetToBag(S)) = DOMAIN B \cup S
           /\ Counted(B (+) SetToBag(S))
BY DEF Counted, SetToBag, (+)

\* Taking one occurrence leaves only what was there.
LEMMA BagMinus ==
    ASSUME NEW B, Counted(B), NEW x
    PROVE  /\ DOMAIN BagRemove(B, x) \subseteq DOMAIN B
           /\ Counted(BagRemove(B, x))
<1>1. CASE x \notin DOMAIN B
  BY <1>1 DEF Counted, BagRemove
<1>2. CASE x \in DOMAIN B /\ B[x] = 1
  BY <1>2 DEF Counted, BagRemove
<1>3. CASE x \in DOMAIN B /\ B[x] # 1
  BY <1>3 DEF Counted, BagRemove
<1>4. QED
  BY <1>1, <1>2, <1>3

-----------------------------------------------------------------------------
(* Routing, in a deployment that is kept apart.                            *)

\* Both halves of a way back meet, spelled out or left unset.
LEMMA HalvesMeet ==
    ASSUME KeptApart, NEW w \in Workers
    PROVE  Joined(T(w))
BY DEF KeptApart, PathUnset, Joined, ReturnExchange, ReturnKey, Either

\* Two workers with one way back serve one queue.
LEMMA OneWayBack ==
    ASSUME KeptApart, NEW v \in Workers, NEW w \in Workers,
           WayBack(T(v)) = WayBack(T(w))
    PROVE  T(v).primaryQueue = T(w).primaryQueue
<1>1. SUFFICES ASSUME T(v).primaryQueue # T(w).primaryQueue PROVE FALSE
  OBVIOUS
<1>2. PathUnset(T(v)) /\ PathUnset(T(w))
  BY <1>1 DEF KeptApart, Apart
<1>3. DeadKey(T(v)) = Derived(T(v).primaryQueue) /\ DeadKey(T(w)) = Derived(T(w).primaryQueue)
  BY <1>2 DEF PathUnset, DeadKey, Either
<1>4. DeadKey(T(v)) = DeadKey(T(w))
  BY DEF WayBack
<1>5. <<T(v).primaryQueue, "retry">>[1] = <<T(w).primaryQueue, "retry">>[1]
  BY <1>3, <1>4 DEF Derived
<1>6. QED
  BY <1>1, <1>5

\* An expired retry, and a replay, reach the primary queue they name, only.
LEMMA RouteBack ==
    ASSUME KeptApart, DeclaredInv, NEW w \in Workers, Reachable(w)
    PROVE  Routed(DeadExchange(T(w)), DeadKey(T(w))) = {T(w).primaryQueue}
<1>1. ASSUME NEW b \in bindings, b.exchange = DeadExchange(T(w)), DeadKey(T(w)) \in b.keys
      PROVE  b.queue = T(w).primaryQueue
  <2>1. PICK v \in Workers : b \in BindingsOf(T(v))
    BY DEF DeclaredInv
  <2>2. Orderly(T(w), T(v))
    BY DEF KeptApart
  <2>3. CASE b = Binding(T(v).primaryExchange, T(v).primaryQueue, T(v).primaryKeys)
    BY <1>1, <2>2, <2>3 DEF Orderly, Binding
  <2>4. CASE b = Binding(ReturnExchange(T(v)), T(v).primaryQueue, {ReturnKey(T(v))})
    <3>1. WayBack(T(v)) = WayBack(T(w))
      BY <1>1, <2>4, HalvesMeet DEF Joined, WayBack, Binding
    <3>2. QED
      BY <2>4, <3>1, OneWayBack DEF Binding
  <2>5. CASE b \in {RetryBinding(T(v)), ErrorBinding(T(v))}
    BY <1>1, <2>2, <2>5
       DEF Orderly, RetryBinding, ErrorBinding, Binding, WayBack, RetryAddress, ErrorAddress
  <2>6. QED
    BY <2>1, <2>3, <2>4, <2>5 DEF BindingsOf, PrimaryBindings
<1>2. \E b \in bindings : /\ b.exchange = DeadExchange(T(w)) /\ DeadKey(T(w)) \in b.keys
                          /\ b.queue = T(w).primaryQueue
  <2> DEFINE b == Binding(ReturnExchange(T(w)), T(w).primaryQueue, {ReturnKey(T(w))})
  <2>1. b \in bindings
    BY DEF Reachable, PrimaryBindings
  <2>2. b.exchange = DeadExchange(T(w)) /\ DeadKey(T(w)) \in b.keys /\ b.queue = T(w).primaryQueue
    BY HalvesMeet DEF Joined, Binding
  <2>3. QED
    BY <2>1, <2>2
<1>3. QED
  BY <1>1, <1>2 DEF Routed

\* A retry waits in its endpoint's retry queue, only.
LEMMA RouteRetry ==
    ASSUME KeptApart, DeclaredInv, NEW w \in Workers, RetryBinding(T(w)) \in bindings
    PROVE  Routed(T(w).retryExchange, T(w).retryKey) = {T(w).retryQueue}
<1>1. ASSUME NEW b \in bindings, b.exchange = T(w).retryExchange, T(w).retryKey \in b.keys
      PROVE  b.queue = T(w).retryQueue
  <2>1. PICK v \in Workers : b \in BindingsOf(T(v))
    BY DEF DeclaredInv
  <2>2. Orderly(T(w), T(v)) /\ Orderly(T(v), T(w))
    BY DEF KeptApart
  <2>3. CASE b = Binding(T(v).primaryExchange, T(v).primaryQueue, T(v).primaryKeys)
    BY <1>1, <2>2, <2>3 DEF Orderly, Binding
  <2>4. CASE b = Binding(ReturnExchange(T(v)), T(v).primaryQueue, {ReturnKey(T(v))})
    BY <1>1, <2>2, <2>4, HalvesMeet DEF Orderly, Joined, Binding, WayBack, RetryAddress
  <2>5. CASE b = RetryBinding(T(v))
    <3>1. RetryAddress(T(v)) = RetryAddress(T(w))
      BY <1>1, <2>5 DEF RetryBinding, Binding, RetryAddress
    <3>2. T(v) = T(w)
      BY <3>1 DEF KeptApart, Apart
    <3>3. QED
      BY <2>5, <3>2 DEF RetryBinding, Binding
  <2>6. CASE b = ErrorBinding(T(v))
    BY <1>1, <2>2, <2>6 DEF Orderly, ErrorBinding, Binding, RetryAddress, ErrorAddress
  <2>7. QED
    BY <2>1, <2>3, <2>4, <2>5, <2>6 DEF BindingsOf, PrimaryBindings
<1>2. QED
  BY <1>1 DEF Routed, RetryBinding, Binding

\* A parked message goes to its endpoint's error queue, only.
LEMMA RouteError ==
    ASSUME KeptApart, DeclaredInv, NEW w \in Workers, ErrorBinding(T(w)) \in bindings
    PROVE  Routed(T(w).errorExchange, T(w).errorKey) = {T(w).errorQueue}
<1>1. ASSUME NEW b \in bindings, b.exchange = T(w).errorExchange, T(w).errorKey \in b.keys
      PROVE  b.queue = T(w).errorQueue
  <2>1. PICK v \in Workers : b \in BindingsOf(T(v))
    BY DEF DeclaredInv
  <2>2. Orderly(T(w), T(v)) /\ Orderly(T(v), T(w))
    BY DEF KeptApart
  <2>3. CASE b = Binding(T(v).primaryExchange, T(v).primaryQueue, T(v).primaryKeys)
    BY <1>1, <2>2, <2>3 DEF Orderly, Binding
  <2>4. CASE b = Binding(ReturnExchange(T(v)), T(v).primaryQueue, {ReturnKey(T(v))})
    BY <1>1, <2>2, <2>4, HalvesMeet DEF Orderly, Joined, Binding, WayBack, ErrorAddress
  <2>5. CASE b = RetryBinding(T(v))
    BY <1>1, <2>2, <2>5 DEF Orderly, RetryBinding, Binding, RetryAddress, ErrorAddress
  <2>6. CASE b = ErrorBinding(T(v))
    BY <1>1, <2>2, <2>6 DEF Orderly, ErrorBinding, Binding, ErrorAddress
  <2>7. QED
    BY <2>1, <2>3, <2>4, <2>5, <2>6 DEF BindingsOf, PrimaryBindings
<1>2. QED
  BY <1>1 DEF Routed, ErrorBinding, Binding

-----------------------------------------------------------------------------
(* What has been declared.                                                 *)

\* No step changes the deployment.
LEMMA PlanKept ==
    ASSUME [Next]_vars
    PROVE  /\ plan' = plan
           /\ \A w \in Workers : T(w)' = T(w)
<1>1. plan' = plan
  BY DEF Next, vars, broker, Publish, Expire, RetryExpires, Replay, Work, Start, Declare,
         DeclarePrimary, DeclareRetry, DeclareError, Consume, Deliver, Ignore, Succeed,
         ScheduleRetry, DeadLetter, Send, Ack, Crash
<1>2. QED
  BY <1>1 DEF T

\* A step that declares nothing leaves the broker as it is, and has no worker
\* further along in its declarations.
LEMMA BrokerKept ==
    ASSUME DeclaredInv, UNCHANGED <<plan, broker>>,
           \A w \in Workers : \/ pc'[w] = pc[w]
                             \/ pc'[w] \in {"down", "refused"}
                             \/ pc[w] \in Up
    PROVE  DeclaredInv'
<1>1. queues' = queues /\ bindings' = bindings /\ \A w \in Workers : T(w)' = T(w)
  BY DEF broker, T
<1>2. \A w \in Workers : Reachable(w)' <=> Reachable(w)
  BY <1>1 DEF Reachable
<1>3. \A b \in bindings' : \E w \in Workers : b \in BindingsOf(T(w)')
  BY <1>1 DEF DeclaredInv
<1>4. \A q \in DOMAIN queues' : queues'[q] # Plain =>
         \E w \in Workers : q = T(w)'.retryQueue /\ queues'[q] = RetryArgs(T(w)') /\ Reachable(w)'
  BY <1>1, <1>2 DEF DeclaredInv
<1>5. \A w \in Workers :
         /\ pc'[w] \notin {"down", "refused"} => Reachable(w)'
         /\ pc'[w] \in {"retry declared"} \cup Up => RetryBinding(T(w)') \in bindings'
         /\ pc'[w] \in Up => ErrorBinding(T(w)') \in bindings'
  BY <1>1, <1>2 DEF DeclaredInv, Up, Busy
<1>6. QED
  BY <1>3, <1>4, <1>5 DEF DeclaredInv

\* What Declare leaves behind: as before, or with one queue and its bindings more.
LEMMA DeclareEffect ==
    ASSUME TypeOK, NEW w \in Workers, NEW from, NEW q, NEW args, NEW bound, NEW to,
           Declare(w, from, q, args, bound, to)
    PROVE  /\ pc[w] \in from
           /\ plan' = plan /\ UNCHANGED <<ready, published, held, handled, dropped, crashes, replays>>
           /\ \/ /\ pc' = [pc EXCEPT ![w] = "refused"]
                 /\ queues' = queues /\ bindings' = bindings
              \/ /\ pc' = [pc EXCEPT ![w] = to]
                 /\ DOMAIN queues' = DOMAIN queues \cup {q}
                 /\ \A x \in DOMAIN queues : queues'[x] = queues[x]
                 /\ queues'[q] = args
                 /\ bindings' = bindings \cup bound
BY DEF Declare, Declarable, broker

\* More bindings keep reachable what was.
LEMMA StillReachable ==
    ASSUME NEW w \in Workers, T(w)' = T(w), bindings \subseteq bindings', Reachable(w)
    PROVE  Reachable(w)'
BY DEF Reachable

\* Each declaration keeps the broker's invariant: in the order primary, retry,
\* error queue, so that a retry queue implies the way back from it.
LEMMA DeclareKeeps ==
    ASSUME TypeOK, DeclaredInv, NEW w \in Workers, Start(w)
    PROVE  DeclaredInv'
<1> DEFINE t == T(w)
<1>1. PICK from, q, args, bound, to :
        /\ Declare(w, from, q, args, bound, to)
        /\ \/ /\ from = {"down", "refused"} /\ q = t.primaryQueue /\ args = Plain
              /\ bound = PrimaryBindings(t) /\ to = "primary declared"
           \/ /\ from = {"primary declared"} /\ q = t.retryQueue /\ args = RetryArgs(t)
              /\ bound = {RetryBinding(t)} /\ to = "retry declared"
           \/ /\ from = {"retry declared"} /\ q = t.errorQueue /\ args = Plain
              /\ bound = {ErrorBinding(t)} /\ to = "idle"
  BY DEF Start, DeclarePrimary, DeclareRetry, DeclareError
<1>0. /\ pc[w] \in from
      /\ plan' = plan
      /\ \/ /\ pc' = [pc EXCEPT ![w] = "refused"]
            /\ queues' = queues /\ bindings' = bindings
         \/ /\ pc' = [pc EXCEPT ![w] = to]
            /\ DOMAIN queues' = DOMAIN queues \cup {q}
            /\ \A x \in DOMAIN queues : queues'[x] = queues[x]
            /\ queues'[q] = args
            /\ bindings' = bindings \cup bound
  BY <1>1, DeclareEffect
<1>2. \A v \in Workers : T(v)' = T(v)
  BY <1>0 DEF T
<1>3. CASE /\ pc' = [pc EXCEPT ![w] = "refused"]
           /\ queues' = queues /\ bindings' = bindings
  <2>1. UNCHANGED <<plan, broker>>
    BY <1>0, <1>3 DEF broker
  <2>2. \A v \in Workers : pc'[v] = pc[v] \/ pc'[v] = "refused"
    BY <1>3 DEF TypeOK
  <2>3. QED
    BY <2>1, <2>2, BrokerKept
<1>4. CASE /\ pc' = [pc EXCEPT ![w] = to]
           /\ DOMAIN queues' = DOMAIN queues \cup {q}
           /\ \A x \in DOMAIN queues : queues'[x] = queues[x]
           /\ queues'[q] = args
           /\ bindings' = bindings \cup bound
  <2>1. bound \subseteq BindingsOf(t)
    BY <1>1 DEF BindingsOf
  <2>2. \A b \in bindings' : \E v \in Workers : b \in BindingsOf(T(v)')
    BY <1>2, <1>4, <2>1 DEF DeclaredInv
  <2>3. \A v \in Workers : Reachable(v) => Reachable(v)'
    BY <1>2, <1>4, StillReachable
  <2>4. ASSUME NEW x \in DOMAIN queues', queues'[x] # Plain
        PROVE  \E v \in Workers : /\ x = T(v)'.retryQueue /\ queues'[x] = RetryArgs(T(v)')
                                  /\ Reachable(v)'
    <3>1. CASE x \in DOMAIN queues
      BY <1>2, <1>4, <2>3, <2>4, <3>1 DEF DeclaredInv
    <3>2. CASE x = q
      <4>1. pc[w] \in from /\ q = t.retryQueue /\ args = RetryArgs(t) /\ from = {"primary declared"}
        BY <1>1, <1>4, <2>4, <3>2, <1>0
      <4>2. Reachable(w)'
        BY <4>1, <2>3 DEF DeclaredInv
      <4>3. QED
        BY <1>2, <1>4, <3>2, <4>1, <4>2
    <3>3. QED
      BY <1>4, <2>4, <3>1, <3>2
  <2>5. ASSUME NEW v \in Workers
        PROVE  /\ pc'[v] \notin {"down", "refused"} => Reachable(v)'
               /\ pc'[v] \in {"retry declared"} \cup Up => RetryBinding(T(v)') \in bindings'
               /\ pc'[v] \in Up => ErrorBinding(T(v)') \in bindings'
    <3>1. CASE v # w
      BY <1>2, <1>4, <2>3, <3>1 DEF DeclaredInv, TypeOK
    <3>2. CASE v = w /\ to = "primary declared"
      <4>1. pc'[w] = "primary declared" /\ bound = PrimaryBindings(t)
        BY <1>1, <1>4, <3>2 DEF TypeOK
      <4>2. QED
        BY <1>2, <1>4, <3>2, <4>1 DEF Reachable, Up, Busy
    <3>3. CASE v = w /\ to = "retry declared"
      <4>1. pc'[w] = "retry declared" /\ bound = {RetryBinding(t)} /\ pc[w] = "primary declared"
        BY <1>1, <1>4, <3>3, <1>0 DEF TypeOK
      <4>2. QED
        BY <1>2, <1>4, <2>3, <3>3, <4>1 DEF DeclaredInv, Up, Busy
    <3>4. CASE v = w /\ to = "idle"
      <4>1. pc'[w] = "idle" /\ bound = {ErrorBinding(t)} /\ pc[w] = "retry declared"
        BY <1>1, <1>4, <3>4, <1>0 DEF TypeOK
      <4>2. QED
        BY <1>2, <1>4, <2>3, <3>4, <4>1 DEF DeclaredInv, Up, Busy
    <3>5. QED
      BY <1>1, <3>1, <3>2, <3>3, <3>4
  <2>6. QED
    BY <2>2, <2>4, <2>5 DEF DeclaredInv
<1>5. QED
  BY <1>0, <1>3, <1>4

-----------------------------------------------------------------------------
(* Type correctness.                                                       *)

AnyBinding == [exchange : Names, queue : Names, keys : SUBSET Keys]

\* The options of a worker, resolved, are names and keys.
LEMMA ResolvedTyped ==
    ASSUME plan \in Plans, NEW w \in Workers
    PROVE  /\ T(w) \in Topologies
           /\ DeadExchange(T(w)) \in Names /\ DeadKey(T(w)) \in Keys
           /\ ReturnExchange(T(w)) \in Names /\ ReturnKey(T(w)) \in Keys
<1>1. T(w) \in Topologies
  BY TopologyAssumption DEF T
<1>2. /\ T(w).primaryQueue \in Names /\ T(w).retryExchange \in Names
      /\ T(w).deadExchange \in Names \cup {Unset} /\ T(w).deadKey \in Keys \cup {Unset}
      /\ T(w).returnExchange \in Names \cup {Unset} /\ T(w).returnKey \in Keys \cup {Unset}
  BY <1>1 DEF Topologies
<1>3. Derived(T(w).primaryQueue) \in Keys
  BY <1>2 DEF Keys
<1>4. DeadExchange(T(w)) \in Names /\ DeadKey(T(w)) \in Keys
  BY <1>2, <1>3 DEF DeadExchange, DeadKey, Either
<1>5. ReturnExchange(T(w)) \in Names /\ ReturnKey(T(w)) \in Keys
  BY <1>2, <1>4 DEF ReturnExchange, ReturnKey, Either
<1>6. QED
  BY <1>1, <1>4, <1>5

\* So are the bindings and the queue arguments it declares.
LEMMA DeclarationsTyped ==
    ASSUME plan \in Plans, NEW w \in Workers
    PROVE  /\ BindingsOf(T(w)) \subseteq AnyBinding
           /\ \A b \in PrimaryBindings(T(w)) : b.queue = T(w).primaryQueue
           /\ RetryBinding(T(w)).queue = T(w).retryQueue
           /\ ErrorBinding(T(w)).queue = T(w).errorQueue
           /\ RetryArgs(T(w)) \in Arguments
           /\ {T(w).primaryQueue, T(w).retryQueue, T(w).errorQueue} \subseteq Names
<1>1. /\ T(w).primaryExchange \in Names /\ T(w).primaryQueue \in Names
      /\ T(w).primaryKeys \in SUBSET Keys
      /\ T(w).retryExchange \in Names /\ T(w).retryQueue \in Names /\ T(w).retryKey \in Keys
      /\ T(w).errorExchange \in Names /\ T(w).errorQueue \in Names /\ T(w).errorKey \in Keys
      /\ T(w).ttl \in Nat
  BY ResolvedTyped DEF Topologies
<1>2. PrimaryBindings(T(w)) \subseteq AnyBinding
  BY <1>1, ResolvedTyped DEF PrimaryBindings, Binding, AnyBinding
<1>3. RetryBinding(T(w)) \in AnyBinding /\ ErrorBinding(T(w)) \in AnyBinding
  BY <1>1 DEF RetryBinding, ErrorBinding, Binding, AnyBinding
<1>4. /\ \A b \in PrimaryBindings(T(w)) : b.queue = T(w).primaryQueue
      /\ RetryBinding(T(w)).queue = T(w).retryQueue
      /\ ErrorBinding(T(w)).queue = T(w).errorQueue
  BY DEF PrimaryBindings, RetryBinding, ErrorBinding, Binding
<1>5. RetryArgs(T(w)) \in Arguments
  BY <1>1, ResolvedTyped DEF RetryArgs, Arguments
<1>6. QED
  BY <1>1, <1>2, <1>3, <1>4, <1>5 DEF BindingsOf

\* Messages are routed to declared queues only.
LEMMA RoutedTyped ==
    ASSUME TypeOK, NEW x, NEW k
    PROVE  Routed(x, k) \subseteq DOMAIN queues
<1>1. \A b \in bindings : b.queue \in DOMAIN queues
  <2>1. bindings \subseteq [exchange : Names, queue : DOMAIN queues, keys : SUBSET Keys]
    BY DEF TypeOK
  <2>2. QED
    BY <2>1
<1>2. QED
  BY <1>1 DEF Routed

\* Queues stay a bag of copies when one is taken and when one is sent to declared queues.
LEMMA ReadyTyped ==
    ASSUME TypeOK, NEW qs, qs \subseteq DOMAIN queues, NEW d \in Copy, NEW p
    PROVE  \A B \in {ready (+) In(qs, d), BagRemove(ready, p),
                     BagRemove(ready, p) (+) In(qs, d)} :
             /\ DOMAIN B \subseteq (DOMAIN queues) \X Copy
             /\ Counted(B)
<1>1. Counted(ready) /\ DOMAIN ready \subseteq (DOMAIN queues) \X Copy
  BY DEF TypeOK, Counted
<1>2. {<<q, d>> : q \in qs} \subseteq (DOMAIN queues) \X Copy
  OBVIOUS
<1>3. /\ Counted(BagRemove(ready, p))
      /\ DOMAIN BagRemove(ready, p) \subseteq (DOMAIN queues) \X Copy
  BY <1>1, BagMinus
<1>4. /\ Counted(ready (+) In(qs, d))
      /\ DOMAIN (ready (+) In(qs, d)) \subseteq (DOMAIN queues) \X Copy
  BY <1>1, <1>2, BagPlus DEF In
<1>5. /\ Counted(BagRemove(ready, p) (+) In(qs, d))
      /\ DOMAIN (BagRemove(ready, p) (+) In(qs, d)) \subseteq (DOMAIN queues) \X Copy
  BY <1>2, <1>3, BagPlus DEF In
<1>6. QED
  BY <1>3, <1>4, <1>5

\* The headers a worker changes keep a copy a copy.
LEMMA CopyTyped ==
    ASSUME plan \in Plans, NEW w \in Workers, NEW d \in Copy
    PROVE  Retried(T(w), d) \in Copy /\ Parked(T(w), d) \in Copy
<1>1. T(w).app \in Names /\ T(w).primaryQueue \in Names
  BY ResolvedTyped DEF Topologies
<1>2. EndpointDescriptor(T(w), d.msg) \in Names \X Keys
  BY ResolvedTyped DEF EndpointDescriptor
<1>3. d.count + 1 \in Nat
  BY DEF Copy
<1>4. Retried(T(w), d) \in Copy
  BY <1>1, <1>3 DEF Retried, Copy
<1>5. Parked(T(w), d) \in Copy
  BY <1>1, <1>2 DEF Parked, Copy
<1>6. QED
  BY <1>4, <1>5

\* A replayed copy is a copy.
LEMMA ReplayTyped == ASSUME NEW d \in Copy PROVE Replayed(d) \subseteq Copy
BY TopologyAssumption DEF Replayed, Copy

\* A worker that holds a copy has declared its primary queue.
LEMMA BusyDeclared ==
    ASSUME TypeOK, DeclaredInv, NEW w \in Workers, pc[w] \in Up
    PROVE  T(w).primaryQueue \in DOMAIN queues
<1>1. Reachable(w)
  BY DEF DeclaredInv, Up, Busy
<1>2. PICK b \in PrimaryBindings(T(w)) : b \in bindings
  BY <1>1 DEF Reachable, PrimaryBindings
<1>3. b.queue = T(w).primaryQueue
  BY <1>2, DeclarationsTyped DEF TypeOK
<1>4. QED
  BY <1>2, <1>3 DEF TypeOK

PcTypes == {"down", "refused", "primary declared", "retry declared", "idle"} \cup Busy

\* Declaring keeps the types: the one queue more is bound only once it is there.
LEMMA DeclareTyped ==
    ASSUME TypeOK, NEW w \in Workers, NEW from, NEW q \in Names,
           NEW args \in Arguments \cup {Plain}, NEW bound \in SUBSET AnyBinding,
           NEW to \in {"primary declared", "retry declared", "idle"},
           Declare(w, from, q, args, bound, to),
           \A x \in Busy : x \notin from,
           \A b \in bound : b.queue = q
    PROVE  TypeOK'
<1>2. /\ pc[w] \in from
      /\ plan' = plan /\ UNCHANGED <<ready, published, held, handled, dropped, crashes, replays>>
      /\ \/ /\ pc' = [pc EXCEPT ![w] = "refused"]
            /\ queues' = queues /\ bindings' = bindings
         \/ /\ pc' = [pc EXCEPT ![w] = to]
            /\ DOMAIN queues' = DOMAIN queues \cup {q}
            /\ \A x \in DOMAIN queues : queues'[x] = queues[x]
            /\ queues'[q] = args
            /\ bindings' = bindings \cup bound
  BY DeclareEffect
<1>3. /\ DOMAIN queues' \subseteq Names
      /\ \A x \in DOMAIN queues' : queues'[x] \in Arguments \cup {Plain}
      /\ DOMAIN queues \subseteq DOMAIN queues'
  BY <1>2 DEF TypeOK
<1>4. bindings' \subseteq [exchange : Names, queue : DOMAIN queues', keys : SUBSET Keys]
  <2>1. CASE queues' = queues /\ bindings' = bindings
    BY <2>1 DEF TypeOK
  <2>2. CASE DOMAIN queues' = DOMAIN queues \cup {q} /\ bindings' = bindings \cup bound
    <3>1. \A b \in bound : b \in [exchange : Names, queue : DOMAIN queues', keys : SUBSET Keys]
      BY <2>2 DEF AnyBinding
    <3>2. \A b \in bindings : b \in [exchange : Names, queue : DOMAIN queues', keys : SUBSET Keys]
      BY <1>3 DEF TypeOK
    <3>3. QED
      BY <2>2, <3>1, <3>2
  <2>3. QED
    BY <1>2, <2>1, <2>2
<1>5. /\ pc' \in [Workers -> PcTypes]
      /\ \A v \in Workers : pc'[v] \in Busy <=> pc[v] \in Busy
  BY <1>2 DEF TypeOK, PcTypes, Busy
<1>6. QED
  BY <1>2, <1>3, <1>4, <1>5 DEF TypeOK, PcTypes

\* So do the three steps of declare_consumer_topology.
LEMMA StartTyped ==
    ASSUME TypeOK, NEW w \in Workers, Start(w)
    PROVE  TypeOK'
<1> DEFINE t == T(w)
<1>1. /\ {t.primaryQueue, t.retryQueue, t.errorQueue} \subseteq Names
      /\ RetryArgs(t) \in Arguments
      /\ PrimaryBindings(t) \in SUBSET AnyBinding
      /\ {RetryBinding(t)} \in SUBSET AnyBinding /\ {ErrorBinding(t)} \in SUBSET AnyBinding
      /\ \A b \in PrimaryBindings(t) : b.queue = t.primaryQueue
      /\ RetryBinding(t).queue = t.retryQueue /\ ErrorBinding(t).queue = t.errorQueue
  BY DeclarationsTyped DEF TypeOK, BindingsOf
<1>2. CASE DeclarePrimary(w)
  <2>1. Declare(w, {"down", "refused"}, t.primaryQueue, Plain, PrimaryBindings(t),
                "primary declared")
    BY <1>2 DEF DeclarePrimary
  <2>2. \A x \in Busy : x \notin {"down", "refused"}
    BY DEF Busy
  <2>3. QED
    BY <1>1, <2>1, <2>2, DeclareTyped
<1>3. CASE DeclareRetry(w)
  <2>1. Declare(w, {"primary declared"}, t.retryQueue, RetryArgs(t), {RetryBinding(t)},
                "retry declared")
    BY <1>3 DEF DeclareRetry
  <2>2. \A x \in Busy : x \notin {"primary declared"}
    BY DEF Busy
  <2>3. QED
    BY <1>1, <2>1, <2>2, DeclareTyped
<1>4. CASE DeclareError(w)
  <2>1. Declare(w, {"retry declared"}, t.errorQueue, Plain, {ErrorBinding(t)}, "idle")
    BY <1>4 DEF DeclareError
  <2>2. \A x \in Busy : x \notin {"retry declared"}
    BY DEF Busy
  <2>3. QED
    BY <1>1, <2>1, <2>2, DeclareTyped
<1>5. QED
  BY <1>2, <1>3, <1>4 DEF Start

\* What a worker sends of a failed message keeps the types, wherever it is routed.
LEMMA SendTyped ==
    ASSUME TypeOK, NEW w \in Workers, pc[w] = "handling", NEW x, NEW k, NEW copy \in Copy,
           Send(w, x, k, copy)
    PROVE  TypeOK'
<1>1. Routed(x, k) \subseteq DOMAIN queues
  BY RoutedTyped
<1>2. DOMAIN ready' \subseteq (DOMAIN queues) \X Copy /\ Counted(ready')
  BY <1>1, ReadyTyped DEF Send
<1>3. dropped' \subseteq Copy
  BY DEF Send, Lost, TypeOK
<1>4. /\ pc' \in [Workers -> PcTypes]
      /\ \A v \in Workers : pc'[v] \in Busy <=> held'[v] # NoCopy
  BY DEF Send, TypeOK, PcTypes, Busy
<1>5. QED
  BY <1>2, <1>3, <1>4 DEF TypeOK, Send, broker, Counted, PcTypes

\* Every step keeps the types.
LEMMA StepTyped ==
    ASSUME TypeOK, DeclaredInv, [Next]_vars
    PROVE  TypeOK'
<1>0. MaxCrashes \in Nat /\ MaxReplays \in Nat /\ NoCopy \notin Copy
  BY TopologyAssumption
<1>1. ASSUME NEW m \in Messages, Publish(m) PROVE TypeOK'
  <2> DEFINE d == [msg |-> m, count |-> 0, app |-> NoApp, home |-> NoQueue,
                   endpoint |-> NoEndpoint]
  <2>1. d \in Copy
    BY TopologyAssumption DEF Copy
  <2>2. Routed(Settings.primaryExchange, m) \subseteq DOMAIN queues
    BY RoutedTyped
  <2>3. DOMAIN ready' \subseteq (DOMAIN queues) \X Copy /\ Counted(ready')
    BY <1>1, <2>1, <2>2, ReadyTyped DEF Publish
  <2>4. QED
    BY <1>1, <2>3 DEF TypeOK, Publish, broker, Counted
<1>2. ASSUME NEW p \in DOMAIN ready, RetryExpires(p[1], p[2]) PROVE TypeOK'
  <2>1. p[2] \in Copy
    BY DEF TypeOK
  <2> DEFINE back == Routed(queues[p[1]].exchange, queues[p[1]].key) \ {p[1]}
  <2>2. back \subseteq DOMAIN queues
    BY RoutedTyped
  <2>3. DOMAIN ready' \subseteq (DOMAIN queues) \X Copy /\ Counted(ready')
    BY <1>2, <2>1, <2>2, ReadyTyped DEF RetryExpires
  <2>4. dropped' \subseteq Copy
    BY <1>2, <2>1 DEF RetryExpires, Lost, TypeOK
  <2>5. QED
    BY <1>2, <2>3, <2>4 DEF TypeOK, RetryExpires, broker, Counted
<1>3. ASSUME NEW p \in DOMAIN ready, Replay(p[1], p[2]) PROVE TypeOK'
  <2> DEFINE d == p[2]
             to == Routed(d.endpoint[1], d.endpoint[2])
  <2>1. d \in Copy
    BY DEF TypeOK
  <2>2. PICK again \in Replayed(d) :
           /\ ready' = BagRemove(ready, <<p[1], d>>) (+) In(to, again)
           /\ dropped' = dropped \cup Lost(to, again)
    BY <1>3 DEF Replay
  <2>3. again \in Copy
    BY <2>1, <2>2, ReplayTyped
  <2>4. to \subseteq DOMAIN queues
    BY RoutedTyped
  <2>5. DOMAIN ready' \subseteq (DOMAIN queues) \X Copy /\ Counted(ready')
    BY <2>2, <2>3, <2>4, ReadyTyped
  <2>6. dropped' \subseteq Copy
    BY <2>2, <2>3 DEF Lost, TypeOK
  <2>7. replays' \in 0..MaxReplays
    <3>1. replays < MaxReplays /\ replays' = replays + 1
      BY <1>3 DEF Replay
    <3>2. replays \in 0..MaxReplays
      BY DEF TypeOK
    <3>3. QED
      BY <1>0, <3>1, <3>2
  <2>8. QED
    BY <1>3, <2>5, <2>6, <2>7 DEF TypeOK, Replay, broker, Counted
<1>4. ASSUME NEW w \in Workers, Start(w) PROVE TypeOK'
  BY <1>4, StartTyped
<1>5. ASSUME NEW w \in Workers, NEW p \in DOMAIN ready, Deliver(w, p[2]) \/ Ignore(w, p[2])
      PROVE  TypeOK'
  <2>1. p[2] \in Copy
    BY DEF TypeOK
  <2>2. ready' = BagRemove(ready, <<T(w).primaryQueue, p[2]>>) /\ UNCHANGED <<plan, broker>>
    BY <1>5 DEF Deliver, Ignore
  <2>3. DOMAIN ready' \subseteq (DOMAIN queues) \X Copy /\ Counted(ready')
    BY <2>1, <2>2, ReadyTyped
  <2>4. /\ pc' \in [Workers -> PcTypes]
        /\ held' \in [Workers -> Copy \cup {NoCopy}]
        /\ \A v \in Workers : pc'[v] \in Busy <=> held'[v] # NoCopy
    BY <1>0, <1>5, <2>1 DEF Deliver, Ignore, TypeOK, PcTypes, Busy
  <2>5. dropped' \subseteq Copy
    BY <1>5, <2>1 DEF Deliver, Ignore, TypeOK
  <2>6. UNCHANGED <<published, handled, crashes, replays>>
    BY <1>5 DEF Deliver, Ignore
  <2>7. QED
    BY <2>2, <2>3, <2>4, <2>5, <2>6 DEF TypeOK, broker, Counted, PcTypes
<1>6. ASSUME NEW w \in Workers, Succeed(w) PROVE TypeOK'
  <2>1. held[w] \in Copy /\ T(w).primaryQueue \in Names
    <3>1. plan \in Plans /\ held[w] \in Copy \cup {NoCopy} /\ held[w] # NoCopy
      BY <1>6 DEF TypeOK, Succeed, Busy
    <3>2. QED
      BY <3>1, DeclarationsTyped
  <2>2. handled' \subseteq Messages \X Names
    <3>1. held[w].msg \in Messages
      BY <2>1 DEF Copy
    <3>2. QED
      <4>1. handled' = handled \cup {<<held[w].msg, T(w).primaryQueue>>}
        BY <1>6 DEF Succeed
      <4>2. handled \subseteq Messages \X Names
        BY DEF TypeOK
      <4>3. QED
        BY <2>1, <3>1, <4>1, <4>2
  <2>3. /\ pc' \in [Workers -> PcTypes]
        /\ \A v \in Workers : pc'[v] \in Busy <=> held'[v] # NoCopy
    BY <1>6 DEF Succeed, TypeOK, PcTypes, Busy
  <2>4. QED
    BY <1>6, <2>2, <2>3 DEF TypeOK, Succeed, broker, PcTypes
<1>7. ASSUME NEW w \in Workers, ScheduleRetry(w) \/ DeadLetter(w) PROVE TypeOK'
  <2>1. plan \in Plans /\ held[w] \in Copy /\ pc[w] = "handling"
    BY <1>7 DEF TypeOK, ScheduleRetry, DeadLetter, Busy
  <2>2. Retried(T(w), held[w]) \in Copy /\ Parked(T(w), held[w]) \in Copy
    BY <2>1, CopyTyped
  <2>3. CASE Send(w, T(w).retryExchange, T(w).retryKey, Retried(T(w), held[w]))
    BY <2>1, <2>2, <2>3, SendTyped
  <2>4. CASE Send(w, T(w).errorExchange, T(w).errorKey, Parked(T(w), held[w]))
    BY <2>1, <2>2, <2>4, SendTyped
  <2>5. QED
    BY <1>7, <2>3, <2>4 DEF ScheduleRetry, DeadLetter
<1>8. ASSUME NEW w \in Workers, Ack(w) PROVE TypeOK'
  <2>1. /\ pc' \in [Workers -> PcTypes]
        /\ held' \in [Workers -> Copy \cup {NoCopy}]
        /\ \A v \in Workers : pc'[v] \in Busy <=> held'[v] # NoCopy
    BY <1>8 DEF Ack, TypeOK, PcTypes, Busy
  <2>2. QED
    BY <1>8, <2>1 DEF TypeOK, Ack, broker, PcTypes
<1>9. ASSUME NEW w \in Workers, Crash(w) PROVE TypeOK'
  <2>1. DOMAIN ready' \subseteq (DOMAIN queues) \X Copy /\ Counted(ready')
    <3>1. CASE pc[w] \in Busy
      <4>1. held[w] \in Copy /\ {T(w).primaryQueue} \subseteq DOMAIN queues
        BY <3>1, BusyDeclared DEF TypeOK, Up
      <4>2. QED
        BY <1>9, <3>1, <4>1, ReadyTyped DEF Crash
    <3>2. CASE pc[w] \notin Busy
      BY <1>9, <3>2 DEF Crash, TypeOK, Counted
    <3>3. QED
      BY <3>1, <3>2
  <2>2. /\ pc' \in [Workers -> PcTypes]
        /\ held' \in [Workers -> Copy \cup {NoCopy}]
        /\ \A v \in Workers : pc'[v] \in Busy <=> held'[v] # NoCopy
    BY <1>9 DEF Crash, TypeOK, PcTypes, Busy
  <2>3. crashes' \in 0..MaxCrashes
    <3>1. crashes < MaxCrashes /\ crashes' = crashes + 1
      BY <1>9 DEF Crash
    <3>2. crashes \in 0..MaxCrashes
      BY DEF TypeOK
    <3>3. QED
      BY <1>0, <3>1, <3>2
  <2>4. QED
    BY <1>9, <2>1, <2>2, <2>3 DEF TypeOK, Crash, broker, Counted, PcTypes
<1>10. CASE UNCHANGED vars
  BY <1>10 DEF TypeOK, vars, broker
<1>11. QED
  BY <1>1, <1>2, <1>3, <1>4, <1>5, <1>6, <1>7, <1>8, <1>9, <1>10
     DEF Next, Work, Consume, Expire

\* Every step keeps what the broker holds within what workers declared.
LEMMA StepDeclared ==
    ASSUME TypeOK, DeclaredInv, [Next]_vars
    PROVE  DeclaredInv'
<1>1. CASE \E w \in Workers : Start(w)
  BY <1>1, DeclareKeeps
<1>2. CASE ~(\E w \in Workers : Start(w))
  <2>1. UNCHANGED <<plan, broker>>
    BY <1>2 DEF Next, vars, broker, Publish, Expire, RetryExpires, Replay, Work, Consume,
                Deliver, Ignore, Succeed, ScheduleRetry, DeadLetter, Send, Ack, Crash
  <2>2. ASSUME NEW w \in Workers
        PROVE  pc'[w] = pc[w] \/ pc'[w] \in {"down", "refused"} \/ pc[w] \in Up
    BY <1>2 DEF Next, vars, Publish, Expire, RetryExpires, Replay, Work, Consume,
                Deliver, Ignore, Succeed, ScheduleRetry, DeadLetter, Send, Ack, Crash,
                Up, Busy, TypeOK
  <2>3. QED
    BY <2>1, <2>2, BrokerKept
<1>3. QED
  BY <1>1, <1>2

\* In every deployment, whatever the workers and the broker do: queues hold copies
\* and workers hold one while they are busy (TypeOK), and the broker holds nothing
\* but what workers declared, a retry queue only beside the way back from it
\* (declare_consumer_topology's order).
THEOREM TypeCorrect == Spec => [](TypeOK /\ DeclaredInv)
<1>1. Init => TypeOK /\ DeclaredInv
  <2> SUFFICES ASSUME Init PROVE TypeOK /\ DeclaredInv
    OBVIOUS
  <2>1. MaxCrashes \in Nat /\ MaxReplays \in Nat
    BY TopologyAssumption
  <2>2. DOMAIN queues = {}
    BY DEF Init
  <2>3. DOMAIN ready = {}
    BY DEF Init, EmptyBag, SetToBag
  <2>4. TypeOK
    BY <2>1, <2>2, <2>3 DEF Init, TypeOK, Busy
  <2>5. DeclaredInv
    BY <2>2 DEF Init, DeclaredInv, Up, Busy
  <2>6. QED
    BY <2>4, <2>5
<1>2. TypeOK /\ DeclaredInv /\ [Next]_vars => (TypeOK /\ DeclaredInv)'
  BY StepTyped, StepDeclared
<1>3. QED
  BY <1>1, <1>2, PTL DEF Spec

-----------------------------------------------------------------------------
(* The way of a copy that failed.                                          *)

\* A copy is on its endpoint's way, or has not failed.
Placed(q, d) ==
    Fresh(d) \/ \E w \in Workers : OnItsWay(T(w), q, d) /\ Reachable(w)

HeldWell(w, d) ==
    /\ d.msg \in Handles[T(w).module]
    /\ d.endpoint = NoEndpoint
    /\ Fresh(d) \/ Own(T(w), d)

\* What is placed well stays so, whoever declares something.
LEMMA PlacedKept ==
    ASSUME TypeOK, [Next]_vars, NEW q, NEW d, Placed(q, d)
    PROVE  Placed(q, d)'
<1>1. \A w \in Workers : T(w)' = T(w)
  BY PlanKept
<1>2. bindings \subseteq bindings'
  BY DEF Next, vars, broker, Publish, Expire, RetryExpires, Replay, Work, Start, Declare,
         DeclarePrimary, DeclareRetry, DeclareError, Consume, Deliver, Ignore, Succeed,
         ScheduleRetry, DeadLetter, Send, Ack, Crash
<1>3. \A w \in Workers : Reachable(w) => Reachable(w)'
  BY <1>1, <1>2, StillReachable
<1>4. QED
  BY <1>1, <1>3 DEF Placed

\* One queue has one endpoint: a worker that takes a copy which failed is of the
\* endpoint the copy failed for.
LEMMA OwnQueue ==
    ASSUME KeptApart, NEW w \in Workers, NEW v \in Workers, NEW d,
           OnItsWay(T(v), T(w).primaryQueue, d)
    PROVE  Own(T(w), d) /\ d.endpoint = NoEndpoint
<1>1. Orderly(T(w), T(v))
  BY DEF KeptApart
<1>2. T(w).primaryQueue = T(v).primaryQueue /\ d.endpoint = NoEndpoint
  BY <1>1 DEF OnItsWay, Orderly
<1>3. T(v) = T(w)
  BY <1>2 DEF KeptApart
<1>4. QED
  BY <1>2, <1>3 DEF OnItsWay

\* A copy in a retry queue goes home, whoever it belongs to.
LEMMA ExpiryPlaced ==
    ASSUME KeptApart, DeclaredInv, NEW q \in DOMAIN queues, queues[q] # Plain,
           NEW d, Placed(q, d)
    PROVE  LET back == Routed(queues[q].exchange, queues[q].key) \ {q}
           IN  back # {} /\ \A x \in back : Placed(x, d)
<1>1. PICK w \in Workers : q = T(w).retryQueue /\ queues[q] = RetryArgs(T(w)) /\ Reachable(w)
  BY DEF DeclaredInv
<1>2. Routed(queues[q].exchange, queues[q].key) = {T(w).primaryQueue}
  BY <1>1, RouteBack DEF RetryArgs
<1>3. T(w).primaryQueue # q
  BY <1>1 DEF KeptApart, Orderly
<1>4. Placed(T(w).primaryQueue, d)
  <2>1. CASE Fresh(d)
    BY <2>1 DEF Placed
  <2>2. CASE \E v \in Workers : OnItsWay(T(v), q, d) /\ Reachable(v)
    <3>1. PICK v \in Workers : OnItsWay(T(v), q, d) /\ Reachable(v)
      BY <2>2
    <3>2. Orderly(T(v), T(w)) /\ Orderly(T(w), T(v))
      BY DEF KeptApart
    <3>3. q = T(v).retryQueue /\ d.endpoint = NoEndpoint
      BY <1>1, <3>1, <3>2 DEF OnItsWay, Orderly
    <3>4. T(v) = T(w)
      BY <1>1, <3>3 DEF KeptApart, Apart
    <3>5. OnItsWay(T(w), T(w).primaryQueue, d)
      BY <3>1, <3>3, <3>4 DEF OnItsWay
    <3>6. QED
      BY <1>1, <3>5 DEF Placed
  <2>3. QED
    BY <2>1, <2>2 DEF Placed
<1>5. QED
  BY <1>2, <1>3, <1>4

\* A replayed message goes home.
LEMMA ReplayPlaced ==
    ASSUME KeptApart, DeclaredInv, NEW q, NEW d, Placed(q, d), d.endpoint # NoEndpoint,
           NEW again \in Replayed(d)
    PROVE  LET to == Routed(d.endpoint[1], d.endpoint[2])
           IN  to # {} /\ \A x \in to : Placed(x, again)
<1>1. PICK v \in Workers : OnItsWay(T(v), q, d) /\ Reachable(v)
  BY DEF Placed, Fresh
<1>2. d.endpoint = WayBack(T(v))
  BY <1>1 DEF OnItsWay
<1>3. Routed(d.endpoint[1], d.endpoint[2]) = {T(v).primaryQueue}
  BY <1>1, <1>2, RouteBack DEF WayBack
<1>4. /\ again.msg = d.msg /\ again.home = d.home /\ again.endpoint = NoEndpoint
      /\ \/ again.count = d.count /\ again.app = d.app
         \/ again.count = 0
  BY DEF Replayed
<1>5. Own(T(v), again)
  BY <1>1, <1>4 DEF OnItsWay, Own
<1>6. OnItsWay(T(v), T(v).primaryQueue, again)
  BY <1>4, <1>5 DEF OnItsWay
<1>7. QED
  BY <1>1, <1>3, <1>6 DEF Placed

\* A worker's copy waits, or is parked, where its endpoint does.
LEMMA SendPlaced ==
    ASSUME TypeOK, KeptApart, DeclaredInv, NEW w \in Workers, pc[w] \in Up,
           NEW d, HeldWell(w, d)
    PROVE  /\ LET to == Routed(T(w).retryExchange, T(w).retryKey)
              IN  to # {} /\ \A x \in to : Placed(x, Retried(T(w), d))
           /\ LET to == Routed(T(w).errorExchange, T(w).errorKey)
              IN  to # {} /\ \A x \in to : Placed(x, Parked(T(w), d))
<1>1. Reachable(w) /\ RetryBinding(T(w)) \in bindings /\ ErrorBinding(T(w)) \in bindings
  BY DEF DeclaredInv, Up, Busy
<1>2. Routed(T(w).retryExchange, T(w).retryKey) = {T(w).retryQueue}
  BY <1>1, RouteRetry
<1>3. Routed(T(w).errorExchange, T(w).errorKey) = {T(w).errorQueue}
  BY <1>1, RouteError
<1>4. OnItsWay(T(w), T(w).retryQueue, Retried(T(w), d))
  BY DEF HeldWell, OnItsWay, Own, Retried
<1>5. OnItsWay(T(w), T(w).errorQueue, Parked(T(w), d))
  BY DEF HeldWell, OnItsWay, Own, Parked, EndpointDescriptor, WayBack, Fresh
<1>6. QED
  BY <1>1, <1>2, <1>3, <1>4, <1>5 DEF Placed

AllPlaced == \A p \in DOMAIN ready : Placed(p[1], p[2])
AllHeldWell == \A w \in Workers : held[w] # NoCopy => HeldWell(w, held[w])

\* WayInv, conjunct by conjunct.
LEMMA WayInvParts == WayInv <=> AllPlaced /\ AllHeldWell /\ dropped = {}
BY DEF WayInv, AllPlaced, AllHeldWell, Placed, HeldWell

\* Taking a copy, and routing one to queues where it is well placed, keeps all
\* copies well placed.
LEMMA RoutedPlaced ==
    ASSUME TypeOK, [Next]_vars, AllPlaced, NEW p, NEW qs, NEW d,
           \A x \in qs : Placed(x, d),
           \/ ready' = ready (+) In(qs, d)
           \/ ready' = BagRemove(ready, p) (+) In(qs, d)
           \/ ready' = BagRemove(ready, p)
    PROVE  AllPlaced'
<1>1. Counted(ready)
  BY DEF TypeOK, Counted
<1>2. DOMAIN BagRemove(ready, p) \subseteq DOMAIN ready /\ Counted(BagRemove(ready, p))
  BY <1>1, BagMinus
<1>3. DOMAIN ready' \subseteq DOMAIN ready \cup {<<x, d>> : x \in qs}
  BY <1>1, <1>2, BagPlus DEF In
<1>4. ASSUME NEW y \in DOMAIN ready' PROVE Placed(y[1], y[2])
  BY <1>3 DEF AllPlaced
<1>5. ASSUME NEW y \in DOMAIN ready' PROVE Placed(y[1], y[2])'
  BY <1>4, PlacedKept
<1>6. QED
  BY <1>5 DEF AllPlaced

\* What a worker holds well, it holds well after any step that leaves it to it.
LEMMA HeldKept ==
    ASSUME [Next]_vars, AllHeldWell,
           \A w \in Workers : held'[w] # NoCopy =>
               held'[w] = held[w] \/ HeldWell(w, held'[w])
    PROVE  AllHeldWell'
<1>1. \A w \in Workers : T(w)' = T(w)
  BY PlanKept
<1>2. QED
  BY <1>1 DEF AllHeldWell, HeldWell, Own, Fresh

\* Every step keeps failed copies on their way, in a deployment kept apart.
LEMMA StepOnWay ==
    ASSUME TypeOK, DeclaredInv, KeptApart, WayInv, [Next]_vars
    PROVE  WayInv'
<1>1. AllPlaced /\ AllHeldWell /\ dropped = {}
  BY WayInvParts
<1>2. SUFFICES AllPlaced' /\ AllHeldWell' /\ dropped' = {}
  BY DEF WayInv, AllPlaced, AllHeldWell, Placed, HeldWell
<1>3. ASSUME NEW m \in Messages, Publish(m)
      PROVE  AllPlaced' /\ AllHeldWell' /\ dropped' = {}
  <2> DEFINE d == [msg |-> m, count |-> 0, app |-> NoApp, home |-> NoQueue,
                   endpoint |-> NoEndpoint]
             qs == Routed(Settings.primaryExchange, m)
  <2>1. \A x \in qs : Placed(x, d)
    BY DEF Placed, Fresh
  <2>2. ready' = ready (+) In(qs, d) /\ held' = held /\ dropped' = dropped
    BY <1>3 DEF Publish
  <2> HIDE DEF d, qs
  <2>3. QED
    BY <1>1, <2>1, <2>2, RoutedPlaced, HeldKept
<1>4. ASSUME NEW p \in DOMAIN ready, RetryExpires(p[1], p[2])
      PROVE  AllPlaced' /\ AllHeldWell' /\ dropped' = {}
  <2> DEFINE back == Routed(queues[p[1]].exchange, queues[p[1]].key) \ {p[1]}
  <2>1. p[1] \in DOMAIN queues /\ Placed(p[1], p[2]) /\ queues[p[1]] # Plain
    BY <1>1, <1>4 DEF AllPlaced, TypeOK, RetryExpires
  <2>2. back # {} /\ \A x \in back : Placed(x, p[2])
    BY <2>1, ExpiryPlaced
  <2>3. /\ ready' = BagRemove(ready, <<p[1], p[2]>>) (+) In(back, p[2])
        /\ held' = held /\ dropped' = dropped \cup Lost(back, p[2])
    BY <1>4 DEF RetryExpires
  <2> HIDE DEF back
  <2>4. dropped' = {}
    BY <1>1, <2>2, <2>3 DEF Lost
  <2>5. QED
    BY <1>1, <2>2, <2>3, <2>4, RoutedPlaced, HeldKept
<1>5. ASSUME NEW p \in DOMAIN ready, Replay(p[1], p[2])
      PROVE  AllPlaced' /\ AllHeldWell' /\ dropped' = {}
  <2> DEFINE d == p[2]
             to == Routed(d.endpoint[1], d.endpoint[2])
  <2>1. PICK again \in Replayed(d) :
           /\ ready' = BagRemove(ready, <<p[1], d>>) (+) In(to, again)
           /\ dropped' = dropped \cup Lost(to, again)
    BY <1>5 DEF Replay
  <2>2. d.endpoint # NoEndpoint /\ held' = held /\ Placed(p[1], d)
    BY <1>1, <1>5 DEF Replay, AllPlaced
  <2>3. to # {} /\ \A x \in to : Placed(x, again)
    BY <2>1, <2>2, ReplayPlaced
  <2> HIDE DEF d, to
  <2>4. dropped' = {}
    BY <1>1, <2>1, <2>3 DEF Lost
  <2>5. QED
    BY <1>1, <2>1, <2>2, <2>3, <2>4, RoutedPlaced, HeldKept
<1>6. ASSUME NEW w \in Workers, Start(w)
      PROVE  AllPlaced' /\ AllHeldWell' /\ dropped' = {}
  <2>1. ready' = ready /\ held' = held /\ dropped' = dropped
    BY <1>6 DEF Start, DeclarePrimary, DeclareRetry, DeclareError, Declare
  <2>2. AllPlaced'
    BY <1>1, <2>1, PlacedKept DEF AllPlaced
  <2>3. QED
    BY <1>1, <2>1, <2>2, HeldKept
<1>7. ASSUME NEW w \in Workers, NEW p \in DOMAIN ready, Deliver(w, p[2]) \/ Ignore(w, p[2])
      PROVE  AllPlaced' /\ AllHeldWell' /\ dropped' = {}
  <2> DEFINE d == p[2]
             q == T(w).primaryQueue
  <2>1. Placed(q, d) /\ ready' = BagRemove(ready, <<q, d>>)
    <3>1. <<q, d>> \in DOMAIN ready /\ ready' = BagRemove(ready, <<q, d>>)
      BY <1>7 DEF Deliver, Ignore
    <3>2. QED
      BY <1>1, <3>1 DEF AllPlaced
  <2>2. Fresh(d) \/ (Own(T(w), d) /\ d.endpoint = NoEndpoint)
    BY <2>1, OwnQueue DEF Placed
  <2>3. AllPlaced'
    <3>1. \A x \in {} : Placed(x, d)
      OBVIOUS
    <3> HIDE DEF d, q
    <3>2. QED
      BY <1>1, <2>1, <3>1, RoutedPlaced
  <2>4. CASE Deliver(w, d)
    <3>1. HeldWell(w, d)
      BY <2>2, <2>4 DEF Deliver, ShouldProcess, HeldWell, Fresh
    <3>2. held' = [held EXCEPT ![w] = d] /\ dropped' = dropped
      BY <2>4 DEF Deliver
    <3>3. \A v \in Workers : held'[v] = held[v] \/ (v = w /\ held'[v] = d)
      BY <3>2 DEF TypeOK
    <3>4. AllHeldWell'
      BY <1>1, <3>1, <3>3, HeldKept
    <3>5. QED
      BY <1>1, <2>3, <3>2, <3>4
  <2>5. CASE Ignore(w, d)
    <3>1. d.home = NoQueue
      BY <2>2, <2>5 DEF Ignore, ShouldProcess, Fresh, Own
    <3>2. held' = held /\ dropped' = dropped
      BY <2>5, <3>1 DEF Ignore
    <3>3. AllHeldWell'
      BY <1>1, <3>2, HeldKept
    <3>4. QED
      BY <1>1, <2>3, <3>2, <3>3
  <2>6. QED
    BY <1>7, <2>4, <2>5
<1>8. ASSUME NEW w \in Workers, Succeed(w) \/ Ack(w)
      PROVE  AllPlaced' /\ AllHeldWell' /\ dropped' = {}
  <2>1. ready' = ready /\ dropped' = dropped
    BY <1>8 DEF Succeed, Ack
  <2>2. \A v \in Workers : held'[v] \in {held[v], NoCopy}
    BY <1>8 DEF Succeed, Ack, TypeOK
  <2>3. AllPlaced'
    BY <1>1, <2>1, PlacedKept DEF AllPlaced
  <2>4. AllHeldWell'
    BY <1>1, <2>2, HeldKept
  <2>5. QED
    BY <1>1, <2>1, <2>3, <2>4
<1>9. ASSUME NEW w \in Workers, ScheduleRetry(w) \/ DeadLetter(w)
      PROVE  AllPlaced' /\ AllHeldWell' /\ dropped' = {}
  <2> DEFINE d == held[w]
  <2>1. pc[w] \in Up /\ HeldWell(w, d)
    BY <1>1, <1>9 DEF ScheduleRetry, DeadLetter, Up, Busy, TypeOK, AllHeldWell
  <2>2. PICK qs, copy :
          /\ qs # {} /\ \A x \in qs : Placed(x, copy)
          /\ ready' = ready (+) In(qs, copy)
          /\ dropped' = dropped \cup Lost(qs, copy)
    <3>1. CASE ScheduleRetry(w)
      BY <2>1, <3>1, SendPlaced DEF ScheduleRetry, Send
    <3>2. CASE DeadLetter(w)
      BY <2>1, <3>2, SendPlaced DEF DeadLetter, Send
    <3>3. QED
      BY <1>9, <3>1, <3>2
  <2>3. held' = held
    BY <1>9 DEF ScheduleRetry, DeadLetter, Send
  <2>4. dropped' = {}
    BY <1>1, <2>2 DEF Lost
  <2>5. QED
    BY <1>1, <2>2, <2>3, <2>4, RoutedPlaced, HeldKept
<1>10. ASSUME NEW w \in Workers, Crash(w)
      PROVE  AllPlaced' /\ AllHeldWell' /\ dropped' = {}
  <2>1. \A v \in Workers : held'[v] \in {held[v], NoCopy}
    BY <1>10 DEF Crash, TypeOK
  <2>2. AllHeldWell' /\ dropped' = {}
    BY <1>1, <1>10, <2>1, HeldKept DEF Crash
  <2>3. CASE pc[w] \in Busy
    <3>1. HeldWell(w, held[w]) /\ Reachable(w)
      BY <1>1, <2>3 DEF AllHeldWell, TypeOK, DeclaredInv, Busy
    <3>2. Placed(T(w).primaryQueue, held[w])
      BY <3>1 DEF HeldWell, Placed, OnItsWay
    <3>3. ready' = ready (+) In({T(w).primaryQueue}, held[w])
      BY <1>10, <2>3 DEF Crash
    <3>4. \A x \in {T(w).primaryQueue} : Placed(x, held[w])
      BY <3>2
    <3>5. QED
      BY <1>1, <2>2, <3>3, <3>4, RoutedPlaced
  <2>4. CASE pc[w] \notin Busy
    <3>1. ready' = ready
      BY <1>10, <2>4 DEF Crash
    <3>2. QED
      BY <1>1, <2>2, <3>1, PlacedKept DEF AllPlaced
  <2>5. QED
    BY <2>3, <2>4
<1>11. CASE UNCHANGED vars
  <2>1. ready' = ready /\ held' = held /\ dropped' = dropped
    BY <1>11 DEF vars
  <2>2. AllPlaced'
    BY <1>1, <2>1, PlacedKept DEF AllPlaced
  <2>3. QED
    BY <1>1, <2>1, <2>2, HeldKept
<1>12. QED
  BY <1>3, <1>4, <1>5, <1>6, <1>7, <1>8, <1>9, <1>10, <1>11
     DEF Next, Work, Consume, Expire

\* Being kept apart is said of the deployment, which stays.
LEMMA ApartKept == ASSUME [Next]_vars PROVE KeptApart' <=> KeptApart
<1>1. \A w \in Workers : T(w)' = T(w)
  BY PlanKept
<1>2. QED
  BY <1>1 DEF KeptApart

\* In a deployment that is kept apart every copy which failed is on its endpoint's
\* way, from the queue it failed on over retry and error queue back to that queue
\* (schedule_retry, the retry queue's arguments, dead_letter, the second binding).
THEOREM OnWay == Spec => [](KeptApart => WayInv)
<1>1. Init => WayInv
  <2> SUFFICES ASSUME Init PROVE WayInv
    OBVIOUS
  <2>1. DOMAIN ready = {}
    BY DEF Init, EmptyBag, SetToBag
  <2>2. QED
    BY <2>1 DEF Init, WayInv
<1>2. ASSUME TypeOK, DeclaredInv, KeptApart => WayInv, [Next]_vars
      PROVE  (KeptApart => WayInv)'
  BY <1>2, ApartKept, StepOnWay
<1>3. QED
  BY <1>1, <1>2, TypeCorrect, PTL DEF Spec

\* "A retry must return to the queue it failed on and to nothing else", for any
\* number of endpoints kept apart, under one app name or several.
THEOREM ComesHome == Spec => []RetryComesHome
<1>1. (KeptApart => WayInv) => RetryComesHome
  <2> SUFFICES ASSUME KeptApart, WayInv PROVE RetryComesHome
    BY DEF RetryComesHome
  <2>0. AllPlaced /\ AllHeldWell
    BY WayInvParts
  <2>1. ASSUME NEW p \in DOMAIN ready, p[1] \in PrimaryQueues
        PROVE  p[2].home \in {p[1], NoQueue}
    <3>1. PICK w \in Workers : p[1] = T(w).primaryQueue
      BY <2>1 DEF PrimaryQueues
    <3>2. Placed(T(w).primaryQueue, p[2])
      BY <2>0, <3>1 DEF AllPlaced
    <3>3. QED
      BY <3>1, <3>2, OwnQueue DEF Placed, Own, Fresh
  <2>2. ASSUME NEW w \in Workers, held[w] # NoCopy
        PROVE  held[w].home \in {T(w).primaryQueue, NoQueue}
    BY <2>0, <2>2 DEF AllHeldWell, HeldWell, Own, Fresh
  <2>3. QED
    BY <2>1, <2>2 DEF RetryComesHome
<1>2. QED
  BY <1>1, OnWay, PTL

\* No retry, expiry, parked copy or replay is dropped by the broker, or by a worker
\* that takes it for another endpoint's.
THEOREM NoneDropped == Spec => []NothingDropped
<1>1. (KeptApart => WayInv) => NothingDropped
  BY DEF NothingDropped, WayInv
<1>2. QED
  BY <1>1, OnWay, PTL

\* What the `endpoint` header says leads back to the queue the message failed on,
\* and only there.
THEOREM ReplayHome == Spec => []ReplayLands
<1>1. DeclaredInv /\ (KeptApart => WayInv) => ReplayLands
  <2> SUFFICES ASSUME DeclaredInv, KeptApart, WayInv,
                      NEW p \in DOMAIN ready, p[2].endpoint # NoEndpoint
               PROVE  Routed(p[2].endpoint[1], p[2].endpoint[2]) = {p[2].home}
    BY DEF ReplayLands
  <2>1. PICK v \in Workers : OnItsWay(T(v), p[1], p[2]) /\ Reachable(v)
    BY DEF WayInv, Fresh
  <2>2. p[2].endpoint = WayBack(T(v)) /\ p[2].home = T(v).primaryQueue
    BY <2>1 DEF OnItsWay, Own
  <2>3. QED
    BY <2>1, <2>2, RouteBack DEF WayBack
<1>2. QED
  BY <1>1, OnWay, TypeCorrect, PTL

-----------------------------------------------------------------------------
(* Every worker starts.                                                    *)

\* A queue that is declared again already has the arguments it is declared with.
LEMMA NeverRefused ==
    ASSUME TypeOK, DeclaredInv, PlainInv, KeptApart, NEW w \in Workers
    PROVE  /\ Declarable(T(w).primaryQueue, Plain)
           /\ Declarable(T(w).retryQueue, RetryArgs(T(w)))
           /\ Declarable(T(w).errorQueue, Plain)
<1>1. ASSUME NEW q \in {T(w).primaryQueue, T(w).errorQueue}, q \in DOMAIN queues
      PROVE  queues[q] = Plain
  <2>1. SUFFICES ASSUME queues[q] # Plain PROVE FALSE
    OBVIOUS
  <2>2. PICK v \in Workers : q = T(v).retryQueue
    BY <1>1, <2>1 DEF DeclaredInv
  <2>3. Orderly(T(w), T(v)) /\ Orderly(T(v), T(w))
    BY DEF KeptApart
  <2>4. QED
    BY <1>1, <2>2, <2>3 DEF Orderly
<1>2. ASSUME T(w).retryQueue \in DOMAIN queues
      PROVE  queues[T(w).retryQueue] = RetryArgs(T(w))
  <2>1. queues[T(w).retryQueue] # Plain
    <3>1. SUFFICES ASSUME queues[T(w).retryQueue] = Plain PROVE FALSE
      OBVIOUS
    <3>2. PICK v \in Workers : T(w).retryQueue \in {T(v).primaryQueue, T(v).errorQueue}
      BY <1>2, <3>1 DEF PlainInv
    <3>3. Orderly(T(w), T(v)) /\ Orderly(T(v), T(w))
      BY DEF KeptApart
    <3>4. QED
      BY <3>2, <3>3 DEF Orderly
  <2>2. PICK v \in Workers : T(w).retryQueue = T(v).retryQueue
                             /\ queues[T(w).retryQueue] = RetryArgs(T(v))
    BY <1>2, <2>1 DEF DeclaredInv
  <2>3. T(v) = T(w)
    BY <2>2 DEF KeptApart, Apart
  <2>4. QED
    BY <2>2, <2>3
<1>3. QED
  BY <1>1, <1>2 DEF Declarable

\* Declarations add queues without arguments only as primary and error queues.
LEMMA PlainKept ==
    ASSUME TypeOK, PlainInv, [Next]_vars
    PROVE  PlainInv'
<1>1. \A w \in Workers : T(w)' = T(w)
  BY PlanKept
<1>2. CASE \E w \in Workers : Start(w)
  <2>1. PICK w \in Workers : Start(w)
    BY <1>2
  <2>2. CASE DeclarePrimary(w) \/ DeclareError(w)
    <3>1. PICK from, q, args, bound, to :
            /\ Declare(w, from, q, args, bound, to)
            /\ \/ /\ from = {"down", "refused"} /\ q = T(w).primaryQueue /\ args = Plain
                  /\ bound = PrimaryBindings(T(w)) /\ to = "primary declared"
               \/ /\ from = {"retry declared"} /\ q = T(w).errorQueue /\ args = Plain
                  /\ bound = {ErrorBinding(T(w))} /\ to = "idle"
      BY <2>2 DEF DeclarePrimary, DeclareError
    <3>2. /\ pc[w] \in from
          /\ plan' = plan
          /\ UNCHANGED <<ready, published, held, handled, dropped, crashes, replays>>
          /\ \/ /\ pc' = [pc EXCEPT ![w] = "refused"]
                /\ queues' = queues /\ bindings' = bindings
             \/ /\ pc' = [pc EXCEPT ![w] = to]
                /\ DOMAIN queues' = DOMAIN queues \cup {q}
                /\ \A x \in DOMAIN queues : queues'[x] = queues[x]
                /\ queues'[q] = args
                /\ bindings' = bindings \cup bound
      BY <3>1, DeclareEffect
    <3>3. ASSUME NEW x \in DOMAIN queues', queues'[x] = Plain
          PROVE  (x \in DOMAIN queues /\ queues[x] = Plain) \/ x = q
      BY <3>2, <3>3
    <3>4. QED
      BY <1>1, <3>1, <3>3 DEF PlainInv
  <2>3. CASE DeclareRetry(w)
    <3>0. plan \in Plans
      BY DEF TypeOK
    <3>1. RetryArgs(T(w)) # Plain
      BY <3>0, DeclarationsTyped, TopologyAssumption
    <3>2. ASSUME NEW q \in DOMAIN queues', queues'[q] = Plain
          PROVE  q \in DOMAIN queues /\ queues[q] = Plain
      BY <2>3, <3>1, <3>2 DEF DeclareRetry, Declare, broker
    <3>3. QED
      BY <1>1, <3>2 DEF PlainInv
  <2>4. QED
    BY <2>1, <2>2, <2>3 DEF Start
<1>3. CASE ~(\E w \in Workers : Start(w))
  <2>1. queues' = queues
    BY <1>3 DEF Next, vars, broker, Publish, Expire, RetryExpires, Replay, Work, Consume,
                Deliver, Ignore, Succeed, ScheduleRetry, DeadLetter, Send, Ack, Crash
  <2>2. QED
    BY <1>1, <2>1 DEF PlainInv
<1>4. QED
  BY <1>2, <1>3

\* No declaration of a deployment that is kept apart is refused, in whatever order
\* workers declare and wherever between two declarations they die.
THEOREM NoneRefused == Spec => []AllStart
<1>1. Init => PlainInv /\ AllStart
  <2> SUFFICES ASSUME Init PROVE PlainInv /\ AllStart
    OBVIOUS
  <2>1. DOMAIN queues = {}
    BY DEF Init
  <2>2. QED
    BY <2>1 DEF Init, PlainInv, AllStart
<1>2. ASSUME TypeOK, DeclaredInv, PlainInv, AllStart, [Next]_vars
      PROVE  AllStart'
  <2>1. SUFFICES ASSUME KeptApart PROVE \A v \in Workers : pc'[v] # "refused"
    BY <1>2, ApartKept DEF AllStart
  <2>2. \A v \in Workers : pc[v] # "refused"
    BY <1>2, <2>1 DEF AllStart
  <2>3. CASE \E w \in Workers : Start(w)
    <3>1. PICK w \in Workers : Start(w)
      BY <2>3
    <3>2. \/ pc' = [pc EXCEPT ![w] = "primary declared"]
          \/ pc' = [pc EXCEPT ![w] = "retry declared"]
          \/ pc' = [pc EXCEPT ![w] = "idle"]
      BY <1>2, <2>1, <3>1, NeverRefused
         DEF Start, DeclarePrimary, DeclareRetry, DeclareError, Declare
    <3>3. QED
      BY <1>2, <2>2, <3>2 DEF TypeOK
  <2>4. CASE ~(\E w \in Workers : Start(w))
    BY <1>2, <2>2, <2>4
       DEF Next, vars, Publish, Expire, RetryExpires, Replay, Work, Consume,
           Deliver, Ignore, Succeed, ScheduleRetry, DeadLetter, Send, Ack, Crash, TypeOK
  <2>5. QED
    BY <2>3, <2>4
<1>3. TypeOK /\ DeclaredInv /\ PlainInv /\ AllStart /\ [Next]_vars => (PlainInv /\ AllStart)'
  BY <1>2, PlainKept
<1>4. QED
  BY <1>1, <1>3, TypeCorrect, PTL DEF Spec

-----------------------------------------------------------------------------
(* Retries do not multiply.                                                *)

\* Counting: a set of occurrences and a set of workers, at most n of both.
Bounded(O, W, n) ==
    IsFiniteSet(O) /\ IsFiniteSet(W) /\ Cardinality(O) + Cardinality(W) <= n

\* Less is bounded by what bounds more.
LEMMA FewerBounded ==
    ASSUME NEW O, NEW W, NEW n \in Nat, NEW k \in Nat, Bounded(O, W, n), n <= k,
           NEW P \in SUBSET O, NEW V \in SUBSET W
    PROVE  Bounded(P, V, k)
<1>1. /\ IsFiniteSet(P) /\ Cardinality(P) <= Cardinality(O)
      /\ IsFiniteSet(V) /\ Cardinality(V) <= Cardinality(W)
  BY FS_Subset DEF Bounded
<1>2. /\ Cardinality(O) \in Nat /\ Cardinality(W) \in Nat
      /\ Cardinality(P) \in Nat /\ Cardinality(V) \in Nat
  BY <1>1, FS_CardinalityType DEF Bounded
<1> QED
  BY <1>1, <1>2 DEF Bounded

\* One more of either kind needs one more in the bound.
LEMMA OneMoreBounded ==
    ASSUME NEW O, NEW W, NEW n \in Nat, Bounded(O, W, n), NEW x
    PROVE  Bounded(O \cup {x}, W, n + 1) /\ Bounded(O, W \cup {x}, n + 1)
<1>1. Cardinality(O) \in Nat /\ Cardinality(W) \in Nat
  BY FS_CardinalityType DEF Bounded
<1>2. /\ IsFiniteSet(O \cup {x}) /\ Cardinality(O \cup {x}) \in {Cardinality(O), Cardinality(O) + 1}
      /\ IsFiniteSet(W \cup {x}) /\ Cardinality(W \cup {x}) \in {Cardinality(W), Cardinality(W) + 1}
  BY FS_AddElement DEF Bounded
<1> QED
  BY <1>1, <1>2 DEF Bounded

\* Taking one of either kind leaves room for another.
LEMMA OneLessBounded ==
    ASSUME NEW O, NEW W, NEW n \in Nat, Bounded(O, W, n + 1), NEW x
    PROVE  /\ x \in O => Bounded(O \ {x}, W, n)
           /\ x \in W => Bounded(O, W \ {x}, n)
<1>1. Cardinality(O) \in Nat /\ Cardinality(W) \in Nat
  BY FS_CardinalityType DEF Bounded
<1>2. /\ IsFiniteSet(O \ {x}) /\ (x \in O => Cardinality(O \ {x}) = Cardinality(O) - 1)
      /\ IsFiniteSet(W \ {x}) /\ (x \in W => Cardinality(W \ {x}) = Cardinality(W) - 1)
  BY FS_RemoveElement DEF Bounded
<1> QED
  BY <1>1, <1>2 DEF Bounded

\* What an occurrence is.
LEMMA IsOccurrence ==
    ASSUME NEW B, NEW S
    PROVE  /\ \A p, i : <<p, i>> \in Occurrences(B, S) <=> p \in DOMAIN B \cap S /\ i \in 1..B[p]
           /\ \A e \in Occurrences(B, S) : \E p, i : e = <<p, i>>
<1>1. \A e : e \in Occurrences(B, S) <=> \E p \in DOMAIN B \cap S : e \in {p} \X (1..B[p])
  BY DEF Occurrences
<1>2. ASSUME NEW p, NEW i
      PROVE  <<p, i>> \in Occurrences(B, S) <=> p \in DOMAIN B \cap S /\ i \in 1..B[p]
  BY <1>1
<1>3. ASSUME NEW e \in Occurrences(B, S)
      PROVE  \E p, i : e = <<p, i>>
  BY <1>1
<1> QED
  BY <1>2, <1>3

\* Taking x out of a bag takes an occurrence of it.
LEMMA OccurrencesRemove ==
    ASSUME NEW B, Counted(B), NEW x \in DOMAIN B, NEW S
    PROVE  /\ Occurrences(BagRemove(B, x), S) \subseteq Occurrences(B, S) \ {<<x, B[x]>>}
           /\ x \in S => <<x, B[x]>> \in Occurrences(B, S)
<1> DEFINE C == BagRemove(B, x)
<1>0. B[x] \in Nat \ {0}
  BY DEF Counted
<1>1. ASSUME NEW p \in DOMAIN C, NEW i \in 1..C[p]
      PROVE  p \in DOMAIN B /\ i \in 1..B[p] /\ (p = x => i # B[x])
  <2>1. CASE B[x] = 1
    BY <1>0, <1>1, <2>1 DEF BagRemove
  <2>2. CASE B[x] # 1
    <3>1. DOMAIN C = DOMAIN B /\ C[p] = IF p = x THEN B[p] - 1 ELSE B[p]
      BY <1>1, <2>2 DEF BagRemove
    <3> HIDE DEF C
    <3>2. QED
      BY <1>0, <1>1, <3>1
  <2> QED
    BY <2>1, <2>2
<1> HIDE DEF C
<1>2. ASSUME NEW e \in Occurrences(C, S)
      PROVE  e \in Occurrences(B, S) /\ e # <<x, B[x]>>
  <2>1. PICK p, i : e = <<p, i>>
    BY <1>2, IsOccurrence
  <2>2. p \in DOMAIN C /\ p \in S /\ i \in 1..C[p]
    BY <1>2, <2>1, IsOccurrence
  <2>3. p \in DOMAIN B /\ i \in 1..B[p] /\ (p = x => i # B[x])
    BY <1>1, <2>2
  <2>4. e \in Occurrences(B, S)
    BY <2>1, <2>2, <2>3, IsOccurrence
  <2> QED
    BY <2>1, <2>3, <2>4
<1>3. ASSUME x \in S PROVE <<x, B[x]>> \in Occurrences(B, S)
  BY <1>0, <1>3, IsOccurrence
<1> QED
  BY <1>2, <1>3 DEF C

\* Putting in one of each element of X, of which at most y is of S, adds at most
\* one occurrence.
LEMMA OccurrencesAdd ==
    ASSUME NEW B, Counted(B), NEW X, NEW S, NEW y, X \cap S \subseteq {y}
    PROVE  \E k : Occurrences(B (+) SetToBag(X), S) \subseteq
                    IF y \in X \cap S THEN Occurrences(B, S) \cup {<<y, k>>} ELSE Occurrences(B, S)
<1> DEFINE C == B (+) SetToBag(X)
           k == C[y]
<1>1. DOMAIN C = DOMAIN B \cup X
  BY BagPlus
<1>2. \A p \in DOMAIN C : C[p] = (IF p \in DOMAIN B THEN B[p] ELSE 0) + (IF p \in X THEN 1 ELSE 0)
  BY DEF SetToBag, (+)
<1> HIDE DEF C
<1>3. ASSUME NEW p \in DOMAIN C \cap S, NEW i \in 1..C[p]
      PROVE  <<p, i>> \in Occurrences(B, S) \/ (p = y /\ y \in X \cap S /\ i = k)
  <2>1. CASE p \notin X
    <3>1. p \in DOMAIN B /\ C[p] = B[p]
      BY <1>1, <1>2, <2>1 DEF Counted
    <3>2. i \in 1..B[p]
      BY <3>1
    <3> QED
      BY <3>1, <3>2, IsOccurrence
  <2>2. CASE p \in X /\ p \in DOMAIN B
    <3>1. C[p] = B[p] + 1 /\ B[p] \in Nat /\ p = y
      BY <1>2, <2>2 DEF Counted
    <3>2. i \in 1..B[p] \/ i = C[p]
      BY <3>1
    <3> QED
      BY <2>2, <3>1, <3>2, IsOccurrence
  <2>3. CASE p \in X /\ p \notin DOMAIN B
    <3>1. C[p] = 1 /\ p = y
      BY <1>2, <2>3
    <3> QED
      BY <2>3, <3>1
  <2> QED
    BY <2>1, <2>2, <2>3
<1> HIDE DEF k
<1>4. ASSUME NEW e \in Occurrences(C, S)
      PROVE  e \in IF y \in X \cap S THEN Occurrences(B, S) \cup {<<y, k>>} ELSE Occurrences(B, S)
  <2>1. PICK p, i : e = <<p, i>>
    BY <1>4, IsOccurrence
  <2>2. p \in DOMAIN C \cap S /\ i \in 1..C[p]
    BY <1>4, <2>1, IsOccurrence
  <2> QED
    BY <1>3, <2>1, <2>2
<1> QED
  BY <1>4 DEF C

\* Four kinds of step, by what they do to the copies in S that wait and to the
\* workers that are at one.  A copy moves: one is taken, one is put in its place.
LEMMA MoveBounded ==
    ASSUME NEW B, Counted(B), NEW x \in DOMAIN B, NEW X, NEW S, NEW y, X \cap S \subseteq {y},
           X \cap S # {} => x \in S,
           NEW W, NEW n \in Nat, Bounded(Occurrences(B, S), W, n + 1)
    PROVE  Bounded(Occurrences(BagRemove(B, x) (+) SetToBag(X), S), W, n + 1)
<1> DEFINE C == BagRemove(B, x)
           O == Occurrences(B, S)
           P == Occurrences(C, S)
           Q == Occurrences(C (+) SetToBag(X), S)
<1>1. Counted(C) /\ P \subseteq O \ {<<x, B[x]>>} /\ (x \in S => <<x, B[x]>> \in O)
  BY BagMinus, OccurrencesRemove
<1>2. PICK k : Q \subseteq IF y \in X \cap S THEN P \cup {<<y, k>>} ELSE P
  BY <1>1, OccurrencesAdd
<1>3. Bounded(O, W, n + 1)
  OBVIOUS
<1> HIDE DEF C, O, P, Q
<1>4. CASE y \in X \cap S
  <2>1. Bounded(O \ {<<x, B[x]>>}, W, n)
    BY <1>1, <1>3, <1>4, OneLessBounded
  <2>2. Bounded(P, W, n)
    BY <1>1, <2>1, FewerBounded
  <2>3. Bounded(P \cup {<<y, k>>}, W, n + 1)
    BY <2>2, OneMoreBounded
  <2> QED
    BY <1>2, <1>4, <2>3, FewerBounded DEF Q, C
<1>5. CASE y \notin X \cap S
  BY <1>1, <1>2, <1>3, <1>5, FewerBounded DEF Q, C
<1> QED
  BY <1>4, <1>5

\* A worker takes a copy: if it counts as at one of S now, that was of S.
LEMMA TakeBounded ==
    ASSUME NEW B, Counted(B), NEW x \in DOMAIN B, NEW S, NEW W, NEW w, NEW V,
           V \subseteq W \/ (V \subseteq W \cup {w} /\ x \in S),
           NEW n \in Nat, Bounded(Occurrences(B, S), W, n + 1)
    PROVE  Bounded(Occurrences(BagRemove(B, x), S), V, n + 1)
<1> DEFINE O == Occurrences(B, S)
           P == Occurrences(BagRemove(B, x), S)
<1>1. P \subseteq O \ {<<x, B[x]>>} /\ (x \in S => <<x, B[x]>> \in O)
  BY OccurrencesRemove
<1>2. Bounded(O, W, n + 1)
  OBVIOUS
<1> HIDE DEF O, P
<1>3. CASE V \subseteq W
  BY <1>1, <1>2, <1>3, FewerBounded DEF P
<1>4. CASE V \subseteq W \cup {w} /\ x \in S
  <2>1. Bounded(O \ {<<x, B[x]>>}, W, n)
    BY <1>1, <1>2, <1>4, OneLessBounded
  <2>2. Bounded(O \ {<<x, B[x]>>}, W \cup {w}, n + 1)
    BY <2>1, OneMoreBounded
  <2> QED
    BY <1>1, <1>4, <2>2, FewerBounded DEF P
<1> QED
  BY <1>3, <1>4

\* A worker sends a copy on: if that is of S, it was at one of S and is no longer.
LEMMA SendBounded ==
    ASSUME NEW B, Counted(B), NEW X, NEW S, NEW y, X \cap S \subseteq {y},
           NEW W, NEW w, NEW V \in SUBSET W,
           X \cap S # {} => w \in W \ V,
           NEW n \in Nat, Bounded(Occurrences(B, S), W, n + 1)
    PROVE  Bounded(Occurrences(B (+) SetToBag(X), S), V, n + 1)
<1> DEFINE O == Occurrences(B, S)
           Q == Occurrences(B (+) SetToBag(X), S)
<1>1. PICK k : Q \subseteq IF y \in X \cap S THEN O \cup {<<y, k>>} ELSE O
  BY OccurrencesAdd
<1>2. Bounded(O, W, n + 1)
  OBVIOUS
<1> HIDE DEF O, Q
<1>3. CASE y \in X \cap S
  <2>1. Bounded(O, W \ {w}, n)
    BY <1>2, <1>3, OneLessBounded
  <2>2. Bounded(O \cup {<<y, k>>}, W \ {w}, n + 1)
    BY <2>1, OneMoreBounded
  <2>3. V \subseteq W \ {w}
    BY <1>3
  <2> QED
    BY <1>1, <1>3, <2>2, <2>3, FewerBounded DEF Q
<1>4. CASE y \notin X \cap S
  BY <1>1, <1>2, <1>4, FewerBounded DEF Q
<1> QED
  BY <1>3, <1>4

\* A copy too many comes in.
LEMMA ExtraBounded ==
    ASSUME NEW B, Counted(B), NEW X, NEW S, NEW y, X \cap S \subseteq {y},
           NEW W, NEW V \in SUBSET W, NEW n \in Nat, Bounded(Occurrences(B, S), W, n)
    PROVE  Bounded(Occurrences(B (+) SetToBag(X), S), V, n + 1)
<1> DEFINE O == Occurrences(B, S)
           Q == Occurrences(B (+) SetToBag(X), S)
<1>1. PICK k : Q \subseteq IF y \in X \cap S THEN O \cup {<<y, k>>} ELSE O
  BY OccurrencesAdd
<1>2. Bounded(O \cup {<<y, k>>}, W, n + 1)
  BY OneMoreBounded
<1> HIDE DEF O, Q
<1> QED
  BY <1>1, <1>2, FewerBounded DEF Q

\* Where the endpoint of topology t may have copies of m: those that have not failed
\* in its primary and its retry queue, those that have wherever they are.
Places(m, t) ==
    {p \in Names \X Copy :
        /\ p[2].msg = m
        /\ \/ p[2].home = t.primaryQueue
           \/ p[2].home = NoQueue /\ p[1] \in {t.primaryQueue, t.retryQueue}}

\* The copies of m of w's endpoint, waiting and being worked on, are at most n.
AtMost(m, w, n) ==
    Bounded(Occurrences(ready, Places(m, T(w))), AtWork(m, T(w).primaryQueue), n)

CopyInv == \A m \in Messages, w \in Workers : AtMost(m, w, crashes + 1)

\* No copy of a message there is before the relay has published it.
PublishedInv ==
    /\ \A p \in DOMAIN ready : p[2].msg \in published
    /\ \A w \in Workers : held[w] # NoCopy => held[w].msg \in published

\* The queues after a step that takes a copy, sends one or both hold what they held
\* and, in the queues it is sent to, the copy sent.
LEMMA WhatIsReady ==
    ASSUME TypeOK, NEW p, NEW qs, NEW d,
           \/ ready' = ready (+) In(qs, d)
           \/ ready' = BagRemove(ready, p) (+) In(qs, d)
    PROVE  DOMAIN ready' \subseteq DOMAIN ready \cup {<<x, d>> : x \in qs}
<1>1. Counted(ready)
  BY DEF TypeOK, Counted
<1>2. DOMAIN BagRemove(ready, p) \subseteq DOMAIN ready /\ Counted(BagRemove(ready, p))
  BY <1>1, BagMinus
<1> QED
  BY <1>1, <1>2, BagPlus DEF In

\* Every copy stems from a published message.
LEMMA PublishedKept ==
    ASSUME TypeOK, PublishedInv, [Next]_vars
    PROVE  PublishedInv'
<1>1. ASSUME NEW m \in Messages, Publish(m) PROVE PublishedInv'
  <2> DEFINE d == [msg |-> m, count |-> 0, app |-> NoApp, home |-> NoQueue,
                   endpoint |-> NoEndpoint]
             qs == Routed(Settings.primaryExchange, m)
  <2>1. ready' = ready (+) In(qs, d) /\ held' = held /\ published' = published \cup {m}
    BY <1>1 DEF Publish
  <2>2. d.msg = m
    OBVIOUS
  <2> HIDE DEF d, qs
  <2>3. DOMAIN ready' \subseteq DOMAIN ready \cup {<<x, d>> : x \in qs}
    BY <2>1, WhatIsReady
  <2> QED
    BY <2>1, <2>2, <2>3 DEF PublishedInv
<1>2. ASSUME NEW p \in DOMAIN ready, RetryExpires(p[1], p[2]) PROVE PublishedInv'
  <2> DEFINE back == Routed(queues[p[1]].exchange, queues[p[1]].key) \ {p[1]}
  <2>1. /\ ready' = BagRemove(ready, <<p[1], p[2]>>) (+) In(back, p[2])
        /\ held' = held /\ published' = published
    BY <1>2 DEF RetryExpires
  <2> HIDE DEF back
  <2>2. DOMAIN ready' \subseteq DOMAIN ready \cup {<<x, p[2]>> : x \in back}
    BY <2>1, WhatIsReady
  <2> QED
    BY <2>1, <2>2 DEF PublishedInv
<1>3. ASSUME NEW p \in DOMAIN ready, Replay(p[1], p[2]) PROVE PublishedInv'
  <2> DEFINE to == Routed(p[2].endpoint[1], p[2].endpoint[2])
  <2>1. PICK again \in Replayed(p[2]) :
           ready' = BagRemove(ready, <<p[1], p[2]>>) (+) In(to, again)
    BY <1>3 DEF Replay
  <2>2. again.msg = p[2].msg /\ held' = held /\ published' = published
    BY <1>3, <2>1 DEF Replay, Replayed
  <2> HIDE DEF to
  <2>3. DOMAIN ready' \subseteq DOMAIN ready \cup {<<x, again>> : x \in to}
    BY <2>1, WhatIsReady
  <2> QED
    BY <2>2, <2>3 DEF PublishedInv
<1>4. ASSUME NEW w \in Workers, Start(w) PROVE PublishedInv'
  BY <1>4 DEF Start, DeclarePrimary, DeclareRetry, DeclareError, Declare, PublishedInv
<1>5. ASSUME NEW w \in Workers, NEW p \in DOMAIN ready, Deliver(w, p[2]) \/ Ignore(w, p[2])
      PROVE  PublishedInv'
  <2>1. /\ <<T(w).primaryQueue, p[2]>> \in DOMAIN ready /\ published' = published
        /\ ready' = BagRemove(ready, <<T(w).primaryQueue, p[2]>>)
    BY <1>5 DEF Deliver, Ignore
  <2>2. DOMAIN ready' \subseteq DOMAIN ready
    BY <2>1, BagMinus DEF TypeOK, Counted
  <2>3. \A v \in Workers : held'[v] \in {held[v], p[2]}
    BY <1>5 DEF Deliver, Ignore, TypeOK
  <2> QED
    BY <2>1, <2>2, <2>3 DEF PublishedInv
<1>6. ASSUME NEW w \in Workers, Succeed(w) \/ Ack(w) PROVE PublishedInv'
  <2>1. \A v \in Workers : held'[v] \in {held[v], NoCopy}
    BY <1>6 DEF Succeed, Ack, TypeOK
  <2> QED
    BY <1>6, <2>1 DEF PublishedInv, Succeed, Ack
<1>7. ASSUME NEW w \in Workers, ScheduleRetry(w) \/ DeadLetter(w) PROVE PublishedInv'
  <2>1. PICK qs, copy : copy.msg = held[w].msg /\ ready' = ready (+) In(qs, copy)
    BY <1>7 DEF ScheduleRetry, DeadLetter, Send, Retried, Parked
  <2>2. held' = held /\ published' = published /\ held[w] # NoCopy
    BY <1>7 DEF ScheduleRetry, DeadLetter, Send, TypeOK, Busy
  <2>3. DOMAIN ready' \subseteq DOMAIN ready \cup {<<x, copy>> : x \in qs}
    BY <2>1, WhatIsReady
  <2> QED
    BY <2>1, <2>2, <2>3 DEF PublishedInv
<1>8. ASSUME NEW w \in Workers, Crash(w) PROVE PublishedInv'
  <2>1. \A v \in Workers : held'[v] \in {held[v], NoCopy}
    BY <1>8 DEF Crash, TypeOK
  <2>2. published' = published
    BY <1>8 DEF Crash
  <2>3. \A p \in DOMAIN ready' : p[2].msg \in published
    <3>1. CASE pc[w] \in Busy
      <4>1. held[w] # NoCopy /\ ready' = ready (+) In({T(w).primaryQueue}, held[w])
        BY <1>8, <3>1 DEF Crash, TypeOK
      <4>2. DOMAIN ready' \subseteq DOMAIN ready \cup {<<x, held[w]>> : x \in {T(w).primaryQueue}}
        BY <4>1, WhatIsReady
      <4>3. held[w].msg \in published
        BY <4>1 DEF PublishedInv
      <4>4. \A p \in DOMAIN ready' : p \in DOMAIN ready \/ p[2] = held[w]
        BY <4>2
      <4> QED
        BY <4>3, <4>4 DEF PublishedInv
    <3>2. CASE pc[w] \notin Busy
      BY <1>8, <3>2 DEF Crash, PublishedInv
    <3> QED
      BY <3>1, <3>2
  <2> QED
    BY <2>1, <2>2, <2>3 DEF PublishedInv
<1>9. CASE UNCHANGED vars
  BY <1>9 DEF vars, PublishedInv
<1> QED
  BY <1>1, <1>2, <1>3, <1>4, <1>5, <1>6, <1>7, <1>8, <1>9
     DEF Next, Work, Consume, Expire

\* A copy of a step's, sent to one queue, adds to the places of an endpoint at most
\* itself.
LEMMA InOne ==
    ASSUME NEW q, NEW d, NEW S
    PROVE  /\ In({q}, d) = SetToBag({<<q, d>>})
           /\ {<<q, d>>} \cap S \subseteq {<<q, d>>}
<1>1. {<<x, d>> : x \in {q}} = {<<q, d>>}
  OBVIOUS
<1> QED
  BY <1>1 DEF In

\* A fresh copy is routed to one of the two queues of an endpoint at most: only its
\* own bindings lead to either, and they are not one address.
LEMMA FreshOnce ==
    ASSUME TypeOK, DeclaredInv, KeptApart, NEW w \in Workers, NEW x, NEW k
    PROVE  ~ {T(w).primaryQueue, T(w).retryQueue} \subseteq Routed(x, k)
<1> DEFINE t == T(w)
<1>1. SUFFICES ASSUME t.primaryQueue \in Routed(x, k), t.retryQueue \in Routed(x, k)
               PROVE  FALSE
  OBVIOUS
<1>2. PICK b \in bindings : b.queue = t.primaryQueue /\ b.exchange = x /\ k \in b.keys
  BY <1>1 DEF Routed
<1>3. PICK c \in bindings : c.queue = t.retryQueue /\ c.exchange = x /\ k \in c.keys
  BY <1>1 DEF Routed
<1>4. b \in PrimaryBindings(t)
  <2>1. PICK v \in Workers : b \in BindingsOf(T(v))
    BY DEF DeclaredInv
  <2>2. b \in PrimaryBindings(T(v))
    BY <1>2, <2>1 DEF KeptApart, Orderly, BindingsOf, RetryBinding, ErrorBinding, Binding
  <2>3. T(v).primaryQueue = t.primaryQueue
    BY <1>2, <2>2, DeclarationsTyped DEF TypeOK
  <2> QED
    BY <2>2, <2>3 DEF KeptApart
<1>5. c = RetryBinding(t)
  <2>1. PICK v \in Workers : c \in BindingsOf(T(v))
    BY DEF DeclaredInv
  <2>2. c \notin PrimaryBindings(T(v))
    <3>1. T(v).primaryQueue # t.retryQueue
      BY DEF KeptApart, Orderly
    <3> QED
      BY <1>3, <3>1, DeclarationsTyped DEF TypeOK
  <2>3. c # ErrorBinding(T(v))
    BY <1>3 DEF KeptApart, Orderly, ErrorBinding, Binding
  <2>4. c = RetryBinding(T(v)) /\ T(v).retryQueue = t.retryQueue
    BY <1>3, <2>1, <2>2, <2>3 DEF BindingsOf, RetryBinding, Binding
  <2>5. T(v) = t
    BY <2>4 DEF KeptApart, Apart
  <2> QED
    BY <2>4, <2>5
<1>6. x = t.retryExchange /\ k = t.retryKey
  BY <1>3, <1>5 DEF RetryBinding, Binding
<1>7. Orderly(t, t)
  BY DEF KeptApart
<1>8. CASE b = Binding(t.primaryExchange, t.primaryQueue, t.primaryKeys)
  BY <1>2, <1>6, <1>7, <1>8 DEF Orderly, Binding
<1>9. CASE b = Binding(ReturnExchange(t), t.primaryQueue, {ReturnKey(t)})
  BY <1>2, <1>6, <1>7, <1>9, HalvesMeet DEF Orderly, Joined, Binding, WayBack, RetryAddress
<1> QED
  BY <1>4, <1>8, <1>9 DEF PrimaryBindings

\* Every step keeps an endpoint's copies of a message as few as they have to be.
LEMMA StepCopies ==
    ASSUME TypeOK, DeclaredInv, KeptApart, WayInv, PublishedInv, [Next]_vars,
           NEW m \in Messages, NEW e \in Workers, NEW t, t = T(e),
           NEW S, S = Places(m, t), NEW W, W = AtWork(m, t.primaryQueue),
           NEW V, V = AtWork(m, t.primaryQueue)',
           Bounded(Occurrences(ready, S), W, crashes + 1)
    PROVE  Bounded(Occurrences(ready', S), V, crashes' + 1)
<1>1. /\ Counted(ready) /\ AllPlaced /\ crashes \in Nat
      /\ DOMAIN ready \subseteq Names \X Copy
      /\ \A w \in Workers : T(w).primaryQueue \in Names /\ T(w).primaryQueue # NoQueue
  <2>1. \A w \in Workers : T(w).primaryQueue \in Names
    BY DeclarationsTyped DEF TypeOK
  <2>2. MaxCrashes \in Nat /\ NoQueue \notin Names
    BY TopologyAssumption
  <2>3. Counted(ready) /\ DOMAIN ready \subseteq (DOMAIN queues) \X Copy
    BY DEF TypeOK, Counted
  <2>4. DOMAIN queues \subseteq Names /\ crashes \in 0..MaxCrashes
    BY DEF TypeOK
  <2>5. crashes \in Nat
    BY <2>2, <2>4
  <2>6. DOMAIN ready \subseteq Names \X Copy
    BY <2>3, <2>4
  <2> QED
    BY <2>1, <2>2, <2>3, <2>5, <2>6, WayInvParts
<1>2. /\ \A w : w \in W <=> /\ w \in Workers /\ T(w).primaryQueue = t.primaryQueue
                            /\ pc[w] = "handling" /\ held[w].msg = m
      /\ \A w : w \in V <=> /\ w \in Workers /\ T(w).primaryQueue = t.primaryQueue
                            /\ pc'[w] = "handling" /\ held'[w].msg = m
  BY PlanKept DEF AtWork
<1>3. \A p : p \in S <=> /\ p \in Names \X Copy /\ p[2].msg = m
                         /\ \/ p[2].home = t.primaryQueue
                            \/ p[2].home = NoQueue /\ p[1] \in {t.primaryQueue, t.retryQueue}
  BY DEF Places
<1> DEFINE Fine == Bounded(Occurrences(ready', S), V, crashes' + 1)
<1>4. ASSUME NEW k \in Messages, Publish(k) PROVE Fine
  <2> DEFINE d == [msg |-> k, count |-> 0, app |-> NoApp, home |-> NoQueue,
                   endpoint |-> NoEndpoint]
             qs == Routed(Settings.primaryExchange, k)
             X == {<<x, d>> : x \in qs}
  <2>1. ready' = ready (+) SetToBag(X) /\ crashes' = crashes /\ k \notin published
    BY <1>4 DEF Publish, In
  <2>2. V = W
    BY <1>2, <1>4 DEF Publish
  <2>3. d.msg = k /\ d.home = NoQueue
    OBVIOUS
  <2>4. ~ {t.primaryQueue, t.retryQueue} \subseteq qs
    BY FreshOnce
  <2> HIDE DEF d, qs
  <2>5. \A p \in X : p[2] = d /\ p[1] \in qs /\ p = <<p[1], d>>
    OBVIOUS
  <2> HIDE DEF X
  <2>6. CASE k # m
    <3>1. X \cap S = {}
      BY <1>3, <2>3, <2>5, <2>6
    <3> QED
      BY <1>1, <2>1, <2>2, <3>1, SendBounded
  <2>7. CASE k = m
    <3>1. Occurrences(ready, S) = {}
      <4>1. \A p \in DOMAIN ready : p \notin S
        BY <1>3, <2>1, <2>7 DEF PublishedInv
      <4> QED
        BY <4>1 DEF Occurrences
    <3>2. W = {}
      <4>1. \A w \in Workers : pc[w] = "handling" => held[w].msg \in published
        BY DEF TypeOK, PublishedInv, Busy
      <4> QED
        BY <1>2, <2>1, <2>7, <4>1
    <3>3. PICK q \in {t.primaryQueue, t.retryQueue} : X \cap S \subseteq {<<q, d>>}
      <4>1. \A p \in X \cap S : /\ p[1] \in {t.primaryQueue, t.retryQueue} /\ p[1] \in qs
                                /\ p = <<p[1], d>>
        BY <1>1, <1>3, <2>3, <2>5
      <4> QED
        BY <2>4, <4>1
    <3>4. Bounded({}, {}, 0)
      BY FS_EmptySet DEF Bounded
    <3>5. Bounded(Occurrences(ready (+) SetToBag(X), S), V, 0 + 1)
      BY <1>1, <2>2, <3>1, <3>2, <3>3, <3>4, ExtraBounded
    <3>6. 0 + 1 <= crashes + 1 /\ 0 + 1 \in Nat /\ crashes + 1 \in Nat
      BY <1>1
    <3> QED
      BY <2>1, <3>5, <3>6, FewerBounded
  <2> QED
    BY <2>6, <2>7
<1>5. ASSUME NEW p \in DOMAIN ready, RetryExpires(p[1], p[2]) PROVE Fine
  <2>0. p = <<p[1], p[2]>>
    BY <1>1
  <2>1. p[1] \in DOMAIN queues /\ queues[p[1]] # Plain
    BY <1>5 DEF TypeOK, RetryExpires
  <2>2. PICK v \in Workers :
          p[1] = T(v).retryQueue /\ queues[p[1]] = RetryArgs(T(v)) /\ Reachable(v)
    BY <2>1 DEF DeclaredInv
  <2>3. Routed(queues[p[1]].exchange, queues[p[1]].key) \ {p[1]} = {T(v).primaryQueue}
    <3>1. Routed(queues[p[1]].exchange, queues[p[1]].key) = {T(v).primaryQueue}
      BY <2>2, RouteBack DEF RetryArgs
    <3>2. T(v).primaryQueue # p[1]
      BY <2>2 DEF KeptApart, Orderly
    <3> QED
      BY <3>1, <3>2
  <2> DEFINE y == <<T(v).primaryQueue, p[2]>>
  <2>4. /\ ready' = BagRemove(ready, p) (+) SetToBag({y}) /\ crashes' = crashes
        /\ {y} \cap S \subseteq {y}
    <3>1. ready' = BagRemove(ready, <<p[1], p[2]>>) (+) In({T(v).primaryQueue}, p[2])
      BY <1>5, <2>3 DEF RetryExpires
    <3> QED
      BY <1>5, <2>0, <3>1, InOne DEF RetryExpires
  <2>5. V = W
    BY <1>2, <1>5 DEF RetryExpires
  <2>6. y \in S => p \in S
    <3>1. SUFFICES ASSUME y \in S, p[2].home = NoQueue PROVE p[1] \in {t.primaryQueue, t.retryQueue}
      BY <1>1, <1>3
    <3>2. T(v).primaryQueue \in {t.primaryQueue, t.retryQueue}
      BY <1>1, <1>3, <3>1
    <3>3. T(v) = t
      BY <3>2 DEF KeptApart, Orderly
    <3> QED
      BY <2>2, <3>3
  <2> HIDE DEF y
  <2>7. {y} \cap S # {} => p \in S
    BY <2>6
  <2> QED
    BY <1>1, <2>4, <2>5, <2>7, MoveBounded
<1>6. ASSUME NEW p \in DOMAIN ready, Replay(p[1], p[2]) PROVE Fine
  <2>1. p[2].endpoint # NoEndpoint /\ p = <<p[1], p[2]>> /\ Placed(p[1], p[2])
    BY <1>1, <1>6 DEF Replay, AllPlaced
  <2>2. PICK v \in Workers : OnItsWay(T(v), p[1], p[2]) /\ Reachable(v)
    BY <2>1 DEF Placed, Fresh
  <2>3. Routed(p[2].endpoint[1], p[2].endpoint[2]) = {T(v).primaryQueue}
    <3>1. p[2].endpoint = WayBack(T(v))
      BY <2>1, <2>2 DEF OnItsWay
    <3> QED
      BY <2>2, <3>1, RouteBack DEF WayBack
  <2>4. PICK again \in Replayed(p[2]) :
          ready' = BagRemove(ready, p) (+) In({T(v).primaryQueue}, again)
    BY <1>6, <2>1, <2>3 DEF Replay
  <2> DEFINE y == <<T(v).primaryQueue, again>>
  <2>5. /\ ready' = BagRemove(ready, p) (+) SetToBag({y}) /\ crashes' = crashes
        /\ {y} \cap S \subseteq {y}
    BY <1>6, <2>4, InOne DEF Replay
  <2>6. V = W
    BY <1>2, <1>6 DEF Replay
  <2>7. y \in S => p \in S
    <3>1. again.msg = p[2].msg /\ again.home = p[2].home
      BY <2>4 DEF Replayed
    <3>2. p[2].home # NoQueue
      BY <1>1, <2>2 DEF OnItsWay, Own
    <3> QED
      BY <1>1, <1>3, <3>1, <3>2
  <2> HIDE DEF y
  <2>8. {y} \cap S # {} => p \in S
    BY <2>7
  <2> QED
    BY <1>1, <2>5, <2>6, <2>8, MoveBounded
<1>7. ASSUME NEW w \in Workers, Start(w) \/ Succeed(w) \/ Ack(w) PROVE Fine
  <2>1. ready' = ready /\ crashes' = crashes
    BY <1>7 DEF Start, DeclarePrimary, DeclareRetry, DeclareError, Declare, Succeed, Ack
  <2>2. \A v \in Workers : pc'[v] = "handling" => pc[v] = "handling" /\ held'[v] = held[v]
    BY <1>7 DEF Start, DeclarePrimary, DeclareRetry, DeclareError, Declare, Succeed, Ack, TypeOK
  <2>3. V \subseteq W
    BY <1>2, <2>2
  <2>4. crashes + 1 \in Nat /\ crashes + 1 <= crashes + 1
    BY <1>1
  <2> QED
    BY <2>1, <2>3, <2>4, FewerBounded
<1>8. ASSUME NEW w \in Workers, NEW p \in DOMAIN ready, Deliver(w, p[2]) PROVE Fine
  <2> DEFINE d == p[2]
             x == <<T(w).primaryQueue, d>>
  <2>1. x \in DOMAIN ready /\ ready' = BagRemove(ready, x) /\ crashes' = crashes
    BY <1>8 DEF Deliver
  <2>2. \A v \in Workers : v # w => pc'[v] = pc[v] /\ held'[v] = held[v]
    BY <1>8 DEF Deliver, TypeOK
  <2>3. held'[w] = d
    BY <1>8 DEF Deliver, TypeOK
  <2>4. V \subseteq W \cup {w}
    BY <1>2, <2>2
  <2>5. w \in V => x \in S
    <3>1. SUFFICES ASSUME T(w).primaryQueue = t.primaryQueue, d.msg = m PROVE x \in S
      BY <1>2, <2>3
    <3>2. Placed(T(w).primaryQueue, d)
      BY <1>1, <2>1 DEF AllPlaced
    <3>3. d.home \in {NoQueue, T(w).primaryQueue}
      BY <3>2, OwnQueue DEF Placed, Fresh, Own
    <3>4. x[1] = t.primaryQueue /\ x[2] = d /\ x \in Names \X Copy
      BY <1>1, <2>1, <3>1
    <3> QED
      BY <1>3, <3>1, <3>3, <3>4
  <2> HIDE DEF x, d
  <2>6. V \subseteq W \/ (V \subseteq W \cup {w} /\ x \in S)
    BY <2>4, <2>5
  <2> QED
    BY <1>1, <2>1, <2>6, TakeBounded
<1>9. ASSUME NEW w \in Workers, NEW p \in DOMAIN ready, Ignore(w, p[2]) PROVE Fine
  <2> DEFINE x == <<T(w).primaryQueue, p[2]>>
  <2>1. x \in DOMAIN ready /\ ready' = BagRemove(ready, x) /\ crashes' = crashes
    BY <1>9 DEF Ignore
  <2>2. V = W
    BY <1>2, <1>9 DEF Ignore
  <2> HIDE DEF x
  <2> QED
    BY <1>1, <2>1, <2>2, TakeBounded
<1>10. ASSUME NEW w \in Workers, ScheduleRetry(w) \/ DeadLetter(w) PROVE Fine
  <2>1. pc[w] = "handling" /\ pc' = [pc EXCEPT ![w] = "ack"] /\ held' = held /\ crashes' = crashes
    BY <1>10 DEF ScheduleRetry, DeadLetter, Send
  <2>2. RetryBinding(T(w)) \in bindings /\ ErrorBinding(T(w)) \in bindings
    BY <2>1 DEF DeclaredInv, Up, Busy
  <2>3. PICK q, copy : /\ ready' = ready (+) In({q}, copy)
                       /\ copy.msg = held[w].msg /\ copy.home = T(w).primaryQueue
    <3>1. CASE ScheduleRetry(w)
      <4>1. ready' = ready (+) In({T(w).retryQueue}, Retried(T(w), held[w]))
        BY <2>2, <3>1, RouteRetry DEF ScheduleRetry, Send
      <4>2. /\ Retried(T(w), held[w]).msg = held[w].msg
            /\ Retried(T(w), held[w]).home = T(w).primaryQueue
        BY DEF Retried
      <4> QED
        BY <4>1, <4>2
    <3>2. CASE DeadLetter(w)
      <4>1. ready' = ready (+) In({T(w).errorQueue}, Parked(T(w), held[w]))
        BY <2>2, <3>2, RouteError DEF DeadLetter, Send
      <4>2. /\ Parked(T(w), held[w]).msg = held[w].msg
            /\ Parked(T(w), held[w]).home = T(w).primaryQueue
        BY DEF Parked
      <4> QED
        BY <4>1, <4>2
    <3> QED
      BY <1>10, <3>1, <3>2
  <2> DEFINE y == <<q, copy>>
  <2>4. ready' = ready (+) SetToBag({y}) /\ {y} \cap S \subseteq {y}
    BY <2>3, InOne
  <2>5. V \in SUBSET W /\ w \notin V
    BY <1>2, <2>1 DEF TypeOK
  <2>6. y \in S => w \in W
    <3>1. SUFFICES ASSUME y \in S PROVE copy.msg = m /\ copy.home = t.primaryQueue
      BY <1>2, <2>1, <2>3
    <3>2. y[2] = copy /\ copy.home # NoQueue
      BY <1>1, <2>3
    <3> QED
      BY <1>3, <3>1, <3>2
  <2> HIDE DEF y
  <2>7. {y} \cap S # {} => w \in W \ V
    BY <2>5, <2>6
  <2> QED
    BY <1>1, <2>1, <2>4, <2>5, <2>7, SendBounded
<1>11. ASSUME NEW w \in Workers, Crash(w) PROVE Fine
  <2>1. crashes' = crashes + 1 /\ crashes + 1 \in Nat /\ crashes' + 1 \in Nat
    BY <1>1, <1>11 DEF Crash
  <2>2. V \in SUBSET W
    <3>1. \A v \in Workers : pc'[v] = "handling" => pc[v] = "handling" /\ held'[v] = held[v]
      BY <1>11 DEF Crash, TypeOK
    <3> QED
      BY <1>2, <3>1
  <2>3. CASE pc[w] \in Busy
    <3> DEFINE y == <<T(w).primaryQueue, held[w]>>
    <3>1. ready' = ready (+) SetToBag({y}) /\ {y} \cap S \subseteq {y}
      BY <1>11, <2>3, InOne DEF Crash
    <3> HIDE DEF y
    <3>2. Bounded(Occurrences(ready (+) SetToBag({y}), S), V, crashes + 1 + 1)
      BY <1>1, <2>1, <2>2, <3>1, ExtraBounded
    <3> QED
      BY <2>1, <3>1, <3>2
  <2>4. CASE pc[w] \notin Busy
    <3>1. ready' = ready
      BY <1>11, <2>4 DEF Crash
    <3>2. crashes + 1 <= crashes' + 1
      BY <1>1, <2>1
    <3> QED
      BY <2>1, <2>2, <3>1, <3>2, FewerBounded
  <2> QED
    BY <2>3, <2>4
<1>12. CASE UNCHANGED vars
  <2>1. ready' = ready /\ crashes' = crashes /\ V = W
    BY <1>2, <1>12 DEF vars
  <2> QED
    BY <2>1
<1> QED
  BY <1>4, <1>5, <1>6, <1>7, <1>8, <1>9, <1>10, <1>11, <1>12
     DEF Next, Work, Consume, Expire

\* Each endpoint that is kept apart has, of each message, one copy at most - waiting,
\* parked or with a worker - and one more for each worker that died.
THEOREM CopiesCounted == Spec => [](PublishedInv /\ (KeptApart => CopyInv))
<1>1. Init => PublishedInv /\ CopyInv
  <2> SUFFICES ASSUME Init PROVE PublishedInv /\ CopyInv
    OBVIOUS
  <2>1. DOMAIN ready = {} /\ held = [w \in Workers |-> NoCopy] /\ crashes = 0
        /\ pc = [w \in Workers |-> "down"]
    BY DEF Init, EmptyBag, SetToBag
  <2>2. PublishedInv
    BY <2>1 DEF PublishedInv
  <2>3. ASSUME NEW m \in Messages, NEW w \in Workers PROVE AtMost(m, w, crashes + 1)
    <3>1. Occurrences(ready, Places(m, T(w))) = {} /\ AtWork(m, T(w).primaryQueue) = {}
      BY <2>1 DEF Occurrences, AtWork
    <3>2. IsFiniteSet({}) /\ Cardinality({}) = 0
      BY FS_EmptySet
    <3> QED
      BY <2>1, <3>1, <3>2 DEF AtMost, Bounded
  <2> QED
    BY <2>2, <2>3 DEF CopyInv
<1>2. ASSUME TypeOK, DeclaredInv, KeptApart => WayInv, PublishedInv, KeptApart => CopyInv,
             [Next]_vars
      PROVE  PublishedInv' /\ (KeptApart => CopyInv)'
  <2>1. PublishedInv'
    BY <1>2, PublishedKept
  <2>2. ASSUME KeptApart PROVE CopyInv'
    <3>1. ASSUME NEW m \in Messages, NEW w \in Workers PROVE AtMost(m, w, crashes + 1)'
      <4>1. PICK t : t = T(w)
        OBVIOUS
      <4>2. PICK S : S = Places(m, t)
        OBVIOUS
      <4>3. PICK W : W = AtWork(m, t.primaryQueue)
        OBVIOUS
      <4>4. PICK V : V = AtWork(m, t.primaryQueue)'
        OBVIOUS
      <4>5. Bounded(Occurrences(ready, S), W, crashes + 1)
        BY <1>2, <2>2, <4>1, <4>2, <4>3 DEF CopyInv, AtMost
      <4>6. Bounded(Occurrences(ready', S), V, crashes' + 1)
        BY <1>2, <2>2, <4>1, <4>2, <4>3, <4>4, <4>5, StepCopies
      <4>7. T(w)' = t
        BY <1>2, <4>1, PlanKept
      <4> QED
        BY <4>2, <4>4, <4>6, <4>7 DEF AtMost
    <3> QED
      BY <3>1 DEF CopyInv
  <2> QED
    BY <1>2, <2>1, <2>2, ApartKept
<1>3. QED
  BY <1>1, <1>2, TypeCorrect, OnWay, PTL DEF Spec

\* Retries do not multiply: schedule_retry and dead_letter send one copy for the one
\* that is acknowledged, to one queue, and expiry and replay move it.
THEOREM RetriesDoNotMultiply == Spec => []OneCopyEach
<1>1. TypeOK /\ (KeptApart => CopyInv) => OneCopyEach
  <2> SUFFICES ASSUME TypeOK, KeptApart, CopyInv, NEW m \in Messages, NEW q \in PrimaryQueues
               PROVE  CopiesOf(m, q) <= 1 + crashes
    BY DEF OneCopyEach
  <2>1. PICK w \in Workers : q = T(w).primaryQueue
    BY DEF PrimaryQueues
  <2>2. Bounded(Occurrences(ready, Places(m, T(w))), AtWork(m, q), crashes + 1)
    BY <2>1 DEF CopyInv, AtMost
  <2>3. Occurrences(ready, Mine(m, q)) \subseteq Occurrences(ready, Places(m, T(w)))
    <3>1. DOMAIN ready \subseteq (DOMAIN queues) \X Copy /\ DOMAIN queues \subseteq Names
      BY DEF TypeOK
    <3>2. Mine(m, q) \subseteq Places(m, T(w))
      BY <2>1, <3>1 DEF Mine, Places
    <3> QED
      BY <3>2 DEF Occurrences
  <2>4. crashes \in Nat
    <3>1. MaxCrashes \in Nat /\ crashes \in 0..MaxCrashes
      BY TopologyAssumption DEF TypeOK
    <3> QED
      BY <3>1
  <2>5. crashes + 1 \in Nat /\ crashes + 1 <= crashes + 1
    BY <2>4
  <2>6. Bounded(Occurrences(ready, Mine(m, q)), AtWork(m, q), crashes + 1)
    BY <2>2, <2>3, <2>5, FewerBounded
  <2> QED
    BY <2>4, <2>6, FS_CardinalityType DEF CopiesOf, Bounded
<1>2. QED
  BY <1>1, CopiesCounted, TypeCorrect, PTL

-----------------------------------------------------------------------------
(* Retries are counted, and spent before a message is parked.              *)

\* A copy that failed has been retried no more often than its endpoint allows, and
\* exactly as often once it is parked.
Spent(d) ==
    \A w \in Workers : d.home = T(w).primaryQueue =>
        /\ d.count <= T(w).delayedRetries
        /\ d.endpoint # NoEndpoint => d.count = T(w).delayedRetries

SpentInv ==
    /\ \A p \in DOMAIN ready : Spent(p[2])
    /\ \A w \in Workers : held[w] # NoCopy => Spent(held[w])

\* The options of a worker have their types.
LEMMA OptionsTyped ==
    ASSUME TypeOK, NEW w \in Workers
    PROVE  T(w).delayedRetries \in Nat /\ T(w).primaryQueue \in Names
<1>1. T(w) \in Topologies
  BY TopologyAssumption DEF TypeOK, T
<1> QED
  BY <1>1 DEF Topologies

\* What a worker sends when its attempt failed: one retry further along, as long as
\* that is one it has, or else parked, when it has none.
LEMMA SendSpent ==
    ASSUME TypeOK, KeptApart, NEW w \in Workers, NEW d \in Copy, HeldWell(w, d), Spent(d)
    PROVE  /\ d.count < T(w).delayedRetries => Spent(Retried(T(w), d))
           /\ d.count >= T(w).delayedRetries => Spent(Parked(T(w), d))
<1>1. d.count \in Nat /\ T(w).delayedRetries \in Nat
  BY OptionsTyped DEF Copy
<1>2. \A v \in Workers : T(v).primaryQueue = T(w).primaryQueue => T(v) = T(w)
  BY DEF KeptApart
<1>3. d.endpoint = NoEndpoint /\ d.count <= T(w).delayedRetries
  BY <1>1 DEF HeldWell, Fresh, Own, Spent
<1>4. ASSUME d.count < T(w).delayedRetries PROVE Spent(Retried(T(w), d))
  <2>1. d.count + 1 <= T(w).delayedRetries
    BY <1>1, <1>4
  <2> QED
    BY <1>2, <1>3, <2>1 DEF Retried, Spent
<1>5. ASSUME d.count >= T(w).delayedRetries PROVE Spent(Parked(T(w), d))
  <2>1. d.count = T(w).delayedRetries
    BY <1>1, <1>3, <1>5
  <2> QED
    BY <1>1, <1>2, <2>1 DEF Parked, Spent
<1> QED
  BY <1>4, <1>5

\* A replay starts afresh or goes on with the counter it was parked with.
LEMMA ReplaySpent ==
    ASSUME TypeOK, NEW d \in Copy, Spent(d), NEW again \in Replayed(d)
    PROVE  Spent(again)
<1>1. d.count \in Nat /\ \A w \in Workers : T(w).delayedRetries \in Nat
  BY OptionsTyped DEF Copy
<1>2. /\ again.home = d.home /\ again.endpoint = NoEndpoint
      /\ again.count = d.count \/ again.count = 0
  BY DEF Replayed
<1> QED
  BY <1>1, <1>2 DEF Spent

\* The inductive step, once it is known what is in the queues and in hands.
LEMMA SpentKept ==
    ASSUME SpentInv, [Next]_vars, NEW d, Spent(d),
           \A p \in DOMAIN ready' : p \in DOMAIN ready \/ p[2] = d,
           \A w \in Workers : held'[w] \in {held[w], NoCopy, d}
    PROVE  SpentInv'
<1>1. \A w \in Workers : T(w)' = T(w)
  BY PlanKept
<1>2. \A p \in DOMAIN ready' : Spent(p[2])
  BY DEF SpentInv
<1>3. \A w \in Workers : held'[w] # NoCopy => Spent(held'[w])
  BY DEF SpentInv
<1>4. \A p \in DOMAIN ready' : Spent(p[2])'
  BY <1>1, <1>2 DEF Spent
<1>5. \A w \in Workers : held'[w] # NoCopy => Spent(held[w])'
  BY <1>1, <1>3 DEF Spent
<1> QED
  BY <1>4, <1>5 DEF SpentInv

\* Every step keeps the counters within what the endpoints allow.
LEMMA StepSpent ==
    ASSUME TypeOK, KeptApart, WayInv, SpentInv, [Next]_vars
    PROVE  SpentInv'
<1>1. ASSUME NEW m \in Messages, Publish(m) PROVE SpentInv'
  <2> DEFINE d == [msg |-> m, count |-> 0, app |-> NoApp, home |-> NoQueue,
                   endpoint |-> NoEndpoint]
             qs == Routed(Settings.primaryExchange, m)
  <2>1. ready' = ready (+) In(qs, d) /\ held' = held
    BY <1>1 DEF Publish
  <2>2. Spent(d)
    BY OptionsTyped, TopologyAssumption DEF Spent
  <2> HIDE DEF d, qs
  <2>3. DOMAIN ready' \subseteq DOMAIN ready \cup {<<x, d>> : x \in qs}
    BY <2>1, WhatIsReady
  <2> QED
    BY <2>1, <2>2, <2>3, SpentKept
<1>2. ASSUME NEW p \in DOMAIN ready, RetryExpires(p[1], p[2]) PROVE SpentInv'
  <2> DEFINE back == Routed(queues[p[1]].exchange, queues[p[1]].key) \ {p[1]}
  <2>1. ready' = BagRemove(ready, <<p[1], p[2]>>) (+) In(back, p[2]) /\ held' = held
    BY <1>2 DEF RetryExpires
  <2> HIDE DEF back
  <2>2. DOMAIN ready' \subseteq DOMAIN ready \cup {<<x, p[2]>> : x \in back}
    BY <2>1, WhatIsReady
  <2>3. Spent(p[2])
    BY DEF SpentInv
  <2> QED
    BY <2>1, <2>2, <2>3, SpentKept
<1>3. ASSUME NEW p \in DOMAIN ready, Replay(p[1], p[2]) PROVE SpentInv'
  <2> DEFINE to == Routed(p[2].endpoint[1], p[2].endpoint[2])
  <2>1. PICK again \in Replayed(p[2]) :
           ready' = BagRemove(ready, <<p[1], p[2]>>) (+) In(to, again)
    BY <1>3 DEF Replay
  <2>2. p[2] \in Copy /\ Spent(p[2]) /\ held' = held
    BY <1>3 DEF Replay, TypeOK, SpentInv
  <2>3. Spent(again)
    BY <2>2, ReplaySpent
  <2> HIDE DEF to
  <2>4. DOMAIN ready' \subseteq DOMAIN ready \cup {<<x, again>> : x \in to}
    BY <2>1, WhatIsReady
  <2> QED
    BY <2>2, <2>3, <2>4, SpentKept
<1>4. ASSUME NEW w \in Workers, NEW p \in DOMAIN ready, Deliver(w, p[2]) \/ Ignore(w, p[2])
      PROVE  SpentInv'
  <2>1. ready' = BagRemove(ready, <<T(w).primaryQueue, p[2]>>)
    BY <1>4 DEF Deliver, Ignore
  <2>2. DOMAIN ready' \subseteq DOMAIN ready
    BY <2>1, BagMinus DEF TypeOK, Counted
  <2>3. \A v \in Workers : held'[v] \in {held[v], p[2]}
    BY <1>4 DEF Deliver, Ignore, TypeOK
  <2>4. Spent(p[2])
    BY DEF SpentInv
  <2> QED
    BY <2>2, <2>3, <2>4, SpentKept
<1>5. ASSUME NEW w \in Workers, ScheduleRetry(w) \/ DeadLetter(w) PROVE SpentInv'
  <2>1. held[w] # NoCopy /\ held[w] \in Copy
    BY <1>5 DEF ScheduleRetry, DeadLetter, TypeOK, Busy
  <2>2. HeldWell(w, held[w]) /\ Spent(held[w])
    BY <2>1 DEF WayInv, HeldWell, SpentInv
  <2>3. PICK qs, copy : Spent(copy) /\ ready' = ready (+) In(qs, copy)
    <3>1. CASE ScheduleRetry(w)
      BY <2>1, <2>2, <3>1, SendSpent DEF ScheduleRetry, Send
    <3>2. CASE DeadLetter(w)
      BY <2>1, <2>2, <3>2, SendSpent DEF DeadLetter, Send
    <3> QED
      BY <1>5, <3>1, <3>2
  <2>4. DOMAIN ready' \subseteq DOMAIN ready \cup {<<x, copy>> : x \in qs}
    BY <2>3, WhatIsReady
  <2>5. held' = held
    BY <1>5 DEF ScheduleRetry, DeadLetter, Send
  <2> QED
    BY <2>3, <2>4, <2>5, SpentKept
<1>6. ASSUME NEW w \in Workers, Crash(w), pc[w] \in Busy PROVE SpentInv'
  <2>1. held[w] # NoCopy /\ ready' = ready (+) In({T(w).primaryQueue}, held[w])
    BY <1>6 DEF Crash, TypeOK
  <2>2. DOMAIN ready' \subseteq DOMAIN ready \cup {<<x, held[w]>> : x \in {T(w).primaryQueue}}
    BY <2>1, WhatIsReady
  <2>3. \A v \in Workers : held'[v] \in {held[v], NoCopy}
    BY <1>6 DEF Crash, TypeOK
  <2>4. Spent(held[w])
    BY <2>1 DEF SpentInv
  <2> QED
    BY <2>2, <2>3, <2>4, SpentKept
<1>7. CASE ready' = ready /\ \A w \in Workers : held'[w] \in {held[w], NoCopy}
  <2>1. \A w \in Workers : T(w)' = T(w)
    BY PlanKept
  <2> QED
    BY <1>7, <2>1 DEF SpentInv, Spent
<1>8. ASSUME NEW w \in Workers,
             Start(w) \/ Succeed(w) \/ Ack(w) \/ (Crash(w) /\ pc[w] \notin Busy)
      PROVE  SpentInv'
  <2>1. ready' = ready /\ \A v \in Workers : held'[v] \in {held[v], NoCopy}
    BY <1>8 DEF Start, DeclarePrimary, DeclareRetry, DeclareError, Declare, Succeed, Ack,
                Crash, TypeOK
  <2> QED
    BY <1>7, <2>1
<1>9. CASE UNCHANGED vars
  BY <1>7, <1>9 DEF vars
<1>10. ASSUME NEW w \in Workers, Crash(w) PROVE SpentInv'
  BY <1>6, <1>8, <1>10
<1>11. ASSUME NEW w \in Workers, Succeed(w) \/ Ack(w) PROVE SpentInv'
  BY <1>8, <1>11
<1>12. ASSUME NEW w \in Workers, Start(w) PROVE SpentInv'
  BY <1>8, <1>12
<1> QED
  BY <1>1, <1>2, <1>3, <1>4, <1>5, <1>9, <1>10, <1>11, <1>12
     DEF Next, Work, Consume, Expire

\* In a deployment kept apart the retry loop is bounded by its endpoint's own setting
\* (_recover's comparison with delayed_retries, the redelivery header carried over the
\* retry queue): no copy is delivered again more often, whatever was shared, requeued
\* or replayed on its way, and none is parked with a retry left.
RetriesSpent == KeptApart => SpentInv

THEOREM RetriesBounded == Spec => []RetriesSpent
<1>1. Init => SpentInv
  <2> SUFFICES ASSUME Init PROVE SpentInv
    OBVIOUS
  <2>1. DOMAIN ready = {}
    BY DEF Init, EmptyBag, SetToBag
  <2> QED
    BY <2>1 DEF Init, SpentInv
<1>2. ASSUME TypeOK, KeptApart => WayInv, RetriesSpent, [Next]_vars PROVE RetriesSpent'
  <2>1. ASSUME KeptApart PROVE SpentInv'
    BY <1>2, <2>1, StepSpent DEF RetriesSpent
  <2> QED
    BY <1>2, <2>1, ApartKept DEF RetriesSpent
<1> QED
  BY <1>1, <1>2, TypeCorrect, OnWay, PTL DEF Spec, RetriesSpent

=============================================================================
