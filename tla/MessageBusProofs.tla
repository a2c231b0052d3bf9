------------------------- MODULE MessageBusProofs -------------------------
(***************************************************************************)
(* What holds from one commit to the other, for any number of messages,    *)
(* relays, workers, retries and failures: theorems about the composition,  *)
(* from those about its two parts.                                         *)
(*                                                                         *)
(* The argument: every step of the bus is a step or a stutter of each      *)
(* part, so that what was proved of a part holds of it in the bus; what    *)
(* they share, the publish that is an arrival, is counted alike by both.   *)
(***************************************************************************)
EXTENDS MessageBus, TLAPS

OutP == INSTANCE OutboxRelayProofs
          WITH faults <- relayFaults, MaxFaults <- MaxRelayFaults, Unpublishable <- {}
InP == INSTANCE InboxConsumerProofs
         WITH faults <- workerFaults, MaxFaults <- MaxWorkerFaults

-----------------------------------------------------------------------------
(* The parts in the composition.                                           *)

\* The parts' assumptions about their constants.
LEMMA PartsAssumed == OutP!RelayAssumption /\ InP!ConsumerAssumption
<1>1. OutP!RelayAssumption
  BY BusAssumption DEF OutP!RelayAssumption
<1>2. MaxPublish \in Nat
  BY BusAssumption DEF MaxPublish
<1>3. In!Delivery = InP!Delivery /\ In!AllFaultKinds = InP!AllFaultKinds
  BY DEF In!Delivery, InP!Delivery, In!AllFaultKinds, InP!AllFaultKinds
<1>4. InP!ConsumerAssumption
  BY <1>2, <1>3, BusAssumption DEF InP!ConsumerAssumption
<1> QED
  BY <1>1, <1>4

\* The bus starts with both parts at their start.
LEMMA PartsStart == Init => OutP!Init /\ InP!Init
<1>1. Out!Init <=> OutP!Init
  BY DEF Out!Init, OutP!Init
<1>2. In!Init <=> InP!Init
  BY DEF In!Init, InP!Init, In!Delivery, InP!Delivery
<1> QED
  BY <1>1, <1>2 DEF Init

\* The names the theorems about the parts use stand for the parts' own steps.
LEMMA SameBroker ==
    /\ \A m : In!Arrive(m) <=> InP!Arrive(m)
    /\ \A d : In!RetryExpires(d) <=> InP!RetryExpires(d)
BY DEF In!Arrive, InP!Arrive, In!RetryExpires, InP!RetryExpires, In!Add, InP!Add,
       In!Take, InP!Take, In!Delivery, InP!Delivery, In!brokerVars, InP!brokerVars,
       In!dbVars, InP!dbVars, In!workVars, InP!workVars

LEMMA SameWork == ASSUME NEW c PROVE In!Work(c) <=> InP!Work(c)
BY DEF In!Work, InP!Work, In!Start, InP!Start, In!Receive, InP!Receive, In!Ignore,
       InP!Ignore, In!Deliver, InP!Deliver, In!DieOnMalformedId, InP!DieOnMalformedId,
       In!WasHandled, InP!WasHandled, In!Record, InP!Record, In!Commit, InP!Commit,
       In!AttemptFails, InP!AttemptFails, In!Recover, InP!Recover, In!Ack, InP!Ack,
       In!ShouldProcess, InP!ShouldProcess, In!Key, InP!Key, In!NextHandler,
       InP!NextHandler, In!RetryOrGiveUp, InP!RetryOrGiveUp, In!CommitRows,
       InP!CommitRows, In!Release, InP!Release, In!Add, InP!Add, In!Take, InP!Take,
       In!Delivery, InP!Delivery, In!InDispatch, InP!InDispatch, In!brokerVars,
       InP!brokerVars, In!dbVars, InP!dbVars, In!workVars, InP!workVars

LEMMA SameDisturb == ASSUME NEW c PROVE In!Disturb(c) <=> InP!Disturb(c)
BY DEF In!Disturb, InP!Disturb, In!Crash, InP!Crash, In!Disconnect, InP!Disconnect,
       In!CommitUnknown, InP!CommitUnknown, In!RecoverRefused, InP!RecoverRefused,
       In!Cancel, InP!Cancel, In!Fault, InP!Fault, In!Requeue, InP!Requeue,
       In!CommitRows, InP!CommitRows, In!RetryOrGiveUp, InP!RetryOrGiveUp,
       In!NextHandler, InP!NextHandler, In!Key, InP!Key, In!Release, InP!Release,
       In!Add, InP!Add, In!Delivery, InP!Delivery, In!InDispatch, InP!InDispatch,
       In!Working, InP!Working, In!Busy, InP!Busy, In!brokerVars, InP!brokerVars,
       In!dbVars, InP!dbVars, In!workVars, InP!workVars

LEMMA SameRelay ==
    ASSUME NEW r, NEW m
    PROVE  /\ Out!Request(m) <=> OutP!Request(m)
           /\ Out!FindPending(r) <=> OutP!FindPending(r)
           /\ Out!CommitPass(r) <=> OutP!CommitPass(r)
           /\ Out!PassFails(r) <=> OutP!PassFails(r)
           /\ Out!Publish(r, m) <=> OutP!Publish(r, m)
           /\ Out!PublishFails(r, m) <=> OutP!PublishFails(r, m)
<1>1. Out!Request(m) <=> OutP!Request(m)
  BY DEF Out!Request, OutP!Request, Out!Begin, OutP!Begin, Out!Schedule, OutP!Schedule,
         Out!CommitRequest, OutP!CommitRequest, Out!RollBackRequest,
         OutP!RollBackRequest, Out!requestVars, OutP!requestVars, Out!relayVars,
         OutP!relayVars
<1>2. Out!FindPending(r) <=> OutP!FindPending(r)
  <2>1. Out!Pending = OutP!Pending
    BY DEF Out!Pending, OutP!Pending
  <2>2. ASSUME NEW B PROVE Out!IsBatch(B) <=> OutP!IsBatch(B)
    <3>1. \A S : Out!Cardinality(S) = OutP!Cardinality(S)
      BY Zenon DEF Out!Cardinality, OutP!Cardinality
    <3> QED
      BY <2>1, <3>1 DEF Out!IsBatch, OutP!IsBatch
  <2> QED
    BY <2>1, <2>2 DEF Out!FindPending, OutP!FindPending, Out!requestVars, OutP!requestVars
<1>3. Out!CommitPass(r) <=> OutP!CommitPass(r)
  BY DEF Out!CommitPass, OutP!CommitPass, Out!requestVars, OutP!requestVars
<1>4. Out!PassFails(r) <=> OutP!PassFails(r)
  BY DEF Out!PassFails, OutP!PassFails, Out!Fault, OutP!Fault, Out!requestVars,
         OutP!requestVars
<1>5. Out!Publish(r, m) <=> OutP!Publish(r, m)
  BY DEF Out!Publish, OutP!Publish, Out!IsNext, OutP!IsNext, Out!Done, OutP!Done,
         Out!requestVars, OutP!requestVars
<1>6. Out!PublishFails(r, m) <=> OutP!PublishFails(r, m)
  BY DEF Out!PublishFails, OutP!PublishFails, Out!Fault, OutP!Fault, Out!IsNext,
         OutP!IsNext, Out!Done, OutP!Done, Out!requestVars, OutP!requestVars
<1> QED
  BY <1>1, <1>2, <1>3, <1>4, <1>5, <1>6

LEMMA OutStutter == ASSUME UNCHANGED outVars PROVE UNCHANGED OutP!vars
BY DEF outVars, OutP!vars, OutP!requestVars, OutP!relayVars

LEMMA InStutter == ASSUME UNCHANGED inVars PROVE UNCHANGED InP!vars
BY DEF inVars, InP!vars, InP!brokerVars, InP!dbVars, InP!workVars

\* Every step of the bus is a step or a stutter of each part.
LEMMA PartsStep ==
    ASSUME [Next]_vars
    PROVE  [OutP!Next]_(OutP!vars) /\ [InP!Next]_(InP!vars)
<1>1. CASE UNCHANGED vars
  BY <1>1, OutStutter, InStutter DEF vars
<1>2. ASSUME NEW m \in Messages, Request(m)
      PROVE  OutP!Next /\ UNCHANGED InP!vars
  BY <1>2, SameRelay, InStutter DEF Request, OutP!Next
<1>3. ASSUME NEW r \in Relays, NEW m \in Messages, Publish(r, m)
      PROVE  OutP!Next /\ InP!Next
  BY <1>3, SameRelay, SameBroker DEF Publish, OutP!Next, OutP!Pass, InP!Next
<1>4. ASSUME NEW r \in Relays, NEW m \in Messages, PublishFails(r, m)
      PROVE  OutP!Next /\ [InP!Next]_(InP!vars)
  <2>1. OutP!Next
    BY <1>4, SameRelay DEF PublishFails, OutP!Next
  <2>2. UNCHANGED inVars \/ In!Arrive(m)
    BY <1>4 DEF PublishFails
  <2> QED
    BY <2>1, <2>2, SameBroker, InStutter DEF InP!Next
<1>5. ASSUME NEW r \in Relays, Relay(r)
      PROVE  OutP!Next /\ UNCHANGED InP!vars
  BY <1>5, SameRelay, InStutter DEF Relay, OutP!Next, OutP!Pass
<1>6. ASSUME NEW d \in In!Delivery, Expire(d)
      PROVE  UNCHANGED OutP!vars /\ InP!Next
  <2>1. d \in InP!Delivery
    BY DEF In!Delivery, InP!Delivery
  <2> QED
    BY <1>6, <2>1, SameBroker, OutStutter DEF Expire, InP!Next
<1>7. ASSUME NEW c \in Consumers, Work(c) \/ Disturb(c)
      PROVE  UNCHANGED OutP!vars /\ InP!Next
  BY <1>7, SameWork, SameDisturb, OutStutter DEF Work, Disturb, InP!Next
<1> QED
  BY <1>1, <1>2, <1>3, <1>4, <1>5, <1>6, <1>7 DEF Next

\* A behaviour of the bus is one of the relays and one of the workers.
LEMMA PartsRun == Spec => OutP!Spec /\ InP!Spec
BY PartsStart, PartsStep, PTL DEF Spec, OutP!Spec, InP!Spec

\* What was proved of the parts holds of them in the bus.
LEMMA PartsInvariant ==
    Spec => [](/\ OutP!TypeOK /\ OutP!RelayInv
               /\ OutP!OnlyCommittedPublished /\ OutP!NothingForgotten
               /\ InP!TypeOK /\ InP!DedupInv /\ InP!OfferedInv)
<1>1. OutP!Spec => []OutP!TypeOK
  BY PartsAssumed, OutP!TypeCorrect
<1>2. OutP!Spec => []OutP!RelayInv
  BY PartsAssumed, OutP!RelayInvariant
<1>3. OutP!Spec => []OutP!OnlyCommittedPublished
  BY PartsAssumed, OutP!OnlyCommitted
<1>4. OutP!Spec => []OutP!NothingForgotten
  BY PartsAssumed, OutP!NoneForgotten
<1>5. InP!Spec => []InP!TypeOK
  BY PartsAssumed, InP!TypeCorrect
<1>6. InP!Spec => []InP!DedupInv
  BY PartsAssumed, InP!DedupInvariant
<1>7. InP!Spec => []InP!OfferedInv
  BY PartsAssumed, InP!OfferedOnly
<1> QED
  BY <1>1, <1>2, <1>3, <1>4, <1>5, <1>6, <1>7, PartsRun, PTL

-----------------------------------------------------------------------------
(* Where the parts meet.                                                   *)

\* A worker's step brings nothing into the queue and takes no queue away.
LEMMA WorkersAddNothing ==
    ASSUME NEW c, In!Work(c) \/ In!Disturb(c)
    PROVE  arrived' = arrived /\ (declared => declared')
<1>1. CASE In!Work(c)
  BY <1>1 DEF In!Work, In!Start, In!Receive, In!Ignore, In!Deliver, In!DieOnMalformedId,
              In!WasHandled, In!Record, In!Commit, In!AttemptFails, In!Recover, In!Ack,
              In!brokerVars
<1>2. CASE In!Disturb(c)
  BY <1>2 DEF In!Disturb, In!Crash, In!Disconnect, In!CommitUnknown, In!RecoverRefused,
              In!Cancel, In!brokerVars
<1> QED
  BY <1>1, <1>2

\* An arrival at a declared queue is counted.
LEMMA ArrivalCounted ==
    ASSUME NEW m, In!Arrive(m), declared
    PROVE  arrived' = [arrived EXCEPT ![m] = @ + 1] /\ declared'
BY DEF In!Arrive

LEMMA StepLinked ==
    ASSUME Linked, [Next]_vars
    PROVE  Linked'
<1>1. CASE UNCHANGED vars
  BY <1>1 DEF vars, outVars, inVars, Linked
<1>2. ASSUME NEW m \in Messages, Request(m) PROVE Linked'
  BY <1>2 DEF Request, Out!Request, Out!Begin, Out!Schedule, Out!CommitRequest,
              Out!RollBackRequest, inVars, Linked
<1>3. ASSUME NEW r \in Relays, NEW m \in Messages, Publish(r, m) PROVE Linked'
  BY <1>3, ArrivalCounted DEF Publish, Out!Publish, Linked
<1>4. ASSUME NEW r \in Relays, NEW m \in Messages, PublishFails(r, m) PROVE Linked'
  <2>1. CASE published' = published
    BY <1>4, <2>1 DEF PublishFails, inVars, Linked
  <2>2. CASE published' # published
    BY <1>4, <2>2, ArrivalCounted DEF PublishFails, Out!PublishFails, Linked
  <2> QED
    BY <2>1, <2>2
<1>5. ASSUME NEW r \in Relays, Relay(r) PROVE Linked'
  BY <1>5 DEF Relay, Out!FindPending, Out!CommitPass, Out!PassFails, inVars, Linked
<1>6. ASSUME NEW d \in In!Delivery, Expire(d) PROVE Linked'
  BY <1>6 DEF Expire, In!RetryExpires, outVars, Linked
<1>7. ASSUME NEW c \in Consumers, Work(c) \/ Disturb(c) PROVE Linked'
  BY <1>7, WorkersAddNothing DEF Work, Disturb, outVars, Linked
<1> QED
  BY <1>1, <1>2, <1>3, <1>4, <1>5, <1>6, <1>7 DEF Next

\* Once a worker of the reacting module has declared its queue, the queue has as
\* many arrivals as the relays have publishes: nothing they publish is dropped.
THEOREM EveryPublishArrives == Spec => []Linked
<1>1. Init => Linked
  BY DEF Init, Out!Init, In!Init, Linked
<1>2. Linked /\ [Next]_vars => Linked'
  BY StepLinked
<1> QED
  BY <1>1, <1>2, PTL DEF Spec

\* Joining the queue to the relays restrains no relay: where one has a row to publish,
\* the bound on arrivals is not reached (a row that is to be published is marked by
\* nobody, so that all its publishes so far are paid for by failures).
RelaysFree == \A r \in Relays, m \in Messages : m \in todo[r] => arrived[m] < MaxPublish

THEOREM RelaysUnhindered == Spec => []RelaysFree
<1>1. OutP!TypeOK /\ OutP!RelayInv /\ Linked => RelaysFree
  <2> SUFFICES ASSUME OutP!TypeOK, OutP!RelayInv, Linked,
                      NEW r \in Relays, NEW m \in Messages, m \in todo[r]
               PROVE  arrived[m] < MaxPublish
    BY DEF RelaysFree
  <2>1. m \in locked[r] /\ \A s \in Relays : marked[s] \subseteq locked[s]
    BY DEF OutP!TypeOK
  <2>2. row[m] = "Pending"
    BY <2>1 DEF OutP!RelayInv
  <2>3. ~OutP!MarkedBySome(m)
    BY <2>1 DEF OutP!RelayInv, OutP!MarkedBySome
  <2>4. published[m] <= relayFaults
    BY <2>2, <2>3 DEF OutP!RelayInv
  <2>5. published[m] \in Nat /\ relayFaults \in 0..MaxRelayFaults /\ MaxRelayFaults \in Nat
    BY BusAssumption DEF OutP!TypeOK
  <2>6. published[m] < 1 + MaxRelayFaults
    BY <2>4, <2>5
  <2> QED
    BY <2>6 DEF Linked, MaxPublish
<1> QED
  BY <1>1, PartsInvariant, EveryPublishArrives, PTL

-----------------------------------------------------------------------------
(* The promise, from commit to commit.                                     *)

\* What the workers have been offered has been committed.
LEMMA OfferedCommitted ==
    ASSUME OutP!OnlyCommittedPublished, Linked
    PROVE  InP!Accepted \subseteq Committed
BY DEF OutP!OnlyCommittedPublished, Linked, InP!Accepted, Committed

\* No step takes a commit back, and a step that commits is the use case's alone.
LEMMA CommitsKept ==
    ASSUME OutP!TypeOK, [Next]_vars
    PROVE  \/ Committed' = Committed
           \/ /\ \E m \in Messages : Committed' = Committed \cup {m}
              /\ UNCHANGED <<effect, parked>>
<1>0. DOMAIN tx = Messages
  BY DEF OutP!TypeOK
<1>1. CASE tx' = tx
  BY <1>1 DEF Committed
<1>2. ASSUME NEW m \in Messages, Request(m)
      PROVE  \/ Committed' = Committed
             \/ /\ \E n \in Messages : Committed' = Committed \cup {n}
                /\ UNCHANGED <<effect, parked>>
  <2>1. UNCHANGED <<effect, parked>>
    BY <1>2 DEF Request, inVars
  <2>2. CASE Out!CommitRequest(m)
    <3>1. tx' = [tx EXCEPT ![m] = "committed"]
      BY <2>2 DEF Out!CommitRequest
    <3>2. \A n \in Messages : tx'[n] = "committed" <=> n = m \/ tx[n] = "committed"
      BY <1>0, <3>1
    <3>3. Committed' = Committed \cup {m}
      BY <3>2 DEF Committed
    <3> QED
      BY <2>1, <3>3
  <2>3. CASE Out!Begin(m) \/ Out!Schedule(m) \/ Out!RollBackRequest(m)
    <3>1. \A n \in Messages : tx'[n] = "committed" <=> tx[n] = "committed"
      BY <1>0, <2>3 DEF Out!Begin, Out!Schedule, Out!RollBackRequest
    <3>2. Committed' = Committed
      BY <3>1 DEF Committed
    <3> QED
      BY <3>2
  <2> QED
    BY <1>2, <2>2, <2>3 DEF Request, Out!Request
<1>3. tx' = tx \/ \E m \in Messages : Request(m)
  BY DEF Next, vars, outVars, Publish, PublishFails, Relay, Expire, Work, Disturb,
         Out!Publish, Out!PublishFails, Out!FindPending, Out!CommitPass, Out!PassFails,
         Out!requestVars
<1> QED
  BY <1>1, <1>2, <1>3

\* Every step of the bus is a step of the promise or none: what the workers do to an
\* offered message they do to a committed one.
LEMMA StepKeepsPromise ==
    ASSUME OutP!TypeOK, InP!Accepted \subseteq Committed,
           [Next]_vars, [InP!Promise!Next]_(InP!Promise!vars)
    PROVE  [Promise!Next]_(Promise!vars)
<1>1. CASE UNCHANGED <<effect, parked>>
  <2>1. CASE Committed' = Committed
    BY <1>1, <2>1 DEF Promise!vars
  <2>2. CASE \E m \in Messages : Committed' = Committed \cup {m}
    BY <1>1, <2>2 DEF Promise!Next, Promise!Offer
  <2> QED
    BY <2>1, <2>2, CommitsKept
<1>2. CASE ~UNCHANGED <<effect, parked>>
  <2>1. Committed' = Committed
    BY <1>2, CommitsKept
  <2>2. PICK m \in Messages : (\E h \in Handlers : InP!Promise!Apply(m, h)) \/ InP!Promise!Park(m)
    BY <1>2 DEF InP!Promise!Next, InP!Promise!vars, InP!Promise!Offer
  <2>3. CASE InP!Promise!Park(m)
    <3>1. Promise!Park(m)
      BY <2>1, <2>3 DEF InP!Promise!Park, Promise!Park, InP!Accepted
    <3> QED
      BY <3>1 DEF Promise!Next
  <2>4. ASSUME NEW h \in Handlers, InP!Promise!Apply(m, h) PROVE Promise!Next
    <3>1. In!HandlersOf(m) = InP!HandlersOf(m)
      BY DEF In!HandlersOf, InP!HandlersOf
    <3>2. Promise!Apply(m, h)
      BY <2>1, <2>4, <3>1 DEF InP!Promise!Apply, Promise!Apply, InP!Accepted
    <3> QED
      BY <3>2 DEF Promise!Next
  <2> QED
    BY <2>2, <2>3, <2>4
<1> QED
  BY <1>1, <1>2

\* The bus implements the safety half of ReliableDelivery with the committed messages
\* as those offered: each effect at most once, and only for what has committed, and
\* nothing parked that has not; whatever fails on either side.
THEOREM KeepsSafePromise == Spec => Promise!SafeSpec
<1>1. InP!Spec => InP!Promise!SafeSpec
  BY PartsAssumed, InP!KeepsSafePromise
<1>2. OutP!OnlyCommittedPublished /\ Linked => InP!Accepted \subseteq Committed
  BY OfferedCommitted
<1>3. /\ OutP!TypeOK /\ InP!Accepted \subseteq Committed
      /\ [Next]_vars /\ [InP!Promise!Next]_(InP!Promise!vars)
      => [Promise!Next]_(Promise!vars)
  BY StepKeepsPromise
<1>4. Init => Promise!Init
  <2>1. ASSUME Init PROVE Committed = {}
    BY <2>1 DEF Init, Out!Init, Committed
  <2> QED
    BY <2>1 DEF Init, In!Init, Promise!Init
<1> QED
  BY <1>1, <1>2, <1>3, <1>4, PartsRun, PartsInvariant, EveryPublishArrives, PTL
     DEF Spec, Promise!SafeSpec, InP!Promise!SafeSpec

\* With workers of one endpoint, no refused copy and no Ctrl-C, a committed message is
\* at every moment a pending row or kept by the consuming side: the commit in the one
\* database is never further from the effect in the other than a retry away.
THEOREM NothingLostEndToEnd ==
    ASSUME FaultKinds \cap {"refuse", "cancel"} = {},
           \A c, d \in Consumers : AppOf[c] = AppOf[d]
    PROVE  Spec => []NothingLost
<1>1. InP!Spec => []InP!NoMessageLost
  BY PartsAssumed, InP!NoLoss
<1>2. OutP!TypeOK /\ OutP!NothingForgotten /\ InP!NoMessageLost /\ Linked => NothingLost
  <2> SUFFICES ASSUME OutP!TypeOK, OutP!NothingForgotten, InP!NoMessageLost, Linked,
                      NEW m \in Committed, row[m] # "Pending"
               PROVE  In!Kept(m)
    BY DEF NothingLost
  <2>1. m \in Messages /\ published[m] \in Nat /\ published[m] # 0
    BY DEF Committed, OutP!NothingForgotten, OutP!TypeOK
  <2>2. arrived[m] > 0
    BY <2>1 DEF Linked
  <2>3. InP!Kept(m)
    BY <2>1, <2>2 DEF InP!NoMessageLost
  <2> QED
    BY <2>3 DEF In!Kept, InP!Kept, In!HandledByAll, InP!HandledByAll, In!HandlersOf,
                InP!HandlersOf, In!InQueue, InP!InQueue, In!InHand, InP!InHand,
                In!Delivery, InP!Delivery, In!Working, InP!Working, In!InDispatch,
                InP!InDispatch
<1> QED
  BY <1>1, <1>2, PartsRun, PartsInvariant, EveryPublishArrives, PTL

=============================================================================
