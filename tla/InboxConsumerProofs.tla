------------------------ MODULE InboxConsumerProofs ------------------------
(***************************************************************************)
(* What holds of the consuming side for any number of messages, handlers,  *)
(* workers, retries and faults, and that it implements the safety half of  *)
(* ReliableDelivery: what it does to the accepted messages, to the         *)
(* committed effects and to the error queue, each of its steps does as one *)
(* step of the promise or not at all.                                      *)
(***************************************************************************)
EXTENDS InboxConsumer, TLAPS

-----------------------------------------------------------------------------
(* Lemmas on the registry and on the key a worker is on.                   *)

\* Updating a function of a set T at one place with a value of T.
LEMMA ExceptTyped ==
    ASSUME NEW S, NEW T, NEW f \in [S -> T], NEW x, NEW t \in T
    PROVE  [f EXCEPT ![x] = t] \in [S -> T]
OBVIOUS

\* The registry hands out handlers: every index of a subscriber list is one.
LEMMA SubscriberIsHandler ==
    ASSUME NEW m \in Messages, NEW i \in Nat \ {0}, i <= Len(Subscribers[m])
    PROVE  Subscribers[m][i] \in Handlers
<1>1. Subscribers[m] \in Seq(Handlers)
  BY ConsumerAssumption
<1> QED
  BY <1>1

\* A busy worker is on a handler of its message: (message_id, handler_name) is
\* a key of the inbox.
LEMMA KeyIsTyped ==
    ASSUME TypeOK, NEW c \in Consumers, pc[c] \in Busy
    PROVE  /\ held[c] \in Delivery
           /\ Key(c) \in Messages \X Handlers
<1>1. held[c] \in Delivery
  BY DEF TypeOK
<1>2. held[c].msg \in Messages
  BY <1>1 DEF Delivery
<1>3. at[c] \in Nat \ {0} /\ at[c] <= Len(Subscribers[held[c].msg])
  BY DEF TypeOK
<1>4. Subscribers[held[c].msg][at[c]] \in Handlers
  BY <1>2, <1>3, SubscriberIsHandler
<1> QED
  BY <1>1, <1>2, <1>4 DEF Key

\* Queues stay bags when a delivery is put in, and when one that is there is taken.
LEMMA QueueTyped ==
    ASSUME NEW q \in [Delivery -> Nat], NEW d \in Delivery
    PROVE  /\ Add(q, d) \in [Delivery -> Nat]
           /\ q[d] > 0 => Take(q, d) \in [Delivery -> Nat]
BY DEF Add, Take

-----------------------------------------------------------------------------
(* Type correctness.                                                       *)

\* The part of TypeOK that speaks of the workers; the rest speaks of the
\* broker and the database.
WorkersOK ==
    /\ pc \in [Consumers -> {"down", "idle"} \cup Busy]
    /\ held \in [Consumers -> Delivery \cup {NoDelivery}]
    /\ attached \in [Consumers -> BOOLEAN]
    /\ at \in [Consumers -> Nat \ {0}]
    /\ tries \in [Consumers -> 1..(ImmediateRetries + 1)]
    /\ failed \in [Consumers -> BOOLEAN]
    /\ \A c \in Consumers :
         /\ pc[c] \in Busy <=> held[c] # NoDelivery
         /\ pc[c] \in Busy => at[c] <= Len(Subscribers[held[c].msg])
         /\ pc[c] \notin Busy => at[c] = 1 /\ tries[c] = 1 /\ ~failed[c]

StoresOK ==
    /\ primary \in [Delivery -> Nat]
    /\ retry \in [Delivery -> Nat]
    /\ parked \subseteq Messages
    /\ inbox \subseteq Messages \X Handlers
    /\ effect \in [Messages \X Handlers -> Nat]
    /\ arrived \in [Messages -> 0..MaxPublish]
    /\ faults \in 0..MaxFaults

LEMMA TypeOKSplit == TypeOK <=> WorkersOK /\ StoresOK /\ declared \in BOOLEAN
BY DEF TypeOK, WorkersOK, StoresOK

\* Releasing a delivery leaves every worker well-formed.
LEMMA ReleaseTyped ==
    ASSUME WorkersOK, NEW c \in Consumers, NEW to \in {"down", "idle"}, Release(c, to)
    PROVE  WorkersOK'
<1> USE DEF WorkersOK, Release, Busy, Working, InDispatch
<1>1. /\ pc' \in [Consumers -> {"down", "idle"} \cup Busy]
      /\ held' \in [Consumers -> Delivery \cup {NoDelivery}]
      /\ attached' \in [Consumers -> BOOLEAN]
      /\ at' \in [Consumers -> Nat \ {0}]
      /\ failed' \in [Consumers -> BOOLEAN]
  OBVIOUS
<1>2. tries' \in [Consumers -> 1..(ImmediateRetries + 1)]
  BY ConsumerAssumption
<1>3. ASSUME NEW d \in Consumers
      PROVE  /\ pc'[d] \in Busy <=> held'[d] # NoDelivery
             /\ pc'[d] \in Busy => at'[d] <= Len(Subscribers[held'[d].msg])
             /\ pc'[d] \notin Busy => at'[d] = 1 /\ tries'[d] = 1 /\ ~failed'[d]
  <2>1. CASE d = c
    BY <2>1
  <2>2. CASE d # c
    <3>1. pc'[d] = pc[d] /\ held'[d] = held[d] /\ at'[d] = at[d]
      BY <2>2
    <3> QED
      BY <3>1
  <2> QED
    BY <2>1, <2>2
<1> QED
  BY <1>1, <1>2, <1>3

\* Moving on to the next handler does.
LEMMA NextHandlerTyped ==
    ASSUME WorkersOK, NEW c \in Consumers, NEW f \in BOOLEAN, pc[c] \in InDispatch,
           NextHandler(c, f), UNCHANGED <<held, attached>>
    PROVE  WorkersOK'
<1> USE DEF WorkersOK, Busy, Working, InDispatch
<1>0. held[c] \in Delivery /\ held[c].msg \in Messages
  BY DEF Delivery
<1>1. Len(Subscribers[held[c].msg]) \in Nat
  BY <1>0, ConsumerAssumption
<1>2. pc' \in [Consumers -> {"down", "idle"} \cup Busy]
  BY DEF NextHandler
<1>3. failed' \in [Consumers -> BOOLEAN]
  <2>1. failed' = [failed EXCEPT ![c] = f] /\ failed \in [Consumers -> BOOLEAN]
    BY DEF NextHandler
  <2> QED
    BY <2>1, ExceptTyped, Zenon
<1>4. at' \in [Consumers -> Nat \ {0}]
  <2>1. at' = [at EXCEPT ![c] = @ + 1] \/ at' = at
    BY DEF NextHandler
  <2>2. at[c] + 1 \in Nat \ {0}
    OBVIOUS
  <2> QED
    BY <2>1, <2>2
<1>5. tries' \in [Consumers -> 1..(ImmediateRetries + 1)]
  BY ConsumerAssumption DEF NextHandler
<1>6. ASSUME NEW d \in Consumers
      PROVE  /\ pc'[d] \in Busy <=> held'[d] # NoDelivery
             /\ pc'[d] \in Busy => at'[d] <= Len(Subscribers[held'[d].msg])
             /\ pc'[d] \notin Busy => at'[d] = 1 /\ tries'[d] = 1 /\ ~failed'[d]
  <2>1. CASE d = c
    BY <1>1, <2>1 DEF NextHandler
  <2>2. CASE d # c
    BY <2>2 DEF NextHandler
  <2> QED
    BY <2>1, <2>2
<1> QED
  BY <1>2, <1>3, <1>4, <1>5, <1>6

\* So does one more attempt.
LEMMA RetryOrGiveUpTyped ==
    ASSUME WorkersOK, NEW c \in Consumers, pc[c] \in InDispatch,
           RetryOrGiveUp(c), UNCHANGED <<held, attached>>
    PROVE  WorkersOK'
<1>1. CASE tries[c] <= ImmediateRetries
  <2> USE <1>1 DEF WorkersOK, RetryOrGiveUp, Busy, Working, InDispatch
  <2>1. tries' \in [Consumers -> 1..(ImmediateRetries + 1)]
    <3>1. tries[c] + 1 \in 1..(ImmediateRetries + 1)
      BY ConsumerAssumption
    <3> QED
      BY <3>1, ExceptTyped
  <2>2. pc' \in [Consumers -> {"down", "idle"} \cup Busy]
    OBVIOUS
  <2>3. \A d \in Consumers : pc'[d] \in Busy <=> pc[d] \in Busy
    OBVIOUS
  <2> QED
    BY <2>1, <2>2, <2>3
<1>2. CASE ~(tries[c] <= ImmediateRetries)
  BY <1>2, NextHandlerTyped DEF RetryOrGiveUp
<1> QED
  BY <1>1, <1>2

\* Every state keeps its type: queues hold deliveries whose redelivery_count is
\* within the delayed retries, a worker holds a delivery exactly while it is
\* busy, and never runs past the handlers of its message or past its attempts.
THEOREM TypeCorrect == Spec => []TypeOK
<1>1. ASSUME Init PROVE TypeOK
  <2> USE <1>1 DEF Init
  <2>1. attached \in [Consumers -> BOOLEAN] /\ failed \in [Consumers -> BOOLEAN]
    OBVIOUS
  <2>2. \A c \in Consumers : pc[c] \notin Busy
    BY DEF Busy, Working, InDispatch
  <2>3. WorkersOK
    BY <2>1, <2>2, ConsumerAssumption DEF WorkersOK
  <2>4. StoresOK
    BY ConsumerAssumption DEF StoresOK
  <2>5. declared \in BOOLEAN
    OBVIOUS
  <2> QED
    BY <2>3, <2>4, <2>5, TypeOKSplit
<1>2. ASSUME TypeOK, [Next]_vars
      PROVE  TypeOK'
  <2>0. WorkersOK /\ StoresOK
    BY <1>2, TypeOKSplit
  <2> SUFFICES WorkersOK' /\ StoresOK' /\ declared' \in BOOLEAN
    BY DEF TypeOK, WorkersOK, StoresOK
  <2>D. declared' \in BOOLEAN
    <3>1. declared \in BOOLEAN /\ (declared' = declared \/ declared' = TRUE)
      BY <1>2 DEF TypeOK, Next, Arrive, RetryExpires, Work, Disturb, Start, Receive,
            Ignore, Deliver, DieOnMalformedId, WasHandled, Record, Commit, AttemptFails,
            Recover, Ack, Crash, Disconnect, CommitUnknown, RecoverRefused, Cancel,
            vars, brokerVars
    <3> QED
      BY <3>1, Zenon
  <2>1. CASE UNCHANGED vars
    BY <2>0, <2>1, <2>D DEF WorkersOK, StoresOK, vars, brokerVars, dbVars, workVars
  <2>2. ASSUME NEW m \in Messages, Arrive(m)
        PROVE  WorkersOK' /\ StoresOK'
    <3>1. WorkersOK'
      BY <2>0, <2>2 DEF Arrive, WorkersOK, workVars
    <3>2. [msg |-> m, count |-> 0, endpoint |-> NoApp] \in Delivery
      BY ConsumerAssumption DEF Delivery
    <3>3. primary' \in [Delivery -> Nat]
      BY <2>0, <2>2, <3>2, QueueTyped DEF Arrive, StoresOK
    <3>4. arrived' \in [Messages -> 0..MaxPublish]
      <4>1. arrived' = arrived \/ arrived' = [arrived EXCEPT ![m] = @ + 1]
        BY <2>2 DEF Arrive
      <4>2. arrived[m] + 1 \in 0..MaxPublish
        BY <2>0, <2>2, ConsumerAssumption DEF Arrive, StoresOK
      <4> QED
        BY <2>0, <4>1, <4>2 DEF StoresOK
    <3>5. UNCHANGED <<retry, parked, inbox, effect, faults>>
      BY <2>2 DEF Arrive, dbVars
    <3>6. StoresOK'
      BY <2>0, <3>3, <3>4, <3>5 DEF StoresOK
    <3> QED
      BY <3>1, <3>6
  <2>3. ASSUME NEW d \in Delivery, RetryExpires(d)
        PROVE  WorkersOK' /\ StoresOK'
    BY <2>0, <2>3 DEF RetryExpires, WorkersOK, StoresOK, workVars, dbVars, Add, Take
  <2>4. ASSUME NEW c \in Consumers, Start(c)
        PROVE  WorkersOK' /\ StoresOK'
    BY <2>0, <2>4
       DEF Start, WorkersOK, StoresOK, workVars, dbVars, Busy, Working, InDispatch
  <2>5. ASSUME NEW c \in Consumers, NEW d \in Delivery, Ignore(c, d)
        PROVE  WorkersOK' /\ StoresOK'
    BY <2>0, <2>5 DEF Ignore, WorkersOK, StoresOK, workVars, dbVars, Take
  <2>6. ASSUME NEW c \in Consumers, NEW d \in Delivery, Deliver(c, d)
        PROVE  WorkersOK' /\ StoresOK'
    <3>1. StoresOK'
      BY <2>0, <2>6 DEF Deliver, StoresOK, dbVars, Take
    <3>2. d.msg \in Messages /\ Subscribers[d.msg] # <<>>
      BY <2>6 DEF Deliver, ShouldProcess, Delivery
    <3>3. 1 <= Len(Subscribers[d.msg])
      <4>1. Subscribers[d.msg] \in Seq(Handlers)
        BY <3>2, ConsumerAssumption
      <4> QED
        BY <3>2, <4>1
    <3>4. at[c] = 1
      BY <2>0, <2>6 DEF WorkersOK, Deliver, Busy, Working, InDispatch
    <3>5. attached' \in [Consumers -> BOOLEAN]
      BY <2>0, <2>6, ExceptTyped DEF WorkersOK, Deliver
    <3>6. pc' \in [Consumers -> {"down", "idle"} \cup Busy]
      BY <2>0, <2>6 DEF WorkersOK, Deliver, Busy, Working, InDispatch
    <3>7. \A e \in Consumers : pc'[e] = IF e = c THEN "attempt" ELSE pc[e]
      BY <2>0, <2>6 DEF WorkersOK, Deliver
    <3>8. \A e \in Consumers : held'[e] = IF e = c THEN d ELSE held[e]
      BY <2>0, <2>6 DEF WorkersOK, Deliver
    <3>9. "attempt" \in Busy /\ d # NoDelivery
      BY ConsumerAssumption DEF Busy, Working, InDispatch
    <3>10. WorkersOK'
      BY <2>0, <2>6, <3>3, <3>4, <3>5, <3>6, <3>7, <3>8, <3>9 DEF WorkersOK, Deliver
    <3> QED
      BY <3>1, <3>10
  <2>7. ASSUME NEW c \in Consumers, NEW d \in Delivery, DieOnMalformedId(c, d)
        PROVE  WorkersOK' /\ StoresOK'
    BY <2>0, <2>7
       DEF DieOnMalformedId, WorkersOK, StoresOK, brokerVars, workVars, dbVars,
           Busy, Working, InDispatch
  <2>8. ASSUME NEW c \in Consumers, WasHandled(c)
        PROVE  WorkersOK' /\ StoresOK'
    <3>1. StoresOK'
      BY <2>0, <2>8 DEF WasHandled, StoresOK, brokerVars, dbVars
    <3>2. CASE Key(c) \in inbox
      <4>1. failed[c] \in BOOLEAN /\ pc[c] \in InDispatch
        BY <2>0, <2>8 DEF WasHandled, WorkersOK, InDispatch
      <4> QED
        BY <2>0, <2>8, <3>1, <3>2, <4>1, NextHandlerTyped DEF WasHandled
    <3>3. CASE Key(c) \notin inbox
      BY <2>0, <2>8, <3>1, <3>3 DEF WasHandled, WorkersOK, Busy, Working, InDispatch
    <3> QED
      BY <3>2, <3>3
  <2>9. ASSUME NEW c \in Consumers, Record(c)
        PROVE  WorkersOK' /\ StoresOK'
    BY <2>0, <2>9
       DEF Record, WorkersOK, StoresOK, brokerVars, workVars, dbVars,
           Busy, Working, InDispatch
  <2>10. ASSUME NEW c \in Consumers, pc[c] = "recorded", CommitRows(c),
                UNCHANGED <<brokerVars>>, faults' \in 0..MaxFaults
         PROVE  StoresOK'
    <3>1. Key(c) \in Messages \X Handlers
      BY <1>2, <2>10, KeyIsTyped DEF Busy, Working, InDispatch
    <3> QED
      BY <2>0, <2>10, <3>1 DEF CommitRows, StoresOK, brokerVars
  <2>11. ASSUME NEW c \in Consumers, Commit(c)
         PROVE  WorkersOK' /\ StoresOK'
    <3>1. failed[c] \in BOOLEAN /\ pc[c] \in InDispatch
      BY <2>0, <2>11 DEF Commit, WorkersOK, InDispatch
    <3>2. WorkersOK'
      BY <2>0, <2>11, <3>1, NextHandlerTyped DEF Commit
    <3>3. StoresOK'
      BY <2>0, <2>10, <2>11 DEF Commit, StoresOK
    <3> QED
      BY <3>2, <3>3
  <2>12. ASSUME NEW c \in Consumers, AttemptFails(c)
         PROVE  WorkersOK' /\ StoresOK'
    <3>1. StoresOK'
      BY <2>0, <2>12 DEF AttemptFails, StoresOK, brokerVars, dbVars
    <3> QED
      BY <2>0, <2>12, <3>1, RetryOrGiveUpTyped DEF AttemptFails
  <2>13. ASSUME NEW c \in Consumers, Recover(c)
         PROVE  WorkersOK' /\ StoresOK'
    <3>1. WorkersOK'
      BY <2>0, <2>13 DEF Recover, WorkersOK, workVars, Busy, Working, InDispatch
    <3>2. held[c] \in Delivery
      BY <1>2, <2>13, KeyIsTyped DEF Recover, Busy, Working
    <3>3. CASE held[c].count >= DelayedRetries
      <4>1. held[c].msg \in Messages
        BY <3>2 DEF Delivery
      <4> QED
        BY <2>0, <2>13, <3>1, <3>3, <4>1 DEF Recover, StoresOK, dbVars
    <3>4. CASE ~(held[c].count >= DelayedRetries)
      <4>1. [msg |-> held[c].msg, count |-> held[c].count + 1, endpoint |-> AppOf[c]]
              \in Delivery
        BY <3>2, <3>4, ConsumerAssumption DEF Delivery
      <4>2. retry' \in [Delivery -> Nat]
        BY <2>0, <2>13, <3>4, <4>1, QueueTyped DEF Recover, StoresOK
      <4> QED
        BY <2>0, <2>13, <3>1, <3>4, <4>2 DEF Recover, StoresOK, dbVars
    <3> QED
      BY <3>3, <3>4
  <2>14. ASSUME NEW c \in Consumers, Ack(c)
         PROVE  WorkersOK' /\ StoresOK'
    <3>1. StoresOK'
      BY <2>0, <2>14 DEF Ack, StoresOK, brokerVars, dbVars
    <3> QED
      BY <2>0, <2>14, <3>1, ReleaseTyped DEF Ack
  <2>15. ASSUME NEW kind, Fault(kind)
         PROVE  faults' \in 0..MaxFaults
    BY <2>0, <2>15, ConsumerAssumption DEF Fault, StoresOK
  <2>16. ASSUME NEW c \in Consumers, pc[c] \in Busy, Requeue(c)
         PROVE  primary' \in [Delivery -> Nat]
    <3>1. held[c] \in Delivery
      BY <1>2, <2>16, KeyIsTyped
    <3> QED
      BY <2>0, <2>16, <3>1, QueueTyped DEF Requeue, StoresOK
  <2>17. ASSUME NEW c \in Consumers, Crash(c)
         PROVE  WorkersOK' /\ StoresOK'
    <3>1. StoresOK'
      BY <2>0, <2>15, <2>16, <2>17 DEF Crash, StoresOK, dbVars
    <3> QED
      BY <2>0, <2>17, <3>1, ReleaseTyped DEF Crash
  <2>18. ASSUME NEW c \in Consumers, Disconnect(c)
         PROVE  WorkersOK' /\ StoresOK'
    <3>1. StoresOK'
      BY <2>0, <2>15, <2>16, <2>18 DEF Disconnect, StoresOK, dbVars
    <3>2. attached' \in [Consumers -> BOOLEAN]
      BY <2>0, <2>18, ExceptTyped DEF Disconnect, WorkersOK
    <3> QED
      BY <2>0, <2>18, <3>1, <3>2 DEF Disconnect, WorkersOK
  <2>19. ASSUME NEW c \in Consumers, CommitUnknown(c)
         PROVE  WorkersOK' /\ StoresOK'
    <3>1. StoresOK'
      BY <2>10, <2>15, <2>19 DEF CommitUnknown
    <3> QED
      BY <2>0, <2>19, <3>1, RetryOrGiveUpTyped DEF CommitUnknown, InDispatch
  <2>20. ASSUME NEW c \in Consumers, RecoverRefused(c) \/ Cancel(c)
         PROVE  WorkersOK' /\ StoresOK'
    <3>1. StoresOK'
      BY <2>0, <2>15, <2>20 DEF RecoverRefused, Cancel, StoresOK, brokerVars, dbVars
    <3> QED
      BY <2>0, <2>20, <3>1, ReleaseTyped DEF RecoverRefused, Cancel
  <2> QED
    BY <1>2, <2>D, <2>1, <2>2, <2>3, <2>4, <2>5, <2>6, <2>7, <2>8, <2>9, <2>11, <2>12,
       <2>13, <2>14, <2>17, <2>18, <2>19, <2>20
       DEF Next, Work, Receive, Disturb
<1> QED
  BY <1>1, <1>2, PTL DEF Spec

-----------------------------------------------------------------------------
(* At most one committed effect per message and handler.                   *)

\* A step that leaves the database alone and brings no worker to the point of
\* committing preserves DedupInv.
LEMMA DedupStutter ==
    ASSUME DedupInv, UNCHANGED <<inbox, effect>>,
           \A d \in Consumers : pc'[d] = "recorded" =>
               pc[d] = "recorded" /\ held'[d] = held[d] /\ at'[d] = at[d]
    PROVE  DedupInv'
<1>1. \A d \in Consumers : pc'[d] = "recorded" => Key(d)' = Key(d)
  BY DEF Key
<1> QED
  BY <1>1 DEF DedupInv

\* Committing a key no other worker is about to commit preserves it, whatever
\* the committing worker does next short of recording again.
LEMMA DedupCommit ==
    ASSUME TypeOK, DedupInv, NEW c \in Consumers, pc[c] = "recorded", CommitRows(c),
           pc'[c] # "recorded",
           \A d \in Consumers \ {c} : pc'[d] = pc[d] /\ held'[d] = held[d] /\ at'[d] = at[d]
    PROVE  DedupInv'
<1>1. Key(c) \in Messages \X Handlers
  BY KeyIsTyped DEF Busy, Working, InDispatch
<1>2. effect[Key(c)] = 0 /\ Key(c) \notin inbox
  BY <1>1 DEF DedupInv
<1>3. \A k \in Messages \X Handlers : effect'[k] = IF k \in inbox' THEN 1 ELSE 0
  BY <1>1, <1>2 DEF DedupInv, CommitRows, TypeOK
<1>4. \A d \in Consumers : pc'[d] = "recorded" => d # c /\ Key(d)' = Key(d)
  BY DEF Key
<1>5. \A d \in Consumers : pc'[d] = "recorded" => pc[d] = "recorded" /\ Key(d) # Key(c)
  BY <1>4 DEF DedupInv
<1>6. \A d \in Consumers : pc'[d] = "recorded" => Key(d)' \notin inbox'
  BY <1>4, <1>5 DEF DedupInv, CommitRows
<1>7. \A d, e \in Consumers :
        pc'[d] = "recorded" /\ pc'[e] = "recorded" /\ d # e => Key(d)' # Key(e)'
  BY <1>4, <1>5 DEF DedupInv
<1> QED
  BY <1>3, <1>6, <1>7 DEF DedupInv

\* What NextHandler and RetryOrGiveUp do to a worker never makes it record, and
\* touches no other worker.
LEMMA MovesOn ==
    ASSUME TypeOK, NEW c \in Consumers,
           RetryOrGiveUp(c) \/ (\E f \in BOOLEAN : NextHandler(c, f)), UNCHANGED held
    PROVE  /\ pc'[c] \in {"attempt", "recover", "ack"}
           /\ \A d \in Consumers \ {c} :
                pc'[d] = pc[d] /\ held'[d] = held[d] /\ at'[d] = at[d]
BY DEF TypeOK, RetryOrGiveUp, NextHandler

\* The inbox table and the committed effects agree at all times, and the unique
\* constraint keeps two transactions from being about to commit one key.
THEOREM DedupInvariant == Spec => []DedupInv
<1>1. Init => DedupInv
  BY DEF Init, DedupInv
<1>2. ASSUME TypeOK, DedupInv, [Next]_vars
      PROVE  DedupInv'
  <2> DEFINE Idle == \A d \in Consumers : pc'[d] = "recorded" =>
                        pc[d] = "recorded" /\ held'[d] = held[d] /\ at'[d] = at[d]
  <2>1. CASE UNCHANGED vars
    BY <1>2, <2>1, DedupStutter DEF vars, dbVars, workVars
  <2>2. CASE (\E m \in Messages : Arrive(m)) \/ (\E d \in Delivery : RetryExpires(d))
    BY <1>2, <2>2, DedupStutter DEF Arrive, RetryExpires, dbVars, workVars
  <2>3. ASSUME NEW c \in Consumers, Start(c) \/ Receive(c)
        PROVE  DedupInv'
    <3>1. Idle
      BY <1>2, <2>3 DEF TypeOK, Start, Receive, Ignore, Deliver, DieOnMalformedId, workVars
    <3> QED
      BY <1>2, <2>3, <3>1, DedupStutter
         DEF Start, Receive, Ignore, Deliver, DieOnMalformedId, dbVars
  <2>4. ASSUME NEW c \in Consumers, WasHandled(c)
        PROVE  DedupInv'
    <3>1. Idle
      <4>1. CASE Key(c) \in inbox
        <5>1. failed[c] \in BOOLEAN
          BY <1>2 DEF TypeOK
        <5> QED
          BY <1>2, <2>4, <4>1, <5>1, MovesOn DEF WasHandled
      <4>2. CASE Key(c) \notin inbox
        BY <1>2, <2>4, <4>2 DEF WasHandled, TypeOK
      <4> QED
        BY <4>1, <4>2
    <3> QED
      BY <1>2, <2>4, <3>1, DedupStutter DEF WasHandled, dbVars
  <2>5. ASSUME NEW c \in Consumers, Record(c)
        PROVE  DedupInv'
    <3>1. \A d \in Consumers : Key(d)' = Key(d)
      BY <2>5 DEF Record, Key, workVars
    <3>2. \A d \in Consumers : pc'[d] = "recorded" => d = c \/ pc[d] = "recorded"
      BY <1>2, <2>5 DEF Record, TypeOK
    <3> QED
      BY <1>2, <2>5, <3>1, <3>2 DEF Record, DedupInv, dbVars
  <2>6. ASSUME NEW c \in Consumers, Commit(c)
        PROVE  DedupInv'
    <3>1. failed[c] \in BOOLEAN
      BY <1>2 DEF TypeOK
    <3> QED
      BY <1>2, <2>6, <3>1, MovesOn, DedupCommit DEF Commit
  <2>7. ASSUME NEW c \in Consumers, CommitUnknown(c)
        PROVE  DedupInv'
    BY <1>2, <2>7, MovesOn, DedupCommit DEF CommitUnknown
  <2>8. ASSUME NEW c \in Consumers, AttemptFails(c)
        PROVE  DedupInv'
    <3>1. Idle
      BY <1>2, <2>8, MovesOn DEF AttemptFails
    <3> QED
      BY <1>2, <2>8, <3>1, DedupStutter DEF AttemptFails, dbVars
  <2>9. ASSUME NEW c \in Consumers, Recover(c) \/ Disconnect(c)
        PROVE  DedupInv'
    <3>1. Idle
      BY <1>2, <2>9 DEF Recover, Disconnect, TypeOK, workVars
    <3> QED
      BY <1>2, <2>9, <3>1, DedupStutter DEF Recover, Disconnect, dbVars
  <2>10. ASSUME NEW c \in Consumers, NEW to \in {"down", "idle"}, Release(c, to),
                UNCHANGED dbVars
         PROVE  DedupInv'
    <3>1. Idle
      BY <1>2, <2>10 DEF Release, TypeOK
    <3> QED
      BY <1>2, <2>10, <3>1, DedupStutter DEF dbVars
  <2>11. ASSUME NEW c \in Consumers,
                Ack(c) \/ Crash(c) \/ RecoverRefused(c) \/ Cancel(c)
         PROVE  DedupInv'
    BY <2>10, <2>11 DEF Ack, Crash, RecoverRefused, Cancel
  <2> QED
    <3>1. CASE Next
      BY <3>1, <2>2, <2>3, <2>4, <2>5, <2>6, <2>7, <2>8, <2>9, <2>11
         DEF Next, Work, Disturb
    <3> QED
      BY <1>2, <2>1, <3>1
<1> QED
  BY <1>1, <1>2, TypeCorrect, PTL DEF Spec

\* No sequence of duplicates, retries, crashes, lost connections, refused
\* publishes or cancellations commits a handler's writes for a message twice.
THEOREM AtMostOnce == Spec => []AtMostOnceEffect
<1>1. DedupInv => AtMostOnceEffect
  BY DEF DedupInv, AtMostOnceEffect
<1> QED
  BY <1>1, DedupInvariant, PTL

-----------------------------------------------------------------------------
(* No message the queue accepted is lost.                                  *)

\* A queue that only grows keeps what it has; moving a delivery keeps the others.
LEMMA QueueKeeps ==
    ASSUME NEW q \in [Delivery -> Nat], NEW d \in Delivery
    PROVE  /\ Add(q, d)[d] > 0
           /\ \A e \in Delivery : q[e] > 0 => Add(q, d)[e] > 0
           /\ \A e \in Delivery : e # d /\ q[e] > 0 => Take(q, d)[e] > 0
           /\ \A e \in Delivery : Add(q, d)[e] > 0 => e = d \/ q[e] > 0
           /\ \A e \in Delivery : q[d] > 0 /\ Take(q, d)[e] > 0 => q[e] > 0
BY DEF Add, Take

\* dispatch is through with the handlers it has passed: when it ends without a
\* failure every subscriber has handled the message.
LEMMA NextHandlerKeeps ==
    ASSUME TypeOK, LossInv, NEW c \in Consumers, NEW f \in BOOLEAN,
           pc[c] \in InDispatch, NextHandler(c, f),
           f \/ (~failed[c] /\ Key(c) \in inbox'), inbox \subseteq inbox',
           UNCHANGED <<primary, retry, parked, arrived, held, attached>>
    PROVE  LossInv'
<1> DEFINE m0 == held[c].msg
<1>1. m0 \in Messages /\ at[c] \in Nat \ {0} /\ at[c] <= Len(Subscribers[m0])
  BY DEF TypeOK, Busy, Working, InDispatch, Delivery
<1>2. Len(Subscribers[m0]) \in Nat /\ DOMAIN Subscribers[m0] = 1..Len(Subscribers[m0])
  BY <1>1, ConsumerAssumption
<1>3. ASSUME ~f
      PROVE  \A i \in 1..at[c] : <<m0, Subscribers[m0][i]>> \in inbox'
  <2>1. EarlierHandled(c)
    BY <1>3 DEF LossInv
  <2> QED
    BY <1>1, <1>3, <2>1 DEF EarlierHandled, Key
<1>4. \A d \in Consumers \ {c} :
         pc'[d] = pc[d] /\ at'[d] = at[d] /\ (failed'[d] <=> failed[d])
  BY DEF NextHandler, TypeOK
<1>5. \/ pc'[c] = "attempt" /\ at'[c] = at[c] + 1
      \/ pc'[c] = "recover"
      \/ pc'[c] = "ack" /\ ~f /\ at[c] = Len(Subscribers[m0])
  <2>1. CASE at[c] < Len(Subscribers[m0])
    BY <2>1 DEF NextHandler, TypeOK
  <2>2. CASE ~(at[c] < Len(Subscribers[m0]))
    BY <1>1, <1>2, <2>2 DEF NextHandler, TypeOK
  <2> QED
    BY <2>1, <2>2
<1>6. failed'[c] <=> f
  BY DEF NextHandler, TypeOK
<1>7. ASSUME NEW m \in Messages, Kept(m)
      PROVE  Kept(m)'
  <2>1. CASE HandledByAll(m) \/ m \in parked \/ InQueue(m)
    BY <2>1 DEF Kept, HandledByAll, InQueue
  <2>2. CASE InHand(m)
    <3>1. PICK e \in Consumers : pc[e] \in Working /\ attached[e] /\ held[e].msg = m
      BY <2>2 DEF InHand
    <3>2. CASE e # c \/ pc'[c] \in Working
      BY <1>4, <3>1, <3>2 DEF Kept, InHand
    <3>3. CASE e = c /\ pc'[c] = "ack"
      <4>1. \A i \in DOMAIN Subscribers[m0] : <<m0, Subscribers[m0][i]>> \in inbox'
        BY <1>1, <1>2, <1>3, <1>5, <3>3
      <4> QED
        BY <3>1, <3>3, <4>1 DEF Kept, HandledByAll, HandlersOf
    <3> QED
      BY <1>5, <3>2, <3>3 DEF Working, InDispatch
  <2> QED
    BY <1>7, <2>1, <2>2 DEF Kept
<1>8. NoMessageLost'
  BY <1>7 DEF LossInv, NoMessageLost
<1>9. ASSUME NEW d \in Consumers, pc'[d] \in InDispatch, ~failed'[d]
      PROVE  EarlierHandled(d)'
  <2>1. CASE d = c
    <3>1. at'[c] = at[c] + 1 /\ ~f
      BY <1>5, <1>6, <1>9, <2>1 DEF InDispatch
    <3>2. 1..(at'[c] - 1) = 1..at[c]
      BY <1>1, <3>1
    <3> QED
      BY <1>3, <2>1, <3>1, <3>2 DEF EarlierHandled
  <2>2. CASE d # c
    BY <1>4, <1>9, <2>2 DEF LossInv, EarlierHandled
  <2> QED
    BY <2>1, <2>2
<1>10. \A d \in Delivery : InCirculation(d)' => OwnRetry(d)'
  BY DEF LossInv, InCirculation, OwnRetry
<1> QED
  BY <1>8, <1>9, <1>10 DEF LossInv

\* A step that leaves the handlers' progress alone, keeps every copy in sight
\* and brings no foreign retry into circulation preserves LossInv.
LEMMA LossInvKept ==
    ASSUME LossInv, UNCHANGED inbox,
           \A m \in Messages : arrived'[m] > 0 => arrived[m] > 0 \/ Kept(m)',
           \A m \in Messages : Kept(m) => Kept(m)',
           \A c \in Consumers : pc'[c] \in InDispatch /\ ~failed'[c] =>
               \/ at'[c] = 1
               \/ /\ pc[c] \in InDispatch /\ ~failed[c]
                  /\ at'[c] = at[c] /\ held'[c] = held[c],
           \A d \in Delivery : InCirculation(d)' => InCirculation(d) \/ OwnRetry(d)
    PROVE  LossInv'
<1>1. NoMessageLost'
  BY DEF LossInv, NoMessageLost
<1>2. ASSUME NEW c \in Consumers, pc'[c] \in InDispatch, ~failed'[c]
      PROVE  EarlierHandled(c)'
  <2>1. CASE at'[c] = 1
    BY <2>1 DEF EarlierHandled
  <2>2. CASE at'[c] # 1
    BY <1>2, <2>2 DEF LossInv, EarlierHandled
  <2> QED
    BY <2>1, <2>2
<1>3. \A d \in Delivery : InCirculation(d)' => OwnRetry(d)'
  BY DEF LossInv, OwnRetry
<1> QED
  BY <1>1, <1>2, <1>3 DEF LossInv

\* A worker that gives its delivery up is missed by nobody when it was not the
\* delivery's keeper, or when the broker takes the delivery back.
LEMMA ReleaseKeeps ==
    ASSUME TypeOK, LossInv, NEW c \in Consumers, NEW to \in {"down", "idle"}, Release(c, to),
           pc[c] \in Busy,
           UNCHANGED <<inbox, retry, parked, arrived>>,
           \/ pc[c] = "ack" /\ UNCHANGED primary
           \/ Requeue(c)
    PROVE  LossInv'
<1>1. held[c] \in Delivery
  BY KeyIsTyped
<1>0. primary' = primary \/ primary' = Add(primary, held[c])
  BY DEF Requeue
<1>2. \A d \in Delivery : primary[d] > 0 => primary'[d] > 0
  BY <1>0, <1>1, QueueKeeps DEF TypeOK
<1>3. \A d \in Delivery : primary'[d] > 0 => primary[d] > 0 \/ d = held[c]
  BY <1>0, <1>1, QueueKeeps DEF TypeOK
<1>4. \A e \in Consumers \ {c} :
         pc'[e] = pc[e] /\ held'[e] = held[e] /\ at'[e] = at[e]
         /\ (failed'[e] <=> failed[e]) /\ (attached'[e] <=> attached[e])
  BY DEF Release, TypeOK
<1>5. pc'[c] = to /\ held'[c] = NoDelivery
  BY DEF Release, TypeOK
<1>6. ASSUME NEW m \in Messages, Kept(m)
      PROVE  Kept(m)'
  <2>1. CASE HandledByAll(m) \/ m \in parked \/ InQueue(m)
    BY <1>2, <2>1 DEF Kept, HandledByAll, InQueue
  <2>2. CASE InHand(m)
    <3>1. PICK e \in Consumers : pc[e] \in Working /\ attached[e] /\ held[e].msg = m
      BY <2>2 DEF InHand
    <3>2. CASE e # c
      BY <1>4, <3>1, <3>2 DEF Kept, InHand
    <3>3. CASE e = c
      <4>1. primary' = Add(primary, held[c])
        BY <3>1, <3>3 DEF Requeue, Working, InDispatch
      <4>2. primary'[held[c]] > 0
        BY <1>1, <4>1, QueueKeeps DEF TypeOK
      <4> QED
        BY <1>1, <3>1, <3>3, <4>2 DEF Kept, InQueue
    <3> QED
      BY <3>2, <3>3
  <2> QED
    BY <1>6, <2>1, <2>2 DEF Kept
<1>7. ASSUME NEW d \in Delivery, InCirculation(d)'
      PROVE  InCirculation(d)
  <2>1. CASE primary'[d] > 0 \/ retry'[d] > 0
    BY <1>3, <2>1 DEF InCirculation
  <2>2. CASE \E e \in Consumers : held'[e] = d
    BY <1>4, <1>5, <2>2, ConsumerAssumption DEF InCirculation
  <2> QED
    BY <1>7, <2>1, <2>2 DEF InCirculation
<1>8. \A e \in Consumers : pc'[e] \in InDispatch => e # c
  BY <1>5 DEF InDispatch
<1> QED
  BY <1>4, <1>6, <1>7, <1>8, LossInvKept

\* With workers of one endpoint, no refused publish and no cancellation, no
\* sequence of duplicates, failures, crashes and lost connections makes the bus
\* acknowledge the last copy of a message that still has work to be done.
THEOREM NoLoss ==
    ASSUME FaultKinds \cap {"refuse", "cancel"} = {},
           \A c, d \in Consumers : AppOf[c] = AppOf[d]
    PROVE  Spec => []NoMessageLost
<1>1. ASSUME Init PROVE LossInv
  <2>1. \A m \in Messages : ~(arrived[m] > 0)
    <3>1. \A m \in Messages : arrived[m] = 0
      BY <1>1 DEF Init
    <3>2. ~(0 > 0)
      OBVIOUS
    <3> QED
      BY <3>1, <3>2, Zenon
  <2>2. \A c \in Consumers : pc[c] = "down"
    BY <1>1 DEF Init
  <2>3. \A d \in Delivery : ~InCirculation(d)
    BY <1>1, ConsumerAssumption DEF Init, InCirculation
  <2> QED
    BY <2>1, <2>2, <2>3 DEF LossInv, NoMessageLost, InDispatch
<1>2. ASSUME TypeOK, LossInv, [Next]_vars
      PROVE  LossInv'
  <2>1. CASE UNCHANGED vars
    BY <1>2, <2>1
       DEF vars, brokerVars, dbVars, workVars, LossInv, NoMessageLost, Kept, HandledByAll,
           InQueue, InHand, EarlierHandled, OwnRetry, InCirculation
  <2>2. ASSUME NEW m \in Messages, Arrive(m)
        PROVE  LossInv'
    <3> DEFINE d0 == [msg |-> m, count |-> 0, endpoint |-> NoApp]
    <3>1. d0 \in Delivery
      BY ConsumerAssumption DEF Delivery
    <3>2. CASE declared
      <4>1. primary' = Add(primary, d0) /\ primary \in [Delivery -> Nat]
        BY <1>2, <2>2, <3>2 DEF Arrive, TypeOK
      <4>2. primary'[d0] > 0 /\ (\A d \in Delivery : primary[d] > 0 => primary'[d] > 0)
            /\ (\A d \in Delivery : primary'[d] > 0 => d = d0 \/ primary[d] > 0)
        BY <3>1, <4>1, QueueKeeps
      <4>3. \A n \in Messages : Kept(n) => Kept(n)'
        BY <2>2, <4>2
           DEF Arrive, dbVars, workVars, Kept, HandledByAll, InQueue, InHand
      <4>4. Kept(m)'
        BY <3>1, <4>2 DEF Kept, InQueue
      <4>5. \A n \in Messages : arrived'[n] > 0 => arrived[n] > 0 \/ n = m
        BY <1>2, <2>2 DEF Arrive, TypeOK
      <4>6. \A d \in Delivery : InCirculation(d)' => InCirculation(d) \/ OwnRetry(d)
        BY <2>2, <4>2 DEF Arrive, workVars, InCirculation, OwnRetry
      <4> QED
        BY <1>2, <2>2, <4>3, <4>4, <4>5, <4>6, LossInvKept DEF Arrive, dbVars, workVars
    <3>3. CASE ~declared
      BY <1>2, <2>2, <3>3
         DEF Arrive, dbVars, workVars, LossInv, NoMessageLost, Kept, HandledByAll,
             InQueue, InHand, EarlierHandled, OwnRetry, InCirculation
    <3> QED
      BY <3>2, <3>3
  <2>3. ASSUME NEW d \in Delivery, RetryExpires(d)
        PROVE  LossInv'
    <3>1. /\ primary'[d] > 0
          /\ \A e \in Delivery : primary[e] > 0 => primary'[e] > 0
          /\ \A e \in Delivery : primary'[e] > 0 => e = d \/ primary[e] > 0
          /\ \A e \in Delivery : e # d /\ retry[e] > 0 => retry'[e] > 0
          /\ \A e \in Delivery : retry'[e] > 0 => retry[e] > 0
      BY <1>2, <2>3, QueueKeeps DEF RetryExpires, TypeOK
    <3>2. \A m \in Messages : Kept(m) => Kept(m)'
      BY <2>3, <3>1 DEF RetryExpires, dbVars, workVars, Kept, HandledByAll, InQueue, InHand
    <3>3. \A e \in Delivery : InCirculation(e)' => InCirculation(e)
      BY <2>3, <3>1 DEF RetryExpires, workVars, InCirculation
    <3> QED
      BY <1>2, <2>3, <3>2, <3>3, LossInvKept DEF RetryExpires, dbVars, workVars
  <2>4. ASSUME NEW c \in Consumers, Start(c)
        PROVE  LossInv'
    <3>1. /\ pc'[c] = "idle" /\ pc[c] = "down"
          /\ \A e \in Consumers \ {c} : pc'[e] = pc[e]
      BY <1>2, <2>4 DEF Start, TypeOK
    <3>2. \A m \in Messages : Kept(m) => Kept(m)'
      BY <2>4, <3>1
         DEF Start, dbVars, workVars, Kept, HandledByAll, InQueue, InHand, Working, InDispatch
    <3>3. \A e \in Delivery : InCirculation(e)' => InCirculation(e)
      BY <2>4 DEF Start, workVars, InCirculation
    <3> QED
      BY <1>2, <2>4, <3>1, <3>2, <3>3, LossInvKept DEF Start, dbVars, workVars, InDispatch
  <2>5. ASSUME NEW c \in Consumers, NEW d \in Delivery, Ignore(c, d)
        PROVE  LossInv'
    <3>1. /\ \A e \in Delivery : e # d /\ primary[e] > 0 => primary'[e] > 0
          /\ \A e \in Delivery : primary'[e] > 0 => primary[e] > 0
      BY <1>2, <2>5, QueueKeeps DEF Ignore, TypeOK
    <3>2. Subscribers[d.msg] = <<>>
      <4>1. OwnRetry(d)
        BY <1>2, <2>5 DEF Ignore, LossInv, InCirculation
      <4> QED
        BY <2>5, <4>1 DEF Ignore, ShouldProcess, OwnRetry
    <3>3. HandledByAll(d.msg)'
      BY <3>2 DEF HandledByAll, HandlersOf
    <3>4. \A m \in Messages : Kept(m) => Kept(m)'
      BY <2>5, <3>1, <3>3
         DEF Ignore, dbVars, workVars, Kept, HandledByAll, InQueue, InHand
    <3>5. \A e \in Delivery : InCirculation(e)' => InCirculation(e)
      BY <2>5, <3>1 DEF Ignore, workVars, InCirculation
    <3> QED
      BY <1>2, <2>5, <3>4, <3>5, LossInvKept DEF Ignore, dbVars, workVars
  <2>6. ASSUME NEW c \in Consumers, NEW d \in Delivery, Deliver(c, d)
        PROVE  LossInv'
    <3>1. /\ \A e \in Delivery : e # d /\ primary[e] > 0 => primary'[e] > 0
          /\ \A e \in Delivery : primary'[e] > 0 => primary[e] > 0
      BY <1>2, <2>6, QueueKeeps DEF Deliver, TypeOK
    <3>2. pc[c] = "idle" /\ at[c] = 1
      BY <1>2, <2>6 DEF Deliver, TypeOK, Busy, Working, InDispatch
    <3>3. /\ pc'[c] = "attempt" /\ held'[c] = d /\ attached'[c] = TRUE
          /\ \A e \in Consumers \ {c} :
               pc'[e] = pc[e] /\ held'[e] = held[e] /\ (attached'[e] <=> attached[e])
      BY <1>2, <2>6 DEF Deliver, TypeOK
    <3>4. InHand(d.msg)'
      BY <3>3 DEF InHand, Working, InDispatch
    <3>5. \A m \in Messages : InHand(m) => InHand(m)'
      BY <3>2, <3>3 DEF InHand, Working, InDispatch
    <3>6. \A m \in Messages : InQueue(m) => InQueue(m)' \/ m = d.msg
      BY <2>6, <3>1 DEF Deliver, InQueue
    <3>7. \A m \in Messages : Kept(m) => Kept(m)'
      BY <2>6, <3>4, <3>5, <3>6 DEF Deliver, dbVars, Kept, HandledByAll
    <3>8. \A e \in Delivery : InCirculation(e)' => InCirculation(e)
      BY <2>6, <3>1, <3>3 DEF Deliver, InCirculation
    <3> QED
      BY <1>2, <2>6, <3>2, <3>3, <3>7, <3>8, LossInvKept DEF Deliver, dbVars
  <2>7. ASSUME NEW c \in Consumers, NEW d \in Delivery, DieOnMalformedId(c, d)
        PROVE  LossInv'
    <3>1. /\ pc'[c] = "down" /\ pc[c] = "idle"
          /\ \A e \in Consumers \ {c} : pc'[e] = pc[e]
      BY <1>2, <2>7 DEF DieOnMalformedId, TypeOK
    <3>2. \A m \in Messages : Kept(m) => Kept(m)'
      BY <2>7, <3>1
         DEF DieOnMalformedId, brokerVars, dbVars, workVars, Kept, HandledByAll, InQueue,
             InHand, Working, InDispatch
    <3>3. \A e \in Delivery : InCirculation(e)' => InCirculation(e)
      BY <2>7 DEF DieOnMalformedId, brokerVars, workVars, InCirculation
    <3> QED
      BY <1>2, <2>7, <3>1, <3>2, <3>3, LossInvKept
         DEF DieOnMalformedId, brokerVars, dbVars, workVars, InDispatch
  <2>8. ASSUME NEW c \in Consumers, NEW p \in InDispatch, pc[c] \in InDispatch,
               pc' = [pc EXCEPT ![c] = p],
               \A d \in Consumers : (failed'[d] <=> failed[d]) /\ at'[d] = at[d],
               UNCHANGED <<inbox, primary, retry, parked, arrived, held, attached>>
        PROVE  LossInv'
    <3>1. pc'[c] \in InDispatch /\ \A e \in Consumers \ {c} : pc'[e] = pc[e]
      BY <1>2, <2>8 DEF TypeOK
    <3>2. \A m \in Messages : Kept(m) => Kept(m)'
      BY <2>8, <3>1 DEF Kept, HandledByAll, InQueue, InHand, Working
    <3>3. \A e \in Delivery : InCirculation(e)' => InCirculation(e)
      BY <2>8 DEF InCirculation
    <3> QED
      BY <1>2, <2>8, <3>1, <3>2, <3>3, LossInvKept
  <2>9. ASSUME NEW c \in Consumers, WasHandled(c)
        PROVE  LossInv'
    <3>1. pc[c] \in InDispatch /\ failed[c] \in BOOLEAN
      BY <1>2, <2>9 DEF WasHandled, TypeOK, InDispatch
    <3>2. CASE Key(c) \in inbox
      BY <1>2, <2>9, <3>1, <3>2, NextHandlerKeeps DEF WasHandled, brokerVars, dbVars
    <3>3. CASE Key(c) \notin inbox
      BY <2>8, <2>9, <3>1, <3>3 DEF WasHandled, brokerVars, dbVars, InDispatch
    <3> QED
      BY <3>2, <3>3
  <2>10. ASSUME NEW c \in Consumers, Record(c)
         PROVE  LossInv'
    BY <2>8, <2>10 DEF Record, brokerVars, dbVars, workVars, InDispatch
  <2>11. ASSUME NEW c \in Consumers, Commit(c)
         PROVE  LossInv'
    <3>1. pc[c] \in InDispatch /\ failed[c] \in BOOLEAN
      BY <1>2, <2>11 DEF Commit, TypeOK, InDispatch
    <3>2. Key(c) \in inbox' /\ inbox \subseteq inbox'
      BY <2>11 DEF Commit, CommitRows
    <3> QED
      BY <1>2, <2>11, <3>1, <3>2, NextHandlerKeeps DEF Commit, brokerVars
  <2>12. ASSUME NEW c \in Consumers, AttemptFails(c) \/ CommitUnknown(c)
         PROVE  LossInv'
    <3>1. /\ pc[c] \in InDispatch /\ RetryOrGiveUp(c) /\ inbox \subseteq inbox'
          /\ UNCHANGED <<primary, retry, parked, arrived, held, attached>>
      BY <2>12
         DEF AttemptFails, CommitUnknown, CommitRows, brokerVars, dbVars, InDispatch
    <3>2. CASE tries[c] <= ImmediateRetries
      <4>1. pc'[c] = "attempt" /\ (\A e \in Consumers \ {c} : pc'[e] = pc[e])
            /\ UNCHANGED <<at, failed>>
        BY <1>2, <3>1, <3>2 DEF RetryOrGiveUp, TypeOK
      <4>2. \A m \in Messages : Kept(m) => Kept(m)'
        BY <3>1, <4>1 DEF Kept, HandledByAll, InQueue, InHand, Working, InDispatch
      <4>3. \A e \in Consumers : pc'[e] \in InDispatch /\ ~failed'[e] => EarlierHandled(e)'
        BY <1>2, <3>1, <4>1 DEF LossInv, EarlierHandled
      <4>4. \A d \in Delivery : InCirculation(d)' => OwnRetry(d)'
        BY <1>2, <3>1 DEF LossInv, InCirculation, OwnRetry
      <4> QED
        BY <1>2, <3>1, <4>2, <4>3, <4>4 DEF LossInv, NoMessageLost
    <3>3. CASE ~(tries[c] <= ImmediateRetries)
      BY <1>2, <3>1, <3>3, NextHandlerKeeps DEF RetryOrGiveUp
    <3> QED
      BY <3>2, <3>3
  <2>13. ASSUME NEW c \in Consumers, Recover(c)
         PROVE  LossInv'
    <3>1. held[c] \in Delivery /\ held[c].msg \in Messages
      BY <1>2, <2>13, KeyIsTyped DEF Recover, Busy, Working, Delivery
    <3>2. /\ pc'[c] = "ack"
          /\ \A e \in Consumers \ {c} : pc'[e] = pc[e]
      BY <1>2, <2>13 DEF Recover, TypeOK
    <3>3. ASSUME \A d \in Delivery : retry[d] > 0 => retry'[d] > 0,
                 parked \subseteq parked', Kept(held[c].msg)',
                 \A d \in Delivery : retry'[d] > 0 => retry[d] > 0 \/ OwnRetry(d)
          PROVE  LossInv'
      <4>1. ASSUME NEW m \in Messages, Kept(m)
            PROVE  Kept(m)'
        <5>1. CASE HandledByAll(m) \/ m \in parked \/ InQueue(m)
          BY <2>13, <3>3, <5>1 DEF Recover, dbVars, Kept, HandledByAll, InQueue
        <5>2. CASE InHand(m)
          BY <2>13, <3>2, <3>3, <5>2 DEF Recover, workVars, Kept, InHand
        <5> QED
          BY <4>1, <5>1, <5>2 DEF Kept
      <4>2. \A d \in Delivery : InCirculation(d)' => InCirculation(d) \/ OwnRetry(d)
        BY <2>13, <3>3 DEF Recover, workVars, InCirculation
      <4> QED
        BY <1>2, <2>13, <3>2, <4>1, <4>2, LossInvKept
           DEF Recover, dbVars, workVars, InDispatch
    <3>4. CASE held[c].count >= DelayedRetries
      <4>1. retry' = retry /\ parked' = parked \cup {held[c].msg} /\ held' = held
        BY <2>13, <3>4 DEF Recover, workVars
      <4>2. Kept(held[c].msg)'
        BY <4>1 DEF Kept
      <4> QED
        BY <3>3, <4>1, <4>2
    <3>5. CASE ~(held[c].count >= DelayedRetries)
      <4> DEFINE d1 == [msg |-> held[c].msg, count |-> held[c].count + 1,
                        endpoint |-> AppOf[c]]
      <4>1. d1 \in Delivery
        BY <3>1, <3>5, ConsumerAssumption DEF Delivery
      <4>2. retry' = Add(retry, d1) /\ retry \in [Delivery -> Nat] /\ parked' = parked
        BY <1>2, <2>13, <3>5 DEF Recover, TypeOK
      <4>3. /\ retry'[d1] > 0
            /\ \A d \in Delivery : retry[d] > 0 => retry'[d] > 0
            /\ \A d \in Delivery : retry'[d] > 0 => d = d1 \/ retry[d] > 0
        BY <4>1, <4>2, QueueKeeps
      <4>4. Kept(held[c].msg)'
        BY <2>13, <4>1, <4>3 DEF Recover, workVars, Kept, InQueue
      <4>5. OwnRetry(d1)
        BY DEF OwnRetry
      <4> QED
        BY <3>3, <4>2, <4>3, <4>4, <4>5
    <3> QED
      BY <3>4, <3>5
  <2>14. ASSUME NEW c \in Consumers, Ack(c)
         PROVE  LossInv'
    BY <1>2, <2>14, ReleaseKeeps DEF Ack, Busy, brokerVars, dbVars
  <2>15. ASSUME NEW c \in Consumers, Crash(c)
         PROVE  LossInv'
    BY <1>2, <2>15, ReleaseKeeps DEF Crash, dbVars
  <2>16. ASSUME NEW c \in Consumers, Disconnect(c)
         PROVE  LossInv'
    <3>1. held[c] \in Delivery /\ primary' = Add(primary, held[c])
      BY <1>2, <2>16, KeyIsTyped DEF Disconnect, Requeue
    <3>2. /\ primary'[held[c]] > 0
          /\ \A d \in Delivery : primary[d] > 0 => primary'[d] > 0
          /\ \A d \in Delivery : primary'[d] > 0 => d = held[c] \/ primary[d] > 0
      BY <1>2, <3>1, QueueKeeps DEF TypeOK
    <3>3. InQueue(held[c].msg)'
      BY <3>1, <3>2, <2>16 DEF Disconnect, InQueue
    <3>4. \A e \in Consumers \ {c} : attached'[e] <=> attached[e]
      BY <1>2, <2>16 DEF Disconnect, TypeOK
    <3>5. \A m \in Messages : InHand(m) => InHand(m)' \/ m = held[c].msg
      BY <2>16, <3>4 DEF Disconnect, InHand
    <3>6. \A m \in Messages : Kept(m) => Kept(m)'
      BY <2>16, <3>2, <3>3, <3>5 DEF Disconnect, dbVars, Kept, HandledByAll, InQueue
    <3>7. \A d \in Delivery : InCirculation(d)' => InCirculation(d)
      BY <2>16, <3>2 DEF Disconnect, InCirculation
    <3> QED
      BY <1>2, <2>16, <3>6, <3>7, LossInvKept DEF Disconnect, dbVars
  <2>17. ASSUME NEW c \in Consumers, RecoverRefused(c) \/ Cancel(c)
         PROVE  FALSE
    BY <2>17 DEF RecoverRefused, Cancel, Fault
  <2>18. CASE Next
    BY <2>2, <2>3, <2>4, <2>5, <2>6, <2>7, <2>9, <2>10, <2>11, <2>12, <2>13, <2>14,
       <2>15, <2>16, <2>17, <2>18
       DEF Next, Work, Receive, Disturb
  <2> QED
    BY <1>2, <2>1, <2>18
<1>3. LossInv => NoMessageLost
  BY DEF LossInv
<1> QED
  BY <1>1, <1>2, <1>3, TypeCorrect, PTL DEF Spec

-----------------------------------------------------------------------------
(* Nothing circulates that was not offered.                                *)

\* Every delivery in a queue or in a worker's hands is of a message the primary
\* queue accepted from the relay.
OfferedInv == \A d \in Delivery : InCirculation(d) => arrived[d.msg] > 0

\* A step that forgets no arrival, and after which only what circulated before
\* (or another copy of such a message) circulates, preserves it.
LEMMA OfferedKept ==
    ASSUME OfferedInv,
           \A m \in Messages : arrived[m] > 0 => arrived'[m] > 0,
           \A d \in Delivery : InCirculation(d)' =>
               \/ arrived'[d.msg] > 0
               \/ \E e \in Delivery : InCirculation(e) /\ e.msg = d.msg
    PROVE  OfferedInv'
<1>1. \A d \in Delivery : d.msg \in Messages
  BY DEF Delivery
<1> QED
  BY <1>1 DEF OfferedInv

\* Nor do a worker's steps that leave the queues as they are and give it nothing new.
LEMMA OfferedHeld ==
    ASSUME OfferedInv, UNCHANGED <<primary, retry, arrived>>,
           \A c \in Consumers : held'[c] = held[c] \/ held'[c] = NoDelivery
    PROVE  OfferedInv'
<1>1. \A d \in Delivery : InCirculation(d)' => InCirculation(d)
  BY ConsumerAssumption DEF InCirculation
<1> QED
  BY <1>1, OfferedKept

LEMMA OfferedInitially == Init => OfferedInv
<1> SUFFICES ASSUME Init PROVE \A d \in Delivery : ~InCirculation(d)
  BY DEF OfferedInv
<1> QED
  BY ConsumerAssumption DEF Init, InCirculation

\* The broker and the relay: a copy arrives as it is counted, a TTL moves one.
LEMMA OfferedBroker ==
    ASSUME TypeOK, OfferedInv,
           (\E m \in Messages : Arrive(m)) \/ (\E d \in Delivery : RetryExpires(d))
    PROVE  OfferedInv'
<1>1. ASSUME NEW m \in Messages, Arrive(m)
      PROVE  OfferedInv'
  <2> DEFINE fresh == [msg |-> m, count |-> 0, endpoint |-> NoApp]
  <2>1. CASE ~declared
    BY <1>1, <2>1, OfferedHeld DEF Arrive, workVars
  <2>2. CASE declared
    <3>1. fresh \in Delivery /\ fresh.msg = m
      BY ConsumerAssumption DEF Delivery
    <3>2. primary' = Add(primary, fresh) /\ UNCHANGED <<retry, held>>
      BY <1>1, <2>2 DEF Arrive, workVars
    <3>3. \A e \in Delivery : primary'[e] > 0 => e = fresh \/ primary[e] > 0
      BY <3>1, <3>2, QueueKeeps DEF TypeOK
    <3>4. \A n \in Messages : arrived'[n] = IF n = m THEN arrived[m] + 1 ELSE arrived[n]
      BY <1>1, <2>2 DEF Arrive, TypeOK
    <3>5. arrived[m] \in Nat
      BY ConsumerAssumption DEF TypeOK
    <3>6. arrived'[m] > 0
      BY <3>4, <3>5
    <3>7. \A e \in Delivery : InCirculation(e)' => InCirculation(e) \/ e = fresh
      BY <3>2, <3>3 DEF InCirculation
    <3>8. \A n \in Messages : arrived[n] > 0 => arrived'[n] > 0
      BY <3>4, <3>6
    <3> QED
      BY <3>1, <3>6, <3>7, <3>8, OfferedKept
  <2> QED
    BY <2>1, <2>2
<1>2. ASSUME NEW d \in Delivery, RetryExpires(d)
      PROVE  OfferedInv'
  <2>1. primary' = Add(primary, d) /\ retry' = Take(retry, d) /\ retry[d] > 0
        /\ UNCHANGED <<arrived, held>>
    BY <1>2 DEF RetryExpires, workVars
  <2>2. \A e \in Delivery : primary'[e] > 0 => e = d \/ primary[e] > 0
    BY <2>1, QueueKeeps DEF TypeOK
  <2>3. \A e \in Delivery : retry'[e] > 0 => retry[e] > 0
    BY <2>1, QueueKeeps DEF TypeOK
  <2>4. \A e \in Delivery : InCirculation(e)' => InCirculation(e)
    BY <2>1, <2>2, <2>3 DEF InCirculation
  <2> QED
    BY <2>1, <2>4, OfferedKept
<1> QED
  BY <1>1, <1>2

\* A worker's own steps: it takes what is in the queue, and sends on a copy of
\* what it holds.
LEMMA OfferedWork ==
    ASSUME TypeOK, OfferedInv, NEW c \in Consumers, Work(c)
    PROVE  OfferedInv'
<1>1. CASE Start(c) \/ WasHandled(c) \/ Record(c) \/ Commit(c) \/ AttemptFails(c)
  BY <1>1, OfferedHeld
     DEF Start, WasHandled, Record, Commit, AttemptFails, brokerVars, workVars
<1>2. ASSUME NEW d \in Delivery, Ignore(c, d) \/ Deliver(c, d) \/ DieOnMalformedId(c, d)
      PROVE  OfferedInv'
  <2>1. UNCHANGED <<retry, arrived>> /\ primary[d] > 0
    BY <1>2 DEF Ignore, Deliver, DieOnMalformedId, brokerVars
  <2>2. primary' = primary \/ primary' = Take(primary, d)
    BY <1>2 DEF Ignore, Deliver, DieOnMalformedId, brokerVars
  <2>3. \A e \in Delivery : primary'[e] > 0 => primary[e] > 0
    BY <2>1, <2>2, QueueKeeps DEF TypeOK
  <2>4. \A e \in Consumers : held'[e] = held[e] \/ held'[e] = d
    BY <1>2 DEF Ignore, Deliver, DieOnMalformedId, workVars, TypeOK
  <2>5. \A e \in Delivery : InCirculation(e)' => InCirculation(e)
    BY <2>1, <2>3, <2>4 DEF InCirculation
  <2> QED
    BY <2>1, <2>5, OfferedKept
<1>3. CASE Recover(c)
  <2> DEFINE copy == [msg |-> held[c].msg, count |-> held[c].count + 1,
                      endpoint |-> AppOf[c]]
  <2>1. held[c] \in Delivery
    BY <1>3, KeyIsTyped DEF Recover, Busy, Working
  <2>2. CASE held[c].count >= DelayedRetries
    BY <1>3, <2>2, OfferedHeld DEF Recover, workVars
  <2>3. CASE ~(held[c].count >= DelayedRetries)
    <3>1. retry' = Add(retry, copy) /\ UNCHANGED <<primary, arrived, held>>
      BY <1>3, <2>3 DEF Recover, workVars
    <3>2. copy \in Delivery /\ copy.msg = held[c].msg
      BY <2>1, <2>3, ConsumerAssumption DEF Delivery
    <3>3. \A e \in Delivery : retry'[e] > 0 => e = copy \/ retry[e] > 0
      BY <3>1, <3>2, QueueKeeps DEF TypeOK
    <3>4. \A e \in Delivery : InCirculation(e)' => InCirculation(e) \/ e = copy
      BY <3>1, <3>3 DEF InCirculation
    <3>5. InCirculation(held[c])
      BY DEF InCirculation
    <3> QED
      BY <2>1, <3>1, <3>2, <3>4, <3>5, OfferedKept
  <2> QED
    BY <2>2, <2>3
<1>4. CASE Ack(c)
  BY <1>4, OfferedHeld DEF Ack, Release, brokerVars, TypeOK
<1> QED
  BY <1>1, <1>2, <1>3, <1>4 DEF Work, Receive

\* Faults: the broker takes back what the worker held, or nothing.
LEMMA OfferedDisturb ==
    ASSUME TypeOK, OfferedInv, NEW c \in Consumers, Disturb(c)
    PROVE  OfferedInv'
<1>1. CASE Crash(c) \/ Disconnect(c)
  <2>1. held[c] \in Delivery
    BY <1>1, KeyIsTyped DEF Crash, Disconnect
  <2>2. primary' = primary \/ primary' = Add(primary, held[c])
    BY <1>1 DEF Crash, Disconnect, Requeue
  <2>3. \A e \in Delivery : primary'[e] > 0 => e = held[c] \/ primary[e] > 0
    BY <2>1, <2>2, QueueKeeps DEF TypeOK
  <2>4. UNCHANGED <<retry, arrived>>
    BY <1>1 DEF Crash, Disconnect
  <2>5. \A e \in Consumers : held'[e] = held[e] \/ held'[e] = NoDelivery
    BY <1>1 DEF Crash, Disconnect, Release, TypeOK
  <2>6. \A e \in Delivery : InCirculation(e)' => InCirculation(e)
    BY <2>1, <2>3, <2>4, <2>5, ConsumerAssumption DEF InCirculation
  <2> QED
    BY <2>4, <2>6, OfferedKept
<1>2. CASE CommitUnknown(c)
  BY <1>2, OfferedHeld DEF CommitUnknown, brokerVars
<1>3. CASE RecoverRefused(c) \/ Cancel(c)
  BY <1>3, OfferedHeld DEF RecoverRefused, Cancel, Release, brokerVars, TypeOK
<1> QED
  BY <1>1, <1>2, <1>3 DEF Disturb

LEMMA OfferedStep ==
    ASSUME TypeOK, OfferedInv, [Next]_vars
    PROVE  OfferedInv'
<1>1. CASE UNCHANGED vars
  BY <1>1, OfferedHeld DEF vars, brokerVars, workVars
<1>2. CASE Next
  BY <1>2, OfferedBroker, OfferedWork, OfferedDisturb DEF Next
<1> QED
  BY <1>1, <1>2

-----------------------------------------------------------------------------
(* The refinement.                                                         *)

\* The messages the promise speaks of.
Accepted == {m \in Messages : arrived[m] > 0}

LEMMA PromiseInit == Init => Promise!Init
<1> SUFFICES ASSUME Init PROVE Promise!Init
  OBVIOUS
<1>1. \A m \in Messages : ~(arrived[m] > 0)
  <2>1. \A m \in Messages : arrived[m] = 0
    BY DEF Init
  <2>2. ~(0 > 0)
    OBVIOUS
  <2> QED
    BY <2>1, <2>2, Zenon
<1> QED
  BY <1>1 DEF Init, Promise!Init

\* A step that changes neither the arrivals, nor the effects, nor the error queue
\* is none of the promise's business.
LEMMA PromiseStutter ==
    ASSUME UNCHANGED <<arrived, effect, parked>>
    PROVE  UNCHANGED Promise!vars
BY DEF Promise!vars

\* A copy reaching the queue offers its message; the second one stutters.
LEMMA ArriveOffers ==
    ASSUME TypeOK, NEW m \in Messages, Arrive(m)
    PROVE  [Promise!Next]_(Promise!vars)
<1>1. CASE ~declared
  BY <1>1, PromiseStutter DEF Arrive, dbVars
<1>2. CASE declared
  <2>1. \A n \in Messages : arrived'[n] = IF n = m THEN arrived[m] + 1 ELSE arrived[n]
    BY <1>2 DEF Arrive, TypeOK
  <2>2. arrived[m] \in Nat
    BY ConsumerAssumption DEF TypeOK
  <2>3. arrived'[m] > 0
    BY <2>1, <2>2
  <2>4. Accepted' = Accepted \cup {m}
    BY <2>1, <2>3 DEF Accepted
  <2>5. UNCHANGED <<effect, parked>>
    BY <1>2 DEF Arrive, dbVars
  <2>6. Promise!Offer(m)
    BY <2>4, <2>5 DEF Promise!Offer, Accepted
  <2> QED
    BY <2>6 DEF Promise!Next
<1> QED
  BY <1>1, <1>2

\* A commit, reported or not, applies the handler the worker is on: its message
\* was offered, it subscribes, and its effect is not there yet.
LEMMA CommitApplies ==
    ASSUME TypeOK, DedupInv, OfferedInv, NEW c \in Consumers, pc[c] = "recorded",
           CommitRows(c), UNCHANGED <<arrived, parked>>
    PROVE  Promise!Next
<1> DEFINE m == held[c].msg
           h == Subscribers[held[c].msg][at[c]]
<1>1. held[c] \in Delivery /\ Key(c) = <<m, h>> /\ Key(c) \in Messages \X Handlers
  BY KeyIsTyped DEF Key, Busy, Working, InDispatch
<1>2. m \in Messages /\ h \in Handlers
  BY <1>1
<1>3. m \in Accepted
  BY <1>1, <1>2 DEF OfferedInv, InCirculation, Accepted
<1>4. h \in HandlersOf(m)
  <2>1. Subscribers[m] \in Seq(Handlers)
    BY <1>2, ConsumerAssumption
  <2>2. at[c] \in Nat \ {0} /\ at[c] <= Len(Subscribers[m])
    BY DEF TypeOK, Busy, Working, InDispatch
  <2>3. at[c] \in DOMAIN Subscribers[m]
    BY <2>1, <2>2
  <2> QED
    BY <2>3 DEF HandlersOf
<1>5. effect[<<m, h>>] = 0
  BY <1>1 DEF DedupInv
<1>6. effect' = [effect EXCEPT ![<<m, h>>] = 1]
  BY <1>1, <1>5 DEF CommitRows
<1>7. Promise!Apply(m, h)
  BY <1>2, <1>3, <1>4, <1>5, <1>6 DEF Promise!Apply, Accepted
<1> QED
  BY <1>2, <1>7 DEF Promise!Next

\* A worker out of retries parks a message that was offered.
LEMMA RecoverParks ==
    ASSUME TypeOK, OfferedInv, NEW c \in Consumers, Recover(c)
    PROVE  [Promise!Next]_(Promise!vars)
<1>1. CASE held[c].count >= DelayedRetries
  <2>1. held[c] \in Delivery
    BY KeyIsTyped DEF Recover, Busy, Working
  <2>2. held[c].msg \in Accepted
    BY <2>1 DEF OfferedInv, InCirculation, Accepted, Delivery
  <2>3. parked' = parked \cup {held[c].msg} /\ UNCHANGED <<arrived, effect>>
    BY <1>1 DEF Recover, dbVars
  <2>4. Promise!Park(held[c].msg)
    BY <2>2, <2>3 DEF Promise!Park, Accepted
  <2> QED
    BY <2>2, <2>4 DEF Promise!Next, Accepted
<1>2. CASE ~(held[c].count >= DelayedRetries)
  BY <1>2, PromiseStutter DEF Recover, dbVars
<1> QED
  BY <1>1, <1>2

\* Every step of the workers and the broker is a step of the promise or none.
LEMMA StepKeepsPromise ==
    ASSUME TypeOK, DedupInv, OfferedInv, [Next]_vars
    PROVE  [Promise!Next]_(Promise!vars)
<1>1. CASE UNCHANGED vars
  BY <1>1, PromiseStutter DEF vars, brokerVars, dbVars
<1>2. ASSUME NEW d \in Delivery, RetryExpires(d)
      PROVE  [Promise!Next]_(Promise!vars)
  BY <1>2, PromiseStutter DEF RetryExpires, dbVars
<1>3. ASSUME NEW c \in Consumers,
             \/ Start(c) \/ Receive(c) \/ WasHandled(c) \/ Record(c) \/ AttemptFails(c)
             \/ Ack(c) \/ Crash(c) \/ Disconnect(c) \/ RecoverRefused(c) \/ Cancel(c)
      PROVE  [Promise!Next]_(Promise!vars)
  <2>1. UNCHANGED <<arrived, effect, parked>>
    BY <1>3 DEF Start, Receive, Ignore, Deliver, DieOnMalformedId, WasHandled, Record,
         AttemptFails, Ack, Crash, Disconnect, RecoverRefused, Cancel, brokerVars, dbVars
  <2> QED
    BY <2>1, PromiseStutter
<1>4. ASSUME NEW c \in Consumers, Commit(c) \/ CommitUnknown(c)
      PROVE  [Promise!Next]_(Promise!vars)
  BY <1>4, CommitApplies DEF Commit, CommitUnknown, brokerVars
<1>5. CASE Next
  BY <1>2, <1>3, <1>4, <1>5, ArriveOffers, RecoverParks DEF Next, Work, Disturb
<1> QED
  BY <1>1, <1>5

\* Nothing is in a queue or a worker's hands that the primary queue did not accept
\* from the relay, however retries and requeues move and copy it.
THEOREM OfferedOnly == Spec => []OfferedInv
<1>1. TypeOK /\ OfferedInv /\ [Next]_vars => OfferedInv'
  BY OfferedStep
<1> QED
  BY <1>1, OfferedInitially, TypeCorrect, PTL DEF Spec

\* The workers, with all their queues, retries and faults, do to a message only
\* what the promise allows: take it once offered, apply each subscriber to it at
\* most once, park it.  (That they also get there is liveness, and TLC's.)
THEOREM KeepsSafePromise == Spec => Promise!SafeSpec
<1>1. TypeOK /\ DedupInv /\ OfferedInv /\ [Next]_vars => [Promise!Next]_(Promise!vars)
  BY StepKeepsPromise
<1> QED
  BY <1>1, PromiseInit, TypeCorrect, DedupInvariant, OfferedOnly, PTL
     DEF Spec, Promise!SafeSpec
=============================================================================
