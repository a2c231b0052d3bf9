------------------------- MODULE OutboxRelayProofs -------------------------
(***************************************************************************)
(* Theorems about OutboxRelay, for every set of messages and relays, every *)
(* batch limit and every number of failures.                               *)
(*                                                                         *)
(* The argument: SKIP LOCKED keeps the relays' batches disjoint, a row is  *)
(* held only while it is pending, and a pending row that no relay has      *)
(* marked has been published only by attempts that failed later.           *)
(***************************************************************************)
EXTENDS OutboxRelay, TLAPS

\* Every variable keeps its type, and a relay works only on rows it holds.
THEOREM TypeCorrect == Spec => []TypeOK
<1>1. Init => TypeOK
  BY RelayAssumption DEF Init, TypeOK
<1>2. TypeOK /\ [Next]_vars => TypeOK'
  <2> SUFFICES ASSUME TypeOK, [Next]_vars
               PROVE  TypeOK'
    OBVIOUS
  <2>1. CASE UNCHANGED vars
    BY <2>1 DEF vars, requestVars, relayVars, TypeOK
  <2>2. ASSUME NEW m \in Messages, Request(m)
        PROVE  TypeOK'
    <3>1. CASE Begin(m)
      BY <3>1 DEF Begin, relayVars, TypeOK
    <3>2. CASE Schedule(m)
      BY <3>2 DEF Schedule, relayVars, TypeOK
    <3>3. CASE CommitRequest(m)
      BY <3>3 DEF CommitRequest, relayVars, TypeOK
    <3>4. CASE RollBackRequest(m)
      BY <3>4 DEF RollBackRequest, relayVars, TypeOK
    <3> QED
      BY <2>2, <3>1, <3>2, <3>3, <3>4 DEF Request
  <2>3. ASSUME NEW r \in Relays, FindPending(r)
        PROVE  TypeOK'
    BY <2>3 DEF FindPending, IsBatch, Pending, requestVars, TypeOK
  <2>4. ASSUME NEW r \in Relays, NEW m \in Messages, Publish(r, m)
        PROVE  TypeOK'
    BY <2>4 DEF Publish, IsNext, Done, requestVars, TypeOK
  <2>5. ASSUME NEW r \in Relays, NEW m \in Messages, Refused(r, m)
        PROVE  TypeOK'
    BY <2>5 DEF Refused, IsNext, Done, requestVars, TypeOK
  <2>6. ASSUME NEW r \in Relays, CommitPass(r)
        PROVE  TypeOK'
    BY <2>6 DEF CommitPass, requestVars, TypeOK
  <2>7. ASSUME NEW r \in Relays, PassFails(r)
        PROVE  TypeOK'
    BY <2>7, RelayAssumption DEF PassFails, Fault, requestVars, TypeOK
  <2>8. ASSUME NEW r \in Relays, NEW m \in Messages, PublishFails(r, m)
        PROVE  TypeOK'
    BY <2>8, RelayAssumption DEF PublishFails, Fault, IsNext, Done, requestVars, TypeOK
  <2> QED
    BY <2>1, <2>2, <2>3, <2>4, <2>5, <2>6, <2>7, <2>8 DEF Next, Pass
<1> QED
  BY <1>1, <1>2, PTL DEF Spec

\* The inductive invariant the three safety properties follow from.
THEOREM RelayInvariant == Spec => []RelayInv
<1>1. Init => RelayInv
  BY RelayAssumption DEF Init, RelayInv, MarkedBySome, DuplicatesNeedFailures
<1>2. TypeOK /\ RelayInv /\ [Next]_vars => RelayInv'
  <2> SUFFICES ASSUME TypeOK, RelayInv, [Next]_vars
               PROVE  RelayInv'
    OBVIOUS
  <2>1. CASE UNCHANGED vars
    BY <2>1 DEF vars, requestVars, relayVars, RelayInv, MarkedBySome, DuplicatesNeedFailures
  <2>2. ASSUME NEW m \in Messages, Request(m)
        PROVE  RelayInv'
    <3>1. CASE Begin(m) \/ Schedule(m) \/ RollBackRequest(m)
      BY <3>1
         DEF Begin, Schedule, RollBackRequest, relayVars, TypeOK, RelayInv, MarkedBySome,
             DuplicatesNeedFailures
    <3>2. CASE CommitRequest(m)
      <4>1. row[m] = "absent" /\ published[m] = 0
        BY <3>2 DEF CommitRequest, TypeOK, RelayInv
      <4> QED
        BY <3>2, <4>1
           DEF CommitRequest, relayVars, TypeOK, RelayInv, MarkedBySome,
               DuplicatesNeedFailures
    <3> QED
      BY <2>2, <3>1, <3>2 DEF Request
  <2>3. ASSUME NEW r \in Relays, FindPending(r)
        PROVE  RelayInv'
    BY <2>3
       DEF FindPending, IsBatch, Pending, requestVars, TypeOK, RelayInv, MarkedBySome,
           DuplicatesNeedFailures
  <2>4. ASSUME NEW r \in Relays, NEW m \in Messages, Publish(r, m)
        PROVE  RelayInv'
    <3>1. m \in todo[r] /\ m \in locked[r] /\ m \notin marked[r] /\ row[m] = "Pending"
      BY <2>4 DEF Publish, IsNext, TypeOK, RelayInv
    <3>2. ~MarkedBySome(m) /\ published[m] <= faults
      BY <3>1 DEF TypeOK, RelayInv, MarkedBySome
    <3>3. \A n \in Messages \ {m} : MarkedBySome(n)' <=> MarkedBySome(n)
      BY <2>4 DEF Publish, TypeOK, MarkedBySome
    <3>4. MarkedBySome(m)'
      BY <2>4 DEF Publish, TypeOK, MarkedBySome
    <3>5. \A s \in Relays : todo'[s] \cap marked'[s] = {}
      BY <2>4 DEF Publish, Done, TypeOK, RelayInv
    <3> QED
      BY <2>4, <3>1, <3>2, <3>3, <3>4, <3>5
         DEF Publish, Done, requestVars, TypeOK, RelayInv, DuplicatesNeedFailures
  <2>5. ASSUME NEW r \in Relays, NEW m \in Messages, Refused(r, m)
        PROVE  RelayInv'
    BY <2>5
       DEF Refused, Done, requestVars, TypeOK, RelayInv, MarkedBySome, DuplicatesNeedFailures
  <2>6. ASSUME NEW r \in Relays, CommitPass(r)
        PROVE  RelayInv'
    <3>1. \A n \in Messages : MarkedBySome(n)' <=> MarkedBySome(n) /\ n \notin marked[r]
      BY <2>6 DEF CommitPass, TypeOK, RelayInv, MarkedBySome
    <3> QED
      BY <2>6, <3>1
         DEF CommitPass, requestVars, TypeOK, RelayInv, MarkedBySome, DuplicatesNeedFailures
  <2>7. ASSUME NEW r \in Relays, PassFails(r)
        PROVE  RelayInv'
    <3>1. \A n \in Messages : MarkedBySome(n)' <=> MarkedBySome(n) /\ n \notin marked[r]
      BY <2>7 DEF PassFails, TypeOK, RelayInv, MarkedBySome
    <3> QED
      BY <2>7, <3>1
         DEF PassFails, Fault, requestVars, TypeOK, RelayInv, MarkedBySome,
             DuplicatesNeedFailures
  <2>8. ASSUME NEW r \in Relays, NEW m \in Messages, PublishFails(r, m)
        PROVE  RelayInv'
    <3>1. m \in todo[r] /\ m \in locked[r] /\ m \notin marked[r] /\ row[m] = "Pending"
      BY <2>8 DEF PublishFails, IsNext, TypeOK, RelayInv
    <3>2. ~MarkedBySome(m) /\ published[m] <= faults
      BY <3>1 DEF TypeOK, RelayInv, MarkedBySome
    <3> QED
      BY <2>8, <3>1, <3>2
         DEF PublishFails, Fault, Done, requestVars, TypeOK, RelayInv, MarkedBySome,
             DuplicatesNeedFailures
  <2> QED
    BY <2>1, <2>2, <2>3, <2>4, <2>5, <2>6, <2>7, <2>8 DEF Next, Pass
<1> QED
  BY <1>1, <1>2, TypeCorrect, PTL DEF Spec

\* Nothing reaches the broker for a request that has not committed or that
\* rolled back.
THEOREM OnlyCommitted == Spec => []OnlyCommittedPublished
<1>1. RelayInv => OnlyCommittedPublished
  BY DEF RelayInv, OnlyCommittedPublished
<1> QED
  BY <1>1, RelayInvariant, PTL

\* A committed message the broker never had is still pending, through every
\* sequence of failed publishes, failed passes and crashes.
THEOREM NoneForgotten == Spec => []NothingForgotten
<1>1. TypeOK /\ RelayInv => NothingForgotten
  BY DEF TypeOK, RelayInv, NothingForgotten
<1> QED
  BY <1>1, TypeCorrect, RelayInvariant, PTL

\* Any number of relays together publish a message once, and once more per
\* failure at most.
THEOREM BoundedDuplicates == Spec => []DuplicatesNeedFailures
<1>1. RelayInv => DuplicatesNeedFailures
  BY DEF RelayInv
<1> QED
  BY <1>1, RelayInvariant, PTL
=============================================================================
