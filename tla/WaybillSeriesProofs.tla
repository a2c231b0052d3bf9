------------------------ MODULE WaybillSeriesProofs ------------------------
(* Theorems about WaybillSeries, for a series of any length. *)
EXTENDS WaybillSeries, TLAPS

\* Every step keeps the types.
LEMMA TypeStep ==
    ASSUME TypeOK, [Next]_vars
    PROVE  TypeOK'
<1>0. /\ MaxSerial \in Nat /\ MaxFailures \in Nat /\ MaxRestarts \in Nat
      /\ last \in 0..MaxSerial /\ failures \in 0..MaxFailures /\ restarts \in 0..MaxRestarts
  BY SeriesAssumption DEF TypeOK
<1>1. ASSUME NEW r \in Requests, Draw(r)
      PROVE  TypeOK'
  <2>1. last + 1 \in 0..MaxSerial
    BY <1>0, <1>1 DEF Draw
  <2>2. QED
    BY <1>1, <2>1 DEF Draw, Goto, TypeOK
<1>2. ASSUME NEW r \in Requests,
             Exhausted(r) \/ RefuseRoute(r) \/ Insert(r) \/ Answer(r) \/ Commit(r)
      PROVE  TypeOK'
  BY <1>2 DEF Exhausted, RefuseRoute, Insert, Answer, Commit, Goto, TypeOK
<1>3. ASSUME NEW r \in Requests, Fail(r)
      PROVE  TypeOK'
  <2>1. failures + 1 \in 0..MaxFailures
    BY <1>0, <1>3 DEF Fail
  <2>2. QED
    BY <1>3, <2>1 DEF Fail, Goto, InFlight, TypeOK
<1>4. CASE Restart
  <2>1. restarts + 1 \in 0..MaxRestarts /\ last' \in 0..MaxSerial
    BY <1>0, <1>4 DEF Restart, Recovered
  <2>2. QED
    BY <1>4, <2>1 DEF Restart, InFlight, TypeOK
<1>5. CASE UNCHANGED vars
  BY <1>5 DEF vars, TypeOK
<1>6. QED
  BY <1>1, <1>2, <1>3, <1>4, <1>5 DEF Next, Create, AllAnswered

\* A step that draws nothing, and after which no request is in use that was not,
\* keeps the series' invariant.
LEMMA DrawnKept ==
    ASSUME TypeOK, SeriesInv, UNCHANGED <<last, serial, early, restarts>>,
           InFlight' \cup Stored' \subseteq InFlight \cup Stored,
           ~early => told' \subseteq Stored'
    PROVE  SeriesInv'
<1>1. NeverCollide'
  BY DEF SeriesInv, NeverCollide
<1>2. NeverReissued'
  <2> SUFFICES ASSUME NEW q \in Requests, NEW r \in Requests,
                      q # r, serial[q] = serial[r], serial[q] # 0
               PROVE  restarts > 0 /\ ({q, r} \subseteq told' => early)
    BY DEF NeverReissued
  <2>1. restarts > 0
    BY DEF SeriesInv, NeverReissued
  <2>2. ASSUME {q, r} \subseteq told', ~early
        PROVE  FALSE
    <3>1. {q, r} \subseteq Stored'
      BY <2>2
    <3>2. QED
      BY <1>1, <3>1 DEF NeverCollide
  <2>3. QED
    BY <2>1, <2>2
<1>3. QED
  BY <1>1, <1>2 DEF SeriesInv

\* Every step keeps the series' invariant.
LEMMA SeriesStep ==
    ASSUME TypeOK, SeriesInv, [Next]_vars
    PROVE  SeriesInv'
<1>0. last \in Nat /\ restarts \in Nat /\ serial \in [Requests -> Nat]
      /\ pc \in [Requests -> {"new", "drawn", "inserted", "stored", "refused"}]
  BY SeriesAssumption DEF TypeOK
<1>1. ASSUME NEW r \in Requests, Draw(r)
      PROVE  SeriesInv'
  <2>1. /\ last' = last + 1 /\ serial'[r] = last + 1 /\ pc'[r] = "drawn"
        /\ \A q \in Requests \ {r} : serial'[q] = serial[q] /\ pc'[q] = pc[q]
        /\ UNCHANGED <<told, early, restarts>>
    BY <1>0, <1>1 DEF Draw, Goto
  <2>2. r \notin told /\ r \notin Stored
    BY <1>1 DEF Draw, TypeOK, Stored
  <2>3. /\ InFlight' \cup Stored' \subseteq InFlight \cup Stored \cup {r}
        /\ Stored \subseteq Stored'
    BY <2>1, <2>2 DEF InFlight, Stored
  <2>4. \A q \in (InFlight \cup Stored) \ {r} : serial'[q] \in 1..last
    BY <2>1 DEF SeriesInv, InFlight, Stored
  <2>5. \A q \in InFlight' \cup Stored' : serial'[q] \in 1..last'
    BY <1>0, <2>1, <2>3, <2>4
  <2>6. NeverCollide'
    <3>1. ASSUME NEW q \in InFlight' \cup Stored', NEW s \in InFlight' \cup Stored',
                 serial'[q] = serial'[s], q # s
          PROVE  FALSE
      <4>1. CASE q = r \/ s = r
        BY <1>0, <2>1, <2>3, <2>4, <3>1, <4>1
      <4>2. CASE q # r /\ s # r
        BY <2>1, <2>3, <3>1, <4>2 DEF SeriesInv, NeverCollide, InFlight, Stored
      <4>3. QED
        BY <4>1, <4>2
    <3>2. QED
      BY <3>1 DEF NeverCollide
  <2>7. restarts' = 0 => \A q \in Requests : serial'[q] <= last'
    BY <1>0, <2>1 DEF SeriesInv
  <2>8. NeverReissued'
    <3> SUFFICES ASSUME NEW q \in Requests, NEW s \in Requests,
                        q # s, serial'[q] = serial'[s], serial'[q] # 0
                 PROVE  restarts' > 0 /\ ({q, s} \subseteq told' => early')
      BY DEF NeverReissued
    <3>1. CASE q = r \/ s = r
      <4>1. restarts > 0
        BY <1>0, <2>1, <3>1 DEF SeriesInv
      <4>2. QED
        BY <2>1, <2>2, <3>1, <4>1
    <3>2. CASE q # r /\ s # r
      BY <2>1, <3>2 DEF SeriesInv, NeverReissued
    <3>3. QED
      BY <3>1, <3>2
  <2>9. ~early' => told' \subseteq Stored'
    BY <2>1, <2>3 DEF SeriesInv
  <2>10. QED
    BY <2>5, <2>6, <2>7, <2>8, <2>9 DEF SeriesInv
<1>2. ASSUME NEW r \in Requests, Exhausted(r) \/ RefuseRoute(r) \/ Insert(r) \/ Fail(r)
      PROVE  SeriesInv'
  <2>1. UNCHANGED <<last, serial, told, early, restarts>>
    BY <1>2 DEF Exhausted, RefuseRoute, Insert, Fail
  <2>2. /\ pc[r] \in {"new", "drawn", "inserted"}
        /\ pc' = [pc EXCEPT ![r] = "refused"] \/ (pc[r] = "drawn" /\ pc' = [pc EXCEPT ![r] = "inserted"])
    BY <1>2 DEF Exhausted, RefuseRoute, Insert, Fail, Goto, InFlight
  <2>3. InFlight' \cup Stored' \subseteq InFlight \cup Stored /\ Stored' = Stored
    BY <1>0, <2>2 DEF InFlight, Stored
  <2>4. QED
    BY <2>1, <2>3, DrawnKept DEF SeriesInv
<1>3. ASSUME NEW r \in Requests, Answer(r)
      PROVE  SeriesInv'
  <2>1. /\ UNCHANGED <<last, serial, early, restarts, pc>>
        /\ told' = told \cup {r}
        /\ ~early => r \in Stored
    BY <1>3 DEF Answer, Stored
  <2>2. InFlight' = InFlight /\ Stored' = Stored
    BY <2>1 DEF InFlight, Stored
  <2>3. QED
    BY <2>1, <2>2, DrawnKept DEF SeriesInv
<1>4. ASSUME NEW r \in Requests, Commit(r)
      PROVE  SeriesInv'
  <2>1. /\ UNCHANGED <<last, serial, told, early, restarts>>
        /\ pc[r] = "inserted" /\ pc' = [pc EXCEPT ![r] = "stored"]
    BY <1>4 DEF Commit, Goto
  <2>2. InFlight' \cup Stored' \subseteq InFlight \cup Stored /\ Stored \subseteq Stored'
    BY <1>0, <2>1 DEF InFlight, Stored
  <2>3. QED
    BY <2>1, <2>2, DrawnKept DEF SeriesInv
<1>5. CASE Restart
  <2>1. /\ last' \in Nat /\ \A s \in Stored : serial[s] <= last'
        /\ restarts' = restarts + 1 /\ UNCHANGED <<serial, told, early>>
    BY <1>5, SeriesAssumption DEF Restart, Recovered
  <2>2. InFlight' = {} /\ Stored' = Stored
    BY <1>0, <1>5 DEF Restart, InFlight, Stored
  <2>3. NeverCollide'
    BY <2>1, <2>2 DEF SeriesInv, NeverCollide
  <2>4. ~early' => told' \subseteq Stored'
    BY <2>1, <2>2 DEF SeriesInv
  <2>5. NeverReissued'
    <3> SUFFICES ASSUME NEW q \in Requests, NEW s \in Requests,
                        q # s, serial'[q] = serial'[s], serial'[q] # 0
                 PROVE  restarts' > 0 /\ ({q, s} \subseteq told' => early')
      BY DEF NeverReissued
    <3>1. restarts' > 0
      BY <1>0, <2>1
    <3>2. {q, s} \subseteq told' => early'
      BY <2>3, <2>4 DEF NeverCollide
    <3>3. QED
      BY <3>1, <3>2
  <2>6. \A r \in InFlight' \cup Stored' : serial'[r] \in 1..last'
    BY <1>0, <2>1, <2>2 DEF SeriesInv
  <2>7. restarts' # 0
    BY <1>0, <2>1
  <2>8. QED
    BY <2>3, <2>4, <2>5, <2>6, <2>7 DEF SeriesInv
<1>6. CASE UNCHANGED vars
  BY <1>6 DEF vars, SeriesInv, NeverCollide, NeverReissued, InFlight, Stored
<1>7. QED
  BY <1>1, <1>2, <1>3, <1>4, <1>5, <1>6 DEF Next, Create, AllAnswered

\* The series keeps its types, its end included, for any number of drafts.
THEOREM TypeCorrect == Spec => []TypeOK
<1>1. Init => TypeOK
  <2>1. 0 \in 0..MaxSerial /\ 0 \in 0..MaxFailures /\ 0 \in 0..MaxRestarts
    BY SeriesAssumption
  <2>2. QED
    BY <2>1 DEF Init, TypeOK
<1>2. QED
  BY <1>1, TypeStep, PTL DEF Spec

\* The inductive invariant of the series.
THEOREM SeriesInvariant == Spec => []SeriesInv
<1>1. Init => SeriesInv
  BY DEF Init, SeriesInv, NeverCollide, NeverReissued, InFlight, Stored
<1>2. QED
  BY <1>1, SeriesStep, TypeCorrect, PTL DEF Spec

\* No two shipments, stored or being created, hold one number: nextval alone sees
\* to it, and a database that restarts stands behind no committed number.
THEOREM NoneCollide == Spec => []NeverCollide
<1>1. SeriesInv => NeverCollide
  BY DEF SeriesInv
<1>2. QED
  BY <1>1, SeriesInvariant, PTL

\* No number is issued again after a rollback, and none is told twice by a build that
\* answers after the commit.
THEOREM NoneReissued == Spec => []NeverReissued
<1>1. SeriesInv => NeverReissued
  BY DEF SeriesInv
<1>2. QED
  BY <1>1, SeriesInvariant, PTL
=============================================================================
