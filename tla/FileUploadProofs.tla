-------------------------- MODULE FileUploadProofs --------------------------
(***************************************************************************)
(* Theorems about FileUpload, for any number of uploads served at once and *)
(* any number of failures.                                                 *)
(*                                                                         *)
(* The argument: an upload that is alone has what it wrote at the key, one *)
(* that is not has overlapped, and the index admits one row.  Short of a   *)
(* failure, one that can be recorded and has opened the target gets a row  *)
(* or finds one.                                                           *)
(***************************************************************************)
EXTENDS FileUpload, FiniteSetTheorems, TLAPS

\* Nothing that was written is nothing, or a mixture.
LEMMA Written ==
    ASSUME NEW u \in Uploads
    PROVE  /\ Part(u) \in Object /\ Whole(u) \in Object
           /\ Part(u) \notin {Nothing, Mixed} /\ Whole(u) \notin {Nothing, Mixed}
<1>1. Part(u) \in Object /\ Whole(u) \in Object
  BY DEF Part, Whole, Object
<1> QED
  BY <1>1, UploadAssumption

\* What was written tells by whom, and whether it is all there.
LEMMA Apart ==
    /\ \A u, v \in Uploads : Part(u) = Part(v) => u = v
    /\ \A u, v \in Uploads : Part(u) # Whole(v)
    /\ \A u, v \in Uploads : Whole(u) = Whole(v) => u = v
BY DEF Part, Whole

\* The history variable only ever goes from FALSE to TRUE, when uploads meet.
LEMMA Overlapping ==
    ASSUME TypeOK, NEW u \in Uploads, Check(u)
    PROVE  overlapped' \in BOOLEAN /\ (overlapped' <=> overlapped \/ InFlight # {})
  BY DEF Check, TypeOK

\* The type invariant is kept by every step.
LEMMA TypeStep ==
    TypeOK /\ [Next]_vars => TypeOK'
<1> SUFFICES ASSUME TypeOK, [Next]_vars
             PROVE  TypeOK'
  OBVIOUS
<1> USE UploadAssumption, Written DEF TypeOK, Goto, InFlight, Unfit
<1>1. CASE UNCHANGED vars
  BY <1>1 DEF vars
<1>2. ASSUME NEW u \in Uploads, Check(u)
      PROVE  TypeOK'
  BY <1>2, Overlapping DEF Check
<1>3. ASSUME NEW u \in Uploads, TurnDown(u)
      PROVE  TypeOK'
  BY <1>3 DEF TurnDown
<1>4. ASSUME NEW u \in Uploads, OpenTarget(u)
      PROVE  TypeOK'
  BY <1>4 DEF OpenTarget
<1>5. ASSUME NEW u \in Uploads, CloseTarget(u)
      PROVE  TypeOK'
  BY <1>5 DEF CloseTarget, Left, Alone
<1>6. ASSUME NEW u \in Uploads, RefuseReference(u) \/ RefuseEmpty(u)
      PROVE  TypeOK'
  BY <1>6 DEF RefuseReference, RefuseEmpty
<1>7. ASSUME NEW u \in Uploads, Insert(u)
      PROVE  TypeOK'
  BY <1>7 DEF Insert
<1>8. ASSUME NEW u \in Uploads, LoseRace(u)
      PROVE  TypeOK'
  BY <1>8 DEF LoseRace
<1>9. ASSUME NEW u \in Uploads, Remove(u)
      PROVE  TypeOK'
  BY <1>9 DEF Remove
<1>10. ASSUME NEW u \in Uploads, Commit(u)
      PROVE  TypeOK'
  BY <1>10 DEF Commit
<1>11. ASSUME NEW u \in Uploads, WriteFails(u)
      PROVE  TypeOK'
  BY <1>11 DEF WriteFails, Fault, Alone
<1>12. ASSUME NEW u \in Uploads, InsertFails(u)
      PROVE  TypeOK'
  BY <1>12 DEF InsertFails, Fault
<1>13. ASSUME NEW u \in Uploads, RemoveFails(u)
      PROVE  TypeOK'
  BY <1>13 DEF RemoveFails, Fault
<1>14. ASSUME NEW u \in Uploads, CommitFails(u)
      PROVE  TypeOK'
  BY <1>14 DEF CommitFails, Fault
<1>15. CASE Crash
  BY <1>15 DEF Crash, Fault
<1>16. CASE AllAnswered
  BY <1>16 DEF AllAnswered, vars
<1> QED
  BY <1>1, <1>2, <1>3, <1>4, <1>5, <1>6, <1>7, <1>8, <1>9, <1>10, <1>11, <1>12, <1>13, <1>14, <1>15, <1>16 DEF Next, Handle

\* The index keeps its key: an INSERT waits for another's, and finds it.
LEMMA KeyStep ==
    TypeOK /\ KeyInv /\ [Next]_vars => KeyInv'
<1> SUFFICES ASSUME TypeOK, KeyInv, [Next]_vars
             PROVE  KeyInv'
  OBVIOUS
<1> USE UploadAssumption, Written DEF TypeOK, Goto, KeyInv, InFlight
<1>1. CASE UNCHANGED vars
  BY <1>1 DEF vars
<1>2. ASSUME NEW u \in Uploads, Check(u)
      PROVE  KeyInv'
  BY <1>2, Overlapping DEF Check
<1>3. ASSUME NEW u \in Uploads, TurnDown(u)
      PROVE  KeyInv'
  BY <1>3 DEF TurnDown
<1>4. ASSUME NEW u \in Uploads, OpenTarget(u)
      PROVE  KeyInv'
  BY <1>4 DEF OpenTarget
<1>5. ASSUME NEW u \in Uploads, CloseTarget(u)
      PROVE  KeyInv'
  BY <1>5 DEF CloseTarget
<1>6. ASSUME NEW u \in Uploads, RefuseReference(u) \/ RefuseEmpty(u)
      PROVE  KeyInv'
  BY <1>6 DEF RefuseReference, RefuseEmpty
<1>7. ASSUME NEW u \in Uploads, Insert(u)
      PROVE  KeyInv'
  BY <1>7 DEF Insert
<1>8. ASSUME NEW u \in Uploads, LoseRace(u)
      PROVE  KeyInv'
  BY <1>8 DEF LoseRace
<1>9. ASSUME NEW u \in Uploads, Remove(u)
      PROVE  KeyInv'
  BY <1>9 DEF Remove
<1>10. ASSUME NEW u \in Uploads, Commit(u)
      PROVE  KeyInv'
  BY <1>10 DEF Commit
<1>11. ASSUME NEW u \in Uploads, WriteFails(u)
      PROVE  KeyInv'
  BY <1>11 DEF WriteFails, Fault
<1>12. ASSUME NEW u \in Uploads, InsertFails(u)
      PROVE  KeyInv'
  BY <1>12 DEF InsertFails, Fault
<1>13. ASSUME NEW u \in Uploads, RemoveFails(u)
      PROVE  KeyInv'
  BY <1>13 DEF RemoveFails, Fault
<1>14. ASSUME NEW u \in Uploads, CommitFails(u)
      PROVE  KeyInv'
  BY <1>14 DEF CommitFails, Fault
<1>15. CASE Crash
  BY <1>15 DEF Crash, Fault
<1>16. CASE AllAnswered
  BY <1>16 DEF AllAnswered, vars
<1> QED
  BY <1>1, <1>2, <1>3, <1>4, <1>5, <1>6, <1>7, <1>8, <1>9, <1>10, <1>11, <1>12, <1>13, <1>14, <1>15, <1>16 DEF Next, Handle

\* Two uploads in flight have overlapped.
LEMMA OverlapStep ==
    TypeOK /\ OverlapInv /\ OrphanInv /\ [Next]_vars => OverlapInv'
<1> SUFFICES ASSUME TypeOK, OverlapInv, OrphanInv, [Next]_vars
             PROVE  OverlapInv'
  OBVIOUS
<1> USE UploadAssumption, Written
        DEF TypeOK, Goto, OverlapInv, OrphanInv, OrphanNeedsFailedRival, InFlight
<1>1. CASE UNCHANGED vars
  BY <1>1 DEF vars
<1>2. ASSUME NEW u \in Uploads, Check(u)
      PROVE  OverlapInv'
  <2>1. (overlapped => overlapped') /\ (InFlight # {} => overlapped')
    BY <1>2, Overlapping
  <2>2. InFlight' \subseteq InFlight \cup {u}
    BY <1>2 DEF Check
  <2>3. u \in InFlight' => object = Nothing
    BY <1>2 DEF Check
  <2>4. \A v, w \in InFlight' : v # w => overlapped'
    BY <2>1, <2>2
  <2>5. rows' = rows
    BY <1>2 DEF Check
  <2>6. \A v \in InFlight' : rows' # {} => overlapped'
    BY <2>1, <2>2, <2>3, <2>5
  <2> QED
    BY <2>4, <2>6 DEF OverlapInv
<1>3. ASSUME NEW u \in Uploads, TurnDown(u)
      PROVE  OverlapInv'
  BY <1>3 DEF TurnDown
<1>4. ASSUME NEW u \in Uploads, OpenTarget(u)
      PROVE  OverlapInv'
  BY <1>4 DEF OpenTarget
<1>5. ASSUME NEW u \in Uploads, CloseTarget(u)
      PROVE  OverlapInv'
  BY <1>5 DEF CloseTarget
<1>6. ASSUME NEW u \in Uploads, RefuseReference(u) \/ RefuseEmpty(u)
      PROVE  OverlapInv'
  BY <1>6 DEF RefuseReference, RefuseEmpty
<1>7. ASSUME NEW u \in Uploads, Insert(u)
      PROVE  OverlapInv'
  BY <1>7 DEF Insert
<1>8. ASSUME NEW u \in Uploads, LoseRace(u)
      PROVE  OverlapInv'
  BY <1>8 DEF LoseRace
<1>9. ASSUME NEW u \in Uploads, Remove(u)
      PROVE  OverlapInv'
  BY <1>9 DEF Remove
<1>10. ASSUME NEW u \in Uploads, Commit(u)
      PROVE  OverlapInv'
  BY <1>10 DEF Commit
<1>11. ASSUME NEW u \in Uploads, WriteFails(u)
      PROVE  OverlapInv'
  BY <1>11 DEF WriteFails, Fault
<1>12. ASSUME NEW u \in Uploads, InsertFails(u)
      PROVE  OverlapInv'
  BY <1>12 DEF InsertFails, Fault
<1>13. ASSUME NEW u \in Uploads, RemoveFails(u)
      PROVE  OverlapInv'
  BY <1>13 DEF RemoveFails, Fault
<1>14. ASSUME NEW u \in Uploads, CommitFails(u)
      PROVE  OverlapInv'
  BY <1>14 DEF CommitFails, Fault
<1>15. CASE Crash
  BY <1>15 DEF Crash, Fault
<1>16. CASE AllAnswered
  BY <1>16 DEF AllAnswered, vars
<1> QED
  BY <1>1, <1>2, <1>3, <1>4, <1>5, <1>6, <1>7, <1>8, <1>9, <1>10, <1>11, <1>12, <1>13, <1>14, <1>15, <1>16 DEF Next, Handle

\* Only the clean-up of a failed upload empties the key.
LEMMA OrphanStep ==
    TypeOK /\ OverlapInv /\ OrphanInv /\ [Next]_vars => OrphanInv'
<1> SUFFICES ASSUME TypeOK, OverlapInv, OrphanInv, [Next]_vars
             PROVE  OrphanInv'
  OBVIOUS
<1> USE UploadAssumption, Written
        DEF TypeOK, Goto, OverlapInv, OrphanInv, OrphanNeedsFailedRival, InFlight
<1>1. CASE UNCHANGED vars
  BY <1>1 DEF vars
<1>2. ASSUME NEW u \in Uploads, Check(u)
      PROVE  OrphanInv'
  BY <1>2, Overlapping DEF Check
<1>3. ASSUME NEW u \in Uploads, TurnDown(u)
      PROVE  OrphanInv'
  BY <1>3 DEF TurnDown
<1>4. ASSUME NEW u \in Uploads, OpenTarget(u)
      PROVE  OrphanInv'
  BY <1>4 DEF OpenTarget
<1>5. ASSUME NEW u \in Uploads, CloseTarget(u)
      PROVE  OrphanInv'
  BY <1>5 DEF CloseTarget, Left, Alone
<1>6. ASSUME NEW u \in Uploads, RefuseReference(u) \/ RefuseEmpty(u)
      PROVE  OrphanInv'
  BY <1>6 DEF RefuseReference, RefuseEmpty
<1>7. ASSUME NEW u \in Uploads, Insert(u)
      PROVE  OrphanInv'
  BY <1>7 DEF Insert
<1>8. ASSUME NEW u \in Uploads, LoseRace(u)
      PROVE  OrphanInv'
  BY <1>8 DEF LoseRace
<1>9. ASSUME NEW u \in Uploads, Remove(u)
      PROVE  OrphanInv'
  BY <1>9 DEF Remove
<1>10. ASSUME NEW u \in Uploads, Commit(u)
      PROVE  OrphanInv'
  BY <1>10 DEF Commit
<1>11. ASSUME NEW u \in Uploads, WriteFails(u)
      PROVE  OrphanInv'
  BY <1>11 DEF WriteFails, Fault, Alone
<1>12. ASSUME NEW u \in Uploads, InsertFails(u)
      PROVE  OrphanInv'
  BY <1>12 DEF InsertFails, Fault
<1>13. ASSUME NEW u \in Uploads, RemoveFails(u)
      PROVE  OrphanInv'
  BY <1>13 DEF RemoveFails, Fault
<1>14. ASSUME NEW u \in Uploads, CommitFails(u)
      PROVE  OrphanInv'
  BY <1>14 DEF CommitFails, Fault
<1>15. CASE Crash
  BY <1>15 DEF Crash, Fault
<1>16. CASE AllAnswered
  BY <1>16 DEF AllAnswered, vars
<1> QED
  BY <1>1, <1>2, <1>3, <1>4, <1>5, <1>6, <1>7, <1>8, <1>9, <1>10, <1>11, <1>12, <1>13, <1>14, <1>15, <1>16 DEF Next, Handle

\* An upload that is alone finds at the key what it left there.
LEMMA AloneStep ==
    TypeOK /\ OverlapInv /\ OrphanInv /\ AloneInv /\ [Next]_vars => AloneInv'
<1> SUFFICES ASSUME TypeOK, OverlapInv, OrphanInv, AloneInv, [Next]_vars
             PROVE  AloneInv'
  OBVIOUS
<1> USE UploadAssumption, Written
        DEF TypeOK, Goto, OverlapInv, OrphanInv, AloneInv, OrphanNeedsFailedRival,
            RecordDescribesReality, Alone, InFlight
<1>1. CASE UNCHANGED vars
  BY <1>1 DEF vars
<1>2. ASSUME NEW u \in Uploads, Check(u)
      PROVE  AloneInv'
  BY <1>2, Overlapping DEF Check
<1>3. ASSUME NEW u \in Uploads, TurnDown(u)
      PROVE  AloneInv'
  BY <1>3 DEF TurnDown
<1>4. ASSUME NEW u \in Uploads, OpenTarget(u)
      PROVE  AloneInv'
  BY <1>4 DEF OpenTarget
<1>5. ASSUME NEW u \in Uploads, CloseTarget(u)
      PROVE  AloneInv'
  BY <1>5 DEF CloseTarget, Left
<1>6. ASSUME NEW u \in Uploads, RefuseReference(u) \/ RefuseEmpty(u)
      PROVE  AloneInv'
  BY <1>6 DEF RefuseReference, RefuseEmpty
<1>7. ASSUME NEW u \in Uploads, Insert(u)
      PROVE  AloneInv'
  BY <1>7 DEF Insert
<1>8. ASSUME NEW u \in Uploads, LoseRace(u)
      PROVE  AloneInv'
  BY <1>8 DEF LoseRace
<1>9. ASSUME NEW u \in Uploads, Remove(u)
      PROVE  AloneInv'
  BY <1>9 DEF Remove
<1>10. ASSUME NEW u \in Uploads, Commit(u)
      PROVE  AloneInv'
  BY <1>10 DEF Commit
<1>11. ASSUME NEW u \in Uploads, WriteFails(u)
      PROVE  AloneInv'
  BY <1>11 DEF WriteFails, Fault
<1>12. ASSUME NEW u \in Uploads, InsertFails(u)
      PROVE  AloneInv'
  BY <1>12 DEF InsertFails, Fault
<1>13. ASSUME NEW u \in Uploads, RemoveFails(u)
      PROVE  AloneInv'
  BY <1>13 DEF RemoveFails, Fault
<1>14. ASSUME NEW u \in Uploads, CommitFails(u)
      PROVE  AloneInv'
  BY <1>14 DEF CommitFails, Fault
<1>15. CASE Crash
  BY <1>15 DEF Crash, Fault
<1>16. CASE AllAnswered
  BY <1>16 DEF AllAnswered, vars
<1> QED
  BY <1>1, <1>2, <1>3, <1>4, <1>5, <1>6, <1>7, <1>8, <1>9, <1>10, <1>11, <1>12, <1>13, <1>14, <1>15, <1>16 DEF Next, Handle

\* Without a failure, only uploads that cannot be recorded leave the way to a row
\* once they have opened the target.
LEMMA StrandStep ==
    TypeOK /\ OrphanInv /\ StrandInv /\ [Next]_vars => StrandInv'
<1> SUFFICES ASSUME TypeOK, OrphanInv, StrandInv, [Next]_vars
             PROVE  StrandInv'
  OBVIOUS
<1>0. /\ faults \in Nat
      /\ Unfit \subseteq Uploads
      /\ pc \in [Uploads -> {"new", "free", "writing", "put", "inserted", "removing",
                             "stored", "refused"}]
  BY UploadAssumption DEF TypeOK
<1>1. CASE \E kind \in AllFaultKinds : Fault(kind)
  <2>1. faults' # 0
    BY <1>0, <1>1 DEF Fault
  <2> QED
    BY <2>1 DEF StrandInv
<1>2. CASE UNCHANGED vars
  BY <1>2 DEF vars, StrandInv, MayHaveWritten, Part, Whole
<1>3. ASSUME NEW u \in Uploads, Check(u) \/ TurnDown(u)
      PROVE  StrandInv'
  BY <1>0, <1>3 DEF Check, TurnDown, Goto, StrandInv, MayHaveWritten, Part, Whole
<1>4. ASSUME NEW u \in Uploads, OpenTarget(u)
      PROVE  StrandInv'
  <2>1. object' = Part(u) /\ u \in writers'
    BY <1>4 DEF OpenTarget
  <2>2. \A v \in Uploads : object' # Whole(v) /\ (object' = Part(v) => v = u)
    BY <2>1 DEF Part, Whole
  <2>3. object' # Mixed
    BY <2>1, Written
  <2> QED
    BY <2>1, <2>2, <2>3 DEF StrandInv, Part, Whole
<1>5. ASSUME NEW u \in Uploads, CloseTarget(u)
      PROVE  StrandInv'
  <2> SUFFICES ASSUME faults = 0, rows = {}
               PROVE  /\ \A v \in Uploads : object' = Part(v) => v \in writers'
                      /\ \A v \in Uploads : object' = Whole(v) =>
                           MayHaveWritten(v)' /\ pc'[v] # "writing"
                      /\ object' = Mixed =>
                           \E v, w \in Uploads :
                             v # w /\ MayHaveWritten(v)' /\ MayHaveWritten(w)'
    BY <1>5 DEF CloseTarget, StrandInv, Part, Whole
  <2>1. /\ \A v \in Uploads : object = Part(v) => v \in writers
        /\ \A v \in Uploads : object = Whole(v) => MayHaveWritten(v) /\ pc[v] # "writing"
        /\ object = Mixed =>
             \E v, w \in Uploads : v # w /\ MayHaveWritten(v) /\ MayHaveWritten(w)
    BY DEF StrandInv
  <2>2. MayHaveWritten(u)' /\ \A v \in Uploads : MayHaveWritten(v) => MayHaveWritten(v)'
    BY <1>0, <1>5 DEF CloseTarget, Goto, MayHaveWritten
  <2>3. object' \in {object, Whole(u), Mixed} /\ (u \in writers => object' # Part(u))
    <3>1. object' \in Left(u)
      BY <1>5 DEF CloseTarget
    <3>2. Part(u) \notin {Whole(u), Mixed}
      BY Apart, Written
    <3> QED
      BY <3>1, <3>2 DEF Left
  <2>4. /\ writers' = writers \ {u} /\ pc[u] = "writing" /\ pc'[u] = "put"
        /\ \A v \in Uploads : v # u => pc'[v] = pc[v]
    BY <1>0, <1>5 DEF CloseTarget, Goto
  <2>5. \A v \in Uploads : object' = Part(v) => v \in writers'
    <3> SUFFICES ASSUME NEW v \in Uploads, object' = Part(v)
                 PROVE  v \in writers'
      OBVIOUS
    <3>1. Part(v) \notin {Whole(u), Mixed}
      BY Apart, Written
    <3>2. object = Part(v) /\ v \in writers
      BY <2>1, <2>3, <3>1
    <3> QED
      BY <2>3, <2>4, <3>2
  <2>6. \A v \in Uploads : object' = Whole(v) => MayHaveWritten(v)' /\ pc'[v] # "writing"
    BY <2>1, <2>2, <2>3, <2>4, Apart, Written
  <2>7. ASSUME object' = Mixed, object # Mixed
        PROVE  \E v, w \in Uploads : v # w /\ MayHaveWritten(v)' /\ MayHaveWritten(w)'
    <3>1. object' \in Left(u) /\ ~Alone(u) /\ u \in writers
      BY <1>5, <2>7, Written DEF CloseTarget, Left
    <3>2. object # Nothing
      BY <2>4 DEF OrphanInv
    <3>3. PICK v \in Uploads : object = Part(v) \/ object = Whole(v)
      BY <2>7, <3>2 DEF TypeOK, Object, Part, Whole
    <3>4. \E w \in Uploads : w # u /\ MayHaveWritten(w)
      <4>1. CASE v # u
        BY <2>1, <3>3, <4>1 DEF TypeOK, MayHaveWritten
      <4>2. CASE v = u /\ object = Part(u)
        BY <3>1, <4>2 DEF Alone, TypeOK, MayHaveWritten
      <4>3. CASE v = u /\ object = Whole(u)
        BY <2>1, <2>4, <4>3
      <4> QED
        BY <3>3, <4>1, <4>2, <4>3
    <3> QED
      BY <2>2, <3>4
  <2>8. ASSUME object = Mixed
        PROVE  \E v, w \in Uploads : v # w /\ MayHaveWritten(v)' /\ MayHaveWritten(w)'
    BY <2>1, <2>2, <2>8
  <2> QED
    BY <2>5, <2>6, <2>7, <2>8
<1>6. ASSUME NEW u \in Uploads, RefuseReference(u) \/ RefuseEmpty(u)
      PROVE  StrandInv'
  BY <1>0, <1>6
  DEF RefuseReference, RefuseEmpty, Unfit, Goto, StrandInv, MayHaveWritten, Part, Whole
<1>7. ASSUME NEW u \in Uploads, Insert(u)
      PROVE  StrandInv'
  BY <1>0, <1>7 DEF Insert, Goto, StrandInv, MayHaveWritten, Part, Whole
<1>8. ASSUME NEW u \in Uploads, LoseRace(u) \/ Commit(u)
      PROVE  StrandInv'
  BY <1>8 DEF LoseRace, Commit, StrandInv
<1>9. ASSUME NEW u \in Uploads, Remove(u)
      PROVE  StrandInv'
  <2>1. faults' # 0
    BY <1>0, <1>9 DEF Remove, OrphanInv
  <2> QED
    BY <2>1 DEF StrandInv
<1> QED
  BY <1>1, <1>2, <1>3, <1>4, <1>5, <1>6, <1>7, <1>8, <1>9
  DEF Next, Handle, WriteFails, InsertFails, RemoveFails, CommitFails, Crash,
      AllAnswered, AllFaultKinds

\* Every variable keeps its type; an upload answered 201 has its row, and one
\* no StoredFile can be made of never gets as far as an INSERT.
THEOREM TypeCorrect == Spec => []TypeOK
<1>1. Init => TypeOK
  <2> SUFFICES ASSUME Init PROVE TypeOK
    OBVIOUS
  <2>1. 0 \in 0..MaxFaults
    BY UploadAssumption
  <2>2. pc \in [Uploads -> {"new"}] /\ \A u \in Uploads : pc[u] = "new"
    BY DEF Init
  <2>3. \A u \in Unfit : pc[u] = "new"
    BY <2>2, UploadAssumption
  <2> QED
    BY <2>1, <2>2, <2>3 DEF Init, TypeOK
<1> QED
  BY <1>1, TypeStep, PTL DEF Spec

\* The inductive invariant of uploads that race for one key.
THEOREM UploadInvariant == Spec => []UploadInv
<1>1. Init => UploadInv
  BY UploadAssumption, Written
  DEF Init, UploadInv, KeyInv, OverlapInv, OrphanInv, AloneInv, StrandInv, InFlight,
      OrphanNeedsFailedRival, RecordDescribesReality
<1>2. TypeOK /\ UploadInv /\ [Next]_vars => UploadInv'
  BY KeyStep, OverlapStep, OrphanStep, AloneStep, StrandStep DEF UploadInv
<1> QED
  BY <1>1, <1>2, TypeCorrect, PTL DEF Spec

\* Of the uploads that found the key free at most one is ever recorded, whatever
\* fails (the unique constraint of files.files).
THEOREM OneRow == Spec => []OneFilePerKey
<1>1. UploadInv => OneFilePerKey
  <2> SUFFICES ASSUME UploadInv PROVE Cardinality(rows) <= 1
    BY DEF OneFilePerKey
  <2>1. CASE rows = {}
    BY <2>1, FS_EmptySet
  <2>2. CASE rows # {}
    <3>1. PICK u \in rows : rows = {u}
      BY <2>2 DEF UploadInv, KeyInv
    <3>2. Cardinality({u}) = 1
      BY FS_Singleton
    <3> QED
      BY <3>1, <3>2
  <2> QED
    BY <2>1, <2>2
<1> QED
  BY <1>1, UploadInvariant, PTL

\* A row loses its object only to the clean-up of a failed upload that overlapped
\* it: never to one that lost the race, and never without a failure.
THEOREM OrphanExplained == Spec => []OrphanNeedsFailedRival
<1>1. UploadInv => OrphanNeedsFailedRival
  BY DEF UploadInv, OrphanInv
<1> QED
  BY <1>1, UploadInvariant, PTL

\* Uploads that do not overlap leave under each row the bytes it was made for,
\* whichever of their steps fail.
THEOREM RealityKept == Spec => []RealityUnlessOverlapped
<1>1. UploadInv => RealityUnlessOverlapped
  BY DEF UploadInv, AloneInv, RealityUnlessOverlapped
<1> QED
  BY <1>1, UploadInvariant, PTL

\* Short of a failure, an object without a row is the work of uploads that were
\* refused for an empty body or a reference once they had written: no upload fit to
\* be recorded is stranded by a rival, a look-up that came too early or a lost race.
THEOREM StrandedExplained == Spec => []StrandedNeedsCause
<1>1. TypeOK /\ UploadInv => StrandedNeedsCause
  <2> SUFFICES ASSUME TypeOK, UploadInv, object # Nothing, rows = {}, faults = 0,
                      \A u \in Uploads : pc[u] \notin {"writing", "put", "inserted"}
               PROVE  \/ \E u \in Unfit : object = Whole(u) /\ pc[u] = "refused"
                      \/ /\ object = Mixed
                         /\ \E u, v \in Unfit : /\ u # v
                                                /\ pc[u] = "refused"
                                                /\ pc[v] = "refused"
    BY DEF StrandedNeedsCause
  <2>1. \A u \in Uploads : MayHaveWritten(u) => u \in Unfit /\ pc[u] = "refused"
    BY DEF MayHaveWritten
  <2>2. writers = {}
    BY DEF TypeOK
  <2>3. CASE object \in Object
    <3>1. PICK u \in Uploads : object = Part(u) \/ object = Whole(u)
      BY <2>3 DEF Object, Part, Whole
    <3>2. object = Whole(u) /\ MayHaveWritten(u)
      BY <2>2, <3>1 DEF UploadInv, StrandInv
    <3> QED
      BY <2>1, <3>2
  <2>4. CASE object = Mixed
    BY <2>1, <2>4 DEF UploadInv, StrandInv
  <2> QED
    BY <2>3, <2>4 DEF TypeOK
<1> QED
  BY <1>1, TypeCorrect, UploadInvariant, PTL
=============================================================================
