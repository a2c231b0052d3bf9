------------------------ MODULE ClearanceCaseProofs ------------------------
(***************************************************************************)
(* Theorems about ClearanceCase, for any number of requests served at      *)
(* once, any document types, any files and any number of failures.         *)
(*                                                                         *)
(* The argument: what a request has read may be stale, but documents and   *)
(* signatures are only ever added, and the case never returns to Opened;   *)
(* so what the decision relied on is still true when it is committed.      *)
(***************************************************************************)
EXTENDS ClearanceCase, TLAPS

\* A body is an attachment or a sign-off, not both.
LEMMA OneBody == Attachments \cap Verifications = {}
<1> SUFFICES ASSUME NEW b \in Attachments, b \in Verifications PROVE FALSE
  OBVIOUS
<1>1. "file" \in DOMAIN b
  BY DEF Attachments
<1>2. DOMAIN b = {"document"}
  BY DEF Verifications
<1> QED
  BY <1>1, <1>2

LEMMA Bodies ==
    ASSUME TypeOK, NEW r \in Requests
    PROVE  /\ Attaches(r) => asked[r].document_type \in DocumentTypes
           /\ Verifies(r) => asked[r].document \in Requests
           /\ ~(Attaches(r) /\ Verifies(r))
  BY OneBody DEF Attaches, Verifies, Attachments, Verifications

\* A request that ends leaves the others alone.
LEMMA RolledBack ==
    ASSUME TypeOK, SeenInv, NEW r \in Requests, r \in InFlight, RollBack(r)
    PROVE  /\ UNCHANGED <<caseVars, overlapped>>
           /\ asked' \in [Requests -> Attachments \cup Verifications \cup {NotAsked}]
           /\ \A d \in filed : asked'[d] = asked[d]
           /\ r \notin filed
           /\ r \notin InFlight'
           /\ \A q \in Requests \ {r} : pc'[q] = pc[q]
  BY DEF TypeOK, SeenInv, RollBack, End, InFlight

LEMMA InFlightWhenEnding ==
    ASSUME TypeOK, NEW r \in Requests, Refuse(r) \/ Fail(r)
    PROVE  /\ r \in InFlight
           /\ RollBack(r)
           /\ failures' \in 0..MaxFailures
  BY CaseAssumption DEF TypeOK, Refuse, Fail, InFlight, CaseDone

LEMMA InFlightWhenWriting ==
    ASSUME TypeOK, NEW r \in Requests, WriteCase(r) \/ WriteDocument(r)
    PROVE  /\ pc[r] \in {"loaded", "caseWritten"}
           /\ Allowed(r)
           /\ pc' = [pc EXCEPT ![r] = IF WriteCase(r) THEN "caseWritten" ELSE "written"]
           /\ pc'[r] \in {"caseWritten", "written"}
           /\ UNCHANGED <<caseVars, readVars, overlapped, failures>>
  BY DEF TypeOK, WriteCase, WriteDocument, CaseDone

-----------------------------------------------------------------------------
(* Types.                                                                  *)

LEMMA TypeInit == Init => TypeOK
<1>1. 0 \in 0..MaxFailures
  BY CaseAssumption
<1> QED
  BY <1>1 DEF Init, TypeOK, Verified

LEMMA TypeStep ==
    ASSUME TypeOK, SeenInv, [Next]_vars
    PROVE  TypeOK'
<1> USE CaseAssumption DEF TypeOK
<1>1. CASE UNCHANGED vars
  BY <1>1 DEF vars, caseVars, readVars
<1>2. CASE OpenCase
  BY <1>2 DEF OpenCase, readVars, Statuses
<1>3. ASSUME NEW r \in Requests, ReadCase(r) PROVE TypeOK'
  BY <1>3 DEF ReadCase, caseVars, SeenInv
<1>4. ASSUME NEW r \in Requests, ReadDocuments(r) PROVE TypeOK'
  BY <1>4 DEF ReadDocuments, caseVars, Verified
<1>5. ASSUME NEW r \in Requests, Refuse(r) \/ Fail(r) PROVE TypeOK'
  <2>1. RollBack(r) /\ r \in InFlight /\ failures' \in 0..MaxFailures
    BY <1>5, InFlightWhenEnding
  <2> QED
    BY <2>1, RolledBack DEF RollBack, End, caseVars
<1>6. ASSUME NEW r \in Requests, WriteCase(r) \/ WriteDocument(r) PROVE TypeOK'
  <2>1. /\ UNCHANGED <<caseVars, readVars, overlapped, failures>>
        /\ \/ pc' = [pc EXCEPT ![r] = "caseWritten"]
           \/ pc' = [pc EXCEPT ![r] = "written"]
    BY <1>6 DEF WriteCase, WriteDocument
  <2> QED
    BY <2>1 DEF caseVars, readVars
<1>7. ASSUME NEW r \in Requests, Commit(r) PROVE TypeOK'
  <2>1. Allowed(r)
    BY <1>7 DEF Commit, SeenInv
  <2>2. status' \in Statuses \cup {"none"}
    BY <1>7 DEF Commit, Moves, NewStatus, Statuses
  <2>3. Verifies(r) => asked[r].document \in filed /\ asked[r].document \in Requests
    BY <2>1, Bodies DEF Allowed, SeenInv
  <2>4. /\ filed' \subseteq Requests
        /\ \A d \in filed' : asked'[d] \in Attachments
        /\ filed \subseteq filed'
    BY <1>7 DEF Commit, Attaches
  <2>5. /\ verifiedBy' \in [Requests -> Requests \cup {NoOne}]
        /\ \A d \in Requests : verifiedBy'[d] # NoOne => d \in filed'
    BY <1>7, <2>3, <2>4 DEF Commit
  <2>6. announced' \subseteq Requests
    BY <1>7 DEF Commit
  <2> QED
    BY <1>7, <2>2, <2>4, <2>5, <2>6 DEF Commit, End
<1>8. CASE AllAnswered
  BY <1>1, <1>8 DEF AllAnswered
<1> QED
  BY <1>1, <1>2, <1>3, <1>4, <1>5, <1>6, <1>7, <1>8 DEF Next, Serve

-----------------------------------------------------------------------------
(* What has been read is still there.                                      *)

\* Nothing of a decision changes while the attachments that are filed, and what
\* the request itself asks for and has read, stay as they are.
LEMMA DecisionStands ==
    ASSUME NEW q \in Requests, seenFiled[q] \subseteq filed,
           \A d \in filed : asked'[d] = asked[d],
           asked'[q] = asked[q],
           seenStatus'[q] = seenStatus[q],
           seenFiled'[q] = seenFiled[q],
           seenVerified'[q] = seenVerified[q]
    PROVE  Allowed(q)' <=> Allowed(q)
  BY DEF Allowed, Attaches, Verifies, HoldsFile

\* What a commit adds to the documents and to the signatures.
LEMMA Added ==
    ASSUME TypeOK, SeenInv, NEW r \in Requests, Commit(r)
    PROVE  /\ filed \subseteq filed'
           /\ filed' \subseteq filed \cup {r}
           /\ Verified \subseteq Verified'
           /\ Verifies(r) => filed' = filed /\ Verified' = Verified \cup {asked[r].document}
<1>1. Allowed(r) /\ (Verifies(r) => asked[r].document \in filed)
  BY DEF Commit, SeenInv, Allowed
<1>2. filed \subseteq filed' /\ filed' \subseteq filed \cup {r}
  BY DEF Commit
<1>3. Verified \subseteq Verified'
  BY <1>1, <1>2, CaseAssumption DEF Commit, Verified, TypeOK
<1>4. ASSUME Verifies(r) PROVE filed' = filed /\ Verified' = Verified \cup {asked[r].document}
  BY <1>1, <1>4, Bodies, CaseAssumption DEF Commit, Verified, TypeOK
<1> QED
  BY <1>2, <1>3, <1>4

LEMMA SeenInit == Init => SeenInv
  BY DEF Init, SeenInv, Verified, InFlight

LEMMA SeenStep ==
    ASSUME TypeOK, SeenInv, [Next]_vars
    PROVE  SeenInv'
<1> USE CaseAssumption
<1>1. CASE UNCHANGED vars
  BY <1>1 DEF vars, caseVars, readVars, SeenInv, Verified, InFlight, Allowed, Attaches,
              Verifies, HoldsFile
<1>2. CASE OpenCase
  BY <1>2 DEF OpenCase, readVars, SeenInv, Verified, InFlight, Allowed, Attaches,
              Verifies, HoldsFile
<1>3. ASSUME NEW r \in Requests, ReadCase(r) \/ ReadDocuments(r) PROVE SeenInv'
  <2>1. /\ UNCHANGED caseVars
        /\ pc[r] \in {"new", "caseRead"}
        /\ pc'[r] \in {"caseRead", "loaded"}
        /\ \A q \in Requests \ {r} : pc'[q] = pc[q]
    BY <1>3 DEF ReadCase, ReadDocuments, TypeOK
  <2>2. \A q \in Requests \ {r} : /\ asked'[q] = asked[q]
                                   /\ seenStatus'[q] = seenStatus[q]
                                   /\ seenFiled'[q] = seenFiled[q]
                                   /\ seenVerified'[q] = seenVerified[q]
    BY <1>3 DEF ReadCase, ReadDocuments, TypeOK
  <2>3. r \notin filed /\ filed' = filed /\ Verified' = Verified
    BY <2>1 DEF SeenInv, caseVars, Verified
  <2>4. asked'[r] # NotAsked
    BY <1>3 DEF ReadCase, ReadDocuments, TypeOK, SeenInv, InFlight
  <2>5. seenFiled'[r] \subseteq filed /\ seenVerified'[r] \subseteq Verified
    BY <1>3 DEF ReadCase, ReadDocuments, TypeOK, SeenInv
  <2>6. \A q \in Requests : seenFiled'[q] \subseteq filed' /\ seenVerified'[q] \subseteq Verified'
    BY <2>2, <2>3, <2>5 DEF SeenInv
  <2>7. \A d \in filed : asked'[d] = asked[d]
    BY <2>2, <2>3 DEF TypeOK
  <2>8. ASSUME NEW q \in Requests, pc'[q] \in {"caseWritten", "written"} PROVE Allowed(q)'
    <3>1. q # r
      BY <2>1, <2>8
    <3> QED
      BY <2>1, <2>2, <2>7, <2>8, <3>1, DecisionStands DEF SeenInv
  <2>9. \A q \in InFlight' : asked'[q] # NotAsked
    BY <2>1, <2>2, <2>4 DEF SeenInv, InFlight
  <2>10. \A d \in filed' : pc'[d] = "ended"
    BY <2>1, <2>3 DEF SeenInv, TypeOK
  <2> QED
    BY <2>6, <2>8, <2>9, <2>10 DEF SeenInv
<1>4. ASSUME NEW r \in Requests, WriteCase(r) \/ WriteDocument(r) PROVE SeenInv'
  <2>1. /\ pc[r] \in {"loaded", "caseWritten"}
        /\ Allowed(r)
        /\ pc'[r] \in {"caseWritten", "written"}
        /\ \A q \in Requests \ {r} : pc'[q] = pc[q]
        /\ UNCHANGED <<caseVars, readVars>>
    BY <1>4, InFlightWhenWriting DEF TypeOK
  <2>2. \A q \in Requests : Allowed(q)' <=> Allowed(q)
    BY <2>1, DecisionStands DEF SeenInv, readVars
  <2>3. filed' = filed /\ Verified' = Verified
    BY <2>1 DEF caseVars, Verified
  <2>4. \A d \in filed' : pc'[d] = "ended"
    BY <2>1, <2>3 DEF SeenInv, TypeOK
  <2> QED
    BY <2>1, <2>2, <2>3, <2>4 DEF SeenInv, readVars, InFlight
<1>5. ASSUME NEW r \in Requests, Refuse(r) \/ Fail(r) \/ Commit(r) PROVE SeenInv'
  <2>1. /\ pc' = [pc EXCEPT ![r] = "ended"]
        /\ seenStatus' = [seenStatus EXCEPT ![r] = "none"]
        /\ seenFiled' = [seenFiled EXCEPT ![r] = {}]
        /\ seenVerified' = [seenVerified EXCEPT ![r] = {}]
    BY <1>5 DEF Refuse, Fail, Commit, RollBack, End
  <2>2. /\ filed \subseteq filed'
        /\ filed' \subseteq filed \cup {r}
        /\ Verified \subseteq Verified'
    <3>1. CASE Commit(r)
      BY <3>1, Added
    <3>2. CASE Refuse(r) \/ Fail(r)
      BY <3>2 DEF Refuse, Fail, RollBack, caseVars, Verified
    <3> QED
      BY <1>5, <3>1, <3>2
  <2>3. \A q \in Requests \ {r} : asked'[q] = asked[q]
    BY <1>5 DEF Refuse, Fail, Commit, RollBack, TypeOK
  <2>4. \A d \in filed : asked'[d] = asked[d]
    <3>1. CASE Commit(r)
      BY <3>1 DEF Commit
    <3>2. CASE Refuse(r) \/ Fail(r)
      BY <3>2, InFlightWhenEnding, RolledBack
    <3> QED
      BY <1>5, <3>1, <3>2
  <2>5. \A q \in Requests : seenFiled'[q] \subseteq filed' /\ seenVerified'[q] \subseteq Verified'
    BY <2>1, <2>2 DEF SeenInv, TypeOK
  <2>6. ASSUME NEW q \in Requests, pc'[q] \in {"caseWritten", "written"} PROVE Allowed(q)'
    <3>1. q # r /\ pc'[q] = pc[q]
      BY <2>1, <2>6 DEF TypeOK
    <3>2. /\ seenStatus'[q] = seenStatus[q]
          /\ seenFiled'[q] = seenFiled[q]
          /\ seenVerified'[q] = seenVerified[q]
      BY <2>1, <3>1 DEF TypeOK
    <3> QED
      BY <2>3, <2>4, <2>6, <3>1, <3>2, DecisionStands DEF SeenInv
  <2>7. \A q \in InFlight' : asked'[q] # NotAsked
    BY <2>1, <2>3 DEF SeenInv, InFlight, TypeOK
  <2>8. \A d \in filed' : pc'[d] = "ended"
    BY <2>1, <2>2 DEF SeenInv, TypeOK
  <2> QED
    BY <2>5, <2>6, <2>7, <2>8 DEF SeenInv
<1>6. CASE AllAnswered
  BY <1>1, <1>6 DEF AllAnswered
<1> QED
  BY <1>1, <1>2, <1>3, <1>4, <1>5, <1>6 DEF Next, Serve

LEMMA SeenInvariant == Spec => [](TypeOK /\ SeenInv)
<1>1. Init => TypeOK /\ SeenInv
  BY TypeInit, SeenInit
<1>2. TypeOK /\ SeenInv /\ [Next]_vars => (TypeOK /\ SeenInv)'
  BY TypeStep, SeenStep
<1> QED
  BY <1>1, <1>2, PTL DEF Spec

\* Every variable keeps its type; filed documents are attachments, and only a
\* filed document carries an inspector's name.
THEOREM TypeCorrect == Spec => []TypeOK
  BY SeenInvariant, PTL

-----------------------------------------------------------------------------
(* The unique constraint.                                                  *)

LEMMA IndexInit == Init => IndexInv
  BY DEF Init, IndexInv, OneDocumentPerFile

\* Where nothing is filed and nobody new is about to insert, nothing can go wrong.
LEMMA IndexKept ==
    ASSUME TypeOK, SeenInv, IndexInv, filed' = filed,
           \A d \in filed : asked'[d] = asked[d],
           \A q \in Requests : pc'[q] = "written" => pc[q] = "written" /\ asked'[q] = asked[q]
    PROVE  IndexInv'
<1>1. OneDocumentPerFile'
  BY DEF IndexInv, OneDocumentPerFile
<1>2. \A q \in Requests : pc'[q] = "written" /\ Attaches(q)' => ~FileTaken(q)'
  BY DEF IndexInv, FileTaken, Attaches
<1> QED
  BY <1>1, <1>2 DEF IndexInv, Attaches

LEMMA IndexStep ==
    ASSUME TypeOK, SeenInv, IndexInv, [Next]_vars
    PROVE  IndexInv'
<1>1. CASE UNCHANGED vars
  BY <1>1, IndexKept DEF vars, caseVars, readVars
<1>2. CASE OpenCase
  BY <1>2, IndexKept DEF OpenCase, readVars
<1>3. ASSUME NEW r \in Requests, ReadCase(r) \/ ReadDocuments(r) \/ WriteCase(r)
      PROVE  IndexInv'
  <2>1. /\ UNCHANGED caseVars
        /\ pc[r] # "ended" /\ pc'[r] # "written"
        /\ \A q \in Requests \ {r} : pc'[q] = pc[q] /\ asked'[q] = asked[q]
    BY <1>3 DEF ReadCase, ReadDocuments, WriteCase, readVars, TypeOK
  <2>2. r \notin filed
    BY <2>1 DEF SeenInv
  <2> QED
    BY <2>1, <2>2, IndexKept DEF caseVars, TypeOK
<1>4. ASSUME NEW r \in Requests, WriteDocument(r) PROVE IndexInv'
  <2>1. /\ pc' = [pc EXCEPT ![r] = "written"]
        /\ UNCHANGED <<caseVars, readVars>>
    BY <1>4 DEF WriteDocument
  <2>2. Attaches(r) => ~FileTaken(r) /\ \A q \in Requests : ~HoldsFileKey(q, asked[r].file)
    BY <1>4 DEF WriteDocument
  <2>3. \A q \in Requests : (Attaches(q)' <=> Attaches(q)) /\ (FileTaken(q)' <=> FileTaken(q))
    BY <2>1 DEF caseVars, readVars, Attaches, FileTaken
  <2>4. OneDocumentPerFile'
    BY <2>1 DEF caseVars, readVars, IndexInv, OneDocumentPerFile
  <2>5. \A q \in Requests : pc'[q] = "written" /\ Attaches(q)' => ~FileTaken(q)'
    BY <2>1, <2>2, <2>3 DEF IndexInv, TypeOK
  <2>6. ASSUME NEW q \in Requests, pc'[q] = "written", Attaches(q)',
               NEW p \in Requests, pc'[p] = "written", Attaches(p)',
               asked'[q].file = asked'[p].file
        PROVE  q = p
    BY <2>1, <2>2, <2>3, <2>6 DEF IndexInv, HoldsFileKey, readVars, TypeOK
  <2> QED
    BY <2>4, <2>5, <2>6 DEF IndexInv
<1>5. ASSUME NEW r \in Requests, Refuse(r) \/ Fail(r) PROVE IndexInv'
  BY <1>5, InFlightWhenEnding, RolledBack, IndexKept DEF RollBack, End, caseVars, TypeOK
<1>6. ASSUME NEW r \in Requests, Commit(r) PROVE IndexInv'
  <2>1. pc[r] = "written" /\ pc' = [pc EXCEPT ![r] = "ended"] /\ asked' = asked
    BY <1>6 DEF Commit, End
  <2>2. CASE Attaches(r)
    <3>1. filed' = filed \cup {r}
      BY <1>6, <2>2 DEF Commit
    <3>2. OneDocumentPerFile'
      BY <2>1, <2>2, <3>1 DEF IndexInv, OneDocumentPerFile, FileTaken
    <3>3. ASSUME NEW q \in Requests, pc'[q] = "written", Attaches(q) PROVE ~FileTaken(q)'
      <4>1. q # r /\ pc[q] = "written"
        BY <2>1, <3>3 DEF TypeOK
      <4>2. asked[q].file # asked[r].file /\ ~FileTaken(q)
        BY <2>1, <2>2, <3>3, <4>1 DEF IndexInv
      <4> QED
        BY <2>1, <3>1, <4>2 DEF FileTaken
    <3> QED
      BY <2>1, <3>2, <3>3 DEF IndexInv, Attaches, TypeOK
  <2>3. CASE ~Attaches(r)
    <3>1. filed' = filed
      BY <1>6, <2>3 DEF Commit
    <3> QED
      BY <2>1, <3>1, IndexKept DEF TypeOK
  <2> QED
    BY <2>2, <2>3
<1>7. CASE AllAnswered
  BY <1>1, <1>7 DEF AllAnswered
<1> QED
  BY <1>1, <1>2, <1>3, <1>4, <1>5, <1>6, <1>7 DEF Next, Serve

-----------------------------------------------------------------------------
(* The stages of the case.                                                 *)

LEMMA StageInit == Init => StageInv
  BY DEF Init, StageInv, OpenedHasNoPaperwork, NeverPremature, InFlight

\* Complete paperwork stays complete when documents and signatures are added.
LEMMA PaperworkKept ==
    ASSUME TypeOK, TypeOK', PaperworkComplete, Verified \subseteq Verified',
           \A d \in filed : asked'[d] = asked[d]
    PROVE  PaperworkComplete'
<1>1. Verified \subseteq filed /\ Verified' \subseteq filed'
  BY DEF Verified
<1>2. TypesOf(Verified)' \subseteq DocumentTypes
  BY <1>1 DEF TypesOf, TypeOK, Attachments
<1>3. DocumentTypes \subseteq TypesOf(Verified)'
  BY <1>1 DEF TypesOf, PaperworkComplete
<1> QED
  BY <1>2, <1>3 DEF PaperworkComplete

LEMMA StageStep ==
    ASSUME TypeOK, TypeOK', SeenInv, StageInv, [Next]_vars
    PROVE  StageInv'
<1>1. CASE UNCHANGED vars
  BY <1>1 DEF vars, caseVars, readVars, StageInv, OpenedHasNoPaperwork, NeverPremature,
              PaperworkComplete, TypesOf, Verified, InFlight
<1>2. CASE OpenCase
  <2>1. \A r \in Requests : pc[r] = "new"
    BY <1>2 DEF OpenCase, StageInv
  <2>2. announced # {} => PaperworkComplete
    BY DEF StageInv, NeverPremature
  <2> QED
    BY <1>2, <2>1, <2>2, PaperworkKept
    DEF OpenCase, readVars, StageInv, OpenedHasNoPaperwork, NeverPremature, Verified, InFlight
\* Steps that write nothing anyone else can see.
<1>3. ASSUME NEW r \in Requests, UNCHANGED caseVars,
             \A d \in filed : asked'[d] = asked[d],
             \A q \in Requests \ {r} : pc'[q] = pc[q] /\ seenStatus'[q] = seenStatus[q],
             r \in InFlight' => status # "none" /\ seenStatus'[r] # "none"
                               /\ (status = "Opened" => seenStatus'[r] = "Opened"),
             status # "none"
      PROVE  StageInv'
  <2>1. filed' = filed /\ Verified' = Verified
    BY <1>3 DEF caseVars, Verified
  <2>2. NeverPremature'
    BY <1>3, <2>1, PaperworkKept DEF StageInv, NeverPremature, caseVars
  <2>3. OpenedHasNoPaperwork'
    BY <1>3 DEF StageInv, OpenedHasNoPaperwork, caseVars
  <2> QED
    BY <1>3, <2>2, <2>3 DEF StageInv, InFlight, caseVars
<1>4. ASSUME NEW r \in Requests, r \in InFlight PROVE status # "none"
  BY <1>4 DEF StageInv, InFlight
<1>5. ASSUME NEW r \in Requests, ReadCase(r) PROVE StageInv'
  BY <1>3, <1>5 DEF ReadCase, TypeOK, SeenInv
<1>6. ASSUME NEW r \in Requests, ReadDocuments(r) PROVE StageInv'
  <2>1. r \in InFlight /\ UNCHANGED <<caseVars, asked, seenStatus>>
    BY <1>6 DEF ReadDocuments, InFlight
  <2> QED
    BY <1>3, <1>4, <1>6, <2>1 DEF ReadDocuments, TypeOK, StageInv
<1>7. ASSUME NEW r \in Requests, WriteCase(r) \/ WriteDocument(r) PROVE StageInv'
  <2>1. /\ r \in InFlight
        /\ UNCHANGED <<caseVars, asked, seenStatus>>
        /\ \A q \in Requests \ {r} : pc'[q] = pc[q]
    BY <1>7, InFlightWhenWriting DEF InFlight, readVars, TypeOK
  <2> QED
    BY <1>3, <1>4, <2>1 DEF StageInv
<1>8. ASSUME NEW r \in Requests, Refuse(r) \/ Fail(r) PROVE StageInv'
  <2>1. r \in InFlight /\ RollBack(r)
    BY <1>8, InFlightWhenEnding
  <2> QED
    BY <1>3, <1>4, <2>1, RolledBack DEF RollBack, End, TypeOK
<1>9. ASSUME NEW r \in Requests, Commit(r) PROVE StageInv'
  <2>1. r \in InFlight /\ Allowed(r) /\ status # "none"
    BY <1>4, <1>9 DEF Commit, InFlight, SeenInv
  <2>2. /\ asked' = asked
        /\ pc' = [pc EXCEPT ![r] = "ended"]
        /\ seenStatus' = [seenStatus EXCEPT ![r] = "none"]
        /\ status' = IF Moves(r) THEN NewStatus(r) ELSE status
    BY <1>9 DEF Commit, End
  <2>3. \/ status' = status
        \/ status' = "DocumentVerification"
        \/ status' = "RiskAssessment" /\ Completes(r)
    BY <2>2 DEF Moves, NewStatus
  <2>4. Completes(r) => PaperworkComplete'
    <3> SUFFICES ASSUME Completes(r) PROVE PaperworkComplete'
      OBVIOUS
    <3>1. /\ Verifies(r)
          /\ TypesOf(seenVerified[r] \cup {asked[r].document}) = DocumentTypes
      BY DEF Completes, CompletePaperwork
    <3>2. seenVerified[r] \cup {asked[r].document} \subseteq Verified'
      BY <1>9, <3>1, Added DEF SeenInv
    <3>3. DocumentTypes \subseteq TypesOf(Verified)'
      BY <2>2, <3>1, <3>2 DEF TypesOf
    <3>4. TypesOf(Verified)' \subseteq DocumentTypes
      BY DEF TypesOf, Verified, TypeOK, Attachments
    <3> QED
      BY <3>3, <3>4 DEF PaperworkComplete
  <2>5. PaperworkComplete => PaperworkComplete'
    BY <1>9, <2>2, Added, PaperworkKept
  <2>6. NeverPremature'
    BY <1>9, <2>3, <2>4, <2>5 DEF Commit, StageInv, NeverPremature
  <2>7. OpenedHasNoPaperwork'
    <3> SUFFICES ASSUME status' = "Opened" PROVE filed' = {}
      BY DEF OpenedHasNoPaperwork
    <3>1. status = "Opened" /\ seenStatus[r] = "Opened" /\ filed = {}
      BY <2>1, <2>3 DEF StageInv, OpenedHasNoPaperwork
    <3>2. ~Attaches(r)
      BY <2>2, <3>1 DEF Moves, NewStatus
    <3> QED
      BY <1>9, <3>1, <3>2 DEF Commit
  <2>8. \A q \in InFlight' : q \in InFlight /\ seenStatus'[q] = seenStatus[q]
    BY <2>2 DEF InFlight, TypeOK
  <2>9. status' = "Opened" => status = "Opened"
    BY <2>3
  <2> QED
    BY <2>1, <2>3, <2>6, <2>7, <2>8, <2>9 DEF StageInv
<1>10. CASE AllAnswered
  BY <1>1, <1>10 DEF AllAnswered
<1> QED
  BY <1>1, <1>2, <1>5, <1>6, <1>7, <1>8, <1>9, <1>10 DEF Next, Serve

-----------------------------------------------------------------------------
(* The theorems.                                                           *)

\* The inductive invariant of a case.
THEOREM CaseInvariant == Spec => []CaseInv
<1>1. Init => CaseInv
  BY TypeInit, SeenInit, IndexInit, StageInit DEF CaseInv
<1>2. CaseInv /\ [Next]_vars => CaseInv'
  BY TypeStep, SeenStep, IndexStep, StageStep DEF CaseInv
<1> QED
  BY <1>1, <1>2, PTL DEF Spec

\* One file is filed against a case once, however the attachments interleave.
THEOREM OneDocument == Spec => []OneDocumentPerFile
<1>1. CaseInv => OneDocumentPerFile
  BY DEF CaseInv, IndexInv
<1> QED
  BY <1>1, CaseInvariant, PTL

\* The risk assessment is announced, and the case moved to it, only with every
\* required kind of document cleared, whatever a request had read was stale.
THEOREM NotPremature == Spec => []NeverPremature
<1>1. CaseInv => NeverPremature
  BY DEF CaseInv, StageInv
<1> QED
  BY <1>1, CaseInvariant, PTL

\* A case at Opened has no document filed against it, and no late write of a
\* request that read it earlier takes a case with documents back there.
THEOREM OpenedIsEmpty == Spec => []OpenedHasNoPaperwork
<1>1. CaseInv => OpenedHasNoPaperwork
  BY DEF CaseInv, StageInv
<1> QED
  BY <1>1, CaseInvariant, PTL

-----------------------------------------------------------------------------
(* Requests that do not overlap.                                           *)

\* The paperwork is what the filed documents, their types and signatures say.
LEMMA PaperworkSame ==
    ASSUME filed' = filed, verifiedBy' = verifiedBy, \A d \in filed : asked'[d] = asked[d]
    PROVE  Verified' = Verified /\ (PaperworkComplete' <=> PaperworkComplete)
<1>1. Verified' = Verified /\ Verified \subseteq filed
  BY DEF Verified
<1>2. TypesOf(Verified)' = TypesOf(Verified)
  BY <1>1 DEF TypesOf
<1> QED
  BY <1>1, <1>2 DEF PaperworkComplete

LEMMA AloneInit == Init => AloneInv
<1> SUFFICES ASSUME Init PROVE AloneInv
  OBVIOUS
<1>1. InFlight = {} /\ Verified = {}
  BY DEF Init, InFlight, Verified
<1>2. ~PaperworkComplete
  BY <1>1, CaseAssumption DEF PaperworkComplete, TypesOf
<1> QED
  BY <1>1, <1>2 DEF Init, AloneInv

\* What the commit of a request that is alone does to the case.
LEMMA AloneCommit ==
    ASSUME CaseInv, TypeOK', AloneInv, ~overlapped, NEW r \in Requests, Commit(r)
    PROVE  /\ InFlight' = {}
           /\ \/ status' = status /\ announced' = announced
                 /\ (PaperworkComplete' <=> PaperworkComplete)
              \/ /\ status = "Opened" /\ status' = "DocumentVerification"
                 /\ announced' = announced
                 /\ (PaperworkComplete' <=> PaperworkComplete)
              \/ /\ status = "DocumentVerification" /\ status' = "RiskAssessment"
                 /\ announced' = announced \cup {r}
                 /\ PaperworkComplete'
           /\ \A d \in Requests : verifiedBy[d] # NoOne => verifiedBy'[d] = verifiedBy[d]
<1>1. /\ r \in InFlight /\ pc[r] = "written" /\ InFlight \subseteq {r}
      /\ seenStatus[r] = status /\ seenFiled[r] = filed /\ seenVerified[r] = Verified
  BY DEF AloneInv, Commit, InFlight
<1>2. /\ Allowed(r) /\ status # "none" /\ r \notin filed
      /\ TypeOK /\ SeenInv /\ OpenedHasNoPaperwork
      /\ \/ Attaches(r) /\ ~Verifies(r)
         \/ Verifies(r) /\ ~Attaches(r)
  <2>1. Attaches(r) \/ Verifies(r)
    BY <1>1 DEF CaseInv, SeenInv, TypeOK, Attaches, Verifies
  <2> QED
    BY <1>1, <2>1, Bodies DEF CaseInv, SeenInv, StageInv
<1>3. asked' = asked /\ pc' = [pc EXCEPT ![r] = "ended"]
  BY DEF Commit, End
<1>4. InFlight' = {}
  BY <1>1, <1>2, <1>3 DEF InFlight, TypeOK
<1>5. CASE Attaches(r) /\ ~Verifies(r)
  <2>1. /\ filed' = filed \cup {r} /\ verifiedBy' = verifiedBy /\ announced' = announced
        /\ status' = IF status = "Opened" THEN "DocumentVerification" ELSE status
    BY <1>1, <1>5 DEF Commit, Completes, Moves, NewStatus
  <2>2. verifiedBy[r] = NoOne
    BY <1>2 DEF TypeOK
  <2>3. Verified' = Verified
    BY <2>1, <2>2 DEF Verified
  <2>4. PaperworkComplete' <=> PaperworkComplete
    BY <1>3, <2>3 DEF PaperworkComplete, TypesOf
  <2> QED
    BY <1>4, <2>1, <2>4
<1>6. CASE Verifies(r) /\ ~Attaches(r)
  <2> DEFINE d == asked[r].document
  <2>1. d \in filed /\ d \notin Verified /\ d \in Requests /\ verifiedBy[d] = NoOne
    BY <1>1, <1>2, <1>6, Bodies DEF Allowed, Verified
  <2>2. /\ verifiedBy' = [verifiedBy EXCEPT ![d] = r]
        /\ announced' = IF Completes(r) THEN announced \cup {r} ELSE announced
        /\ status' = IF Completes(r) THEN "RiskAssessment" ELSE status
    BY <1>1, <1>6 DEF Commit, Moves, NewStatus
  <2>3. status \in {"DocumentVerification", "RiskAssessment"}
    BY <1>2, <2>1 DEF AloneInv, OpenedHasNoPaperwork
  <2>4. Verified' = Verified \cup {d} /\ Verified \subseteq Verified'
    BY <1>2, <1>6, Added
  <2>5. PaperworkComplete' <=> CompletePaperwork(r)
    BY <1>1, <1>3, <2>4 DEF PaperworkComplete, CompletePaperwork, TypesOf
  <2>6. \A e \in Requests : verifiedBy[e] # NoOne => verifiedBy'[e] = verifiedBy[e]
    BY <1>2, <2>1, <2>2 DEF TypeOK
  <2>7. CASE status = "DocumentVerification"
    <3>1. ~PaperworkComplete
      BY <2>7 DEF AloneInv
    <3>2. Completes(r) <=> PaperworkComplete'
      BY <1>1, <1>6, <2>5, <2>7 DEF Completes
    <3> QED
      BY <1>4, <2>2, <2>6, <2>7, <3>1, <3>2
  <2>8. CASE status = "RiskAssessment"
    <3>1. PaperworkComplete /\ ~Completes(r)
      BY <1>1, <2>8 DEF AloneInv, Completes
    <3>2. PaperworkComplete'
      BY <1>2, <1>3, <2>4, <3>1, PaperworkKept
    <3> QED
      BY <1>4, <2>2, <2>6, <3>1, <3>2
  <2> QED
    BY <2>3, <2>7, <2>8
<1> QED
  BY <1>2, <1>5, <1>6

LEMMA AloneStep ==
    ASSUME CaseInv, TypeOK', AloneInv, [Next]_vars
    PROVE  AloneInv'
<1> USE DEF CaseInv
<1>0. TypeOK /\ SeenInv /\ StageInv
  OBVIOUS
\* Steps that leave the case alone and take nobody in.
<1>1. ASSUME UNCHANGED <<caseVars, overlapped>>, \A d \in filed : asked'[d] = asked[d],
             \A r \in InFlight' :
                /\ r \in InFlight /\ seenStatus'[r] = seenStatus[r]
                /\ pc'[r] # "caseRead" =>
                     \/ seenFiled'[r] = filed /\ seenVerified'[r] = Verified
                     \/ /\ pc[r] # "caseRead"
                        /\ seenFiled'[r] = seenFiled[r] /\ seenVerified'[r] = seenVerified[r]
      PROVE  AloneInv'
  <2>1. Verified' = Verified /\ (PaperworkComplete' <=> PaperworkComplete)
    BY <1>1, PaperworkSame DEF caseVars
  <2> QED
    BY <1>1, <2>1 DEF AloneInv, caseVars
<1>2. CASE UNCHANGED vars
  BY <1>1, <1>2 DEF vars, caseVars, readVars, InFlight
<1>3. CASE OpenCase
  <2>1. InFlight' = {} /\ UNCHANGED <<filed, verifiedBy, announced, asked, overlapped>>
    BY <1>3 DEF OpenCase, StageInv, InFlight, readVars
  <2>2. PaperworkComplete' <=> PaperworkComplete
    BY <2>1, PaperworkSame
  <2> QED
    BY <1>3, <2>1, <2>2 DEF OpenCase, AloneInv
<1>4. ASSUME NEW r \in Requests, ReadCase(r) PROVE AloneInv'
  <2>0. ~overlapped' => ~overlapped /\ InFlight = {}
    BY <1>4, Zenon DEF ReadCase
  <2>1. UNCHANGED caseVars /\ r \notin filed /\ InFlight' \subseteq InFlight \cup {r}
    <3>1. pc[r] = "new" /\ pc' = [pc EXCEPT ![r] = "caseRead"] /\ UNCHANGED caseVars
      BY <1>4 DEF ReadCase
    <3> QED
      BY <1>0, <3>1 DEF InFlight, TypeOK, SeenInv
  <2>2. \A d \in filed : asked'[d] = asked[d]
    BY <1>0, <1>4, <2>1 DEF ReadCase, TypeOK
  <2>3. Verified' = Verified /\ (PaperworkComplete' <=> PaperworkComplete)
    BY <2>1, <2>2, PaperworkSame DEF caseVars
  <2>4. seenStatus'[r] = status /\ pc'[r] = "caseRead"
    BY <1>0, <1>4 DEF ReadCase, TypeOK
  <2> QED
    BY <2>0, <2>1, <2>3, <2>4 DEF AloneInv, caseVars
<1>5. ASSUME NEW r \in Requests, ReadDocuments(r) PROVE AloneInv'
  <2>1. /\ UNCHANGED <<caseVars, asked, seenStatus, overlapped>> /\ InFlight' = InFlight
        /\ seenFiled'[r] = filed /\ seenVerified'[r] = Verified
        /\ \A q \in Requests \ {r} : /\ pc'[q] = pc[q]
                                     /\ seenFiled'[q] = seenFiled[q]
                                     /\ seenVerified'[q] = seenVerified[q]
    BY <1>0, <1>5 DEF ReadDocuments, InFlight, TypeOK
  <2> QED
    BY <1>1, <2>1 DEF InFlight
<1>6. ASSUME NEW r \in Requests, WriteCase(r) \/ WriteDocument(r) PROVE AloneInv'
  <2>1. /\ UNCHANGED <<caseVars, readVars, overlapped>>
        /\ pc[r] \in {"loaded", "caseWritten"}
        /\ \A q \in Requests \ {r} : pc'[q] = pc[q]
    BY <1>0, <1>6, InFlightWhenWriting DEF TypeOK, WriteCase, WriteDocument
  <2> QED
    BY <1>1, <2>1 DEF InFlight, readVars
<1>7. ASSUME NEW r \in Requests, Refuse(r) \/ Fail(r) PROVE AloneInv'
  <2>1. r \in InFlight /\ RollBack(r)
    BY <1>0, <1>7, InFlightWhenEnding
  <2>2. /\ UNCHANGED <<caseVars, overlapped>>
        /\ \A d \in filed : asked'[d] = asked[d]
        /\ r \notin InFlight'
        /\ \A q \in Requests \ {r} : pc'[q] = pc[q]
    BY <1>0, <2>1, RolledBack
  <2>3. \A q \in Requests \ {r} : /\ seenStatus'[q] = seenStatus[q]
                                  /\ seenFiled'[q] = seenFiled[q]
                                  /\ seenVerified'[q] = seenVerified[q]
    BY <1>0, <2>1 DEF RollBack, End, TypeOK
  <2> QED
    BY <1>1, <2>2, <2>3 DEF InFlight
<1>8. ASSUME NEW r \in Requests, Commit(r) PROVE AloneInv'
  <2>1. overlapped' = overlapped
    BY <1>8 DEF Commit
  <2>2. CASE ~overlapped
    BY <1>8, <2>1, <2>2, AloneCommit DEF AloneInv
  <2> QED
    BY <2>1, <2>2 DEF AloneInv
<1>9. CASE AllAnswered
  BY <1>2, <1>9 DEF AllAnswered
<1> QED
  BY <1>2, <1>3, <1>4, <1>5, <1>6, <1>7, <1>8, <1>9 DEF Next, Serve

\* A request that is alone decides from the case as it is, and the case is
\* announced exactly when its paperwork is complete.
THEOREM AloneInvariant == Spec => []AloneInv
<1>1. CaseInv => TypeOK
  BY DEF CaseInv
<1>2. CaseInv /\ CaseInv' /\ AloneInv /\ [Next]_vars => AloneInv'
  BY AloneStep DEF CaseInv
<1> QED
  BY <1>2, AloneInit, CaseInvariant, PTL DEF Spec

\* Requests that do not overlap leave no complete paperwork unannounced.
THEOREM CompletionKept == Spec => []CompletionUnlessOverlapped
<1>1. AloneInv => CompletionUnlessOverlapped
  BY DEF AloneInv, CompletionUnlessOverlapped, CompletionAnnounced
<1> QED
  BY <1>1, AloneInvariant, PTL

\* Requests that do not overlap announce the completion once.
THEOREM AnnouncedOnce == Spec => []AnnouncedOnceUnlessOverlapped
<1>1. AloneInv => AnnouncedOnceUnlessOverlapped
  BY DEF AloneInv, AnnouncedOnceUnlessOverlapped
<1> QED
  BY <1>1, AloneInvariant, PTL

\* What a step does to the case and to its signatures, with nobody else there.
LEMMA AloneChange ==
    ASSUME CaseInv, TypeOK', AloneInv, [Next]_vars, ~overlapped
    PROVE  /\ Rank(status) <= Rank(status')
           /\ \A d \in Requests : verifiedBy[d] # NoOne => verifiedBy'[d] = verifiedBy[d]
<1>1. CASE OpenCase
  BY <1>1 DEF OpenCase, Rank
<1>2. ASSUME NEW r \in Requests, Commit(r)
      PROVE  /\ Rank(status) <= Rank(status')
             /\ \A d \in Requests : verifiedBy[d] # NoOne => verifiedBy'[d] = verifiedBy[d]
  BY <1>2, AloneCommit DEF Rank
<1>3. CASE UNCHANGED caseVars
  BY <1>3 DEF caseVars, Rank
<1> QED
  BY <1>1, <1>2, <1>3
  DEF Next, Serve, ReadCase, ReadDocuments, Refuse, WriteCase, WriteDocument, Fail, RollBack,
      AllAnswered, vars

\* Among requests that do not overlap, the first signature stays.
THEOREM FirstInspector == Spec => FirstInspectorUnlessOverlapped
<1>1. CaseInv /\ CaseInv' /\ AloneInv /\ [Next]_vars =>
        [~overlapped =>
           \A d \in Requests : verifiedBy[d] # NoOne => verifiedBy'[d] = verifiedBy[d]]_vars
  BY AloneChange DEF CaseInv
<1> QED
  BY <1>1, CaseInvariant, AloneInvariant, PTL DEF Spec, FirstInspectorUnlessOverlapped

\* Among requests that do not overlap, the case does not go back.
THEOREM OrderKept == Spec => OrderUnlessOverlapped
<1>1. CaseInv /\ CaseInv' /\ AloneInv /\ [Next]_vars =>
        [~overlapped => Rank(status) <= Rank(status')]_vars
  BY AloneChange DEF CaseInv
<1> QED
  BY <1>1, CaseInvariant, AloneInvariant, PTL DEF Spec, OrderUnlessOverlapped
=============================================================================
