--------------------------- MODULE ClearanceCase ---------------------------
(***************************************************************************)
(* One clearance case and the HTTP requests that work on it at once.       *)
(*                                                                         *)
(*   domain/clearance_case.py              attach_document, verify_document*)
(*   domain/entities/document_registry_item.py                             *)
(*   features/attach_document, verify_document: read, decide, persist      *)
(*   infrastructure: plain SELECTs under READ COMMITTED, UNIQUE(case, file)*)
(*                                                                         *)
(* A request reads the case row, then the documents (`selectin`: a second  *)
(* statement, hence a second snapshot), decides in memory, flushes the     *)
(* case row if its status changed, flushes the document, and commits.      *)
(* Rows it has written stay locked until then.  Cases share nothing, so    *)
(* one stands for all.  A document goes by the request that attached it,   *)
(* an inspector by the request that carries the name.                      *)
(***************************************************************************)
EXTENDS FiniteSets, Naturals

CONSTANTS
    Requests,       \* HTTP requests, each served once
    DocumentTypes,  \* DocumentType; REQUIRED_DOCUMENT_TYPES is all of them
    Files,          \* file_uuid values
    NoOne,          \* verified_by_inspector_id is NULL
    NotAsked,       \* a request that has not arrived, or was refused
    MaxInFlight,    \* bound: requests served at the same time
    MaxRacing,      \* bound: requests served in all, once any two have overlapped
    MaxFailures     \* bound: requests lost to a failure of their own

Attachments   == [document_type : DocumentTypes, file : Files]
Verifications == [document : Requests]

ASSUME CaseAssumption ==
    /\ DocumentTypes # {}
    /\ NoOne \notin Requests
    /\ NotAsked \notin Attachments \cup Verifications
    /\ MaxInFlight \in Nat
    /\ MaxRacing \in Nat
    /\ MaxFailures \in Nat

Decided == {"Released", "Rejected"}
Statuses == {"Opened", "DocumentVerification", "RiskAssessment"} \cup Decided

VARIABLES
    status,        \* clearance_cases.status, committed ("none": no such row)
    filed,         \* committed rows of clearance_case_documents
    verifiedBy,    \* verified_by_inspector_id of each
    announced,     \* requests whose DocumentVerificationCompleted is in the outbox
    asked,         \* what each request asks for
    pc,            \* where it is
    seenStatus,    \* the case row it read
    seenFiled,     \* the documents it read
    seenVerified,  \* which of them were verified
    overlapped,    \* history: some request began while another was being served
    failures

caseVars == <<status, filed, verifiedBy, announced>>
readVars == <<asked, seenStatus, seenFiled, seenVerified>>
vars == <<caseVars, readVars, pc, overlapped, failures>>

Init ==
    /\ status = "none"
    /\ filed = {}
    /\ verifiedBy = [d \in Requests |-> NoOne]
    /\ announced = {}
    /\ asked = [r \in Requests |-> NotAsked]
    /\ pc = [r \in Requests |-> "new"]
    /\ seenStatus = [r \in Requests |-> "none"]
    /\ seenFiled = [r \in Requests |-> {}]
    /\ seenVerified = [r \in Requests |-> {}]
    /\ overlapped = FALSE
    /\ failures = 0

Verified == {d \in filed : verifiedBy[d] # NoOne}

InFlight == {r \in Requests : pc[r] \in {"caseRead", "loaded", "caseWritten", "written"}}
Begun    == {r \in Requests : pc[r] # "new"}

-----------------------------------------------------------------------------
(* What the aggregate decides from what the request has read.              *)

Attaches(r) == asked[r] \in Attachments
Verifies(r) == asked[r] \in Verifications

TypesOf(documents) == {asked[d].document_type : d \in documents}

HoldsFile(r) == \E d \in seenFiled[r] : asked[d].file = asked[r].file

\* Mutation: find_document's None is not looked at.
AllowedUnfound(r) ==
    /\ seenStatus[r] \notin Decided
    /\ Attaches(r) => ~HoldsFile(r)
    /\ Verifies(r) => asked[r].document \notin seenVerified[r]

\* Mutation: clearing is idempotent.
AllowedTwice(r) ==
    /\ seenStatus[r] \notin Decided
    /\ Attaches(r) => ~HoldsFile(r)
    /\ Verifies(r) => asked[r].document \in seenFiled[r]

\* attach_document and verify_document get past their `raise`s.
Allowed(r) ==
    /\ seenStatus[r] \notin Decided
    /\ Attaches(r) => ~HoldsFile(r)
    /\ Verifies(r) => asked[r].document \in seenFiled[r] \ seenVerified[r]

\* Mutation: an uncleared document counts towards complete paperwork.
CompletePaperworkUncleared(r) == TypesOf(seenFiled[r]) = DocumentTypes

\* has_complete_paperwork, with the document this request has just cleared.
CompletePaperwork(r) == TypesOf(seenVerified[r] \cup {asked[r].document}) = DocumentTypes

\* Mutation: the guard on the source state is gone.
CompletesAgain(r) == Verifies(r) /\ CompletePaperwork(r)

\* The sign-off that ends the verification stage, and raises its event.
Completes(r) ==
    /\ Verifies(r)
    /\ seenStatus[r] = "DocumentVerification"
    /\ CompletePaperwork(r)

\* Mutation: every attachment puts the case back under verification.
NewStatusReset(r) ==
    IF Attaches(r) THEN "DocumentVerification"
    ELSE IF Completes(r) THEN "RiskAssessment"
    ELSE seenStatus[r]

NewStatus(r) ==
    IF Attaches(r) /\ seenStatus[r] = "Opened" THEN "DocumentVerification"
    ELSE IF Completes(r) THEN "RiskAssessment"
    ELSE seenStatus[r]

Moves(r) == NewStatus(r) # seenStatus[r]

-----------------------------------------------------------------------------
(* Rows written and not committed: another writer of the same row waits.   *)

HoldsCase(r) == pc[r] \in {"caseWritten", "written"} /\ Moves(r)
HoldsDocument(r, d) == pc[r] = "written" /\ Verifies(r) /\ asked[r].document = d
HoldsFileKey(r, f) == pc[r] = "written" /\ Attaches(r) /\ asked[r].file = f

\* The case row is to be written before the document, and already was.
CaseDone(r) == pc[r] = IF Moves(r) THEN "caseWritten" ELSE "loaded"

FileTaken(r) == \E d \in filed : asked[d].file = asked[r].file

-----------------------------------------------------------------------------
\* OpenClearanceCaseHandler, behind the message bus: the row appears.
OpenCase ==
    /\ status = "none"
    /\ status' = "Opened"
    /\ UNCHANGED <<filed, verifiedBy, announced, readVars, pc, overlapped, failures>>

\* The request arrives; find_by_id SELECTs the case, and there must be one.
ReadCase(r) ==
    /\ pc[r] = "new"
    /\ Cardinality(InFlight) < MaxInFlight
    /\ status # "none"
    /\ \E body \in Attachments \cup Verifications : asked' = [asked EXCEPT ![r] = body]
    /\ seenStatus' = [seenStatus EXCEPT ![r] = status]
    /\ pc' = [pc EXCEPT ![r] = "caseRead"]
    /\ overlapped' = (overlapped \/ InFlight # {})
    /\ overlapped' => Cardinality(Begun) < MaxRacing
    /\ UNCHANGED <<caseVars, seenFiled, seenVerified, failures>>

\* The request is answered and its session, with what it had read, is closed.
End(r) ==
    /\ pc' = [pc EXCEPT ![r] = "ended"]
    /\ seenStatus' = [seenStatus EXCEPT ![r] = "none"]
    /\ seenFiled' = [seenFiled EXCEPT ![r] = {}]
    /\ seenVerified' = [seenVerified EXCEPT ![r] = {}]

\* It is answered with an error: rolled back, and nothing of it is left.
RollBack(r) ==
    /\ End(r)
    /\ asked' = [asked EXCEPT ![r] = NotAsked]
    /\ UNCHANGED <<caseVars, overlapped>>

\* The selectin load of its documents.
ReadDocuments(r) ==
    /\ pc[r] = "caseRead"
    /\ seenFiled' = [seenFiled EXCEPT ![r] = filed]
    /\ seenVerified' = [seenVerified EXCEPT ![r] = Verified]
    /\ pc' = [pc EXCEPT ![r] = "loaded"]
    /\ UNCHANGED <<caseVars, asked, seenStatus, overlapped, failures>>

\* A domain error, or the unique constraint on (case, file): rolled back.
Refuse(r) ==
    /\ \/ pc[r] = "loaded" /\ ~Allowed(r)
       \/ Allowed(r) /\ CaseDone(r) /\ Attaches(r) /\ FileTaken(r)
    /\ RollBack(r)
    /\ UNCHANGED failures

\* persist flushes the case row first, if its status changed.
WriteCase(r) ==
    /\ pc[r] = "loaded"
    /\ Allowed(r)
    /\ Moves(r)
    /\ \A q \in Requests : ~HoldsCase(q)
    /\ pc' = [pc EXCEPT ![r] = "caseWritten"]
    /\ UNCHANGED <<caseVars, readVars, overlapped, failures>>

\* Mutation: the table without UNIQUE (clearance_case_id, file_uuid).
WriteDocumentUnconstrained(r) ==
    /\ Allowed(r)
    /\ CaseDone(r)
    /\ Verifies(r) => \A q \in Requests : ~HoldsDocument(q, asked[r].document)
    /\ pc' = [pc EXCEPT ![r] = "written"]
    /\ UNCHANGED <<caseVars, readVars, overlapped, failures>>

\* Then the document: an INSERT the unique constraint watches, or an UPDATE of
\* its row.  The outbox row of an event is flushed along with it.
WriteDocument(r) ==
    /\ Allowed(r)
    /\ CaseDone(r)
    /\ Attaches(r) => ~FileTaken(r) /\ \A q \in Requests : ~HoldsFileKey(q, asked[r].file)
    /\ Verifies(r) => \A q \in Requests : ~HoldsDocument(q, asked[r].document)
    /\ pc' = [pc EXCEPT ![r] = "written"]
    /\ UNCHANGED <<caseVars, readVars, overlapped, failures>>

\* Mutation: the case row is left out of the flush.
CommitDocumentOnly(r) ==
    /\ pc[r] = "written"
    /\ UNCHANGED status
    /\ filed' = IF Attaches(r) THEN filed \cup {r} ELSE filed
    /\ verifiedBy' = IF Verifies(r) THEN [verifiedBy EXCEPT ![asked[r].document] = r]
                     ELSE verifiedBy
    /\ announced' = IF Completes(r) THEN announced \cup {r} ELSE announced
    /\ End(r)
    /\ UNCHANGED <<asked, overlapped, failures>>

\* get_session commits what the request has written, over whatever the rows
\* have become since it read them.
Commit(r) ==
    /\ pc[r] = "written"
    /\ status' = IF Moves(r) THEN NewStatus(r) ELSE status
    /\ filed' = IF Attaches(r) THEN filed \cup {r} ELSE filed
    /\ verifiedBy' = IF Verifies(r) THEN [verifiedBy EXCEPT ![asked[r].document] = r]
                     ELSE verifiedBy
    /\ announced' = IF Completes(r) THEN announced \cup {r} ELSE announced
    /\ End(r)
    /\ UNCHANGED <<asked, overlapped, failures>>

\* The request is lost (the database, the process): rolled back.
Fail(r) ==
    /\ failures < MaxFailures
    /\ failures' = failures + 1
    /\ r \in InFlight
    /\ RollBack(r)

\* Everyone who asked has been answered: the only way to stop.
AllAnswered ==
    /\ status # "none"
    /\ InFlight = {}
    /\ UNCHANGED vars

Serve(r) ==
    \/ ReadCase(r)
    \/ ReadDocuments(r)
    \/ Refuse(r)
    \/ WriteCase(r)
    \/ WriteDocument(r)
    \/ Commit(r)
    \/ Fail(r)

Next == OpenCase \/ (\E r \in Requests : Serve(r)) \/ AllAnswered

Spec == Init /\ [][Next]_vars

-----------------------------------------------------------------------------
(* Properties.                                                             *)

TypeOK ==
    /\ status \in Statuses \cup {"none"}
    /\ filed \subseteq Requests
    /\ verifiedBy \in [Requests -> Requests \cup {NoOne}]
    /\ announced \subseteq Requests
    /\ asked \in [Requests -> Attachments \cup Verifications \cup {NotAsked}]
    /\ pc \in [Requests -> {"new", "caseRead", "loaded", "caseWritten", "written",
                            "ended"}]
    /\ seenStatus \in [Requests -> Statuses \cup {"none"}]
    /\ seenFiled \in [Requests -> SUBSET Requests]
    /\ seenVerified \in [Requests -> SUBSET Requests]
    /\ overlapped \in BOOLEAN
    /\ failures \in 0..MaxFailures
    /\ \A d \in filed : asked[d] \in Attachments
    /\ \A d \in Requests : verifiedBy[d] # NoOne => d \in filed

\* One file is filed against a case once, however the attachments interleave.
OneDocumentPerFile ==
    \A d, e \in filed : asked[d].file = asked[e].file => d = e

\* A case sitting at Opened has nothing for an inspector to look at, and no
\* concurrent write puts it back there once it has.
OpenedHasNoPaperwork == status = "Opened" => filed = {}

PaperworkComplete == TypesOf(Verified) = DocumentTypes

\* The risk assessment is announced, and the case moved to it, only with every
\* required kind of document cleared - whatever a request had read was stale.
NeverPremature ==
    announced # {} \/ status = "RiskAssessment" => PaperworkComplete

\* "A completed verification never fails to announce itself": with all the
\* paperwork cleared and nobody working on the case, the event is in the outbox.
CompletionAnnounced == PaperworkComplete /\ InFlight = {} => announced # {}

\* It is so as long as no two requests are served at once, lost ones included.
CompletionUnlessOverlapped == ~overlapped => CompletionAnnounced

\* "Guarding on the source state is also what keeps a third document ... from
\* announcing the same thing twice", for requests that do not overlap.
AnnouncedOnceUnlessOverlapped == ~overlapped => \A q, r \in announced : q = r

\* "The second attempt is refused rather than silently overwriting the first
\* inspector's name, because who signed off on a document is part of the audit
\* trail", for requests that do not overlap.
FirstInspectorUnlessOverlapped ==
    [][~overlapped =>
         \A d \in Requests : verifiedBy[d] # NoOne => verifiedBy'[d] = verifiedBy[d]]_vars

\* "States a clearance case moves through, in regulatory order": it does not go
\* back, for requests that do not overlap.
Rank(s) == CASE s = "none" -> 0
             [] s = "Opened" -> 1
             [] s = "DocumentVerification" -> 2
             [] s = "RiskAssessment" -> 3
             [] OTHER -> 4
OrderUnlessOverlapped == [][~overlapped => Rank(status) <= Rank(status')]_vars

-----------------------------------------------------------------------------
(* Why the rules hold although requests overlap.                           *)

\* The unique constraint: who is about to insert holds a key that nobody has.
IndexInv ==
    /\ OneDocumentPerFile
    /\ \A r \in Requests : pc[r] = "written" /\ Attaches(r) => ~FileTaken(r)
    /\ \A q, r \in Requests :
          /\ pc[q] = "written" /\ Attaches(q)
          /\ pc[r] = "written" /\ Attaches(r)
          /\ asked[q].file = asked[r].file
          => q = r

\* Stale is not wrong: documents and signatures are never taken away, so what a
\* request has read is still there when it commits.
SeenInv ==
    /\ \A d \in filed : pc[d] = "ended"
    /\ \A r \in Requests : seenFiled[r] \subseteq filed /\ seenVerified[r] \subseteq Verified
    /\ \A r \in InFlight : asked[r] # NotAsked
    /\ \A r \in Requests : pc[r] \in {"caseWritten", "written"} => Allowed(r)

\* A case that has left Opened does not come back, whoever read it before.
StageInv ==
    /\ OpenedHasNoPaperwork
    /\ NeverPremature
    /\ status = "none" => filed = {} /\ \A r \in Requests : pc[r] = "new"
    /\ \A r \in InFlight :
          /\ seenStatus[r] # "none"
          /\ status = "Opened" => seenStatus[r] = "Opened"

CaseInv == TypeOK /\ IndexInv /\ SeenInv /\ StageInv

\* And why more holds for a request that is alone: it decides from what is there.
AloneInv ==
    ~overlapped =>
      /\ \A q, r \in InFlight : q = r
      /\ \A r \in InFlight :
            /\ seenStatus[r] = status
            /\ pc[r] # "caseRead" => seenFiled[r] = filed /\ seenVerified[r] = Verified
      /\ status \in {"none", "Opened", "DocumentVerification", "RiskAssessment"}
      /\ announced # {} <=> status = "RiskAssessment"
      /\ announced # {} <=> PaperworkComplete
      /\ \A q, r \in announced : q = r
=============================================================================
