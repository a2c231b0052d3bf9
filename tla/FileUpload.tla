----------------------------- MODULE FileUpload -----------------------------
(***************************************************************************)
(* Uploads that race for one object key of one disk: the bytes on the      *)
(* storage backend, the row in PostgreSQL, and no transaction around both. *)
(*                                                                         *)
(*   features/upload_file/upload_file_handler.py    the order of the steps *)
(*   infrastructure/storage/fsspec_file_storage.py  exists, put, delete    *)
(*   postgres_stored_file_repository.py, file_table.py  UNIQUE location    *)
(*                                                                         *)
(* The disk is `local`: opening for writing truncates the file at once, a  *)
(* deleted file swallows what its writers still write, and two writers of  *)
(* one file may leave the bytes of either or of both.  Keys share nothing, *)
(* so one stands for all.  Bytes and row go by the upload they are of.     *)
(***************************************************************************)
EXTENDS FiniteSets, Naturals

CONSTANTS
    Uploads,      \* POST /files requests for the key, each served once
    Empty,        \* those whose body is empty
    BadReference, \* those with a reference FileReference.declare refuses: the
                  \* command lets an entity_id of any length through to it
    Nothing,      \* there is no object at the key
    Mixed,        \* the object holds bytes of several uploads
    FaultKinds,   \* which failures may happen
    MaxInFlight,  \* bound: uploads served at the same time
    MaxFaults     \* bound: failures

\* write: the backend breaks off a write.  insert: the INSERT fails, but not on the
\* location (a lost connection, a value no column takes).  delete: the backend refuses the clean-up.
\* commit: the request's commit reports an error.  crash: the process dies.
AllFaultKinds == {"write", "insert", "delete", "commit", "crash"}

Object == [by : Uploads, whole : BOOLEAN]

\* Uploads no StoredFile can be made of, which shows once the bytes are written.
Unfit == Empty \cup BadReference

ASSUME UploadAssumption ==
    /\ Unfit \subseteq Uploads
    /\ FaultKinds \subseteq AllFaultKinds
    /\ {Nothing, Mixed} \cap Object = {}
    /\ Nothing # Mixed
    /\ MaxInFlight \in Nat
    /\ MaxFaults \in Nat

VARIABLES
    object,   \* what is at the key
    writers,  \* uploads that have that object open for writing
    rows,     \* committed rows of files.files for the key
    pc,
    overlapped,  \* history: some upload began while another was being served
    faults

vars == <<object, writers, rows, pc, overlapped, faults>>

Init ==
    /\ object = Nothing
    /\ writers = {}
    /\ rows = {}
    /\ pc = [u \in Uploads |-> "new"]
    /\ overlapped = FALSE
    /\ faults = 0

Part(u)  == [by |-> u, whole |-> FALSE]
Whole(u) == [by |-> u, whole |-> TRUE]

InFlight == {u \in Uploads : pc[u] \notin {"new", "stored", "refused"}}

Goto(u, to) == pc' = [pc EXCEPT ![u] = to]

-----------------------------------------------------------------------------
(* The handler, in the order of its awaits.                                *)

\* Mutation: the key is not looked up first.
CheckNothing(u) ==
    /\ pc[u] = "new"
    /\ Cardinality(InFlight) < MaxInFlight
    /\ Goto(u, "free")
    /\ overlapped' = (overlapped \/ InFlight # {})
    /\ UNCHANGED <<object, writers, rows, faults>>

\* storage.exists: a taken key is answered with a 409.
Check(u) ==
    /\ pc[u] = "new"
    /\ Cardinality(InFlight) < MaxInFlight
    /\ Goto(u, IF object = Nothing THEN "free" ELSE "refused")
    /\ overlapped' = (overlapped \/ InFlight # {})
    /\ UNCHANGED <<object, writers, rows, faults>>

\* Mutation: how large the body is, is looked at once it has been written.
TurnDownLate(u) ==
    /\ pc[u] \in {"new", "free", "put"}
    /\ Goto(u, "refused")
    /\ UNCHANGED <<object, writers, rows, overlapped, faults>>

\* An unknown disk, an unusable location, or a body found too large while it is
\* spooled: turned down with nothing written.
TurnDown(u) ==
    /\ pc[u] \in {"new", "free"}
    /\ Goto(u, "refused")
    /\ UNCHANGED <<object, writers, rows, overlapped, faults>>

\* storage.put, once the body is spooled: the target is opened, and emptied.
OpenTarget(u) ==
    /\ pc[u] = "free"
    /\ object' = Part(u)
    /\ writers' = writers \cup {u}
    /\ Goto(u, "writing")
    /\ UNCHANGED <<rows, overlapped, faults>>

Alone(u) == writers = {u} /\ object = Part(u)

\* What u's writing leaves at the key, once it has written it all: its own bytes
\* if it was alone, else those of whoever wrote last, or some of each.
Left(u) ==
    IF u \notin writers THEN {object}
    ELSE IF Alone(u) THEN {Whole(u)}
    ELSE {Whole(u), Mixed} \cup ({object} \ {Part(u)})

CloseTarget(u) ==
    /\ pc[u] = "writing"
    /\ object' \in Left(u)
    /\ writers' = writers \ {u}
    /\ Goto(u, "put")
    /\ UNCHANGED <<rows, overlapped, faults>>

\* The references are declared when the object is on the disk, outside the `try`
\* that would remove it: one that is refused leaves it there.
RefuseReference(u) ==
    /\ pc[u] = "put"
    /\ u \in BadReference
    /\ Goto(u, "refused")
    /\ UNCHANGED <<object, writers, rows, overlapped, faults>>

\* So does StoredFile.register, which comes next and refuses an empty file.
RefuseEmpty(u) ==
    /\ pc[u] = "put"
    /\ u \in Empty \ BadReference
    /\ Goto(u, "refused")
    /\ UNCHANGED <<object, writers, rows, overlapped, faults>>

\* Mutation: the record is made of whatever was written.
InsertUnregistered(u) ==
    /\ pc[u] = "put"
    /\ rows = {}
    /\ \A v \in Uploads : pc[v] # "inserted"
    /\ Goto(u, "inserted")
    /\ UNCHANGED <<object, writers, rows, overlapped, faults>>

\* persist flushes the INSERT.  It waits for another's of the same location.
Insert(u) ==
    /\ pc[u] = "put"
    /\ u \notin Unfit
    /\ rows = {}
    /\ \A v \in Uploads : pc[v] # "inserted"
    /\ Goto(u, "inserted")
    /\ UNCHANGED <<object, writers, rows, overlapped, faults>>

\* Mutation: the object is removed after every failed insert.
LoseRaceDeleting(u) ==
    /\ pc[u] = "put"
    /\ u \notin Unfit
    /\ rows # {}
    /\ Goto(u, "removing")
    /\ UNCHANGED <<object, writers, rows, overlapped, faults>>

\* The unique constraint says somebody else has the key: what is there is left.
LoseRace(u) ==
    /\ pc[u] = "put"
    /\ u \notin Unfit
    /\ rows # {}
    /\ Goto(u, "refused")
    /\ UNCHANGED <<object, writers, rows, overlapped, faults>>

\* The handler's clean-up: whatever is at the key is removed.
Remove(u) ==
    /\ pc[u] = "removing"
    /\ object' = Nothing
    /\ writers' = {}
    /\ Goto(u, "refused")
    /\ UNCHANGED <<rows, overlapped, faults>>

\* get_session commits.
Commit(u) ==
    /\ pc[u] = "inserted"
    /\ rows' = rows \cup {u}
    /\ Goto(u, "stored")
    /\ UNCHANGED <<object, writers, overlapped, faults>>

-----------------------------------------------------------------------------
(* Failures; MaxFaults bounds how many.                                    *)

Fault(kind) ==
    /\ kind \in FaultKinds
    /\ faults < MaxFaults
    /\ faults' = faults + 1

\* The backend breaks off the write: the handler is not yet in its `try`, so
\* what has been written stays.
WriteFails(u) ==
    /\ Fault("write")
    /\ pc[u] = "writing"
    /\ object' \in IF u \in writers /\ ~Alone(u) THEN {object, Mixed} ELSE {object}
    /\ writers' = writers \ {u}
    /\ Goto(u, "refused")
    /\ UNCHANGED <<rows, overlapped>>

\* The INSERT fails for another reason than the location.
InsertFails(u) ==
    /\ Fault("insert")
    /\ pc[u] = "put"
    /\ u \notin Unfit
    /\ Goto(u, "removing")
    /\ UNCHANGED <<object, writers, rows, overlapped>>

\* The clean-up fails too: its error takes the place of the first.
RemoveFails(u) ==
    /\ Fault("delete")
    /\ pc[u] = "removing"
    /\ Goto(u, "refused")
    /\ UNCHANGED <<object, writers, rows, overlapped>>

\* Mutation: a failed commit also takes the object back out.
CommitFailsRemoving(u) ==
    /\ Fault("commit")
    /\ pc[u] = "inserted"
    /\ \/ UNCHANGED rows
       \/ rows' = rows \cup {u}
    /\ Goto(u, "removing")
    /\ UNCHANGED <<object, writers, overlapped>>

\* The commit reports an error, in effect or not: left for a sweeper.
CommitFails(u) ==
    /\ Fault("commit")
    /\ pc[u] = "inserted"
    /\ \/ UNCHANGED rows
       \/ rows' = rows \cup {u}
    /\ Goto(u, "refused")
    /\ UNCHANGED <<object, writers, overlapped>>

\* The process dies, and every upload it was serving with it.
Crash ==
    /\ Fault("crash")
    /\ InFlight # {}
    /\ pc' = [u \in Uploads |-> IF u \in InFlight THEN "refused" ELSE pc[u]]
    /\ writers' = {}
    /\ UNCHANGED <<object, rows, overlapped>>

-----------------------------------------------------------------------------
\* Every upload has been answered: the only way to stop.
AllAnswered ==
    /\ \A u \in Uploads : pc[u] \in {"stored", "refused"}
    /\ UNCHANGED vars

Handle(u) ==
    \/ Check(u) \/ TurnDown(u)
    \/ OpenTarget(u) \/ CloseTarget(u)
    \/ RefuseReference(u) \/ RefuseEmpty(u)
    \/ Insert(u) \/ LoseRace(u) \/ Remove(u) \/ Commit(u)

Next ==
    \/ \E u \in Uploads :
         Handle(u) \/ WriteFails(u) \/ InsertFails(u) \/ RemoveFails(u) \/ CommitFails(u)
    \/ Crash
    \/ AllAnswered

Spec == Init /\ [][Next]_vars

-----------------------------------------------------------------------------
(* Properties.                                                             *)

TypeOK ==
    /\ object \in Object \cup {Nothing, Mixed}
    /\ writers \subseteq {u \in Uploads : pc[u] = "writing"}
    /\ rows \subseteq Uploads \ Unfit
    /\ pc \in [Uploads -> {"new", "free", "writing", "put", "inserted", "removing",
                           "stored", "refused"}]
    /\ overlapped \in BOOLEAN
    /\ faults \in 0..MaxFaults
    /\ \A u \in Uploads : pc[u] = "stored" => u \in rows
    /\ \A u \in Unfit : pc[u] # "inserted"

\* "The record describes reality": size and checksum are those of the bytes that
\* are at the key the row names, and of no others.
RecordDescribesReality == \A u \in rows : object = Whole(u)

\* Looking the key up first is enough for that, whichever steps fail, as long as
\* no two uploads of the key are served at once.
RealityUnlessOverlapped == ~overlapped => RecordDescribesReality

\* "No orphan file_uuid": a file_uuid somebody was given has an object behind it.
\* The clean-up of a failed upload is the one thing that can take it away, and
\* only from an upload that overlapped it: losing the race for the key is not
\* such a failure.
OrphanNeedsFailedRival ==
    rows # {} /\ object = Nothing => overlapped /\ faults > 0

\* "The unique constraint on the location is the authority on collisions": of the
\* uploads that found the key free, one gets it, commits in doubt included.
OneFilePerKey == Cardinality(rows) <= 1

\* "The opposite failure ... leaves an unreferenced object on the disk": without a
\* failure, what is at a key that has no row was written by uploads no StoredFile
\* could be made of, each refused after it had written.  No upload that was fit to
\* be recorded loses its bytes that way, whatever it overlapped, be it turned down,
\* answered 409 or beaten to the row.
StrandedNeedsCause ==
    /\ object # Nothing
    /\ rows = {}
    /\ faults = 0
    /\ \A u \in Uploads : pc[u] \notin {"writing", "put", "inserted"}
    => \/ \E u \in Unfit : object = Whole(u) /\ pc[u] = "refused"
       \/ /\ object = Mixed
          /\ \E u, v \in Unfit : u # v /\ pc[u] = "refused" /\ pc[v] = "refused"

\* Why: the index admits one uncommitted row and no second committed one; two
\* uploads in flight have overlapped, and so has one in flight with a row there
\* already.
KeyInv ==
    /\ \A u, v \in rows : u = v
    /\ \A u \in Uploads : pc[u] = "inserted" => rows = {}
    /\ \A u, v \in Uploads : pc[u] = "inserted" /\ pc[v] = "inserted" => u = v

OverlapInv ==
    /\ \A u, v \in InFlight : u # v => overlapped
    /\ \A u \in InFlight : rows # {} => overlapped

\* The object is gone under an upload's hands only after another's clean-up.
OrphanInv ==
    /\ OrphanNeedsFailedRival
    /\ \A u \in Uploads : pc[u] = "removing" => faults > 0
    /\ \A u \in Uploads : pc[u] \in {"writing", "put", "inserted"} /\ object = Nothing
                          => overlapped /\ faults > 0

\* What an upload that is alone has at the key, from step to step.
AloneInv ==
    ~overlapped =>
      /\ RecordDescribesReality
      /\ \A u \in Uploads : pc[u] = "free" => object = Nothing
      /\ \A u \in Uploads : pc[u] = "writing" => Alone(u)
      /\ \A u \in Uploads : pc[u] \in {"put", "inserted"} => object = Whole(u)

\* Whose bytes can be at a key that has no row yet.
MayHaveWritten(u) ==
    \/ pc[u] \in {"writing", "put", "inserted"}
    \/ u \in Unfit /\ pc[u] = "refused"

\* A fit upload that has opened the target is on its way to a row, or finds one.
StrandInv ==
    faults = 0 /\ rows = {} =>
      /\ \A u \in Uploads : object = Part(u) => u \in writers
      /\ \A u \in Uploads : object = Whole(u) => MayHaveWritten(u) /\ pc[u] # "writing"
      /\ object = Mixed =>
           \E u, v \in Uploads : u # v /\ MayHaveWritten(u) /\ MayHaveWritten(v)

UploadInv == KeyInv /\ OverlapInv /\ OrphanInv /\ AloneInv /\ StrandInv
=============================================================================
