--------------------------- MODULE WaybillSeries ---------------------------
(***************************************************************************)
(* The waybill series, which is all that shipments share, and the          *)
(* requests that create drafts from it at once.                            *)
(*                                                                         *)
(*   infrastructure/database/postgres_waybill_number_generator.py          *)
(*   infrastructure/database/entities/shipment_table.py: sequence, UNIQUE  *)
(*   features/create_draft_shipment: draw, construct, persist, answer      *)
(*                                                                         *)
(* `nextval` is in no transaction: what it hands out stays handed out when *)
(* the request is rolled back.  Only a database that restarts may forget   *)
(* draws, those no commit has made durable; or leave some out, which it    *)
(* had logged ahead.  MUST-0000042 is 42: seven digits hold the series.    *)
(***************************************************************************)
EXTENDS Naturals

CONSTANTS
    Requests,     \* POST /shipments, each served once
    MaxSerial,    \* 9 999 999: the sequence's maxvalue
    LoggedAhead,  \* how many draws the database logs in advance
    MaxFailures,  \* bound: requests lost to a failure of their own
    MaxRestarts   \* bound: restarts of the database

ASSUME SeriesAssumption ==
    /\ MaxSerial \in Nat
    /\ LoggedAhead \in Nat
    /\ MaxFailures \in Nat
    /\ MaxRestarts \in Nat

VARIABLES
    last,      \* the last serial the sequence handed out
    serial,    \* the one each request was handed (0: none)
    pc,
    told,      \* requests answered with 201 and their number
    early,     \* the answer leaves before get_session commits
    failures,
    restarts

vars == <<last, serial, pc, told, early, failures, restarts>>

Init ==
    /\ last = 0
    /\ serial = [r \in Requests |-> 0]
    /\ pc = [r \in Requests |-> "new"]
    /\ told = {}
    /\ early \in BOOLEAN
    /\ failures = 0
    /\ restarts = 0

Stored   == {r \in Requests : pc[r] = "stored"}
InFlight == {r \in Requests : pc[r] \in {"drawn", "inserted"}}

Goto(r, to) == pc' = [pc EXCEPT ![r] = to]

-----------------------------------------------------------------------------
\* Mutation: SELECT max(waybill_number) + 1 instead of a sequence.
DrawHighest(r) ==
    /\ pc[r] = "new"
    /\ \E n \in 1..MaxSerial :
         /\ \A s \in Stored : serial[s] < n
         /\ \A m \in 1..(n - 1) : \E s \in Stored : serial[s] >= m
         /\ last' = n
         /\ serial' = [serial EXCEPT ![r] = n]
    /\ Goto(r, "drawn")
    /\ UNCHANGED <<told, early, failures, restarts>>

\* Mutation: the sequence goes on past the seven digits.
DrawPastEnd(r) ==
    /\ pc[r] = "new"
    /\ last' = last + 1
    /\ serial' = [serial EXCEPT ![r] = last + 1]
    /\ Goto(r, "drawn")
    /\ UNCHANGED <<told, early, failures, restarts>>

\* nextval.
Draw(r) ==
    /\ pc[r] = "new"
    /\ last < MaxSerial
    /\ last' = last + 1
    /\ serial' = [serial EXCEPT ![r] = last + 1]
    /\ Goto(r, "drawn")
    /\ UNCHANGED <<told, early, failures, restarts>>

\* The sequence does not cycle: past its end nextval raises.
Exhausted(r) ==
    /\ pc[r] = "new"
    /\ last = MaxSerial
    /\ Goto(r, "refused")
    /\ UNCHANGED <<last, serial, told, early, failures, restarts>>

\* Two ports that make no route: found out when the number is drawn already.
RefuseRoute(r) ==
    /\ pc[r] = "drawn"
    /\ Goto(r, "refused")
    /\ UNCHANGED <<last, serial, told, early, failures, restarts>>

Taken(n) == \E s \in Stored : serial[s] = n

\* persist flushes the INSERT.  It waits for another's of the same number, and is
\* refused a number that is stored.
Insert(r) ==
    /\ pc[r] = "drawn"
    /\ \A q \in Requests : pc[q] = "inserted" => serial[q] # serial[r]
    /\ Goto(r, IF Taken(serial[r]) THEN "refused" ELSE "inserted")
    /\ UNCHANGED <<last, serial, told, early, failures, restarts>>

\* The answer: the releases of FastAPI that pyproject.toml admits differ in
\* whether a dependency that yields is resumed before it is sent or after.
Answer(r) ==
    /\ pc[r] \in {"stored"} \cup (IF early THEN {"inserted"} ELSE {})
    /\ told' = told \cup {r}
    /\ UNCHANGED <<last, serial, pc, early, failures, restarts>>

Commit(r) ==
    /\ pc[r] = "inserted"
    /\ Goto(r, "stored")
    /\ UNCHANGED <<last, serial, told, early, failures, restarts>>

\* Mutation: a request that is rolled back gives its number back.
FailReturning(r) ==
    /\ failures < MaxFailures
    /\ failures' = failures + 1
    /\ r \in InFlight
    /\ last' = IF serial[r] = last THEN last - 1 ELSE last
    /\ Goto(r, "refused")
    /\ UNCHANGED <<serial, told, early, restarts>>

\* The request is lost, its commit included: rolled back, the number spent.
Fail(r) ==
    /\ failures < MaxFailures
    /\ failures' = failures + 1
    /\ r \in InFlight
    /\ Goto(r, "refused")
    /\ UNCHANGED <<last, serial, told, early, restarts>>

\* Where the sequence may stand after a restart.
Recovered == {n \in 0..MaxSerial : /\ n <= last + LoggedAhead
                                   /\ \A s \in Stored : serial[s] <= n}

\* The database restarts: every open transaction is gone.
Restart ==
    /\ restarts < MaxRestarts
    /\ restarts' = restarts + 1
    /\ last' \in Recovered
    /\ pc' = [r \in Requests |-> IF r \in InFlight THEN "refused" ELSE pc[r]]
    /\ UNCHANGED <<serial, told, early, failures>>

\* Every request has been answered: the only way to stop.
AllAnswered ==
    /\ \A r \in Requests : pc[r] = "refused" \/ (pc[r] = "stored" /\ r \in told)
    /\ UNCHANGED vars

Create(r) ==
    Draw(r) \/ Exhausted(r) \/ RefuseRoute(r) \/ Insert(r) \/ Answer(r) \/ Commit(r) \/ Fail(r)

Next == (\E r \in Requests : Create(r)) \/ Restart \/ AllAnswered

Spec == Init /\ [][Next]_vars

-----------------------------------------------------------------------------
(* Properties.                                                             *)

TypeOK ==
    /\ last \in 0..MaxSerial
    /\ serial \in [Requests -> 0..MaxSerial]
    /\ pc \in [Requests -> {"new", "drawn", "inserted", "stored", "refused"}]
    /\ told \subseteq Requests
    /\ early \in BOOLEAN
    /\ failures \in 0..MaxFailures
    /\ restarts \in 0..MaxRestarts
    /\ \A r \in Requests : pc[r] = "new" => serial[r] = 0 /\ r \notin told

\* "Delegating uniqueness to a sequence keeps concurrent draft creations from ever
\* colliding": a number in use is in use once, restarts of the database included.
\* The unique constraint never has to refuse anyone.
NeverCollide ==
    \A q, r \in InFlight \cup Stored : serial[q] = serial[r] => q = r

\* "A waybill number that has never been issued before": what was handed to a
\* request that was rolled back is handed to no other.  Only a restart can have a
\* number issued twice, and even then it is told to two clients only by a build
\* that tells them before it commits.
NeverReissued ==
    \A q, r \in Requests :
        q # r /\ serial[q] = serial[r] /\ serial[q] # 0
            => restarts > 0 /\ ({q, r} \subseteq told => early)

\* Why: the sequence is never behind a number in use, nor, before a restart, behind
\* one it handed out; and what is told after a commit is stored.
SeriesInv ==
    /\ NeverCollide
    /\ NeverReissued
    /\ \A r \in InFlight \cup Stored : serial[r] \in 1..last
    /\ restarts = 0 => \A r \in Requests : serial[r] <= last
    /\ ~early => told \subseteq Stored
=============================================================================
