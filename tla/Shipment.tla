------------------------------ MODULE Shipment ------------------------------
(***************************************************************************)
(* One shipment and the HTTP requests that work on it at once.             *)
(*                                                                         *)
(*   domain/shipment.py          create, assign_route, finalize_manifest   *)
(*   domain/value_objects/       ShipmentRoute, CargoManifest              *)
(*   features/                   read, decide, persist, schedule the event *)
(*   infrastructure/database     the value objects as columns of one row   *)
(*                                                                         *)
(* A request SELECTs the row under READ COMMITTED, decides in memory and   *)
(* flushes an UPDATE of the columns it changed, waiting for whoever holds  *)
(* the row; get_session commits that and the event's outbox row together.  *)
(* The row carries no version.  Shipments share nothing but the waybill    *)
(* series, so one stands for all.  A manifest goes by the request that     *)
(* declares it.                                                            *)
(***************************************************************************)
EXTENDS FiniteSets, Naturals, Sequences

CONSTANTS
    Requests,     \* HTTP requests, each served once
    Ports,        \* UN/LOCODEs
    Finalize,     \* the request asks to finalize the manifest
    NotAsked,     \* a request that has not arrived, or was refused
    NoManifest,   \* the manifest columns are NULL
    MaxLegs,      \* bound: transit legs of a route
    MaxInFlight,  \* bound: requests served at the same time
    MaxFailures   \* bound: requests lost to a failure of their own

Legs    == UNION {[1..n -> Ports] : n \in 0..MaxLegs}
Columns == [origin : Ports, destination : Ports, legs : Legs]

Hops(route) == <<route.origin>> \o route.legs \o <<route.destination>>

\* What ShipmentRoute cannot be constructed without, whether from a command or
\* from the columns of a row.
Logical(route) ==
    \A i, j \in DOMAIN Hops(route) : Hops(route)[i] = Hops(route)[j] => i = j

Routes == {route \in Columns : Logical(route)}

ASSUME ShipmentAssumption ==
    /\ Finalize \notin Routes
    /\ NotAsked \notin Routes \cup {Finalize}
    /\ NoManifest \notin Requests
    /\ MaxLegs \in Nat
    /\ MaxInFlight \in Nat
    /\ MaxFailures \in Nat

RouteLocked == {"AwaitingCustomsRelease", "InTransit", "Delivered"}
Statuses == {"Draft", "ReadyForManifest", "ExceptionHeld"} \cup RouteLocked

VARIABLES
    status,      \* shipments.status, committed ("none": no such row)
    route,       \* its route columns
    manifest,    \* its manifest columns
    announced,   \* manifests whose ShipmentManifestFinalized is in the outbox
    asked,       \* what each request asks for
    pc,
    seenStatus,  \* the row each request read
    seenRoute,
    overlapped,  \* history: some request began while another was being served
    failures

rowVars  == <<status, route, manifest, announced>>
readVars == <<asked, seenStatus, seenRoute>>
vars == <<rowVars, readVars, pc, overlapped, failures>>

Init ==
    /\ status = "none"
    /\ route \in {r \in Routes : r.legs = <<>>}
    /\ manifest = NoManifest
    /\ announced = {}
    /\ asked = [r \in Requests |-> NotAsked]
    /\ pc = [r \in Requests |-> "new"]
    /\ seenStatus = [r \in Requests |-> "none"]
    /\ seenRoute = [r \in Requests |-> route]
    /\ overlapped = FALSE
    /\ failures = 0

InFlight == {r \in Requests : pc[r] \in {"loaded", "written"}}

-----------------------------------------------------------------------------
Finalizes(r) == asked[r] = Finalize
Assigns(r)   == asked[r] \in Routes

\* Mutation: any shipment can be finalized.
AllowedAnytime(r) == Assigns(r) => seenStatus[r] \notin RouteLocked

\* assign_route and finalize_manifest get past their status guards.
Allowed(r) ==
    /\ Finalizes(r) => seenStatus[r] = "Draft"
    /\ Assigns(r) => seenStatus[r] \notin RouteLocked

\* Mutation: the composite leaves the destination column out.
RedrawnButDestination(r) ==
    {c \in {"origin", "legs"} : Assigns(r) /\ asked[r][c] # seenRoute[r][c]}

\* The route columns an UPDATE names: those whose value is not the one loaded.
Redrawn(r) ==
    {c \in {"origin", "destination", "legs"} : Assigns(r) /\ asked[r][c] # seenRoute[r][c]}

Updates(r) == Finalizes(r) \/ Redrawn(r) # {}

-----------------------------------------------------------------------------
\* CreateDraftShipmentHandler: a row with the two ports, no legs, no manifest.
CreateDraft ==
    /\ status = "none"
    /\ status' = "Draft"
    /\ UNCHANGED <<route, manifest, announced, readVars, pc, overlapped, failures>>

\* find_by_id.  A row whose route columns make no route cannot be loaded.
Find(r) ==
    /\ pc[r] = "new"
    /\ Cardinality(InFlight) < MaxInFlight
    /\ status # "none"
    /\ IF Logical(route)
         THEN /\ pc' = [pc EXCEPT ![r] = "loaded"]
              /\ \E body \in Routes \cup {Finalize} : asked' = [asked EXCEPT ![r] = body]
              /\ seenStatus' = [seenStatus EXCEPT ![r] = status]
              /\ seenRoute' = [seenRoute EXCEPT ![r] = route]
         ELSE /\ pc' = [pc EXCEPT ![r] = "ended"]
              /\ UNCHANGED readVars
    /\ overlapped' = (overlapped \/ InFlight # {})
    /\ UNCHANGED <<rowVars, failures>>

\* It is answered with an error: rolled back, and nothing of it is left.
RollBack(r) ==
    /\ pc' = [pc EXCEPT ![r] = "ended"]
    /\ asked' = [asked EXCEPT ![r] = NotAsked]
    /\ UNCHANGED <<rowVars, seenStatus, seenRoute, overlapped>>

\* A status guard, or a manifest that weighs nothing.
Refuse(r) ==
    /\ pc[r] = "loaded"
    /\ ~Allowed(r) \/ Finalizes(r)
    /\ RollBack(r)
    /\ UNCHANGED failures

\* Mutation: the handler writes the row without asking the aggregate.
WriteUnchecked(r) ==
    /\ pc[r] = "loaded"
    /\ Updates(r) => \A q \in Requests : ~(pc[q] = "written" /\ Updates(q))
    /\ pc' = [pc EXCEPT ![r] = "written"]
    /\ UNCHANGED <<rowVars, readVars, overlapped, failures>>

\* persist flushes the UPDATE, if there is one, and schedule the outbox row.
Write(r) ==
    /\ pc[r] = "loaded"
    /\ Allowed(r)
    /\ Updates(r) => \A q \in Requests : ~(pc[q] = "written" /\ Updates(q))
    /\ pc' = [pc EXCEPT ![r] = "written"]
    /\ UNCHANGED <<rowVars, readVars, overlapped, failures>>

\* Mutation: the announcement goes through a session of its own, which fails.
CommitUnannounced(r) ==
    /\ pc[r] = "written"
    /\ pc' = [pc EXCEPT ![r] = "ended"]
    /\ route' = [c \in DOMAIN route |-> IF c \in Redrawn(r) THEN asked[r][c] ELSE route[c]]
    /\ status' = IF Finalizes(r) THEN "ReadyForManifest" ELSE status
    /\ manifest' = IF Finalizes(r) THEN r ELSE manifest
    /\ UNCHANGED <<announced, readVars, overlapped, failures>>

\* Mutation: the UPDATE names every column, changed or not.
CommitWholeRow(r) ==
    /\ pc[r] = "written"
    /\ pc' = [pc EXCEPT ![r] = "ended"]
    /\ route' = IF Assigns(r) THEN asked[r] ELSE seenRoute[r]
    /\ status' = IF Finalizes(r) THEN "ReadyForManifest" ELSE seenStatus[r]
    /\ manifest' = IF Finalizes(r) THEN r ELSE manifest
    /\ announced' = IF Finalizes(r) THEN announced \cup {r} ELSE announced
    /\ UNCHANGED <<readVars, overlapped, failures>>

\* get_session commits: the changed columns, over whatever the row has become
\* since it was read, and the event.
Commit(r) ==
    /\ pc[r] = "written"
    /\ pc' = [pc EXCEPT ![r] = "ended"]
    /\ route' = [c \in DOMAIN route |-> IF c \in Redrawn(r) THEN asked[r][c] ELSE route[c]]
    /\ status' = IF Finalizes(r) THEN "ReadyForManifest" ELSE status
    /\ manifest' = IF Finalizes(r) THEN r ELSE manifest
    /\ announced' = IF Finalizes(r) THEN announced \cup {r} ELSE announced
    /\ UNCHANGED <<readVars, overlapped, failures>>

\* The request is lost (the database, the process): rolled back.
Fail(r) ==
    /\ failures < MaxFailures
    /\ failures' = failures + 1
    /\ r \in InFlight
    /\ RollBack(r)

\* Every request has been answered: the only way to stop.
AllAnswered ==
    /\ status # "none"
    /\ \A r \in Requests : pc[r] = "ended"
    /\ UNCHANGED vars

Serve(r) == Find(r) \/ Refuse(r) \/ Write(r) \/ Commit(r) \/ Fail(r)

Next == CreateDraft \/ (\E r \in Requests : Serve(r)) \/ AllAnswered

Spec == Init /\ [][Next]_vars

-----------------------------------------------------------------------------
(* Properties.                                                             *)

TypeOK ==
    /\ status \in Statuses \cup {"none"}
    /\ route \in Columns
    /\ manifest \in Requests \cup {NoManifest}
    /\ announced \subseteq Requests
    /\ asked \in [Requests -> Routes \cup {Finalize, NotAsked}]
    /\ pc \in [Requests -> {"new", "loaded", "written", "ended"}]
    /\ seenStatus \in [Requests -> Statuses \cup {"none"}]
    /\ seenRoute \in [Requests -> Columns]
    /\ overlapped \in BOOLEAN
    /\ failures \in 0..MaxFailures
    /\ \A r \in InFlight : asked[r] # NotAsked
    /\ \A r \in Requests : pc[r] = "written" => Allowed(r)

\* "Customs is never told about a manifest that was rolled back, and a manifest is
\* never stored without the announcement that follows from it."
StoredIffAnnounced ==
    /\ manifest # NoManifest => manifest \in announced
    /\ announced # {} => manifest # NoManifest /\ status # "Draft"

\* A shipment handed on to customs stays handed on: no request that read it as a
\* draft, and is slow to write its route, takes it back.
HandedOnForGood ==
    [][announced # {} => status' # "Draft" /\ manifest' # NoManifest]_vars

\* "Changing it would contradict what customs was told": the stored manifest is
\* the one that was announced, and the only one.
CustomsToldTheTruth == announced \subseteq {manifest}

\* The status guard is enough for that as long as no two requests are served at
\* once, refused and lost ones included.
TruthUnlessOverlapped == ~overlapped => CustomsToldTheTruth

\* "The legs themselves are validated by ShipmentRoute, which cannot be constructed
\* with an illogical sequence": what an UPDATE of the changed columns makes of the
\* stored route calls at no port twice, unless two such UPDATEs were decided from
\* one row.
RouteUnlessOverlapped == ~overlapped => Logical(route)

\* Why: before the row there is neither a request nor a manifest.
HandInv ==
    /\ StoredIffAnnounced
    /\ status = "none" => announced = {} /\ \A r \in Requests : pc[r] = "new"

\* Why: a request that is alone decides from the row as it is.
AloneInv ==
    ~overlapped =>
      /\ CustomsToldTheTruth
      /\ Logical(route)
      /\ \A q, r \in InFlight : q = r
      /\ \A r \in InFlight : seenStatus[r] = status /\ seenRoute[r] = route
=============================================================================
