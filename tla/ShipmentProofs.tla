--------------------------- MODULE ShipmentProofs ---------------------------
(***************************************************************************)
(* Theorems about Shipment, for any number of requests served at once, any *)
(* ports, any number of legs and any number of failures.                   *)
(*                                                                         *)
(* The argument: manifest, status and announcement are written by one      *)
(* commit, and none of the three is ever taken back; a request that is     *)
(* alone decides from the row as it is when it commits.                    *)
(***************************************************************************)
EXTENDS Shipment, TLAPS

-----------------------------------------------------------------------------
(* A row's route columns, taken one by one.                                *)

ColumnNames == {"origin", "destination", "legs"}

LEMMA ColumnDomain == \A x \in Columns : DOMAIN x = ColumnNames
  BY DEF Columns, ColumnNames

\* Two routes that agree on every column are one.
LEMMA ColumnsAgree ==
    ASSUME NEW x \in Columns, NEW y \in Columns, \A c \in ColumnNames : x[c] = y[c]
    PROVE  x = y
  BY DEF Columns, ColumnNames

\* What an UPDATE of some columns makes of a row is a row.
LEMMA Merged ==
    ASSUME NEW x \in Columns, NEW y \in Columns, NEW S
    PROVE  [c \in DOMAIN x |-> IF c \in S THEN y[c] ELSE x[c]] \in Columns
<1> DEFINE z == [c \in DOMAIN x |-> IF c \in S THEN y[c] ELSE x[c]]
<1>1. z = [origin |-> z.origin, destination |-> z.destination, legs |-> z.legs]
  BY DEF Columns
<1>2. z.origin \in Ports /\ z.destination \in Ports /\ z.legs \in Legs
  BY DEF Columns
<1> QED
  BY <1>1, <1>2 DEF Columns

LEMMA RouteColumns == Routes \subseteq Columns
  BY DEF Routes

\* A request that asks to finalize redraws nothing; one that assigns a route asks
\* for columns of its own.
LEMMA CommittedRoute ==
    ASSUME TypeOK, NEW r \in Requests, Commit(r)
    PROVE  route' \in Columns
<1>1. CASE Redrawn(r) = {}
  <2>1. route' = [c \in DOMAIN route |-> route[c]]
    BY <1>1 DEF Commit
  <2>2. route' = [c \in DOMAIN route |-> IF c \in {} THEN route[c] ELSE route[c]]
    BY <2>1
  <2> QED
    BY <2>2, Merged DEF TypeOK
<1>2. CASE Redrawn(r) # {}
  <2>1. asked[r] \in Columns
    BY <1>2, RouteColumns DEF Redrawn, Assigns
  <2> QED
    BY <2>1, Merged DEF Commit, TypeOK
<1> QED
  BY <1>1, <1>2

\* Every variable keeps its type, and what is about to be committed was allowed
\* by what its request had read.
THEOREM TypeCorrect == Spec => []TypeOK
<1>1. ASSUME Init PROVE TypeOK
  <2>1. 0 \in 0..MaxFailures
    BY ShipmentAssumption
  <2>2. route \in Columns
    BY <1>1, RouteColumns DEF Init
  <2>3. \A r \in Requests : pc[r] = "new"
    BY <1>1 DEF Init
  <2> QED
    BY <1>1, <2>1, <2>2, <2>3 DEF Init, TypeOK, InFlight
<1>2. ASSUME TypeOK, [Next]_vars PROVE TypeOK'
  <2> USE ShipmentAssumption, RouteColumns DEF TypeOK, Allowed, Finalizes, Assigns, InFlight
  <2>1. CASE UNCHANGED vars
    BY <1>2, <2>1 DEF vars, rowVars, readVars
  <2>2. CASE CreateDraft
    BY <1>2, <2>2 DEF CreateDraft, readVars, Statuses
  <2>3. ASSUME NEW r \in Requests, Find(r) PROVE TypeOK'
    BY <1>2, <2>3 DEF Find, rowVars, readVars
  <2>4. ASSUME NEW r \in Requests, RollBack(r), failures' \in 0..MaxFailures PROVE TypeOK'
    BY <1>2, <2>4 DEF RollBack, rowVars
  <2>5. ASSUME NEW r \in Requests, Refuse(r) PROVE TypeOK'
    BY <1>2, <2>4, <2>5 DEF Refuse
  <2>6. ASSUME NEW r \in Requests, Write(r) PROVE TypeOK'
    BY <1>2, <2>6 DEF Write, rowVars, readVars
  <2>7. ASSUME NEW r \in Requests, Commit(r) PROVE TypeOK'
    BY <1>2, <2>7, CommittedRoute DEF Commit, readVars, Statuses
  <2>8. ASSUME NEW r \in Requests, Fail(r) PROVE TypeOK'
    BY <1>2, <2>4, <2>8 DEF Fail
  <2>9. CASE AllAnswered
    BY <2>1, <2>9 DEF AllAnswered
  <2> QED
    BY <1>2, <2>1, <2>2, <2>3, <2>5, <2>6, <2>7, <2>8, <2>9 DEF Next, Serve
<1> QED
  BY <1>1, <1>2, PTL DEF Spec

-----------------------------------------------------------------------------
(* The manifest and its announcement.                                      *)

\* What holds of the manifest whatever requests overlap.
THEOREM HandInvariant == Spec => []HandInv
<1> USE DEF HandInv, StoredIffAnnounced
<1>1. ASSUME Init PROVE HandInv
  BY <1>1 DEF Init
<1>2. ASSUME TypeOK, HandInv, [Next]_vars PROVE HandInv'
  <2> USE ShipmentAssumption DEF TypeOK
  <2>1. CASE UNCHANGED vars
    BY <1>2, <2>1 DEF vars, rowVars
  <2>2. CASE CreateDraft
    BY <1>2, <2>2 DEF CreateDraft
  <2>3. ASSUME NEW r \in Requests, Find(r) \/ Write(r) \/ Refuse(r) \/ Fail(r) PROVE HandInv'
    BY <1>2, <2>3 DEF Find, Write, Refuse, Fail, RollBack, rowVars, InFlight
  <2>4. ASSUME NEW r \in Requests, Commit(r) PROVE HandInv'
    BY <1>2, <2>4 DEF Commit
  <2>5. CASE AllAnswered
    BY <2>1, <2>5 DEF AllAnswered
  <2> QED
    BY <1>2, <2>1, <2>2, <2>3, <2>4, <2>5 DEF Next, Serve
<1> QED
  BY <1>1, <1>2, TypeCorrect, PTL DEF Spec

\* A manifest is stored exactly when it, or one that took its place, is announced:
\* get_session commits the row and the outbox together.
THEOREM StoredAndAnnounced == Spec => []StoredIffAnnounced
<1>1. HandInv => StoredIffAnnounced
  BY DEF HandInv
<1> QED
  BY <1>1, HandInvariant, PTL

\* No step makes a shipment that was handed on a draft again, or takes its manifest:
\* an UPDATE names only the columns its request changed.
THEOREM HandedOn == Spec => HandedOnForGood
<1>1. ASSUME HandInv, HandInv', [Next]_vars
      PROVE  [announced # {} => status' # "Draft" /\ manifest' # NoManifest]_vars
  <2>1. announced \subseteq announced' \/ UNCHANGED vars
    BY <1>1 DEF Next, Serve, CreateDraft, Find, Refuse, Write, Commit, Fail, RollBack,
                AllAnswered, rowVars, vars
  <2> QED
    BY <1>1, <2>1 DEF HandInv, StoredIffAnnounced
<1> QED
  BY <1>1, HandInvariant, PTL DEF Spec, HandedOnForGood

-----------------------------------------------------------------------------
(* Requests that do not overlap.                                           *)

\* The columns a request redraws, over the row it read, are the route it asks for.
LEMMA WholeRoute ==
    ASSUME TypeOK, NEW r \in Requests, Commit(r), seenRoute[r] = route, Logical(route)
    PROVE  Logical(route')
<1>1. CASE Assigns(r)
  <2>1. asked[r] \in Columns /\ route \in Columns /\ route' \in Columns
    BY <1>1, RouteColumns, CommittedRoute DEF Assigns, TypeOK
  <2>2. ASSUME NEW c \in ColumnNames PROVE route'[c] = asked[r][c]
    <3>1. c \in DOMAIN route
      BY <2>1, ColumnDomain
    <3>2. route'[c] = IF c \in Redrawn(r) THEN asked[r][c] ELSE route[c]
      BY <3>1 DEF Commit
    <3> QED
      BY <1>1, <3>2 DEF Redrawn, ColumnNames
  <2>3. route' = asked[r]
    BY <2>1, <2>2, ColumnsAgree
  <2> QED
    BY <1>1, <2>3 DEF Assigns, Routes
<1>2. CASE ~Assigns(r)
  <2>1. route \in Columns /\ route' \in Columns
    BY CommittedRoute DEF TypeOK
  <2>2. Redrawn(r) = {}
    BY <1>2 DEF Redrawn
  <2>3. ASSUME NEW c \in ColumnNames PROVE route'[c] = route[c]
    BY <2>1, <2>2, ColumnDomain DEF Commit
  <2>4. route' = route
    BY <2>1, <2>3, ColumnsAgree
  <2> QED
    BY <2>4
<1> QED
  BY <1>1, <1>2

\* What a request that is alone has read is the row, until it commits.
THEOREM AloneInvariant == Spec => []AloneInv
<1>1. ASSUME Init PROVE AloneInv
  BY <1>1 DEF Init, AloneInv, CustomsToldTheTruth, InFlight, Routes
<1>2. ASSUME TypeOK, HandInv, AloneInv, [Next]_vars PROVE AloneInv'
  <2>1. CASE UNCHANGED vars
    BY <1>2, <2>1 DEF vars, rowVars, readVars, AloneInv, CustomsToldTheTruth, InFlight, Logical, Hops
  <2>2. CASE CreateDraft
    BY <1>2, <2>2 DEF CreateDraft, readVars, AloneInv, HandInv, CustomsToldTheTruth, InFlight, Logical, Hops
  <2>3. ASSUME NEW r \in Requests, Find(r) PROVE AloneInv'
    <3>1. (overlapped => overlapped') /\ (InFlight # {} => overlapped')
      BY <1>2, <2>3 DEF Find, TypeOK
    <3>2. InFlight' \subseteq InFlight \cup {r}
      BY <1>2, <2>3 DEF Find, InFlight, TypeOK
    <3>3. CASE ~overlapped'
      <4>1. InFlight' \subseteq {r} /\ ~overlapped
        BY <3>1, <3>2, <3>3
      <4>2. r \in InFlight' => seenStatus'[r] = status' /\ seenRoute'[r] = route'
        BY <1>2, <2>3 DEF Find, InFlight, TypeOK, rowVars
      <4>3. CustomsToldTheTruth' /\ Logical(route)'
        BY <1>2, <2>3, <4>1 DEF AloneInv, Find, rowVars, CustomsToldTheTruth, Logical, Hops
      <4> QED
        BY <4>1, <4>2, <4>3 DEF AloneInv
    <3> QED
      BY <3>3 DEF AloneInv
  <2>4. ASSUME NEW r \in Requests, Write(r) \/ Refuse(r) \/ Fail(r) PROVE AloneInv'
    <3>1. InFlight' \subseteq InFlight
      BY <1>2, <2>4 DEF Write, Refuse, Fail, RollBack, InFlight, TypeOK
    <3>2. UNCHANGED <<rowVars, seenStatus, seenRoute, overlapped>>
      BY <2>4 DEF Write, Refuse, Fail, RollBack, rowVars, readVars
    <3> QED
      BY <1>2, <3>1, <3>2 DEF AloneInv, rowVars, CustomsToldTheTruth, Logical, Hops
  <2>5. ASSUME NEW r \in Requests, Commit(r) PROVE AloneInv'
    <3>1. CASE ~overlapped
      <4>1. InFlight = {r} /\ seenStatus[r] = status /\ seenRoute[r] = route /\ Logical(route)
        BY <1>2, <2>5, <3>1 DEF AloneInv, Commit, InFlight
      <4>2. InFlight' = {}
        BY <1>2, <2>5, <4>1 DEF Commit, InFlight, TypeOK
      <4>3. Logical(route')
        BY <1>2, <2>5, <4>1, WholeRoute
      <4>4. CustomsToldTheTruth'
        BY <1>2, <2>5, <3>1, <4>1
        DEF AloneInv, HandInv, StoredIffAnnounced, Commit, TypeOK, Allowed, CustomsToldTheTruth
      <4> QED
        BY <4>2, <4>3, <4>4 DEF AloneInv, Logical, Hops
    <3>2. CASE overlapped
      BY <2>5, <3>2 DEF Commit, AloneInv
    <3> QED
      BY <3>1, <3>2
  <2>6. CASE AllAnswered
    BY <2>1, <2>6 DEF AllAnswered
  <2> QED
    BY <1>2, <2>1, <2>2, <2>3, <2>4, <2>5, <2>6 DEF Next, Serve
<1> QED
  BY <1>1, <1>2, TypeCorrect, HandInvariant, PTL DEF Spec

\* Requests that do not overlap announce one manifest, the stored one.
THEOREM OneTruth == Spec => []TruthUnlessOverlapped
<1>1. AloneInv => TruthUnlessOverlapped
  BY DEF AloneInv, TruthUnlessOverlapped
<1> QED
  BY <1>1, AloneInvariant, PTL

\* Requests that do not overlap store logical routes, although an UPDATE names
\* only the columns that changed.
THEOREM RouteKept == Spec => []RouteUnlessOverlapped
<1>1. AloneInv => RouteUnlessOverlapped
  BY DEF AloneInv, RouteUnlessOverlapped
<1> QED
  BY <1>1, AloneInvariant, PTL
=============================================================================
