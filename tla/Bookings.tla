------------------------------- MODULE Bookings -------------------------------
(***************************************************************************)
(* Equipment units promised to rentals for windows of days: bookings,      *)
(* deployments and extensions contend for a unit, deliveries and returns   *)
(* move it, cancellations free it, and staff edit or retire it meanwhile.  *)
(*                                                                         *)
(* Every handler is one READ COMMITTED transaction.  Those that promise or *)
(* deliver a unit lock its row (FOR UPDATE) before they check anything     *)
(* about it; an UPDATE of a unit's row waits for that lock.  Everything    *)
(* else is read without a lock and written later by id.                    *)
(***************************************************************************)
EXTENDS Integers, FiniteSets

CONSTANTS
  Unit, Rental, \* equipment, rentals
  Hold,         \* ids of equipment_assignments rows
  Request,      \* ids of booking_change_requests rows
  Clerk,        \* transactions open at once
  Window,       \* the windows that are booked
  Day,          \* the days an extension may ask for, and units come back on
  Edit,         \* the statuses staff set by hand
  None          \* SQL NULL

UnitStatus == {"available", "deployed", "maintenance"}

ASSUME DayAssumption ==
  /\ Window \subseteq [start : Nat, end : Nat]
  /\ \A w \in Window : w.start < w.end
  /\ Day \subseteq Nat
ASSUME EditAssumption == Edit \subseteq UnitStatus
ASSUME BookingNoneAssumption == None \notin Unit \cup Rental \cup Request

VARIABLES
  unit,         \* [status, retired] of each unit
  rental,       \* status of each rental
  hold,         \* [status, unit, rental, start, end] of each assignment
  request,      \* [status, rental, kind, end] of each change request
  desk,         \* the transaction each clerk has open
  overwritten   \* holds written by a transaction that had read them stale

vars == <<unit, rental, hold, request, desk, overwritten>>
rows == <<unit, rental, hold, request>>

HoldStatus == {"absent", "scheduled", "active", "completed", "cancelled"}
RentalStatus == {"absent", "pending", "confirmed", "active", "completed", "cancelled"}

NoHold == [status |-> "absent", unit |-> None, rental |-> None, start |-> 0, end |-> 0]
NoRequest == [status |-> "absent", rental |-> None, kind |-> "cancel", end |-> 0]
\* A transaction: the rows of hold it inserts or as it read them, the units it
\* has locked, and what else it needs at its commit.
NoDesk == [op |-> "idle", step |-> "reads", rental |-> None, rows |-> [h \in Hold |-> NoHold],
           held |-> {}, request |-> None, end |-> 0, unit |-> None, status |-> "available"]

BookingsInit ==
  /\ unit = [u \in Unit |-> [status |-> "available", retired |-> FALSE]]
  /\ rental = [r \in Rental |-> "absent"]
  /\ hold = [h \in Hold |-> NoHold]
  /\ request = [q \in Request |-> NoRequest]
  /\ desk = [c \in Clerk |-> NoDesk]
  /\ overwritten = {}

overlaps(v, w) == v.start < w.end /\ w.start < v.end

isLive(row) == row.status \in {"scheduled", "active"}

\* overlappingAssignments: the committed holds that stand in the way of w.
taken(u, w) == {h \in Hold : hold[h].unit = u /\ isLive(hold[h]) /\ overlaps(hold[h], w)}

\* The rows a transaction works on and the units they are of.
picks(c) == {h \in Hold : desk[c].rows[h] # NoHold}
wants(c) == {desk[c].rows[h].unit : h \in picks(c)}

goes(c, row) == desk' = [desk EXCEPT ![c] = row]
ends(c) == goes(c, NoDesk)
\* Begins a transaction that keeps the rows S as it reads them now.
reading(op, r, S) ==
  [NoDesk EXCEPT !.op = op, !.rental = r,
                 !.rows = [h \in Hold |-> IF h \in S THEN hold[h] ELSE NoHold]]
holdsOf(r, statuses) == {h \in Hold : hold[h].rental = r /\ hold[h].status \in statuses}

\* Ids are random: nobody else uses those of rows not yet inserted.
freeHolds == {h \in Hold : hold[h] = NoHold /\ \A c \in Clerk : h \notin picks(c)}
freeRentals == {r \in Rental : rental[r] = "absent" /\ \A c \in Clerk : desk[c].rental # r}
freeRequests == {q \in Request : request[q] = NoRequest /\ \A c \in Clerk : desk[c].request # q}

-----------------------------------------------------------------------------
(* The unit's row lock.                                                     *)

\* Mutant of unitFree: the row is read without FOR UPDATE.
unlocked(u) == TRUE

unitFree(u) == \A c \in Clerk : u \notin desk[c].held

lockingOps == {"book", "deploy", "deliver", "extend"}
locked(c) == wants(c) \subseteq desk[c].held

\* SELECT ... FOR UPDATE takes the rows in no fixed order.
lockUnit(c) ==
  /\ desk[c].op \in lockingOps /\ desk[c].step = "reads"
  /\ \E u \in wants(c) \ desk[c].held :
       /\ unitFree(u)
       /\ goes(c, [desk[c] EXCEPT !.held = @ \cup {u}])
  /\ UNCHANGED <<rows, overwritten>>

\* Transactions each of which waits for a unit another of them has locked:
\* Postgres aborts one.
deadlocked(S) ==
  \A c \in S : /\ desk[c].op \in lockingOps /\ ~locked(c)
               /\ wants(c) \ desk[c].held \subseteq UNION {desk[d].held : d \in S \ {c}}
victim(c) ==
  /\ \E S \in SUBSET Clerk : c \in S /\ deadlocked(S)
  /\ ends(c)
  /\ UNCHANGED <<rows, overwritten>>

-----------------------------------------------------------------------------
(* The transactions that lock units: their unlocked reads.                  *)

\* POST /bookings; several items may name one unit.
bookRead(c) ==
  /\ desk[c] = NoDesk
  /\ \E r \in freeRentals, H \in SUBSET freeHolds \ {{}} :
       \E u \in [H -> Unit], w \in [H -> Window] :
         goes(c, [NoDesk EXCEPT !.op = "book", !.rental = r,
                    !.rows = [h \in Hold |->
                      IF h \in H THEN [status |-> "scheduled", unit |-> u[h], rental |-> r,
                                       start |-> w[h].start, end |-> w[h].end]
                      ELSE NoHold]])
  /\ UNCHANGED <<rows, overwritten>>

\* POST /sites/:id/deployments, on a rental of any status.
deployRead(c) ==
  /\ desk[c] = NoDesk
  /\ \E r \in Rental, h \in freeHolds, u \in Unit, w \in Window :
       /\ rental[r] # "absent"
       /\ goes(c, [NoDesk EXCEPT !.op = "deploy", !.rental = r,
                    !.rows[h] = [status |-> "scheduled", unit |-> u, rental |-> r,
                                 start |-> w.start, end |-> w.end]])
  /\ UNCHANGED <<rows, overwritten>>

\* POST /bookings/:id/deliver.
deliverRead(c) ==
  /\ desk[c] = NoDesk
  /\ \E r \in Rental :
       /\ rental[r] = "confirmed" /\ holdsOf(r, {"scheduled"}) # {}
       /\ goes(c, reading("deliver", r, holdsOf(r, {"scheduled"})))
  /\ UNCHANGED <<rows, overwritten>>

\* Staff approve a request to extend.  The rental's status is not looked at.
extendRead(c) ==
  /\ desk[c] = NoDesk
  /\ \E q \in Request :
       LET r == request[q].rental IN
       /\ request[q].status = "pending" /\ request[q].kind = "extend"
       /\ goes(c, [reading("extend", r, holdsOf(r, {"scheduled", "active", "completed"}))
                     EXCEPT !.request = q, !.end = request[q].end])
  /\ UNCHANGED <<rows, overwritten>>

-----------------------------------------------------------------------------
(* The checks made under the locks.                                         *)

inService(u) == unit[u].status # "maintenance" /\ ~unit[u].retired

\* A booking's items.  The calendar and maintenance windows only refuse.
bookable(c) == \A h \in picks(c) : LET x == desk[c].rows[h] IN
  inService(x.unit) /\ taken(x.unit, x) = {}

deployable(c) == \A h \in picks(c) : LET x == desk[c].rows[h] IN
  unit[x.unit].status = "available" /\ taken(x.unit, x) = {}

deliverable(c) == \A u \in wants(c) : unit[u].status = "available"

\* The rows an extension lengthens, and the days it adds to each.
lengthened(c) == {h \in picks(c) : desk[c].rows[h].end < desk[c].end}
extendable(c) == \A h \in lengthened(c) : LET x == desk[c].rows[h] IN
  \A k \in taken(x.unit, [start |-> x.end, end |-> desk[c].end]) : hold[k].rental = desk[c].rental

allowed(c) == /\ desk[c].op = "book" => bookable(c)
              /\ desk[c].op = "deploy" => deployable(c)
              /\ desk[c].op = "deliver" => deliverable(c)
              /\ desk[c].op = "extend" => extendable(c)

\* The SELECTs see what has been committed, and pass.
check(c) ==
  /\ desk[c].op \in lockingOps /\ desk[c].step = "reads" /\ locked(c)
  /\ allowed(c)
  /\ goes(c, [desk[c] EXCEPT !.step = "checked"])
  /\ UNCHANGED <<rows, overwritten>>

\* Mutant of refuse: it answers, but does not end the transaction.
refuseUnended(c) ==
  /\ desk[c].op \in lockingOps /\ desk[c].step = "reads" /\ locked(c)
  /\ ~allowed(c)
  /\ UNCHANGED vars

\* They do not: the transaction rolls back.
refuse(c) ==
  /\ desk[c].op \in lockingOps /\ desk[c].step = "reads" /\ locked(c)
  /\ ~allowed(c)
  /\ ends(c)
  /\ UNCHANGED <<rows, overwritten>>

-----------------------------------------------------------------------------
(* Their writes and COMMIT.                                                 *)

committing(c, op) == desk[c].op = op /\ desk[c].step = "checked" /\ ends(c)
inserted(c) == hold' = [h \in Hold |-> IF h \in picks(c) THEN desk[c].rows[h] ELSE hold[h]]
unitsBecome(U, status) ==
  unit' = [u \in Unit |-> IF u \in U THEN [unit[u] EXCEPT !.status = status] ELSE unit[u]]
rentalBecomes(r, status) == rental' = [rental EXCEPT ![r] = status]
requestBecomes(q, status) == request' = [request EXCEPT ![q].status = status]

bookCommit(c) ==
  /\ committing(c, "book")
  /\ inserted(c) /\ rentalBecomes(desk[c].rental, "pending")
  /\ UNCHANGED <<unit, request, overwritten>>

deployCommit(c) ==
  /\ committing(c, "deploy")
  /\ inserted(c) /\ unitsBecome(wants(c), "deployed")
  /\ UNCHANGED <<rental, request, overwritten>>

\* UPDATE by id: a hold cancelled or returned since it was read is active again.
deliverCommit(c) ==
  /\ committing(c, "deliver")
  /\ hold' = [h \in Hold |-> IF h \in picks(c) THEN [hold[h] EXCEPT !.status = "active"] ELSE hold[h]]
  /\ overwritten' = overwritten \cup {h \in picks(c) : ~isLive(hold[h])}
  /\ unitsBecome(wants(c), "deployed") /\ rentalBecomes(desk[c].rental, "active")
  /\ UNCHANGED request

\* The days were checked from the end as it was read.
extendCommit(c) ==
  /\ committing(c, "extend")
  /\ hold' = [h \in Hold |->
       IF h \in lengthened(c) THEN [hold[h] EXCEPT !.end = desk[c].end] ELSE hold[h]]
  /\ overwritten' = overwritten \cup {h \in lengthened(c) : hold[h].end # desk[c].rows[h].end}
  /\ requestBecomes(desk[c].request, "approved")
  /\ UNCHANGED <<unit, rental>>

-----------------------------------------------------------------------------
(* The transactions that lock nothing.                                      *)

\* POST /bookings/:id/return, and PATCH /sites/:id/deployments/:id/return of
\* one hold, scheduled or active.
returnRead(c) ==
  /\ desk[c] = NoDesk
  /\ \/ \E r \in Rental : /\ rental[r] = "active"
                          /\ goes(c, reading("return", r, holdsOf(r, {"active"})))
     \/ \E h \in Hold : isLive(hold[h]) /\ goes(c, reading("return", None, {h}))
  /\ UNCHANGED <<rows, overwritten>>

returnCommit(c) ==
  /\ desk[c].op = "return"
  /\ \A u \in wants(c) : unitFree(u)
  /\ \E now \in Day :
       hold' = [h \in Hold |-> IF h \in picks(c)
                  THEN [hold[h] EXCEPT !.status = "completed", !.end = now] ELSE hold[h]]
  /\ unitsBecome(wants(c), "available")
  /\ IF desk[c].rental = None THEN UNCHANGED rental ELSE rentalBecomes(desk[c].rental, "completed")
  /\ ends(c)
  /\ UNCHANGED <<request, overwritten>>

\* PATCH /bookings/:id/cancel (a customer's only while it is pending, staff's
\* at any time), or staff approve a request to cancel, whatever the rental's
\* status has become.
cancelRead(c) ==
  /\ desk[c] = NoDesk
  /\ \/ \E r \in Rental : /\ rental[r] \notin {"absent", "cancelled"}
                          /\ goes(c, reading("cancel", r, {}))
     \/ \E q \in Request : /\ request[q].status = "pending" /\ request[q].kind = "cancel"
                           /\ goes(c, [reading("cancel", request[q].rental, {}) EXCEPT !.request = q])
  /\ UNCHANGED <<rows, overwritten>>

cancelCommit(c) ==
  /\ desk[c].op = "cancel"
  /\ rentalBecomes(desk[c].rental, "cancelled")
  /\ hold' = [h \in Hold |-> IF hold[h].rental = desk[c].rental
                THEN [hold[h] EXCEPT !.status = "cancelled"] ELSE hold[h]]
  /\ IF desk[c].request = None THEN UNCHANGED request ELSE requestBecomes(desk[c].request, "approved")
  /\ ends(c)
  /\ UNCHANGED <<unit, overwritten>>

\* POST /bookings/:id/change-requests: none may be open.
askRead(c) ==
  /\ desk[c] = NoDesk
  /\ \E r \in Rental, q \in freeRequests :
       /\ rental[r] \in {"pending", "confirmed", "active"}
       /\ \A p \in Request : ~(request[p].rental = r /\ request[p].status = "pending")
       /\ \/ rental[r] # "active" /\ goes(c, [reading("ask", r, {}) EXCEPT !.request = q])
          \/ \E d \in Day : goes(c, [reading("ask", r, {}) EXCEPT !.request = q, !.end = d, !.status = "extend"])
  /\ UNCHANGED <<rows, overwritten>>

askCommit(c) ==
  /\ desk[c].op = "ask"
  /\ request' = [request EXCEPT ![desk[c].request] =
       [status |-> "pending", rental |-> desk[c].rental, end |-> desk[c].end,
        kind |-> IF desk[c].status = "extend" THEN "extend" ELSE "cancel"]]
  /\ ends(c)
  /\ UNCHANGED <<unit, rental, hold, overwritten>>

\* Staff reject a request.
rejectRead(c) ==
  /\ desk[c] = NoDesk
  /\ \E q \in Request : /\ request[q].status = "pending"
                        /\ goes(c, [reading("reject", None, {}) EXCEPT !.request = q])
  /\ UNCHANGED <<rows, overwritten>>

rejectCommit(c) ==
  /\ desk[c].op = "reject"
  /\ requestBecomes(desk[c].request, "rejected")
  /\ ends(c)
  /\ UNCHANGED <<unit, rental, hold, overwritten>>

\* PATCH /equipment/:id: staff set a unit's status.  Maintenance that is due
\* only refuses.
updateRead(c) ==
  /\ desk[c] = NoDesk
  /\ \E u \in Unit, s \in Edit :
       /\ ~unit[u].retired
       /\ s = "deployed" => unit[u].status # "deployed"
       /\ goes(c, [NoDesk EXCEPT !.op = "update", !.unit = u, !.status = s])
  /\ UNCHANGED <<rows, overwritten>>

updateCommit(c) ==
  /\ desk[c].op = "update" /\ unitFree(desk[c].unit)
  /\ unitsBecome({desk[c].unit}, desk[c].status)
  /\ ends(c)
  /\ UNCHANGED <<rental, hold, request, overwritten>>

\* DELETE /equipment/:id: retire a unit that is not deployed.
retireRead(c) ==
  /\ desk[c] = NoDesk
  /\ \E u \in Unit : /\ ~unit[u].retired /\ unit[u].status # "deployed"
                     /\ goes(c, [NoDesk EXCEPT !.op = "retire", !.unit = u])
  /\ UNCHANGED <<rows, overwritten>>

retireCommit(c) ==
  /\ desk[c].op = "retire" /\ unitFree(desk[c].unit)
  /\ unit' = [unit EXCEPT ![desk[c].unit].retired = TRUE]
  /\ ends(c)
  /\ UNCHANGED <<rental, hold, request, overwritten>>

\* A deposit or booking invoice of the rental is settled (module Payments):
\* the rental is confirmed, whatever it was.
settle(r) ==
  /\ rental[r] # "absent"
  /\ rentalBecomes(r, "confirmed")
  /\ UNCHANGED <<unit, hold, request, desk, overwritten>>

-----------------------------------------------------------------------------
begin(c) == \/ bookRead(c) \/ deployRead(c) \/ deliverRead(c) \/ extendRead(c)
            \/ returnRead(c) \/ cancelRead(c) \/ askRead(c) \/ rejectRead(c)
            \/ updateRead(c) \/ retireRead(c)

proceed(c) == \/ lockUnit(c) \/ victim(c) \/ check(c) \/ refuse(c)
              \/ bookCommit(c) \/ deployCommit(c) \/ deliverCommit(c) \/ extendCommit(c)
              \/ returnCommit(c) \/ cancelCommit(c) \/ askCommit(c) \/ rejectCommit(c)
              \/ updateCommit(c) \/ retireCommit(c)

\* No transaction is open: the parties may leave it at that.
rest == (\A c \in Clerk : desk[c] = NoDesk) /\ UNCHANGED vars

BookingsNext == \/ \E c \in Clerk : begin(c) \/ proceed(c)
                \/ \E r \in Rental : settle(r)
                \/ rest

BookingsSpec == BookingsInit /\ [][BookingsNext]_vars

\* An open transaction goes on; one that waits for a row's lock gets its turn,
\* for Postgres queues the waiters.
BookingsFairSpec == BookingsSpec /\ \A c \in Clerk : SF_vars(proceed(c))

-----------------------------------------------------------------------------
(* Properties.                                                              *)

HoldRow == [status : HoldStatus, unit : Unit \cup {None}, rental : Rental \cup {None},
            start : Nat, end : Nat]
RequestRow == [status : {"absent", "pending", "approved", "rejected"},
               rental : Rental \cup {None}, kind : {"cancel", "extend"}, end : Nat]
DeskRow == [op : {"idle", "book", "deploy", "deliver", "extend", "return", "cancel", "ask",
                  "reject", "update", "retire"},
            step : {"reads", "checked"}, rental : Rental \cup {None}, rows : [Hold -> HoldRow],
            held : SUBSET Unit, request : Request \cup {None}, end : Nat,
            unit : Unit \cup {None}, status : UnitStatus \cup {"extend"}]

\* Every variable has its type.
BookingsTypeOK ==
  /\ unit \in [Unit -> [status : UnitStatus, retired : BOOLEAN]]
  /\ rental \in [Rental -> RentalStatus]
  /\ hold \in [Hold -> HoldRow]
  /\ request \in [Request -> RequestRow]
  /\ desk \in [Clerk -> DeskRow]
  /\ overwritten \subseteq Hold

\* A unit is never promised to two rentals for one day, whichever surface
\* promised it (QAD-T21, bookings.service.ts:76-79), as long as no delivery or
\* extension wrote over a change of the hold that it had not seen.
NeverOverbooked ==
  \A h, k \in Hold \ overwritten :
    /\ isLive(hold[h]) /\ isLive(hold[k])
    /\ hold[h].unit = hold[k].unit /\ hold[h].rental # hold[k].rental
    => ~overlaps(hold[h], hold[k])

\* A unit that staff took off the road, or another job took, after a delivery or
\* deployment looked at it does not leave the yard (QAD-T16).
LeavesInService ==
  [][\A c \in Clerk : deployCommit(c) \/ deliverCommit(c) =>
       \A u \in wants(c) : unit[u].status = "available"]_vars

\* Every request ends, though bookings lock their units in no fixed order and
\* may deadlock.
BookingRequestsEnd == \A c \in Clerk : desk[c].op # "idle" ~> desk[c].op = "idle"

\* qad-arkilaunch.md:106 (QAD-T21): "never overbooks a unit".
NeverDoubleBooked ==
  \A h, k \in Hold :
    /\ isLive(hold[h]) /\ isLive(hold[k])
    /\ hold[h].unit = hold[k].unit /\ hold[h].rental # hold[k].rental
    => ~overlaps(hold[h], hold[k])
=============================================================================
