---------------------------- MODULE Bookings_proofs ----------------------------
(***************************************************************************)
(* Proofs about Bookings for any units, rentals, assignments, requests,    *)
(* clerks, windows and days: a unit is never promised twice, only an       *)
(* available one leaves, and the open requests are never all stuck.        *)
(***************************************************************************)
EXTENDS Bookings, TLAPS

-----------------------------------------------------------------------------
(* The inductive invariant, one named part per piece of state.              *)

\* A row that exists is of a unit and of a rental; an open change request is
\* of a rental.
RowsInv ==
  /\ \A h \in Hold : hold[h] # NoHold =>
       hold[h].status # "absent" /\ hold[h].unit \in Unit /\ hold[h].rental \in Rental
  /\ \A q \in Request : request[q].status = "pending" => request[q].rental \in Rental

inserting(c) == desk[c].op \in {"book", "deploy"}

\* What an open transaction is about, and that it holds locks only where the
\* code takes them.
DeskInv ==
  \A c \in Clerk :
    /\ desk[c].op \notin lockingOps => desk[c].held = {} /\ desk[c].step = "reads"
    /\ desk[c].op \in {"book", "deploy", "deliver", "extend", "cancel", "ask"} => desk[c].rental \in Rental
    /\ desk[c].op = "update" => desk[c].status \in UnitStatus
    /\ desk[c].step = "checked" => locked(c)

\* Row locks exclude one another.
LocksInv == \A c, d \in Clerk : c # d => desk[c].held \cap desk[d].held = {}

\* Rows to be inserted are nobody else's; rows that were read still exist, of
\* the same unit and rental and from the same day: no handler changes those.
PicksInv ==
  \A c \in Clerk : \A h \in picks(c) :
    LET x == desk[c].rows[h] IN
    /\ x.unit \in Unit
    /\ inserting(c) => /\ hold[h] = NoHold
                       /\ x.status = "scheduled" /\ x.rental = desk[c].rental /\ x.start < x.end
                       /\ \A d \in Clerk \ {c} : h \notin picks(d)
    /\ ~inserting(c) => /\ hold[h] # NoHold
                        /\ x.unit = hold[h].unit /\ x.rental = hold[h].rental /\ x.start = hold[h].start
    /\ desk[c].op = "extend" => x.rental = desk[c].rental

\* A live assignment that nothing was written over ends after it starts.
DaysInv == \A h \in Hold \ overwritten : isLive(hold[h]) => hold[h].start < hold[h].end

\* What was checked under the locks is true until the commit.
CheckedInv ==
  \A c \in Clerk : desk[c].step = "checked" =>
    /\ inserting(c) => \A h \in picks(c) : taken(desk[c].rows[h].unit, desk[c].rows[h]) = {}
    /\ desk[c].op = "extend" => extendable(c)
    /\ desk[c].op \in {"deploy", "deliver"} => \A u \in wants(c) : unit[u].status = "available"

BookingsInv == /\ BookingsTypeOK /\ RowsInv /\ DeskInv /\ LocksInv /\ PicksInv
               /\ DaysInv /\ CheckedInv /\ NeverOverbooked

-----------------------------------------------------------------------------
(* Types.                                                                   *)

\* A transaction's record changes alone, and keeps the table's type.
LEMMA Goes ==
  ASSUME BookingsTypeOK, NEW c \in Clerk, NEW row \in DeskRow, goes(c, row)
  PROVE  /\ desk' \in [Clerk -> DeskRow]
         /\ desk'[c] = row
         /\ \A d \in Clerk \ {c} : desk'[d] = desk[d]
BY DEF BookingsTypeOK, goes

\* No transaction is a row of the table.
LEMMA IdleRow == NoHold \in HoldRow /\ NoDesk \in DeskRow
BY DEF NoHold, NoDesk, HoldRow, DeskRow, HoldStatus, UnitStatus

\* A transaction that keeps rows as it read them is a row of the table.
LEMMA ReadingRow ==
  ASSUME BookingsTypeOK,
         NEW op \in {"deliver", "extend", "return", "cancel", "ask", "reject"},
         NEW r \in Rental \cup {None}, NEW S \in SUBSET Hold
  PROVE  /\ reading(op, r, S) \in DeskRow
         /\ reading(op, r, S).op = op /\ reading(op, r, S).rental = r
         /\ reading(op, r, S).step = "reads" /\ reading(op, r, S).held = {}
         /\ reading(op, r, S).request = None /\ reading(op, r, S).end = 0
         /\ reading(op, r, S).unit = None /\ reading(op, r, S).status = "available"
         /\ reading(op, r, S).rows = [h \in Hold |-> IF h \in S THEN hold[h] ELSE NoHold]
BY IdleRow DEF reading, NoDesk, DeskRow, BookingsTypeOK, UnitStatus

LEMMA InitBookingsInv == BookingsInit => BookingsInv
<1> SUFFICES ASSUME BookingsInit PROVE BookingsInv
  OBVIOUS
<1>1. BookingsTypeOK
  BY IdleRow DEF BookingsInit, BookingsTypeOK, UnitStatus, RentalStatus, NoRequest, RequestRow
<1>2. RowsInv
  BY DEF BookingsInit, RowsInv, NoRequest
<1>3. \A c \in Clerk : /\ desk[c] = NoDesk /\ desk[c].op = "idle" /\ desk[c].step = "reads"
                       /\ desk[c].held = {} /\ picks(c) = {}
  BY DEF BookingsInit, NoDesk, picks
<1>4. DeskInv /\ LocksInv /\ PicksInv /\ CheckedInv
  BY <1>3 DEF DeskInv, LocksInv, PicksInv, CheckedInv, lockingOps
<1>5. DaysInv /\ NeverOverbooked
  BY DEF BookingsInit, DaysInv, NeverOverbooked, isLive, NoHold
<1> QED BY <1>1, <1>2, <1>4, <1>5 DEF BookingsInv

-----------------------------------------------------------------------------
(* A transaction begins: what its record holds.                             *)

\* The record of a transaction that begins satisfies DeskInv and PicksInv.
opened(row) ==
  /\ row \in DeskRow /\ row.step = "reads" /\ row.held = {}
  /\ row.op \in {"book", "deploy", "deliver", "extend", "cancel", "ask"} => row.rental \in Rental
  /\ row.op = "update" => row.status \in UnitStatus
  /\ \A h \in Hold : row.rows[h] # NoHold =>
       /\ row.rows[h].unit \in Unit
       /\ row.op \in {"book", "deploy"} =>
            /\ h \in freeHolds
            /\ row.rows[h].status = "scheduled" /\ row.rows[h].rental = row.rental
            /\ row.rows[h].start < row.rows[h].end
       /\ row.op \notin {"book", "deploy"} => row.rows[h] = hold[h]
       /\ row.op = "extend" => row.rows[h].rental = row.rental

\* Only one transaction moves, to the given record, and nothing is written.
quiet(c, row) == goes(c, row) /\ UNCHANGED <<rows, overwritten>>

\* Of a transaction that keeps rows which exist as it reads them.
LEMMA ReadingOpened ==
  ASSUME BookingsTypeOK, RowsInv,
         NEW op \in {"deliver", "extend", "return", "cancel", "ask", "reject"},
         NEW r \in Rental \cup {None}, NEW S \in SUBSET Hold, NEW row \in DeskRow,
         op # "return" /\ op # "reject" => r \in Rental,
         \A h \in S : hold[h].status # "absent" /\ (op = "extend" => hold[h].rental = r),
         row.op = op, row.rental = r, row.step = "reads", row.held = {},
         row.rows = [h \in Hold |-> IF h \in S THEN hold[h] ELSE NoHold]
  PROVE  opened(row)
BY DEF opened, RowsInv, NoHold, BookingsTypeOK

LEMMA PlainOpened ==
  ASSUME BookingsTypeOK, RowsInv, NEW op \in {"deliver", "return", "cancel"},
         NEW r \in Rental \cup {None}, NEW S \in SUBSET Hold,
         op # "return" => r \in Rental,
         \A h \in S : hold[h].status # "absent"
  PROVE  opened(reading(op, r, S))
<1> DEFINE row == reading(op, r, S)
<1>1. /\ row \in DeskRow /\ row.op = op /\ row.rental = r /\ row.step = "reads" /\ row.held = {}
      /\ row.rows = [h \in Hold |-> IF h \in S THEN hold[h] ELSE NoHold]
  BY ReadingRow
<1> HIDE DEF row
<1>2. opened(row)
  BY <1>1 DEF opened, RowsInv, NoHold, BookingsTypeOK
<1> QED BY <1>2 DEF row

LEMMA BookOpened ==
  ASSUME BookingsTypeOK, NEW c \in Clerk, bookRead(c)
  PROVE  \E row : opened(row) /\ quiet(c, row)
<1>1. PICK r \in freeRentals, H \in SUBSET freeHolds \ {{}} :
        \E u \in [H -> Unit], w \in [H -> Window] :
         goes(c, [NoDesk EXCEPT !.op = "book", !.rental = r,
                    !.rows = [h \in Hold |->
                      IF h \in H THEN [status |-> "scheduled", unit |-> u[h], rental |-> r,
                                       start |-> w[h].start, end |-> w[h].end]
                      ELSE NoHold]])
  BY DEF bookRead
<1>2. PICK u \in [H -> Unit], w \in [H -> Window] :
         goes(c, [NoDesk EXCEPT !.op = "book", !.rental = r,
                    !.rows = [h \in Hold |->
                      IF h \in H THEN [status |-> "scheduled", unit |-> u[h], rental |-> r,
                                       start |-> w[h].start, end |-> w[h].end]
                      ELSE NoHold]])
  BY <1>1
<1> DEFINE item == [h \in Hold |->
                      IF h \in H THEN [status |-> "scheduled", unit |-> u[h], rental |-> r,
                                       start |-> w[h].start, end |-> w[h].end]
                      ELSE NoHold]
           row == [NoDesk EXCEPT !.op = "book", !.rental = r, !.rows = item]
<1>3. /\ r \in Rental /\ H \subseteq freeHolds /\ H \subseteq Hold
      /\ \A h \in H : u[h] \in Unit /\ w[h].start \in Nat /\ w[h].end \in Nat /\ w[h].start < w[h].end
  BY DayAssumption DEF freeRentals, freeHolds
<1>4. item \in [Hold -> HoldRow]
  BY <1>3, IdleRow DEF HoldRow, HoldStatus
<1>5. \A h \in Hold : item[h] # NoHold =>
        /\ h \in freeHolds /\ item[h].unit \in Unit /\ item[h].status = "scheduled"
        /\ item[h].rental = r /\ item[h].start < item[h].end
  BY <1>3
<1> HIDE DEF item
<1>6. row \in DeskRow /\ row.step = "reads" /\ row.held = {} /\ row.op = "book" /\ row.rental = r /\ row.rows = item
  BY <1>3, <1>4 DEF NoDesk, DeskRow, UnitStatus
<1> HIDE DEF row
<1>7. opened(row)
  BY <1>3, <1>5, <1>6 DEF opened
<1>8. quiet(c, row)
  BY <1>2 DEF row, item, quiet, bookRead
<1> QED BY <1>7, <1>8

LEMMA DeployOpened ==
  ASSUME BookingsTypeOK, NEW c \in Clerk, deployRead(c)
  PROVE  \E row : opened(row) /\ quiet(c, row)
<1>1. PICK r \in Rental, g \in freeHolds, u \in Unit, w \in Window :
        goes(c, [NoDesk EXCEPT !.op = "deploy", !.rental = r,
                   !.rows[g] = [status |-> "scheduled", unit |-> u, rental |-> r,
                                start |-> w.start, end |-> w.end]])
  BY DEF deployRead
<1> DEFINE item == [status |-> "scheduled", unit |-> u, rental |-> r, start |-> w.start, end |-> w.end]
           row == [NoDesk EXCEPT !.op = "deploy", !.rental = r, !.rows[g] = item]
<1>2. g \in Hold /\ w.start \in Nat /\ w.end \in Nat /\ w.start < w.end
  BY DayAssumption DEF freeHolds
<1>3. item \in HoldRow
  BY <1>2 DEF HoldRow, HoldStatus
<1>4. item.unit = u /\ item.status = "scheduled" /\ item.rental = r /\ item.start < item.end
  BY <1>2
<1> HIDE DEF item
<1>5. /\ row \in DeskRow /\ row.step = "reads" /\ row.held = {} /\ row.op = "deploy" /\ row.rental = r
      /\ row.rows = [h \in Hold |-> IF h = g THEN item ELSE NoHold]
  BY <1>2, <1>3, IdleRow DEF NoDesk, DeskRow, UnitStatus
<1> HIDE DEF row
<1>6. opened(row)
  BY <1>4, <1>5 DEF opened
<1>7. quiet(c, row)
  BY <1>1 DEF row, item, quiet, deployRead
<1> QED BY <1>6, <1>7

LEMMA DeliverOpened ==
  ASSUME BookingsTypeOK, RowsInv, NEW c \in Clerk, deliverRead(c)
  PROVE  \E row : opened(row) /\ quiet(c, row)
<1>1. PICK r \in Rental : goes(c, reading("deliver", r, holdsOf(r, {"scheduled"})))
  BY DEF deliverRead
<1> DEFINE S == holdsOf(r, {"scheduled"})
<1>2. S \in SUBSET Hold /\ \A h \in S : hold[h].status # "absent"
  BY DEF holdsOf
<1> HIDE DEF S
<1>3. opened(reading("deliver", r, S))
  BY <1>2, PlainOpened
<1>4. quiet(c, reading("deliver", r, S))
  BY <1>1 DEF S, quiet, deliverRead
<1> QED BY <1>3, <1>4

LEMMA ExtendOpened ==
  ASSUME BookingsTypeOK, RowsInv, NEW c \in Clerk, extendRead(c)
  PROVE  \E row : opened(row) /\ quiet(c, row)
<1>1. PICK q \in Request :
        /\ request[q].status = "pending"
        /\ goes(c, [reading("extend", request[q].rental,
                            holdsOf(request[q].rental, {"scheduled", "active", "completed"}))
                      EXCEPT !.request = q, !.end = request[q].end])
  BY DEF extendRead
<1> DEFINE r == request[q].rental
           S == holdsOf(r, {"scheduled", "active", "completed"})
           row == [reading("extend", r, S) EXCEPT !.request = q, !.end = request[q].end]
<1>2. r \in Rental /\ request[q].end \in Nat
  BY <1>1 DEF RowsInv, BookingsTypeOK, RequestRow
<1>3. S \in SUBSET Hold /\ \A h \in S : hold[h].status # "absent" /\ hold[h].rental = r
  BY DEF holdsOf
<1> HIDE DEF S
<1>4. /\ row \in DeskRow /\ row.op = "extend" /\ row.rental = r /\ row.step = "reads" /\ row.held = {}
      /\ row.rows = [h \in Hold |-> IF h \in S THEN hold[h] ELSE NoHold]
  <2> DEFINE base == reading("extend", r, S)
  <2>1. /\ base \in DeskRow /\ base.op = "extend" /\ base.rental = r /\ base.step = "reads" /\ base.held = {}
        /\ base.rows = [h \in Hold |-> IF h \in S THEN hold[h] ELSE NoHold]
    BY <1>2, <1>3, ReadingRow
  <2> HIDE DEF base
  <2>2. row = [base EXCEPT !.request = q, !.end = request[q].end]
    BY DEF base
  <2> HIDE DEF row
  <2> QED BY <1>2, <2>1, <2>2 DEF DeskRow
<1>5. quiet(c, row)
  BY <1>1 DEF S, quiet, extendRead
<1> HIDE DEF row, r
<1>6. opened(row)
  BY <1>2, <1>3, <1>4, ReadingOpened
<1> QED BY <1>5, <1>6

LEMMA ReturnOpened ==
  ASSUME BookingsTypeOK, RowsInv, NEW c \in Clerk, returnRead(c)
  PROVE  \E row : opened(row) /\ quiet(c, row)
<1>1. PICK r \in Rental \cup {None}, S \in SUBSET Hold :
        /\ \A h \in S : hold[h].status # "absent"
        /\ goes(c, reading("return", r, S))
  BY DEF returnRead, holdsOf, isLive
<1>2. opened(reading("return", r, S))
  BY <1>1, PlainOpened
<1>3. quiet(c, reading("return", r, S))
  BY <1>1 DEF quiet, returnRead
<1> QED BY <1>2, <1>3

LEMMA CancelOpened ==
  ASSUME BookingsTypeOK, RowsInv, NEW c \in Clerk, cancelRead(c)
  PROVE  \E row : opened(row) /\ quiet(c, row)
<1>1. UNCHANGED <<rows, overwritten>>
  BY DEF cancelRead
<1>2. CASE \E r \in Rental : goes(c, reading("cancel", r, {}))
  <2>1. PICK r \in Rental : goes(c, reading("cancel", r, {}))
    BY <1>2
  <2>2. opened(reading("cancel", r, {}))
    BY PlainOpened
  <2> QED BY <1>1, <2>1, <2>2 DEF quiet
<1>3. CASE \E q \in Request : /\ request[q].status = "pending"
                              /\ goes(c, [reading("cancel", request[q].rental, {}) EXCEPT !.request = q])
  <2>1. PICK q \in Request : /\ request[q].status = "pending"
                             /\ goes(c, [reading("cancel", request[q].rental, {}) EXCEPT !.request = q])
    BY <1>3
  <2> DEFINE r == request[q].rental
             row == [reading("cancel", r, {}) EXCEPT !.request = q]
  <2>2. r \in Rental
    BY <2>1 DEF RowsInv
  <2>3. /\ row \in DeskRow /\ row.op = "cancel" /\ row.rental = r /\ row.step = "reads" /\ row.held = {}
        /\ row.rows = [h \in Hold |-> IF h \in {} THEN hold[h] ELSE NoHold]
    BY <2>2, ReadingRow DEF DeskRow
  <2>4. quiet(c, row)
    BY <1>1, <2>1 DEF quiet
  <2> HIDE DEF row, r
  <2>5. opened(row)
    BY <2>2, <2>3, ReadingOpened
  <2> QED BY <2>4, <2>5
<1> QED BY <1>2, <1>3 DEF cancelRead

LEMMA AskOpened ==
  ASSUME BookingsTypeOK, RowsInv, NEW c \in Clerk, askRead(c)
  PROVE  \E row : opened(row) /\ quiet(c, row)
<1>1. UNCHANGED <<rows, overwritten>>
  BY DEF askRead
<1>2. PICK r \in Rental, q \in freeRequests :
        \/ goes(c, [reading("ask", r, {}) EXCEPT !.request = q])
        \/ \E d \in Day : goes(c, [reading("ask", r, {}) EXCEPT !.request = q, !.end = d, !.status = "extend"])
  BY DEF askRead
<1> DEFINE base == reading("ask", r, {})
<1>3. /\ base \in DeskRow /\ base.op = "ask" /\ base.rental = r /\ base.step = "reads" /\ base.held = {}
      /\ base.rows = [h \in Hold |-> IF h \in {} THEN hold[h] ELSE NoHold]
      /\ q \in Request
  BY ReadingRow DEF freeRequests
<1>4. \/ goes(c, [base EXCEPT !.request = q])
      \/ \E d \in Day : goes(c, [base EXCEPT !.request = q, !.end = d, !.status = "extend"])
  BY <1>2
<1> HIDE DEF base
<1>5. CASE goes(c, [base EXCEPT !.request = q])
  <2> DEFINE row == [base EXCEPT !.request = q]
  <2>1. /\ row \in DeskRow /\ row.op = "ask" /\ row.rental = r /\ row.step = "reads" /\ row.held = {}
        /\ row.rows = [h \in Hold |-> IF h \in {} THEN hold[h] ELSE NoHold]
    BY <1>3 DEF DeskRow
  <2> HIDE DEF row
  <2>2. opened(row)
    BY <2>1 DEF opened
  <2> QED BY <1>1, <1>5, <2>2 DEF quiet, row
<1>6. CASE \E d \in Day : goes(c, [base EXCEPT !.request = q, !.end = d, !.status = "extend"])
  <2>1. PICK d \in Day : goes(c, [base EXCEPT !.request = q, !.end = d, !.status = "extend"])
    BY <1>6
  <2> DEFINE row == [base EXCEPT !.request = q, !.end = d, !.status = "extend"]
  <2>2. /\ row \in DeskRow /\ row.op = "ask" /\ row.rental = r /\ row.step = "reads" /\ row.held = {}
        /\ row.rows = [h \in Hold |-> IF h \in {} THEN hold[h] ELSE NoHold]
    BY <1>3, DayAssumption DEF DeskRow
  <2> HIDE DEF row
  <2>3. opened(row)
    BY <2>2 DEF opened
  <2> QED BY <1>1, <2>1, <2>3 DEF quiet, row
<1> QED BY <1>4, <1>5, <1>6

LEMMA RejectOpened ==
  ASSUME BookingsTypeOK, RowsInv, NEW c \in Clerk, rejectRead(c)
  PROVE  \E row : opened(row) /\ quiet(c, row)
<1>1. PICK q \in Request : goes(c, [reading("reject", None, {}) EXCEPT !.request = q])
  BY DEF rejectRead
<1> DEFINE base == reading("reject", None, {})
           row == [base EXCEPT !.request = q]
<1>2. /\ base \in DeskRow /\ base.op = "reject" /\ base.rental = None /\ base.step = "reads" /\ base.held = {}
      /\ base.rows = [h \in Hold |-> IF h \in {} THEN hold[h] ELSE NoHold]
  BY ReadingRow
<1>3. quiet(c, row)
  BY <1>1 DEF quiet, rejectRead
<1> HIDE DEF base
<1>4. /\ row \in DeskRow /\ row.op = "reject" /\ row.rental = None /\ row.step = "reads" /\ row.held = {}
      /\ row.rows = [h \in Hold |-> IF h \in {} THEN hold[h] ELSE NoHold]
  BY <1>2 DEF DeskRow
<1> HIDE DEF row
<1>5. opened(row)
  BY <1>4, ReadingOpened
<1> QED BY <1>3, <1>5

LEMMA FleetOpened ==
  ASSUME NEW c \in Clerk, updateRead(c) \/ retireRead(c)
  PROVE  \E row : opened(row) /\ quiet(c, row)
<1>1. CASE updateRead(c)
  <2>1. PICK u \in Unit, s \in Edit : goes(c, [NoDesk EXCEPT !.op = "update", !.unit = u, !.status = s])
    BY <1>1 DEF updateRead
  <2>2. opened([NoDesk EXCEPT !.op = "update", !.unit = u, !.status = s])
    BY IdleRow, EditAssumption DEF opened, NoDesk, DeskRow
  <2> QED BY <1>1, <2>1, <2>2 DEF updateRead, quiet
<1>2. CASE retireRead(c)
  <2>1. PICK u \in Unit : goes(c, [NoDesk EXCEPT !.op = "retire", !.unit = u])
    BY <1>2 DEF retireRead
  <2>2. opened([NoDesk EXCEPT !.op = "retire", !.unit = u])
    BY IdleRow DEF opened, NoDesk, DeskRow
  <2> QED BY <1>2, <2>1, <2>2 DEF retireRead, quiet
<1> QED BY <1>1, <1>2

LEMMA BeginOpened ==
  ASSUME BookingsTypeOK, RowsInv, NEW c \in Clerk, begin(c)
  PROVE  \E row : opened(row) /\ quiet(c, row)
BY BookOpened, DeployOpened, DeliverOpened, ExtendOpened, ReturnOpened, CancelOpened, AskOpened,
   RejectOpened, FleetOpened
   DEF begin

-----------------------------------------------------------------------------
(* Steps that write nothing.                                                *)

LEMMA IdleOpened == opened(NoDesk)
BY IdleRow DEF opened, NoDesk

\* A transaction that begins or ends disturbs nobody else's record.
LEMMA OpenedDesk ==
  ASSUME BookingsTypeOK, DeskInv, LocksInv, NEW c \in Clerk, NEW row, opened(row), goes(c, row)
  PROVE  /\ desk' \in [Clerk -> DeskRow]
         /\ desk'[c] = row
         /\ \A d \in Clerk \ {c} : desk'[d] = desk[d]
         /\ DeskInv' /\ LocksInv'
<1>1. row \in DeskRow
  BY DEF opened
<1>2. /\ desk' \in [Clerk -> DeskRow] /\ desk'[c] = row
      /\ \A d \in Clerk \ {c} : desk'[d] = desk[d]
  BY <1>1, Goes
<1>3. DeskInv'
  BY <1>2 DEF opened, DeskInv, locked, wants, picks
<1>4. LocksInv'
  BY <1>2 DEF opened, LocksInv
<1> QED BY <1>2, <1>3, <1>4

LEMMA QuietStep ==
  ASSUME BookingsInv, NEW c \in Clerk, NEW row, opened(row), quiet(c, row)
  PROVE  BookingsInv'
<1> USE DEF BookingsInv
<1>1. /\ desk' \in [Clerk -> DeskRow] /\ desk'[c] = row
      /\ \A d \in Clerk \ {c} : desk'[d] = desk[d]
      /\ DeskInv' /\ LocksInv'
  BY OpenedDesk DEF quiet
<1>2. UNCHANGED <<unit, rental, hold, request, overwritten>>
  BY DEF quiet, rows
<1>3. BookingsTypeOK'
  BY <1>1, <1>2 DEF BookingsTypeOK
<1>4. RowsInv' /\ DaysInv' /\ NeverOverbooked'
  BY <1>2 DEF RowsInv, DaysInv, NeverOverbooked, isLive, overlaps
<1>5. PicksInv'
  <2>1. \A d \in Clerk \ {c} : picks(d)' = picks(d) /\ inserting(d)' = inserting(d)
    BY <1>1 DEF picks, inserting
  <2>2. picks(c)' = {h \in Hold : row.rows[h] # NoHold} /\ inserting(c)' = (row.op \in {"book", "deploy"})
    BY <1>1 DEF picks, inserting
  <2>3. \A h \in picks(c)' : \A d \in Clerk \ {c} : inserting(c)' \/ inserting(d) => h \notin picks(d)
    BY <2>2 DEF opened, freeHolds, PicksInv
  <2> DEFINE P(d, h) ==
        LET x == desk[d].rows[h] IN
        /\ x.unit \in Unit
        /\ inserting(d) => /\ hold[h] = NoHold
                           /\ x.status = "scheduled" /\ x.rental = desk[d].rental /\ x.start < x.end
                           /\ \A e \in Clerk \ {d} : h \notin picks(e)
        /\ ~inserting(d) => /\ hold[h] # NoHold
                            /\ x.unit = hold[h].unit /\ x.rental = hold[h].rental /\ x.start = hold[h].start
        /\ desk[d].op = "extend" => x.rental = desk[d].rental
  <2>4. ASSUME NEW h \in picks(c)' PROVE P(c, h)'
    BY <1>1, <1>2, <2>1, <2>2 DEF opened, freeHolds
  <2>5. ASSUME NEW d \in Clerk \ {c}, NEW h \in picks(d)' PROVE P(d, h)'
    BY <1>1, <1>2, <2>1, <2>2, <2>3 DEF PicksInv
  <2> QED BY <2>4, <2>5 DEF PicksInv
<1>6. CheckedInv'
  <2>1. \A d \in Clerk : desk'[d].step = "checked" => d # c /\ desk'[d] = desk[d]
    BY <1>1 DEF opened
  <2> QED BY <1>2, <2>1
      DEF CheckedInv, taken, extendable, lengthened, inserting, wants, picks, isLive, overlaps
<1> QED BY <1>1, <1>3, <1>4, <1>5, <1>6

LEMMA LockStep ==
  ASSUME BookingsInv, NEW c \in Clerk, lockUnit(c)
  PROVE  BookingsInv'
<1> USE DEF BookingsInv
<1>1. PICK u \in wants(c) \ desk[c].held : unitFree(u) /\ goes(c, [desk[c] EXCEPT !.held = desk[c].held \cup {u}])
  BY DEF lockUnit
<1>2. UNCHANGED <<unit, rental, hold, request, overwritten>> /\ desk[c].op \in lockingOps /\ desk[c].step = "reads"
  BY DEF lockUnit, rows
<1>3. u \in Unit
  BY DEF wants, PicksInv
<1> DEFINE row == [desk[c] EXCEPT !.held = desk[c].held \cup {u}]
<1>4. /\ row \in DeskRow /\ row.held = desk[c].held \cup {u}
      /\ row.op = desk[c].op /\ row.step = desk[c].step /\ row.rental = desk[c].rental
      /\ row.rows = desk[c].rows /\ row.status = desk[c].status /\ row.end = desk[c].end
  BY <1>3 DEF BookingsTypeOK, DeskRow
<1>5. goes(c, row)
  BY <1>1
<1> HIDE DEF row
<1>6. /\ desk' \in [Clerk -> DeskRow] /\ desk'[c] = row
      /\ \A d \in Clerk \ {c} : desk'[d] = desk[d]
  BY <1>4, <1>5, Goes
<1>7. BookingsTypeOK'
  BY <1>2, <1>6 DEF BookingsTypeOK
<1>8. RowsInv' /\ DaysInv' /\ NeverOverbooked'
  BY <1>2 DEF RowsInv, DaysInv, NeverOverbooked, isLive, overlaps
<1>9. \A d \in Clerk : /\ picks(d)' = picks(d) /\ inserting(d)' = inserting(d)
                       /\ desk'[d].rows = desk[d].rows /\ desk'[d].op = desk[d].op
                       /\ desk'[d].rental = desk[d].rental /\ desk'[d].step = desk[d].step
                       /\ desk'[d].status = desk[d].status
  BY <1>4, <1>6 DEF picks, inserting
<1>10. DeskInv'
  BY <1>2, <1>4, <1>6, <1>9 DEF DeskInv, locked, wants
<1>11. LocksInv'
  BY <1>1, <1>4, <1>6 DEF LocksInv, unitFree
<1>12. PicksInv'
  BY <1>2, <1>9 DEF PicksInv
<1>13. CheckedInv'
  <2>1. \A d \in Clerk : desk'[d].step = "checked" => d # c /\ desk'[d] = desk[d]
    BY <1>2, <1>4, <1>6
  <2> QED BY <1>2, <2>1
      DEF CheckedInv, taken, extendable, lengthened, inserting, wants, picks, isLive, overlaps
<1> QED BY <1>7, <1>8, <1>10, <1>11, <1>12, <1>13

LEMMA CheckStep ==
  ASSUME BookingsInv, NEW c \in Clerk, check(c)
  PROVE  BookingsInv'
<1> USE DEF BookingsInv
<1>1. /\ UNCHANGED <<unit, rental, hold, request, overwritten>>
      /\ desk[c].op \in lockingOps /\ locked(c) /\ allowed(c)
      /\ goes(c, [desk[c] EXCEPT !.step = "checked"])
  BY DEF check, rows
<1> DEFINE row == [desk[c] EXCEPT !.step = "checked"]
<1>2. /\ row \in DeskRow /\ row.held = desk[c].held
      /\ row.op = desk[c].op /\ row.rental = desk[c].rental
      /\ row.rows = desk[c].rows /\ row.status = desk[c].status /\ row.end = desk[c].end
  BY DEF BookingsTypeOK, DeskRow
<1>3. goes(c, row)
  BY <1>1
<1> HIDE DEF row
<1>4. /\ desk' \in [Clerk -> DeskRow] /\ desk'[c] = row
      /\ \A d \in Clerk \ {c} : desk'[d] = desk[d]
  BY <1>2, <1>3, Goes
<1>5. BookingsTypeOK'
  BY <1>1, <1>4 DEF BookingsTypeOK
<1>6. RowsInv' /\ DaysInv' /\ NeverOverbooked'
  BY <1>1 DEF RowsInv, DaysInv, NeverOverbooked, isLive, overlaps
<1>7. \A d \in Clerk : /\ picks(d)' = picks(d) /\ inserting(d)' = inserting(d)
                       /\ desk'[d].rows = desk[d].rows /\ desk'[d].op = desk[d].op
                       /\ desk'[d].rental = desk[d].rental /\ desk'[d].held = desk[d].held
                       /\ desk'[d].status = desk[d].status /\ desk'[d].end = desk[d].end
                       /\ wants(d)' = wants(d) /\ lengthened(d)' = lengthened(d)
  BY <1>2, <1>4 DEF picks, inserting, wants, lengthened
<1>8. DeskInv'
  BY <1>1, <1>2, <1>4, <1>7 DEF DeskInv, locked
<1>9. LocksInv'
  BY <1>7 DEF LocksInv
<1>10. PicksInv'
  BY <1>1, <1>7 DEF PicksInv
<1>11. CheckedInv'
  <2>1. \A d \in Clerk \ {c} : desk'[d] = desk[d]
    BY <1>4
  <2>2. /\ inserting(c) => \A h \in picks(c) : taken(desk[c].rows[h].unit, desk[c].rows[h]) = {}
        /\ desk[c].op = "extend" => extendable(c)
        /\ desk[c].op \in {"deploy", "deliver"} => \A u \in wants(c) : unit[u].status = "available"
    BY <1>1 DEF allowed, inserting, bookable, deployable, deliverable, wants
  <2>3. \A d \in Clerk : extendable(d)' = extendable(d)
    BY <1>1, <1>7 DEF extendable, taken, isLive, overlaps
  <2>4. \A u, w : taken(u, w)' = taken(u, w)
    BY <1>1 DEF taken, isLive, overlaps
  <2> QED BY <1>1, <1>7, <2>1, <2>2, <2>3, <2>4 DEF CheckedInv
<1> QED BY <1>5, <1>6, <1>8, <1>9, <1>10, <1>11

-----------------------------------------------------------------------------
(* Commits: what every one of them leaves to the transactions still open.   *)

\* No handler changes the unit, the rental or the first day of a row, and only
\* its inserter brings one into being.
rowsKept(c) ==
  \A h \in Hold :
    /\ hold[h] # NoHold => /\ hold'[h] # NoHold /\ hold'[h].unit = hold[h].unit
                           /\ hold'[h].rental = hold[h].rental /\ hold'[h].start = hold[h].start
    /\ hold[h] = NoHold => hold'[h] = NoHold \/ (inserting(c) /\ h \in picks(c))

\* Days of a unit are promised only by who holds its lock.
daysKept(c) ==
  \A h \in Hold : isLive(hold'[h]) =>
    \/ /\ isLive(hold[h]) /\ hold'[h].unit = hold[h].unit /\ hold'[h].rental = hold[h].rental
       /\ hold'[h].start = hold[h].start /\ hold'[h].end = hold[h].end
    \/ hold'[h].unit \in desk[c].held

\* Nobody changes the status of a unit that another transaction has locked.
unitsKept(c) ==
  \A u \in Unit : unit'[u].status = unit[u].status \/ \A d \in Clerk \ {c} : u \notin desk[d].held

LEMMA CommitFrame ==
  ASSUME BookingsInv, NEW c \in Clerk, ends(c), rowsKept(c), daysKept(c), unitsKept(c)
  PROVE  /\ desk' \in [Clerk -> DeskRow]
         /\ DeskInv' /\ LocksInv' /\ PicksInv' /\ CheckedInv'
<1> USE DEF BookingsInv
<1>1. /\ desk' \in [Clerk -> DeskRow] /\ desk'[c] = NoDesk
      /\ \A d \in Clerk \ {c} : desk'[d] = desk[d]
      /\ DeskInv' /\ LocksInv'
  BY IdleOpened, OpenedDesk DEF ends
<1>2. \A d \in Clerk \ {c} : /\ picks(d)' = picks(d) /\ inserting(d)' = inserting(d) /\ wants(d)' = wants(d)
                             /\ lengthened(d)' = lengthened(d)
  BY <1>1 DEF picks, inserting, wants, lengthened
<1>3. picks(c)' = {} /\ desk'[c].step = "reads"
  BY <1>1 DEF picks, NoDesk
<1>4. PicksInv'
  <2> DEFINE P(d, h) ==
        LET x == desk[d].rows[h] IN
        /\ x.unit \in Unit
        /\ inserting(d) => /\ hold[h] = NoHold
                           /\ x.status = "scheduled" /\ x.rental = desk[d].rental /\ x.start < x.end
                           /\ \A e \in Clerk \ {d} : h \notin picks(e)
        /\ ~inserting(d) => /\ hold[h] # NoHold
                            /\ x.unit = hold[h].unit /\ x.rental = hold[h].rental /\ x.start = hold[h].start
        /\ desk[d].op = "extend" => x.rental = desk[d].rental
  <2>1. ASSUME NEW d \in Clerk \ {c}, NEW h \in picks(d) PROVE P(d, h)'
    <3>1. P(d, h) /\ h \in Hold
      BY DEF PicksInv, picks
    <3>2. inserting(d) => hold'[h] = NoHold
      BY <3>1 DEF rowsKept
    <3>3. ~inserting(d) => /\ hold'[h] # NoHold /\ hold'[h].unit = hold[h].unit
                           /\ hold'[h].rental = hold[h].rental /\ hold'[h].start = hold[h].start
      BY <3>1 DEF rowsKept
    <3> QED BY <1>1, <1>2, <1>3, <3>1, <3>2, <3>3
  <2> QED BY <1>2, <1>3, <2>1 DEF PicksInv
<1>5. ASSUME NEW d \in Clerk \ {c}, desk[d].step = "checked"
      PROVE  /\ \A u \in wants(d) : u \in Unit /\ u \in desk[d].held /\ u \notin desk[c].held
             /\ \A w : \A u \in wants(d) : taken(u, w)' \subseteq taken(u, w)
  <2>1. \A u \in wants(d) : u \in Unit /\ u \in desk[d].held /\ u \notin desk[c].held
    BY <1>5 DEF DeskInv, LocksInv, locked, PicksInv, wants
  <2> QED BY <2>1 DEF taken, daysKept, overlaps
<1>6. CheckedInv'
  <2> SUFFICES ASSUME NEW d \in Clerk, desk'[d].step = "checked"
               PROVE /\ inserting(d)' =>
                          \A h \in picks(d)' : taken(desk[d].rows[h].unit, desk[d].rows[h])' = {}
                     /\ desk'[d].op = "extend" => extendable(d)'
                     /\ desk'[d].op \in {"deploy", "deliver"} => \A u \in wants(d)' : unit'[u].status = "available"
    BY DEF CheckedInv
  <2>1. d \in Clerk \ {c} /\ desk[d].step = "checked" /\ desk'[d] = desk[d]
    BY <1>1, <1>3
  <2>2. inserting(d)' => \A h \in picks(d)' : taken(desk[d].rows[h].unit, desk[d].rows[h])' = {}
    <3> SUFFICES ASSUME inserting(d), NEW h \in picks(d)
                 PROVE  taken(desk[d].rows[h].unit, desk[d].rows[h])' = {}
      BY <1>2, <2>1
    <3>1. taken(desk[d].rows[h].unit, desk[d].rows[h]) = {} /\ desk[d].rows[h].unit \in wants(d)
      BY <2>1 DEF CheckedInv, wants
    <3>2. taken(desk[d].rows[h].unit, desk[d].rows[h])' = {k \in Hold :
            hold'[k].unit = desk[d].rows[h].unit /\ isLive(hold'[k]) /\ overlaps(hold'[k], desk[d].rows[h])}
      BY <2>1 DEF taken, isLive, overlaps
    <3> QED BY <1>5, <2>1, <3>1, <3>2 DEF taken, isLive, overlaps
  <2>3. desk'[d].op = "extend" => extendable(d)'
    <3> SUFFICES ASSUME desk[d].op = "extend", NEW h \in lengthened(d),
                        NEW k \in taken(desk[d].rows[h].unit, [start |-> desk[d].rows[h].end, end |-> desk[d].end])'
                 PROVE  hold'[k].rental = desk[d].rental
      BY <1>2, <2>1 DEF extendable
    <3> DEFINE u == desk[d].rows[h].unit
               w == [start |-> desk[d].rows[h].end, end |-> desk[d].end]
    <3>1. u \in wants(d) /\ h \in picks(d)
      BY DEF wants, lengthened
    <3>2. k \in Hold /\ hold'[k].unit = u /\ isLive(hold'[k]) /\ overlaps(hold'[k], w)
      BY <2>1 DEF taken, isLive, overlaps
    <3>3. /\ isLive(hold[k]) /\ hold'[k].unit = hold[k].unit /\ hold'[k].rental = hold[k].rental
          /\ hold'[k].start = hold[k].start /\ hold'[k].end = hold[k].end
      BY <1>5, <2>1, <3>1, <3>2 DEF daysKept
    <3>4. k \in taken(u, w)
      BY <3>2, <3>3 DEF taken, overlaps
    <3> QED BY <2>1, <3>3, <3>4 DEF CheckedInv, extendable
  <2>4. desk'[d].op \in {"deploy", "deliver"} => \A u \in wants(d)' : unit'[u].status = "available"
    BY <1>2, <1>5, <2>1 DEF CheckedInv, unitsKept
  <2> QED BY <2>2, <2>3, <2>4
<1> QED BY <1>1, <1>4, <1>6

-----------------------------------------------------------------------------
(* Commits, one by one.                                                     *)

\* Setting the status of units, of a rental or of a request keeps the tables' types.
LEMMA StatusTypes ==
  ASSUME BookingsTypeOK
  PROVE  /\ \A U \in SUBSET Unit, s \in UnitStatus : unitsBecome(U, s) =>
               /\ unit' \in [Unit -> [status : UnitStatus, retired : BOOLEAN]]
               /\ \A u \in Unit \ U : unit'[u] = unit[u]
         /\ \A r, s : s \in RentalStatus /\ rentalBecomes(r, s) => rental' \in [Rental -> RentalStatus]
         /\ \A q, s : s \in {"approved", "rejected"} /\ requestBecomes(q, s) =>
               /\ request' \in [Request -> RequestRow]
               /\ \A p \in Request : request'[p].status = "pending" => request'[p] = request[p]
<1>1. ASSUME NEW U \in SUBSET Unit, NEW s \in UnitStatus, unitsBecome(U, s)
      PROVE  /\ unit' \in [Unit -> [status : UnitStatus, retired : BOOLEAN]]
             /\ \A u \in Unit \ U : unit'[u] = unit[u]
  BY <1>1 DEF BookingsTypeOK, unitsBecome
<1>2. ASSUME NEW r, NEW s \in RentalStatus, rentalBecomes(r, s)
      PROVE  rental' \in [Rental -> RentalStatus]
  BY <1>2 DEF BookingsTypeOK, rentalBecomes
<1>3. ASSUME NEW q, NEW s \in {"approved", "rejected"}, requestBecomes(q, s)
      PROVE  /\ request' \in [Request -> RequestRow]
             /\ \A p \in Request : request'[p].status = "pending" => request'[p] = request[p]
  BY <1>3 DEF BookingsTypeOK, requestBecomes, RequestRow
<1> QED BY <1>1, <1>2, <1>3

\* What a booking or a deployment inserts.
LEMMA InsertStep ==
  ASSUME BookingsInv, NEW c \in Clerk, inserting(c), desk[c].step = "checked", inserted(c)
  PROVE  /\ hold' \in [Hold -> HoldRow]
         /\ rowsKept(c) /\ daysKept(c)
         /\ \A h \in Hold : hold'[h] # NoHold =>
              hold'[h].status # "absent" /\ hold'[h].unit \in Unit /\ hold'[h].rental \in Rental
         /\ \A h \in Hold \ overwritten : isLive(hold'[h]) => hold'[h].start < hold'[h].end
         /\ \A h, k \in Hold \ overwritten :
              /\ isLive(hold'[h]) /\ isLive(hold'[k])
              /\ hold'[h].unit = hold'[k].unit /\ hold'[h].rental # hold'[k].rental
              => ~overlaps(hold'[h], hold'[k])
<1> USE DEF BookingsInv
<1>1. /\ \A h \in picks(c) : hold'[h] = desk[c].rows[h]
      /\ \A h \in Hold \ picks(c) : hold'[h] = hold[h]
      /\ picks(c) \subseteq Hold
  BY DEF inserted, picks
<1>2. \A h \in picks(c) :
        /\ hold[h] = NoHold /\ desk[c].rows[h] \in HoldRow
        /\ desk[c].rows[h].unit \in Unit /\ desk[c].rows[h].status = "scheduled"
        /\ desk[c].rows[h].rental = desk[c].rental /\ desk[c].rental \in Rental
        /\ desk[c].rows[h].start < desk[c].rows[h].end
        /\ desk[c].rows[h].unit \in desk[c].held
  BY DEF PicksInv, BookingsTypeOK, DeskRow, DeskInv, locked, wants, picks, inserting
<1>3. hold' \in [Hold -> HoldRow]
  BY <1>1, <1>2 DEF inserted, BookingsTypeOK
<1>4. rowsKept(c)
  BY <1>1, <1>2 DEF rowsKept
<1>5. daysKept(c)
  BY <1>1, <1>2 DEF daysKept
<1>6. \A h \in Hold : hold'[h] # NoHold =>
        hold'[h].status # "absent" /\ hold'[h].unit \in Unit /\ hold'[h].rental \in Rental
  BY <1>1, <1>2 DEF RowsInv
<1>7. \A h \in Hold \ overwritten : isLive(hold'[h]) => hold'[h].start < hold'[h].end
  BY <1>1, <1>2 DEF DaysInv
<1>8. \A h \in picks(c), k \in Hold \ picks(c) :
        isLive(hold[k]) /\ hold[k].unit = desk[c].rows[h].unit => ~overlaps(hold[k], desk[c].rows[h])
  BY DEF CheckedInv, taken
<1>9. \A h, k \in Hold \ overwritten :
        /\ isLive(hold'[h]) /\ isLive(hold'[k])
        /\ hold'[h].unit = hold'[k].unit /\ hold'[h].rental # hold'[k].rental
        => ~overlaps(hold'[h], hold'[k])
  <2> SUFFICES ASSUME NEW h \in Hold \ overwritten, NEW k \in Hold \ overwritten,
                      isLive(hold'[h]), isLive(hold'[k]),
                      hold'[h].unit = hold'[k].unit, hold'[h].rental # hold'[k].rental
               PROVE  ~overlaps(hold'[h], hold'[k])
    OBVIOUS
  <2>1. CASE h \in picks(c) /\ k \in picks(c)
    BY <1>1, <1>2, <2>1
  <2>2. CASE h \in picks(c) /\ k \notin picks(c)
    BY <1>1, <1>8, <2>2 DEF overlaps
  <2>3. CASE h \notin picks(c) /\ k \in picks(c)
    BY <1>1, <1>8, <2>3
  <2>4. CASE h \notin picks(c) /\ k \notin picks(c)
    BY <1>1, <2>4 DEF NeverOverbooked
  <2> QED BY <2>1, <2>2, <2>3, <2>4
<1> QED BY <1>3, <1>4, <1>5, <1>6, <1>7, <1>9

LEMMA BookStep ==
  ASSUME BookingsInv, NEW c \in Clerk, bookCommit(c)
  PROVE  BookingsInv'
<1> USE DEF BookingsInv
<1>1. /\ inserting(c) /\ desk[c].step = "checked" /\ inserted(c) /\ ends(c)
      /\ UNCHANGED <<unit, request, overwritten>> /\ rentalBecomes(desk[c].rental, "pending")
  BY DEF bookCommit, committing, inserting
<1>2. unitsKept(c)
  BY <1>1 DEF unitsKept
<1>3. rental' \in [Rental -> RentalStatus]
  BY <1>1, StatusTypes DEF RentalStatus
<1>4. BookingsTypeOK'
  BY <1>1, <1>2, <1>3, InsertStep, CommitFrame DEF BookingsTypeOK
<1>5. RowsInv' /\ DaysInv' /\ NeverOverbooked'
  BY <1>1, InsertStep DEF RowsInv, DaysInv, NeverOverbooked, isLive, overlaps
<1> QED BY <1>1, <1>2, <1>4, <1>5, InsertStep, CommitFrame

LEMMA DeployStep ==
  ASSUME BookingsInv, NEW c \in Clerk, deployCommit(c)
  PROVE  BookingsInv'
<1> USE DEF BookingsInv
<1>1. /\ inserting(c) /\ desk[c].step = "checked" /\ inserted(c) /\ ends(c)
      /\ UNCHANGED <<rental, request, overwritten>> /\ unitsBecome(wants(c), "deployed")
  BY DEF deployCommit, committing, inserting
<1>2. wants(c) \in SUBSET Unit /\ wants(c) \subseteq desk[c].held
  BY <1>1 DEF wants, PicksInv, DeskInv, locked
<1>3. /\ unit' \in [Unit -> [status : UnitStatus, retired : BOOLEAN]]
      /\ \A u \in Unit \ wants(c) : unit'[u] = unit[u]
  BY <1>1, <1>2, StatusTypes DEF UnitStatus
<1>4. unitsKept(c)
  BY <1>2, <1>3 DEF unitsKept, LocksInv
<1>5. BookingsTypeOK'
  BY <1>1, <1>3, <1>4, InsertStep, CommitFrame DEF BookingsTypeOK
<1>6. RowsInv' /\ DaysInv' /\ NeverOverbooked'
  BY <1>1, InsertStep DEF RowsInv, DaysInv, NeverOverbooked, isLive, overlaps
<1> QED BY <1>1, <1>4, <1>5, <1>6, InsertStep, CommitFrame

LEMMA DeliverStep ==
  ASSUME BookingsInv, NEW c \in Clerk, deliverCommit(c)
  PROVE  BookingsInv'
<1> USE DEF BookingsInv
<1>1. /\ desk[c].op = "deliver" /\ desk[c].step = "checked" /\ ends(c) /\ UNCHANGED request
      /\ unitsBecome(wants(c), "deployed") /\ rentalBecomes(desk[c].rental, "active")
      /\ overwritten' = overwritten \cup {h \in picks(c) : ~isLive(hold[h])}
  BY DEF deliverCommit, committing
<1>2. /\ \A h \in picks(c) : hold'[h] = [hold[h] EXCEPT !.status = "active"]
      /\ \A h \in Hold \ picks(c) : hold'[h] = hold[h]
      /\ picks(c) \subseteq Hold
  BY DEF deliverCommit, picks
<1>3. \A h \in picks(c) :
        /\ hold[h] # NoHold /\ hold[h].unit \in desk[c].held
        /\ hold'[h].status = "active" /\ hold'[h].unit = hold[h].unit /\ hold'[h].rental = hold[h].rental
        /\ hold'[h].start = hold[h].start /\ hold'[h].end = hold[h].end
  <2> TAKE h \in picks(c)
  <2>1. hold[h] # NoHold /\ hold[h].unit \in desk[c].held
    BY <1>1, <1>2 DEF PicksInv, inserting, DeskInv, locked, wants
  <2>2. hold'[h] = [hold[h] EXCEPT !.status = "active"] /\ hold[h] \in HoldRow
    BY <1>2 DEF BookingsTypeOK
  <2> QED BY <2>1, <2>2 DEF HoldRow
<1>4. hold' \in [Hold -> HoldRow]
  BY <1>1, <1>2 DEF deliverCommit, BookingsTypeOK, HoldRow, HoldStatus
<1>5. wants(c) \in SUBSET Unit /\ wants(c) \subseteq desk[c].held
  BY <1>1 DEF wants, PicksInv, DeskInv, locked
<1>6. /\ unit' \in [Unit -> [status : UnitStatus, retired : BOOLEAN]]
      /\ \A u \in Unit \ wants(c) : unit'[u] = unit[u]
      /\ rental' \in [Rental -> RentalStatus]
  BY <1>1, <1>5, StatusTypes DEF UnitStatus, RentalStatus
<1>7. rowsKept(c) /\ daysKept(c)
  BY <1>2, <1>3 DEF rowsKept, daysKept, NoHold
<1>8. unitsKept(c)
  BY <1>5, <1>6 DEF unitsKept, LocksInv
<1>9. BookingsTypeOK'
  BY <1>1, <1>2, <1>4, <1>6, <1>7, <1>8, CommitFrame DEF BookingsTypeOK
<1>10. RowsInv'
  BY <1>1, <1>2, <1>3 DEF RowsInv
<1>11. \A h \in Hold \ overwritten' : isLive(hold'[h]) =>
         /\ isLive(hold[h]) /\ h \notin overwritten
         /\ hold'[h].unit = hold[h].unit /\ hold'[h].rental = hold[h].rental
         /\ hold'[h].start = hold[h].start /\ hold'[h].end = hold[h].end
  BY <1>1, <1>2, <1>3
<1>12. DaysInv' /\ NeverOverbooked'
  BY <1>11 DEF DaysInv, NeverOverbooked, isLive, overlaps
<1> QED BY <1>1, <1>7, <1>8, <1>9, <1>10, <1>12, CommitFrame

LEMMA ExtendStep ==
  ASSUME BookingsInv, NEW c \in Clerk, extendCommit(c)
  PROVE  BookingsInv'
<1> USE DEF BookingsInv
<1>1. /\ desk[c].op = "extend" /\ desk[c].step = "checked" /\ ends(c) /\ UNCHANGED <<unit, rental>>
      /\ requestBecomes(desk[c].request, "approved")
      /\ overwritten' = overwritten \cup {h \in lengthened(c) : hold[h].end # desk[c].rows[h].end}
  BY DEF extendCommit, committing
<1>2. /\ \A h \in lengthened(c) : hold'[h] = [hold[h] EXCEPT !.end = desk[c].end]
      /\ \A h \in Hold \ lengthened(c) : hold'[h] = hold[h]
      /\ lengthened(c) \subseteq picks(c) /\ picks(c) \subseteq Hold
  BY DEF extendCommit, picks, lengthened
<1>3. \A h \in lengthened(c) :
        /\ hold[h] # NoHold /\ hold[h].unit \in desk[c].held /\ hold[h].rental = desk[c].rental
        /\ hold'[h].status = hold[h].status /\ hold'[h].unit = hold[h].unit /\ hold'[h].rental = hold[h].rental
        /\ hold'[h].start = hold[h].start /\ hold'[h].end = desk[c].end
        /\ desk[c].rows[h].unit = hold[h].unit /\ desk[c].rows[h].end < desk[c].end
  <2> TAKE h \in lengthened(c)
  <2>1. /\ hold[h] # NoHold /\ hold[h].unit \in desk[c].held /\ hold[h].rental = desk[c].rental
        /\ desk[c].rows[h].unit = hold[h].unit
    BY <1>1, <1>2 DEF PicksInv, inserting, DeskInv, locked, wants
  <2>2. hold'[h] = [hold[h] EXCEPT !.end = desk[c].end] /\ hold[h] \in HoldRow
    BY <1>2 DEF BookingsTypeOK
  <2>3. desk[c].rows[h].end < desk[c].end
    BY DEF lengthened
  <2> QED BY <2>1, <2>2, <2>3 DEF HoldRow
<1>4. hold' \in [Hold -> HoldRow] /\ desk[c].end \in Nat
  <2>1. desk[c].end \in Nat
    BY DEF BookingsTypeOK, DeskRow
  <2>2. \A h \in Hold : hold[h] \in HoldRow /\ [hold[h] EXCEPT !.end = desk[c].end] \in HoldRow
    BY <2>1 DEF BookingsTypeOK, HoldRow
  <2> QED BY <2>1, <2>2 DEF extendCommit
<1>5. /\ request' \in [Request -> RequestRow]
      /\ \A p \in Request : request'[p].status = "pending" => request'[p] = request[p]
  BY <1>1, StatusTypes
<1>6. rowsKept(c) /\ daysKept(c) /\ unitsKept(c)
  BY <1>1, <1>2, <1>3 DEF rowsKept, daysKept, unitsKept, RowsInv, NoHold
<1>7. BookingsTypeOK'
  BY <1>1, <1>2, <1>4, <1>5, <1>6, CommitFrame DEF BookingsTypeOK
<1>8. RowsInv'
  BY <1>2, <1>3, <1>5 DEF RowsInv
<1>9. \A h \in lengthened(c) \ overwritten' : hold[h].end = desk[c].rows[h].end
  BY <1>1
<1>10. DaysInv'
  <2> SUFFICES ASSUME NEW h \in Hold \ overwritten', isLive(hold'[h])
               PROVE  hold'[h].start < hold'[h].end
    BY DEF DaysInv, isLive
  <2>1. h \notin overwritten /\ isLive(hold[h]) /\ hold[h].start \in Nat /\ hold[h].end \in Nat
    BY <1>1, <1>2, <1>3 DEF isLive, BookingsTypeOK, HoldRow
  <2>2. hold[h].start < hold[h].end
    BY <2>1 DEF DaysInv
  <2> QED BY <1>2, <1>3, <1>4, <1>9, <2>1, <2>2
<1>11. \* The days added are nobody else's.
       \A h \in lengthened(c) \ overwritten', k \in Hold \ overwritten :
         isLive(hold[h]) /\ isLive(hold[k]) /\ hold[k].unit = hold[h].unit /\ hold[k].rental # hold[h].rental
           => ~overlaps(hold'[h], hold[k]) /\ ~overlaps(hold[k], hold'[h])
  <2> SUFFICES ASSUME NEW h \in lengthened(c) \ overwritten', NEW k \in Hold \ overwritten,
                      isLive(hold[h]), isLive(hold[k]),
                      hold[k].unit = hold[h].unit, hold[k].rental # hold[h].rental
               PROVE  ~overlaps(hold'[h], hold[k])
    BY DEF overlaps
  <2>1. h \in Hold \ overwritten /\ ~overlaps(hold[h], hold[k]) /\ hold[k].start < hold[k].end
    BY <1>1, <1>2 DEF NeverOverbooked, DaysInv
  <2>2. ~overlaps(hold[k], [start |-> desk[c].rows[h].end, end |-> desk[c].end])
    BY <1>1, <1>2, <1>3 DEF CheckedInv, extendable, taken
  <2>3. /\ hold[h].start \in Nat /\ hold[h].end \in Nat /\ hold[k].start \in Nat /\ hold[k].end \in Nat
    BY <2>1 DEF BookingsTypeOK, HoldRow
  <2> QED BY <1>3, <1>4, <1>9, <2>1, <2>2, <2>3 DEF overlaps
<1>12. NeverOverbooked'
  <2> SUFFICES ASSUME NEW h \in Hold \ overwritten', NEW k \in Hold \ overwritten',
                      isLive(hold'[h]), isLive(hold'[k]),
                      hold'[h].unit = hold'[k].unit, hold'[h].rental # hold'[k].rental
               PROVE  ~overlaps(hold'[h], hold'[k])
    BY DEF NeverOverbooked, isLive, overlaps
  <2>1. \A x \in {h, k} : /\ x \in Hold \ overwritten /\ isLive(hold[x])
                          /\ hold'[x].unit = hold[x].unit /\ hold'[x].rental = hold[x].rental
    BY <1>1, <1>2, <1>3 DEF isLive
  <2>2. h \notin lengthened(c) \/ k \notin lengthened(c)
    BY <1>3
  <2>3. CASE h \in lengthened(c)
    BY <1>2, <1>11, <2>1, <2>2, <2>3
  <2>4. CASE k \in lengthened(c)
    BY <1>2, <1>11, <2>1, <2>2, <2>4
  <2>5. CASE h \notin lengthened(c) /\ k \notin lengthened(c)
    BY <1>2, <2>1, <2>5 DEF NeverOverbooked
  <2> QED BY <2>3, <2>4, <2>5
<1> QED BY <1>1, <1>6, <1>7, <1>8, <1>10, <1>12, CommitFrame

\* Rows that end, or stay as they are, promise no new days.
LEMMA ReleaseStep ==
  ASSUME BookingsInv, NEW c \in Clerk, UNCHANGED overwritten,
         \A h \in Hold : hold'[h] = hold[h] \/ /\ hold[h] # NoHold /\ hold'[h].status \in {"completed", "cancelled"}
                                               /\ hold'[h].unit = hold[h].unit
                                               /\ hold'[h].rental = hold[h].rental
                                               /\ hold'[h].start = hold[h].start
  PROVE  /\ rowsKept(c) /\ daysKept(c)
         /\ DaysInv' /\ NeverOverbooked'
         /\ \A h \in Hold : hold'[h] # NoHold =>
              hold'[h].status # "absent" /\ hold'[h].unit \in Unit /\ hold'[h].rental \in Rental
<1> USE DEF BookingsInv
<1>1. \A h \in Hold : isLive(hold'[h]) => hold'[h] = hold[h]
  BY DEF isLive
<1>2. rowsKept(c) /\ daysKept(c)
  BY <1>1 DEF rowsKept, daysKept, NoHold
<1>3. DaysInv' /\ NeverOverbooked'
  BY <1>1 DEF DaysInv, NeverOverbooked, isLive, overlaps
<1>4. \A h \in Hold : hold'[h] # NoHold =>
        hold'[h].status # "absent" /\ hold'[h].unit \in Unit /\ hold'[h].rental \in Rental
  BY DEF RowsInv
<1> QED BY <1>2, <1>3, <1>4

LEMMA ReturnStep ==
  ASSUME BookingsInv, NEW c \in Clerk, returnCommit(c)
  PROVE  BookingsInv'
<1> USE DEF BookingsInv
<1>1. /\ desk[c].op = "return" /\ ends(c) /\ UNCHANGED <<request, overwritten>>
      /\ \A u \in wants(c) : unitFree(u)
      /\ unitsBecome(wants(c), "available")
      /\ rental' = rental \/ rentalBecomes(desk[c].rental, "completed")
  BY DEF returnCommit
<1>2. PICK now \in Day :
        hold' = [h \in Hold |-> IF h \in picks(c)
                  THEN [hold[h] EXCEPT !.status = "completed", !.end = now] ELSE hold[h]]
  BY DEF returnCommit
<1>3. \A h \in Hold : hold[h] \in HoldRow /\ now \in Nat
  BY DayAssumption DEF BookingsTypeOK
<1>4. hold' \in [Hold -> HoldRow]
  BY <1>2, <1>3 DEF HoldRow, HoldStatus
<1>5. \A h \in Hold : hold'[h] = hold[h] \/ /\ hold[h] # NoHold /\ hold'[h].status \in {"completed", "cancelled"}
                                            /\ hold'[h].unit = hold[h].unit
                                            /\ hold'[h].rental = hold[h].rental
                                            /\ hold'[h].start = hold[h].start
  BY <1>1, <1>2, <1>3 DEF PicksInv, inserting, HoldRow
<1>6. wants(c) \in SUBSET Unit
  BY DEF wants, PicksInv
<1>7. /\ unit' \in [Unit -> [status : UnitStatus, retired : BOOLEAN]]
      /\ \A u \in Unit \ wants(c) : unit'[u] = unit[u]
      /\ rental' \in [Rental -> RentalStatus]
  BY <1>1, <1>6, StatusTypes DEF UnitStatus, RentalStatus, BookingsTypeOK
<1>8. unitsKept(c)
  BY <1>1, <1>7 DEF unitsKept, unitFree
<1>9. BookingsTypeOK'
  BY <1>1, <1>4, <1>5, <1>7, <1>8, ReleaseStep, CommitFrame DEF BookingsTypeOK
<1>10. RowsInv'
  BY <1>1, <1>5, ReleaseStep DEF RowsInv
<1> QED BY <1>1, <1>5, <1>8, <1>9, <1>10, ReleaseStep, CommitFrame

LEMMA CancelStep ==
  ASSUME BookingsInv, NEW c \in Clerk, cancelCommit(c)
  PROVE  BookingsInv'
<1> USE DEF BookingsInv
<1>1. /\ desk[c].op = "cancel" /\ ends(c) /\ UNCHANGED <<unit, overwritten>>
      /\ rentalBecomes(desk[c].rental, "cancelled")
      /\ request' = request \/ requestBecomes(desk[c].request, "approved")
      /\ hold' = [h \in Hold |-> IF hold[h].rental = desk[c].rental
                    THEN [hold[h] EXCEPT !.status = "cancelled"] ELSE hold[h]]
  BY DEF cancelCommit
<1>2. \A h \in Hold : hold[h] \in HoldRow
  BY DEF BookingsTypeOK
<1>3. desk[c].rental \in Rental /\ None \notin Rental
  BY <1>1, BookingNoneAssumption DEF DeskInv
<1>4. hold' \in [Hold -> HoldRow]
  BY <1>1, <1>2 DEF HoldRow, HoldStatus
<1>5. \A h \in Hold : hold'[h] = hold[h] \/ /\ hold[h] # NoHold /\ hold'[h].status \in {"completed", "cancelled"}
                                            /\ hold'[h].unit = hold[h].unit
                                            /\ hold'[h].rental = hold[h].rental
                                            /\ hold'[h].start = hold[h].start
  BY <1>1, <1>2, <1>3 DEF HoldRow, NoHold
<1>6. /\ rental' \in [Rental -> RentalStatus]
      /\ request' \in [Request -> RequestRow]
      /\ \A p \in Request : request'[p].status = "pending" => request'[p] = request[p]
  BY <1>1, StatusTypes DEF RentalStatus, BookingsTypeOK
<1>7. unitsKept(c)
  BY <1>1 DEF unitsKept
<1>8. BookingsTypeOK'
  BY <1>1, <1>4, <1>5, <1>6, <1>7, ReleaseStep, CommitFrame DEF BookingsTypeOK
<1>9. RowsInv'
  BY <1>1, <1>5, <1>6, ReleaseStep DEF RowsInv
<1> QED BY <1>1, <1>5, <1>7, <1>8, <1>9, ReleaseStep, CommitFrame

LEMMA AskStep ==
  ASSUME BookingsInv, NEW c \in Clerk, askCommit(c) \/ rejectCommit(c)
  PROVE  BookingsInv'
<1> USE DEF BookingsInv
<1>1. ends(c) /\ UNCHANGED <<unit, rental, hold, overwritten>>
  BY DEF askCommit, rejectCommit
<1>2. /\ request' \in [Request -> RequestRow]
      /\ \A q \in Request : request'[q].status = "pending" => request'[q].rental \in Rental
  <2>1. CASE askCommit(c)
    <3> DEFINE row == [status |-> "pending", rental |-> desk[c].rental, end |-> desk[c].end,
                       kind |-> IF desk[c].status = "extend" THEN "extend" ELSE "cancel"]
    <3>1. row \in RequestRow /\ row.rental \in Rental
      BY <2>1 DEF askCommit, DeskInv, BookingsTypeOK, DeskRow, RequestRow
    <3>2. request' = [request EXCEPT ![desk[c].request] = row]
      BY <2>1 DEF askCommit
    <3> HIDE DEF row
    <3> QED BY <3>1, <3>2 DEF BookingsTypeOK, RowsInv
  <2>2. CASE rejectCommit(c)
    BY <2>2, StatusTypes DEF rejectCommit, RowsInv
  <2> QED BY <2>1, <2>2
<1>3. rowsKept(c) /\ daysKept(c) /\ unitsKept(c) /\ DaysInv' /\ NeverOverbooked'
  BY <1>1, ReleaseStep DEF unitsKept
<1>4. BookingsTypeOK'
  BY <1>1, <1>2, <1>3, CommitFrame DEF BookingsTypeOK
<1>5. RowsInv'
  BY <1>1, <1>2 DEF RowsInv
<1> QED BY <1>1, <1>3, <1>4, <1>5, CommitFrame

LEMMA FleetStep ==
  ASSUME BookingsInv, NEW c \in Clerk, updateCommit(c) \/ retireCommit(c)
  PROVE  BookingsInv'
<1> USE DEF BookingsInv
<1>1. ends(c) /\ UNCHANGED <<rental, hold, request, overwritten>> /\ unitFree(desk[c].unit)
  BY DEF updateCommit, retireCommit
<1>2. /\ unit' \in [Unit -> [status : UnitStatus, retired : BOOLEAN]]
      /\ \A u \in Unit : u # desk[c].unit => unit'[u] = unit[u]
  <2>1. CASE updateCommit(c)
    BY <2>1 DEF updateCommit, unitsBecome, DeskInv, BookingsTypeOK
  <2>2. CASE retireCommit(c)
    BY <2>2 DEF retireCommit, BookingsTypeOK
  <2> QED BY <2>1, <2>2
<1>3. unitsKept(c)
  BY <1>1, <1>2 DEF unitsKept, unitFree
<1>4. rowsKept(c) /\ daysKept(c) /\ DaysInv' /\ NeverOverbooked'
  BY <1>1, ReleaseStep
<1>5. BookingsTypeOK'
  BY <1>1, <1>2, <1>3, <1>4, CommitFrame DEF BookingsTypeOK
<1>6. RowsInv'
  BY <1>1 DEF RowsInv
<1> QED BY <1>1, <1>3, <1>4, <1>5, <1>6, CommitFrame

\* Steps that leave all but the rentals' statuses alone.
LEMMA OtherStep ==
  ASSUME BookingsInv, (\E r \in Rental : settle(r)) \/ UNCHANGED vars
  PROVE  BookingsInv'
<1> USE DEF BookingsInv
<1>1. UNCHANGED <<unit, hold, request, desk, overwritten>>
  BY DEF settle, vars
<1>2. rental' \in [Rental -> RentalStatus]
  BY StatusTypes DEF settle, vars, RentalStatus, BookingsTypeOK
<1>3. BookingsTypeOK'
  BY <1>1, <1>2 DEF BookingsTypeOK
<1>4. RowsInv' /\ DeskInv' /\ LocksInv' /\ PicksInv' /\ DaysInv' /\ CheckedInv' /\ NeverOverbooked'
  BY <1>1 DEF RowsInv, DeskInv, LocksInv, PicksInv, DaysInv, CheckedInv, NeverOverbooked, locked, wants,
              picks, inserting, taken, extendable, lengthened, isLive, overlaps
<1> QED BY <1>3, <1>4

LEMMA NextBookingsInv == BookingsInv /\ [BookingsNext]_vars => BookingsInv'
<1> SUFFICES ASSUME BookingsInv, [BookingsNext]_vars PROVE BookingsInv'
  OBVIOUS
<1>1. ASSUME NEW c \in Clerk, begin(c) PROVE BookingsInv'
  BY <1>1, BeginOpened, QuietStep DEF BookingsInv
<1>2. ASSUME NEW c \in Clerk, victim(c) \/ refuse(c) PROVE BookingsInv'
  BY <1>2, IdleOpened, QuietStep DEF victim, refuse, ends, quiet
<1>3. ASSUME NEW c \in Clerk, proceed(c) PROVE BookingsInv'
  BY <1>2, <1>3, LockStep, CheckStep, BookStep, DeployStep, DeliverStep, ExtendStep, ReturnStep, CancelStep,
     AskStep, FleetStep DEF proceed
<1> QED BY <1>1, <1>3, OtherStep DEF BookingsNext, rest

-----------------------------------------------------------------------------
(* The theorems.                                                            *)

\* The invariant behind the theorems below: locks exclude one another, rows
\* that were read keep their unit and rental, and what was checked under a lock
\* is true until the commit.
THEOREM BookingsInvHolds == BookingsSpec => []BookingsInv
<1>1. BookingsInit => BookingsInv
  BY InitBookingsInv
<1>2. BookingsInv /\ [BookingsNext]_vars => BookingsInv'
  BY NextBookingsInv
<1> QED BY <1>1, <1>2, PTL DEF BookingsSpec

\* Every variable has its type, whatever is booked, moved, cancelled or edited.
THEOREM BookingsTypeCorrect == BookingsSpec => []BookingsTypeOK
<1>1. BookingsInv => BookingsTypeOK
  BY DEF BookingsInv
<1> QED BY <1>1, BookingsInvHolds, PTL

\* A unit is never promised to two rentals for one day (QAD-T21,
\* bookings.service.ts:76-79), by any number of bookings, deployments,
\* extensions and deliveries, but for rows a stale write has touched.
THEOREM OneRentalADay == BookingsSpec => []NeverOverbooked
<1>1. BookingsInv => NeverOverbooked
  BY DEF BookingsInv
<1> QED BY <1>1, BookingsInvHolds, PTL

\* A unit leaves the yard only if it is available when it leaves, however long
\* ago the delivery or the deployment looked at it (QAD-T16).
THEOREM LeavesAvailable == BookingsSpec => LeavesInService
<1>1. BookingsInv /\ [BookingsNext]_vars =>
        [\A c \in Clerk : deployCommit(c) \/ deliverCommit(c) =>
           \A u \in wants(c) : unit[u].status = "available"]_vars
  BY DEF BookingsInv, CheckedInv, deployCommit, deliverCommit, committing
<1> QED BY <1>1, BookingsInvHolds, PTL DEF BookingsSpec, LeavesInService

-----------------------------------------------------------------------------
(* Waiting for units never stops everybody.                                 *)

\* The guards of proceed(c), action by action: the checks or their refusal, the
\* next lock, the abort of a deadlock's victim, the commits.
mayProceed(c) ==
  \/ desk[c].op \in lockingOps /\ desk[c].step = "reads" /\ locked(c)
  \/ /\ desk[c].op \in lockingOps /\ desk[c].step = "reads"
     /\ \E u \in wants(c) \ desk[c].held : unitFree(u)
  \/ \E S \in SUBSET Clerk : c \in S /\ deadlocked(S)
  \/ desk[c].op \in lockingOps /\ desk[c].step = "checked"
  \/ desk[c].op = "return" /\ Day # {} /\ \A u \in wants(c) : unitFree(u)
  \/ desk[c].op \in {"update", "retire"} /\ unitFree(desk[c].unit)
  \/ desk[c].op \in {"cancel", "ask", "reject"}

\* While a request is open some open request may go on.
NeverStuck ==
  (\E c \in Clerk : desk[c].op # "idle") => \E c \in Clerk : desk[c].op # "idle" /\ mayProceed(c)

\* If nobody could go on, those that wait for a lock would all wait for each
\* other, and Postgres would abort one of them.
LEMMA InvNeverStuck ==
  ASSUME BookingsInv, Day # {}
  PROVE  NeverStuck
<1> SUFFICES ASSUME NEW o \in Clerk, desk[o].op # "idle",
                    \A c \in Clerk : desk[c].op # "idle" => ~mayProceed(c)
             PROVE  FALSE
  BY DEF NeverStuck
<1> DEFINE S == {c \in Clerk : desk[c].op \in lockingOps}
<1>1. \A c \in S : desk[c].op # "idle" /\ desk[c].step = "reads" /\ ~locked(c)
  BY DEF mayProceed, lockingOps, BookingsInv, BookingsTypeOK, DeskRow
<1>2. \A c \in Clerk : desk[c].held # {} => c \in S
  BY DEF BookingsInv, DeskInv
<1>3. ASSUME NEW c \in S
      PROVE  wants(c) \ desk[c].held \subseteq UNION {desk[d].held : d \in S \ {c}}
  <2> SUFFICES ASSUME NEW u \in wants(c) \ desk[c].held
               PROVE  \E d \in S \ {c} : u \in desk[d].held
    OBVIOUS
  <2>1. ~unitFree(u)
    BY <1>1 DEF mayProceed
  <2>2. PICK d \in Clerk : u \in desk[d].held
    BY <2>1 DEF unitFree
  <2> QED BY <1>2, <2>2
<1>4. deadlocked(S)
  BY <1>1, <1>3 DEF deadlocked
<1>5. S = {}
  BY <1>1, <1>4 DEF mayProceed
<1>6. \A u : unitFree(u)
  BY <1>2, <1>5 DEF unitFree
<1>7. desk[o].op \in {"return", "cancel", "ask", "reject", "update", "retire"}
  BY <1>5 DEF lockingOps, BookingsInv, BookingsTypeOK, DeskRow
<1> QED BY <1>6, <1>7 DEF mayProceed

\* Whatever the units that are wanted and the order they are locked in, the open
\* requests never all wait: a unit's lock is held only by a request that has it,
\* needs another or commits next, and a circle of those is aborted.  (That each
\* of them ends, under the lock queue's fairness, is checked by TLC.)
THEOREM SomeoneProceeds == ASSUME Day # {} PROVE BookingsSpec => []NeverStuck
<1>1. BookingsInv => NeverStuck
  BY InvNeverStuck
<1> QED BY <1>1, BookingsInvHolds, PTL
=============================================================================
