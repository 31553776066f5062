----------------------------- MODULE Availability -----------------------------
(***************************************************************************)
(* A client on the public schedule page: compute_availability lists the    *)
(* free slots of one employee on one day, the client picks one, and        *)
(* create_booking takes it.  Both ask _has_capacity, query by query, each  *)
(* query seeing what is committed at its moment.                           *)
(*                                                                         *)
(* Everyone else who books, moves or cancels is the Calendar, which        *)
(* AppointmentService implements, and staff edit hours (EmployeeHours),    *)
(* rooms, the service and the employee meanwhile.                          *)
(*                                                                         *)
(* Times are minutes scaled down: wall-clock times of the day on the       *)
(* company's clock, and instants.  The two agree until the clock is        *)
(* changed, and differ by the change from then on.                         *)
(***************************************************************************)
EXTENDS EmployeeHours, Integers

CONSTANTS
  Appts, Employees, Rooms, NoRoom, Free,   \* those of Calendar
  Self,        \* the employee the page is about
  Durations,   \* Service.duration_minutes values
  Step,        \* _SLOT_STEP_MINUTES
  Zones,       \* the day's clock changes: from wall time at, instants are by later
  Nows,        \* when the page asks
  Others,      \* the slots others may take
  MaxChanges   \* bound: changes others make

VARIABLES
  booked,     \* the agenda: appointment -> the slot it holds, or Free
  rooms,      \* the active rooms
  service,    \* the service's row, as far as slots depend on it
  employee,   \* the employee's row, as far as slots depend on it
  zone,
  changes,
  pc,         \* where the page's request is
  booking,    \* whether it is the booking, no longer the list
  now,        \* datetime.now() of the list
  asked,      \* the service as the request read it
  listed,     \* the windows the list read
  left,       \* those it has not begun
  window, cursor,   \* the one it is at, and slot_start
  slot,       \* the interval it asks about
  choices, room,    \* rooms it has still to try, and the one it tries
  shown,      \* the slots found free
  offer,      \* the one the client picked
  past        \* history: the worlds since the page asked

world  == <<booked, rooms, service, employee>>
search == <<slot, choices, room>>
grid   == <<left, window, cursor>>
local  == <<pc, booking, now, asked, listed, shown, offer>>
vars   == <<hoursVars, world, zone, changes, search, grid, local, past>>

Agenda == INSTANCE Calendar WITH Times <- Int

-----------------------------------------------------------------------------
Service  == [active : BOOLEAN, duration : Durations, needsRoom : BOOLEAN]

Employee == [active : BOOLEAN, offers : BOOLEAN]

Interval == [start : Int, end : Int]

World == [booked : [Appts -> Agenda!Slot \cup {Free}], rooms : SUBSET Rooms,
          service : Service, employee : Employee]

Present == [booked |-> booked, rooms |-> rooms, service |-> service, employee |-> employee]

Steps == {"idle", "slot", "employee", "rooms", "again", "room", "shown",
          "check", "checkRoom", "insert", "booked", "refused"}

NoWindow == [owner |-> Original, from |-> 0, to |-> 0]

NoSlot == [start |-> 0, end |-> 0]

ASSUME GridAssumption ==
  /\ Step \in Nat \ {0}
  /\ Durations \subseteq Nat \ {0}
  /\ Zones \subseteq [at : Nat, by : Int]
  /\ Nows \subseteq Int

ASSUME AgendaAssumption ==
  /\ Self \in Employees
  /\ NoRoom \notin Rooms
  /\ Free \notin Agenda!Slot
  /\ Others \subseteq Agenda!Slot

PageTypeOK ==
  /\ Present  \in World
  /\ zone     \in Zones
  /\ changes  \in Nat
  /\ pc       \in Steps
  /\ booking  \in BOOLEAN
  /\ now      \in Int
  /\ asked    \in Service
  /\ listed   \subseteq Window
  /\ left     \subseteq listed
  /\ window   \in listed \cup {NoWindow}
  /\ cursor   \in Nat
  /\ slot     \in Interval
  /\ choices  \subseteq Rooms
  /\ room     \in Rooms \cup {NoRoom}
  /\ shown    \subseteq Interval
  /\ offer    \in Interval
  /\ past     \subseteq World

TypeOK == HoursTypeOK /\ PageTypeOK

(* A day whose appointments, windows and clock may be any. *)
Init ==
  /\ HoursInit
  /\ booked \in [Appts -> Others \cup {Free}]
  /\ \A a, b \in Appts : a # b /\ booked[a] # Free /\ booked[b] # Free
                           => ~Agenda!Compete(booked[a], booked[b])
  /\ rooms = Rooms
  /\ service \in {v \in Service : v.active}
  /\ employee = [active |-> TRUE, offers |-> TRUE]
  /\ zone \in Zones
  /\ changes = 0
  /\ pc = "idle" /\ booking = FALSE /\ now = 0 /\ asked = service
  /\ listed = {} /\ left = {} /\ window = NoWindow /\ cursor = 0
  /\ slot = NoSlot /\ choices = {} /\ room = NoRoom
  /\ shown = {} /\ offer = NoSlot
  /\ past = {}

-----------------------------------------------------------------------------
(* compute_availability                                                    *)

(* astimezone(utc) with fold=0: the offset before the change holds for the  *)
(* times a change skips and for the first of those it repeats.              *)
ToUtc(wall) == IF wall < zone.at THEN wall ELSE wall + zone.by

Bookable == service.active /\ employee.active /\ employee.offers

(* Variant: each window is read again when its turn comes. *)
BeginReread(ws) ==
  IF ws = {} THEN left' = ws /\ pc' = "shown" /\ UNCHANGED <<window, cursor>>
  ELSE \E v \in ws, w \in windows :
         w.from = v.from /\ window' = w /\ cursor' = w.from /\ left' = ws \ {v} /\ pc' = "slot"

(* for window in windows *)
BeginWindow(ws) ==
  IF ws = {} THEN left' = ws /\ pc' = "shown" /\ UNCHANGED <<window, cursor>>
  ELSE \E w \in ws : window' = w /\ cursor' = w.from /\ left' = ws \ {w} /\ pc' = "slot"

(* The service, the employee and its windows are read, and the time taken.  *)
Ask ==
  /\ pc = "idle"
  /\ Bookable
  /\ asked' = service
  /\ now' \in Nows
  /\ listed' = windows
  /\ BeginWindow(windows)
  /\ past' = {Present}
  /\ UNCHANGED <<hoursVars, world, zone, changes, search, booking, shown, offer>>

(* Variant: a slot may not end with its window. *)
FitsInside == cursor + asked.duration < window.to

(* Variant: a slot may run past the end of its window. *)
BeginsInTime == cursor < window.to

(* slot_start + duration <= window_end, on the wall clock. *)
Fits == cursor + asked.duration <= window.to

NextSlot == cursor' = cursor + Step

SkipPassed ==
  /\ pc = "slot" /\ Fits
  /\ ToUtc(cursor) <= now
  /\ NextSlot
  /\ UNCHANGED <<hoursVars, world, zone, changes, search, left, window, local, past>>

TrySlot ==
  /\ pc = "slot" /\ Fits
  /\ ToUtc(cursor) > now
  /\ slot' = [start |-> ToUtc(cursor), end |-> ToUtc(cursor + asked.duration)]
  /\ pc' = "employee"
  /\ UNCHANGED <<hoursVars, world, zone, changes, choices, room, grid, booking, now, asked, listed,
                 shown, offer, past>>

NextWindow ==
  /\ pc = "slot" /\ ~Fits
  /\ BeginWindow(left)
  /\ UNCHANGED <<hoursVars, world, zone, changes, search, booking, now, asked, listed, shown, offer, past>>

-----------------------------------------------------------------------------
(* has_conflict and _has_capacity                                          *)

(* Variant: only appointments that begin inside the interval count. *)
BeginsInside(s) == slot.start <= s.start /\ s.start < slot.end

(* Variant: an appointment that ends when the slot begins counts. *)
Touches(s) == s.start <= slot.end /\ s.end >= slot.start

(* starts_at < ends_at AND ends_at > starts_at, of a row not cancelled. *)
Occupies(s) == s.start < slot.end /\ s.end > slot.start

EmployeeBusy == \E a \in Appts : booked[a] # Free /\ booked[a].employee = Self /\ Occupies(booked[a])

RoomBusy == \E a \in Appts : booked[a] # Free /\ booked[a].room = room /\ Occupies(booked[a])

(* _has_capacity returns False: the next slot, or a ConflictError. *)
NoCapacity ==
  IF booking THEN pc' = "refused" /\ UNCHANGED cursor
             ELSE pc' = "slot" /\ NextSlot

(* It returns True, and the room. *)
Capacity(r) ==
  /\ room' = r
  /\ IF booking THEN pc' = "check" /\ UNCHANGED <<cursor, shown>>
                ELSE pc' = "slot" /\ NextSlot /\ shown' = shown \cup {slot}

CheckEmployee ==
  /\ pc = "employee"
  /\ \/ EmployeeBusy /\ NoCapacity /\ UNCHANGED <<room, shown>>
     \/ ~EmployeeBusy /\ ~asked.needsRoom /\ Capacity(NoRoom)
     \/ ~EmployeeBusy /\ asked.needsRoom /\ pc' = "rooms" /\ UNCHANGED <<cursor, room, shown>>
  /\ UNCHANGED <<hoursVars, world, zone, changes, slot, choices, left, window, booking, now, asked,
                 listed, offer, past>>

(* Variant: the first room only. *)
FirstRoom(rs) ==
  IF rs = {} THEN NoCapacity /\ choices' = rs /\ UNCHANGED room
  ELSE \E r \in rs : room' = r /\ choices' = {} /\ pc' = "again" /\ UNCHANGED cursor

(* for room in rooms, in no particular order *)
NextRoom(rs) ==
  IF rs = {} THEN NoCapacity /\ choices' = rs /\ UNCHANGED room
  ELSE \E r \in rs : room' = r /\ choices' = rs \ {r} /\ pc' = "again" /\ UNCHANGED cursor

ListRooms ==
  /\ pc = "rooms"
  /\ NextRoom(rooms)
  /\ UNCHANGED <<hoursVars, world, zone, changes, slot, left, window, booking, now, asked, listed,
                 shown, offer, past>>

(* has_conflict with the room asks for the employee once more. *)
CheckAgain ==
  /\ pc = "again"
  /\ \/ EmployeeBusy /\ NextRoom(choices)
     \/ ~EmployeeBusy /\ pc' = "room" /\ UNCHANGED <<cursor, choices, room>>
  /\ UNCHANGED <<hoursVars, world, zone, changes, slot, left, window, booking, now, asked, listed,
                 shown, offer, past>>

CheckRoom ==
  /\ pc = "room"
  /\ \/ RoomBusy /\ NextRoom(choices) /\ UNCHANGED shown
     \/ ~RoomBusy /\ Capacity(room) /\ UNCHANGED choices
  /\ UNCHANGED <<hoursVars, world, zone, changes, slot, left, window, booking, now, asked, listed,
                 offer, past>>

-----------------------------------------------------------------------------
(* create_booking and create_appointment                                   *)

(* The client picks a slot; the service and the employee are read again,    *)
(* the end is the start plus the duration, and the hours are not looked at. *)
Book ==
  /\ pc = "shown"
  /\ \E s \in shown :
       /\ offer' = s
       /\ slot' = [start |-> s.start, end |-> s.start + service.duration]
  /\ booking' = TRUE
  /\ asked' = service
  /\ pc' = IF Bookable THEN "employee" ELSE "refused"
  /\ UNCHANGED <<hoursVars, world, zone, changes, choices, room, grid, now, listed, shown, past>>

CheckSlot ==
  /\ pc = "check"
  /\ pc' = IF EmployeeBusy THEN "refused" ELSE IF room = NoRoom THEN "insert" ELSE "checkRoom"
  /\ UNCHANGED <<hoursVars, world, zone, changes, search, grid, booking, now, asked, listed, shown,
                 offer, past>>

CheckSlotRoom ==
  /\ pc = "checkRoom"
  /\ pc' = IF RoomBusy THEN "refused" ELSE "insert"
  /\ UNCHANGED <<hoursVars, world, zone, changes, search, grid, booking, now, asked, listed, shown,
                 offer, past>>

Wanted == [employee |-> Self, room |-> room, start |-> slot.start, end |-> slot.end]

(* The exclusion constraints decide. *)
Insert ==
  /\ pc = "insert"
  /\ \E a \in Appts :
       /\ booked[a] = Free
       /\ IF Agenda!Available(a, Wanted)
          THEN Agenda!Take(a, Wanted) /\ pc' = "booked"
          ELSE UNCHANGED booked /\ pc' = "refused"
  /\ UNCHANGED <<hoursVars, rooms, service, employee, zone, changes, search, grid, booking, now, asked,
                 listed, shown, offer, past>>

-----------------------------------------------------------------------------
(* Everyone else                                                           *)

Change ==
  /\ changes < MaxChanges
  /\ changes' = changes + 1
  /\ past' = IF pc = "idle" THEN past ELSE past \cup {Present'}
  /\ UNCHANGED <<hoursVars, zone, search, grid, local>>

OthersBook ==
  /\ \E a \in Appts, s \in Others : Agenda!Take(a, s)
  /\ UNCHANGED <<rooms, service, employee>>
  /\ Change

OthersCancel ==
  /\ \E a \in Appts : booked[a] # Free /\ Agenda!GiveUp(a)
  /\ UNCHANGED <<rooms, service, employee>>
  /\ Change

EditRoom ==
  /\ \E r \in Rooms : rooms' \in {rooms \cup {r}, rooms \ {r}}
  /\ rooms' # rooms
  /\ UNCHANGED <<booked, service, employee>>
  /\ Change

EditService ==
  /\ service' \in Service \ {service}
  /\ UNCHANGED <<booked, rooms, employee>>
  /\ Change

EditEmployee ==
  /\ employee' \in Employee \ {employee}
  /\ UNCHANGED <<booked, rooms, service>>
  /\ Change

Page ==
  \/ Ask \/ SkipPassed \/ TrySlot \/ NextWindow
  \/ CheckEmployee \/ ListRooms \/ CheckAgain \/ CheckRoom
  \/ Book \/ CheckSlot \/ CheckSlotRoom \/ Insert

Else == OthersBook \/ OthersCancel \/ EditRoom \/ EditService \/ EditEmployee

ReplaceHours ==
  /\ \/ \E r \in Replacements : StartReplace(r) /\ changes < MaxChanges /\ changes' = changes + 1
     \/ HoursStep /\ UNCHANGED changes
  /\ UNCHANGED <<world, zone, search, grid, local, past>>

Next == Page \/ Else \/ ReplaceHours

Spec == Init /\ [][Next]_vars

-----------------------------------------------------------------------------
(* Properties                                                              *)

(* In a world, nobody has the employee or the room in an interval. *)
Meets(s, i) == s.start < i.end /\ i.start < s.end

EmployeeFree(w, i) ==
  \A a \in Appts : w.booked[a] # Free /\ w.booked[a].employee = Self => ~Meets(w.booked[a], i)

RoomFree(w, r, i) ==
  \A a \in Appts : w.booked[a] # Free /\ w.booked[a].room = r => ~Meets(w.booked[a], i)

(* A slot is shown only if, since the page asked, the employee was free for *)
(* it at some moment and, if it needs one, an active room was at some       *)
(* moment: however others book and cancel between the queries.              *)
ShownWasFree ==
  ~booking => \A i \in shown :
    /\ i.start > now
    /\ \E w \in past : EmployeeFree(w, i)
    /\ asked.needsRoom => \E r \in Rooms : /\ \E w \in past : r \in w.rooms
                                           /\ \E w \in past : RoomFree(w, r, i)

(* Every multiple of the step from the start of a window that was read and  *)
(* that leaves time for the service.                                        *)
OnGrid(w, c) == \E k \in 0 .. c : c = w.from + k * Step

Candidates(w) == {c \in 0 .. w.to : OnGrid(w, c) /\ c + asked.duration <= w.to}

SlotAt(c) == [start |-> ToUtc(c), end |-> ToUtc(c + asked.duration)]

(* The list is done with this candidate. *)
Passed(w, c) == w \notin left /\ (pc = "shown" \/ w # window \/ c < cursor)

AlwaysFree(i) ==
  /\ \A w \in past : EmployeeFree(w, i)
  /\ asked.needsRoom => \E r \in Rooms : \A w \in past : r \in w.rooms /\ RoomFree(w, r, i)

(* "The same check": no slot that was free the whole time, with one room    *)
(* that was, is left out of the list.                                       *)
NothingFreeMissed ==
  pc # "idle" /\ ~booking => \A w \in listed : \A c \in Candidates(w) :
    Passed(w, c) /\ ToUtc(c) > now /\ AlwaysFree(SlotAt(c)) => SlotAt(c) \in shown

(* A slot shown lies whole within one window of the hours the page read,    *)
(* and on that window's grid, whatever becomes of the hours, the service    *)
(* and the agenda while the list is made.                                   *)
ShownInHours ==
  ~booking => \A i \in shown : \E w \in listed : \E c \in Candidates(w) :
    ToUtc(c) > now /\ i = SlotAt(c)

(* Whether compute_availability should list a slot in a world.              *)
FreeIn(w, i) ==
  /\ EmployeeFree(w, i)
  /\ asked.needsRoom => \E r \in w.rooms : RoomFree(w, r, i)

(* A list made while nothing was committed is what it is meant to be: every *)
(* future slot of the grid of every window, if it is free, and no other.    *)
ListExact ==
  pc = "shown" /\ past = {Present} =>
    shown = UNION {{SlotAt(c) : c \in {d \in Candidates(w) :
                                       ToUtc(d) > now /\ FreeIn(Present, SlotAt(d))}} : w \in listed}

(* "A slot shown as free here can never disagree with the write path's own  *)
(* judgment of it": when nothing was committed since the page asked, the    *)
(* booking of a slot it showed is not refused - unless the clock changes    *)
(* within the slot, where the list asks for another end than the booking.   *)
RefusedForCause ==
  booking /\ pc = "refused" /\ past = {Present} => offer.end # offer.start + asked.duration

-----------------------------------------------------------------------------
(* The inductive invariant                                                 *)

(* What the DELETE of a replacement saw is still all there is of those      *)
(* before it.                                                               *)
ReplacementKnown(r) ==
  /\ before[r] \subseteq Committed
  /\ step[r] = "deleting" => \A w \in windows : w.owner \in before[r] => w \in target[r]
  /\ step[r] = "deleted"  => \A w \in windows : w.owner \in before[r] => w \in gone[r]

HoursInv ==
  /\ HoursTypeOK
  /\ \A r \in Replacements : ReplacementKnown(r)
  /\ ReplacedGone

Trying == {"rooms", "again", "room"}

(* The world now is one of those since the page asked, and one of them is   *)
(* the world it read.                                                       *)
WorldKnown ==
  pc # "idle" =>
    /\ pc # "booked" => Present \in past
    /\ \E w \in past : w.service = asked
    /\ ~booking => \E w \in past : w.service.active /\ w.employee.active /\ w.employee.offers

(* The list's place on the grid. *)
GridKnown ==
  /\ window \notin left
  /\ pc = "idle" => listed = {} /\ shown = {}
  /\ pc = "shown" => left = {}
  /\ pc \in {"slot", "employee"} \cup Trying /\ ~booking => window \in listed /\ OnGrid(window, cursor)
  /\ pc \in {"employee"} \cup Trying /\ ~booking =>
       /\ Fits
       /\ ToUtc(cursor) > now
       /\ slot = SlotAt(cursor)
  /\ booking => pc \notin {"idle", "slot", "shown"}
  /\ pc \in {"check", "checkRoom", "insert", "booked", "refused"} => booking

(* Which rooms the search has still before it. *)
RoomsKnown ==
  /\ pc \in Trying => asked.needsRoom
  /\ pc \in Trying /\ ~booking => \E w \in past : EmployeeFree(w, slot)
  /\ pc \in {"again", "room"} =>
       /\ room \in Rooms
       /\ \A r \in choices \cup {room} : \E w \in past : r \in w.rooms
       /\ \A r \in Rooms :
            (\A w \in past : r \in w.rooms /\ RoomFree(w, r, slot) /\ EmployeeFree(w, slot))
              => r \in choices \cup {room}
  /\ pc = "checkRoom" => room # NoRoom

(* Nothing changed since the page asked, nor does the clock in the slot:    *)
(* the booking finds what the list found.                                   *)
Undisturbed == booking /\ pc # "booked" /\ past = {Present} /\ offer.end = offer.start + asked.duration

BookingKnown ==
  Undisturbed =>
    /\ pc # "refused"
    /\ slot = offer
    /\ AlwaysFree(slot)
    /\ pc \in {"check", "checkRoom", "insert"} /\ room # NoRoom => RoomFree(Present, room, slot)

PageInv ==
  /\ PageTypeOK
  /\ WorldKnown
  /\ GridKnown
  /\ RoomsKnown
  /\ BookingKnown
  /\ ShownWasFree
  /\ NothingFreeMissed
  /\ ShownInHours

IInv == HoursInv /\ PageInv
=============================================================================
