-------------------------- MODULE AvailabilityProofs --------------------------
(***************************************************************************)
(* Proofs about EmployeeHours and Availability, for any employees, rooms,  *)
(* appointments, windows, durations, clock changes and changes by others.  *)
(*                                                                         *)
(* ReplacedGone rests on what the DELETE of a replacement saw              *)
(* (ReplacementKnown).  The properties of the page are statements about    *)
(* past, the worlds since it asked: past only grows, so what was free at   *)
(* some moment stays so, and what was free at every moment was free when   *)
(* the query came (RoomsKnown, for the rooms the search has passed).       *)
(***************************************************************************)
EXTENDS Availability, TLAPS

-----------------------------------------------------------------------------
(* The hours                                                               *)

LEMMA RowsType ==
  ASSUME NEW owner \in Owners, NEW body \in Hours \cup {{}}
  PROVE  /\ Rows(owner, body) \subseteq Window
         /\ \A w \in Rows(owner, body) : w.owner = owner
  BY HoursAssumption DEF Rows, Window

LEMMA HoursInitKnown ==
  ASSUME HoursInit
  PROVE  HoursInv
<1>1. PICK body \in Hours : windows = Rows(Original, body)
  BY DEF HoursInit
<1>2. windows \subseteq Window
  BY <1>1, RowsType DEF Owners
<1>3. HoursTypeOK
  BY <1>2 DEF HoursInit, HoursTypeOK
<1>4. (\A r \in Replacements : ReplacementKnown(r)) /\ ReplacedGone
  BY DEF HoursInit, ReplacementKnown, ReplacedGone
<1> QED
  BY <1>3, <1>4 DEF HoursInv

LEMMA StartReplaceKnown ==
  ASSUME HoursInv, NEW r \in Replacements, StartReplace(r)
  PROVE  HoursInv'
<1>1. HoursTypeOK
  BY DEF HoursInv
<1>2. PICK body \in Hours : /\ hours' = [hours EXCEPT ![r] = body]
                            /\ target' = [target EXCEPT ![r] = windows]
  BY DEF StartReplace, Replaced
<1>3. Committed' = Committed /\ Committed \subseteq Owners
  BY <1>1 DEF StartReplace, HoursTypeOK, Committed, Owners
<1>4. HoursTypeOK'
  BY <1>1, <1>2, <1>3 DEF StartReplace, HoursTypeOK
<1>5. ASSUME NEW q \in Replacements
      PROVE  ReplacementKnown(q)'
  BY <1>1, <1>2, <1>3 DEF StartReplace, HoursTypeOK, HoursInv, ReplacementKnown
<1>6. ReplacedGone'
  BY <1>1, <1>2 DEF StartReplace, HoursTypeOK, HoursInv, ReplacedGone
<1> QED
  BY <1>4, <1>5, <1>6 DEF HoursInv

LEMMA DeleteWindowsKnown ==
  ASSUME HoursInv, NEW r \in Replacements, DeleteWindows(r)
  PROVE  HoursInv'
<1>1. HoursTypeOK
  BY DEF HoursInv
<1>2. Committed' = Committed
  BY <1>1 DEF DeleteWindows, HoursTypeOK, Committed
<1>3. HoursTypeOK'
  BY <1>1 DEF DeleteWindows, HoursTypeOK
<1>4. ASSUME NEW q \in Replacements
      PROVE  ReplacementKnown(q)'
  BY <1>1, <1>2 DEF DeleteWindows, HoursTypeOK, HoursInv, ReplacementKnown
<1>5. ReplacedGone'
  BY <1>1 DEF DeleteWindows, HoursTypeOK, HoursInv, ReplacedGone
<1> QED
  BY <1>3, <1>4, <1>5 DEF HoursInv

(* The new rows belong to nobody who was committed when another looked. *)
LEMMA CommitReplaceKnown ==
  ASSUME HoursInv, NEW r \in Replacements, CommitReplace(r)
  PROVE  HoursInv'
<1>1. HoursTypeOK
  BY DEF HoursInv
<1>2. /\ Rows(r, hours[r]) \subseteq Window
      /\ \A w \in Rows(r, hours[r]) : w.owner = r
  BY <1>1, RowsType DEF HoursTypeOK, Owners
<1>3. r \notin Committed /\ Committed \subseteq Committed'
  BY <1>1, HoursAssumption DEF CommitReplace, HoursTypeOK, Committed
<1>4. HoursTypeOK'
  BY <1>1, <1>2 DEF CommitReplace, EndReplace, HoursTypeOK
<1>5. ASSUME NEW q \in Replacements
      PROVE  r \notin before[q]
  BY <1>3 DEF HoursInv, ReplacementKnown
<1>6. ASSUME NEW w \in windows', w \notin windows \ gone[r]
      PROVE  w.owner = r
  BY <1>2, <1>6 DEF CommitReplace
<1>7. ASSUME NEW q \in Replacements
      PROVE  ReplacementKnown(q)'
  <2>1. before'[q] \subseteq Committed'
    BY <1>3 DEF CommitReplace, HoursInv, ReplacementKnown
  <2>2. ASSUME NEW w \in windows', w.owner \in before[q]
        PROVE  w \in windows
    BY <1>5, <1>6, <2>2
  <2>3. ASSUME q # r
        PROVE  step'[q] = step[q] /\ target'[q] = target[q] /\ gone'[q] = gone[q]
    BY <2>3, <1>1 DEF CommitReplace, EndReplace, HoursTypeOK
  <2>4. step'[r] = "committed" /\ before' = before
    BY <1>1 DEF CommitReplace, HoursTypeOK
  <2> QED
    BY <2>1, <2>2, <2>3, <2>4 DEF HoursInv, ReplacementKnown
<1>8. ReplacedGone'
  <2> SUFFICES ASSUME NEW q \in Replacements, step'[q] = "committed", NEW w \in windows', w.owner \in before[q]
               PROVE  FALSE
    BY DEF ReplacedGone, CommitReplace
  <2>1. w \in windows /\ w \notin gone[r]
    BY <1>5, <1>6
  <2>2. CASE q = r
    BY <2>1, <2>2 DEF HoursInv, ReplacementKnown, CommitReplace
  <2>3. CASE q # r
    BY <2>1, <2>3, <1>1 DEF HoursInv, ReplacedGone, CommitReplace, HoursTypeOK
  <2> QED
    BY <2>2, <2>3
<1> QED
  BY <1>4, <1>7, <1>8 DEF HoursInv

LEMMA LoseReplaceKnown ==
  ASSUME HoursInv, NEW r \in Replacements, LoseReplace(r)
  PROVE  HoursInv'
<1>1. HoursTypeOK
  BY DEF HoursInv
<1>2. Committed' = Committed
  BY <1>1 DEF LoseReplace, HoursTypeOK, Committed
<1>3. HoursTypeOK'
  BY <1>1 DEF LoseReplace, EndReplace, HoursTypeOK
<1>4. ASSUME NEW q \in Replacements
      PROVE  ReplacementKnown(q)'
  BY <1>1, <1>2 DEF LoseReplace, EndReplace, HoursTypeOK, HoursInv, ReplacementKnown
<1>5. ReplacedGone'
  BY <1>1 DEF LoseReplace, HoursTypeOK, HoursInv, ReplacedGone
<1> QED
  BY <1>3, <1>4, <1>5 DEF HoursInv

LEMMA HoursUntouched ==
  ASSUME HoursInv, UNCHANGED hoursVars
  PROVE  HoursInv'
  BY DEF HoursInv, hoursVars, HoursTypeOK, ReplacementKnown, ReplacedGone, Committed

-----------------------------------------------------------------------------
(* The grid                                                                *)

LEMMA NextOnGrid ==
  ASSUME NEW w \in Window, NEW c \in Nat, OnGrid(w, c)
  PROVE  OnGrid(w, c + Step)
<1>1. PICK k \in 0 .. c : c = w.from + k * Step
  BY DEF OnGrid
<1>2. w.from \in Nat /\ Step \in Nat /\ Step > 0
  BY GridAssumption DEF Window
<1>3. k + 1 \in 0 .. c + Step /\ c + Step = w.from + (k + 1) * Step
  BY <1>1, <1>2
<1> QED
  BY <1>3 DEF OnGrid

(* Between two neighbours of the grid there is no other. *)
LEMMA GridGap ==
  ASSUME NEW w \in Window, NEW c \in Nat, NEW d \in Nat, OnGrid(w, c), OnGrid(w, d), d < c + Step
  PROVE  d <= c
<1>1. PICK k \in 0 .. c : c = w.from + k * Step
  BY DEF OnGrid
<1>2. PICK j \in 0 .. d : d = w.from + j * Step
  BY DEF OnGrid
<1>3. w.from \in Nat /\ Step \in Nat /\ Step > 0
  BY GridAssumption DEF Window
<1>4. j * Step < (k + 1) * Step
  BY <1>1, <1>2, <1>3
<1>5. j <= k
  <2> SUFFICES ASSUME j > k
               PROVE  FALSE
    OBVIOUS
  <2>1. PICK e \in Nat : j = k + 1 + e
    <3>1. j - (k + 1) \in Nat /\ j = k + 1 + (j - (k + 1))
      OBVIOUS
    <3> QED
      BY <3>1
  <2>2. j * Step = (k + 1) * Step + e * Step /\ e * Step >= 0
    BY <2>1, <1>3
  <2> QED
    BY <2>2, <1>4, <1>3
<1>6. j * Step <= k * Step
  <2>1. PICK e \in Nat : k = j + e
    <3>1. k - j \in Nat /\ k = j + (k - j)
      BY <1>5
    <3> QED
      BY <3>1
  <2>2. k * Step = j * Step + e * Step /\ e * Step >= 0
    BY <2>1, <1>3
  <2> QED
    BY <2>2, <1>3
<1> QED
  BY <1>1, <1>2, <1>3, <1>6

LEMMA FirstOnGrid ==
  ASSUME NEW w \in Window
  PROVE  OnGrid(w, w.from)
<1>1. w.from \in Nat /\ Step \in Nat
  BY GridAssumption DEF Window
<1>2. 0 \in 0 .. w.from /\ w.from = w.from + 0 * Step
  BY <1>1
<1> QED
  BY <1>2 DEF OnGrid

(* No candidate comes before the start of its window. *)
LEMMA NoneBefore ==
  ASSUME NEW w \in Window, NEW c \in Nat, OnGrid(w, c)
  PROVE  w.from <= c
<1>1. PICK k \in 0 .. c : c = w.from + k * Step
  BY DEF OnGrid
<1>2. w.from \in Nat /\ Step \in Nat /\ k \in Nat
  BY GridAssumption DEF Window
<1>3. k * Step >= 0
  BY <1>2
<1> QED
  BY <1>1, <1>2, <1>3

LEMMA ToUtcType ==
  ASSUME zone \in Zones, NEW c \in Nat
  PROVE  ToUtc(c) \in Int
  BY GridAssumption DEF ToUtc

LEMMA SlotType ==
  ASSUME zone \in Zones, asked \in Service, NEW c \in Nat
  PROVE  SlotAt(c) \in Interval
<1>1. asked.duration \in Nat
  BY GridAssumption DEF Service
<1>2. c + asked.duration \in Nat
  BY <1>1
<1> QED
  BY <1>2, ToUtcType DEF SlotAt, Interval

-----------------------------------------------------------------------------
(* The queries                                                             *)

LEMMA EmployeeQuery == EmployeeBusy <=> ~EmployeeFree(Present, slot)
  BY DEF EmployeeBusy, EmployeeFree, Occupies, Meets, Present

LEMMA RoomQuery == RoomBusy <=> ~RoomFree(Present, room, slot)
  BY DEF RoomBusy, RoomFree, Occupies, Meets, Present

(* What was free at some moment stays so, and what was always free was so.  *)
LEMMA PastGrows ==
  ASSUME past \subseteq past', asked' = asked, NEW i
  PROVE  AlwaysFree(i)' => AlwaysFree(i)
  BY DEF AlwaysFree, EmployeeFree, RoomFree, Meets

-----------------------------------------------------------------------------
(* Parts of the invariant under steps that leave them alone                *)

LEMMA NothingMissedKept ==
  ASSUME NothingFreeMissed, pc # "idle", past \subseteq past', shown \subseteq shown',
         pc' # "shown" \/ pc = "shown", booking \/ ~booking', booking' \/ ~booking,
         UNCHANGED <<zone, now, asked, listed, left, window, cursor>>
  PROVE  NothingFreeMissed'
<1> SUFFICES ASSUME ~booking, NEW w \in listed, NEW c \in Candidates(w),
                    Passed(w, c)', ToUtc(c) > now, AlwaysFree(SlotAt(c))'
             PROVE  SlotAt(c) \in shown'
  BY DEF NothingFreeMissed, Candidates, OnGrid, SlotAt, ToUtc
<1>1. Passed(w, c)
  BY DEF Passed
<1>2. SlotAt(c)' = SlotAt(c)
  BY DEF SlotAt, ToUtc
<1>3. AlwaysFree(SlotAt(c))
  BY PastGrows, <1>2
<1> QED
  BY <1>1, <1>3 DEF NothingFreeMissed

(* The list is done with the slot at the cursor. *)
LEMMA SlotJudged ==
  ASSUME PageInv, ~booking, pc \in {"slot", "employee"} \cup Trying,
         ToUtc(cursor) > now /\ AlwaysFree(SlotAt(cursor)) => SlotAt(cursor) \in shown',
         shown \subseteq shown', pc' = "slot", cursor' = cursor + Step,
         UNCHANGED <<zone, booking, now, asked, listed, left, window, past>>
  PROVE  /\ NothingFreeMissed'
         /\ OnGrid(window, cursor)'
<1>1. window \in Window /\ cursor \in Nat /\ listed \subseteq Window /\ OnGrid(window, cursor) /\ NothingFreeMissed
  BY DEF PageInv, PageTypeOK, GridKnown
<1>2. OnGrid(window, cursor)'
  BY <1>1, NextOnGrid DEF OnGrid
<1>3. NothingFreeMissed'
  <2> SUFFICES ASSUME NEW w \in listed, NEW c \in Candidates(w),
                      Passed(w, c)', ToUtc(c) > now, AlwaysFree(SlotAt(c))
               PROVE  SlotAt(c) \in shown'
    BY DEF NothingFreeMissed, Candidates, OnGrid, SlotAt, ToUtc, AlwaysFree, EmployeeFree, RoomFree, Meets
  <2>1. c \in Nat /\ OnGrid(w, c)
    BY <1>1 DEF Candidates, Window
  <2>2. CASE w # window
    BY <2>2, <1>1 DEF Passed, NothingFreeMissed, Trying
  <2>3. CASE w = window /\ c < cursor
    BY <2>3, <1>1 DEF Passed, NothingFreeMissed, Trying
  <2>4. CASE w = window /\ ~(c < cursor)
    <3>1. c < cursor + Step
      BY <2>4 DEF Passed
    <3>2. c <= cursor
      BY <3>1, <2>4, <2>1, <1>1, GridGap
    <3>3. c = cursor
      BY <3>2, <2>4, <2>1, <1>1
    <3> QED
      BY <3>3
  <2> QED
    BY <2>2, <2>3, <2>4
<1> QED
  BY <1>2, <1>3

LEMMA ShownKept ==
  ASSUME ShownWasFree, past \subseteq past', UNCHANGED <<shown, now, asked, booking>>
  PROVE  ShownWasFree'
  BY DEF ShownWasFree, EmployeeFree, RoomFree, Meets

LEMMA InHoursKept ==
  ASSUME ShownInHours, UNCHANGED <<shown, zone, now, asked, listed, booking>>
  PROVE  ShownInHours'
  BY DEF ShownInHours, Candidates, OnGrid, SlotAt, ToUtc

(* The slot asked about is that of a candidate of a window that was read. *)
LEMMA SlotInHours ==
  ASSUME PageInv, ~booking, pc \in {"employee"} \cup Trying, shown' = shown \cup {SlotAt(cursor)},
         UNCHANGED <<zone, now, asked, listed, booking>>
  PROVE  ShownInHours'
<1>1. /\ window \in listed /\ OnGrid(window, cursor) /\ ToUtc(cursor) > now
      /\ cursor + asked.duration <= window.to /\ ShownInHours
  BY DEF PageInv, GridKnown, Fits
<1>2. cursor \in Nat /\ asked.duration \in Nat /\ window.to \in Nat
  BY <1>1, GridAssumption DEF PageInv, PageTypeOK, Service, Window
<1>3. cursor \in Candidates(window)
  BY <1>1, <1>2 DEF Candidates
<1>4. \A i \in shown' : \E w \in listed : \E c \in Candidates(w) : ToUtc(c) > now /\ i = SlotAt(c)
  BY <1>1, <1>3 DEF ShownInHours
<1> QED
  BY <1>4 DEF ShownInHours, Candidates, OnGrid, SlotAt, ToUtc

LEMMA PresentKept ==
  ASSUME UNCHANGED world
  PROVE  Present' = Present
  BY DEF Present, world

-----------------------------------------------------------------------------
(* The outcomes of a search                                                *)

LEMMA NoCapacityKnown ==
  ASSUME PageInv, pc \in {"employee"} \cup Trying, NoCapacity, ~AlwaysFree(slot),
         room' \in Rooms \cup {NoRoom}, choices' \subseteq Rooms,
         UNCHANGED <<world, zone, changes, slot, left, window, booking, now, asked, listed, shown, offer, past>>
  PROVE  PageInv'
<1>0. Present' = Present
  BY PresentKept
<1>1. PageTypeOK /\ cursor + Step \in Nat
  BY GridAssumption DEF PageInv, PageTypeOK
<1>2. PageTypeOK'
  BY <1>0, <1>1 DEF NoCapacity, NextSlot, PageTypeOK, Steps
<1>3. WorldKnown'
  BY <1>0 DEF PageInv, WorldKnown, NoCapacity, Trying
<1>4. ShownWasFree' /\ ShownInHours'
  BY ShownKept, InHoursKept DEF PageInv
<1>5. CASE booking
  <2>1. pc' = "refused" /\ cursor' = cursor
    BY <1>5 DEF NoCapacity
  <2>2. ~Undisturbed'
    <3>1. ~Undisturbed
      BY DEF PageInv, BookingKnown
    <3> QED
      BY <3>1, <1>0, <1>5 DEF Undisturbed, Trying
  <2>3. NothingFreeMissed'
    BY <1>5 DEF NothingFreeMissed
  <2>4. GridKnown'
    BY <2>1, <1>5 DEF PageInv, GridKnown, Trying
  <2> QED
    BY <1>2, <1>3, <1>4, <2>1, <2>2, <2>3, <2>4 DEF PageInv, RoomsKnown, BookingKnown, Trying
<1>6. CASE ~booking
  <2>1. pc' = "slot" /\ cursor' = cursor + Step
    BY <1>6 DEF NoCapacity, NextSlot
  <2>2. slot = SlotAt(cursor)
    BY <1>6 DEF PageInv, GridKnown
  <2>3. NothingFreeMissed' /\ OnGrid(window, cursor)'
    BY <2>1, <2>2, <1>6, SlotJudged
  <2>4. GridKnown'
    BY <2>1, <2>3, <1>6 DEF PageInv, GridKnown, Trying
  <2> QED
    BY <1>2, <1>3, <1>4, <1>6, <2>1, <2>3, <2>4 DEF PageInv, RoomsKnown, BookingKnown, Undisturbed, Trying
<1> QED
  BY <1>5, <1>6

LEMMA CapacityKnown ==
  ASSUME PageInv, pc \in {"employee"} \cup Trying, NEW r \in Rooms \cup {NoRoom}, Capacity(r),
         choices' \subseteq Rooms,
         ~booking => \E w \in past : EmployeeFree(w, slot),
         asked.needsRoom => /\ r \in Rooms
                            /\ \E w \in past : r \in w.rooms
                            /\ \E w \in past : RoomFree(w, r, slot),
         r # NoRoom => RoomFree(Present, r, slot),
         UNCHANGED <<world, zone, changes, slot, left, window, booking, now, asked, listed, offer, past>>
  PROVE  PageInv'
<1>0. Present' = Present
  BY PresentKept
<1>1. PageTypeOK /\ cursor + Step \in Nat
  BY GridAssumption DEF PageInv, PageTypeOK
<1>2. PageTypeOK'
  BY <1>0, <1>1 DEF Capacity, NextSlot, PageTypeOK, Steps
<1>3. WorldKnown'
  BY <1>0 DEF PageInv, WorldKnown, Capacity, Trying
<1>5. CASE booking
  <2>1. pc' = "check" /\ cursor' = cursor /\ shown' = shown /\ room' = r
    BY <1>5 DEF Capacity
  <2>2. BookingKnown'
    <3>1. Undisturbed' => Undisturbed
      BY <1>0, <1>5 DEF Undisturbed, Trying
    <3>2. AlwaysFree(slot)' <=> AlwaysFree(slot)
      BY DEF AlwaysFree, EmployeeFree, RoomFree, Meets
    <3>3. room' # NoRoom => RoomFree(Present, room, slot)'
      BY <2>1, <1>0 DEF RoomFree, Meets
    <3> QED
      BY <2>1, <3>1, <3>2, <3>3 DEF PageInv, BookingKnown
  <2>3. NothingFreeMissed' /\ ShownWasFree' /\ ShownInHours'
    BY <1>5 DEF NothingFreeMissed, ShownWasFree, ShownInHours
  <2>4. GridKnown'
    BY <2>1, <1>5 DEF PageInv, GridKnown, Trying
  <2> QED
    BY <1>2, <1>3, <2>1, <2>2, <2>3, <2>4 DEF PageInv, RoomsKnown, Trying
<1>6. CASE ~booking
  <2>1. pc' = "slot" /\ cursor' = cursor + Step /\ shown' = shown \cup {slot}
    BY <1>6 DEF Capacity, NextSlot
  <2>2. slot = SlotAt(cursor) /\ slot.start > now
    BY <1>6 DEF PageInv, GridKnown, SlotAt
  <2>3. NothingFreeMissed' /\ OnGrid(window, cursor)'
    BY <2>1, <2>2, <1>6, SlotJudged
  <2>4. ShownWasFree'
    BY <2>1, <2>2, <1>6 DEF PageInv, ShownWasFree, EmployeeFree, RoomFree, Meets
  <2>5. GridKnown'
    BY <2>1, <2>3, <1>6 DEF PageInv, GridKnown, Trying
  <2>6. ShownInHours'
    BY <2>1, <2>2, <1>6, SlotInHours
  <2> QED
    BY <1>2, <1>3, <1>6, <2>1, <2>3, <2>4, <2>5, <2>6
    DEF PageInv, RoomsKnown, BookingKnown, Undisturbed, Trying
<1> QED
  BY <1>5, <1>6

LEMMA NextRoomKnown ==
  ASSUME PageInv, pc \in Trying, NEW rs \in SUBSET Rooms, NextRoom(rs),
         \A r \in rs : \E w \in past : r \in w.rooms,
         \A r \in Rooms :
           (\A w \in past : r \in w.rooms /\ RoomFree(w, r, slot) /\ EmployeeFree(w, slot)) => r \in rs,
         UNCHANGED <<world, zone, changes, slot, left, window, booking, now, asked, listed, shown, offer, past>>
  PROVE  PageInv'
<1>0. Present' = Present
  BY PresentKept
<1>1. PageTypeOK /\ asked.needsRoom
  BY DEF PageInv, RoomsKnown
<1>2. CASE rs = {}
  <2>1. ~AlwaysFree(slot)
    BY <1>1, <1>2 DEF AlwaysFree
  <2>2. NoCapacity /\ choices' = {} /\ room' = room
    BY <1>2 DEF NextRoom
  <2> QED
    BY <2>1, <2>2, <1>1, NoCapacityKnown DEF PageTypeOK
<1>3. CASE rs # {}
  <2>1. PICK r \in rs : room' = r /\ choices' = rs \ {r} /\ pc' = "again" /\ cursor' = cursor
    BY <1>3 DEF NextRoom
  <2>2. PageTypeOK'
    BY <2>1, <1>0, <1>1 DEF PageTypeOK, Steps
  <2>3. WorldKnown'
    BY <2>1, <1>0 DEF PageInv, WorldKnown, Trying
  <2>4. GridKnown'
    BY <2>1 DEF PageInv, GridKnown, Trying, Fits, SlotAt, ToUtc, OnGrid
  <2>5. RoomsKnown'
    <3>1. /\ room' \in Rooms
          /\ choices' \cup {room'} = rs
      BY <2>1
    <3>2. ~booking => \E w \in past : EmployeeFree(w, slot)
      BY DEF PageInv, RoomsKnown
    <3> QED
      BY <2>1, <3>1, <3>2, <1>1 DEF RoomsKnown, RoomFree, EmployeeFree, Meets, Trying
  <2>6. BookingKnown'
    <3>1. Undisturbed' => Undisturbed
      BY <1>0 DEF Undisturbed, Trying
    <3>2. AlwaysFree(slot)' <=> AlwaysFree(slot)
      BY DEF AlwaysFree, EmployeeFree, RoomFree, Meets
    <3> QED
      BY <2>1, <3>1, <3>2 DEF PageInv, BookingKnown
  <2>7. NothingFreeMissed'
    BY <2>1, NothingMissedKept DEF PageInv, Trying
  <2>8. ShownWasFree' /\ ShownInHours'
    BY ShownKept, InHoursKept DEF PageInv
  <2> QED
    BY <2>2, <2>3, <2>4, <2>5, <2>6, <2>7, <2>8 DEF PageInv
<1> QED
  BY <1>2, <1>3

-----------------------------------------------------------------------------
(* The initial state and every step                                        *)

LEMMA InitKnown ==
  ASSUME Init
  PROVE  IInv
<1>1. HoursInv
  BY HoursInitKnown DEF Init
<1>2. Present \in World
  <2>1. booked \in [Appts -> Agenda!Slot \cup {Free}]
    BY AgendaAssumption DEF Init
  <2>2. service \in Service /\ employee \in Employee /\ rooms \in SUBSET Rooms
    BY DEF Init, Employee
  <2> QED
    BY <2>1, <2>2 DEF Present, World
<1>3. NoWindow \in Window /\ NoSlot \in Interval
  BY DEF NoWindow, NoSlot, Window, Interval, Owners
<1>4. PageTypeOK
  <2>1. asked \in Service
    BY DEF Init
  <2>2. zone \in Zones /\ changes \in Nat /\ pc \in Steps /\ now \in Int
    BY DEF Init, Steps
  <2>6. booking \in BOOLEAN
    BY DEF Init
  <2>3. listed \subseteq Window /\ left \subseteq listed /\ window \in listed \cup {NoWindow} /\ cursor \in Nat
    BY <1>3 DEF Init
  <2>4. slot \in Interval /\ choices \subseteq Rooms /\ room \in Rooms \cup {NoRoom}
    BY <1>3 DEF Init
  <2>5. shown \subseteq Interval /\ offer \in Interval /\ past \subseteq World
    BY <1>3 DEF Init
  <2> QED
    BY <1>2, <2>1, <2>2, <2>3, <2>4, <2>5, <2>6 DEF PageTypeOK
<1> QED
  BY <1>1, <1>4 DEF Init, IInv, PageInv, WorldKnown, GridKnown, RoomsKnown, BookingKnown, Undisturbed,
                    ShownWasFree, NothingFreeMissed, ShownInHours, Trying

LEMMA BeginKnown ==
  ASSUME NEW ws \in SUBSET Window, BeginWindow(ws), window \in Window, cursor \in Nat, window \notin ws
  PROVE  /\ window' \in Window /\ cursor' \in Nat
         /\ left' \subseteq ws /\ window' \notin left'
         /\ \/ pc' = "shown" /\ ws = {} /\ window' = window
            \/ pc' = "slot" /\ window' \in ws /\ left' = ws \ {window'} /\ cursor' = window'.from
         /\ pc' = "slot" => OnGrid(window', cursor')
<1>1. CASE ws = {}
  BY <1>1 DEF BeginWindow
<1>2. CASE ws # {}
  <2>1. PICK w \in ws : window' = w /\ cursor' = w.from /\ left' = ws \ {w} /\ pc' = "slot"
    BY <1>2 DEF BeginWindow
  <2>2. w.from \in Nat
    BY <2>1 DEF Window
  <2>3. OnGrid(w, w.from)
    BY FirstOnGrid
  <2> QED
    BY <2>1, <2>2, <2>3
<1> QED
  BY <1>1, <1>2

LEMMA AskKnown ==
  ASSUME PageInv, windows \subseteq Window, Ask
  PROVE  PageInv'
<1>0. Present' = Present
  BY PresentKept DEF Ask
<1>1. PageTypeOK /\ ~booking /\ shown = {} /\ listed = {}
  BY DEF PageInv, GridKnown, Ask
<1>2. CASE windows = {}
  <2>1. pc' = "shown" /\ left' = {} /\ window' = window /\ cursor' = cursor /\ listed' = {}
    BY <1>2 DEF Ask, BeginWindow
  <2>2. PageTypeOK'
    <3>1. now' \in Int /\ asked' \in Service
      BY <1>1, GridAssumption DEF Ask, PageTypeOK, World, Present
    <3> QED
      BY <2>1, <3>1, <1>0, <1>1 DEF Ask, search, PageTypeOK, Steps
  <2>3. WorldKnown'
    BY <1>0, <2>1 DEF Ask, WorldKnown, Bookable, Present
  <2>4. NothingFreeMissed' /\ ShownWasFree' /\ ShownInHours'
    BY <2>1, <1>1 DEF Ask, NothingFreeMissed, ShownWasFree, ShownInHours
  <2> QED
    BY <2>1, <2>2, <2>3, <2>4, <1>1 DEF Ask, PageInv, GridKnown, RoomsKnown, BookingKnown, Undisturbed, Trying
<1>3. CASE windows # {}
  <2>1. PICK w \in windows : window' = w /\ cursor' = w.from /\ left' = windows \ {w} /\ pc' = "slot"
    BY <1>3 DEF Ask, BeginWindow
  <2>2. w \in Window /\ w.from \in Nat /\ OnGrid(w, w.from)
    BY <2>1, FirstOnGrid DEF Window
  <2>3. PageTypeOK'
    <3>1. now' \in Int /\ asked' \in Service
      BY <1>1, GridAssumption DEF Ask, PageTypeOK, World, Present
    <3> QED
      BY <2>1, <2>2, <3>1, <1>0, <1>1 DEF Ask, search, PageTypeOK, Steps
  <2>4. WorldKnown'
    BY <1>0, <2>1 DEF Ask, WorldKnown, Bookable, Present
  <2>5. ShownWasFree' /\ ShownInHours'
    BY <1>1 DEF Ask, ShownWasFree, ShownInHours
  <2>6. NothingFreeMissed'
    <3> SUFFICES ASSUME NEW v \in windows, NEW c \in Candidates(v)', Passed(v, c)'
                 PROVE  FALSE
      BY DEF NothingFreeMissed, Ask
    <3>1. v = w /\ c < w.from
      BY <2>1 DEF Passed
    <3>2. c \in Nat /\ OnGrid(v, c)
      BY DEF Candidates, Window, OnGrid
    <3> QED
      BY <3>1, <3>2, <2>2, NoneBefore
  <2> QED
    BY <2>1, <2>2, <2>3, <2>4, <2>5, <2>6, <1>1
    DEF Ask, PageInv, GridKnown, RoomsKnown, BookingKnown, Undisturbed, Trying, OnGrid
<1> QED
  BY <1>2, <1>3

LEMMA SkipPassedKnown ==
  ASSUME PageInv, SkipPassed
  PROVE  PageInv'
<1>0. Present' = Present
  BY PresentKept DEF SkipPassed
<1>1. PageTypeOK /\ ~booking /\ cursor \in Nat /\ cursor + Step \in Nat /\ ToUtc(cursor) \in Int /\ now \in Int
  BY ToUtcType, GridAssumption DEF PageInv, PageTypeOK, GridKnown, SkipPassed
<1>2. cursor' = cursor + Step /\ pc' = "slot"
  BY DEF SkipPassed, NextSlot, local
<1>3. PageTypeOK'
  BY <1>0, <1>1, <1>2 DEF SkipPassed, search, local, PageTypeOK, Steps
<1>4. ~(ToUtc(cursor) > now)
  BY <1>1 DEF SkipPassed
<1>5. NothingFreeMissed' /\ OnGrid(window, cursor)'
  BY <1>1, <1>2, <1>4, SlotJudged DEF SkipPassed, local
<1>6. ShownWasFree' /\ ShownInHours'
  BY ShownKept, InHoursKept DEF SkipPassed, local, PageInv
<1>7. WorldKnown'
  BY <1>0, <1>2 DEF SkipPassed, local, PageInv, WorldKnown
<1> QED
  BY <1>1, <1>2, <1>3, <1>5, <1>6, <1>7
  DEF SkipPassed, local, PageInv, GridKnown, RoomsKnown, BookingKnown, Undisturbed, Trying

LEMMA TrySlotKnown ==
  ASSUME PageInv, TrySlot
  PROVE  PageInv'
<1>0. Present' = Present
  BY PresentKept DEF TrySlot
<1>1. PageTypeOK /\ ~booking /\ pc' = "employee"
  BY DEF PageInv, GridKnown, TrySlot
<1>2. slot' = SlotAt(cursor) /\ SlotAt(cursor) \in Interval
  BY <1>1, SlotType DEF TrySlot, SlotAt, PageTypeOK
<1>3. PageTypeOK'
  BY <1>0, <1>1, <1>2 DEF TrySlot, grid, PageTypeOK, Steps
<1>4. GridKnown'
  BY <1>1, <1>2 DEF TrySlot, grid, PageInv, GridKnown, Trying, SlotAt, ToUtc, Fits, OnGrid
<1>5. NothingFreeMissed'
  BY <1>1, NothingMissedKept DEF TrySlot, grid, PageInv
<1>6. ShownWasFree' /\ ShownInHours'
  BY ShownKept, InHoursKept DEF TrySlot, PageInv
<1>7. WorldKnown'
  BY <1>0, <1>1 DEF TrySlot, PageInv, WorldKnown
<1> QED
  BY <1>1, <1>3, <1>4, <1>5, <1>6, <1>7 DEF TrySlot, PageInv, RoomsKnown, BookingKnown, Undisturbed, Trying

(* The window that is left had no candidate at or after the cursor, and the *)
(* one that is begun has none before its start.                             *)
LEMMA NextWindowKnown ==
  ASSUME PageInv, NextWindow
  PROVE  PageInv'
<1>0. Present' = Present
  BY PresentKept DEF NextWindow
<1>1. /\ PageTypeOK /\ ~booking
      /\ window \in Window /\ cursor \in Nat /\ left \in SUBSET Window /\ left \subseteq listed
      /\ listed \subseteq Window
      /\ window \notin left
      /\ asked.duration \in Nat
  BY GridAssumption DEF PageInv, PageTypeOK, GridKnown, NextWindow, Service
<1>2. /\ window' \in Window /\ cursor' \in Nat
      /\ left' \subseteq left /\ window' \notin left'
      /\ \/ pc' = "shown" /\ left = {} /\ window' = window
         \/ pc' = "slot" /\ window' \in left /\ left' = left \ {window'} /\ cursor' = window'.from
      /\ pc' = "slot" => OnGrid(window', cursor')
  BY <1>1, BeginKnown DEF NextWindow
<1>3. PageTypeOK'
  BY <1>0, <1>1, <1>2 DEF NextWindow, search, PageTypeOK, Steps
<1>4. GridKnown'
  BY <1>1, <1>2 DEF NextWindow, PageInv, GridKnown, Trying, OnGrid
<1>5. NothingFreeMissed'
  <2> SUFFICES ASSUME NEW w \in listed, NEW c \in Candidates(w),
                      Passed(w, c)', ToUtc(c) > now, AlwaysFree(SlotAt(c))
               PROVE  SlotAt(c) \in shown
    <3>1. UNCHANGED <<zone, past, now, asked, listed, shown>>
      BY DEF NextWindow
    <3>2. \A c : AlwaysFree(SlotAt(c))' => AlwaysFree(SlotAt(c))
      BY <3>1 DEF AlwaysFree, EmployeeFree, RoomFree, Meets, SlotAt, ToUtc
    <3> QED
      BY <3>1, <3>2 DEF NothingFreeMissed, Candidates, OnGrid, SlotAt, ToUtc
  <2>1. w \in Window /\ c \in Nat /\ OnGrid(w, c) /\ c + asked.duration <= w.to /\ w.to \in Nat
    BY <1>1 DEF Candidates, Window
  <2>2. CASE w \in left
    <3>1. w = window' /\ c < w.from
      BY <2>2, <1>2 DEF Passed
    <3> QED
      BY <3>1, <2>1, NoneBefore DEF Window
  <2>3. CASE w \notin left
    <3>1. w = window => c < cursor
      BY <2>1, <1>1 DEF NextWindow, Fits
    <3>2. Passed(w, c)
      BY <3>1, <2>3 DEF Passed
    <3> QED
      BY <3>2, <1>1 DEF PageInv, NothingFreeMissed, NextWindow
  <2> QED
    BY <2>2, <2>3
<1>6. ShownWasFree' /\ ShownInHours'
  BY ShownKept, InHoursKept DEF NextWindow, PageInv
<1>7. WorldKnown'
  BY <1>0, <1>2 DEF NextWindow, PageInv, WorldKnown
<1> QED
  BY <1>1, <1>2, <1>3, <1>4, <1>5, <1>6, <1>7
  DEF NextWindow, PageInv, RoomsKnown, BookingKnown, Undisturbed, Trying

LEMMA CheckEmployeeKnown ==
  ASSUME PageInv, CheckEmployee
  PROVE  PageInv'
<1>0. Present' = Present
  BY PresentKept DEF CheckEmployee
<1>1. PageTypeOK /\ Present \in past /\ room \in Rooms \cup {NoRoom} /\ choices \subseteq Rooms
  BY DEF PageInv, PageTypeOK, WorldKnown, CheckEmployee
<1>2. CASE EmployeeBusy
  <2>1. ~AlwaysFree(slot)
    BY <1>1, <1>2, EmployeeQuery DEF AlwaysFree
  <2>2. NoCapacity /\ room' = room /\ choices' = choices
    BY <1>2 DEF CheckEmployee
  <2> QED
    BY <1>1, <1>2, <2>1, <2>2, NoCapacityKnown DEF CheckEmployee
<1>3. CASE ~EmployeeBusy /\ ~asked.needsRoom
  <2>1. EmployeeFree(Present, slot)
    BY <1>3, EmployeeQuery
  <2>2. Capacity(NoRoom) /\ choices' = choices
    BY <1>3 DEF CheckEmployee
  <2> QED
    BY <1>1, <1>3, <2>1, <2>2, CapacityKnown DEF CheckEmployee
<1>4. CASE ~EmployeeBusy /\ asked.needsRoom
  <2>1. EmployeeFree(Present, slot)
    BY <1>4, EmployeeQuery
  <2>2. pc' = "rooms" /\ UNCHANGED <<cursor, room, shown>>
    BY <1>4 DEF CheckEmployee
  <2>3. PageTypeOK'
    BY <1>0, <1>1, <2>2 DEF CheckEmployee, PageTypeOK, Steps
  <2>4. WorldKnown'
    BY <1>0, <2>2 DEF CheckEmployee, PageInv, WorldKnown
  <2>5. GridKnown'
    BY <2>2 DEF CheckEmployee, PageInv, GridKnown, Trying, Fits, SlotAt, ToUtc, OnGrid
  <2>6. RoomsKnown'
    BY <1>1, <1>4, <2>1, <2>2 DEF CheckEmployee, RoomsKnown, Trying, EmployeeFree, Meets
  <2>7. BookingKnown'
    <3>1. Undisturbed' => Undisturbed
      BY <1>0 DEF CheckEmployee, Undisturbed
    <3>2. AlwaysFree(slot)' <=> AlwaysFree(slot)
      BY DEF CheckEmployee, AlwaysFree, EmployeeFree, RoomFree, Meets
    <3> QED
      BY <2>2, <3>1, <3>2 DEF CheckEmployee, PageInv, BookingKnown
  <2>8. NothingFreeMissed'
    BY <2>2, NothingMissedKept DEF CheckEmployee, PageInv
  <2>9. ShownWasFree' /\ ShownInHours'
    BY <2>2, ShownKept, InHoursKept DEF CheckEmployee, PageInv
  <2> QED
    BY <2>3, <2>4, <2>5, <2>6, <2>7, <2>8, <2>9 DEF PageInv
<1> QED
  BY <1>2, <1>3, <1>4

LEMMA ListRoomsKnown ==
  ASSUME PageInv, ListRooms
  PROVE  PageInv'
<1>1. Present \in past /\ rooms \in SUBSET Rooms
  BY DEF PageInv, PageTypeOK, WorldKnown, ListRooms, Present, World
<1>2. \A w \in past : w = Present => w.rooms = rooms
  BY DEF Present
<1>3. \A r \in rooms : \E w \in past : r \in w.rooms
  BY <1>1, <1>2
<1>4. \A r \in Rooms :
        (\A w \in past : r \in w.rooms /\ RoomFree(w, r, slot) /\ EmployeeFree(w, slot)) => r \in rooms
  BY <1>1, <1>2
<1>5. pc \in Trying /\ NextRoom(rooms)
  BY DEF ListRooms, Trying
<1> QED
  BY <1>1, <1>3, <1>4, <1>5, NextRoomKnown DEF ListRooms

LEMMA CheckAgainKnown ==
  ASSUME PageInv, CheckAgain
  PROVE  PageInv'
<1>0. Present' = Present
  BY PresentKept DEF CheckAgain
<1>1. PageTypeOK /\ Present \in past /\ choices \in SUBSET Rooms /\ pc \in Trying
  BY DEF PageInv, PageTypeOK, WorldKnown, CheckAgain, Trying
<1>2. CASE EmployeeBusy
  <2>1. ~EmployeeFree(Present, slot)
    BY <1>2, EmployeeQuery
  <2>2. NextRoom(choices)
    BY <1>2 DEF CheckAgain
  <2>3. \A r \in choices : \E w \in past : r \in w.rooms
    BY DEF PageInv, RoomsKnown, CheckAgain
  <2> QED
    BY <1>1, <2>1, <2>2, <2>3, NextRoomKnown DEF CheckAgain
<1>3. CASE ~EmployeeBusy
  <2>1. pc' = "room" /\ UNCHANGED <<cursor, choices, room>>
    BY <1>3 DEF CheckAgain
  <2>2. PageTypeOK'
    BY <1>0, <1>1, <2>1 DEF CheckAgain, PageTypeOK, Steps
  <2>3. WorldKnown'
    BY <1>0, <2>1 DEF CheckAgain, PageInv, WorldKnown
  <2>4. GridKnown'
    BY <2>1 DEF CheckAgain, PageInv, GridKnown, Trying, Fits, SlotAt, ToUtc, OnGrid
  <2>5. RoomsKnown'
    BY <2>1 DEF CheckAgain, PageInv, RoomsKnown, Trying, EmployeeFree, RoomFree, Meets
  <2>6. BookingKnown'
    <3>1. Undisturbed' => Undisturbed
      BY <1>0 DEF CheckAgain, Undisturbed
    <3>2. AlwaysFree(slot)' <=> AlwaysFree(slot)
      BY DEF CheckAgain, AlwaysFree, EmployeeFree, RoomFree, Meets
    <3> QED
      BY <2>1, <3>1, <3>2 DEF CheckAgain, PageInv, BookingKnown
  <2>7. NothingFreeMissed'
    BY <2>1, NothingMissedKept DEF CheckAgain, PageInv
  <2>8. ShownWasFree' /\ ShownInHours'
    BY ShownKept, InHoursKept DEF CheckAgain, PageInv
  <2> QED
    BY <2>2, <2>3, <2>4, <2>5, <2>6, <2>7, <2>8 DEF PageInv
<1> QED
  BY <1>2, <1>3

LEMMA CheckRoomKnown ==
  ASSUME PageInv, CheckRoom
  PROVE  PageInv'
<1>1. Present \in past /\ choices \in SUBSET Rooms /\ room \in Rooms /\ pc \in Trying /\ asked.needsRoom
  BY DEF PageInv, PageTypeOK, WorldKnown, RoomsKnown, CheckRoom, Trying
<1>2. \A r \in choices \cup {room} : \E w \in past : r \in w.rooms
  BY DEF PageInv, RoomsKnown, CheckRoom
<1>3. CASE RoomBusy
  <2>1. ~RoomFree(Present, room, slot)
    BY <1>3, RoomQuery
  <2>2. NextRoom(choices) /\ shown' = shown
    BY <1>3 DEF CheckRoom
  <2>3. \A r \in Rooms :
          (\A w \in past : r \in w.rooms /\ RoomFree(w, r, slot) /\ EmployeeFree(w, slot)) => r \in choices
    BY <1>1, <2>1 DEF PageInv, RoomsKnown, CheckRoom
  <2> QED
    BY <1>1, <1>2, <2>2, <2>3, NextRoomKnown DEF CheckRoom
<1>4. CASE ~RoomBusy
  <2>1. RoomFree(Present, room, slot)
    BY <1>4, RoomQuery
  <2>2. Capacity(room) /\ choices' = choices
    BY <1>4 DEF CheckRoom
  <2>3. ~booking => \E w \in past : EmployeeFree(w, slot)
    BY <1>1 DEF PageInv, RoomsKnown
  <2> QED
    BY <1>1, <1>2, <2>1, <2>2, <2>3, CapacityKnown DEF CheckRoom
<1> QED
  BY <1>3, <1>4

(* If nothing changed since the page asked, the service and the employee    *)
(* are those it read, and what was free at some moment is free.             *)
LEMMA BookKnown ==
  ASSUME PageInv, Book
  PROVE  PageInv'
<1>0. Present' = Present
  BY PresentKept DEF Book
<1>1. PageTypeOK /\ ~booking /\ Present \in past
  BY DEF PageInv, PageTypeOK, GridKnown, WorldKnown, Book
<1>2. PICK i \in shown : offer' = i /\ slot' = [start |-> i.start, end |-> i.start + service.duration]
  BY DEF Book
<1>3. service \in Service /\ service.duration \in Nat /\ i \in Interval /\ i.start \in Int
  BY <1>1, GridAssumption DEF PageTypeOK, World, Present, Service, Interval
<1>4. booking' /\ asked' = service /\ pc' \in {"employee", "refused"} /\ (pc' = "refused" => ~Bookable)
  BY DEF Book
<1>5. PageTypeOK'
  <2>1. slot' \in Interval /\ offer' \in Interval
    BY <1>2, <1>3 DEF Interval
  <2>2. booking' \in BOOLEAN
    BY DEF Book
  <2>3. pc' \in Steps /\ asked' \in Service
    BY <1>3, <1>4 DEF Steps
  <2> QED
    BY <1>0, <1>1, <2>1, <2>2, <2>3 DEF Book, grid, PageTypeOK
<1>6. WorldKnown'
  BY <1>0, <1>1, <1>4 DEF Book, WorldKnown, Present
<1>7. GridKnown'
  BY <1>1, <1>4 DEF Book, grid, PageInv, GridKnown, Trying
<1>8. RoomsKnown'
  BY <1>4 DEF RoomsKnown, Trying
<1>9. BookingKnown'
  <2> SUFFICES ASSUME past = {Present}, i.end = i.start + service.duration
               PROVE  pc' # "refused" /\ slot' = offer' /\ AlwaysFree(slot)'
    BY <1>0, <1>2, <1>4 DEF BookingKnown, Undisturbed, Book
  <2>1. slot' = offer' /\ slot' = i
    BY <1>2, <1>3 DEF Interval
  <2>2. asked = service /\ Bookable
    BY <1>1 DEF PageInv, WorldKnown, Book, Present, Bookable
  <2>3. /\ EmployeeFree(Present, i)
        /\ asked.needsRoom => \E r \in Rooms : r \in Present.rooms /\ RoomFree(Present, r, i)
    BY <1>1 DEF PageInv, ShownWasFree
  <2>4. past' = {Present}
    BY DEF Book
  <2>5. AlwaysFree(slot)'
    BY <2>1, <2>2, <2>3, <2>4, <1>4 DEF AlwaysFree, EmployeeFree, RoomFree, Meets
  <2> QED
    BY <2>1, <2>2, <2>5, <1>4
<1>10. NothingFreeMissed' /\ ShownWasFree' /\ ShownInHours'
  BY <1>4 DEF NothingFreeMissed, ShownWasFree, ShownInHours
<1> QED
  BY <1>5, <1>6, <1>7, <1>8, <1>9, <1>10 DEF PageInv

LEMMA CheckSlotKnown ==
  ASSUME PageInv, CheckSlot
  PROVE  PageInv'
<1>0. Present' = Present
  BY PresentKept DEF CheckSlot
<1>1. PageTypeOK /\ booking /\ Present \in past
  BY DEF PageInv, PageTypeOK, GridKnown, WorldKnown, CheckSlot
<1>2. /\ pc' \in {"refused", "insert", "checkRoom"}
      /\ pc' = "refused" => EmployeeBusy
      /\ pc' = "checkRoom" => room # NoRoom
  BY DEF CheckSlot
<1>3. PageTypeOK'
  BY <1>0, <1>1, <1>2 DEF CheckSlot, search, grid, PageTypeOK, Steps
<1>4. WorldKnown' /\ GridKnown' /\ RoomsKnown'
  BY <1>0, <1>1, <1>2 DEF CheckSlot, search, grid, PageInv, WorldKnown, GridKnown, RoomsKnown, Trying
<1>5. BookingKnown'
  <2> SUFFICES ASSUME Undisturbed'
               PROVE  BookingKnown'
    BY DEF BookingKnown
  <2>1. Undisturbed
    BY <1>0, <1>1 DEF Undisturbed, CheckSlot
  <2>2. AlwaysFree(slot) /\ slot = offer /\ (room # NoRoom => RoomFree(Present, room, slot))
    BY <2>1 DEF PageInv, BookingKnown, CheckSlot
  <2>3. pc' # "refused"
    BY <1>1, <1>2, <2>2, EmployeeQuery DEF AlwaysFree
  <2>4. AlwaysFree(slot)' <=> AlwaysFree(slot)
    BY DEF CheckSlot, search, AlwaysFree, EmployeeFree, RoomFree, Meets
  <2>5. (room # NoRoom => RoomFree(Present, room, slot))'
    BY <1>0, <2>2 DEF CheckSlot, search, RoomFree, Meets
  <2> QED
    BY <2>2, <2>3, <2>4, <2>5 DEF BookingKnown, CheckSlot, search
<1>6. NothingFreeMissed' /\ ShownWasFree' /\ ShownInHours'
  BY <1>1 DEF NothingFreeMissed, ShownWasFree, ShownInHours, CheckSlot
<1> QED
  BY <1>3, <1>4, <1>5, <1>6 DEF PageInv

LEMMA CheckSlotRoomKnown ==
  ASSUME PageInv, CheckSlotRoom
  PROVE  PageInv'
<1>0. Present' = Present
  BY PresentKept DEF CheckSlotRoom
<1>1. PageTypeOK /\ booking /\ Present \in past /\ room # NoRoom
  BY DEF PageInv, PageTypeOK, GridKnown, WorldKnown, RoomsKnown, CheckSlotRoom
<1>2. pc' \in {"refused", "insert"} /\ (pc' = "refused" => RoomBusy)
  BY DEF CheckSlotRoom
<1>3. PageTypeOK'
  BY <1>0, <1>1, <1>2 DEF CheckSlotRoom, search, grid, PageTypeOK, Steps
<1>4. WorldKnown' /\ GridKnown' /\ RoomsKnown'
  BY <1>0, <1>1, <1>2 DEF CheckSlotRoom, search, grid, PageInv, WorldKnown, GridKnown, RoomsKnown, Trying
<1>5. BookingKnown'
  <2> SUFFICES ASSUME Undisturbed'
               PROVE  BookingKnown'
    BY DEF BookingKnown
  <2>1. Undisturbed
    BY <1>0, <1>1 DEF Undisturbed, CheckSlotRoom
  <2>2. AlwaysFree(slot) /\ slot = offer /\ RoomFree(Present, room, slot)
    BY <1>1, <2>1 DEF PageInv, BookingKnown, CheckSlotRoom
  <2>3. pc' # "refused"
    BY <1>2, <2>2, RoomQuery
  <2>4. AlwaysFree(slot)' <=> AlwaysFree(slot)
    BY DEF CheckSlotRoom, search, AlwaysFree, EmployeeFree, RoomFree, Meets
  <2>5. RoomFree(Present, room, slot)'
    BY <1>0, <2>2 DEF CheckSlotRoom, search, RoomFree, Meets
  <2> QED
    BY <2>2, <2>3, <2>4, <2>5 DEF BookingKnown, CheckSlotRoom, search
<1>6. NothingFreeMissed' /\ ShownWasFree' /\ ShownInHours'
  BY <1>1 DEF NothingFreeMissed, ShownWasFree, ShownInHours, CheckSlotRoom
<1> QED
  BY <1>3, <1>4, <1>5, <1>6 DEF PageInv

(* A slot that is free competes with none. *)
LEMMA InsertKnown ==
  ASSUME PageInv, Insert
  PROVE  PageInv'
<1>1. PageTypeOK /\ booking /\ Present \in past /\ Present \in World
  BY DEF PageInv, PageTypeOK, GridKnown, WorldKnown, Insert
<1>2. PICK a \in Appts :
        IF Agenda!Available(a, Wanted) THEN Agenda!Take(a, Wanted) /\ pc' = "booked"
                                       ELSE UNCHANGED booked /\ pc' = "refused"
  BY DEF Insert
<1>3. CASE Agenda!Available(a, Wanted)
  <2>1. booked' = [booked EXCEPT ![a] = Wanted] /\ pc' = "booked"
    BY <1>2, <1>3 DEF Agenda!Take
  <2>2. Wanted \in Agenda!Slot
    BY <1>1, AgendaAssumption DEF Wanted, Agenda!Slot, PageTypeOK, Interval
  <2>3. booked' \in [Appts -> Agenda!Slot \cup {Free}]
    BY <1>1, <2>1, <2>2 DEF World, Present
  <2>4. Present' \in World
    BY <1>1, <2>3 DEF Insert, World, Present
  <2>5. PageTypeOK'
    BY <1>1, <2>1, <2>4 DEF Insert, search, grid, PageTypeOK, Steps
  <2>6. WorldKnown' /\ GridKnown' /\ RoomsKnown' /\ BookingKnown'
    BY <1>1, <2>1
    DEF Insert, search, grid, PageInv, WorldKnown, GridKnown, RoomsKnown, BookingKnown, Undisturbed, Trying
  <2>7. NothingFreeMissed' /\ ShownWasFree' /\ ShownInHours'
    BY <1>1 DEF NothingFreeMissed, ShownWasFree, ShownInHours, Insert
  <2> QED
    BY <2>5, <2>6, <2>7 DEF PageInv
<1>4. CASE ~Agenda!Available(a, Wanted)
  <2>1. booked' = booked /\ pc' = "refused"
    BY <1>2, <1>4
  <2>2. Present' = Present
    BY <2>1 DEF Insert, Present
  <2>3. PageTypeOK'
    BY <1>1, <2>1, <2>2 DEF Insert, search, grid, PageTypeOK, Steps
  <2>4. WorldKnown' /\ GridKnown' /\ RoomsKnown'
    BY <1>1, <2>1, <2>2 DEF Insert, search, grid, PageInv, WorldKnown, GridKnown, RoomsKnown, Trying
  <2>5. ~Undisturbed'
    <3> SUFFICES ASSUME Undisturbed
                 PROVE  FALSE
      BY <1>1, <2>2 DEF Undisturbed, Insert
    <3>1. AlwaysFree(slot) /\ (room # NoRoom => RoomFree(Present, room, slot))
      BY DEF PageInv, BookingKnown, Insert
    <3>2. EmployeeFree(Present, slot)
      BY <1>1, <3>1 DEF AlwaysFree
    <3>3. PICK b \in Appts : booked[b] # Free /\ Agenda!Compete(Wanted, booked[b])
      BY <1>4 DEF Agenda!Available
    <3>4. Meets(booked[b], slot)
      BY <3>3 DEF Agenda!Compete, Wanted, Meets
    <3>5. booked[b].employee # Self
      BY <3>2, <3>3, <3>4 DEF EmployeeFree, Present
    <3>6. room # NoRoom /\ booked[b].room = room
      BY <3>3, <3>5 DEF Agenda!Compete, Wanted
    <3> QED
      BY <3>1, <3>3, <3>4, <3>6 DEF RoomFree, Present
  <2>6. NothingFreeMissed' /\ ShownWasFree' /\ ShownInHours'
    BY <1>1 DEF NothingFreeMissed, ShownWasFree, ShownInHours, Insert
  <2> QED
    BY <2>3, <2>4, <2>5, <2>6 DEF PageInv, BookingKnown
<1> QED
  BY <1>3, <1>4

(* Whatever others do, the world they leave joins the past. *)
LEMMA ChangeKnown ==
  ASSUME PageInv, Change, Present' \in World
  PROVE  PageInv'
<1>1. PageTypeOK /\ changes + 1 \in Nat
  BY DEF PageInv, PageTypeOK
<1>2. past \subseteq past' /\ past' \subseteq past \cup {Present'}
  BY DEF Change
<1>3. PageTypeOK'
  BY <1>1 DEF Change, search, grid, local, PageTypeOK
<1>4. WorldKnown'
  BY <1>2 DEF Change, search, grid, local, PageInv, WorldKnown
<1>5. GridKnown'
  BY DEF Change, search, grid, local, PageInv, GridKnown, Trying, Fits, SlotAt, ToUtc, OnGrid
<1>6. RoomsKnown'
  BY <1>2 DEF Change, search, grid, local, PageInv, RoomsKnown, Trying, EmployeeFree, RoomFree, Meets
<1>7. BookingKnown'
  <2> SUFFICES ASSUME Undisturbed'
               PROVE  BookingKnown'
    BY DEF BookingKnown
  <2>1. booking /\ pc # "booked" /\ pc # "idle" /\ past' = {Present'}
    BY DEF Undisturbed, Change, local, PageInv, GridKnown
  <2>2. Present \in past
    BY <2>1 DEF PageInv, WorldKnown
  <2>3. Present' = Present /\ past' = past /\ past = {Present}
    BY <1>2, <2>1, <2>2
  <2>4. Undisturbed
    BY <2>3 DEF Undisturbed, Change, local
  <2>5. AlwaysFree(slot)' <=> AlwaysFree(slot)
    BY <2>3 DEF Change, search, local, AlwaysFree, EmployeeFree, RoomFree, Meets
  <2>6. RoomFree(Present, room, slot)' <=> RoomFree(Present, room, slot)
    BY <2>3 DEF Change, search, RoomFree, Meets
  <2> QED
    BY <2>4, <2>5, <2>6 DEF Change, search, local, PageInv, BookingKnown
<1>8. NothingFreeMissed'
  <2>1. CASE pc = "idle"
    BY <2>1 DEF NothingFreeMissed, Change, local
  <2>2. CASE pc # "idle"
    BY <2>2, <1>2, NothingMissedKept DEF Change, grid, local, PageInv
  <2> QED
    BY <2>1, <2>2
<1>9. ShownWasFree' /\ ShownInHours'
  BY <1>2, ShownKept, InHoursKept DEF Change, local, PageInv
<1> QED
  BY <1>3, <1>4, <1>5, <1>6, <1>7, <1>8, <1>9 DEF PageInv

LEMMA PageUntouched ==
  ASSUME PageInv, UNCHANGED <<world, zone, search, grid, local, past>>, changes' \in Nat
  PROVE  PageInv'
<1>0. Present' = Present
  BY PresentKept
<1>1. PageTypeOK'
  BY <1>0 DEF PageInv, PageTypeOK, search, grid, local
<1>2. WorldKnown'
  BY <1>0 DEF search, grid, local, PageInv, WorldKnown
<1>3. GridKnown'
  BY DEF search, grid, local, PageInv, GridKnown, Trying, Fits, SlotAt, ToUtc, OnGrid
<1>4. RoomsKnown'
  BY DEF search, grid, local, PageInv, RoomsKnown, Trying, EmployeeFree, RoomFree, Meets
<1>5. BookingKnown'
  <2>1. Undisturbed' => Undisturbed
    BY <1>0 DEF Undisturbed, local
  <2>2. AlwaysFree(slot)' <=> AlwaysFree(slot)
    BY DEF search, local, AlwaysFree, EmployeeFree, RoomFree, Meets
  <2>3. RoomFree(Present, room, slot)' <=> RoomFree(Present, room, slot)
    BY <1>0 DEF search, RoomFree, Meets
  <2> QED
    BY <2>1, <2>2, <2>3 DEF search, local, PageInv, BookingKnown
<1>6. NothingFreeMissed'
  <2>1. CASE pc = "idle"
    BY <2>1 DEF NothingFreeMissed, local
  <2>2. CASE pc # "idle"
    BY <2>2, NothingMissedKept DEF grid, local, PageInv
  <2> QED
    BY <2>1, <2>2
<1>7. ShownWasFree' /\ ShownInHours'
  BY ShownKept, InHoursKept DEF local, PageInv
<1> QED
  BY <1>1, <1>2, <1>3, <1>4, <1>5, <1>6, <1>7 DEF PageInv

LEMMA ElseKnown ==
  ASSUME PageInv, Else
  PROVE  PageInv'
<1>1. Present \in World
  BY DEF PageInv, PageTypeOK
<1>2. CASE OthersBook
  <2>1. PICK a \in Appts, s \in Others : booked' = [booked EXCEPT ![a] = s]
    BY <1>2 DEF OthersBook, Agenda!Take
  <2>2. booked' \in [Appts -> Agenda!Slot \cup {Free}]
    BY <1>1, <2>1, AgendaAssumption DEF World, Present
  <2>3. Present' \in World
    BY <1>1, <1>2, <2>2 DEF OthersBook, World, Present
  <2> QED
    BY <1>2, <2>3, ChangeKnown DEF OthersBook
<1>3. CASE OthersCancel
  <2>1. PICK a \in Appts : booked' = [booked EXCEPT ![a] = Free]
    BY <1>3 DEF OthersCancel, Agenda!GiveUp
  <2>2. booked' \in [Appts -> Agenda!Slot \cup {Free}]
    BY <1>1, <2>1 DEF World, Present
  <2>3. Present' \in World
    BY <1>1, <1>3, <2>2 DEF OthersCancel, World, Present
  <2> QED
    BY <1>3, <2>3, ChangeKnown DEF OthersCancel
<1>4. CASE EditRoom
  <2>1. Present' \in World
    BY <1>1, <1>4 DEF EditRoom, World, Present
  <2> QED
    BY <1>4, <2>1, ChangeKnown DEF EditRoom
<1>5. CASE EditService
  <2>1. Present' \in World
    BY <1>1, <1>5 DEF EditService, World, Present
  <2> QED
    BY <1>5, <2>1, ChangeKnown DEF EditService
<1>6. CASE EditEmployee
  <2>1. Present' \in World
    BY <1>1, <1>6 DEF EditEmployee, World, Present
  <2> QED
    BY <1>6, <2>1, ChangeKnown DEF EditEmployee
<1> QED
  BY <1>2, <1>3, <1>4, <1>5, <1>6 DEF Else

LEMMA PageKnown ==
  ASSUME IInv, Page
  PROVE  PageInv'
<1>1. windows \subseteq Window
  BY DEF IInv, HoursInv, HoursTypeOK
<1> QED
  BY <1>1, AskKnown, SkipPassedKnown, TrySlotKnown, NextWindowKnown, CheckEmployeeKnown, ListRoomsKnown,
     CheckAgainKnown, CheckRoomKnown, BookKnown, CheckSlotKnown, CheckSlotRoomKnown, InsertKnown
  DEF Page, IInv

LEMMA ReplaceHoursKnown ==
  ASSUME IInv, ReplaceHours
  PROVE  IInv'
<1>1. HoursInv'
  BY StartReplaceKnown, DeleteWindowsKnown, CommitReplaceKnown, LoseReplaceKnown DEF ReplaceHours, HoursStep, IInv
<1>2. changes' \in Nat
  <2>1. changes \in Nat
    BY DEF IInv, PageInv, PageTypeOK
  <2> QED
    BY <2>1 DEF ReplaceHours
<1>3. PageInv'
  BY <1>2, PageUntouched DEF ReplaceHours, IInv
<1> QED
  BY <1>1, <1>3 DEF IInv

LEMMA NextKnown ==
  ASSUME IInv, [Next]_vars
  PROVE  IInv'
<1>1. CASE Page
  <2>1. UNCHANGED hoursVars
    BY <1>1 DEF Page, Ask, SkipPassed, TrySlot, NextWindow, CheckEmployee, ListRooms, CheckAgain, CheckRoom,
                Book, CheckSlot, CheckSlotRoom, Insert
  <2> QED
    BY <1>1, <2>1, PageKnown, HoursUntouched DEF IInv
<1>2. CASE Else
  <2>1. UNCHANGED hoursVars
    BY <1>2 DEF Else, OthersBook, OthersCancel, EditRoom, EditService, EditEmployee, Change
  <2> QED
    BY <1>2, <2>1, ElseKnown, HoursUntouched DEF IInv
<1>3. CASE ReplaceHours
  BY <1>3, ReplaceHoursKnown
<1>4. CASE UNCHANGED vars
  <2>1. changes' \in Nat
    BY <1>4 DEF vars, IInv, PageInv, PageTypeOK
  <2> QED
    BY <1>4, <2>1, PageUntouched, HoursUntouched DEF vars, IInv
<1> QED
  BY <1>1, <1>2, <1>3, <1>4 DEF Next

-----------------------------------------------------------------------------
(* The theorems                                                            *)

(* Every reachable state satisfies the inductive invariant. *)
THEOREM Invariant == Spec => []IInv
<1>1. Init => IInv
  BY InitKnown
<1>2. IInv /\ [Next]_vars => IInv'
  BY NextKnown
<1> QED
  BY <1>1, <1>2, PTL DEF Spec

(* Every variable keeps its type. *)
THEOREM TypeCorrect == Spec => []TypeOK
<1>1. IInv => TypeOK
  BY DEF IInv, HoursInv, PageInv, TypeOK
<1> QED
  BY <1>1, Invariant, PTL

(* compute_availability shows no slot that nobody could have had: since the *)
(* page asked, the employee and a room were each free for it at some time.  *)
THEOREM ShownAreFree == Spec => []ShownWasFree
<1>1. IInv => ShownWasFree
  BY DEF IInv, PageInv
<1> QED
  BY <1>1, Invariant, PTL

(* It shows no slot outside the hours it read, nor off their grid, nor one  *)
(* that has begun.                                                          *)
THEOREM ShownWithinHours == Spec => []ShownInHours
<1>1. IInv => ShownInHours
  BY DEF IInv, PageInv
<1> QED
  BY <1>1, Invariant, PTL

(* It leaves out no slot of the grid that stayed free while it looked. *)
THEOREM NoneMissed == Spec => []NothingFreeMissed
<1>1. IInv => NothingFreeMissed
  BY DEF IInv, PageInv
<1> QED
  BY <1>1, Invariant, PTL

(* While nothing is committed, some moment and every moment are the same:   *)
(* what is shown is what compute_availability should list.                  *)
LEMMA ExactKnown ==
  ASSUME PageInv
  PROVE  ListExact
<1> SUFFICES ASSUME pc = "shown", past = {Present}
             PROVE  ListExact
  BY DEF ListExact
<1>1. ~booking /\ left = {} /\ rooms \subseteq Rooms
  BY DEF PageInv, GridKnown, PageTypeOK, World, Present
<1>2. ASSUME NEW i \in shown
      PROVE  \E w \in listed : \E c \in Candidates(w) : ToUtc(c) > now /\ i = SlotAt(c) /\ FreeIn(Present, i)
  <2>1. PICK w \in listed : \E c \in Candidates(w) : ToUtc(c) > now /\ i = SlotAt(c)
    BY <1>1 DEF PageInv, ShownInHours
  <2>2. FreeIn(Present, i)
    BY <1>1 DEF PageInv, ShownWasFree, FreeIn
  <2> QED
    BY <2>1, <2>2
<1>3. ASSUME NEW w \in listed, NEW c \in Candidates(w), ToUtc(c) > now, FreeIn(Present, SlotAt(c))
      PROVE  SlotAt(c) \in shown
  <2>1. Passed(w, c)
    BY <1>1 DEF Passed
  <2>2. AlwaysFree(SlotAt(c))
    BY <1>1, <1>3 DEF AlwaysFree, FreeIn, Present
  <2> QED
    BY <1>1, <1>3, <2>1, <2>2 DEF PageInv, NothingFreeMissed
<1> QED
  BY <1>2, <1>3 DEF ListExact

(* compute_availability's list, when nothing was committed meanwhile, holds *)
(* every future slot of the grid that is free and no other.                 *)
THEOREM ListsAreExact == Spec => []ListExact
<1>1. IInv => ListExact
  BY ExactKnown DEF IInv
<1> QED
  BY <1>1, Invariant, PTL

(* create_booking refuses a slot that was shown only when something changed *)
(* since, or when the clock changes within it.                              *)
THEOREM BookingsAgree == Spec => []RefusedForCause
<1>1. IInv => RefusedForCause
  BY DEF IInv, PageInv, BookingKnown, Undisturbed, RefusedForCause
<1> QED
  BY <1>1, Invariant, PTL

(* replace_employee_availability leaves no window of those before it. *)
THEOREM HoursReplaced == Spec => []ReplacedGone
<1>1. IInv => ReplacedGone
  BY DEF IInv, HoursInv
<1> QED
  BY <1>1, Invariant, PTL
=============================================================================
