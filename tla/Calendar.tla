------------------------------ MODULE Calendar ------------------------------
(***************************************************************************)
(* What a tenant is promised of its agenda, with no request, lock, message *)
(* or transaction in it: each appointment either holds a slot or holds     *)
(* nothing; in one step one appointment takes a slot nobody else's slot    *)
(* meets, moves to such a slot keeping its employee and room, or gives its *)
(* slot up.                                                                *)
(***************************************************************************)
EXTENDS Naturals

CONSTANTS Appts, Employees, Rooms, Times, NoRoom, Free

VARIABLE booked   \* appointment -> the slot it holds, or Free

Slot == [employee : Employees, room : Rooms \cup {NoRoom}, start : Times, end : Times]

(* Two slots compete: one employee or one room, at one time. *)
Compete(p, q) ==
  /\ p.employee = q.employee \/ (p.room # NoRoom /\ p.room = q.room)
  /\ p.start < p.end
  /\ q.start < q.end
  /\ p.start < q.end
  /\ q.start < p.end

Available(a, slot) == \A b \in Appts \ {a} : booked[b] # Free => ~Compete(slot, booked[b])

Init == booked = [a \in Appts |-> Free]

Take(a, slot) ==
  /\ Available(a, slot)
  /\ booked[a] # Free => /\ slot.employee = booked[a].employee
                         /\ slot.room = booked[a].room
  /\ booked' = [booked EXCEPT ![a] = slot]

GiveUp(a) == booked' = [booked EXCEPT ![a] = Free]

Next == \E a \in Appts : GiveUp(a) \/ \E slot \in Slot : Take(a, slot)

Spec == Init /\ [][Next]_booked
=============================================================================
