------------------------------ MODULE Waitlist ------------------------------
(***************************************************************************)
(* The waitlist table and the operations of waitlist_service.py that touch *)
(* it.  Joining and cancelling an entry are requests of one statement, so  *)
(* each is one step.  Promotion is part of cancelling an appointment: this *)
(* module says which entry is picked and what the UPDATE stores, and       *)
(* AppointmentService runs it inside the cancelling transaction.           *)
(*                                                                         *)
(* An entry's id stands for its created_at, the order offers go by.        *)
(***************************************************************************)
EXTENDS Schedule

CONSTANTS
  Entries,        \* waitlist entry ids, in created_at order
  NoEntry,        \* no entry
  AnyEmployee,    \* preferred_employee_id IS NULL
  Wishes          \* the (employee, from, to) a join request may carry

VARIABLE waitlist  \* entry id -> row, or NoEntry

Waiting  == "waiting"
Promoted == "promoted"

Wish == [employee : Employees \cup {AnyEmployee}, from : Times, to : Times]

WaitlistRow == [employee : Employees \cup {AnyEmployee},
                from     : Times,
                to       : Times,
                status   : {Waiting, Promoted, Cancelled}]

ASSUME EntriesAssumption == Entries \subseteq Nat /\ NoEntry \notin Entries

ASSUME NoEntryAssumption == NoEntry \notin WaitlistRow

ASSUME WishesAssumption == Wishes \subseteq Wish

WaitlistInit == waitlist = [e \in Entries |-> NoEntry]

(* join_waitlist: one INSERT, always WAITING.  Ids are taken in any order:  *)
(* created_at is the start of the transaction, not its commit.              *)
JoinWaitlist(e) ==
  /\ waitlist[e] = NoEntry
  /\ \E w \in Wishes :
       waitlist' = [waitlist EXCEPT ![e] =
         [employee |-> w.employee, from |-> w.from, to |-> w.to, status |-> Waiting]]

(* cancel_waitlist_entry: the entry is read to answer 404, its status is    *)
(* not looked at, and CANCELLED is stored over whatever is there.           *)
CancelWaitlistEntry(e) ==
  /\ waitlist[e] # NoEntry
  /\ waitlist' = [waitlist EXCEPT ![e].status = Cancelled]

(* find_oldest_match: the WHERE clause, for a slot of this row. *)
Matches(e, slot) ==
  /\ waitlist[e] # NoEntry
  /\ waitlist[e].status = Waiting
  /\ waitlist[e].employee \in {AnyEmployee, slot.employee}
  /\ waitlist[e].from <= slot.start
  /\ slot.start <= waitlist[e].to

(* find_oldest_match: ORDER BY created_at LIMIT 1. *)
IsOldestMatch(e, slot) ==
  /\ Matches(e, slot)
  /\ \A f \in Entries : Matches(f, slot) => e <= f

(* promote_next_match: the UPDATE names the primary key only, so it stores  *)
(* PROMOTED over whatever the entry has become since it was read.           *)
WithPromotion(e) == [waitlist EXCEPT ![e].status = Promoted]
=============================================================================
