------------------------------ MODULE Calendar ------------------------------
(***************************************************************************)
(* What the booking write path promises about the calendar, with no        *)
(* transactions, locks or requests in it: every night of a unit has at     *)
(* most one owner; a booking takes its nights in one step, and only nights *)
(* that are free or belong to holds whose lease is over.                   *)
(***************************************************************************)
EXTENDS Integers

CONSTANTS
  Bookings,
  Units,
  Night,    \* the nights of the calendar, integers
  Nobody    \* no booking: the owner of a free night

VARIABLES
  now,     \* the clock
  owner,   \* the booking that has each night of each unit
  lease    \* when an owner's hold lapses; Firm for one that never does

Firm == -1

calendarVars == <<now, owner, lease>>

Owns(b, u, n) == owner[u][n] = b

Owners == {b \in Bookings : \E u \in Units, n \in Night : Owns(b, u, n)}

LapsedOwners == {b \in Owners : lease[b] # Firm /\ lease[b] < now}

CalendarInit ==
  /\ now = 0
  /\ owner = [u \in Units |-> [n \in Night |-> Nobody]]
  /\ lease = [b \in Bookings |-> Firm]

\* The bookings in gone lose every night they own.
Freed(gone) ==
  [u \in Units |-> [n \in Night |-> IF owner[u][n] \in gone THEN Nobody ELSE owner[u][n]]]

\* Booking b takes the nights first .. last of unit u, reclaiming lapsed holds.
Take(b, u, first, last) ==
  \E gone \in SUBSET LapsedOwners :
    /\ b \notin Owners
    /\ \A n \in first .. last : Freed(gone)[u][n] = Nobody
    /\ owner' = [Freed(gone) EXCEPT ![u] =
                   [n \in Night |-> IF n \in first .. last THEN b ELSE Freed(gone)[u][n]]]
    /\ lease' \in [Bookings -> Nat \cup {Firm}]
    /\ \A x \in Bookings \ {b} : lease'[x] = IF x \in gone THEN Firm ELSE lease[x]
    /\ UNCHANGED now

\* A paid hold becomes firm.
Settle(b) ==
  /\ b \in Owners
  /\ lease' = [lease EXCEPT ![b] = Firm]
  /\ UNCHANGED <<now, owner>>

\* A cancelled booking, or the holds whose lease is over, give their nights back.
Release(gone) ==
  /\ gone # {}
  /\ owner' = Freed(gone)
  /\ lease' = [x \in Bookings |-> IF x \in gone THEN Firm ELSE lease[x]]
  /\ UNCHANGED now

CalendarTick == now' = now + 1 /\ UNCHANGED <<owner, lease>>

CalendarNext ==
  \/ \E b \in Bookings, u \in Units, first, last \in Night :
       first <= last /\ Take(b, u, first, last)
  \/ \E b \in Bookings : Settle(b)
  \/ \E b \in Owners : Release({b})
  \/ \E gone \in SUBSET LapsedOwners : Release(gone)
  \/ CalendarTick

CalendarSpec == CalendarInit /\ [][CalendarNext]_calendarVars
=============================================================================
