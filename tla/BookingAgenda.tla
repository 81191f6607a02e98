---------------------------- MODULE BookingAgenda ----------------------------
(* Booking implements Agenda where every booking without payment is         *)
(* provisional and the panel only closes turns.                             *)
EXTENDS Booking

(* The interval a request asks for, and what it has by the rows it left.    *)
DemandOf(r) == [service |-> Service(r), from |-> From(r), to |-> To(r),
                loose |-> IsProvisional(r)]
PlaceOf(r) ==
  CASE appt[r].status \in ActiveStatuses ->
         IF IsProvisional(r) THEN "loose" ELSE IF r \in late THEN "over" ELSE "seated"
    [] appt[r].status \in TerminalStatuses ->
         IF appt[r].why = "bumped" THEN "displaced" ELSE "closed"
    [] OTHER -> IF hold[r] = "live" THEN "held"
                ELSE IF pay[r].status # "none" THEN "lost" ELSE "out"

A == INSTANCE Agenda WITH
       Demands <- Requests,
       demand <- [r \in Requests |-> DemandOf(r)],
       place <- [r \in Requests |-> PlaceOf(r)]

(* Seen by the places it gives, the booking code with its lock, its two     *)
(* reads, its holds and its notifications, repeated, late or lost, decides  *)
(* in single steps: a place is held or taken only if it fits, a held place  *)
(* is kept until it is lost, firm turns are displaced by nobody.            *)
BooksAsAgenda == A!AgendaSpec
=============================================================================
