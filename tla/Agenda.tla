------------------------------- MODULE Agenda -------------------------------
(* What booking promises of the agenda of ONE professional, with no locks,  *)
(* transactions, payments or webhooks: every decision is one step.  A       *)
(* demand is what a client asks: a service and an interval, firmly or not.  *)
(* Booking implements it (BookingAgenda says how).                          *)
EXTENDS Integers, FiniteSets

CONSTANTS
  Demands,
  Services,
  Capacity    \* Capacity[s]: clients service s takes at once

VARIABLES
  demand,     \* demand[d]: what d asks, fixed
  place       \* place[d]: what d has

agendaVars == <<demand, place>>

Demand == [service: Services, from: Nat, to: Nat, loose: BOOLEAN]
(* loose: a provisional turn.  held: nobody else may take it.  lost: it was *)
(* held and is no more.  over: seated although it was lost.                 *)
Places == {"out", "loose", "held", "lost", "seated", "over", "closed", "displaced"}
-----------------------------------------------------------------------------
Taking(t) ==
  {d \in Demands : /\ place[d] \in {"held", "seated"}
                   /\ demand[d].from <= t /\ t < demand[d].to}

(* At every instant asked for, whoever is there came for the same service,  *)
(* and a place of it is left.                                               *)
Fits(d) ==
  \A t \in demand[d].from .. demand[d].to - 1 :
    /\ \A q \in Taking(t) : demand[q].service = demand[d].service
    /\ Cardinality(Taking(t)) < Capacity[demand[d].service]

Meeting(d, q) == demand[q].from < demand[d].to /\ demand[d].from < demand[q].to

Becomes(d, what) == place' = [place EXCEPT ![d] = what] /\ UNCHANGED demand

(* d is seated, and some loose turns met by it make room.                  *)
Seats(d, what) ==
  /\ place'[d] = what
  /\ \A q \in Demands \ {d} :
       place'[q] # place[q] =>
         place'[q] = "displaced" /\ demand[q].loose /\ Meeting(d, q)
  /\ UNCHANGED demand
-----------------------------------------------------------------------------
AgendaInit == demand \in [Demands -> Demand] /\ place = [d \in Demands |-> "out"]

AskLoosely(d) == demand[d].loose /\ place[d] = "out" /\ Becomes(d, "loose")
HoldPlace(d) == ~demand[d].loose /\ place[d] = "out" /\ Fits(d) /\ Becomes(d, "held")
LosePlace(d) == place[d] = "held" /\ Becomes(d, "lost")
Withdraw(d) == place[d] = "lost" /\ Becomes(d, "out")

(* Seated at once if it fits, or in the place that was kept for it.         *)
Seat(d) ==
  /\ ~demand[d].loose
  /\ place[d] = "held" \/ (place[d] = "out" /\ Fits(d))
  /\ Seats(d, "seated")

(* Money that came after the place was lost is honoured all the same.       *)
SeatOver(d) == ~demand[d].loose /\ place[d] = "lost" /\ Seats(d, "over")

Close(d) ==
  place[d] \in {"loose", "seated", "over", "closed", "displaced"} /\ Becomes(d, "closed")

AgendaNext ==
  /\ place' # place
  /\ \E d \in Demands :
       /\ place'[d] # place[d]
       /\ \/ AskLoosely(d) \/ HoldPlace(d) \/ LosePlace(d) \/ Withdraw(d)
          \/ Seat(d) \/ SeatOver(d) \/ Close(d)

AgendaSpec == AgendaInit /\ [][AgendaNext]_agendaVars
=============================================================================
