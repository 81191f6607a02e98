----------------------------- MODULE MCBooking -----------------------------
(* Scenarios for the booking runs.  "cut" takes one client, "class" two;    *)
(* both last two units, so that starts 0 and 1 overlap and 0 and 2 do not.  *)
EXTENDS BookingAgenda, TLC

CONSTANTS r1, r2, r3

MCServices == {"cut", "dye", "class"}
MCDuration == [s \in MCServices |-> 2]
MCCapacity == [s \in MCServices |-> IF s = "class" THEN 2 ELSE 1]

Req(kind, service, start, extra) ==
  [kind |-> kind, service |-> service, start |-> start, extra |-> extra,
   provisional |-> FALSE, payer |-> {"approved"}]
(* A payer who may be declined first.                                       *)
Declined(q) == [q EXCEPT !.payer = Outcomes]
Prov(service, start) == [Req("free", service, start, 0) EXCEPT !.provisional = TRUE]

Three(a, b, c) == (r1 :> a) @@ (r2 :> b) @@ (r3 :> c)

(* Firm places contended for by every kind of payer, over provisional turns. *)
FirmScenarios == {
  Three(Prov("cut", 1), Req("cash", "cut", 0, 0), Req("mp", "cut", 0, 0)),
  Three(Req("mp", "cut", 0, 0), Req("mp", "cut", 1, 0), Prov("cut", 2)),
  Three(Req("mp", "cut", 0, 0), Req("cash", "dye", 1, 0), Req("cash", "cut", 2, 0)),
  Three(Prov("class", 0), Req("mp", "class", 0, 0), Req("cash", "class", 1, 0)),
  Three(Req("mp", "class", 0, 0), Req("cash", "class", 0, 1), Req("cash", "class", 1, 0)),
  Three(Declined(Req("mp", "cut", 0, 0)), Req("cash", "dye", 1, 0), Req("cash", "dye", 0, 0)) }

Two(a, b) == (r1 :> a) @@ (r2 :> b)

(* The webhook's handlers differ in nothing.                                *)
Alike == Permutations(Hooks)

(* Liveness: every kind of request beside a Mercado Pago payer.             *)
FairScenarios == {
  Two(Declined(Req("mp", "cut", 0, 0)), Req("cash", "cut", 1, 0)),
  Two(Declined(Req("mp", "cut", 0, 0)), Declined(Req("mp", "cut", 0, 0))),
  Two(Declined(Req("mp", "class", 0, 0)), Prov("class", 0)) }

(* Two calls that conflict, and one payment alone.                          *)
RaceScenarios == { Two(Req("free", "cut", 0, 0), Req("free", "dye", 1, 0)) }
PaymentScenarios == { r1 :> Declined(Req("mp", "cut", 0, 0)) }
=============================================================================
