---------------------------- MODULE MCBackOffice ----------------------------
(* Instances of the parts beside the agenda: charges, subscription, tenancy *)
(* and outreach.  They share no state, so a run takes one of them, and the  *)
(* states of the run are the sum of theirs, not the product.                *)
EXTENDS Charge, Subscription, Tenancy, Outreach, TLC

CONSTANTS a, b, s1, s2, p1, p2, f   \* e-mails, slugs, persons, a phone

VARIABLE part

backVars == <<chargeVars, subVars, tenancyVars, outreachVars, part>>

(* A cash row of part of the price, one of all of it, a deposit accredited. *)
MCFirstRows ==
  {[method |-> "manual", base |-> 1, vat |-> 0, status |-> "Pending"],
   [method |-> "manual", base |-> 3, vat |-> 0, status |-> "Pending"],
   [method |-> "mp", base |-> 1, vat |-> 0, status |-> "Paid"]}

Empty ==
  [account |-> [e \in Emails |-> Nil], person |-> [p \in People |-> Nil],
   pro |-> [e \in Emails |-> Nil], place |-> [s \in Slugs |-> Nil],
   member |-> [k \in Emails \X Slugs |-> Nil],
   client |-> [k \in Emails \X People |-> Nil], invite |-> [i \in Invites |-> Nil]]
(* a works in its own place and was invited to the comercio of b, whose     *)
(* account nobody has claimed and whose person is a client of a.            *)
Established ==
  [account |-> (a :> NewAccount @@ b :> [NewAccount EXCEPT !.claimed = FALSE, !.password = FALSE]),
   person |-> (p1 :> [email |-> b, phone |-> f, of |-> b, dead |-> FALSE] @@ p2 :> Nil),
   pro |-> (a :> [slug |-> s1, dead |-> FALSE] @@ b :> Nil),
   place |-> (s1 :> [owner |-> a, personal |-> TRUE, dead |-> FALSE]
              @@ s2 :> [owner |-> b, personal |-> FALSE, dead |-> FALSE]),
   member |-> [Empty.member EXCEPT ![<<a, s1>>] = NewMember],
   client |-> [Empty.client EXCEPT ![<<a, p1>>] = [active |-> TRUE, dead |-> FALSE]],
   invite |-> [i \in Invites |-> [to |-> a, place |-> s2, is |-> "pending", lapsed |-> FALSE]]]
MCWorlds == {Empty, Established}

BackInit ==
  /\ part \in {"charge", "subscription", "tenancy", "outreach"}
  /\ ChargeInit /\ (part # "charge" => payment = [i \in PayRows |-> NoMoney])
  /\ SubInit /\ OutreachInit
  /\ TenancyInit /\ (part # "tenancy" => account = Empty.account)

BackNext ==
  /\ UNCHANGED part
  /\ \/ part = "charge" /\ ChargeNext /\ UNCHANGED <<subVars, tenancyVars, outreachVars>>
     \/ part = "subscription" /\ SubNext /\ UNCHANGED <<chargeVars, tenancyVars, outreachVars>>
     \/ part = "tenancy" /\ TenancyNext /\ UNCHANGED <<chargeVars, subVars, outreachVars>>
     \/ part = "outreach" /\ OutreachNext /\ UNCHANGED <<chargeVars, subVars, tenancyVars>>

BackSpec == BackInit /\ [][BackNext]_backVars

(* Calls of a part that run at once are alike.                              *)
Alike == Permutations(Handlers)

(* Every variable of the four parts holds a value of its kind.              *)
BackOfficeTypeOK == ChargeTypeOK /\ SubTypeOK /\ TenancyTypeOK /\ OutreachTypeOK
=============================================================================
