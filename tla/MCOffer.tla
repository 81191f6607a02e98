------------------------------- MODULE MCOffer -------------------------------
(* Instances of what a comercio offers: its day (Offer) and the rules that  *)
(* combine its services (Combos).  They share no state, so a run takes one  *)
(* of the two.                                                              *)
EXTENDS Offer, Combos, TLC

CONSTANTS m1, m2, s1, s2, r1, r2, x1, i1, i2, i3

VARIABLE part

(* A shared service of two ticks and two places, and one of a single tick.  *)
MCDuration == s1 :> 2 @@ s2 :> 1
MCCapacity == s1 :> 2 @@ s2 :> 1
MCAddonSets == {{}, {s2}}
MCShapes ==
  {[kind |-> "work", from |-> 0, to |-> 3], [kind |-> "walkIn", from |-> 1, to |-> 2],
   [kind |-> "break", from |-> 2, to |-> 3]}
MCOffTimes == {[from |-> 1, to |-> 2]}

(* Two professionals work, or one and there is nothing booked.              *)
Works(m, t, u) == [m |-> m, kind |-> "work", from |-> t, to |-> u]
MCFirstRules == {r1 :> Works(m1, 0, 3) @@ r2 :> second : second \in {Nil, Works(m2, 1, 3)}}
NoTurns == [x \in Turns |-> Nil]
MCFirstTurns ==
  {NoTurns, [NoTurns EXCEPT ![x1] = [m |-> m1, s |-> s1, from |-> 0, to |-> 2, is |-> "turn"]]}
Both == [s \in Services |-> [active |-> TRUE, online |-> FALSE]]
MCFirstServices == {Both, [Both EXCEPT ![s2] = Nil]}

(* Prices that a percentage does not divide, and a discount beyond one.     *)
MCItemPrice == i1 :> 10 @@ i2 :> 3 @@ i3 :> 7
MCDiscounts == {[kind |-> "percentage", amount |-> 5000], [kind |-> "fixed", amount |-> 5]}

(* Which rule, turn, member or seller is which decides nothing but the      *)
(* first state.                                                             *)
Alike == UNION {Permutations(S) : S \in {Members, Rules, Turns, Sellers}}

MCInit ==
  /\ part \in {"offer", "combos"} /\ OfferInit /\ CombosInit
  /\ (turn = NoTurns) <=> (rule[r2] = Nil)
  /\ part = "combos" \/ service[s2] = Nil => turn = NoTurns
  /\ part = "combos" => service = Both

MCNext ==
  /\ UNCHANGED part
  /\ \/ part = "offer" /\ OfferNext /\ UNCHANGED comboVars
     \/ part = "combos" /\ CombosNext /\ UNCHANGED offerVars

MCSpec == MCInit /\ [][MCNext]_<<offerVars, comboVars, part>>
=============================================================================
