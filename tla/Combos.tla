-------------------------------- MODULE Combos --------------------------------
(* The add-ons of a booking (ServiceCombinationRulesService): the rules by  *)
(* which a service enables, excludes, discounts or gives away another, as   *)
(* each professional of a comercio sets them, and what a selection costs.   *)
(* The services are given by every professional and are active.             *)
EXTENDS Integers, FiniteSets, FiniteSetsExt

CONSTANTS
  Sellers,    \* memberships that give the services
  Items,      \* services
  ItemPrice,  \* price of each, without VAT
  Discounts,  \* discounts the panel may ask for: percent in hundredths, or fixed
  MaxCombos   \* bound on the rules in force

Discount == [kind: {"percentage", "fixed"}, amount: Nat]
NoDiscount == [kind |-> "fixed", amount |-> 0]
ComboTypes == {"enables", "excludes", "discount", "free_with"}
Combo == [seller: Sellers, source: Items, target: Items, type: ComboTypes, off: Discount]

ASSUME CombosAssumption ==
  /\ IsFiniteSet(Items) /\ ItemPrice \in [Items -> Nat]
  /\ Discounts \subseteq Discount /\ MaxCombos \in Nat

VARIABLE combos   \* table service_combination_rule
comboVars == <<combos>>
-----------------------------------------------------------------------------
(* resolveAddons, whose caller drops repetitions.  A definition that a      *)
(* comment marks "bug" is a plausible defect of the one that follows it.    *)

RulesTo(v, s, a, types) ==
  {c \in combos : c.seller = v /\ c.source = s /\ c.target = a /\ c.type \in types}

(* bug: an add-on may also be enabled by another add-on *)
EnabledByAny(v, s, A) ==
  \A a \in A : \E b \in A \cup {s} : RulesTo(v, b, a, {"enables", "free_with"}) # {}
Enabled(v, s, A) == \A a \in A : RulesTo(v, s, a, {"enables", "free_with"}) # {}

Excluded(v, s, A) == \E a, b \in A \cup {s} : RulesTo(v, a, b, {"excludes"}) # {}

Accepted(v, s, A) == s \notin A /\ Enabled(v, s, A) /\ ~Excluded(v, s, A)

(* Math.round of the percentage; never more than the price; free wins.      *)
Applied(price, d) ==
  Min({price, IF d.kind = "percentage" THEN (price * d.amount + 5000) \div 10000 ELSE d.amount})
Off(v, s, a) ==
  IF RulesTo(v, s, a, {"free_with"}) # {} THEN ItemPrice[a]
  ELSE LET D == RulesTo(v, s, a, {"discount"})
       IN  IF D = {} THEN 0 ELSE Applied(ItemPrice[a], (CHOOSE c \in D : TRUE).off)

AddonsCost(v, s, A) == SumFunctionOnSet([a \in A |-> ItemPrice[a] - Off(v, s, a)], A)
-----------------------------------------------------------------------------
CombosInit == combos = {}

(* The index refuses a second rule of one type between two services, be it  *)
(* of another professional; a percentage is at most 100.                    *)
(* bug: the index is forgotten *)
NoIndex(s, a, type) == TRUE
Unique(s, a, type) == ~\E c \in combos : c.source = s /\ c.target = a /\ c.type = type
CreateCombo(v, s, a, type, d) ==
  /\ s # a /\ Unique(s, a, type) /\ Cardinality(combos) < MaxCombos
  /\ d.kind = "percentage" => d.amount <= 10000
  /\ combos' = combos \cup {[seller |-> v, source |-> s, target |-> a, type |-> type, off |-> d]}

DeleteCombo(c) == c \in combos /\ combos' = combos \ {c}

CombosNext ==
  \/ \E v \in Sellers, s, a \in Items, type \in ComboTypes :
       \E d \in IF type = "discount" THEN Discounts ELSE {NoDiscount} : CreateCombo(v, s, a, type, d)
  \/ \E c \in combos : DeleteCombo(c)
CombosSpec == CombosInit /\ [][CombosNext]_comboVars
-----------------------------------------------------------------------------
(* Properties.                                                              *)

(* The client adds and removes services one by one: what is left of a       *)
(* selection that is accepted is accepted too, no service of it excludes    *)
(* another in either direction, and each add-on costs what it did.          *)
SelectionsNest ==
  \A v \in Sellers, s \in Items, A \in SUBSET Items : Accepted(v, s, A) =>
    \A B \in SUBSET A :
      /\ Accepted(v, s, B)
      /\ \A a \in A \cup {s}, c \in combos :
           ~(c.seller = v /\ c.type = "excludes" /\ {c.source, c.target} \subseteq A \cup {s})
      /\ AddonsCost(v, s, A) = AddonsCost(v, s, B) + AddonsCost(v, s, A \ B)

(* An add-on costs from nothing to its price, and no add-on ever has two    *)
(* discounts to choose from, so its price does not depend on which row the  *)
(* database gives first.                                                    *)
AddonsPriced ==
  \A v \in Sellers, s, a \in Items :
    /\ Cardinality(RulesTo(v, s, a, {"discount"})) <= 1
    /\ Off(v, s, a) >= 0 /\ Off(v, s, a) <= ItemPrice[a]
=============================================================================
