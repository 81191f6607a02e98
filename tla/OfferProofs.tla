----------------------------- MODULE OfferProofs -----------------------------
(* Proofs about what a comercio offers: its day (Offer) and the rules that  *)
(* combine its services (Combos), for any professionals, services, rules,   *)
(* turns and prices.                                                        *)
EXTENDS Offer, Combos, SumProofs
-----------------------------------------------------------------------------
(* The length of what is asked adds up services of a finite set.            *)
LEMMA LengthIsNat ==
  ASSUME NEW s \in Services, NEW m, NEW A \in SUBSET Services
  PROVE  Length(s, m, A) \in Nat \ {0}
<1> DEFINE G == {a \in A : Given(a, m)}
<1>1. IsFiniteSet(G) /\ \A a \in G : Duration[a] \in Nat
  BY OfferAssumption, FS_Subset
<1>2. Length(s, m, A) = Duration[s] + SumFunctionOnSet(Duration, G)
  BY DEF Length
<1>3. Duration[s] \in Nat \ {0}
  BY OfferAssumption
<1> HIDE DEF G
<1>4. SumFunctionOnSet(Duration, G) \in Nat
  BY <1>1, SumNat
<1>. QED
  BY <1>2, <1>3, <1>4

(* The four parts of the type, and the steps of each actor on its own.      *)
HoursType ==
  /\ rule \in [Rules -> RuleRow \cup {Nil}] /\ mapped \in [Rules -> SUBSET Services]
  /\ meant \in [Rules -> SUBSET Services] /\ torn \subseteq Rules
  /\ \A h \in off : h \in [m: Members, from: Nat, to: Nat]
  /\ ruleEdit \in RuleEdit \cup {Nil}
ShopType ==
  /\ service \in [Services -> ServiceRow \cup {Nil}] /\ assigned \in [Services -> SUBSET Members]
  /\ connected \subseteq Members /\ serviceEdit \in ServiceEdit \cup {Nil}
TurnsType == turn \in [Turns -> Turn \cup {Nil}] /\ pick \in [Turns -> Pick \cup {Nil}]
ClockType == tick \in Nat /\ calls \in Nat /\ tears \in Nat

LEMMA TypeParts == OfferTypeOK <=> HoursType /\ ShopType /\ TurnsType /\ ClockType
  BY DEF OfferTypeOK, HoursType, ShopType, TurnsType, ClockType

LEMMA PartsNext == ASSUME HoursType', ShopType', TurnsType', ClockType' PROVE OfferTypeOK'
  BY DEF OfferTypeOK, HoursType, ShopType, TurnsType, ClockType

LEMMA HoursStay == ASSUME HoursType, UNCHANGED hoursVars PROVE HoursType'
  BY DEF HoursType, hoursVars
LEMMA ShopStays == ASSUME ShopType, UNCHANGED shopVars PROVE ShopType'
  BY DEF ShopType, shopVars
LEMMA TurnsStay == ASSUME TurnsType, UNCHANGED turnVars PROVE TurnsType'
  BY DEF TurnsType, turnVars
LEMMA OneCall == ASSUME ClockType, Calls, UNCHANGED <<tick, tears>> PROVE ClockType'
  BY DEF ClockType, Calls
LEMMA NoCall == ASSUME ClockType, UNCHANGED <<tick, calls, tears>> PROVE ClockType'
  BY DEF ClockType
LEMMA OneTear == ASSUME ClockType, tears' = tears + 1, UNCHANGED <<tick, calls>> PROVE ClockType'
  BY DEF ClockType

LEMMA NewTurnTyped ==
  ASSUME NEW m \in Members, NEW s \in Services, NEW A \in SUBSET Services, NEW t \in Nat,
         NEW is \in {"turn", "hold"}
  PROVE  NewTurn(m, s, A, t, is) \in Turn
<1> DEFINE L == Length(s, m, A)
<1>1. L \in Nat
  BY LengthIsNat
<1> HIDE DEF L
<1>2. t + L \in Nat
  BY <1>1
<1>3. NewTurn(m, s, A, t, is) = [m |-> m, s |-> s, from |-> t, to |-> t + L, is |-> is]
  BY DEF NewTurn, L
<1>. QED
  BY <1>2, <1>3 DEF Turn

LEMMA LoadIsNat == ASSUME NEW m PROVE Load(m) \in Nat
<1> DEFINE X == {x \in Turns : turn[x] # Nil /\ turn[x].m = m /\ turn[x].is = "turn"}
<1>1. IsFiniteSet(X)
  BY OfferAssumption, FS_Subset
<1> HIDE DEF X
<1>2. Cardinality(X) \in Nat
  BY <1>1, FS_CardinalityType
<1>. QED
  BY <1>2 DEF X, Load

LEMMA BookMemberTyped ==
  ASSUME OfferTypeOK, NEW x \in Turns, NEW m \in Members, NEW s \in Services, NEW A \in AddonSets,
         NEW t \in 0 .. DayEnd, NEW is \in {"turn", "hold"}, BookMember(x, m, s, A, t, is)
  PROVE  OfferTypeOK'
<1> DEFINE n == NewTurn(m, s, A, t, is)
<1>1. n \in Turn
  <2>1. t \in Nat /\ A \in SUBSET Services
    BY OfferAssumption
  <2>. QED
    BY <2>1, NewTurnTyped
<1>2. turn' = [turn EXCEPT ![x] = n] /\ Calls /\ UNCHANGED <<pick, turnFrame>>
  BY DEF BookMember
<1> HIDE DEF n
<1>3. TurnsType'
  BY <1>1, <1>2, TypeParts DEF TurnsType
<1>. QED
  BY <1>2, <1>3, TypeParts, PartsNext, HoursStay, ShopStays, OneCall DEF turnFrame

LEMMA RankTyped ==
  ASSUME OfferTypeOK, NEW x \in Turns, NEW s \in Services, NEW A \in AddonSets,
         NEW t \in 0 .. DayEnd, NEW is \in {"turn", "hold"}, RankCandidates(x, s, A, t, is)
  PROVE  OfferTypeOK'
<1> DEFINE cands == {m \in Members \ Lapsed : t \in Slots(m, s, A)}
           load == [m \in Members |-> IF m \in cands THEN Load(m) ELSE 0]
           p == [s |-> s, addons |-> A, from |-> t, cands |-> cands, load |-> load, is |-> is]
<1>1. load \in [Members -> Nat]
  <2> SUFFICES ASSUME NEW m \in Members PROVE (IF m \in cands THEN Load(m) ELSE 0) \in Nat
    OBVIOUS
  <2>. QED
    BY LoadIsNat
<1>2. t \in Nat /\ A \in SUBSET Services /\ cands \in SUBSET Members
  BY OfferAssumption
<1>3. Calls /\ pick' = [pick EXCEPT ![x] = p] /\ UNCHANGED <<turn, turnFrame>>
  BY DEF RankCandidates
<1> HIDE DEF cands, load
<1>4. p \in Pick
  BY <1>1, <1>2 DEF Pick
<1> HIDE DEF p
<1>5. TurnsType'
  BY <1>3, <1>4, TypeParts DEF TurnsType
<1>. QED
  BY <1>3, <1>5, TypeParts, PartsNext, HoursStay, ShopStays, OneCall DEF turnFrame

LEMMA TryTyped ==
  ASSUME OfferTypeOK, NEW x \in Turns, NEW m \in Members, TryCandidate(x, m)
  PROVE  OfferTypeOK'
<1> DEFINE p == pick[x]   n == NewTurn(m, p.s, p.addons, p.from, p.is)
           q == [p EXCEPT !.cands = @ \ {m}]
<1>1. p \in Pick /\ pick[x] # Nil
  BY TypeParts DEF TurnsType, TryCandidate
<1>2. n \in Turn
  <2>1. p.s \in Services /\ p.addons \in SUBSET Services /\ p.from \in Nat /\ p.is \in {"turn", "hold"}
    BY <1>1 DEF Pick
  <2>. QED
    BY <2>1, NewTurnTyped
<1>3. q \in Pick
  <2> HIDE DEF p
  <2>. QED
    BY <1>1 DEF Pick
<1>4. /\ turn' = turn \/ turn' = [turn EXCEPT ![x] = n]
      /\ pick' = [pick EXCEPT ![x] = Nil] \/ pick' = [pick EXCEPT ![x] = q]
      /\ UNCHANGED <<calls, turnFrame>>
  BY DEF TryCandidate
<1> HIDE DEF n, q
<1>5. TurnsType'
  BY <1>2, <1>3, <1>4, TypeParts DEF TurnsType
<1>. QED
  BY <1>4, <1>5, TypeParts, PartsNext, HoursStay, ShopStays, NoCall DEF turnFrame

LEMMA TurnMovesTyped ==
  ASSUME OfferTypeOK, NEW x \in Turns, NEW is \in {"done", "turn", "gone"}, TurnMoves(x, is)
  PROVE  OfferTypeOK'
<1> DEFINE n == IF is = "gone" THEN Nil ELSE [turn[x] EXCEPT !.is = is]
<1>1. turn[x] \in Turn
  BY TypeParts DEF TurnsType, TurnMoves
<1>2. n \in Turn \cup {Nil}
  BY <1>1 DEF Turn
<1>3. turn' = [turn EXCEPT ![x] = n] /\ UNCHANGED <<pick, calls, turnFrame>>
  BY DEF TurnMoves
<1> HIDE DEF n
<1>4. TurnsType'
  BY <1>2, <1>3, TypeParts DEF TurnsType
<1>. QED
  BY <1>3, <1>4, TypeParts, PartsNext, HoursStay, ShopStays, NoCall DEF turnFrame

LEMMA CreateRuleTyped ==
  ASSUME OfferTypeOK, NEW r \in Rules, NEW m \in Members, NEW h \in Shapes, NEW S \in SUBSET Services,
         CreateRule(r, m, h, S)
  PROVE  OfferTypeOK'
<1> DEFINE n == [m |-> m, kind |-> h.kind, from |-> h.from, to |-> h.to]
           e == IF S = {} THEN Nil ELSE [at |-> "map", rule |-> r, to |-> S]
<1>1. n \in RuleRow /\ e \in RuleEdit \cup {Nil}
  <2>1. h \in Shape
    BY OfferAssumption
  <2>. QED
    BY <2>1 DEF Shape, RuleRow, RuleEdit
<1>2. /\ Calls /\ rule' = [rule EXCEPT ![r] = n] /\ mapped' = [mapped EXCEPT ![r] = {}]
      /\ meant' = [meant EXCEPT ![r] = S] /\ ruleEdit' = e
      /\ UNCHANGED <<off, torn, tears, hoursFrame>>
  BY DEF CreateRule
<1> HIDE DEF n, e
<1>3. HoursType'
  BY <1>1, <1>2, TypeParts DEF HoursType
<1>. QED
  BY <1>2, <1>3, TypeParts, PartsNext, ShopStays, TurnsStay, OneCall DEF hoursFrame

LEMMA UpdateRuleTyped ==
  ASSUME OfferTypeOK, NEW r \in Rules, NEW h \in Shapes, NEW S \in SUBSET Services,
         NEW direct \in BOOLEAN, UpdateRule(r, h, S, direct)
  PROVE  OfferTypeOK'
<1> DEFINE n == [m |-> rule[r].m, kind |-> h.kind, from |-> h.from, to |-> h.to]
           e == IF direct THEN [at |-> "check", rule |-> r, to |-> S] ELSE Nil
<1>1. n \in RuleRow
  <2>1. h \in Shape
    BY OfferAssumption
  <2>2. rule[r] \in RuleRow
    BY TypeParts DEF HoursType, UpdateRule
  <2>. QED
    BY <2>1, <2>2 DEF Shape, RuleRow
<1>2. e \in RuleEdit \cup {Nil}
  BY DEF RuleEdit
<1>3. /\ Calls /\ rule' = [rule EXCEPT ![r] = n] /\ ruleEdit' = e
      /\ UNCHANGED <<mapped, off, meant, torn, tears, hoursFrame>>
  BY DEF UpdateRule
<1> HIDE DEF n, e
<1>4. HoursType'
  BY <1>1, <1>2, <1>3, TypeParts DEF HoursType
<1>. QED
  BY <1>3, <1>4, TypeParts, PartsNext, ShopStays, TurnsStay, OneCall DEF hoursFrame

LEMMA RuleUnmapTyped == ASSUME OfferTypeOK, RuleUnmap PROVE OfferTypeOK'
<1> DEFINE r == ruleEdit.rule   S == ruleEdit.to
           e == IF S = {} THEN Nil ELSE [ruleEdit EXCEPT !.at = "map"]
<1>1. ruleEdit \in RuleEdit
  BY TypeParts DEF HoursType, RuleUnmap
<1>2. r \in Rules /\ S \in SUBSET Services /\ e \in RuleEdit \cup {Nil}
  BY <1>1 DEF RuleEdit
<1>3. /\ mapped' \in {mapped, [mapped EXCEPT ![r] = {}]}
      /\ meant' \in {meant, [meant EXCEPT ![r] = S]}
      /\ torn' \in {torn, torn \ {r}} /\ ruleEdit' \in {Nil, e}
      /\ UNCHANGED <<rule, off, calls, tears, hoursFrame>>
  BY DEF RuleUnmap, Undirect
<1> HIDE DEF r, S, e
<1>4. HoursType'
  BY <1>2, <1>3, TypeParts DEF HoursType
<1>. QED
  BY <1>3, <1>4, TypeParts, PartsNext, ShopStays, TurnsStay, NoCall DEF hoursFrame

LEMMA RuleMapTyped == ASSUME OfferTypeOK, RuleMap PROVE OfferTypeOK'
<1> DEFINE r == ruleEdit.rule   S == mapped[r] \cup ruleEdit.to
<1>1. ruleEdit \in RuleEdit
  BY TypeParts DEF HoursType, RuleMap
<1>2. r \in Rules /\ ruleEdit.to \in SUBSET Services
  BY <1>1 DEF RuleEdit
<1>3. S \in SUBSET Services
  BY <1>2, TypeParts DEF HoursType
<1>4. /\ mapped' = [mapped EXCEPT ![r] = S] /\ torn' = torn \ {r} /\ ruleEdit' = Nil
      /\ UNCHANGED <<rule, off, meant, calls, tears, hoursFrame>>
  BY DEF RuleMap
<1> HIDE DEF r, S
<1>5. HoursType'
  BY <1>2, <1>3, <1>4, TypeParts DEF HoursType
<1>. QED
  BY <1>4, <1>5, TypeParts, PartsNext, ShopStays, TurnsStay, NoCall DEF hoursFrame

LEMMA DeleteRuleTyped == ASSUME OfferTypeOK, NEW r \in Rules, DeleteRule(r) PROVE OfferTypeOK'
<1>1. HoursType'
  BY TypeParts DEF HoursType, DeleteRule
<1>2. Calls /\ UNCHANGED <<tears, hoursFrame>>
  BY DEF DeleteRule
<1>. QED
  BY <1>1, <1>2, TypeParts, PartsNext, ShopStays, TurnsStay, OneCall DEF hoursFrame

LEMMA RuleBreaksTyped == ASSUME OfferTypeOK, RuleEditBreaks PROVE OfferTypeOK'
<1>1. ruleEdit.rule \in Rules
  BY TypeParts DEF HoursType, RuleEditBreaks, RuleEdit
<1>2. torn' \in {torn, torn \cup {ruleEdit.rule}} /\ ruleEdit' = Nil /\ tears' = tears + 1
      /\ UNCHANGED <<rule, mapped, off, meant, calls, hoursFrame>>
  BY DEF RuleEditBreaks
<1>3. HoursType'
  BY <1>1, <1>2, TypeParts DEF HoursType
<1>. QED
  BY <1>2, <1>3, TypeParts, PartsNext, ShopStays, TurnsStay, OneTear DEF hoursFrame

LEMMA TimeOffTyped ==
  ASSUME OfferTypeOK, \/ \E m \in Members, h \in OffTimes : CreateTimeOff(m, h)
                      \/ \E h \in off : DeleteTimeOff(h)
  PROVE  OfferTypeOK'
<1>1. ASSUME NEW m \in Members, NEW h \in OffTimes, CreateTimeOff(m, h) PROVE HoursType'
  <2>1. h \in Hours
    BY OfferAssumption
  <2>2. [m |-> m, from |-> h.from, to |-> h.to] \in [m: Members, from: Nat, to: Nat]
    BY <2>1 DEF Hours
  <2>. QED
    BY <1>1, <2>2, TypeParts DEF HoursType, CreateTimeOff
<1>2. ASSUME NEW h \in off, DeleteTimeOff(h) PROVE HoursType'
  BY <1>2, TypeParts DEF HoursType, DeleteTimeOff
<1>3. Calls /\ UNCHANGED <<tears, hoursFrame>>
  BY DEF CreateTimeOff, DeleteTimeOff
<1>. QED
  BY <1>1, <1>2, <1>3, TypeParts, PartsNext, ShopStays, TurnsStay, OneCall DEF hoursFrame

LEMMA CreateServiceTyped ==
  ASSUME OfferTypeOK, NEW s \in Services, NEW online \in BOOLEAN, NEW M \in SUBSET Members,
         CreateService(s, online, M)
  PROVE  OfferTypeOK'
<1> DEFINE n == [active |-> TRUE, online |-> online]
           e == [at |-> "first", s |-> s, members |-> M, copy |-> n]
<1>1. n \in ServiceRow
  BY DEF ServiceRow
<1>2. /\ Calls /\ service' = [service EXCEPT ![s] = n] /\ serviceEdit' = e
      /\ UNCHANGED <<assigned, connected, tears, shopFrame>>
  BY DEF CreateService
<1> HIDE DEF n
<1>3. e \in ServiceEdit
  BY <1>1 DEF ServiceEdit
<1> HIDE DEF e
<1>4. ShopType'
  BY <1>1, <1>2, <1>3, TypeParts DEF ShopType
<1>. QED
  BY <1>2, <1>4, TypeParts, PartsNext, HoursStay, TurnsStay, OneCall DEF shopFrame

LEMMA UpdateServiceTyped ==
  ASSUME OfferTypeOK, NEW s \in Services, NEW online \in BOOLEAN, NEW M \in SUBSET Members,
         UpdateService(s, online, M)
  PROVE  OfferTypeOK'
<1> DEFINE n == [service[s] EXCEPT !.online = online]
           at == IF M = {} THEN "save" ELSE "unassign"
           e == [at |-> at, s |-> s, members |-> M, copy |-> n]
<1>1. n \in ServiceRow
  <2>1. service[s] \in ServiceRow
    BY TypeParts DEF ShopType, UpdateService
  <2>. QED
    BY <2>1 DEF ServiceRow
<1>2. Calls /\ serviceEdit' = e /\ UNCHANGED <<service, assigned, connected, tears, shopFrame>>
  BY DEF UpdateService
<1>3. at \in {"unassign", "save"}
  OBVIOUS
<1> HIDE DEF n, at
<1>4. e \in ServiceEdit
  BY <1>1, <1>3 DEF ServiceEdit
<1> HIDE DEF e
<1>5. ShopType'
  BY <1>2, <1>4, TypeParts DEF ShopType
<1>. QED
  BY <1>2, <1>5, TypeParts, PartsNext, HoursStay, TurnsStay, OneCall DEF shopFrame

LEMMA ServiceStepTyped == ASSUME OfferTypeOK, ServiceStep PROVE OfferTypeOK'
<1> DEFINE e == serviceEdit
<1>1. e \in ServiceEdit
  BY TypeParts DEF ShopType, ServiceStep
<1>2. e.s \in Services /\ e.members \in SUBSET Members /\ e.copy \in ServiceRow
  BY <1>1 DEF ServiceEdit
<1>3. [e EXCEPT !.at = "assign"] \in ServiceEdit /\ [e EXCEPT !.at = "save"] \in ServiceEdit
  BY <1>1 DEF ServiceEdit
<1>4. /\ assigned' \in {assigned, [assigned EXCEPT ![e.s] = {}], [assigned EXCEPT ![e.s] = e.members]}
      /\ service' \in {service, [service EXCEPT ![e.s] = e.copy]}
      /\ serviceEdit' \in {Nil, [e EXCEPT !.at = "assign"], [e EXCEPT !.at = "save"]}
      /\ UNCHANGED <<connected, calls, tears, shopFrame>>
  BY DEF ServiceStep
<1> HIDE DEF e
<1>5. ShopType'
  BY <1>2, <1>3, <1>4, TypeParts DEF ShopType
<1>. QED
  BY <1>4, <1>5, TypeParts, PartsNext, HoursStay, TurnsStay, NoCall DEF shopFrame

LEMMA ServiceBreaksTyped == ASSUME OfferTypeOK, ServiceEditBreaks PROVE OfferTypeOK'
<1>1. ShopType' /\ tears' = tears + 1 /\ UNCHANGED <<calls, shopFrame>>
  BY TypeParts DEF ShopType, ServiceEditBreaks
<1>. QED
  BY <1>1, TypeParts, PartsNext, HoursStay, TurnsStay, OneTear DEF shopFrame

LEMMA DeactivateTyped == ASSUME OfferTypeOK, NEW s \in Services, DeactivateService(s) PROVE OfferTypeOK'
<1> DEFINE n == [service[s] EXCEPT !.active = FALSE]
<1>1. service[s] \in ServiceRow
  BY TypeParts DEF ShopType, DeactivateService
<1>2. n \in ServiceRow
  BY <1>1 DEF ServiceRow
<1>3. /\ Calls /\ service' = [service EXCEPT ![s] = n]
      /\ UNCHANGED <<assigned, connected, serviceEdit, tears, shopFrame>>
  BY DEF DeactivateService
<1> HIDE DEF n
<1>4. ShopType'
  BY <1>2, <1>3, TypeParts DEF ShopType
<1>. QED
  BY <1>3, <1>4, TypeParts, PartsNext, HoursStay, TurnsStay, OneCall DEF shopFrame

LEMMA MpTyped ==
  ASSUME OfferTypeOK, NEW m \in Members, ConnectMp(m) \/ DisconnectMp(m) PROVE OfferTypeOK'
<1>1. ShopType' /\ Calls /\ UNCHANGED <<tears, shopFrame>>
  BY TypeParts DEF ShopType, ConnectMp, DisconnectMp
<1>. QED
  BY <1>1, TypeParts, PartsNext, HoursStay, TurnsStay, OneCall DEF shopFrame

LEMMA TickTyped == ASSUME OfferTypeOK, TickPasses PROVE OfferTypeOK'
<1>1. ClockType'
  BY TypeParts DEF ClockType, TickPasses
<1>. QED
  BY <1>1, TypeParts, PartsNext, HoursStay, ShopStays, TurnsStay DEF TickPasses

LEMMA OfferTypeInit == OfferInit => OfferTypeOK
<1> SUFFICES ASSUME OfferInit PROVE OfferTypeOK
  OBVIOUS
<1>1. HoursType
  BY OfferAssumption DEF OfferInit, HoursType
<1>2. ShopType
  BY OfferAssumption DEF OfferInit, ShopType
<1>3. TurnsType
  BY OfferAssumption DEF OfferInit, TurnsType
<1>4. ClockType
  BY DEF OfferInit, ClockType
<1>. QED
  BY <1>1, <1>2, <1>3, <1>4, TypeParts

LEMMA OfferTypeStep == ASSUME OfferTypeOK, [OfferNext]_offerVars PROVE OfferTypeOK'
<1>1. CASE \E x \in Turns, s \in Services, A \in AddonSets, t \in 0 .. DayEnd, is \in {"turn", "hold"} :
             RankCandidates(x, s, A, t, is) \/ \E m \in Members : BookMember(x, m, s, A, t, is)
  BY <1>1, RankTyped, BookMemberTyped
<1>2. CASE \E x \in Turns : \/ \E m \in Members : TryCandidate(x, m)
                            \/ \E is \in {"done", "turn", "gone"} : TurnMoves(x, is)
  BY <1>2, TryTyped, TurnMovesTyped
<1>3. CASE \E r \in Rules, h \in Shapes, S \in SUBSET Services :
             \/ \E m \in Members : CreateRule(r, m, h, S)
             \/ \E direct \in BOOLEAN : (direct \/ S = {}) /\ UpdateRule(r, h, S, direct)
  BY <1>3, CreateRuleTyped, UpdateRuleTyped
<1>4. CASE RuleUnmap \/ RuleMap \/ RuleEditBreaks \/ ServiceStep \/ ServiceEditBreaks \/ TickPasses
  BY <1>4, RuleUnmapTyped, RuleMapTyped, RuleBreaksTyped, ServiceStepTyped, ServiceBreaksTyped, TickTyped
<1>5. CASE \E r \in Rules : DeleteRule(r)
  BY <1>5, DeleteRuleTyped
<1>6. CASE \E m \in Members : (\E h \in OffTimes : CreateTimeOff(m, h)) \/ ConnectMp(m) \/ DisconnectMp(m)
  BY <1>6, TimeOffTyped, MpTyped
<1>7. CASE \E h \in off : DeleteTimeOff(h)
  BY <1>7, TimeOffTyped
<1>8. CASE \E s \in Services, online \in BOOLEAN, M \in SUBSET Members :
             CreateService(s, online, M) \/ UpdateService(s, online, M)
  BY <1>8, CreateServiceTyped, UpdateServiceTyped
<1>9. CASE \E s \in Services : DeactivateService(s)
  BY <1>9, DeactivateTyped
<1>10. CASE UNCHANGED offerVars
  BY <1>10, TypeParts, PartsNext, HoursStay, ShopStays, TurnsStay, NoCall DEF offerVars
<1>. QED
  BY <1>1, <1>2, <1>3, <1>4, <1>5, <1>6, <1>7, <1>8, <1>9, <1>10 DEF OfferNext

(* Whatever the panel, the bookings and the breaks do in between, every     *)
(* table of the day holds rows of its kind.                                 *)
THEOREM OfferTypeCorrect == OfferSpec => []OfferTypeOK
  BY OfferTypeInit, OfferTypeStep, PTL DEF OfferSpec
-----------------------------------------------------------------------------
(* What a slot is: a cursor of a rule of work, with nothing in its way.     *)
LEMMA SlotIsFree ==
  ASSUME NEW m, NEW s, NEW A, NEW t \in Slots(m, s, A)
  PROVE  Given(s, m) /\ \E r \in WorkRules(m, s) : <<r, t>> \in FreeIn(m, s, A)
<1>1. Given(s, m) /\ \E c \in FreeIn(m, s, A) : t = c[2]
  BY DEF Slots
<1>2. PICK c \in FreeIn(m, s, A) : t = c[2]
  BY <1>1
<1>3. c \in WorkRules(m, s) \X (0 .. DayEnd)
  BY DEF FreeIn, OfferedIn, Cursors
<1>4. c = <<c[1], t>> /\ c[1] \in WorkRules(m, s)
  BY <1>2, <1>3
<1>. QED
  BY <1>1, <1>4

LEMMA FreeMeans ==
  ASSUME NEW m, NEW s, NEW A, NEW r, NEW t, <<r, t>> \in FreeIn(m, s, A)
  PROVE  /\ r \in WorkRules(m, s) /\ t \in Nat
         /\ rule[r].from <= t /\ t + Length(s, m, A) <= rule[r].to
         /\ Attended(m, s, t, t + Length(s, m, A))
         /\ ~NoRoom(s, Busy(m, t, t + Length(s, m, A))) /\ InWindow(t)
<1> DEFINE c == <<r, t>>
<1>1. c[1] = r /\ c[2] = t
  OBVIOUS
<1>2. c \in OfferedIn(m, s, A) /\ ~NoRoom(s, Busy(m, t, t + Length(s, m, A))) /\ InWindow(t)
  BY <1>1 DEF FreeIn
<1>3. c \in Cursors(m, s, A) /\ Attended(m, s, t, t + Length(s, m, A))
  BY <1>1, <1>2 DEF OfferedIn
<1>4. c \in WorkRules(m, s) \X (0 .. DayEnd) /\ rule[r].from <= t /\ t + Length(s, m, A) <= rule[r].to
  BY <1>1, <1>3 DEF Cursors
<1>5. t \in Nat
  BY <1>1, <1>4, OfferAssumption
<1>. QED
  BY <1>1, <1>2, <1>3, <1>4, <1>5

(* Fewer turns in the way leave room where more of them did.                *)
LEMMA RoomWithFewer ==
  ASSUME OfferTypeOK, NEW s \in Services, NEW S \in SUBSET Turns, NEW T \in SUBSET S, ~NoRoom(s, S)
  PROVE  ~NoRoom(s, T) /\ Cardinality(T) < Capacity[s]
<1>1. IsFiniteSet(S) /\ IsFiniteSet(T)
  BY OfferAssumption, FS_Subset
<1>2. Cardinality(T) <= Cardinality(S) /\ Cardinality(T) \in Nat /\ Cardinality(S) \in Nat
  BY <1>1, FS_Subset, FS_CardinalityType
<1>3. ~(Cardinality(S) >= Capacity[s]) /\ Capacity[s] \in Nat
  BY OfferAssumption DEF NoRoom
<1>4. Cardinality(T) < Capacity[s]
  BY <1>2, <1>3
<1>5. ~(Cardinality(T) >= Capacity[s])
  BY <1>2, <1>3
<1>. QED
  BY <1>4, <1>5 DEF NoRoom

LEMMA SlotIsOpen ==
  ASSUME OfferTypeOK, NEW m \in Members, NEW s \in Services, NEW A \in AddonSets,
         NEW t \in Slots(m, s, A), NEW i \in t .. t + Length(s, m, A) - 1
  PROVE  OpenAt(m, s, i)
<1> DEFINE L == Length(s, m, A)   u == t + L
           now == {x \in Turns : turn[x] # Nil /\ turn[x].m = m /\ turn[x].from <= i /\ i < turn[x].to}
           busy == Busy(m, t, u)
<1>1. PICK r \in WorkRules(m, s) : <<r, t>> \in FreeIn(m, s, A)
  BY SlotIsFree
<1>2. /\ t \in Nat /\ rule[r].from <= t /\ u <= rule[r].to
      /\ Attended(m, s, t, u) /\ ~NoRoom(s, busy)
  BY <1>1, FreeMeans
<1>3. L \in Nat /\ u \in Nat
  <2>1. A \in SUBSET Services
    BY OfferAssumption
  <2>2. L \in Nat
    BY <2>1, LengthIsNat
  <2> HIDE DEF L
  <2>. QED
    BY <2>2, <1>2
<1>4. i \in t .. t + L - 1
  OBVIOUS
<1> HIDE DEF L
<1>5. i \in Int /\ t <= i /\ i < u
  BY <1>2, <1>3, <1>4
<1> HIDE DEF u
<1>6. r \in Rules /\ rule[r] # Nil /\ rule[r].m = m /\ rule[r].kind = "work" /\ m \notin WalkInOnly
  BY DEF WorkRules, RulesOf
<1>7. rule[r] \in RuleRow
  BY <1>6, TypeParts DEF HoursType
<1>8. rule[r].from <= i /\ i < rule[r].to
  <2>1. rule[r].from \in Nat /\ rule[r].to \in Nat
    BY <1>7 DEF RuleRow
  <2>. QED
    BY <2>1, <1>2, <1>3, <1>5
<1>9. ASSUME NEW q \in Rules, rule[q] # Nil, rule[q].m = m, rule[q].kind # "work",
             mapped[q] = {} \/ s \in mapped[q], rule[q].from <= i, i < rule[q].to
      PROVE  FALSE
  <2>1. q \in Barriers(m, s)
    BY <1>9 DEF Barriers, WorkRules, RulesOf, Applies
  <2>2. ~(t < rule[q].to /\ rule[q].from < u)
    BY <2>1, <1>2 DEF Attended, Overlap
  <2>3. rule[q] \in RuleRow
    BY <1>9, TypeParts DEF HoursType
  <2>4. rule[q].from \in Nat /\ rule[q].to \in Nat
    BY <2>3 DEF RuleRow
  <2>. QED
    BY <2>2, <2>4, <1>2, <1>3, <1>5, <1>9
<1>10. ASSUME NEW h \in off, h.m = m, h.from <= i, i < h.to PROVE FALSE
  <2>1. ~(t < h.to /\ h.from < u)
    BY <1>2, <1>10 DEF Attended, Overlap
  <2>2. h.from \in Nat /\ h.to \in Nat
    BY TypeParts DEF HoursType
  <2>. QED
    BY <2>1, <2>2, <1>2, <1>3, <1>5, <1>10
<1>11. now \in SUBSET busy
  <2> SUFFICES ASSUME NEW x \in now PROVE x \in busy
    OBVIOUS
  <2>1. x \in Turns /\ turn[x] \in Turn /\ turn[x] # Nil /\ turn[x].m = m
        /\ turn[x].from <= i /\ i < turn[x].to
    BY TypeParts DEF TurnsType
  <2>2. turn[x].from \in Nat /\ turn[x].to \in Nat /\ turn[x].is \in {"turn", "hold", "done"}
    BY <2>1 DEF Turn
  <2>3. t < turn[x].to /\ turn[x].from < u
    BY <2>1, <2>2, <1>2, <1>3, <1>5
  <2>. QED
    BY <2>1, <2>2, <2>3 DEF Busy, TurnsIn, Overlap
<1>12. busy \in SUBSET Turns
  BY DEF Busy, TurnsIn
<1> HIDE DEF busy
<1>13. ~NoRoom(s, now) /\ Cardinality(now) < Capacity[s]
  BY <1>2, <1>11, <1>12, RoomWithFewer
<1>14. \A x \in now : turn[x].s = s
  BY <1>13 DEF NoRoom
<1>. QED
  BY <1>6, <1>8, <1>9, <1>10, <1>13, <1>14 DEF OpenAt

(* prepareSlotInputs and buildSlotsWithCounts: for any rules, services with *)
(* add-ons, time off and turns, at every instant of a slot offered the      *)
(* professional works, nothing closes those hours, nobody has another       *)
(* service then and a place is left.                                        *)
THEOREM OfferedIsOpenHolds == OfferSpec => []OfferedIsOpen
<1>1. OfferTypeOK => OfferedIsOpen
  BY SlotIsOpen DEF OfferedIsOpen
<1>. QED
  BY <1>1, OfferTypeInit, OfferTypeStep, PTL DEF OfferSpec

(* bookForMembership and assertNoConflict, written apart from the slots,    *)
(* refuse none of them: whatever is offered of a professional whose         *)
(* subscription is in force can be booked.                                  *)
THEOREM OfferedIsAcceptedHolds == OfferSpec => []OfferedIsAccepted
<1>1. ASSUME OfferTypeOK, NEW m \in Members \ Lapsed, NEW s \in Services, NEW A \in AddonSets,
             service[s].active, NEW t \in Slots(m, s, A)
      PROVE  ~Refused(m, s, t) /\ ~Conflict(m, s, t, t + Length(s, m, A))
  <2> DEFINE L == Length(s, m, A)   u == t + L   all == Busy(m, t, u)
             some == TurnsIn(m, {"turn", "hold"}, t, u)
  <2>1. PICK r \in WorkRules(m, s) : <<r, t>> \in FreeIn(m, s, A)
    BY SlotIsFree
  <2>2. Given(s, m) /\ t \in Nat /\ Attended(m, s, t, u) /\ ~NoRoom(s, all) /\ InWindow(t)
    BY <2>1, SlotIsFree, FreeMeans
  <2>3. L \in Nat \ {0}
    <3>1. A \in SUBSET Services
      BY OfferAssumption
    <3>. QED
      BY <3>1, LengthIsNat
  <2>4. some \in SUBSET all /\ all \in SUBSET Turns
    BY DEF Busy, TurnsIn
  <2>5. u \in Nat /\ t < u
    <3> HIDE DEF L
    <3>. QED
      BY <2>2, <2>3
  <2> HIDE DEF L, u
  <2>6. ~IsWalkInAt(m, s, t)
    <3>1. m \notin WalkInOnly
      BY DEF WorkRules
    <3>2. ASSUME NEW q \in RulesOf(m, s), rule[q].kind = "walkIn", rule[q].from <= t, t < rule[q].to
          PROVE  FALSE
      <4>1. q \in Barriers(m, s)
        BY <3>2 DEF Barriers, WorkRules
      <4>2. ~(t < rule[q].to /\ rule[q].from < u)
        BY <4>1, <2>2 DEF Attended, Overlap
      <4>3. rule[q] \in RuleRow
        BY <1>1, TypeParts DEF HoursType, RulesOf
      <4>4. rule[q].from \in Nat /\ rule[q].to \in Nat
        BY <4>3 DEF RuleRow
      <4>. QED
        BY <4>2, <4>4, <2>2, <2>5, <3>2
    <3>. QED
      BY <3>1, <3>2 DEF IsWalkInAt
  <2> HIDE DEF all, some
  <2>7. ~NoRoom(s, some)
    BY <1>1, <2>2, <2>4, RoomWithFewer
  <2>. QED
    BY <1>1, <2>2, <2>6, <2>7 DEF Refused, Conflict, some, u, L
<1>2. OfferTypeOK => OfferedIsAccepted
  BY <1>1 DEF OfferedIsAccepted
<1>. QED
  BY <1>2, OfferTypeInit, OfferTypeStep, PTL DEF OfferSpec
-----------------------------------------------------------------------------
(* What the rules were meant for.  The invariant says where an edit may     *)
(* have left a rule with directions that are not those of its last edit:    *)
(* between the two statements of the one under way, or after a cut there.   *)
MeantInv ==
  /\ OfferTypeOK
  /\ \A r \in Rules : r \notin torn
       /\ ~(ruleEdit # Nil /\ ruleEdit.rule = r /\ ruleEdit.at = "map") => mapped[r] = meant[r]
  /\ ruleEdit # Nil /\ ruleEdit.at = "map" =>
       mapped[ruleEdit.rule] = {} /\ meant[ruleEdit.rule] = ruleEdit.to

LEMMA MeantCreate ==
  ASSUME MeantInv, OfferTypeOK', NEW r \in Rules, NEW m, NEW h, NEW S \in SUBSET Services, CreateRule(r, m, h, S)
  PROVE  MeantInv'
<1> DEFINE e == [at |-> "map", rule |-> r, to |-> S]
<1>1. /\ ruleEdit = Nil /\ mapped' = [mapped EXCEPT ![r] = {}] /\ meant' = [meant EXCEPT ![r] = S]
      /\ ruleEdit' = (IF S = {} THEN Nil ELSE e) /\ torn' = torn
  BY DEF CreateRule
<1>2. e # Nil /\ e.at = "map" /\ e.rule = r /\ e.to = S
  BY OfferAssumption DEF RuleEdit
<1> HIDE DEF e
<1>3. mapped \in [Rules -> SUBSET Services] /\ meant \in [Rules -> SUBSET Services]
  BY TypeParts DEF MeantInv, HoursType
<1>. QED
  BY <1>1, <1>2, <1>3 DEF MeantInv

LEMMA MeantUpdate ==
  ASSUME MeantInv, OfferTypeOK', NEW r \in Rules, NEW h, NEW S \in SUBSET Services, NEW direct,
         UpdateRule(r, h, S, direct)
  PROVE  MeantInv'
<1> DEFINE e == [at |-> "check", rule |-> r, to |-> S]
<1>1. /\ ruleEdit = Nil /\ UNCHANGED <<mapped, meant, torn>>
      /\ ruleEdit' = (IF direct THEN e ELSE Nil)
  BY DEF UpdateRule
<1>2. e.at # "map"
  OBVIOUS
<1> HIDE DEF e
<1>. QED
  BY <1>1, <1>2 DEF MeantInv

LEMMA MeantUnmap == ASSUME MeantInv, OfferTypeOK', RuleUnmap PROVE MeantInv'
<1> DEFINE r == ruleEdit.rule   S == ruleEdit.to   e == [ruleEdit EXCEPT !.at = "map"]
<1>1. ruleEdit \in RuleEdit /\ ruleEdit # Nil /\ ruleEdit.at = "check"
  BY TypeParts DEF MeantInv, HoursType, RuleUnmap
<1>2. e \in RuleEdit /\ e.at = "map" /\ e.rule = r /\ e.to = S /\ r \in Rules
  BY <1>1 DEF RuleEdit
<1>3. e # Nil
  BY <1>2, OfferAssumption
<1>4. \/ /\ mapped' = [mapped EXCEPT ![r] = {}] /\ meant' = [meant EXCEPT ![r] = S]
         /\ torn' = (IF S = {} THEN torn \ {r} ELSE torn)
         /\ ruleEdit' = (IF S = {} THEN Nil ELSE e)
      \/ ruleEdit' = Nil /\ UNCHANGED <<mapped, meant, torn>>
  BY DEF RuleUnmap, Undirect
<1>5. mapped \in [Rules -> SUBSET Services] /\ meant \in [Rules -> SUBSET Services]
  BY TypeParts DEF MeantInv, HoursType
<1>6. \A q \in Rules : q \notin torn => mapped[q] = meant[q]
  BY <1>1 DEF MeantInv
<1> HIDE DEF e, r, S
<1>7. CASE ruleEdit' = Nil /\ UNCHANGED <<mapped, meant, torn>>
  BY <1>6, <1>7 DEF MeantInv
<1>8. CASE /\ mapped' = [mapped EXCEPT ![r] = {}] /\ meant' = [meant EXCEPT ![r] = S]
           /\ torn' = (IF S = {} THEN torn \ {r} ELSE torn)
           /\ ruleEdit' = (IF S = {} THEN Nil ELSE e)
  <2>1. /\ mapped'[r] = {} /\ meant'[r] = S
        /\ \A q \in Rules \ {r} : mapped'[q] = mapped[q] /\ meant'[q] = meant[q]
    BY <1>2, <1>5, <1>8
  <2>2. \A q \in Rules \ {r} : q \notin torn' => mapped'[q] = meant'[q]
    BY <1>6, <1>8, <2>1
  <2>3. CASE S = {}
    <3>1. \A q \in Rules : q \notin torn' => mapped'[q] = meant'[q]
      BY <2>1, <2>2, <2>3
    <3>2. ruleEdit' = Nil
      BY <1>8, <2>3
    <3>. QED
      BY <3>1, <3>2 DEF MeantInv
  <2>4. CASE S # {}
    <3>1. ruleEdit' = e
      BY <1>8, <2>4
    <3>. QED
      BY <1>2, <1>3, <2>1, <2>2, <3>1 DEF MeantInv
  <2>. QED
    BY <2>3, <2>4
<1>. QED
  BY <1>4, <1>7, <1>8

LEMMA MeantMap == ASSUME MeantInv, OfferTypeOK', RuleMap PROVE MeantInv'
<1> DEFINE r == ruleEdit.rule   S == ruleEdit.to
<1>1. ruleEdit \in RuleEdit /\ ruleEdit # Nil /\ ruleEdit.at = "map"
  BY TypeParts DEF MeantInv, HoursType, RuleMap
<1>2. r \in Rules
  BY <1>1 DEF RuleEdit
<1>3. mapped[r] = {} /\ meant[r] = S /\ \A q \in Rules \ {r} : q \notin torn => mapped[q] = meant[q]
  BY <1>1 DEF MeantInv
<1>4. /\ mapped' = [mapped EXCEPT ![r] = @ \cup S] /\ meant' = meant
      /\ torn' = torn \ {r} /\ ruleEdit' = Nil
  BY DEF RuleMap
<1>5. mapped \in [Rules -> SUBSET Services] /\ meant \in [Rules -> SUBSET Services]
  BY TypeParts DEF MeantInv, HoursType
<1> HIDE DEF r, S
<1>6. mapped'[r] = S /\ \A q \in Rules \ {r} : mapped'[q] = mapped[q]
  BY <1>2, <1>3, <1>4, <1>5
<1>. QED
  BY <1>2, <1>3, <1>4, <1>6 DEF MeantInv

LEMMA MeantDelete == ASSUME MeantInv, OfferTypeOK', NEW r \in Rules, DeleteRule(r) PROVE MeantInv'
<1>1. /\ ruleEdit = Nil /\ ruleEdit' = Nil /\ torn' = torn \ {r}
      /\ mapped' = [mapped EXCEPT ![r] = {}] /\ meant' = [meant EXCEPT ![r] = {}]
  BY DEF DeleteRule
<1>2. mapped \in [Rules -> SUBSET Services] /\ meant \in [Rules -> SUBSET Services]
  BY TypeParts DEF MeantInv, HoursType
<1>. QED
  BY <1>1, <1>2 DEF MeantInv

LEMMA MeantBreaks == ASSUME MeantInv, OfferTypeOK', RuleEditBreaks PROVE MeantInv'
<1>1. /\ ruleEdit # Nil /\ ruleEdit' = Nil /\ UNCHANGED <<mapped, meant>>
      /\ torn' = IF ruleEdit.at = "map" THEN torn \cup {ruleEdit.rule} ELSE torn
  BY DEF RuleEditBreaks
<1>. QED
  BY <1>1 DEF MeantInv

LEMMA MeantStays ==
  ASSUME MeantInv, OfferTypeOK', UNCHANGED <<mapped, ruleEdit, meant, torn>> PROVE MeantInv'
  BY DEF MeantInv

LEMMA MeantStep == ASSUME MeantInv, [OfferNext]_offerVars PROVE MeantInv'
<1>1. OfferTypeOK'
  BY OfferTypeStep DEF MeantInv
<1>2. CASE \E x \in Turns, s \in Services, A \in AddonSets, t \in 0 .. DayEnd, is \in {"turn", "hold"} :
             RankCandidates(x, s, A, t, is) \/ \E m \in Members : BookMember(x, m, s, A, t, is)
  BY <1>1, <1>2, MeantStays DEF RankCandidates, BookMember, turnFrame, hoursVars
<1>3. CASE \E x \in Turns : \/ \E m \in Members : TryCandidate(x, m)
                            \/ \E is \in {"done", "turn", "gone"} : TurnMoves(x, is)
  BY <1>1, <1>3, MeantStays DEF TryCandidate, TurnMoves, turnFrame, hoursVars
<1>4. CASE \E r \in Rules, h \in Shapes, S \in SUBSET Services :
             \/ \E m \in Members : CreateRule(r, m, h, S)
             \/ \E direct \in BOOLEAN : (direct \/ S = {}) /\ UpdateRule(r, h, S, direct)
  BY <1>1, <1>4, MeantCreate, MeantUpdate
<1>5. CASE RuleUnmap \/ RuleMap \/ RuleEditBreaks
  BY <1>1, <1>5, MeantUnmap, MeantMap, MeantBreaks
<1>6. CASE ServiceStep \/ ServiceEditBreaks \/ TickPasses
  BY <1>1, <1>6, MeantStays DEF ServiceStep, ServiceEditBreaks, TickPasses, shopFrame, hoursVars
<1>7. CASE \E r \in Rules : DeleteRule(r)
  BY <1>1, <1>7, MeantDelete
<1>8. CASE \E m \in Members : (\E h \in OffTimes : CreateTimeOff(m, h)) \/ ConnectMp(m) \/ DisconnectMp(m)
  BY <1>1, <1>8, MeantStays DEF CreateTimeOff, ConnectMp, DisconnectMp, shopFrame, hoursVars
<1>9. CASE \E h \in off : DeleteTimeOff(h)
  BY <1>1, <1>9, MeantStays DEF DeleteTimeOff
<1>10. CASE \E s \in Services, online \in BOOLEAN, M \in SUBSET Members :
              CreateService(s, online, M) \/ UpdateService(s, online, M)
  BY <1>1, <1>10, MeantStays DEF CreateService, UpdateService, shopFrame, hoursVars
<1>11. CASE \E s \in Services : DeactivateService(s)
  BY <1>1, <1>11, MeantStays DEF DeactivateService, shopFrame, hoursVars
<1>12. CASE UNCHANGED offerVars
  BY <1>1, <1>12, MeantStays DEF offerVars, hoursVars
<1>. QED
  BY <1>2, <1>3, <1>4, <1>5, <1>6, <1>7, <1>8, <1>9, <1>10, <1>11, <1>12 DEF OfferNext

(* ScheduleService saves a rule and its services in several statements: a   *)
(* slot outside the hours meant for its service is offered only while such  *)
(* an edit is under way or after one was cut short, however many there are. *)
THEOREM OfferedAsMeantHolds == OfferSpec => []OfferedAsMeant
<1>1. OfferInit => MeantInv
  BY OfferTypeInit DEF OfferInit, MeantInv
<1>2. MeantInv /\ [OfferNext]_offerVars => MeantInv'
  BY MeantStep
<1>3. MeantInv => OfferedAsMeant
  <2> SUFFICES ASSUME MeantInv, NEW m \in Members, NEW s \in Services, NEW A \in AddonSets,
                      NEW t \in Slots(m, s, A)
               PROVE  \E r \in WorkRules(m, s) :
                        /\ rule[r].from <= t /\ t + Length(s, m, A) <= rule[r].to
                        /\ \/ meant[r] = {} \/ s \in meant[r] \/ r \in torn
                           \/ ruleEdit # Nil /\ ruleEdit.rule = r
    BY DEF OfferedAsMeant
  <2>1. PICK r \in WorkRules(m, s) : <<r, t>> \in FreeIn(m, s, A)
    BY SlotIsFree
  <2>2. rule[r].from <= t /\ t + Length(s, m, A) <= rule[r].to
    BY <2>1, FreeMeans
  <2>3. r \in Rules /\ (mapped[r] = {} \/ s \in mapped[r])
    BY DEF WorkRules, RulesOf, Applies
  <2>4. r \in torn \/ mapped[r] = meant[r] \/ (ruleEdit # Nil /\ ruleEdit.rule = r)
    BY <2>3 DEF MeantInv
  <2>. QED
    BY <2>2, <2>3, <2>4
<1>. QED
  BY <1>1, <1>2, <1>3, PTL DEF OfferSpec
-----------------------------------------------------------------------------
(* The chip of a service is a fold over the chips of those who give it, in  *)
(* whatever order.  As with sums, the recursive function behind the fold is *)
(* a CHOOSE: it exists for every finite set, and it is unique.              *)
Chips == {"available", "full", "time_off", "walk_in", "closed"}
IsFold(g, S) == g = [c \in SUBSET S |-> IF c = {} THEN "closed" ELSE Winner(First(c), g[c \ {First(c)}])]
TheFold(S) == CHOOSE g : IsFold(g, S)
Won(S) == FoldSet(Winner, "closed", S)

LEMMA FoldIsChosen == ASSUME NEW S PROVE Won(S) = TheFold(S)[S]
  BY DEF Won, FoldSet, MapThenFoldSet, TheFold, IsFold, First

LEMMA FoldUnfolds ==
  ASSUME NEW g, NEW S, IsFold(g, S), NEW c \in SUBSET S
  PROVE  g[c] = IF c = {} THEN "closed" ELSE Winner(First(c), g[c \ {First(c)}])
  BY DEF IsFold

LEMMA FoldsAgree ==
  ASSUME NEW g, NEW h, NEW S, NEW T, IsFiniteSet(S), IsFold(g, S), IsFold(h, T), S \subseteq T
  PROVE  \A c \in SUBSET S : g[c] = h[c]
<1> DEFINE G == {c \in SUBSET S : g[c] = h[c]}
<1>1. ASSUME NEW c \in SUBSET S, \A d \in SUBSET c : d # c => d \in G
      PROVE  c \in G
  <2>1. g[c] = (IF c = {} THEN "closed" ELSE Winner(First(c), g[c \ {First(c)}]))
    BY FoldUnfolds
  <2>2. h[c] = (IF c = {} THEN "closed" ELSE Winner(First(c), h[c \ {First(c)}]))
    BY FoldUnfolds
  <2>3. c # {} => c \ {First(c)} \in G
    BY <1>1, FirstIsIn
  <2>. QED
    BY <2>1, <2>2, <2>3
<1> HIDE DEF G
<1>2. \A c \in SUBSET S : c \in G
  BY <1>1, SubsetInduction
<1>. QED
  BY <1>2 DEF G

LEMMA FoldExists == ASSUME NEW S, IsFiniteSet(S) PROVE IsFold(TheFold(S), S)
<1> DEFINE G == {T \in SUBSET S : IsFold(TheFold(T), T)}
<1>1. ASSUME NEW T \in SUBSET S, \A U \in SUBSET T : U # T => U \in G
      PROVE  T \in G
  <2> DEFINE won(u) == TheFold(u)[u]
             step(u) == IF u = {} THEN "closed" ELSE Winner(First(u), won(u \ {First(u)}))
             g == [u \in SUBSET T |-> step(u)]
  <2>1. ASSUME NEW U \in SUBSET T, U # T PROVE won(U) = step(U)
    <3>1. IsFold(TheFold(U), U)
      BY <1>1, <2>1
    <3>2. won(U) = IF U = {} THEN "closed" ELSE Winner(First(U), TheFold(U)[U \ {First(U)}])
      BY <3>1, FoldUnfolds
    <3>3. CASE U = {}
      BY <3>2, <3>3
    <3>4. CASE U # {}
      <4> DEFINE V == U \ {First(U)}
      <4>1. V \in SUBSET T /\ V # T /\ V \subseteq U
        BY <2>1, <3>4, FirstIsIn
      <4>2. IsFold(TheFold(V), V) /\ IsFiniteSet(V)
        BY <1>1, <4>1, FS_Subset
      <4> HIDE DEF V
      <4>3. \A c \in SUBSET V : TheFold(V)[c] = TheFold(U)[c]
        BY <3>1, <4>1, <4>2, FoldsAgree
      <4>4. TheFold(V)[V] = TheFold(U)[V]
        BY <4>3
      <4>. QED
        BY <3>2, <3>4, <4>4 DEF V
    <3>. QED
      BY <3>3, <3>4
  <2>2. ASSUME NEW c \in SUBSET T, c # {} PROVE g[c \ {First(c)}] = won(c \ {First(c)})
    <3>1. c \ {First(c)} \in SUBSET T /\ c \ {First(c)} # T
      BY <2>2, FirstIsIn
    <3>2. g[c \ {First(c)}] = step(c \ {First(c)})
      BY <3>1
    <3>3. won(c \ {First(c)}) = step(c \ {First(c)})
      BY <3>1, <2>1
    <3>. QED
      BY <3>2, <3>3
  <2>3. \A c \in SUBSET T : step(c) = IF c = {} THEN "closed" ELSE Winner(First(c), g[c \ {First(c)}])
    BY <2>2
  <2>4. IsFold(g, T)
    <3> HIDE DEF step
    <3> QED BY <2>3 DEF IsFold
  <2> HIDE DEF g
  <2>5. IsFold(TheFold(T), T)
    BY <2>4 DEF TheFold
  <2>. QED
    BY <2>5
<1> HIDE DEF G
<1>2. S \in G
  BY <1>1, SubsetInduction
<1>. QED
  BY <1>2 DEF G

LEMMA WonUnfolds ==
  ASSUME NEW S, IsFiniteSet(S)
  PROVE  Won(S) = IF S = {} THEN "closed" ELSE Winner(First(S), Won(S \ {First(S)}))
<1> DEFINE T == S \ {First(S)}
<1>1. IsFiniteSet(T) /\ T \subseteq S
  BY FS_Subset
<1>2. IsFold(TheFold(S), S) /\ IsFold(TheFold(T), T)
  BY <1>1, FoldExists
<1>3. TheFold(T)[T] = TheFold(S)[T]
  <2> HIDE DEF T
  <2>1. \A c \in SUBSET T : TheFold(T)[c] = TheFold(S)[c]
    BY <1>1, <1>2, FoldsAgree
  <2>. QED
    BY <2>1
<1>4. TheFold(S)[S] = IF S = {} THEN "closed" ELSE Winner(First(S), TheFold(S)[T])
  BY <1>2, FoldUnfolds
<1>. QED
  BY <1>3, <1>4, FoldIsChosen

LEMMA ChipsAreFew == IsFiniteSet(Chips)
<1>1. IsFiniteSet({"available"} \cup {"full"}) /\ IsFiniteSet({"time_off"} \cup {"walk_in"})
  BY FS_Singleton, FS_Union
<1>2. IsFiniteSet(({"available"} \cup {"full"}) \cup ({"time_off"} \cup {"walk_in"}))
  BY <1>1, FS_Union
<1>3. IsFiniteSet((({"available"} \cup {"full"}) \cup ({"time_off"} \cup {"walk_in"})) \cup {"closed"})
  BY <1>2, FS_AddElement
<1>4. Chips = (({"available"} \cup {"full"}) \cup ({"time_off"} \cup {"walk_in"})) \cup {"closed"}
  BY DEF Chips
<1>. QED
  BY <1>3, <1>4

LEMMA WinnerOfTwo ==
  ASSUME NEW a \in Chips, NEW b \in Chips
  PROVE  Winner(a, b) \in Chips /\ (Winner(a, b) = "available" <=> a = "available" \/ b = "available")
  BY DEF Chips, Winner, ChipRank

(* An available chip wins over all the others, and no other set has one.    *)
LEMMA AvailableWins ==
  ASSUME NEW S \in SUBSET Chips, IsFiniteSet(S)
  PROVE  Won(S) = "available" <=> "available" \in S
<1> DEFINE G == {T \in SUBSET S : Won(T) \in Chips /\ (Won(T) = "available" <=> "available" \in T)}
<1>1. ASSUME NEW T \in SUBSET S, \A U \in SUBSET T : U # T => U \in G
      PROVE  T \in G
  <2>1. IsFiniteSet(T)
    BY FS_Subset
  <2>2. CASE T = {}
    <3>1. Won(T) = "closed"
      BY <2>1, <2>2, WonUnfolds
    <3>. QED
      BY <2>2, <3>1 DEF Chips
  <2>3. CASE T # {}
    <3> DEFINE a == First(T)   U == T \ {a}   b == Won(U)
    <3>1. a \in T /\ U \in G
      BY <1>1, <2>3, FirstIsIn
    <3>2. Won(T) = Winner(a, b)
      BY <2>1, <2>3, WonUnfolds
    <3>3. b \in Chips /\ (b = "available" <=> "available" \in U) /\ a \in Chips
      BY <3>1
    <3> HIDE DEF a, b
    <3>4. Winner(a, b) \in Chips /\ (Winner(a, b) = "available" <=> a = "available" \/ b = "available")
      BY <3>3, WinnerOfTwo
    <3>5. "available" \in T <=> a = "available" \/ "available" \in U
      BY <3>1
    <3>. QED
      BY <3>2, <3>3, <3>4, <3>5
  <2>. QED
    BY <2>2, <2>3
<1> HIDE DEF G
<1>2. S \in G
  BY <1>1, SubsetInduction
<1>. QED
  BY <1>2 DEF G

LEMMA ChipOfFree ==
  ASSUME NEW m, NEW s, NEW A
  PROVE  Chip(m, s, A) \in Chips /\ (Chip(m, s, A) = "available" <=> FreeIn(m, s, A) # {})
  BY DEF Chip, Chips

(* mergeDayAvailability and the list of slots are computed apart: in every  *)
(* state they say the same of a day, however many give the service.         *)
THEOREM ChipTellsSlotsHolds == OfferSpec => []ChipTellsSlots
<1>1. ASSUME NEW s \in Services, NEW A \in AddonSets
      PROVE  ServiceChip(s, A) = "available" <=> ServiceSlots(s, A) # {}
  <2> DEFINE S == {Chip(m, s, A) : m \in Givers(s)}
  <2>1. S \in SUBSET Chips
    BY ChipOfFree
  <2>2. IsFiniteSet(Chips)
    BY ChipsAreFew
  <2>3. IsFiniteSet(S)
    BY <2>1, <2>2, FS_Subset
  <2>4. "available" \in S <=> \E m \in Givers(s) : FreeIn(m, s, A) # {}
    BY ChipOfFree
  <2>5. ServiceChip(s, A) = Won(S)
    BY DEF ServiceChip, Won
  <2> HIDE DEF S
  <2>6. ServiceChip(s, A) = "available" <=> \E m \in Givers(s) : FreeIn(m, s, A) # {}
    BY <2>1, <2>3, <2>4, <2>5, AvailableWins
  <2>7. \A m \in Givers(s) : Slots(m, s, A) = {c[2] : c \in FreeIn(m, s, A)}
    BY DEF Slots, Given, Givers
  <2>8. \A m \in Givers(s) : Slots(m, s, A) # {} <=> FreeIn(m, s, A) # {}
    BY <2>7
  <2>9. ServiceSlots(s, A) # {} <=> \E m \in Givers(s) : Slots(m, s, A) # {}
    BY DEF ServiceSlots
  <2>. QED
    BY <2>6, <2>8, <2>9
<1>2. ChipTellsSlots
  BY <1>1 DEF ChipTellsSlots
<1>. QED
  BY <1>2, PTL
-----------------------------------------------------------------------------
(* The rules that combine services.  The invariant is the index: the rules  *)
(* in force differ in a service or in the type.                             *)
IndexInv ==
  /\ combos \subseteq Combo
  /\ \A c, d \in combos : c.source = d.source /\ c.target = d.target /\ c.type = d.type => c = d

LEMMA CreateComboKeeps ==
  ASSUME IndexInv, NEW v \in Sellers, NEW s \in Items, NEW a \in Items, NEW type \in ComboTypes,
         NEW d \in Discount, CreateCombo(v, s, a, type, d)
  PROVE  IndexInv'
<1> DEFINE n == [seller |-> v, source |-> s, target |-> a, type |-> type, off |-> d]
<1>1. combos' = combos \cup {n} /\ \A c \in combos : ~(c.source = s /\ c.target = a /\ c.type = type)
  BY DEF CreateCombo, Unique
<1>2. n \in Combo /\ n.source = s /\ n.target = a /\ n.type = type
  BY DEF Combo
<1> HIDE DEF n
<1>. QED
  BY <1>1, <1>2 DEF IndexInv

LEMMA IndexStep == ASSUME IndexInv, [CombosNext]_comboVars PROVE IndexInv'
<1>1. NoDiscount \in Discount /\ Discounts \subseteq Discount
  BY CombosAssumption DEF NoDiscount, Discount
<1>2. CASE \E c \in combos : DeleteCombo(c)
  BY <1>2 DEF DeleteCombo, IndexInv
<1>3. CASE UNCHANGED comboVars
  BY <1>3 DEF comboVars, IndexInv
<1>4. ASSUME NEW v \in Sellers, NEW s \in Items, NEW a \in Items, NEW type \in ComboTypes,
             NEW d \in IF type = "discount" THEN Discounts ELSE {NoDiscount},
             CreateCombo(v, s, a, type, d)
      PROVE  IndexInv'
  <2>1. d \in Discount
    BY <1>1
  <2>. QED
    BY <1>4, <2>1, CreateComboKeeps
<1>. QED
  BY <1>2, <1>3, <1>4 DEF CombosNext

(* Of two amounts, Min takes one that is not above the other.               *)
LEMMA MinOfTwo ==
  ASSUME NEW x \in Int, NEW y \in Int
  PROVE  Min({x, y}) \in {x, y} /\ Min({x, y}) <= x /\ Min({x, y}) <= y
<1>1. \E z \in {x, y} : \A w \in {x, y} : z <= w
  <2>1. CASE x <= y
    BY <2>1
  <2>2. CASE y <= x
    BY <2>2
  <2>. QED
    BY <2>1, <2>2
<1>2. LET z == CHOOSE z \in {x, y} : \A w \in {x, y} : z <= w
      IN  z \in {x, y} /\ \A w \in {x, y} : z <= w
  BY <1>1
<1>. QED
  BY <1>2 DEF Min

LEMMA AppliedBounds ==
  ASSUME NEW price \in Nat, NEW d \in Discount
  PROVE  Applied(price, d) \in Int /\ 0 <= Applied(price, d) /\ Applied(price, d) <= price
<1> DEFINE x == IF d.kind = "percentage" THEN (price * d.amount + 5000) \div 10000 ELSE d.amount
<1>1. d.amount \in Nat
  BY DEF Discount
<1>2. price * d.amount \in Nat
  BY <1>1
<1>3. (price * d.amount + 5000) \div 10000 \in Nat
  BY <1>2
<1>4. x \in Nat
  BY <1>1, <1>3
<1>5. Applied(price, d) = Min({price, x})
  BY DEF Applied
<1> HIDE DEF x
<1>6. Min({price, x}) \in {price, x} /\ Min({price, x}) <= price
  BY <1>4, MinOfTwo
<1>. QED
  BY <1>4, <1>5, <1>6

LEMMA OffBounds ==
  ASSUME IndexInv, NEW v \in Sellers, NEW s \in Items, NEW a \in Items
  PROVE  Off(v, s, a) \in Int /\ 0 <= Off(v, s, a) /\ Off(v, s, a) <= ItemPrice[a]
<1> DEFINE D == RulesTo(v, s, a, {"discount"})
<1>1. ItemPrice[a] \in Nat
  BY CombosAssumption
<1>2. CASE RulesTo(v, s, a, {"free_with"}) # {}
  BY <1>1, <1>2 DEF Off
<1>3. CASE RulesTo(v, s, a, {"free_with"}) = {} /\ D = {}
  BY <1>1, <1>3 DEF Off
<1>4. CASE RulesTo(v, s, a, {"free_with"}) = {} /\ D # {}
  <2> DEFINE c == CHOOSE c \in D : TRUE
  <2>1. c \in D
    BY <1>4
  <2>2. c \in Combo
    BY <2>1 DEF RulesTo, IndexInv
  <2>3. Off(v, s, a) = Applied(ItemPrice[a], c.off)
    BY <1>4 DEF Off
  <2> HIDE DEF c
  <2>4. c.off \in Discount
    BY <2>2 DEF Combo
  <2>. QED
    BY <1>1, <2>3, <2>4, AppliedBounds
<1>. QED
  BY <1>2, <1>3, <1>4

LEMMA OneDiscount ==
  ASSUME IndexInv, NEW v, NEW s, NEW a
  PROVE  Cardinality(RulesTo(v, s, a, {"discount"})) <= 1
<1> DEFINE D == RulesTo(v, s, a, {"discount"})
<1>1. \A c, d \in D : c = d
  BY DEF RulesTo, IndexInv
<1> HIDE DEF D
<1>2. CASE D = {}
  BY <1>2, FS_EmptySet DEF D
<1>3. CASE D # {}
  <2>1. PICK c \in D : TRUE
    BY <1>3
  <2>2. D = {c}
    BY <1>1, <2>1
  <2>3. Cardinality(D) = 1
    BY <2>2, FS_Singleton
  <2>. QED
    BY <2>3 DEF D
<1>. QED
  BY <1>2, <1>3

(* What is left of a selection, and what it costs.                          *)
LEMMA AcceptedNests ==
  ASSUME NEW v, NEW s, NEW A, NEW B \in SUBSET A, Accepted(v, s, A) PROVE Accepted(v, s, B)
  BY DEF Accepted, Enabled, Excluded

LEMMA CostSplits ==
  ASSUME IndexInv, NEW v \in Sellers, NEW s \in Items, NEW A \in SUBSET Items, NEW B \in SUBSET A
  PROVE  AddonsCost(v, s, A) = AddonsCost(v, s, B) + AddonsCost(v, s, A \ B)
<1> DEFINE f(S) == [a \in S |-> ItemPrice[a] - Off(v, s, a)]
<1>1. IsFiniteSet(A) /\ IsFiniteSet(B) /\ IsFiniteSet(A \ B)
  BY CombosAssumption, FS_Subset
<1>2. \A a \in A : f(A)[a] \in Int
  <2> SUFFICES ASSUME NEW a \in A PROVE ItemPrice[a] - Off(v, s, a) \in Int
    OBVIOUS
  <2>1. ItemPrice[a] \in Int /\ Off(v, s, a) \in Int
    BY OffBounds, CombosAssumption
  <2>. QED
    BY <2>1
<1>3. (\A a \in B : f(A)[a] = f(B)[a]) /\ \A a \in A \ B : f(A)[a] = f(A \ B)[a]
  OBVIOUS
<1>4. AddonsCost(v, s, A) = SumFunctionOnSet(f(A), A) /\ AddonsCost(v, s, B) = SumFunctionOnSet(f(B), B)
      /\ AddonsCost(v, s, A \ B) = SumFunctionOnSet(f(A \ B), A \ B)
  BY DEF AddonsCost
<1> HIDE DEF f
<1>5. SumFunctionOnSet(f(A), B) = SumFunctionOnSet(f(B), B)
      /\ SumFunctionOnSet(f(A), A \ B) = SumFunctionOnSet(f(A \ B), A \ B)
  BY <1>1, <1>3, SumSame
<1>6. SumFunctionOnSet(f(A), A) = SumFunctionOnSet(f(A), B) + SumFunctionOnSet(f(A), A \ B)
  BY <1>1, <1>2, SumSplits
<1>. QED
  BY <1>4, <1>5, <1>6

(* createRule's unique index: an add-on never has two discounts to choose   *)
(* from, and it costs from nothing to its price, whatever the percentage or *)
(* the amount, for any services, sellers and rules.                         *)
THEOREM AddonsPricedHolds == CombosSpec => []AddonsPriced
<1>1. CombosInit => IndexInv
  BY DEF CombosInit, IndexInv
<1>2. IndexInv /\ [CombosNext]_comboVars => IndexInv'
  BY IndexStep
<1>3. IndexInv => AddonsPriced
  BY OffBounds, OneDiscount DEF AddonsPriced
<1>. QED
  BY <1>1, <1>2, <1>3, PTL DEF CombosSpec

(* resolveAddons: what is left of a selection that is accepted is accepted, *)
(* no service of it excludes another, and the parts add up to the price.    *)
THEOREM SelectionsNestHolds == CombosSpec => []SelectionsNest
<1>1. CombosInit => IndexInv
  BY DEF CombosInit, IndexInv
<1>2. IndexInv /\ [CombosNext]_comboVars => IndexInv'
  BY IndexStep
<1>3. ASSUME NEW v, NEW s, NEW A, Accepted(v, s, A), NEW a \in A \cup {s}, NEW c \in combos,
             c.seller = v, c.type = "excludes", {c.source, c.target} \subseteq A \cup {s}
      PROVE  FALSE
  <2>1. c \in RulesTo(v, c.source, c.target, {"excludes"})
    BY <1>3 DEF RulesTo
  <2>. QED
    BY <1>3, <2>1 DEF Accepted, Excluded
<1>4. IndexInv => SelectionsNest
  <2> SUFFICES ASSUME IndexInv, NEW v \in Sellers, NEW s \in Items, NEW A \in SUBSET Items,
                      Accepted(v, s, A), NEW B \in SUBSET A
               PROVE  /\ Accepted(v, s, B)
                      /\ \A a \in A \cup {s}, c \in combos :
                           ~(c.seller = v /\ c.type = "excludes" /\ {c.source, c.target} \subseteq A \cup {s})
                      /\ AddonsCost(v, s, A) = AddonsCost(v, s, B) + AddonsCost(v, s, A \ B)
    BY DEF SelectionsNest
  <2>. QED
    BY <1>3, AcceptedNests, CostSplits
<1>. QED
  BY <1>1, <1>2, <1>4, PTL DEF CombosSpec
=============================================================================
