-------------------------------- MODULE Offer --------------------------------
(* What a comercio offers on ONE day: the schedule rules of its             *)
(* professionals and the services each is directed to, their time off, the  *)
(* services and who gives them (AvailabilityService, CatalogService), the   *)
(* slots computed from all that, and who may book one: a client who picked  *)
(* a professional or "anyone" (AppointmentsService).  Time is in ticks of   *)
(* the day.  A booking is one step here: Booking has its interleavings.     *)
EXTENDS Integers, FiniteSets, FiniteSetsExt

CONSTANTS
  Members,       \* active memberships of the comercio, one per professional
  Services,      \* ids of services
  Rules,         \* ids of schedule rules
  Turns,         \* ids of turns, a hold being one too
  Duration, Capacity,  \* of each service
  AddonSets,     \* the add-ons a client may ask for
  WalkInOnly,    \* members that never give turns
  Lapsed,        \* members whose subscription gives no access
  Lead, Ahead,   \* minBookingHours and maxBookingDays (0: no limit), in ticks
  DayEnd,        \* the ticks of the day are 0..DayEnd
  Shapes,        \* kind and hours the panel may give a rule
  OffTimes,      \* hours the panel may block
  FirstRules, FirstTurns, FirstServices,  \* what there may be at the start
  LastTick,      \* bound on time
  MaxCalls,      \* bound on edits from the panel and bookings
  MaxTears,      \* bound on edits cut short
  Nil            \* no row, nothing under way

RuleKinds == {"work", "walkIn", "break"}
Shape == [kind: RuleKinds, from: Nat, to: Nat]
Hours == [from: Nat, to: Nat]
RuleRow == [m: Members, kind: RuleKinds, from: Nat, to: Nat]
ServiceRow == [active: BOOLEAN, online: BOOLEAN]
Turn == [m: Members, s: Services, from: Nat, to: Nat, is: {"turn", "hold", "done"}]
RuleEdit == [at: {"check", "map"}, rule: Rules, to: SUBSET Services]

ASSUME OfferAssumption ==
  /\ IsFiniteSet(Members) /\ IsFiniteSet(Services) /\ IsFiniteSet(Turns)
  /\ Duration \in [Services -> Nat \ {0}] /\ Capacity \in [Services -> Nat \ {0}]
  /\ AddonSets \subseteq SUBSET Services /\ WalkInOnly \cup Lapsed \subseteq Members
  /\ Shapes \subseteq {h \in Shape : h.from < h.to} /\ OffTimes \subseteq {h \in Hours : h.from < h.to}
  /\ FirstRules \subseteq [Rules -> RuleRow \cup {Nil}]
  /\ FirstTurns \subseteq [Turns -> Turn \cup {Nil}]
  /\ FirstServices \subseteq [Services -> ServiceRow \cup {Nil}]
  /\ {Lead, Ahead, DayEnd, LastTick, MaxCalls, MaxTears} \subseteq Nat
  /\ Nil \notin RuleEdit

VARIABLES
  rule,         \* table schedule_rule
  mapped,       \* schedule_rule_service: services a rule is directed to, {} for all
  off,          \* table time_off
  service,      \* table service: active, and whether it is charged online
  assigned,     \* service_membership: who gives a service
  connected,    \* members with Mercado Pago connected
  turn,         \* turns and holds
  ruleEdit,     \* the edit of a rule under way
  serviceEdit,  \* the edit of a service under way, with its copy
  pick,         \* pick[x]: a booking with anyone: what it asks, candidates by load
  tick,         \* now
  meant,        \* history: services the last accepted edit directed a rule to
  torn,         \* history: rules whose edit was cut between its statements
  calls, tears  \* edits and bookings begun, edits cut short

hoursVars == <<rule, mapped, off, ruleEdit, meant, torn>>
shopVars == <<service, assigned, connected, serviceEdit>>
turnVars == <<turn, pick>>
offerVars == <<hoursVars, shopVars, turnVars, tick, calls, tears>>

ServiceEdit == [at: {"unassign", "assign", "save", "first"}, s: Services,
                members: SUBSET Members, copy: ServiceRow]
Pick == [s: Services, addons: SUBSET Services, from: Nat, cands: SUBSET Members,
         load: [Members -> Nat], is: {"turn", "hold"}]

Calls == calls < MaxCalls /\ calls' = calls + 1
-----------------------------------------------------------------------------
(* Slots (prepareSlotInputs, buildSlotsWithCounts).  A definition that a    *)
(* comment marks "bug" is a plausible defect of the one that follows it.    *)

(* bug: only what starts inside the interval counts *)
OverlapInside(a, b, c, d) == a < c /\ c < b
Overlap(a, b, c, d) == a < d /\ c < b

Given(s, m) == service[s] # Nil /\ m \in assigned[s]
Length(s, m, A) == Duration[s] + SumFunctionOnSet(Duration, {a \in A : Given(a, m)})

(* bug: a rule directed to other services applies to this one too *)
AppliesToAll(r, s) == TRUE
Applies(r, s) == mapped[r] = {} \/ s \in mapped[r]
RulesOf(m, s) == {r \in Rules : rule[r] # Nil /\ rule[r].m = m /\ Applies(r, s)}
WorkRules(m, s) == {r \in RulesOf(m, s) : rule[r].kind = "work" /\ m \notin WalkInOnly}
(* What gives no turns: breaks, and the hours attended in order of arrival. *)
Barriers(m, s) == RulesOf(m, s) \ WorkRules(m, s)

(* The cursor of each work rule steps by the length of what is asked.       *)
Cursors(m, s, A) ==
  {c \in WorkRules(m, s) \X (0 .. DayEnd) :
     /\ rule[c[1]].from <= c[2] /\ c[2] + Length(s, m, A) <= rule[c[1]].to
     /\ (c[2] - rule[c[1]].from) % Length(s, m, A) = 0}

Attended(m, s, t, u) ==
  /\ \A r \in Barriers(m, s) : ~Overlap(t, u, rule[r].from, rule[r].to)
  /\ \A h \in off : h.m = m => ~Overlap(t, u, h.from, h.to)
OfferedIn(m, s, A) == {c \in Cursors(m, s, A) : Attended(m, s, c[2], c[2] + Length(s, m, A))}

TurnsIn(m, kinds, t, u) ==
  {x \in Turns : turn[x] # Nil /\ turn[x].m = m /\ turn[x].is \in kinds
                 /\ Overlap(t, u, turn[x].from, turn[x].to)}
(* Another service, or the service's places are gone.                       *)
NoRoom(s, S) == \/ \E x \in S : turn[x].s # s
                \/ Cardinality(S) >= Capacity[s]
Busy(m, t, u) == TurnsIn(m, {"turn", "hold", "done"}, t, u)

InWindow(t) == t >= tick + Lead /\ (Ahead > 0 => t <= tick + Ahead)
FreeIn(m, s, A) ==
  {c \in OfferedIn(m, s, A) :
     ~NoRoom(s, Busy(m, c[2], c[2] + Length(s, m, A))) /\ InWindow(c[2])}
Slots(m, s, A) == IF Given(s, m) THEN {c[2] : c \in FreeIn(m, s, A)} ELSE {}

(* The day's chip of one professional, and of a service: the union of those *)
(* who give it.                                                             *)
Chip(m, s, A) ==
  CASE FreeIn(m, s, A) # {} -> "available"
    [] FreeIn(m, s, A) = {} /\ (\E h \in off : h.m = m) -> "time_off"
    [] OTHER -> IF WorkRules(m, s) # {} THEN "full"
                ELSE IF \/ m \in WalkInOnly
                        \/ \E r \in RulesOf(m, s) : rule[r].kind = "walkIn"
                     THEN "walk_in" ELSE "closed"
ChipRank == [available |-> 5, full |-> 4, time_off |-> 3, walk_in |-> 2, closed |-> 1]
(* bug: a chip that is full wins *)
WinnerFull(a, b) == IF a = "full" \/ b = "full" THEN "full"
                    ELSE IF ChipRank[b] > ChipRank[a] THEN b ELSE a
Winner(a, b) == IF ChipRank[b] > ChipRank[a] THEN b ELSE a
Givers(s) == IF service[s] = Nil THEN {} ELSE assigned[s]
ServiceChip(s, A) ==
  FoldSet(Winner, "closed", {Chip(m, s, A) : m \in Givers(s)})
ServiceSlots(s, A) == UNION {Slots(m, s, A) : m \in Givers(s)}
-----------------------------------------------------------------------------
(* Booking.                                                                 *)

(* isWalkInAt: the start is in hours attended in order of arrival.          *)
IsWalkInAt(m, s, t) ==
  \/ m \in WalkInOnly
  \/ \E r \in RulesOf(m, s) : rule[r].kind = "walkIn" /\ rule[r].from <= t /\ t < rule[r].to

(* bookForMembership then book or bookWithDeposit: refused outright, or for *)
(* a conflict that another professional may not have.                       *)
Refused(m, s, t) ==
  ~Given(s, m) \/ ~service[s].active \/ IsWalkInAt(m, s, t) \/ ~InWindow(t)
(* bug: the places of a shared service are forgotten *)
ConflictAny(m, s, t, u) == TurnsIn(m, {"turn", "hold"}, t, u) # {}
Conflict(m, s, t, u) == NoRoom(s, TurnsIn(m, {"turn", "hold"}, t, u))

(* The add-ons must be given by the same professional (resolveAddons).      *)
Addable(m, s, A) == s \notin A /\ \A a \in A : Given(a, m) /\ service[a].active

(* bug: a turn of several services is saved with none of them *)
NewTurnOfMany(m, s, A, t, is) ==
  [m |-> m, s |-> IF A = {} THEN s ELSE Nil, from |-> t, to |-> t + Length(s, m, A), is |-> is]
NewTurn(m, s, A, t, is) ==
  [m |-> m, s |-> s, from |-> t, to |-> t + Length(s, m, A), is |-> is]
turnFrame == <<hoursVars, shopVars, tick, tears>>

(* The public API takes any instant of the professional that was picked.    *)
BookMember(x, m, s, A, t, is) ==
  /\ Calls /\ turn[x] = Nil /\ pick[x] = Nil /\ m \notin Lapsed
  /\ Addable(m, s, A) /\ ~Refused(m, s, t) /\ ~Conflict(m, s, t, t + Length(s, m, A))
  /\ turn' = [turn EXCEPT ![x] = NewTurn(m, s, A, t, is)]
  /\ UNCHANGED <<pick, turnFrame>>

(* rankCandidates: who has that slot free, by the load of the day.          *)
Load(m) == Cardinality({x \in Turns : turn[x] # Nil /\ turn[x].m = m /\ turn[x].is = "turn"})
RankCandidates(x, s, A, t, is) ==
  LET cands == {m \in Members \ Lapsed : t \in Slots(m, s, A)}
  IN  /\ Calls /\ turn[x] = Nil /\ pick[x] = Nil /\ cands # {}
      /\ pick' = [pick EXCEPT ![x] =
           [s |-> s, addons |-> A, from |-> t, cands |-> cands,
            load |-> [m \in Members |-> IF m \in cands THEN Load(m) ELSE 0], is |-> is]]
      /\ UNCHANGED <<turn, turnFrame>>

(* The candidates are tried in order: a conflict goes on to the next one,   *)
(* any other refusal ends the call.                                         *)
TryCandidate(x, m) ==
  LET p == pick[x]
  IN  /\ pick[x] # Nil /\ m \in p.cands /\ \A n \in p.cands : p.load[m] <= p.load[n]
      /\ IF Refused(m, p.s, p.from) \/ ~Addable(m, p.s, p.addons)
         THEN UNCHANGED turn /\ pick' = [pick EXCEPT ![x] = Nil]
         ELSE IF Conflict(m, p.s, p.from, p.from + Length(p.s, m, p.addons))
         THEN /\ UNCHANGED turn
              /\ pick' = [pick EXCEPT ![x] = IF p.cands = {m} THEN Nil
                                             ELSE [p EXCEPT !.cands = @ \ {m}]]
         ELSE /\ turn' = [turn EXCEPT ![x] = NewTurn(m, p.s, p.addons, p.from, p.is)]
              /\ pick' = [pick EXCEPT ![x] = Nil]
      /\ UNCHANGED <<calls, turnFrame>>

(* Done or cancelled; a hold is paid for or expires.                        *)
TurnMoves(x, is) ==
  /\ turn[x] # Nil
  /\ \/ turn[x].is = "turn" /\ is = "done"
     \/ turn[x].is = "hold" /\ is = "turn"
     \/ turn[x].is # "done" /\ is = "gone"
  /\ turn' = [turn EXCEPT ![x] = IF is = "gone" THEN Nil ELSE [@ EXCEPT !.is = is]]
  /\ UNCHANGED <<pick, calls, turnFrame>>
-----------------------------------------------------------------------------
(* Schedule rules and time off, from the panel.                             *)

hoursFrame == <<shopVars, turnVars, tick>>
(* validateRuleServices *)
AllGiven(m, S) == \A s \in S : Given(s, m)

(* The rule is saved first, then the services it is directed to.            *)
CreateRule(r, m, shape, S) ==
  /\ Calls /\ ruleEdit = Nil /\ rule[r] = Nil /\ AllGiven(m, S)
  /\ rule' = [rule EXCEPT ![r] = [m |-> m, kind |-> shape.kind, from |-> shape.from, to |-> shape.to]]
  /\ mapped' = [mapped EXCEPT ![r] = {}] /\ meant' = [meant EXCEPT ![r] = S]
  /\ ruleEdit' = IF S = {} THEN Nil ELSE [at |-> "map", rule |-> r, to |-> S]
  /\ UNCHANGED <<off, torn, tears, hoursFrame>>

(* The new hours are saved before the services are validated.               *)
UpdateRule(r, shape, S, direct) ==
  /\ Calls /\ ruleEdit = Nil /\ rule[r] # Nil
  /\ rule' = [rule EXCEPT ![r] =
       [m |-> rule[r].m, kind |-> shape.kind, from |-> shape.from, to |-> shape.to]]
  /\ ruleEdit' = IF direct THEN [at |-> "check", rule |-> r, to |-> S] ELSE Nil
  /\ UNCHANGED <<mapped, off, meant, torn, tears, hoursFrame>>

(* Refused, or the old directions are deleted.                              *)
Undirect(r) == [mapped EXCEPT ![r] = {}]
RuleUnmap ==
  LET r == ruleEdit.rule   S == ruleEdit.to
  IN  /\ ruleEdit # Nil /\ ruleEdit.at = "check"
      /\ IF AllGiven(rule[r].m, S)
         THEN /\ mapped' = Undirect(r) /\ meant' = [meant EXCEPT ![r] = S]
              /\ torn' = IF S = {} THEN torn \ {r} ELSE torn
              /\ ruleEdit' = IF S = {} THEN Nil ELSE [ruleEdit EXCEPT !.at = "map"]
         ELSE ruleEdit' = Nil /\ UNCHANGED <<mapped, meant, torn>>
      /\ UNCHANGED <<rule, off, calls, tears, hoursFrame>>

RuleMap ==
  LET r == ruleEdit.rule
  IN  /\ ruleEdit # Nil /\ ruleEdit.at = "map"
      /\ mapped' = [mapped EXCEPT ![r] = @ \cup ruleEdit.to]
      /\ torn' = torn \ {r} /\ ruleEdit' = Nil
      /\ UNCHANGED <<rule, off, meant, calls, tears, hoursFrame>>

(* The database deletes the directions with the rule.                       *)
DeleteRule(r) ==
  /\ Calls /\ ruleEdit = Nil /\ rule[r] # Nil
  /\ rule' = [rule EXCEPT ![r] = Nil] /\ torn' = torn \ {r}
  /\ mapped' = [mapped EXCEPT ![r] = {}] /\ meant' = [meant EXCEPT ![r] = {}]
  /\ UNCHANGED <<off, ruleEdit, tears, hoursFrame>>

RuleEditBreaks ==
  /\ ruleEdit # Nil /\ tears < MaxTears /\ tears' = tears + 1
  /\ torn' = IF ruleEdit.at = "map" THEN torn \cup {ruleEdit.rule} ELSE torn
  /\ ruleEdit' = Nil
  /\ UNCHANGED <<rule, mapped, off, meant, calls, hoursFrame>>

CreateTimeOff(m, h) ==
  /\ Calls /\ off' = off \cup {[m |-> m, from |-> h.from, to |-> h.to]}
  /\ UNCHANGED <<rule, mapped, ruleEdit, meant, torn, tears, hoursFrame>>
DeleteTimeOff(h) ==
  /\ Calls /\ h \in off /\ off' = off \ {h}
  /\ UNCHANGED <<rule, mapped, ruleEdit, meant, torn, tears, hoursFrame>>
-----------------------------------------------------------------------------
(* The catalog.                                                             *)

shopFrame == <<hoursVars, turnVars, tick>>
(* Charged online, every professional that may get the turn can be paid.    *)
MpConnected(online, M) == online => M \subseteq connected

CreateService(s, online, M) ==
  /\ Calls /\ serviceEdit = Nil /\ service[s] = Nil /\ M # {} /\ MpConnected(online, M)
  /\ service' = [service EXCEPT ![s] = [active |-> TRUE, online |-> online]]
  /\ serviceEdit' = [at |-> "first", s |-> s, members |-> M,
                     copy |-> [active |-> TRUE, online |-> online]]
  /\ UNCHANGED <<assigned, connected, tears, shopFrame>>

(* updateForComercio; updateByMembership leaves the members alone (M = {}). *)
UpdateService(s, online, M) ==
  /\ Calls /\ serviceEdit = Nil /\ service[s] # Nil
  /\ MpConnected(online, IF M = {} THEN assigned[s] ELSE M)
  /\ serviceEdit' = [at |-> IF M = {} THEN "save" ELSE "unassign", s |-> s, members |-> M,
                     copy |-> [service[s] EXCEPT !.online = online]]
  /\ UNCHANGED <<service, assigned, connected, tears, shopFrame>>

ServiceStep ==
  LET e == serviceEdit
  IN  /\ e # Nil
      /\ assigned' = CASE e.at = "unassign" -> [assigned EXCEPT ![e.s] = {}]
                       [] e.at \in {"assign", "first"} -> [assigned EXCEPT ![e.s] = e.members]
                       [] OTHER -> assigned
      /\ service' = IF e.at = "save" THEN [service EXCEPT ![e.s] = e.copy] ELSE service
      /\ serviceEdit' = CASE e.at = "unassign" -> [e EXCEPT !.at = "assign"]
                          [] e.at = "assign" -> [e EXCEPT !.at = "save"]
                          [] OTHER -> Nil
      /\ UNCHANGED <<connected, calls, tears, shopFrame>>

ServiceEditBreaks ==
  /\ serviceEdit # Nil /\ tears < MaxTears /\ tears' = tears + 1 /\ serviceEdit' = Nil
  /\ UNCHANGED <<service, assigned, connected, calls, shopFrame>>

DeactivateService(s) ==
  /\ Calls /\ service[s] # Nil
  /\ service' = [service EXCEPT ![s].active = FALSE]
  /\ UNCHANGED <<assigned, connected, serviceEdit, tears, shopFrame>>

(* mp-oauth: nobody looks at the services charged online.                   *)
ConnectMp(m) ==
  /\ Calls /\ connected' = connected \cup {m}
  /\ UNCHANGED <<service, assigned, serviceEdit, tears, shopFrame>>
DisconnectMp(m) ==
  /\ Calls /\ connected' = connected \ {m}
  /\ UNCHANGED <<service, assigned, serviceEdit, tears, shopFrame>>

TickPasses ==
  /\ tick < LastTick /\ tick' = tick + 1
  /\ UNCHANGED <<hoursVars, shopVars, turnVars, calls, tears>>
-----------------------------------------------------------------------------
OfferInit ==
  /\ rule \in FirstRules /\ mapped = [r \in Rules |-> {}] /\ meant = [r \in Rules |-> {}]
  /\ off = {} /\ torn = {} /\ ruleEdit = Nil /\ serviceEdit = Nil
  /\ service \in FirstServices /\ connected = {}
  /\ assigned = [s \in Services |-> IF service[s] = Nil THEN {} ELSE Members]
  /\ turn \in FirstTurns /\ pick = [x \in Turns |-> Nil]
  /\ tick = 0 /\ calls = 0 /\ tears = 0

OfferNext ==
  \/ \E x \in Turns, s \in Services, A \in AddonSets, t \in 0 .. DayEnd, is \in {"turn", "hold"} :
       RankCandidates(x, s, A, t, is) \/ \E m \in Members : BookMember(x, m, s, A, t, is)
  \/ \E x \in Turns : \/ \E m \in Members : TryCandidate(x, m)
                      \/ \E is \in {"done", "turn", "gone"} : TurnMoves(x, is)
  \/ \E r \in Rules, h \in Shapes, S \in SUBSET Services :
       \/ \E m \in Members : CreateRule(r, m, h, S)
       \/ \E direct \in BOOLEAN : (direct \/ S = {}) /\ UpdateRule(r, h, S, direct)
  \/ RuleUnmap \/ RuleMap \/ RuleEditBreaks \/ ServiceStep \/ ServiceEditBreaks \/ TickPasses
  \/ \E r \in Rules : DeleteRule(r)
  \/ \E m \in Members : (\E h \in OffTimes : CreateTimeOff(m, h)) \/ ConnectMp(m) \/ DisconnectMp(m)
  \/ \E h \in off : DeleteTimeOff(h)
  \/ \E s \in Services, online \in BOOLEAN, M \in SUBSET Members :
       CreateService(s, online, M) \/ UpdateService(s, online, M)
  \/ \E s \in Services : DeactivateService(s)

OfferSpec == OfferInit /\ [][OfferNext]_offerVars
-----------------------------------------------------------------------------
(* Properties.                                                              *)

(* Every variable holds a value of its kind.                                *)
OfferTypeOK ==
  /\ rule \in [Rules -> RuleRow \cup {Nil}] /\ mapped \in [Rules -> SUBSET Services]
  /\ meant \in [Rules -> SUBSET Services] /\ torn \subseteq Rules
  /\ \A h \in off : h \in [m: Members, from: Nat, to: Nat]
  /\ service \in [Services -> ServiceRow \cup {Nil}] /\ assigned \in [Services -> SUBSET Members]
  /\ connected \subseteq Members /\ turn \in [Turns -> Turn \cup {Nil}]
  /\ ruleEdit \in RuleEdit \cup {Nil} /\ serviceEdit \in ServiceEdit \cup {Nil}
  /\ pick \in [Turns -> Pick \cup {Nil}] /\ {tick, calls, tears} \subseteq Nat

(* At every instant of a slot offered the professional attends the service: *)
(* the instant is in hours of work with turns, in no break, no hours in     *)
(* order of arrival and no time off, nobody has another service then and    *)
(* a place is left.                                                         *)
OpenAt(m, s, i) ==
  LET at(h) == h.from <= i /\ i < h.to
      now == {x \in Turns : turn[x] # Nil /\ turn[x].m = m /\ at(turn[x])}
  IN  /\ m \notin WalkInOnly
      /\ \E r \in Rules : rule[r] # Nil /\ rule[r].m = m /\ rule[r].kind = "work" /\ at(rule[r])
      /\ \A r \in Rules : (/\ rule[r] # Nil /\ rule[r].m = m /\ rule[r].kind # "work"
                           /\ (mapped[r] = {} \/ s \in mapped[r])) => ~at(rule[r])
      /\ \A h \in off : h.m = m => ~at(h)
      /\ \A x \in now : turn[x].s = s
      /\ Cardinality(now) < Capacity[s]
OfferedIsOpen ==
  \A m \in Members, s \in Services, A \in AddonSets : \A t \in Slots(m, s, A) :
    \A i \in t .. t + Length(s, m, A) - 1 : OpenAt(m, s, i)

(* The booking accepts every slot the page shows, of a professional whose   *)
(* subscription is in force: the two modules agree on hours in order of     *)
(* arrival, on anticipation, on holds and on places.                        *)
OfferedIsAccepted ==
  \A m \in Members \ Lapsed, s \in Services, A \in AddonSets :
    service[s] # Nil /\ service[s].active /\ Addable(m, s, A) =>
      \A t \in Slots(m, s, A) :
        ~Refused(m, s, t) /\ ~Conflict(m, s, t, t + Length(s, m, A))

(* The day's chip of a service and the list of its slots, two endpoints,    *)
(* say the same, whoever of those who give it is free, away or booked up.   *)
ChipTellsSlots ==
  \A s \in Services, A \in AddonSets :
    (ServiceChip(s, A) = "available") <=> (ServiceSlots(s, A) # {})

(* A slot is offered in hours that were meant for the service, except while *)
(* the rule is being edited or after such an edit was cut short.            *)
OfferedAsMeant ==
  \A m \in Members, s \in Services, A \in AddonSets : \A t \in Slots(m, s, A) :
    \E r \in WorkRules(m, s) :
      /\ rule[r].from <= t /\ t + Length(s, m, A) <= rule[r].to
      /\ \/ meant[r] = {} \/ s \in meant[r] \/ r \in torn
         \/ ruleEdit # Nil /\ ruleEdit.rule = r
=============================================================================
