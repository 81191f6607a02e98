-------------------------- MODULE RefinementProofs --------------------------
(* Booking implements Agenda, for any number of requests, notifications,    *)
(* services and failures, under the hypothesis FirmOnly; so what Agenda     *)
(* never does to a turn, the code never does.                               *)
EXTENDS BookingProofs, BookingAgenda
-----------------------------------------------------------------------------
(* A request leaves a payment exactly when it commits, and a hold never     *)
(* outlives it: where there is no turn, the payment tells whether a place   *)
(* was ever held.                                                           *)
Owes(r) == pay[r].status # "none"
Owed == \A r \in Requests :
  /\ pc[r] \in {"start", "read", "save", "locked", "granted"} => ~Owes(r)
  /\ pc[r] \in {"checkout", "undo"} => Owes(r)
  /\ pc[r] = "undo" => hold[r] = "none"
  /\ pc[r] = "done" /\ ask[r].kind = "mp" => Owes(r)
  /\ hold[r] # "none" => Owes(r)

(* Whoever is to be displaced is provisional and meets the one to be seated. *)
MeetOK ==
  /\ \A r, q \in Requests : pc[r] = "locked" /\ seen[r][q].status # "none" => Overlap(q, r)
  /\ \A r, q \in Requests : pc[r] = "granted" /\ q \in bump[r] =>
       Overlap(q, r) /\ IsProvisional(q)
  /\ \A w \in Hooks, q \in Requests : pc[w] = "booking" /\ seen[w][q].status # "none" =>
       Overlap(q, job[w].req)

PlaceInv == FirmInv /\ Owed /\ MeetOK

LEMMA PlaceInit == ASSUME FirmOnly, Init PROVE PlaceInv
<1>1. FirmInv
  BY FirmInit
<1>2. /\ \A r \in Requests : pc[r] = "start" /\ hold[r] = "none" /\ pay[r].status = "none"
      /\ \A w \in Hooks : pc[w] = Idle
  BY BookingAssumption DEF Init, NoPayment, Procs
<1>3. Owed /\ MeetOK
  BY <1>2 DEF Owed, MeetOK, Owes, Idle
<1>4. QED
  BY <1>1, <1>3 DEF PlaceInv
-----------------------------------------------------------------------------
(* Steps of anything but a request leave the payments that there are.       *)
LEMMA OwedFrame ==
  ASSUME Owed, UNCHANGED ask,
         \A q \in Requests :
           /\ pc'[q] = pc[q] \/ pc'[q] = "failed"
           /\ Owes(q)' <=> Owes(q)
           /\ hold'[q] # "none" => hold[q] # "none"
  PROVE  Owed'
BY DEF Owed

LEMMA HookOwed ==
  ASSUME PlaceInv, NEW w \in Hooks, HookStep(w)
  PROVE  Owed'
<1> USE DEF PlaceInv, FirmInv, OnceInv, TypeInv, TypeOK
<1>1. w \in Procs /\ \A q \in Requests : q \in Procs /\ q # w
  BY BookingAssumption DEF Procs
<1>2. pc[w] # Idle => /\ job[w].req \in Requests /\ Owes(job[w].req)
                      /\ job[w].outcome \in Outcomes
  BY DEF HookHasJob, Job, MpOK, Owed
<1>3. pc[w] # Idle /\ UNCHANGED ask /\ \A q \in Requests : pc'[q] = pc[q]
  BY <1>1, <1>2 DEF HookStep, HookSave, HookLinked, HookRelease, HookLock, HookDisplace,
     HookCommit, Answer, Goto, Idle
<1>4. \A q \in Requests : Owes(q)' <=> Owes(q)
  <2>1. CASE HookSave(w)
    <3>1. pay' = [pay EXCEPT ![job[w].req] = Saved(job[w])] /\ Saved(job[w]).status # "none"
      BY <1>2, <1>3, <2>1 DEF HookSave, Saved, HookHasJob, Job, Payment
    <3>2. QED
      BY <1>2, <1>3, <3>1 DEF Owes
  <2>2. CASE HookCommit(w)
    BY <1>2, <1>3, <2>2 DEF HookCommit, Owes, Payment
  <2>3. CASE UNCHANGED pay
    BY <2>3 DEF Owes
  <2>4. QED
    BY <2>1, <2>2, <2>3 DEF HookStep, HookLinked, HookRelease, HookLock, HookDisplace
<1>5. \A q \in Requests : hold'[q] # "none" => hold[q] # "none"
  BY <1>2, <1>3 DEF HookStep, HookSave, HookLinked, HookRelease, HookLock, HookDisplace, HookCommit
<1>6. QED
  BY <1>3, <1>4, <1>5, OwedFrame

LEMMA RequestOwed ==
  ASSUME PlaceInv, NEW r \in Requests, RequestStep(r)
  PROVE  Owed'
<1> USE DEF PlaceInv, FirmInv, OnceInv, TypeInv, TypeOK, Goto
<1>1. r \in Procs /\ \A q \in Requests : q \in Procs
  BY DEF Procs
<1>2. CASE BookReadTurns(r) \/ BookReadHolds(r) \/ BookSave(r)
  <2>1. UNCHANGED <<ask, hold, pay>> /\ ask[r].kind = "free"
    BY <1>2 DEF BookReadTurns, BookReadHolds, BookSave, LabelOK
  <2>2. PICK l \in {"read", "rejected", "save", "done"} : pc' = [pc EXCEPT ![r] = l]
    BY <1>2 DEF BookReadTurns, BookReadHolds, BookSave
  <2>3. pc[r] \in {"start", "read", "save"}
    BY <1>2 DEF BookReadTurns, BookReadHolds, BookSave
  <2>4. QED
    BY <1>1, <2>1, <2>2, <2>3 DEF Owed, Owes
<1>3. CASE DepositLock(r) \/ DepositReject(r) \/ DepositGrant(r)
  <2>1. UNCHANGED <<ask, hold, pay>>
    BY <1>3 DEF DepositLock, DepositReject, DepositGrant
  <2>2. PICK l \in {"locked", "rejected", "granted"} : pc' = [pc EXCEPT ![r] = l]
    BY <1>3 DEF DepositLock, DepositReject, DepositGrant
  <2>3. pc[r] \in {"start", "locked"}
    BY <1>3 DEF DepositLock, DepositReject, DepositGrant
  <2>4. QED
    BY <1>1, <2>1, <2>2, <2>3 DEF Owed, Owes
<1>4. CASE CashCommit(r)
  BY <1>1, <1>4 DEF CashCommit, Owed, Owes
<1>5. CASE MpCommit(r)
  BY <1>1, <1>5 DEF MpCommit, Owed, Owes
<1>6. CASE PreferenceOk(r)
  BY <1>1, <1>6 DEF PreferenceOk, Owed, Owes
<1>7. CASE PreferenceFails(r)
  BY <1>1, <1>7 DEF PreferenceFails, Owed, Owes
<1>8. CASE UndoPayment(r)
  BY <1>1, <1>8 DEF UndoPayment, Owed, Owes, NoPayment
<1>9. QED
  BY <1>2, <1>3, <1>4, <1>5, <1>6, <1>7, <1>8 DEF RequestStep

LEMMA OwedKept ==
  ASSUME PlaceInv, [Next]_vars
  PROVE  Owed'
<1> USE DEF PlaceInv, FirmInv, OnceInv, TypeInv, TypeOK
<1>1. UNCHANGED ask
  BY AskSame
<1>2. ASSUME NEW e \in Edits, EditStep(e) PROVE Owed'
  <2>1. UNCHANGED <<hold, pc>>
    BY <1>2, EditFrame DEF editFrame
  <2>2. \A q \in Requests : Owes(q)' <=> Owes(q)
    <3>1. CASE EditCash(e)
      BY <3>1 DEF EditCash, EdClosing, EditAt
    <3>2. CASE UNCHANGED pay
      BY <3>2 DEF Owes
    <3>3. QED
      BY <1>2, <3>1, <3>2 DEF EditStep, EditRead, EditClose, EditComplete, EditArrive,
         EditReread, EditStart, EditCheckPlace, EditMove, reqVars
  <2>3. QED
    BY <1>1, <2>1, <2>2, OwedFrame
<1>3. CASE Environment
  <2>1. UNCHANGED pay
    BY <1>3 DEF Environment, PayerPays, HookRead, HoldExpires, HoldAges, PurgeExpiredHolds,
                Fails, reqVars
  <2>2. \A q \in Requests : hold'[q] # "none" => hold[q] # "none"
    BY <1>3 DEF Environment, PayerPays, HookRead, HoldExpires, HoldAges, PurgeExpiredHolds,
                Fails, reqVars
  <2>3. \A q \in Requests : pc'[q] = pc[q] \/ pc'[q] = "failed"
    <3>1. \A q \in Requests : q \in Procs /\ q \notin Hooks
      BY BookingAssumption DEF Procs
    <3>2. CASE \E p \in Procs : Fails(p)
      BY <3>1, <3>2 DEF Fails, Goto
    <3>3. CASE \E w \in Hooks, q \in Requests, o \in Outcomes : HookRead(w, q, o)
      BY <3>1, <3>3 DEF HookRead, Goto
    <3>4. CASE UNCHANGED pc
      BY <3>4
    <3>5. QED
      BY <1>3, <3>2, <3>3, <3>4 DEF Environment, PayerPays, HoldExpires, HoldAges,
         PurgeExpiredHolds, reqVars
  <2>4. QED
    BY <1>1, <2>1, <2>2, <2>3, OwedFrame DEF Owes
<1>4. CASE UNCHANGED vars
  BY <1>4, OwedFrame DEF vars, Owes
<1>5. QED
  BY <1>2, <1>3, <1>4, HookOwed, RequestOwed DEF Next
-----------------------------------------------------------------------------
(* Where the rows read and chosen come from.                                *)
LEMMA GrantBefore ==
  ASSUME FirmInv, [Next]_vars, NEW r \in Requests, pc'[r] = "granted"
  PROVE  DepositGrant(r) \/ (pc[r] = "granted" /\ bump'[r] = bump[r])
<1>1. r \in Procs /\ r \notin Hooks /\ \A w \in Hooks : w # r
  BY BookingAssumption DEF Procs
<1> USE <1>1 DEF FirmInv, OnceInv, TypeInv, TypeOK, Goto, Forget, Idle
<1>2. CASE UNCHANGED <<pc, bump>>
  BY <1>2
<1>3. ASSUME NEW q \in Requests, RequestStep(q), q # r
      PROVE  pc'[r] = pc[r] /\ bump'[r] = bump[r]
  BY <1>3 DEF RequestStep, BookReadTurns, BookReadHolds, BookSave, DepositLock,
     DepositReject, DepositGrant, CashCommit, MpCommit, PreferenceOk, PreferenceFails,
     UndoPayment
<1>4. CASE RequestStep(r)
  <2>1. /\ ~BookReadTurns(r) /\ ~BookReadHolds(r) /\ ~BookSave(r) /\ ~DepositReject(r)
        /\ ~DepositLock(r) /\ ~CashCommit(r) /\ ~MpCommit(r)
    BY DEF BookReadTurns, BookReadHolds, BookSave, DepositReject, DepositLock, CashCommit,
           MpCommit
  <2>2. ~PreferenceOk(r) /\ ~PreferenceFails(r) /\ ~UndoPayment(r)
    BY DEF PreferenceOk, PreferenceFails, UndoPayment
  <2>3. QED
    BY <1>4, <2>1, <2>2 DEF RequestStep
<1>5. ASSUME NEW w \in Hooks, HookStep(w)
      PROVE  pc'[r] = pc[r] /\ bump'[r] = bump[r]
  BY <1>5 DEF HookStep, HookSave, HookLinked, HookRelease, HookLock, HookDisplace,
     HookCommit, Answer
<1>6. ASSUME NEW e \in Edits, EditStep(e) PROVE UNCHANGED <<pc, bump>>
  BY <1>6, EditFrame DEF editFrame
<1>7. CASE Environment
  <2>1. CASE \E p \in Procs : Fails(p)
    BY <2>1 DEF Fails
  <2>2. CASE \E w \in Hooks, q \in Requests, o \in Outcomes : HookRead(w, q, o)
    BY <2>2 DEF HookRead
  <2>3. CASE UNCHANGED <<pc, bump>>
    BY <2>3
  <2>4. QED
    BY <1>7, <2>1, <2>2, <2>3 DEF Environment, PayerPays, HoldExpires, HoldAges,
       PurgeExpiredHolds, reqVars
<1>8. QED
  BY <1>2, <1>3, <1>4, <1>5, <1>6, <1>7 DEF Next, vars

(* Turns found by overlapping() meet the interval asked for.                *)
LEMMA OverlappingMeets ==
  ASSUME FirmInv, NEW r, NEW q \in Requests, Overlapping(From(r), To(r))[q].status # "none"
  PROVE  Overlap(q, r)
<1>1. Meets(appt[q], From(r), To(r))
  BY DEF Overlapping, NoRow
<1>2. appt[q].start = From(q) /\ appt[q].end = To(q)
  BY <1>1 DEF Meets, FirmInv, Placed
<1>3. QED
  BY <1>1, <1>2 DEF Meets, Overlap

LEMMA MeetKept ==
  ASSUME PlaceInv, [Next]_vars
  PROVE  MeetOK'
<1> USE DEF PlaceInv
<1>1. UNCHANGED ask /\ \A q, r : Overlap(q, r)' <=> Overlap(q, r)
  BY AskSame DEF Overlap, From, To
<1>2. ASSUME NEW r \in Requests, NEW q \in Requests, pc'[r] = "locked", seen'[r][q].status # "none"
      PROVE  Overlap(q, r)
  <2>1. CASE DepositLock(r)
    <3>1. seen'[r] = Overlapping(From(r), To(r))
      BY <2>1 DEF DepositLock, Snapshot, FirmInv, OnceInv, TypeInv, TypeOK, Procs
    <3>2. QED
      BY <1>2, <3>1, OverlappingMeets
  <2>2. CASE pc[r] = "locked" /\ seen'[r] = seen[r]
    BY <1>2, <2>2 DEF MeetOK
  <2>3. QED
    BY <1>2, <2>1, <2>2, LockedBefore
<1>3. ASSUME NEW r \in Requests, NEW q \in Requests, pc'[r] = "granted", q \in bump'[r]
      PROVE  Overlap(q, r) /\ IsProvisional(q)
  <2>1. CASE DepositGrant(r)
    <3>1. bump'[r] \subseteq ProvSeen(r)
      BY <2>1 DEF DepositGrant, Surplus, FirmInv, OnceInv, TypeInv, TypeOK, Procs
    <3>2. QED
      BY <1>3, <2>1, <3>1 DEF DepositGrant, MeetOK, ProvSeen, Conflicts
  <2>2. CASE pc[r] = "granted" /\ bump'[r] = bump[r]
    BY <1>3, <2>2 DEF MeetOK
  <2>3. QED
    BY <1>3, <2>1, <2>2, GrantBefore
<1>4. ASSUME NEW w \in Hooks, NEW q \in Requests, pc'[w] = "booking", seen'[w][q].status # "none"
      PROVE  Overlap(q, job'[w].req)
  <2>1. CASE HookDisplace(w)
    <3>1. seen'[w] = Overlapping(From(job[w].req), To(job[w].req)) /\ job'[w] = job[w]
      BY <2>1 DEF HookDisplace, Snapshot, FirmInv, OnceInv, TypeInv, TypeOK, Procs, envVars
    <3>2. QED
      BY <1>4, <3>1, OverlappingMeets
  <2>2. CASE pc[w] = "booking" /\ seen'[w] = seen[w] /\ job'[w] = job[w]
    BY <1>4, <2>2 DEF MeetOK
  <2>3. QED
    BY <1>4, <2>1, <2>2, DisplaceBefore DEF FirmInv
<1>5. QED
  BY <1>1, <1>2, <1>3, <1>4 DEF MeetOK, IsProvisional

LEMMA PlaceInvKept ==
  ASSUME PlaceInv, FirmOnly, [Next]_vars
  PROVE  PlaceInv'
BY FirmInvKept, OwedKept, MeetKept DEF PlaceInv
-----------------------------------------------------------------------------
(* Places.                                                                  *)
LEMMA StatusOne ==
  ASSUME TypeOK, NEW q \in Requests
  PROVE  /\ appt[q].status \in ActiveStatuses \cup TerminalStatuses \cup {"none"}
         /\ appt[q].status = "none" =>
              appt[q].status \notin ActiveStatuses /\ appt[q].status \notin TerminalStatuses
         /\ appt[q].status \in ActiveStatuses => appt[q].status \notin TerminalStatuses
BY DEF TypeOK, Row, ActiveStatuses, TerminalStatuses

LEMMA PlaceCases ==
  ASSUME TypeOK, NEW q \in Requests
  PROVE  /\ appt[q].status \in ActiveStatuses =>
              PlaceOf(q) = IF IsProvisional(q) THEN "loose"
                           ELSE IF q \in late THEN "over" ELSE "seated"
         /\ appt[q].status \in TerminalStatuses =>
              PlaceOf(q) = IF appt[q].why = "bumped" THEN "displaced" ELSE "closed"
         /\ appt[q].status = "none" =>
              PlaceOf(q) = IF hold[q] = "live" THEN "held" ELSE IF Owes(q) THEN "lost" ELSE "out"
BY StatusOne DEF PlaceOf, Owes

LEMMA PlaceCasesNext ==
  ASSUME TypeOK', NEW q \in Requests
  PROVE  /\ appt'[q].status \in ActiveStatuses =>
              PlaceOf(q)' = IF IsProvisional(q)' THEN "loose"
                            ELSE IF q \in late' THEN "over" ELSE "seated"
         /\ appt'[q].status \in TerminalStatuses =>
              PlaceOf(q)' = IF appt'[q].why = "bumped" THEN "displaced" ELSE "closed"
         /\ appt'[q].status = "none" =>
              PlaceOf(q)' = IF hold'[q] = "live" THEN "held"
                            ELSE IF Owes(q)' THEN "lost" ELSE "out"
<1>1. /\ appt'[q].status = "none" =>
           appt'[q].status \notin ActiveStatuses /\ appt'[q].status \notin TerminalStatuses
      /\ appt'[q].status \in ActiveStatuses => appt'[q].status \notin TerminalStatuses
  BY DEF TypeOK, Row, ActiveStatuses, TerminalStatuses
<1>2. QED
  BY <1>1 DEF PlaceOf, Owes

(* What has to be the same for a request to keep its place.                 *)
LEMMA SamePlace ==
  ASSUME TypeOK, TypeOK', UNCHANGED ask, NEW q \in Requests, appt'[q] = appt[q],
         q \in late' <=> q \in late,
         \/ appt[q].status # "none"
         \/ (hold'[q] = "live" <=> hold[q] = "live") /\ (Owes(q)' <=> Owes(q))
  PROVE  PlaceOf(q)' = PlaceOf(q)
<1>1. IsProvisional(q)' <=> IsProvisional(q)
  BY DEF IsProvisional
<1>2. QED
  BY <1>1, PlaceCases, PlaceCasesNext, StatusOne

LEMMA DemandStays ==
  ASSUME UNCHANGED ask
  PROVE  \A r : DemandOf(r)' = DemandOf(r)
BY DEF DemandOf, Service, From, To, IsProvisional

LEMMA PlacesStay ==
  ASSUME UNCHANGED ask, \A q \in Requests : PlaceOf(q)' = PlaceOf(q)
  PROVE  UNCHANGED A!agendaVars
BY DemandStays DEF A!agendaVars

(* A step that changes the place of one request only.                       *)
LEMMA OneBecomes ==
  ASSUME UNCHANGED ask, NEW r \in Requests, \A q \in Requests \ {r} : PlaceOf(q)' = PlaceOf(q)
  PROVE  A!Becomes(r, PlaceOf(r)')
BY DemandStays DEF A!Becomes

(* Whoever meets the one seated makes room for it.                          *)
LEMMA OneSeats ==
  ASSUME UNCHANGED ask, NEW r \in Requests,
         \A q \in Requests \ {r} : PlaceOf(q)' # PlaceOf(q) =>
           PlaceOf(q)' = "displaced" /\ IsProvisional(q) /\ Overlap(q, r)
  PROVE  A!Seats(r, PlaceOf(r)')
BY DemandStays DEF A!Seats, A!Meeting, DemandOf, Overlap

LEMMA AgendaMoves ==
  ASSUME NEW r \in Requests, PlaceOf(r)' # PlaceOf(r),
         \/ A!AskLoosely(r) \/ A!HoldPlace(r) \/ A!LosePlace(r) \/ A!Withdraw(r)
         \/ A!Seat(r) \/ A!SeatOver(r) \/ A!Close(r)
  PROVE  A!AgendaNext
<1> DEFINE place == [q \in Requests |-> PlaceOf(q)]
<1>1. place[r] = PlaceOf(r) /\ place'[r] = PlaceOf(r)'
  OBVIOUS
<1>2. place' # place
  BY <1>1
<1>3. QED
  BY <1>1, <1>2 DEF A!AgendaNext

(* A granted request fits: held and seated are what Occupies counts.        *)
LEMMA GrantFits ==
  ASSUME PlaceInv, NEW r \in Requests, pc[r] = "granted"
  PROVE  A!Fits(r)
<1> USE DEF PlaceInv, FirmInv, OnceInv, TypeInv
<1>1. From(r) \in Nat /\ To(r) \in Nat
  BY AskType DEF TypeOK
<1>2. \A q \in Requests : PlaceOf(q) \in {"held", "seated"} <=> Held(q)
  <2>1. SUFFICES ASSUME NEW q \in Requests
                 PROVE  PlaceOf(q) \in {"held", "seated"} <=> Held(q)
    OBVIOUS
  <2>2. hold[q] # "none" => appt[q].status = "none"
    BY DEF HoldOK
  <2>3. QED
    BY <2>2, PlaceCases, StatusOne DEF Held, Firm
<1>3. ASSUME NEW t \in From(r) .. To(r) - 1
      PROVE  /\ A!Taking(t) = {q \in Requests : Occupies(q, t)}
             /\ HasPlace(r, t)
  <2>1. A!Taking(t) = {q \in Requests : PlaceOf(q) \in {"held", "seated"} /\ Within(q, t)}
    BY DEF A!Taking, DemandOf, Within
  <2>2. A!Taking(t) = {q \in Requests : Occupies(q, t)}
    BY <1>2, <2>1, OccupiesHeld
  <2>3. t \in Nat /\ Within(r, t)
    BY <1>1 DEF Within
  <2>4. QED
    BY <2>2, <2>3 DEF Granted
<1>4. ASSUME NEW t \in From(r) .. To(r) - 1
      PROVE  /\ \A q \in A!Taking(t) : Service(q) = Service(r)
             /\ Cardinality(A!Taking(t)) < Capacity[Service(r)]
  <2>1. \A q \in A!Taking(t) : Service(q) = Service(r)
    BY <1>3 DEF HasPlace
  <2>2. A!Taking(t) = Taken(Service(r), t)
    BY <1>3, <2>1 DEF Taken
  <2>3. Cardinality(Taken(Service(r), t)) < Capacity[Service(r)]
    BY <1>3 DEF HasPlace
  <2>4. QED
    BY <2>1, <2>2, <2>3
<1>5. \A t : A!Taking(t) \subseteq Requests
  BY DEF A!Taking
<1>6. \A S : A!Cardinality(S) = Cardinality(S)
  BY DEF A!Cardinality, Cardinality
<1>7. QED
  BY <1>4, <1>5, <1>6 DEF A!Fits, DemandOf
-----------------------------------------------------------------------------
(* Every step of Booking is one decision of Agenda, or none.                *)
AgendaStep == [A!AgendaNext]_(A!agendaVars)

LEMMA BookAsks ==
  ASSUME PlaceInv, FirmOnly, [Next]_vars, TypeOK', NEW r \in Requests, BookSave(r)
  PROVE  AgendaStep
<1> USE DEF PlaceInv, FirmInv, OnceInv, TypeInv
<1>1. UNCHANGED <<ask, hold, pay, late>> /\ appt' = [appt EXCEPT ![r] = Fresh(r)]
  BY DEF BookSave
<1>2. \A q \in Requests \ {r} : PlaceOf(q)' = PlaceOf(q)
  BY <1>1, SamePlace DEF Owes, TypeOK
<1>3. PlaceOf(r) = "out"
  BY PlaceCases DEF BookSave, Unborn, Owed
<1>4. appt'[r].status = "Confirmed" /\ IsProvisional(r)' /\ IsProvisional(r)
  BY <1>1, BookSeats DEF Fresh, TypeOK, IsProvisional
<1>5. PlaceOf(r)' = "loose"
  BY <1>4, PlaceCasesNext DEF ActiveStatuses
<1>6. A!AskLoosely(r)
  BY <1>1, <1>2, <1>3, <1>4, <1>5, OneBecomes DEF A!AskLoosely, DemandOf
<1>7. QED
  BY <1>3, <1>5, <1>6, AgendaMoves DEF AgendaStep

LEMMA CashSeatsIt ==
  ASSUME PlaceInv, FirmOnly, [Next]_vars, TypeOK', NEW r \in Requests, CashCommit(r)
  PROVE  AgendaStep
<1> USE DEF PlaceInv, FirmInv, OnceInv, TypeInv
<1>1. /\ UNCHANGED <<ask, hold, late>> /\ pc[r] = "granted"
      /\ appt' = [WithBumped(r, bump[r]) EXCEPT ![r] = Fresh(r)]
      /\ \A q \in Requests \ {r} : Owes(q)' <=> Owes(q)
  BY DEF CashCommit, Owes, TypeOK
<1>2. r \in Procs /\ ask[r].kind # "free"
  BY DEF Procs, CashCommit, LabelOK
<1>3. ~IsProvisional(r) /\ ~IsProvisional(r)'
  BY <1>1, <1>2 DEF AskFirm, IsProvisional
<1>4. PlaceOf(r) = "out" /\ r \notin late'
  BY <1>1, PlaceCases DEF Unborn, Owed, RowsOK
<1>5. appt'[r].status = "Confirmed"
  BY <1>1 DEF WithBumped, Fresh
<1>6. PlaceOf(r)' = "seated"
  BY <1>3, <1>4, <1>5, PlaceCasesNext DEF ActiveStatuses
<1>7. ASSUME NEW q \in Requests \ {r}, PlaceOf(q)' # PlaceOf(q)
      PROVE  PlaceOf(q)' = "displaced" /\ IsProvisional(q) /\ Overlap(q, r)
  <2>1. appt'[q] = IF q \in bump[r] THEN Bumped(seen[r][q]) ELSE appt[q]
    BY <1>1, <1>7 DEF WithBumped
  <2>2. q \in bump[r]
    BY <1>1, <1>7, <2>1, SamePlace
  <2>3. seen[r][q] \in Row
    BY <1>2 DEF TypeOK
  <2>4. appt'[q].status = "Cancelled" /\ appt'[q].why = "bumped"
    BY <2>1, <2>2, <2>3 DEF Bumped, Row
  <2>5. PlaceOf(q)' = "displaced"
    BY <2>4, PlaceCasesNext DEF TerminalStatuses
  <2>6. QED
    BY <1>1, <2>2, <2>5 DEF MeetOK
<1>8. A!Seats(r, "seated")
  BY <1>1, <1>6, <1>7, OneSeats
<1>9. A!Seat(r)
  BY <1>1, <1>3, <1>4, <1>8, GrantFits DEF A!Seat, DemandOf
<1>10. QED
  BY <1>4, <1>6, <1>9, AgendaMoves DEF AgendaStep

LEMMA MpHoldsIt ==
  ASSUME PlaceInv, FirmOnly, [Next]_vars, TypeOK', NEW r \in Requests, MpCommit(r)
  PROVE  AgendaStep
<1> USE DEF PlaceInv, FirmInv, OnceInv, TypeInv
<1>1. /\ UNCHANGED <<ask, appt, late>> /\ pc[r] = "granted" /\ hold'[r] = "live"
      /\ \A q \in Requests \ {r} : hold'[q] = hold[q] /\ (Owes(q)' <=> Owes(q))
  BY DEF MpCommit, Owes, TypeOK
<1>2. ~IsProvisional(r)
  BY DEF AskFirm, IsProvisional, MpCommit, LabelOK
<1>3. appt[r].status = "none" /\ PlaceOf(r) = "out"
  BY <1>1, PlaceCases DEF Unborn, Owed
<1>4. PlaceOf(r)' = "held"
  BY <1>1, <1>3, PlaceCasesNext
<1>5. \A q \in Requests \ {r} : PlaceOf(q)' = PlaceOf(q)
  BY <1>1, SamePlace
<1>6. A!HoldPlace(r)
  BY <1>1, <1>2, <1>3, <1>4, <1>5, OneBecomes, GrantFits DEF A!HoldPlace, DemandOf
<1>7. QED
  BY <1>3, <1>4, <1>6, AgendaMoves DEF AgendaStep

LEMMA HookSeatsIt ==
  ASSUME PlaceInv, FirmOnly, [Next]_vars, TypeOK', NEW w \in Hooks, HookCommit(w)
  PROVE  AgendaStep
<1> USE DEF PlaceInv, FirmInv, OnceInv, TypeInv
<1>0. job[w].req \in Requests
  BY DEF HookCommit, HookHasJob, Job, Idle
<1> PICK r \in Requests : r = job[w].req
  BY <1>0
<1>1. r \in Requests /\ w \in Procs /\ pc[w] = "booking" /\ ask[r].kind = "mp" /\ pc[r] = "done"
  BY DEF HookCommit, Procs, MpOK, Idle
<1>2. /\ UNCHANGED ask
      /\ appt' = [WithBumped(w, ProvSeen(w)) EXCEPT ![r] = Fresh(r)]
      /\ \A q \in Requests \ {r} :
           hold'[q] = hold[q] /\ (Owes(q)' <=> Owes(q)) /\ (q \in late' <=> q \in late)
      /\ r \in late' <=> (r \in late \/ hold[r] # "live")
  BY <1>1 DEF HookCommit, Owes, TypeOK
<1>3. ~IsProvisional(r) /\ ~IsProvisional(r)'
  BY <1>1, <1>2 DEF AskFirm, IsProvisional
<1>4. appt[r].status = "none" /\ r \notin late /\ Owes(r)
  BY <1>1 DEF PaymentBooksOnce, RowsOK, Owed
<1>5. PlaceOf(r) = IF hold[r] = "live" THEN "held" ELSE "lost"
  BY <1>1, <1>4, PlaceCases
<1>6. appt'[r].status = "Confirmed"
  BY <1>1, <1>2 DEF WithBumped, Fresh
<1>7. PlaceOf(r)' = IF hold[r] = "live" THEN "seated" ELSE "over"
  BY <1>1, <1>2, <1>3, <1>4, <1>6, PlaceCasesNext DEF ActiveStatuses
<1>8. ASSUME NEW q \in Requests \ {r}, PlaceOf(q)' # PlaceOf(q)
      PROVE  PlaceOf(q)' = "displaced" /\ IsProvisional(q) /\ Overlap(q, r)
  <2>1. appt'[q] = IF q \in ProvSeen(w) THEN Bumped(seen[w][q]) ELSE appt[q]
    BY <1>1, <1>2, <1>8 DEF WithBumped
  <2>2. q \in ProvSeen(w)
    BY <1>2, <1>8, <2>1, SamePlace
  <2>3. seen[w][q] \in Row
    BY <1>1 DEF TypeOK
  <2>4. appt'[q].status = "Cancelled" /\ appt'[q].why = "bumped"
    BY <2>1, <2>2, <2>3 DEF Bumped, Row
  <2>5. PlaceOf(q)' = "displaced"
    BY <2>4, PlaceCasesNext DEF TerminalStatuses
  <2>6. QED
    BY <1>1, <2>2, <2>5 DEF MeetOK, ProvSeen, Conflicts
<1>9. A!Seats(r, PlaceOf(r)')
  BY <1>1, <1>2, <1>8, OneSeats
<1>10. A!Seat(r) \/ A!SeatOver(r)
  BY <1>1, <1>3, <1>5, <1>7, <1>9 DEF A!Seat, A!SeatOver, DemandOf
<1>11. QED
  BY <1>1, <1>5, <1>7, <1>10, AgendaMoves DEF AgendaStep

(* A hold that goes or lapses: the place is lost, unless it was already.    *)
LEMMA HoldGoes ==
  ASSUME PlaceInv, FirmOnly, [Next]_vars, TypeOK', NEW r \in Requests,
         UNCHANGED <<appt, pay, late>>, hold'[r] # "live", Owes(r),
         \A q \in Requests \ {r} : hold'[q] = hold[q]
  PROVE  AgendaStep
<1> USE DEF PlaceInv, FirmInv, OnceInv, TypeInv
<1>1. UNCHANGED ask /\ \A q \in Requests : Owes(q)' <=> Owes(q)
  BY AskSame DEF Owes
<1>2. \A q \in Requests \ {r} : PlaceOf(q)' = PlaceOf(q)
  BY <1>1, SamePlace
<1>3. CASE PlaceOf(r)' = PlaceOf(r)
  BY <1>1, <1>2, <1>3, PlacesStay DEF AgendaStep
<1>4. CASE PlaceOf(r)' # PlaceOf(r)
  <2>1. appt[r].status = "none" /\ hold[r] = "live"
    BY <1>1, <1>4, SamePlace
  <2>2. PlaceOf(r) = "held" /\ PlaceOf(r)' = "lost"
    BY <1>1, <2>1, PlaceCases, PlaceCasesNext
  <2>3. A!LosePlace(r)
    BY <1>1, <1>2, <2>2, OneBecomes DEF A!LosePlace
  <2>4. QED
    BY <1>4, <2>3, AgendaMoves DEF AgendaStep
<1>5. QED
  BY <1>3, <1>4

(* Steps that leave rows, live holds and debts as they are.                 *)
LEMMA NothingMoves ==
  ASSUME PlaceInv, TypeOK', UNCHANGED <<ask, appt, late>>,
         \A q \in Requests : (hold'[q] = "live" <=> hold[q] = "live") /\ (Owes(q)' <=> Owes(q))
  PROVE  AgendaStep
BY SamePlace, PlacesStay DEF AgendaStep, PlaceInv, FirmInv, OnceInv, TypeInv

LEMMA RequestRefines ==
  ASSUME PlaceInv, FirmOnly, [Next]_vars, TypeOK', NEW r \in Requests, RequestStep(r)
  PROVE  AgendaStep
<1> USE DEF PlaceInv, FirmInv, OnceInv, TypeInv
<1>1. CASE PreferenceFails(r)
  BY <1>1, HoldGoes DEF PreferenceFails, Owed, TypeOK
<1>2. CASE UndoPayment(r)
  <2>1. /\ UNCHANGED <<ask, appt, hold, late>> /\ Owes(r) /\ ~Owes(r)' /\ hold[r] = "none"
        /\ \A q \in Requests \ {r} : Owes(q)' <=> Owes(q)
    BY <1>2 DEF UndoPayment, Owed, Owes, NoPayment, TypeOK
  <2>2. \A q \in Requests \ {r} : PlaceOf(q)' = PlaceOf(q)
    BY <2>1, SamePlace
  <2>3. CASE PlaceOf(r)' = PlaceOf(r)
    BY <2>1, <2>2, <2>3, PlacesStay DEF AgendaStep
  <2>4. CASE PlaceOf(r)' # PlaceOf(r)
    <3>1. appt[r].status = "none"
      BY <2>1, <2>4, SamePlace
    <3>2. PlaceOf(r) = "lost" /\ PlaceOf(r)' = "out"
      BY <2>1, <3>1, PlaceCases, PlaceCasesNext
    <3>3. A!Withdraw(r)
      BY <2>1, <2>2, <3>2, OneBecomes DEF A!Withdraw
    <3>4. QED
      BY <2>4, <3>3, AgendaMoves DEF AgendaStep
  <2>5. QED
    BY <2>3, <2>4
<1>3. CASE UNCHANGED <<ask, appt, hold, pay, late>>
  BY <1>3, NothingMoves DEF Owes
<1>4. QED
  BY <1>1, <1>2, <1>3, BookAsks, CashSeatsIt, MpHoldsIt DEF RequestStep, BookReadTurns,
     BookReadHolds, DepositLock, DepositReject, DepositGrant, PreferenceOk

LEMMA HookRefines ==
  ASSUME PlaceInv, FirmOnly, [Next]_vars, TypeOK', NEW w \in Hooks, HookStep(w)
  PROVE  AgendaStep
<1> USE DEF PlaceInv, FirmInv, OnceInv, TypeInv
<1>1. CASE HookSave(w)
  <2>1. pc[w] # Idle /\ job[w].req \in Requests /\ Owes(job[w].req)
    BY <1>1 DEF HookSave, HookHasJob, Job, MpOK, Owed, Idle
  <2>2. Saved(job[w]).status # "none"
    BY <2>1 DEF Saved, HookHasJob, Job, Payment
  <2>3. \A q \in Requests : Owes(q)' <=> Owes(q)
    BY <1>1, <2>1, <2>2 DEF HookSave, Owes, TypeOK
  <2>4. UNCHANGED <<ask, appt, hold, late>>
    BY <1>1 DEF HookSave
  <2>5. QED
    BY <2>3, <2>4, NothingMoves
<1>2. CASE HookRelease(w)
  <2>1. pc[w] # Idle /\ job[w].req \in Requests /\ Owes(job[w].req)
    BY <1>2 DEF HookRelease, HookHasJob, Job, MpOK, Owed, Idle
  <2>2. PICK r \in Requests : r = job[w].req
    BY <2>1
  <2>3. UNCHANGED <<appt, pay, late>> /\ hold' = [hold EXCEPT ![r] = "none"] /\ Owes(r)
    BY <1>2, <2>1, <2>2 DEF HookRelease
  <2>4. hold'[r] # "live" /\ \A q \in Requests \ {r} : hold'[q] = hold[q]
    BY <2>3 DEF TypeOK
  <2>5. QED
    BY <2>3, <2>4, HoldGoes
<1>3. CASE UNCHANGED <<ask, appt, hold, pay, late>>
  BY <1>3, NothingMoves DEF Owes
<1>4. QED
  BY <1>1, <1>2, <1>3, HookSeatsIt DEF HookStep, HookLinked, HookLock, HookDisplace

LEMMA EditRefines ==
  ASSUME PlaceInv, FirmOnly, [Next]_vars, TypeOK', NEW e \in Edits, EditStep(e)
  PROVE  AgendaStep
<1> USE DEF PlaceInv, FirmInv, OnceInv, TypeInv
<1>1. CASE \E op \in EditOps, q \in Requests : EditRead(e, op, q)
  <2>1. UNCHANGED <<ask, appt, hold, pay, late>>
    BY <1>1 DEF EditRead, reqVars
  <2>2. QED
    BY <2>1, NothingMoves DEF Owes
<1>2. CASE EditClose(e)
  <2>1. ed[e] # None /\ ed[e].req \in Requests /\ ed[e].row \in Row
        /\ appt[ed[e].req].status # "none"
    BY <1>2 DEF EditClose, EditAt, RowsOK, TypeOK, Edit
  <2>2. PICK r \in Requests : r = ed[e].req
    BY <2>1
  <2>3. PICK row : /\ appt' = [appt EXCEPT ![r] = row]
                   /\ row.status \in TerminalStatuses /\ row.why # "bumped"
    <3>1. CASE ed[e].op = "noShow"
      <4> DEFINE row == [ed[e].row EXCEPT !.status = "NoShow", !.why = "noShow"]
      <4>1. appt' = [appt EXCEPT ![r] = row]
        BY <1>2, <2>2, <3>1 DEF EditClose, WriteRow
      <4>2. row.status = "NoShow" /\ row.why = "noShow"
        BY <2>1 DEF Row
      <4> HIDE DEF row
      <4>3. QED
        BY <4>1, <4>2 DEF TerminalStatuses
    <3>2. CASE ed[e].op # "noShow"
      <4> DEFINE row == [ed[e].row EXCEPT !.status = "Cancelled", !.why = "client"]
      <4>1. appt' = [appt EXCEPT ![r] = row]
        BY <1>2, <2>2, <3>2 DEF EditClose, WriteRow
      <4>2. row.status = "Cancelled" /\ row.why = "client"
        BY <2>1 DEF Row
      <4> HIDE DEF row
      <4>3. QED
        BY <4>1, <4>2 DEF TerminalStatuses
    <3>3. QED
      BY <3>1, <3>2
  <2>4. UNCHANGED <<ask, hold, pay, late>>
    BY <1>2 DEF EditClose, editFrame
  <2>5. /\ appt'[r].status \in TerminalStatuses /\ appt'[r].why # "bumped"
        /\ \A q \in Requests \ {r} : appt'[q] = appt[q]
    BY <2>3 DEF TypeOK
  <2>6. \A q \in Requests \ {r} : PlaceOf(q)' = PlaceOf(q)
    BY <2>4, <2>5, SamePlace DEF Owes
  <2>7. PlaceOf(r)' = "closed"
    BY <2>5, PlaceCasesNext
  <2>8. PlaceOf(r) \in {"loose", "seated", "over", "closed", "displaced"}
    BY <2>1, <2>2, PlaceCases, StatusOne
  <2>9. A!Close(r)
    BY <2>4, <2>6, <2>7, <2>8, OneBecomes DEF A!Close
  <2>10. CASE PlaceOf(r) = "closed"
    BY <2>4, <2>6, <2>7, <2>10, PlacesStay DEF AgendaStep
  <2>11. CASE PlaceOf(r) # "closed"
    BY <2>7, <2>9, <2>11, AgendaMoves DEF AgendaStep
  <2>12. QED
    BY <2>10, <2>11
<1>3. QED
  <2>1. ed[e] # None => ed[e].op \in Closing /\ ed[e].at = "read"
    BY DEF EdClosing
  <2>2. /\ ~EditComplete(e) /\ ~EditCash(e) /\ ~EditArrive(e) /\ ~EditReread(e)
        /\ ~EditStart(e) /\ ~EditMove(e) /\ \A t \in Starts : ~EditCheckPlace(e, t)
    BY <2>1 DEF EditComplete, EditCash, EditArrive, EditReread, EditStart, EditMove,
                EditCheckPlace, EditAt, Closing
  <2>3. QED
    BY <1>1, <1>2, <2>2 DEF EditStep

LEMMA EnvironmentRefines ==
  ASSUME PlaceInv, FirmOnly, [Next]_vars, TypeOK', Environment
  PROVE  AgendaStep
<1> USE DEF PlaceInv, FirmInv, OnceInv, TypeInv
<1>1. UNCHANGED <<ask, appt, pay, late>>
  BY DEF Environment, PayerPays, HookRead, HoldExpires, HoldAges, PurgeExpiredHolds, Fails,
         reqVars
<1>2. ASSUME NEW r \in Requests, HoldExpires(r) PROVE AgendaStep
  <2>1. hold[r] = "live" /\ hold' = [hold EXCEPT ![r] = "expired"]
    BY <1>2 DEF HoldExpires
  <2>2. hold'[r] # "live" /\ \A q \in Requests \ {r} : hold'[q] = hold[q]
    BY <2>1 DEF TypeOK
  <2>3. Owes(r)
    BY <2>1 DEF Owed
  <2>4. QED
    BY <1>1, <2>2, <2>3, HoldGoes
<1>3. CASE \A q \in Requests : hold'[q] = "live" <=> hold[q] = "live"
  BY <1>1, <1>3, NothingMoves DEF Owes
<1>4. CASE \E r \in Requests : HoldAges(r)
  <2>1. \A q \in Requests : hold'[q] = "live" <=> hold[q] = "live"
    BY <1>4 DEF HoldAges, TypeOK
  <2>2. QED
    BY <1>3, <2>1
<1>5. CASE PurgeExpiredHolds
  BY <1>3, <1>5 DEF PurgeExpiredHolds
<1>6. CASE UNCHANGED hold
  BY <1>3, <1>6
<1>7. QED
  BY <1>2, <1>4, <1>5, <1>6 DEF Environment, PayerPays, HookRead, Fails, reqVars

LEMMA InitRefines == ASSUME FirmOnly, Init PROVE A!AgendaInit
<1>1. PlaceInv /\ TypeOK
  BY PlaceInit DEF PlaceInv, FirmInv, OnceInv, TypeInv
<1>2. \A r \in Requests : pc[r] = "start"
  BY <1>1 DEF Init, Procs
<1>3. \A r \in Requests : PlaceOf(r) = "out"
  BY <1>1, <1>2, PlaceCases DEF PlaceInv, FirmInv, OnceInv, Unborn, Owed
<1>4. \A r \in Requests : DemandOf(r) \in A!Demand
  BY <1>1, AskType DEF TypeOK, DemandOf, A!Demand
<1>5. QED
  BY <1>3, <1>4 DEF A!AgendaInit

LEMMA StepRefines == ASSUME FirmOnly, PlaceInv, [Next]_vars PROVE AgendaStep
<1>1. TypeOK'
  BY PlaceInvKept DEF PlaceInv, FirmInv, OnceInv, TypeInv
<1>2. CASE UNCHANGED vars
  BY <1>1, <1>2, NothingMoves DEF vars, Owes
<1>3. QED
  BY <1>1, <1>2, RequestRefines, HookRefines, EditRefines, EnvironmentRefines DEF Next

(* Where every booking without payment is provisional and the panel only    *)
(* closes turns, the booking code implements its promise: each statement it *)
(* awaits is one decision of Agenda or changes nothing Agenda sees.         *)
THEOREM BookingImplementsAgenda ==
  ASSUME FirmOnly
  PROVE  Spec => BooksAsAgenda
<1>1. Init => PlaceInv /\ A!AgendaInit
  BY PlaceInit, InitRefines
<1>2. PlaceInv /\ [Next]_vars => PlaceInv'
  BY PlaceInvKept
<1>3. PlaceInv /\ [Next]_vars => [A!AgendaNext]_(A!agendaVars)
  BY StepRefines DEF AgendaStep
<1>4. QED
  BY <1>1, <1>2, <1>3, PTL DEF Spec, BooksAsAgenda, A!AgendaSpec
-----------------------------------------------------------------------------
(* What the agenda never does, the code never does.                         *)
Gone == {"closed", "displaced"}

LEMMA AgendaMoved ==
  ASSUME AgendaStep, NEW q \in Requests
  PROVE  /\ PlaceOf(q) \in Gone => PlaceOf(q)' \in Gone
         /\ PlaceOf(q) # "displaced" /\ PlaceOf(q)' = "displaced" =>
              \E d \in Requests :
                /\ ~IsProvisional(d) /\ PlaceOf(d) \in {"held", "out", "lost"}
                /\ PlaceOf(d)' \in {"seated", "over"} /\ Overlap(q, d)
<1>. DEFINE place == [r \in Requests |-> PlaceOf(r)]
<1>0. \A r \in Requests : place[r] = PlaceOf(r) /\ place'[r] = PlaceOf(r)'
  OBVIOUS
<1>1. CASE UNCHANGED A!agendaVars
  <2>1. place' = place
    BY <1>1 DEF A!agendaVars
  <2>. QED
    BY <1>0, <2>1
<1>2. CASE A!AgendaNext
  <2>1. PICK d \in Requests :
          \/ A!AskLoosely(d) \/ A!HoldPlace(d) \/ A!LosePlace(d) \/ A!Withdraw(d)
          \/ A!Seat(d) \/ A!SeatOver(d) \/ A!Close(d)
    BY <1>2 DEF A!AgendaNext
  <2>2. CASE A!AskLoosely(d) \/ A!HoldPlace(d) \/ A!LosePlace(d) \/ A!Withdraw(d) \/ A!Close(d)
    <3>1. PICK what \in {"loose", "held", "lost", "out", "closed"} :
            place' = [place EXCEPT ![d] = what] /\ (place[d] \in Gone => what = "closed")
      BY <2>2 DEF A!AskLoosely, A!HoldPlace, A!LosePlace, A!Withdraw, A!Close, A!Becomes, Gone
    <3>2. place'[q] = IF q = d THEN what ELSE place[q]
      BY <3>1
    <3>. HIDE DEF place
    <3>. QED
      BY <1>0, <3>1, <3>2 DEF Gone
  <2>3. CASE A!Seat(d) \/ A!SeatOver(d)
    <3>1. /\ place[d] \in {"held", "out", "lost"} /\ place'[d] \in {"seated", "over"}
          /\ \A x \in Requests \ {d} : place'[x] # place[x] =>
               place'[x] = "displaced" /\ A!Meeting(d, x)
      BY <2>3 DEF A!Seat, A!SeatOver, A!Seats
    <3>2. ~IsProvisional(d)
      BY <2>3 DEF A!Seat, A!SeatOver, DemandOf
    <3>. QED
      BY <1>0, <3>1, <3>2 DEF Gone, A!Meeting, DemandOf, Overlap
  <2>. QED
    BY <2>1, <2>2, <2>3
<1>. QED
  BY <1>1, <1>2 DEF AgendaStep

(* A turn is seated as confirmed, and edits only touch turns that exist.    *)
LEMMA SeatedConfirmed ==
  ASSUME FirmOnly, PlaceInv, [Next]_vars, NEW r \in Requests,
         appt[r].status = "none", appt'[r].status # "none"
  PROVE  appt'[r].status = "Confirmed"
<1>. USE DEF PlaceInv, FirmInv, OnceInv, TypeInv, TypeOK
<1>1. ASSUME NEW p \in Procs, NEW B, NEW d, B \subseteq Requests,
             appt' = [WithBumped(p, B) EXCEPT ![d] = Fresh(d)],
             \A q \in B : appt[q].status # "none"
      PROVE  appt'[r].status = "Confirmed"
  <2>1. r \notin B
    BY <1>1
  <2>2. WithBumped(p, B)[r] = appt[r]
    BY <2>1 DEF WithBumped
  <2>3. CASE r = d
    BY <1>1, <2>3 DEF WithBumped, Fresh
  <2>4. CASE r # d
    BY <1>1, <2>2, <2>4 DEF WithBumped
  <2>. QED
    BY <2>3, <2>4
<1>2. ASSUME NEW d \in Requests, RequestStep(d) PROVE appt'[r].status = "Confirmed"
  <2>1. CASE BookSave(d)
    BY <2>1 DEF BookSave, Fresh
  <2>2. CASE CashCommit(d)
    <3>1. d \in Procs
      BY DEF Procs
    <3>2. \A q \in bump[d] : appt[q].status # "none" /\ q \in Requests
      BY <3>1 DEF RowsOK
    <3>. QED
      BY <1>1, <2>2, <3>1, <3>2 DEF CashCommit
  <2>3. CASE UNCHANGED appt
    BY <2>3
  <2>. QED
    BY <1>2, <2>1, <2>2, <2>3 DEF RequestStep, BookReadTurns, BookReadHolds, DepositLock,
       DepositReject, DepositGrant, MpCommit, PreferenceOk, PreferenceFails, UndoPayment
<1>3. ASSUME NEW w \in Hooks, HookStep(w) PROVE appt'[r].status = "Confirmed"
  <2>1. CASE HookCommit(w)
    <3>1. w \in Procs
      BY DEF Procs
    <3>2. \A q \in ProvSeen(w) : appt[q].status # "none" /\ q \in Requests
      BY <3>1 DEF RowsOK, ProvSeen, Conflicts
    <3>. QED
      BY <1>1, <2>1, <3>1, <3>2 DEF HookCommit
  <2>2. CASE UNCHANGED appt
    BY <2>2
  <2>. QED
    BY <1>3, <2>1, <2>2 DEF HookStep, HookSave, HookLinked, HookRelease, HookLock, HookDisplace
<1>4. ASSUME NEW e \in Edits, EditStep(e) PROVE appt'[r].status = "Confirmed"
  <2>1. CASE EditClose(e)
    <3>1. ed[e] # None /\ \E row : appt' = [appt EXCEPT ![ed[e].req] = row]
      BY <2>1 DEF EditClose, EditAt, WriteRow
    <3>. QED
      BY <3>1 DEF RowsOK
  <2>2. CASE UNCHANGED appt
    BY <2>2
  <2>3. ~EditComplete(e) /\ ~EditArrive(e) /\ ~EditStart(e) /\ ~EditMove(e)
    BY DEF EditComplete, EditArrive, EditStart, EditMove, EditAt, EdClosing, Closing
  <2>. QED
    BY <1>4, <2>1, <2>2, <2>3 DEF EditStep, EditRead, EditCash, EditReread, EditCheckPlace, reqVars
<1>5. CASE Environment \/ UNCHANGED vars
  BY <1>5 DEF Environment, PayerPays, HookRead, HoldExpires, HoldAges, PurgeExpiredHolds,
              Fails, reqVars, vars
<1>. QED
  BY <1>2, <1>3, <1>4, <1>5 DEF Next

(* A row written by a call that closes turns.                               *)
LEMMA ClosedRow ==
  ASSUME TypeOK, EdClosing, NEW e \in Edits, EditStep(e), appt' # appt
  PROVE  /\ EditClose(e) /\ ed[e] \in Edit
         /\ \E row \in Row : /\ appt' = [appt EXCEPT ![ed[e].req] = row] /\ row.why # "bumped"
                             /\ row.start = ed[e].row.start /\ row.end = ed[e].row.end
<1>1. ~EditComplete(e) /\ ~EditArrive(e) /\ ~EditStart(e) /\ ~EditMove(e)
  BY DEF EditComplete, EditArrive, EditStart, EditMove, EditAt, EdClosing, Closing
<1>2. EditClose(e)
  BY <1>1 DEF EditStep, EditRead, EditCash, EditReread, EditCheckPlace, reqVars
<1>3. ed[e] \in Edit /\ ed[e].row \in Row
  BY <1>2 DEF TypeOK, EditClose, EditAt, Edit
<1>. DEFINE closed == IF ed[e].op = "noShow"
                      THEN [ed[e].row EXCEPT !.status = "NoShow", !.why = "noShow"]
                      ELSE [ed[e].row EXCEPT !.status = "Cancelled", !.why = "client"]
<1>4. closed \in Row /\ closed.why # "bumped" /\ closed.start = ed[e].row.start /\ closed.end = ed[e].row.end
  BY <1>3 DEF Row, TerminalStatuses
<1>5. appt' = [appt EXCEPT ![ed[e].req] = closed]
  BY <1>2 DEF EditClose, WriteRow
<1>. QED
  BY <1>2, <1>3, <1>4, <1>5

(* Only a turn that is cancelled says it was displaced.                     *)
WhyOK == \A q \in Requests : appt[q].why = "bumped" => appt[q].status = "Cancelled"

LEMMA WhyKept ==
  ASSUME FirmOnly, PlaceInv, WhyOK, [Next]_vars
  PROVE  WhyOK'
<1>. USE DEF PlaceInv, FirmInv, OnceInv, TypeInv, TypeOK, WhyOK
<1>1. ASSUME NEW p \in Procs, NEW B, NEW d,
             appt' = [WithBumped(p, B) EXCEPT ![d] = Fresh(d)]
      PROVE  WhyOK'
  <2>1. \A row \in Row : Bumped(row).status = "Cancelled"
    BY DEF Bumped, Row
  <2>. QED
    BY <1>1, <2>1 DEF WithBumped, Fresh
<1>2. ASSUME NEW d \in Requests, RequestStep(d) PROVE WhyOK'
  <2>1. CASE BookSave(d)
    BY <2>1 DEF BookSave, Fresh
  <2>2. CASE CashCommit(d)
    BY <1>1, <2>2 DEF CashCommit, Procs
  <2>3. CASE UNCHANGED appt
    BY <2>3
  <2>. QED
    BY <1>2, <2>1, <2>2, <2>3 DEF RequestStep, BookReadTurns, BookReadHolds, DepositLock,
       DepositReject, DepositGrant, MpCommit, PreferenceOk, PreferenceFails, UndoPayment
<1>3. ASSUME NEW w \in Hooks, HookStep(w) PROVE WhyOK'
  <2>1. CASE HookCommit(w)
    BY <1>1, <2>1 DEF HookCommit, Procs
  <2>2. CASE UNCHANGED appt
    BY <2>2
  <2>. QED
    BY <1>3, <2>1, <2>2 DEF HookStep, HookSave, HookLinked, HookRelease, HookLock, HookDisplace
<1>4. ASSUME NEW e \in Edits, EditStep(e) PROVE WhyOK'
  <2>1. CASE appt' # appt
    BY <1>4, <2>1, ClosedRow
  <2>2. CASE appt' = appt
    BY <2>2
  <2>. QED
    BY <2>1, <2>2
<1>5. CASE Environment \/ UNCHANGED vars
  BY <1>5 DEF Environment, PayerPays, HookRead, HoldExpires, HoldAges, PurgeExpiredHolds,
              Fails, reqVars, vars
<1>. QED
  BY <1>2, <1>3, <1>4, <1>5 DEF Next

(* Every turn, and every copy of one, stands where it was booked.           *)
Stands(row, q) == row.start = From(q) /\ row.end = To(q)
StandOK ==
  /\ \A q \in Requests : appt[q].status # "none" => Stands(appt[q], q)
  /\ \A p \in Procs, q \in Requests : seen[p][q].status # "none" => Stands(seen[p][q], q)
  /\ \A e \in Edits : ed[e] # None => Stands(ed[e].row, ed[e].req)
  /\ \A r \in Requests : bump[r] \subseteq Conflicts(r) /\ (pc[r] # "granted" => bump[r] = {})

LEMMA SeenStands ==
  ASSUME TypeOK, StandOK, UNCHANGED ask, NEW p \in Procs,
         UNCHANGED seen \/ Forget(p) \/ \E r \in Requests : Snapshot(p, r)
  PROVE  \A x \in Procs, q \in Requests : seen'[x][q].status # "none" => Stands(seen[x][q], q)'
<1>2. \A x \in Procs, q \in Requests :
        \/ seen'[x][q] = seen[x][q] \/ seen'[x][q] = NoRow
        \/ seen'[x][q] = appt[q]
  BY DEF Forget, Snapshot, Overlapping, NoRows, TypeOK
<1>. QED
  BY <1>2 DEF StandOK, Stands, From, To, NoRow

LEMMA SeatStands ==
  ASSUME TypeOK, StandOK, UNCHANGED ask, NEW p \in Procs, NEW B, B \subseteq Conflicts(p), NEW d \in Requests,
         appt' = [WithBumped(p, B) EXCEPT ![d] = Fresh(d)]
  PROVE  \A q \in Requests : appt'[q].status # "none" => Stands(appt[q], q)'
<1>1. \A row \in Row : Bumped(row).start = row.start /\ Bumped(row).end = row.end
  BY DEF Bumped, Row
<1>2. ASSUME NEW q \in Requests, appt'[q].status # "none"
      PROVE  appt'[q].start = From(q) /\ appt'[q].end = To(q)
  <2>1. CASE q = d
    BY <2>1 DEF WithBumped, Fresh
  <2>2. CASE q # d /\ q \in B
    <3>1. appt'[q] = Bumped(seen[p][q]) /\ seen[p][q] \in Row /\ seen[p][q].status # "none"
      BY <2>2 DEF WithBumped, Conflicts, TypeOK
    <3>. QED
      BY <3>1, <1>1 DEF StandOK, Stands
  <2>3. CASE q # d /\ q \notin B
    BY <1>2, <2>3 DEF WithBumped, StandOK, Stands
  <2>. QED
    BY <2>1, <2>2, <2>3
<1>. QED
  BY <1>2 DEF Stands, From, To

LEMMA StandKept ==
  ASSUME FirmOnly, PlaceInv, StandOK, [Next]_vars
  PROVE  StandOK'
<1>. USE DEF PlaceInv, FirmInv, OnceInv, TypeInv
<1>0. UNCHANGED ask /\ Requests \subseteq Procs /\ Hooks \subseteq Procs /\ Requests \cap Hooks = {} /\ TypeOK'
  BY AskSame, BookingAssumption, PlaceInvKept DEF Procs
<1>1. ASSUME NEW d \in Requests, RequestStep(d) PROVE StandOK'
  <2>1. UNCHANGED seen \/ Forget(d) \/ Snapshot(d, d)
    BY <1>1 DEF RequestStep, BookReadTurns, BookReadHolds, BookSave, DepositLock, DepositReject,
       DepositGrant, CashCommit, MpCommit, PreferenceOk, PreferenceFails, UndoPayment
  <2>2. \A x \in Procs, q \in Requests : seen'[x][q].status # "none" => Stands(seen[x][q], q)'
    BY <1>0, <2>1, SeenStands
  <2>3. \A q \in Requests : appt'[q].status # "none" => Stands(appt[q], q)'
    <3>1. CASE BookSave(d)
      BY <1>0, <3>1 DEF BookSave, Fresh, Stands, From, To, StandOK, TypeOK
    <3>2. CASE CashCommit(d)
      BY <1>0, <3>2, SeatStands DEF CashCommit, StandOK
    <3>3. CASE UNCHANGED appt
      BY <1>0, <3>3 DEF StandOK, Stands, From, To
    <3>. QED
      BY <1>1, <3>1, <3>2, <3>3 DEF RequestStep, BookReadTurns, BookReadHolds, DepositLock,
         DepositReject, DepositGrant, MpCommit, PreferenceOk, PreferenceFails, UndoPayment
  <2>4. \A e \in Edits : ed'[e] # None => Stands(ed[e].row, ed[e].req)'
    <3>1. UNCHANGED ed
      BY <1>1 DEF RequestStep, BookReadTurns, BookReadHolds, BookSave, DepositLock, DepositReject,
         DepositGrant, CashCommit, MpCommit, PreferenceOk, PreferenceFails, UndoPayment, envVars
    <3>. QED
      BY <1>0, <3>1 DEF StandOK, Stands, From, To
  <2>5. \A r \in Requests : bump'[r] \subseteq Conflicts(r)' /\ (pc'[r] # "granted" => bump'[r] = {})
    <3>. USE DEF StandOK, Goto, TypeOK
    <3>1. CASE BookReadTurns(d) \/ DepositLock(d)
      <4>1. bump[d] = {} /\ UNCHANGED bump
        BY <3>1 DEF BookReadTurns, DepositLock
      <4>0. Snapshot(d, d) /\ \E l : pc' = [pc EXCEPT ![d] = l]
        BY <3>1 DEF BookReadTurns, DepositLock
      <4>2. \A r \in Requests \ {d} : seen'[r] = seen[r] /\ pc'[r] = pc[r]
        BY <4>0 DEF Snapshot
      <4>3. \A r \in Requests \ {d} : Conflicts(r)' = Conflicts(r)
        BY <4>2 DEF Conflicts
      <4>. QED
        BY <4>1, <4>2, <4>3
    <3>2. CASE BookReadHolds(d) \/ DepositReject(d) \/ CashCommit(d) \/ MpCommit(d)
      <4>0. Forget(d) /\ \E l : pc' = [pc EXCEPT ![d] = l]
        BY <3>2 DEF BookReadHolds, DepositReject, CashCommit, MpCommit
      <4>1. bump'[d] = {} /\ \A r \in Requests \ {d} : seen'[r] = seen[r] /\ pc'[r] = pc[r] /\ bump'[r] = bump[r]
        BY <1>0, <4>0 DEF Forget
      <4>2. \A r \in Requests \ {d} : Conflicts(r)' = Conflicts(r)
        BY <4>1 DEF Conflicts
      <4>. QED
        BY <4>1, <4>2
    <3>3. CASE DepositGrant(d)
      <4>1. UNCHANGED seen /\ \A r \in Requests \ {d} : pc'[r] = pc[r] /\ bump'[r] = bump[r]
        BY <1>0, <3>3 DEF DepositGrant
      <4>2. pc'[d] = "granted" /\ bump'[d] \subseteq ProvSeen(d)
        BY <1>0, <3>3 DEF DepositGrant, Surplus
      <4>. QED
        BY <4>1, <4>2 DEF Conflicts, ProvSeen
    <3>4. CASE BookSave(d) \/ PreferenceOk(d) \/ PreferenceFails(d) \/ UndoPayment(d)
      <4>1. UNCHANGED <<seen, bump>> /\ pc[d] # "granted" /\ \A r \in Requests \ {d} : pc'[r] = pc[r]
        BY <1>0, <3>4 DEF BookSave, PreferenceOk, PreferenceFails, UndoPayment
      <4>. QED
        BY <4>1 DEF Conflicts
    <3>. QED
      BY <1>1, <3>1, <3>2, <3>3, <3>4 DEF RequestStep
  <2>. QED
    BY <2>2, <2>3, <2>4, <2>5 DEF StandOK
<1>2. ASSUME NEW w \in Hooks, HookStep(w) PROVE StandOK'
  <2>0. w \in Procs
    BY <1>0
  <2>1. UNCHANGED seen \/ Forget(w) \/ \E r \in Requests : Snapshot(w, r)
    <3>1. CASE HookDisplace(w)
      <4>1. job[w].req \in Requests
        BY <3>1 DEF HookDisplace, HookHasJob, Job, Idle
      <4>. QED
        BY <3>1, <4>1 DEF HookDisplace
    <3>2. CASE ~HookDisplace(w)
      BY <1>2, <3>2 DEF HookStep, HookSave, HookLinked, HookRelease, HookLock, HookCommit, Answer
    <3>. QED
      BY <3>1, <3>2
  <2>2. \A x \in Procs, q \in Requests : seen'[x][q].status # "none" => Stands(seen[x][q], q)'
    BY <1>0, <2>0, <2>1, SeenStands
  <2>3. \A q \in Requests : appt'[q].status # "none" => Stands(appt[q], q)'
    <3>1. CASE HookCommit(w)
      <4>1. job[w].req \in Requests
        BY <3>1 DEF HookCommit, HookHasJob, Job, Idle
      <4>. QED
        BY <1>0, <2>0, <3>1, <4>1, SeatStands DEF HookCommit, ProvSeen
    <3>2. CASE UNCHANGED appt
      BY <1>0, <3>2 DEF StandOK, Stands, From, To
    <3>. QED
      BY <1>2, <3>1, <3>2 DEF HookStep, HookSave, HookLinked, HookRelease, HookLock, HookDisplace
  <2>4. UNCHANGED ed /\ \A r \in Requests : seen'[r] = seen[r] /\ bump'[r] = bump[r] /\ pc'[r] = pc[r]
    BY <1>0, <1>2 DEF HookStep, HookSave, HookLinked, HookRelease, HookLock, HookDisplace, HookCommit,
       Answer, Forget, Snapshot, Goto, envVars, TypeOK
  <2>. QED
    BY <1>0, <2>2, <2>3, <2>4 DEF StandOK, Stands, From, To, Conflicts
<1>3. ASSUME NEW e \in Edits, EditStep(e) PROVE StandOK'
  <2>1. UNCHANGED <<seen, bump, pc>>
    BY <1>3, EditFrame DEF editFrame
  <2>2. \A q \in Requests : appt'[q].status # "none" => Stands(appt[q], q)'
    <3>1. CASE appt' # appt
      <4>1. PICK row \in Row : /\ appt' = [appt EXCEPT ![ed[e].req] = row]
                              /\ row.start = ed[e].row.start /\ row.end = ed[e].row.end
        BY <1>3, <3>1, ClosedRow
      <4>2. ed[e] # None
        BY <1>3, <3>1, ClosedRow DEF EditClose, EditAt
      <4>. QED
        BY <1>0, <4>1, <4>2 DEF StandOK, Stands, From, To, TypeOK
    <3>2. CASE appt' = appt
      BY <1>0, <3>2 DEF StandOK, Stands, From, To
    <3>. QED
      BY <3>1, <3>2
  <2>3. \A x \in Edits : ed'[x] # None => Stands(ed[x].row, ed[x].req)'
    <3>1. CASE \E op \in EditOps, q \in Requests : EditRead(e, op, q)
      BY <1>0, <3>1 DEF EditRead, StandOK, Stands, From, To, TypeOK
    <3>2. CASE EditClose(e)
      BY <1>0, <3>2 DEF EditClose, EditEnds, StandOK, Stands, From, To, TypeOK
    <3>3. ~EditComplete(e) /\ ~EditCash(e) /\ ~EditArrive(e) /\ ~EditReread(e) /\ ~EditStart(e)
          /\ ~(\E t \in Starts : EditCheckPlace(e, t)) /\ ~EditMove(e)
      BY DEF EditComplete, EditCash, EditArrive, EditReread, EditStart, EditCheckPlace, EditMove,
             EditAt, EdClosing, Closing
    <3>. QED
      BY <1>3, <3>1, <3>2, <3>3 DEF EditStep
  <2>. QED
    BY <1>0, <2>1, <2>2, <2>3 DEF StandOK, Stands, From, To, Conflicts
<1>4. CASE Environment \/ UNCHANGED vars
  <2>1. UNCHANGED <<appt, ed>>
    <3>1. ASSUME NEW p \in Procs, Fails(p) PROVE UNCHANGED <<appt, ed>>
      BY <3>1 DEF Fails
    <3>2. ASSUME NEW w \in Hooks, NEW r \in Requests, NEW o \in Outcomes, HookRead(w, r, o)
          PROVE  UNCHANGED <<appt, ed>>
      BY <3>2 DEF HookRead
    <3>3. CASE PurgeExpiredHolds \/ UNCHANGED vars
      BY <3>3 DEF PurgeExpiredHolds, envVars, vars
    <3>4. ASSUME NEW r \in Requests, \/ HoldExpires(r) \/ HoldAges(r)
                                     \/ \E o \in Outcomes : PayerPays(r, o)
          PROVE  UNCHANGED <<appt, ed>>
      BY <3>4 DEF HoldExpires, HoldAges, PayerPays, reqVars, envVars
    <3>. QED
      BY <1>4, <3>1, <3>2, <3>3, <3>4 DEF Environment
  <2>2. CASE \E p \in Procs : Fails(p)
    <3>1. PICK p \in Procs : Fails(p)
      BY <2>2
    <3>2. Forget(p)
      BY <3>1 DEF Fails
    <3>3. \A x \in Procs, q \in Requests : seen'[x][q].status # "none" => Stands(seen[x][q], q)'
      BY <1>0, <3>2, SeenStands
    <3>4. \A r \in Requests : bump'[r] \subseteq Conflicts(r)' /\ (pc'[r] # "granted" => bump'[r] = {})
      BY <1>0, <3>1 DEF Fails, Forget, Goto, StandOK, Conflicts, TypeOK
    <3>. QED
      BY <1>0, <2>1, <3>3, <3>4 DEF StandOK, Stands, From, To
  <2>3. CASE ~(\E p \in Procs : Fails(p))
    <3>1. UNCHANGED <<seen, bump>> /\ \A r \in Requests : pc'[r] = pc[r]
      BY <1>0, <1>4, <2>3 DEF Environment, PayerPays, HookRead, HoldExpires, HoldAges,
         PurgeExpiredHolds, reqVars, vars, Goto, TypeOK
    <3>. QED
      BY <1>0, <2>1, <3>1 DEF StandOK, Stands, From, To, Conflicts
  <2>. QED
    BY <2>2, <2>3
<1>. QED
  BY <1>1, <1>2, <1>3, <1>4 DEF Next

PlaceWhyInv == PlaceInv /\ WhyOK /\ StandOK

LEMMA PlaceWhyInit == ASSUME FirmOnly, Init PROVE PlaceWhyInv
<1>1. WhyOK /\ StandOK
  BY BookingAssumption DEF WhyOK, StandOK, Init, NoRows, NoRow, Procs
<1>. QED
  BY <1>1, PlaceInit DEF PlaceWhyInv

LEMMA PlaceWhyKept == ASSUME FirmOnly, PlaceWhyInv, [Next]_vars PROVE PlaceWhyInv'
BY PlaceInvKept, WhyKept, StandKept DEF PlaceWhyInv

(* Closed and displaced turns, in the words of the rows.                    *)
LEMMA GoneRows ==
  ASSUME TypeOK, TypeOK', NEW q \in Requests
  PROVE  /\ PlaceOf(q) \in Gone <=> appt[q].status \in TerminalStatuses
         /\ PlaceOf(q)' \in Gone <=> appt'[q].status \in TerminalStatuses
<1>1. appt'[q].status \in ActiveStatuses \cup TerminalStatuses \cup {"none"}
  BY DEF TypeOK, Row
<1>. QED
  BY <1>1, StatusOne, PlaceCases, PlaceCasesNext DEF Gone

(* appointments.service: no save of a copy read earlier, no notification    *)
(* and no booking brings back a turn that was done, cancelled or missed.    *)
THEOREM TerminalStaysHolds ==
  ASSUME FirmOnly
  PROVE  Spec => TerminalStays
<1>1. PlaceWhyInv /\ [Next]_vars =>
        \A q \in Requests : appt[q].status \in TerminalStatuses => appt'[q].status \in TerminalStatuses
  <2>. SUFFICES ASSUME PlaceWhyInv, [Next]_vars, NEW q \in Requests, appt[q].status \in TerminalStatuses
                PROVE  appt'[q].status \in TerminalStatuses
    OBVIOUS
  <2>1. TypeOK /\ TypeOK'
    BY PlaceWhyKept DEF PlaceWhyInv, PlaceInv, FirmInv, OnceInv, TypeInv
  <2>2. AgendaStep
    BY StepRefines DEF PlaceWhyInv
  <2>. QED
    BY <2>1, <2>2, GoneRows, AgendaMoved
<1>. QED
  BY <1>1, PlaceWhyInit, PlaceWhyKept, PTL DEF Spec, TerminalStays

(* bookWithDeposit and confirmPaidBooking: a provisional turn is cancelled  *)
(* for another in the very commit that seats a payer over its interval.     *)
THEOREM BumpedForATurnHolds ==
  ASSUME FirmOnly
  PROVE  Spec => BumpedForATurn
<1>. DEFINE Seated(q) == \E r \in Requests :
               /\ appt[r].status = "none" /\ appt'[r].status = "Confirmed"
               /\ ~IsProvisional(r)
               /\ appt'[r].start < appt[q].end /\ appt'[r].end > appt[q].start
<1>1. PlaceWhyInv /\ [Next]_vars =>
        \A q \in Requests : appt[q].why # "bumped" /\ appt'[q].why = "bumped" => Seated(q)
  <2>. SUFFICES ASSUME PlaceWhyInv, [Next]_vars, NEW q \in Requests,
                       appt[q].why # "bumped", appt'[q].why = "bumped"
                PROVE  Seated(q)
    OBVIOUS
  <2>1. TypeOK /\ TypeOK' /\ StandOK /\ StandOK' /\ WhyOK' /\ PlaceInv /\ UNCHANGED ask
    BY PlaceWhyKept, AskSame DEF PlaceWhyInv, PlaceInv, FirmInv, OnceInv, TypeInv
  <2>2. AgendaStep
    BY StepRefines DEF PlaceWhyInv
  <2>3. appt'[q].status \in TerminalStatuses
    BY <2>1 DEF WhyOK, TerminalStatuses
  <2>4. PlaceOf(q)' = "displaced"
    BY <2>1, <2>3, PlaceCasesNext
  <2>5. PlaceOf(q) # "displaced"
    BY <2>1, PlaceCases, StatusOne
  <2>6. PICK d \in Requests :
          /\ ~IsProvisional(d) /\ PlaceOf(d) \in {"held", "out", "lost"}
          /\ PlaceOf(d)' \in {"seated", "over"} /\ Overlap(q, d)
    BY <2>2, <2>4, <2>5, AgendaMoved
  <2>7. appt[d].status = "none"
    BY <2>1, <2>6, PlaceCases, StatusOne
  <2>8. appt'[d].status \in ActiveStatuses
    <3>1. appt'[d].status \in ActiveStatuses \cup TerminalStatuses \cup {"none"}
      BY <2>1 DEF TypeOK, Row
    <3>. QED
      BY <2>1, <2>6, <3>1, PlaceCasesNext
  <2>9. appt'[d].status = "Confirmed"
    BY <2>1, <2>7, <2>8, SeatedConfirmed DEF ActiveStatuses
  <2>10. appt[q].status # "none"
    <3>1. CASE appt[q].status = "none"
      <4>1. appt'[q].status = "Confirmed"
        BY <2>1, <2>3, <3>1, SeatedConfirmed DEF TerminalStatuses
      <4>. QED
        BY <2>3, <4>1 DEF TerminalStatuses
    <3>. QED
      BY <3>1
  <2>11. /\ appt[q].start = From(q) /\ appt[q].end = To(q)
         /\ appt'[d].start = From(d) /\ appt'[d].end = To(d)
    BY <2>1, <2>9, <2>10 DEF StandOK, Stands, From, To
  <2>. QED
    BY <2>6, <2>7, <2>9, <2>11 DEF Overlap
<1>. QED
  BY <1>1, PlaceWhyInit, PlaceWhyKept, PTL DEF Spec, BumpedForATurn
=============================================================================
