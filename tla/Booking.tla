------------------------------ MODULE Booking ------------------------------
(* The agenda of ONE professional (src/src/modules/appointments): every     *)
(* query of the booking code filters by professional_id and the advisory    *)
(* lock is taken on that id, so agendas do not interact.  A request is one  *)
(* call of POST /bookings; it makes at most one turn, one payment and one   *)
(* hold (pending_booking), all named here by the request itself.  A hook is *)
(* the handling of one Mercado Pago notification, an edit one call of the   *)
(* panel (AppointmentsService) or of the client's own page (MeService).     *)
(* One action is one statement the handler awaits; a transaction's writes   *)
(* appear at its commit.  TypeORM's save() of an entity read earlier writes *)
(* back every column of that copy, so a save overwrites the whole row.      *)
EXTENDS Integers, FiniteSets

CONSTANTS
  Requests,     \* calls of book / bookWithDeposit
  Hooks,        \* webhook handlers that may run at once
  Edits,        \* panel or client calls that may run at once
  Scenarios,    \* the assignments of a dto to every request
  Services,     \* the professional's services
  Duration,     \* Duration[s]: minutes of service s, add-ons apart
  Capacity,     \* Capacity[s]: clients service s takes at once
  Starts,       \* the instants a client may reschedule to
  EditOps,      \* which panel and client calls are made
  Ages,         \* how old holds get in the time modelled: "expired", "stale"
  MaxFailures,  \* bound on handlers cut short by an error or a restart
  None         \* the lock's owner when it is free

Procs == Requests \cup Hooks

(* What Mercado Pago reports of an attempt to pay.                          *)
Outcomes == {"approved", "declined"}

(* The dto (extra: minutes of add-ons) and the attempts of its payer.       *)
Ask == [kind: {"free", "cash", "mp"}, service: Services, start: Nat,
        extra: Nat, provisional: BOOLEAN, payer: SUBSET Outcomes]
OpNames == {"start", "complete", "noShow", "cancel", "clientCancel", "reschedule"}

(* Capacities and durations are positive (service.dto.ts, Min(1)); only a   *)
(* booking without payment may be provisional.                              *)
ASSUME BookingAssumption ==
  /\ IsFiniteSet(Requests)
  /\ Requests \cap Hooks = {} /\ None \notin Procs
  /\ Duration \in [Services -> Nat \ {0}] /\ Capacity \in [Services -> Nat \ {0}]
  /\ Starts \subseteq Nat /\ MaxFailures \in Nat
  /\ EditOps \subseteq OpNames /\ Ages \subseteq {"expired", "stale"}
  /\ Scenarios \subseteq [Requests -> Ask]
  /\ \A sc \in Scenarios, r \in Requests : sc[r].provisional => sc[r].kind = "free"

VARIABLES
  ask,       \* ask[r]: r's dto, fixed for the whole behaviour
  appt,      \* appt[r]: the row of table appointment that r made
  hold,      \* hold[r]: r's pending_booking and its age
  pay,       \* pay[r]: r's payment; linked is appointmentId # null
  lock,      \* owner of pg_advisory_xact_lock(professional)
  pc,        \* pc[p]: where process p is
  seen,      \* seen[p]: the overlapping rows p has read
  bump,      \* bump[p]: the provisional turns p has decided to displace
  job,       \* job[w]: notification handled by hook w, and the payment row it read
  ed,        \* ed[e]: the call edit e is serving and its copy of the row
  told,      \* clients sent the "bumped" notice
  mp,        \* mp[r]: outcomes Mercado Pago has for r's checkout
  acked,     \* acked[r]: outcomes whose notification was answered 2xx
  failures,  \* handlers cut short so far
  late       \* history: turns confirmed when their hold no longer counted

reqVars == <<ask, appt, hold, pay, lock, pc, seen, bump>>
vars == <<ask, appt, hold, pay, lock, pc, seen, bump, job, ed, told, mp, acked,
          failures, late>>
-----------------------------------------------------------------------------
(* Rows.  A definition that a comment marks "bug" is a plausible defect of  *)
(* the one that follows it; no action uses it, the mutation runs do.        *)

ActiveStatuses == {"Confirmed", "InProgress"}
TerminalStatuses == {"Done", "Cancelled", "NoShow"}

Row == [status: ActiveStatuses \cup TerminalStatuses \cup {"none"},
        start: Nat, end: Nat, why: {"no", "client", "bumped", "noShow"},
        arrived: BOOLEAN]
NoRow == [status |-> "none", start |-> 0, end |-> 0, why |-> "no", arrived |-> FALSE]
NoRows == [q \in Requests |-> NoRow]

Payment == [status: {"none", "Pending", "Paid", "Failed", "Deferred"}, linked: BOOLEAN]
NoPayment == [status |-> "none", linked |-> FALSE]

Job == [req: Requests, outcome: Outcomes, row: Payment]
Edit == [at: {"read", "arrived", "reread", "clear", "cash"}, op: OpNames,
         req: Requests, row: Row]
Idle == "idle"

Service(r) == ask[r].service
From(r) == ask[r].start
To(r) == ask[r].start + Duration[ask[r].service] + ask[r].extra

(* The row book and bookWithDeposit create; a paid one is never provisional. *)
Fresh(r) == [status |-> "Confirmed", start |-> From(r), end |-> To(r),
             why |-> "no", arrived |-> FALSE]
IsProvisional(q) == ask[q].provisional
(* bug: the status is left as it was *)
BumpedReasonOnly(row) == [row EXCEPT !.why = "bumped"]
Bumped(row) == [row EXCEPT !.status = "Cancelled", !.why = "bumped"]

(* overlapping(): active turns that meet [a, b).                            *)
(* bug: turns that only touch are conflicts *)
MeetsTouching(row, a, b) ==
  row.status \in ActiveStatuses /\ row.start <= b /\ row.end > a
Meets(row, a, b) == row.status \in ActiveStatuses /\ row.start < b /\ row.end > a
Overlapping(a, b) == [q \in Requests |-> IF Meets(appt[q], a, b) THEN appt[q] ELSE NoRow]
(* pendingHolds(): holds not yet expired that meet r's interval.            *)
(* bug: holds of other services overlooked *)
PendingHoldsOwn(r) ==
  {q \in Requests : hold[q] = "live" /\ Service(q) = Service(r)
                    /\ From(q) < To(r) /\ To(q) > From(r)}
PendingHolds(r) == {q \in Requests : hold[q] = "live" /\ From(q) < To(r) /\ To(q) > From(r)}

Conflicts(p) == {q \in Requests : seen[p][q].status # "none"}
(* bug: firm turns are displaced too *)
ProvSeenAll(p) == Conflicts(p)
ProvSeen(p) == {q \in Conflicts(p) : IsProvisional(q)}
SameService(r, S) == {q \in S : Service(q) = Service(r)}

InTx(p) == pc[p] \in {"locked", "granted", "confirm", "booking"}
-----------------------------------------------------------------------------
Init ==
  /\ ask \in Scenarios
  /\ appt = NoRows
  /\ hold = [r \in Requests |-> "none"]
  /\ pay = [r \in Requests |-> NoPayment]
  /\ lock = None
  /\ pc = [p \in Procs |-> IF p \in Requests THEN "start" ELSE Idle]
  /\ seen = [p \in Procs |-> NoRows]
  /\ bump = [p \in Procs |-> {}]
  /\ job = [w \in Hooks |-> None]
  /\ ed = [e \in Edits |-> None]
  /\ told = {} /\ late = {} /\ failures = 0
  /\ mp = [r \in Requests |-> {}] /\ acked = [r \in Requests |-> {}]

Goto(p, l) == pc' = [pc EXCEPT ![p] = l]
Forget(p) == seen' = [seen EXCEPT ![p] = NoRows] /\ bump' = [bump EXCEPT ![p] = {}]
Snapshot(p, r) == seen' = [seen EXCEPT ![p] = Overlapping(From(r), To(r))]
(* p takes the transaction lock; it waits in the database until it is free. *)
Acquire(p) == lock = None /\ lock' = p
(* bug: a session lock, not a transaction one *)
KeepsLock == UNCHANGED lock
Release == lock' = None
(* p's transaction writes the rows it read of the turns in B back as bumped. *)
WithBumped(p, B) == [q \in Requests |-> IF q \in B THEN Bumped(seen[p][q]) ELSE appt[q]]

envVars == <<job, ed, mp, acked, failures>>
-----------------------------------------------------------------------------
(* book(): a booking without payment, neither in a transaction nor locked.  *)

BookReadTurns(r) ==
  /\ ask[r].kind = "free" /\ pc[r] = "start"
  /\ Goto(r, "read") /\ Snapshot(r, r)
  /\ UNCHANGED <<ask, appt, hold, pay, lock, bump, envVars, told, late>>

(* Taken by another service, or the service's places are all gone.          *)
BookFull(r) ==
  LET busy == Conflicts(r) \cup PendingHolds(r)
  IN  \/ \E q \in busy : Service(q) # Service(r)
      \/ Cardinality(SameService(r, Conflicts(r)))
         + Cardinality(SameService(r, PendingHolds(r))) >= Capacity[Service(r)]

BookReadHolds(r) ==
  /\ ask[r].kind = "free" /\ pc[r] = "read"
  /\ Goto(r, IF BookFull(r) THEN "rejected" ELSE "save")
  /\ Forget(r)
  /\ UNCHANGED <<ask, appt, hold, pay, lock, envVars, told, late>>

BookSave(r) ==
  /\ pc[r] = "save"
  /\ appt' = [appt EXCEPT ![r] = Fresh(r)]
  /\ Goto(r, "done")
  /\ UNCHANGED <<ask, hold, pay, lock, seen, bump, envVars, told, late>>
-----------------------------------------------------------------------------
(* bookWithDeposit(): one transaction under the professional's lock.        *)

DepositLock(r) ==
  /\ ask[r].kind # "free" /\ pc[r] = "start"
  /\ Acquire(r) /\ Goto(r, "locked") /\ Snapshot(r, r)
  /\ UNCHANGED <<ask, appt, hold, pay, bump, envVars, told, late>>

(* Firm places taken: same-service firm turns read, and live holds.         *)
(* bug: live holds not counted *)
FirmTurnsOnly(r) == Cardinality(SameService(r, Conflicts(r) \ ProvSeen(r)))
FirmOccupied(r) ==
  Cardinality(SameService(r, Conflicts(r) \ ProvSeen(r)))
  + Cardinality(SameService(r, PendingHolds(r)))

DepositTaken(r) ==
  \/ \E q \in Conflicts(r) \cup PendingHolds(r) : Service(q) # Service(r)
  \/ FirmOccupied(r) >= Capacity[Service(r)]

(* slice(max(0, provToKeep)) of a list the query leaves unordered: any set  *)
(* of the surplus size.                                                     *)
Surplus(r) ==
  LET keep == Capacity[Service(r)] - FirmOccupied(r) - 1
  IN  {B \in SUBSET ProvSeen(r) :
         Cardinality(B) = IF Cardinality(ProvSeen(r)) > keep
                          THEN Cardinality(ProvSeen(r)) - keep ELSE 0}

DepositReject(r) ==
  /\ pc[r] = "locked" /\ DepositTaken(r)
  /\ Release /\ Goto(r, "rejected") /\ Forget(r)
  /\ UNCHANGED <<ask, appt, hold, pay, envVars, told, late>>

(* Cash and transfer displace the surplus: the notice leaves before the     *)
(* commit, on another connection.  A Mercado Pago hold displaces nobody yet. *)
DepositGrant(r) ==
  /\ pc[r] = "locked" /\ ~DepositTaken(r)
  /\ \E B \in IF ask[r].kind = "cash" THEN Surplus(r) ELSE {{}} :
       /\ bump' = [bump EXCEPT ![r] = B]
       /\ told' = told \cup B
  /\ Goto(r, "granted")
  /\ UNCHANGED <<ask, appt, hold, pay, lock, seen, envVars, late>>

CashCommit(r) ==
  /\ pc[r] = "granted" /\ ask[r].kind = "cash"
  /\ appt' = [WithBumped(r, bump[r]) EXCEPT ![r] = Fresh(r)]
  /\ pay' = [pay EXCEPT ![r] = [status |-> "Pending", linked |-> TRUE]]
  /\ Release /\ Goto(r, "done") /\ Forget(r)
  /\ UNCHANGED <<ask, hold, envVars, told, late>>

MpCommit(r) ==
  /\ pc[r] = "granted" /\ ask[r].kind = "mp"
  /\ pay' = [pay EXCEPT ![r] = [status |-> "Pending", linked |-> FALSE]]
  /\ hold' = [hold EXCEPT ![r] = "live"]
  /\ Release /\ Goto(r, "checkout") /\ Forget(r)
  /\ UNCHANGED <<ask, appt, envVars, told, late>>

(* createMercadoPagoPreference answers: the client is sent to the checkout. *)
PreferenceOk(r) ==
  /\ pc[r] = "checkout" /\ Goto(r, "done")
  /\ UNCHANGED <<ask, appt, hold, pay, lock, seen, bump, envVars, told, late>>

(* It throws: the catch deletes the hold, then the payment.                 *)
PreferenceFails(r) ==
  /\ pc[r] = "checkout" /\ Goto(r, "undo")
  /\ hold' = [hold EXCEPT ![r] = "none"]
  /\ UNCHANGED <<ask, appt, pay, lock, seen, bump, envVars, told, late>>

UndoPayment(r) ==
  /\ pc[r] = "undo" /\ Goto(r, "rejected")
  /\ pay' = [pay EXCEPT ![r] = NoPayment]
  /\ UNCHANGED <<ask, appt, hold, lock, seen, bump, envVars, told, late>>
-----------------------------------------------------------------------------
(* Mercado Pago (external): the payer tries to pay an open checkout, which  *)
(* neither expires nor closes with the hold; a declined or pending attempt  *)
(* may be followed by an approved one.                                      *)
PayerPays(r, o) ==
  /\ ask[r].kind = "mp" /\ pc[r] = "done" /\ o \in ask[r].payer
  /\ "approved" \notin mp[r] /\ o \notin mp[r]
  /\ mp' = [mp EXCEPT ![r] = @ \cup {o}]
  /\ UNCHANGED <<reqVars, job, ed, acked, failures, told, late>>

(* PaymentsService.handleWebhook: a notification, first, again or late.     *)
(* Already Paid: answered at once.                                          *)
HookRead(w, r, o) ==
  /\ pc[w] = Idle /\ o \in mp[r] /\ pay[r].status # "none"
  /\ IF pay[r].status = "Paid"
     THEN acked' = [acked EXCEPT ![r] = @ \cup {o}] /\ UNCHANGED <<pc, job>>
     ELSE /\ job' = [job EXCEPT ![w] = [req |-> r, outcome |-> o, row |-> pay[r]]]
          /\ Goto(w, "read") /\ UNCHANGED acked
  /\ UNCHANGED <<ask, appt, hold, pay, lock, seen, bump, ed, mp, failures, told, late>>

(* bug: stores the provider's word *)
SavedRawStatus(j) == [j.row EXCEPT !.status = j.outcome]
Saved(j) == [j.row EXCEPT !.status = IF j.outcome = "approved" THEN "Paid" ELSE "Failed"]

HookSave(w) ==
  /\ pc[w] = "read" /\ Goto(w, "saved")
  /\ pay' = [pay EXCEPT ![job[w].req] = Saved(job[w])]
  /\ UNCHANGED <<ask, appt, hold, lock, seen, bump, envVars, told, late>>

(* The handler returns and Mercado Pago takes the notification as delivered. *)
Answer(w) ==
  /\ acked' = [acked EXCEPT ![job[w].req] = @ \cup {job[w].outcome}]
  /\ job' = [job EXCEPT ![w] = None]
  /\ Goto(w, Idle) /\ Forget(w)

(* The copy read at the start already had its turn: nothing to create.      *)
HookLinked(w) ==
  /\ pc[w] = "saved" /\ job[w].row.linked
  /\ Answer(w)
  /\ UNCHANGED <<ask, appt, hold, pay, lock, ed, mp, failures, told, late>>

(* releasePending                                                           *)
HookRelease(w) ==
  /\ pc[w] = "saved" /\ job[w].outcome = "declined" /\ ~job[w].row.linked
  /\ hold' = [hold EXCEPT ![job[w].req] = "none"]
  /\ Answer(w)
  /\ UNCHANGED <<ask, appt, pay, lock, ed, mp, failures, told, late>>

(* confirmPaidBooking: lock, read the payment again and the pending booking. *)
(* With a turn already, or with no hold left, it returns.                   *)
(* bug: the hold is not looked for again *)
NothingByLink(r) == pay[r].linked
(* bug: a payment after 15 minutes is dropped *)
NothingUnlessLive(r) == pay[r].linked \/ hold[r] # "live"
NothingToConfirm(r) == pay[r].linked \/ hold[r] = "none"

HookLock(w) ==
  /\ pc[w] = "saved" /\ job[w].outcome = "approved" /\ ~job[w].row.linked
  /\ lock = None
  /\ IF NothingToConfirm(job[w].req)
     THEN Answer(w) /\ UNCHANGED lock
     ELSE lock' = w /\ Goto(w, "confirm") /\ UNCHANGED <<acked, job, seen, bump>>
  /\ UNCHANGED <<ask, appt, hold, pay, ed, mp, failures, told, late>>

(* Reads the conflicts and displaces every provisional one of them.         *)
(* bug: the notice is left out *)
DisplacedUntold(w) == {}
Displaced(w) == {q \in Requests :
  Meets(appt[q], From(job[w].req), To(job[w].req)) /\ IsProvisional(q)}

HookDisplace(w) ==
  /\ pc[w] = "confirm" /\ Goto(w, "booking") /\ Snapshot(w, job[w].req)
  /\ told' = told \cup Displaced(w)
  /\ UNCHANGED <<ask, appt, hold, pay, lock, bump, envVars, late>>

(* Creates the turn, over a firm one if need be, links the payment, deletes *)
(* the hold.                                                                *)
HookCommit(w) ==
  LET r == job[w].req
  IN  /\ pc[w] = "booking"
      /\ appt' = [WithBumped(w, ProvSeen(w)) EXCEPT ![r] = Fresh(r)]
      /\ pay' = [pay EXCEPT ![r].linked = TRUE]
      /\ hold' = [hold EXCEPT ![r] = "none"]
      /\ late' = IF hold[r] = "live" THEN late ELSE late \cup {r}
      /\ Release /\ Answer(w)
      /\ UNCHANGED <<ask, ed, mp, failures, told>>

(* The handler ends early: a query, the queue or the process fails.  An open *)
(* transaction rolls back and its lock is freed; what was saved stays.      *)
Fails(p) ==
  /\ failures < MaxFailures
  /\ pc[p] \notin {"start", "done", "rejected", "failed", Idle}
  /\ failures' = failures + 1
  /\ lock' = IF lock = p THEN None ELSE lock
  /\ Goto(p, IF p \in Hooks THEN Idle ELSE "failed")
  /\ Forget(p)
  /\ job' = IF p \in Hooks THEN [job EXCEPT ![p] = None] ELSE job
  /\ UNCHANGED <<ask, appt, hold, pay, ed, mp, acked, told, late>>
-----------------------------------------------------------------------------
(* Time passes for a hold: 15 minutes after it was taken it stops counting, *)
(* one hour later the hourly job may delete it.                             *)
HoldExpires(r) ==
  /\ "expired" \in Ages /\ hold[r] = "live" /\ hold' = [hold EXCEPT ![r] = "expired"]
  /\ UNCHANGED <<ask, appt, pay, lock, pc, seen, bump, envVars, told, late>>

HoldAges(r) ==
  /\ "stale" \in Ages /\ hold[r] = "expired" /\ hold' = [hold EXCEPT ![r] = "stale"]
  /\ UNCHANGED <<ask, appt, pay, lock, pc, seen, bump, envVars, told, late>>

PurgeExpiredHolds ==
  /\ \E r \in Requests : hold[r] = "stale"
  /\ hold' = [r \in Requests |-> IF hold[r] = "stale" THEN "none" ELSE hold[r]]
  /\ UNCHANGED <<ask, appt, pay, lock, pc, seen, bump, envVars, told, late>>
-----------------------------------------------------------------------------
(* Calls on a turn: the panel's transitions and the client's own page.      *)

Allowed(op, row) ==
  CASE op = "start"    -> row.status = "Confirmed"
    [] op = "complete" -> row.status = "InProgress"
    [] op = "noShow"   -> TRUE
    [] op = "cancel"   -> row.status \notin {"Done", "Cancelled"}
    [] OTHER           -> row.status \notin TerminalStatuses

(* findById and the guard; a call the guard refuses changes nothing.        *)
EditRead(e, op, q) ==
  /\ ed[e] = None /\ appt[q].status # "none" /\ Allowed(op, appt[q])
  /\ ed' = [ed EXCEPT ![e] = [at |-> "read", op |-> op, req |-> q, row |-> appt[q]]]
  /\ UNCHANGED <<reqVars, job, mp, acked, failures, told, late>>

WriteRow(e, row) == appt' = [appt EXCEPT ![ed[e].req] = row]
EditAt(e, l) == ed[e] # None /\ ed[e].at = l
EditGoes(e, l) == ed' = [ed EXCEPT ![e].at = l]
EditEnds(e) == ed' = [ed EXCEPT ![e] = None]
editFrame == <<ask, hold, lock, pc, seen, bump, job, mp, acked, failures, told, late>>

(* transition(): noShow, and cancel by the panel or by the client.          *)
EditClose(e) ==
  LET row == ed[e].row
  IN  /\ EditAt(e, "read") /\ ed[e].op \in {"noShow", "cancel", "clientCancel"}
      /\ WriteRow(e, IF ed[e].op = "noShow"
                     THEN [row EXCEPT !.status = "NoShow", !.why = "noShow"]
                     ELSE [row EXCEPT !.status = "Cancelled", !.why = "client"])
      /\ EditEnds(e)
      /\ UNCHANGED <<editFrame, pay>>

(* complete, then applyCashOutcome on the turn's open cash payment.         *)
EditComplete(e) ==
  /\ EditAt(e, "read") /\ ed[e].op = "complete"
  /\ WriteRow(e, [ed[e].row EXCEPT !.status = "Done"])
  /\ EditGoes(e, "cash")
  /\ UNCHANGED <<editFrame, pay>>

EditCash(e) ==
  LET q == ed[e].req
  IN  /\ EditAt(e, "cash")
      /\ \/ /\ ask[q].kind = "cash" /\ pay[q].status = "Pending" /\ pay[q].linked
            /\ \E s \in {"Paid", "Deferred"} : pay' = [pay EXCEPT ![q].status = s]
         \/ UNCHANGED pay
      /\ EditEnds(e)
      /\ UNCHANGED <<editFrame, appt>>

(* start: markArrival saves the copy unless the person had arrived, then    *)
(* transition reads the row again and saves it without a second guard.      *)
EditArrive(e) ==
  LET row == ed[e].row
  IN  /\ EditAt(e, "read") /\ ed[e].op = "start"
      /\ IF row.arrived THEN UNCHANGED appt ELSE WriteRow(e, [row EXCEPT !.arrived = TRUE])
      /\ EditGoes(e, "arrived")
      /\ UNCHANGED <<editFrame, pay>>

EditReread(e) ==
  /\ EditAt(e, "arrived")
  /\ ed' = [ed EXCEPT ![e].at = "reread", ![e].row = appt[ed[e].req]]
  /\ UNCHANGED <<editFrame, appt, pay>>

EditStart(e) ==
  /\ EditAt(e, "reread")
  /\ WriteRow(e, [ed[e].row EXCEPT !.status = "InProgress"])
  /\ EditEnds(e)
  /\ UNCHANGED <<editFrame, pay>>

Moved(row, t, u) == [row EXCEPT !.start = t, !.end = u]

(* rescheduleMyAppointment: the new place must meet no other active turn;   *)
(* holds, capacity and add-ons are not looked at.                           *)
EditCheckPlace(e, t) ==
  LET q == ed[e].req   u == t + Duration[Service(q)]
  IN  /\ EditAt(e, "read") /\ ed[e].op = "reschedule"
      /\ \A other \in Requests \ {q} : ~Meets(appt[other], t, u)
      /\ ed' = [ed EXCEPT ![e].at = "clear", ![e].row = Moved(ed[e].row, t, u)]
      /\ UNCHANGED <<editFrame, appt, pay>>

EditMove(e) ==
  /\ EditAt(e, "clear") /\ WriteRow(e, ed[e].row) /\ EditEnds(e)
  /\ UNCHANGED <<editFrame, pay>>
-----------------------------------------------------------------------------
RequestStep(r) ==
  \/ BookReadTurns(r) \/ BookReadHolds(r) \/ BookSave(r)
  \/ DepositLock(r) \/ DepositReject(r) \/ DepositGrant(r)
  \/ CashCommit(r) \/ MpCommit(r)
  \/ PreferenceOk(r) \/ PreferenceFails(r) \/ UndoPayment(r)

HookStep(w) ==
  \/ HookSave(w) \/ HookLinked(w) \/ HookRelease(w)
  \/ HookLock(w) \/ HookDisplace(w) \/ HookCommit(w)

EditStep(e) ==
  \/ \E op \in EditOps, q \in Requests : EditRead(e, op, q)
  \/ EditClose(e) \/ EditComplete(e) \/ EditCash(e)
  \/ EditArrive(e) \/ EditReread(e) \/ EditStart(e)
  \/ \E t \in Starts : EditCheckPlace(e, t)
  \/ EditMove(e)

Environment ==
  \/ \E r \in Requests, o \in Outcomes : PayerPays(r, o)
  \/ \E w \in Hooks, r \in Requests, o \in Outcomes : HookRead(w, r, o)
  \/ \E r \in Requests : HoldExpires(r) \/ HoldAges(r)
  \/ PurgeExpiredHolds
  \/ \E p \in Procs : Fails(p)

Next ==
  \/ \E r \in Requests : RequestStep(r)
  \/ \E w \in Hooks : HookStep(w)
  \/ \E e \in Edits : EditStep(e)
  \/ Environment

Spec == Init /\ [][Next]_vars

(* Postgres queues lock waiters and the event loop runs every handler on;   *)
(* Mercado Pago repeats a notification until it is answered 2xx.            *)
Redeliver(r, o) == o \notin acked[r] /\ \E w \in Hooks : HookRead(w, r, o)

Fairness ==
  /\ \A r \in Requests : WF_vars(RequestStep(r)) /\ SF_vars(DepositLock(r))
  /\ \A w \in Hooks : WF_vars(HookStep(w)) /\ SF_vars(HookLock(w))
  /\ \A r \in Requests, o \in Outcomes : SF_vars(Redeliver(r, o))

FairSpec == Spec /\ Fairness
-----------------------------------------------------------------------------
(* Properties.                                                              *)

(* Every variable holds a value of its kind.                                *)
TypeOK ==
  /\ ask \in [Requests -> Ask]
  /\ appt \in [Requests -> Row]
  /\ hold \in [Requests -> {"none", "live", "expired", "stale"}]
  /\ pay \in [Requests -> Payment]
  /\ lock \in Procs \cup {None}
  /\ pc \in [Procs -> {"start", "read", "save", "locked", "granted", "checkout", "undo",
                       "done", "rejected", "failed", Idle, "saved", "confirm", "booking"}]
  /\ seen \in [Procs -> [Requests -> Row]]
  /\ bump \in [Procs -> SUBSET Requests]
  /\ job \in [Hooks -> Job \cup {None}]
  /\ ed \in [Edits -> Edit \cup {None}]
  /\ told \subseteq Requests /\ late \subseteq Requests
  /\ mp \in [Requests -> SUBSET Outcomes]
  /\ acked \in [Requests -> SUBSET Outcomes]
  /\ failures \in Nat

(* A place no later request may take: a turn that is not provisional, or a  *)
(* hold while it lives.  Turns confirmed after their hold had lapsed are    *)
(* the overbooking confirmPaidBooking announces, and are set apart.         *)
Firm(q) == appt[q].status \in ActiveStatuses /\ ~IsProvisional(q) /\ q \notin late
Occupies(q, t) ==
  \/ Firm(q) /\ appt[q].start <= t /\ t < appt[q].end
  \/ hold[q] = "live" /\ From(q) <= t /\ t < To(q)
Taken(s, t) == {q \in Requests : Service(q) = s /\ Occupies(q, t)}
Instants == {From(r) : r \in Requests} \cup Starts

(* At no instant do the firm turns and live holds of a service exceed its   *)
(* capacity: two payments at once never sell one place twice.               *)
FirmWithinCapacity ==
  \A s \in Services, t \in Instants : Cardinality(Taken(s, t)) <= Capacity[s]

(* At no instant is the professional promised, firmly, to two services.     *)
FirmOneService ==
  \A q, r \in Requests, t \in Instants :
    Occupies(q, t) /\ Occupies(r, t) => Service(q) = Service(r)

(* While a webhook is creating a turn from its hold, nobody has created it: *)
(* repeated or concurrent notifications never make a second turn.           *)
PaymentBooksOnce ==
  \A w \in Hooks : pc[w] \in {"confirm", "booking"} => appt[job[w].req].status = "none"

(* Whoever lost a turn to a payer was sent the notice, whatever failed.     *)
BumpedIsTold == \A q \in Requests : appt[q].why = "bumped" => q \in told

(* A provisional turn is displaced only in the step that seats a payer over *)
(* its interval: nobody loses a turn to a hold or to a rolled back booking. *)
BumpedForATurn ==
  [][\A q \in Requests :
       appt[q].why # "bumped" /\ appt'[q].why = "bumped" =>
         \E r \in Requests :
           /\ appt[r].status = "none" /\ appt'[r].status = "Confirmed"
           /\ ~IsProvisional(r)
           /\ appt'[r].start < appt[q].end /\ appt'[r].end > appt[q].start]_vars

(* A turn that reached a final state never comes back to the agenda.        *)
TerminalStays ==
  [][\A q \in Requests : appt[q].status \in TerminalStatuses =>
       appt'[q].status \in TerminalStatuses]_vars

(* An approved payment becomes a turn, unless its hold is gone.             *)
PaidIsHonoured ==
  \A r \in Requests :
    "approved" \in mp[r] ~> (appt[r].status # "none" \/ hold[r] = "none")

(* The lock never stays taken, so every booking call is answered.           *)
BookingsAreAnswered ==
  \A r \in Requests : <>(pc[r] \in {"done", "rejected", "failed"})

(* pending-booking.entity.ts: "si el pago se acredita (webhook), el         *)
(* Appointment se crea recien ahi".  Once every notification was answered   *)
(* and none is being handled, a payment that is Paid has its turn.          *)
PaidHasTurn ==
  \A r \in Requests :
    /\ pay[r].status = "Paid" /\ mp[r] \subseteq acked[r]
    /\ \A w \in Hooks : job[w] = None \/ job[w].req # r
    => appt[r].status # "none"

(* payments.service.ts: the webhook is "Idempotente".  A payment tied to    *)
(* its turn stays tied to it.                                               *)
LinkStays == [][\A r \in Requests : pay[r].linked => pay'[r].linked]_vars

(* overlapping(): "un profesional no puede estar en dos lugares a la vez".  *)
(* No instant has active turns of two services.                             *)
OneServiceAtATime ==
  \A q, r \in Requests, t \in Instants :
    Meets(appt[q], t, t + 1) /\ Meets(appt[r], t, t + 1) => Service(q) = Service(r)
=============================================================================
