---------------------------- MODULE Subscription ----------------------------
(* The subscription of ONE professional to the platform                     *)
(* (SubscriptionsService): payments by Mercado Pago or recorded in cash by  *)
(* the administrator, the daily job that moves an unpaid subscription to    *)
(* past due and to blocked, and the guard that lets the professional write. *)
(* Instants are days; save() of a copy read earlier writes every column.    *)
EXTENDS Integers, FiniteSets

CONSTANTS
  Refs,        \* Mercado Pago payments, by providerPaymentId
  Cash,        \* identities of payments recorded by the administrator
  Writers,     \* calls of recordPayment that may run at once
  Jobs,        \* runs of the daily job that may overlap
  TrialDays, PeriodDays, GraceDays,
  LastDay,     \* bound on time
  MaxCuts,     \* bound on calls cut short
  NoWork       \* an idle writer or job, no end of grace

SubStatuses == {"trial", "active", "past_due", "blocked"}
Sub == [status: SubStatuses, end: Nat, grace: Int \cup {NoWork}]
SubPay == [id: Refs \cup Cash, paid: BOOLEAN, from: Nat, to: Nat]
Writer == [at: {"insert", "renew"}, id: Refs \cup Cash, paid: BOOLEAN, copy: Sub, from: Nat]
Job == [at: {"expire", "overdue", "block"}, copy: Sub \cup {NoWork}, now: Nat]

ASSUME SubscriptionAssumption ==
  /\ Refs \cap Cash = {} /\ NoWork \notin Int \cup Writer \cup Job
  /\ TrialDays \in Nat /\ PeriodDays \in Nat \ {0} /\ GraceDays \in Nat
  /\ LastDay \in Nat /\ MaxCuts \in Nat

VARIABLES
  sub,        \* the row of table subscription
  subPays,    \* rows of subscription_payment: payment, whether paid, days it covers
  writer,     \* writer[w]: the payment being recorded, and the copy of sub read
  job,        \* job[j]: what a run of the job is doing, and its copy
  day,        \* now
  mpStatus,   \* mpStatus[r]: what Mercado Pago says of payment r
  raced,      \* history: a copy was saved over a row it was not read from
  lost,       \* history: payments recorded whose renewal was cut short
  cuts        \* calls cut short

subVars == <<sub, subPays, writer, job, day, mpStatus, raced, lost, cuts>>
-----------------------------------------------------------------------------
(* A definition that a comment marks "bug" is a plausible defect of the one *)
(* that follows it.                                                         *)

(* onboard(): the row is created with the professional, in trial.           *)
SubInit ==
  /\ sub = [status |-> "trial", end |-> TrialDays, grace |-> NoWork]
  /\ subPays = {} /\ day = 0
  /\ writer = [w \in Writers |-> NoWork] /\ job = [j \in Jobs |-> NoWork]
  /\ mpStatus = [r \in Refs |-> "none"]
  /\ raced = FALSE /\ lost = {} /\ cuts = 0

(* hasWriteAccess, asked by SubscriptionGuard on every write.               *)
HasWriteAccess ==
  /\ sub.status # "blocked"
  /\ \/ day <= sub.end
     \/ day <= (IF sub.grace = NoWork THEN sub.end + GraceDays ELSE sub.grace)

Recorded(id) == \E p \in subPays : p.id = id
SaveSub(copy, new) == sub' = new /\ raced' = (raced \/ copy # sub)
WriterAt(w, l) == writer[w] # NoWork /\ writer[w].at = l
WriterDone(w) == writer' = [writer EXCEPT ![w] = NoWork]

(* Mercado Pago (external): the professional pays a checkout.  "open" is a  *)
(* payment in process, which may be approved later or never.                *)
ProfessionalPays(r, s) ==
  /\ \/ mpStatus[r] = "none"
     \/ mpStatus[r] = "open" /\ s = "approved"
  /\ mpStatus' = [mpStatus EXCEPT ![r] = s]
  /\ UNCHANGED <<sub, subPays, writer, job, day, raced, lost, cuts>>

Ignored(id) == id \in Refs /\ Recorded(id)

(* recordPayment reads the subscription and asks whether the Mercado Pago   *)
(* payment is recorded: then it is ignored.  Rows are never removed, so the *)
(* two reads are one step.                                                  *)
RecordBegins(w, id, paid) ==
  /\ writer[w] = NoWork /\ ~Ignored(id)
  /\ writer' = [writer EXCEPT ![w] =
       [at |-> "insert", id |-> id, paid |-> paid, copy |-> sub, from |-> 0]]
  /\ UNCHANGED <<sub, subPays, job, day, mpStatus, raced, lost, cuts>>

(* handleWebhook asks Mercado Pago for the payment notified, any number of  *)
(* times; markCashPaid records a payment in cash.                           *)
SubWebhook(w, r) == mpStatus[r] # "none" /\ RecordBegins(w, r, mpStatus[r] = "approved")
MarkCashPaid(w, c) ==
  /\ ~Recorded(c) /\ ~\E v \in Writers : writer[v] # NoWork /\ writer[v].id = c
  /\ RecordBegins(w, c, TRUE)

(* The period runs from the end of the current one, or from now if over.    *)
(* bug: always from now *)
PeriodFromNow(copy) == day
PeriodStart(copy) == IF copy.end > day THEN copy.end ELSE day

(* The row is inserted; the unique index on the reference refuses a second. *)
RecordInsert(w) ==
  LET from == PeriodStart(writer[w].copy)
      p == [id |-> writer[w].id, paid |-> writer[w].paid, from |-> from, to |-> from + PeriodDays]
  IN  /\ WriterAt(w, "insert")
      /\ subPays' = IF Recorded(p.id) THEN subPays ELSE subPays \cup {p}
      /\ IF p.paid /\ ~Recorded(p.id)
         THEN writer' = [writer EXCEPT ![w].at = "renew", ![w].from = from]
         ELSE WriterDone(w)
      /\ UNCHANGED <<sub, job, day, mpStatus, raced, lost, cuts>>

(* bug: a blocked professional stays blocked *)
RenewedBlocked(copy, to) == [copy EXCEPT !.end = to, !.grace = NoWork]
Renewed(copy, to) == [copy EXCEPT !.status = "active", !.end = to, !.grace = NoWork]

RecordRenew(w) ==
  /\ WriterAt(w, "renew")
  /\ SaveSub(writer[w].copy, Renewed(writer[w].copy, writer[w].from + PeriodDays))
  /\ WriterDone(w)
  /\ UNCHANGED <<subPays, job, day, mpStatus, lost, cuts>>
-----------------------------------------------------------------------------
(* runStateTransitions: `now` is when it starts.                            *)

JobAt(j, l) == job[j] # NoWork /\ job[j].at = l
JobGoes(j, work) == job' = [job EXCEPT ![j] = work]
jobFrame == <<subPays, writer, day, mpStatus, lost, cuts>>

JobStarts(j) ==
  /\ job[j] = NoWork
  /\ JobGoes(j, IF sub.status \in {"active", "trial"} /\ sub.end < day
                THEN [at |-> "expire", copy |-> sub, now |-> day]
                ELSE [at |-> "overdue", copy |-> NoWork, now |-> day])
  /\ UNCHANGED <<sub, raced, jobFrame>>

(* Unpaid at the end of the period: past due, and the window of grace opens. *)
JobExpires(j) ==
  LET copy == job[j].copy
  IN  /\ JobAt(j, "expire")
      /\ SaveSub(copy, [copy EXCEPT !.status = "past_due", !.grace = job[j].now + GraceDays])
      /\ JobGoes(j, [job[j] EXCEPT !.at = "overdue", !.copy = NoWork])
      /\ UNCHANGED jobFrame

(* The window is over: blocked.  The renewal warning that ends the run      *)
(* changes nothing.                                                         *)
(* bug: the window is not waited for *)
OverdueAtOnce(now) == sub.status = "past_due"
Overdue(now) == sub.status = "past_due" /\ sub.grace # NoWork /\ sub.grace < now

JobReadsOverdue(j) ==
  /\ JobAt(j, "overdue")
  /\ JobGoes(j, IF Overdue(job[j].now) THEN [job[j] EXCEPT !.at = "block", !.copy = sub]
                ELSE NoWork)
  /\ UNCHANGED <<sub, raced, jobFrame>>

JobBlocks(j) ==
  /\ JobAt(j, "block")
  /\ SaveSub(job[j].copy, [job[j].copy EXCEPT !.status = "blocked"])
  /\ JobGoes(j, NoWork)
  /\ UNCHANGED jobFrame

DayPasses ==
  /\ day < LastDay /\ day' = day + 1
  /\ UNCHANGED <<sub, subPays, writer, job, mpStatus, raced, lost, cuts>>

(* recordPayment ends early: what it inserted stays.                        *)
RecordCut(w) ==
  /\ writer[w] # NoWork /\ cuts < MaxCuts /\ cuts' = cuts + 1
  /\ lost' = IF writer[w].at = "renew" THEN lost \cup {writer[w].id} ELSE lost
  /\ WriterDone(w)
  /\ UNCHANGED <<sub, subPays, job, day, mpStatus, raced>>

(* A run of the job stops: the next one finds what is left.                 *)
JobCut(j) ==
  /\ job[j] # NoWork /\ cuts < MaxCuts /\ cuts' = cuts + 1
  /\ JobGoes(j, NoWork)
  /\ UNCHANGED <<sub, subPays, writer, day, mpStatus, raced, lost>>
-----------------------------------------------------------------------------
SubNext ==
  \/ \E r \in Refs, s \in {"open", "approved"} : ProfessionalPays(r, s)
  \/ \E w \in Writers : \/ \E r \in Refs : SubWebhook(w, r)
                        \/ \E c \in Cash : MarkCashPaid(w, c)
                        \/ RecordInsert(w) \/ RecordRenew(w) \/ RecordCut(w)
  \/ \E j \in Jobs : JobStarts(j) \/ JobExpires(j) \/ JobReadsOverdue(j) \/ JobBlocks(j) \/ JobCut(j)
  \/ DayPasses

SubSpec == SubInit /\ [][SubNext]_subVars

(* Mercado Pago repeats a notification until it is answered, and the server *)
(* ends what it has begun.                                                  *)
SubFairness ==
  /\ \A r \in Refs : WF_subVars(\E w \in Writers : SubWebhook(w, r))
  /\ \A w \in Writers : WF_subVars(RecordInsert(w)) /\ WF_subVars(RecordRenew(w))
SubFairSpec == SubSpec /\ SubFairness
-----------------------------------------------------------------------------
(* Properties.                                                              *)

(* Every variable holds a value of its kind.                                *)
SubTypeOK ==
  /\ sub \in Sub /\ subPays \subseteq SubPay
  /\ writer \in [Writers -> Writer \cup {NoWork}]
  /\ job \in [Jobs -> Job \cup {NoWork}]
  /\ day \in Nat /\ cuts \in Nat /\ raced \in BOOLEAN /\ lost \subseteq Refs \cup Cash
  /\ mpStatus \in [Refs -> {"none", "open", "approved"}]

(* A payment whose renewal is done: neither under way nor cut short.        *)
Settled(p) == p.paid /\ p.id \notin lost /\ \A w \in Writers : ~(WriterAt(w, "renew") /\ writer[w].id = p.id)

(* Unless a stale copy was saved, two payments never pay for one day: a     *)
(* repeated or concurrent notification adds no period, and a payment made   *)
(* early adds its period after the current one.                             *)
PaidPeriodsApart ==
  ~raced => \A p, q \in subPays : p # q /\ Settled(p) /\ Settled(q) =>
              p.to <= q.from \/ q.to <= p.from

(* Unless a stale copy was saved, who paid for today may work today,        *)
(* whatever the daily job did before, between or after.                     *)
PaidHasAccess ==
  ~raced => \A p \in subPays : Settled(p) /\ p.from <= day /\ day <= p.to => HasWriteAccess

(* Unless a stale copy was saved, nobody is blocked before the window of    *)
(* grace has passed since the end of what was paid.                         *)
BlockedAfterGrace == ~raced /\ sub.status = "blocked" => day > sub.end + GraceDays

(* subscriptions.service.ts: the webhook "acredita y renueva 30 dias".  A   *)
(* payment Mercado Pago approved is credited, however often it is notified. *)
ApprovedIsCredited ==
  \A r \in Refs : mpStatus[r] = "approved" ~> \E p \in subPays : p.id = r /\ p.paid
=============================================================================
