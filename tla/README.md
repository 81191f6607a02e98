# Verification of Turnerito

TLA+ models of the NestJS back end in `src/`: multi-tenant appointment booking
with deposits paid through Mercado Pago, a live waiting room, charging at the
counter, subscriptions and notifications. The models are translated from the
code; TLC checks them on small instances and TLAPS proves the theorems listed in
section 9 for every value of the constants.

## 1. The system's parts

All state is in PostgreSQL; handlers are asynchronous functions of one or more
Node processes, so any two of them interleave at every `await`. TypeORM's
`save(entity)` reads the row again, compares it with the entity and writes every
column that differs: saving a copy read earlier undoes what others wrote since.
Only three things are serialised: `pg_advisory_xact_lock(professional)` in
`bookWithDeposit` and `confirmPaidBooking`, the same kind of lock on
`ticket:<staff>` in `markArrival`, and unique indexes. The models therefore have
one action per awaited statement, and a handler's memory (rows read, copies it
will save) is part of the state.

| Part | State | Operations | What is hard | What makes it correct | Module |
|---|---|---|---|---|---|
| Booking and deposits (`appointments.service`, `payments.service`, `me.service`) | `appointment`, `pending_booking`, `payment` | `book`, `bookWithDeposit`, `handleWebhook`, `confirmPaidBooking`, `releasePending`, `purgeExpiredHolds`, `start/complete/noShow/cancel`, client's cancel and reschedule | concurrent payers, unlocked `book`, stale saves, repeated and late notifications, holds that lapse, failure between two statements | firm places never oversold, one turn per payment, no displacement without a seated payer, displaced clients told, payers honoured | `Booking`, `Agenda`, `BookingAgenda` |
| Waiting room (`appointments.service`, notifier) | `checkedInAt`, `ticketNumber`, `queueRank`, `calledAt`, `awayUntil`, `isPriority` of a turn | check-in, self check-in, walk-in, call, reorder, send to back, leave, away and back, undo | tickets assigned at once, saves of stale copies, queue order rewritten while people leave | one number per person and day, order kept, who left never returns, who is next is told | `WaitingRoom` |
| Charging (`charge.service`, `payments.service`) | `payment`, checkouts | QR, mark paid, deferred, revert, preference, webhook | a double tap, a QR paid after it was superseded, a webhook between a read and a save | income never counted twice, no accredited money lost | `Charge` |
| Subscriptions (`subscriptions.service`, jobs, guard) | `subscription`, `subscription_payment` | webhook, cash payment, daily transitions, write guard | repeated notifications, the job beside a payment | a payment extends access once, access ends only after the grace period | `Subscription` |
| Authentication, codes, persons, professionals, comercios, members, invitations, administration | `account`, `verification_token`, `person`, `professional`, `comercio`, `membership`, `professional_client`, `comercio_invitation` | register, log in, Google, codes, onboard, join, invite, deactivate, delete and restore | copies of an account saved over each other, a code used twice at once, an acceptance cut short | accounts can be entered exactly when claimed, whoever accepted is a member | `Tenancy` |
| Notifications, waitlist, push, raffles, files | `notification` and its BullMQ job, `waitlist_entry`, `push_subscription`, `raffle`, `file` and its object | enqueue, process, retry; entries; endpoints; draw; upload | failure between row and job, retries, stalls, dead workers | nothing forgotten | `Outreach` |
| Availability (`availability.service`), catalog (`catalog.service`), booking with "anyone" | `schedule_rule` and its services, `time_off`, `service`, `service_membership` | slots, day chips, rule and service edits, ranking of candidates | interval arithmetic at the boundaries, edits of several statements, two modules that must agree | what is offered is open and accepted | `Offer` |
| Combination rules and prices (`service-combination-rules.service`) | `service_combination_rule` | create, delete, `resolveAddons` | rounding, rules that chain | selections nest, one price each | `Combos` |
| Cash closing, metrics, legal and audit, tenant context | none that others read | reports | nothing concurrent | see section 10 | |

How they interact: booking calls payments for the preference and payments calls
booking back through the `AppointmentConfirmer` port; both enqueue notifications
on a connection of their own; the waiting room edits the rows booking made;
charging adds payments to them and shares the webhook; subscriptions share the
provider but not the handler, and gate the panel through `SubscriptionGuard`;
booking asks availability which hours are attended and the catalog who gives a
service.

## 2. How the project is built

| Module | Extends or instantiates | What it is |
|---|---|---|
| `Agenda` | | what booking promises, with no lock, payment or webhook |
| `Booking` | | the agenda of one professional, statement by statement |
| `BookingAgenda` | `Booking`, `INSTANCE Agenda` | the refinement mapping and `BooksAsAgenda` |
| `WaitingRoom` | | one agenda on one day |
| `Charge`, `Subscription`, `Tenancy`, `Outreach` | | the parts beside the agenda |
| `Offer`, `Combos` | | what a comercio offers, and what it costs |
| `MCBooking`, `MCWaiting`, `MCOffer`, `MCBackOffice` | the above | scenarios and instances |
| `BookingProofs` | `Booking` | proofs about booking: types, one turn per payment, who is told, capacity |
| `RefinementProofs` | `BookingProofs`, `BookingAgenda` | booking implements `Agenda`, and what follows |
| `WaitingProofs` | `WaitingRoom` | proofs about the waiting room |
| `SumProofs` | | lemmas about sums over a finite set |
| `ChargeProofs` | `Charge`, `SumProofs` | proofs about the money of a turn |
| `TenancyProofs` | `Tenancy` | proofs about accounts, members and clients |
| `BackOfficeProofs` | `MCBackOffice`, `ChargeProofs`, `TenancyProofs` | proofs about subscriptions and notifications, and the types of the four parts |
| `OfferProofs` | `Offer`, `Combos`, `SumProofs` | proofs about what is offered and what it costs |

`MCBackOffice` runs four parts that share no state: `part` picks one in the
initial state, so its states are the sum of theirs and not the product. `MCOffer`
does the same with `Offer` and `Combos`.

A definition that a comment marks "bug" is a plausible defect of the definition
that follows it; it is used nowhere in the models. Such a definition takes the
other's place when one asks whether a property would notice. No module that is
proved about uses RECURSIVE operators.

History variables, which no action reads: `late` (booking), `sent` (waiting room),
`raced` and `lost` (subscription), `delivered` and `orphans` (outreach), `meant` and
`torn` (offer). What they set apart is named where each property is described.

The order in which the plan was carried out is that of the sections. What it
leaves for later is at the end of section 9.

## 3. Booking

`Booking.tla` is the agenda of one professional: every query filters by
`professional_id` and the lock is taken on it, so agendas do not interact.

State. `appt[r]`, `hold[r]`, `pay[r]` are the rows that request `r` (one POST)
makes in `appointment`, `pending_booking` and `payment`. `lock` is the owner of the
advisory lock. `pc`, `seen`, `bump`, `job`, `ed` are what handlers remember
between two awaits: the rows read, the provisional turns chosen to be displaced,
the payment a webhook read, the copy a panel call will save. `mp`, `acked` are the
provider's outcomes and the notifications answered; `told` the clients sent the
"bumped" notice. `late` holds the turns made by a webhook after their hold no
longer counted, the overbooking `confirmPaidBooking` logs.

| Code | Actions |
|---|---|
| `book` | `BookReadTurns`, `BookReadHolds`, `BookSave` (no lock, no transaction) |
| `bookWithDeposit` | `DepositLock` (lock and first read), `DepositReject` / `DepositGrant` (second read and decision), `CashCommit` / `MpCommit`, then `PreferenceOk` / `PreferenceFails`, `UndoPayment` |
| `handleWebhook` | `HookRead`, `HookSave`, `HookLinked`, `HookRelease` |
| `confirmPaidBooking` | `HookLock`, `HookDisplace`, `HookCommit` |
| hold TTL, hourly job | `HoldExpires`, `HoldAges`, `PurgeExpiredHolds` |
| `start`, `complete`, `noShow`, `cancel`, `MeService` | `EditRead` and `EditClose`, `EditComplete`, `EditCash`, `EditArrive`, `EditReread`, `EditStart`, `EditCheckPlace`, `EditMove` |
| an error, a restart | `Fails` |
| Mercado Pago | `PayerPays` (external): outcomes of a checkout (a request's `payer` says which it may have), delivered any number of times, in any order, to concurrent handlers |

Abstractions. Time is units of a small grid; a hold's age is live, expired (15
minutes), stale (an hour more). Amounts, persons, staff, comercio, add-on rows and
mails other than the "bumped" one are left out; add-ons count by their minutes
(`extra`). Validation that rejects a request before it reads the agenda is left
out: requests are the ones that pass it. Self check-in's `requested` turns belong
to the waiting room.

### What booking promises

`Agenda.tla` says it without the machinery: a demand asks for a service and an
interval, firmly or loosely, and every decision is one step. A demand is `out`,
`loose` (a provisional turn), `held` (nobody else may take the place), `lost` (it was
held and is no more), `seated`, `over` (seated although lost: money that came late is
honoured), `closed` or `displaced`. A place is held or taken only if it fits (one
service at a time, capacity left at every instant), and the step that seats a
demand is the only one that displaces others, and only loose ones it meets.

`BookingAgenda.tla` maps each request to the place its rows give it: a live hold is
`held`, a payment whose hold no longer counts is `lost`, a firm turn is `seated` unless
it is `late`, and so on. `BooksAsAgenda` is `Agenda`'s specification under that mapping:
each awaited statement of lock, reads, commit, webhook, TTL and purge is one
decision of the agenda or changes nothing it sees.

### Runs

| Run | Question | Result |
|---|---|---|
| `booking_safety` | Three requests, two webhook handlers, one panel call that closes turns, one failure, holds of every age, six scenarios of contention (one place, two places, two services, provisional turns, a payer who is declined first): capacity, one service at a time, one turn per payment, displaced clients told and only for a seated payer, final states stay, and the whole implements `Agenda` | holds, 1.3 million states up to the symmetry of the webhook handlers |
| `booking_liveness` | Under fairness, is every approved payment honoured unless its hold is gone and every booking answered? | holds |
| `paid_without_turn` | Does a Paid payment always get its turn? | violated: a declined attempt deletes the hold, the approved one that follows finds none |
| `webhook_unlinks` | Does a payment stay tied to its turn? | violated: two concurrent deliveries, the second saves the copy it read before |
| `two_places_at_once` | Is the professional in one place at a time? | violated: `book` reads and saves without the lock |

`FirmWithinCapacity` and `FirmOneService` speak of firm places (firm turns and
live holds) and hold where every booking without payment is provisional and the
panel only closes turns (`FirmOnly`); `two_places_at_once` shows why the first
restriction is needed, and the stale saves of `start` and of the client's
reschedule why the second one is.

Bounds. Three requests are the fewest in which a payer, a competing payer and a
displaced provisional turn meet; two handlers are enough for one notification to
overtake another's stale copy; one failure may strike every step of every
handler. Services take one client or two, so that both the full and the nearly
full place occur.

Fairness. A handler that can run does (Node's event loop, PostgreSQL's answer):
weak fairness of `RequestStep` and `HookStep`. PostgreSQL queues the waiters of a
lock, hence strong fairness of `DepositLock` and `HookLock`. Mercado Pago repeats a
notification until it is answered 2xx: strong fairness of `Redeliver`. Nothing is
assumed of payers, of panel calls, of time or of failures. The liveness run has
no failures: a webhook that fails between `HookSave` and `HookCommit` leaves the
payment Paid, and its repetition is answered at once (line 229 of
`payments.service.ts`), so the promise is false with them.

## 4. Waiting room

`WaitingRoom.tla` is one agenda on one day: the persons who come, each with at most
one turn. Some are booked, some are walk-ins the professional enters, some check
themselves in with the QR and wait to be accepted.

State. `appt[x]` is the part of x's row the room uses: `status`, `arrived`
(`checkedInAt` is set), `ticket`, `rank` (`queueRank`), `urgent` (`isPriority`), `called`,
`away` (`awayUntil` is ahead), `awayCount`, `notified` (the two `notified_*_at`).
`call[c]` is what one handler is doing: where it is, on whom, the copies it holds
(`held`, `rows`). `lock` is the advisory lock of the numbers, `clock` the time in
seconds, `emits` the calls of `emitWaitingRoom` that have not yet computed the room,
`notice[n]` a detached run of `notifyProgress`.

| Code | Actions |
|---|---|
| `createWalkIn`, `selfCheckIn` | `Arrive`, then as `markArrival` |
| `markArrival` | `TicketLock` (lock, MAX), `TicketSave` (save of the copy, commit) |
| `checkIn`, `undoCheckIn`, `call`, `setPriority`, `confirm`, `complete`, `noShow`, `cancel`, `leaveByToken`, `setAwayByToken`, `backByToken`, `cancelMyAppointment` | `Begin` (`Allowed` is the guard, `Changed` the copy), `Save` |
| `start` | `Begin`, `TicketLock` and `TicketSave` if needed, `Reread`, `Save` |
| `sendToBack` | `Begin`, `SendToBack`, `Save` |
| `moveInQueue` | `Begin`, `MoveInQueue` or `MoveRefused`, `SaveAll` |
| the end of an absence | `AwayEnds` |
| `emitWaitingRoom`, `notifyProgress` | `NoticeRoom`, `NoticeRows`, `NoticeSend`, `NoticeMark` |
| an error, a restart | `Fails` |

Abstractions. A number given at instant t has rank t, later than any rank a
reorder writes; ties are sorted either way when even the numbers agree. Everyone in
the queue has a push subscription and the message leaves. One comercio. An
absence ends at once in the row and in every copy of it, because `awayUntil` is
compared with the present.

`Apart` states the regime the passing runs and three of the theorems are about: no
two calls work on one turn at the same time (they do work on different turns at the
same time, with a reorder counted as working on the whole queue). Nothing in the
code ensures it; without it a save of a stale copy undoes the other call, and
`TurnStaysClosed` and `OrderKept` fail. The notices are outside the regime: they
mark rows while calls hold copies of them.

| Run | Question | Result |
|---|---|---|
| `waiting_room` | One booked person, one walk-in, one self check-in, any three calls, two handlers, one failure: are numbers unique, do closed turns stay closed, is nobody absent once called, does a reorder move the one person it is asked for past the neighbour and nobody else? | holds, 1.1 million states |
| `waiting_notices` | Is whoever stays first told? Two persons, any three of the calls that neither clear the marks nor skip the emit | holds |
| `told_twice` | Is a notice sent once? | violated: two detached runs read the marks before either writes |

Bounds. Three persons are the fewest in which a move may disturb a third. Three
calls besides the arrivals allow an undo and a new check-in, a call and an absence,
two reorders that overlap. `MaxWait` lets two arrivals share a second or not. The
liveness run has two persons, one detached run at a time and counts one pending
emit: after every change there is still an emit to come, which is what the
property needs.

Fairness. Handlers and detached runs go on (the event loop), a waiter for the
number's lock is served (PostgreSQL's queue). Nothing is assumed of who arrives or
of what the professional does. The liveness run leaves out `cancelMyAppointment`,
which does not emit, and the calls that clear the marks: a mark written after they
are cleared silences the next notice.

## 5. Charging at the counter

`Charge.tla` is the money of one turn. `payment[i]` are its rows, `clerk[c]` a panel
call with the copies it holds, `payHook[h]` a webhook handler with its copy,
`checkouts` the links given out (row and amount asked), `attempts` what payers did in
them, as Mercado Pago reports it.

| Code | Actions |
|---|---|
| `createQr` | `ChargeTurn`, `QrFind`, `QrSave`, `PreferenceRead`, `PreferenceLink` |
| `createMercadoPagoPreference` | `AskPreference`, `PreferenceLink` |
| `markPaid`, `markDeferred` | `ChargeTurn`, `ReadRows`, `SettleRow` (manual rows first, then the superseded Mercado Pago one), `SettledAll` (the second summary), `NewRow` |
| `revert`, `markCashPaid`, `markCashDeferred`, `applyCashOutcome` | `TouchRead`, `TouchSave` |
| `handleWebhook` | `PayHookRead`, `PayHookSave` |
| Mercado Pago | `PayCheckout` (external): one approval of a checkout at most, at the amount it was made for |
| an error, a restart | `ClerkBreaks` |

Cash and transfer are charged alike and are one method, "manual". VAT is rounded as
the code does. `OneClerk` states that the professional answers one tap at a time;
webhooks overlap with it freely. The audit log, which no charge reads, is left out.

- `ManualWithinPrice`: what is entered by hand, owed or collected, never exceeds the
  price, through marks, undos, notes and QRs paid meanwhile, any of them cut short.
- `AccreditedKept`: a Mercado Pago row that is paid stays as it is, except under a
  copy read before it was paid (`StaleCopy`).
- `MpPaidIsApproved`: such a row is paid only if the provider approved it.
- Run `double_tap`: without `OneClerk`, what is collected exceeds the price, although
  the comment of `markPaid` says that a double tap duplicates nothing.

## 6. Subscriptions

`Subscription.tla` is the subscription of one professional. `sub` is its row, `subPays`
the rows of `subscription_payment`, `writer[w]` a `recordPayment` under way with the
copy of `sub` it read, `job[j]` a run of the daily job, `day` the present, `mpStatus` what
Mercado Pago says. `raced` records that a copy was saved over a row it was not read
from, `lost` the payments whose renewal was cut short after the insert.

| Code | Actions |
|---|---|
| `handleWebhook`, `markCashPaid`, `recordPayment` | `SubWebhook`, `MarkCashPaid` (read), `RecordInsert` (the unique index on the reference), `RecordRenew` |
| `runStateTransitions` | `JobStarts`, `JobExpires`, `JobReadsOverdue`, `JobBlocks` |
| `hasWriteAccess`, the guard | the operator `HasWriteAccess` |
| Mercado Pago | `ProfessionalPays` (external): in process, approved, or first one and then the other |
| an error, a restart, time | `RecordCut`, `JobCut`, `DayPasses` |

`PaidPeriodsApart` (two payments never buy one day), `PaidHasAccess` (who paid for
today may write today) and `BlockedAfterGrace` hold unless a stale copy was saved
(`raced`): the code does not prevent that, and the properties say exactly what is
left when it does not happen. Run `pending_payment` refutes `ApprovedIsCredited`: a
payment notified while in process is recorded as failed, and its approval then finds
the reference recorded. It runs under `SubFairSpec`: Mercado Pago repeats a
notification until it is answered, and the server ends what it begins.

## 7. Tenancy and outreach

`Tenancy.tla` says who may work where. A row is a record or `Nil`; a row deleted by
the administrator is `dead` but still there, so that unique indexes see it. An account
is its e-mail, a comercio its slug. `handler[c]` is the call under way, with the copy
it will save.

| Code | Actions |
|---|---|
| `register`, `registerProfessional`, `registerComercial` | `Register`, `Claim`, then `FindPerson`, `InsertPerson`, `Onboard` or `NewComercio`, `Issue` |
| `login`, `refresh`, `logout`, `validateGoogleUser` | `StartSession`, `Issue`, `Logout`, `BeginGoogle`, `Google` |
| `VerificationTokenService`, `verifyEmail`, `resetPassword`, `claimAccount` | `RequestCode`, `CodeLapses`, `BeginConsume`, `Consume`, `Apply`, `Reclaim`, `ResetLogsOut` |
| `findOrCreate`, `findOrCreateForAccount` | `FindPerson`, `InsertPerson`, `PersonForAccount`, `LinkPerson` |
| `createClient`, archive | `CreateClient`, `InsertClient`, `ArchiveClient` |
| `onboard`, `addMembership`, `deactivateMembership` | `BeginOnboard`, `Onboard`, `Join`, `DeactivateMembership`, `Unassign`, `AssignServices` |
| invitations | `SendInvitation`, `InviteLapses`, `BeginCancel`, `BeginAccept`, `Join`, `SaveInvite` |
| `AdminDeletionService`, `setStatus` | `SetProfessionalDead`, `SetComercioDead`, `DeleteClient`, `RestoreClient`, `BeginSetStatus`, `SetStatus` |
| an error, a restart | `HandlerCut` |

`ClaimedCanEnter`: an account counts as claimed (so `register` refuses its e-mail)
exactly when somebody can enter it, whatever copies of it are saved late.
`AcceptedIsMember`: whoever accepted an invitation has a membership, however the
acceptance was cut short and whatever was deleted meanwhile. A world at the start
is `Coherent`: one that may have come about. The run has two, nobody at all, and an
established comercio whose owner's account nobody has claimed.

`Outreach.tla` is the durable queue and what fills it or stands beside it:
`EnqueueRow` and `EnqueueJob` of `enqueue()`, the processor (`TakeJob`, `SendNote` or
`SendFails`, `SaveSent` or `SaveSentFails`, `SaveFailed`), BullMQ (attempts, the lock a
run keeps until its job fails or stalls, `JobStalls`), `WorkerDies`; the waitlist, push
endpoints, raffles and files with their calls cut at any statement (`PanelCut`).
`GoneWasDelivered`: once nobody will try a notification again it was delivered, or
its attempts or stalls were spent, or its call was cut before the queue had it
(`orphans`, the gap between `notifications.service.ts:47` and the job).

| Run | Question | Result |
|---|---|---|
| `back_office` | The four parts of sections 5 to 7, one at a time, with every call cut short at any statement | holds, 845 thousand states |
| `double_tap`, `pending_payment` | see sections 5 and 6 | violated |

Bounds. Four payment rows and three charges allow a QR, its supersession and the rest
by hand; a price of 3 gives a VAT that rounds. Two writers, one payment of each kind
and four days of a two-day period and one of grace let a payment overlap another, the
job and the block. Two accounts, comercios, persons and handlers with three calls
let a stale copy be saved over any other call. Two workers, two attempts and one
stall allow a job to be retried while its first worker is still on it.

## 8. What is offered, and what it costs

`Offer.tla` is one day of a comercio. `rule` and `mapped` are the schedule rules and the
services each is directed to, `off` the time off, `service` and `assigned` the catalog,
`connected` who has Mercado Pago, `turn` the turns and holds, `ruleEdit` and
`serviceEdit` the edits under way, `pick` the bookings with "anyone" that are trying
their candidates. Slots and chips are operators: `Cursors`, `OfferedIn`, `FreeIn`, `Slots`
follow `prepareSlotInputs` and `buildSlotsWithCounts`, `Chip`, `Winner`, `ServiceChip` the
day's status and its merge. Edits are statement by statement: `UpdateRule` saves the
hours, `RuleUnmap` validates and deletes the directions, `RuleMap` writes the new ones;
`ServiceStep` does the same for a service. `RankCandidates` and `TryCandidate` are
`bookForService` and its loop. A booking of one professional is one step here, since
`Booking` has its interleavings.

- `OfferedIsOpen`: at every instant of a slot the professional attends that service,
  nobody else is there and a place is left; the definition asks instant by instant,
  the code by cursors and overlaps.
- `OfferedIsAccepted`: the booking code accepts every slot the availability code shows.
- `ChipTellsSlots`: the day's chip of a service is "available" exactly when its list of
  slots is not empty; the two are merged over the professionals in different ways.
- `OfferedAsMeant`: a slot lies in hours meant for the service (`meant`), except while the
  rule is being edited or after the edit was cut between its statements (`torn`).

`Combos.tla` is the rules that combine services. `SelectionsNest`: what is left of an
accepted selection of add-ons is accepted, nothing in it excludes anything, and
each add-on costs what it did. `AddonsPriced`: an add-on costs from nothing to its
price, and the unique index leaves at most one discount to apply.

Run `offer` (`MCOffer`, 156 thousand states): two professionals, two services of two
ticks and one, of two places and one, two rules, two edits or bookings, one of them
cut short; and every set of up to three combination rules of two professionals over
three services whose prices a percentage does not divide.

## 9. Theorems

The assumptions on the constants are those the modules name, and every run evaluates
those of its modules: `BookingAssumption` (finitely many requests, positive durations and
capacities, provisional only without payment), `WaitingAssumption` and `NoneIsNoCall`,
`ChargeAssumption` (finitely many rows, a positive price; of the rows booking may have
left, a Mercado Pago one is paid, and one by hand is pending and not above the price:
`bookWithDeposit` charges the service by hand, the value of the turn also counts its
add-ons),
`SubscriptionAssumption`, `OutreachAssumption`, `TenancyAssumption` and
`StartAssumption` (the worlds at the start are coherent), `OfferAssumption` and
`CombosAssumption` (finitely many professionals, services, turns and items, positive
durations and capacities, hours that end after they begin). The column "from" has what
a theorem assumes besides.

| Module | Theorem | Property | From |
|---|---|---|---|
| `BookingProofs` | `TypeCorrect` | `TypeOK` | |
| | `PaymentBooksOnceHolds` | `PaymentBooksOnce` | |
| | `BumpedIsToldHolds` | `BumpedIsTold` | |
| | `CapacityRespected` | `FirmWithinCapacity` | `FirmOnly` |
| | `OnePlaceAtATime` | `FirmOneService` | `FirmOnly` |
| `RefinementProofs` | `BookingImplementsAgenda` | `BooksAsAgenda` | `FirmOnly` |
| | `TerminalStaysHolds` | `TerminalStays` | `FirmOnly` |
| | `BumpedForATurnHolds` | `BumpedForATurn` | `FirmOnly` |
| `WaitingProofs` | `WaitingTypeCorrect` | `TypeOK` | |
| | `CalledIsPresentHolds` | `CalledIsPresent` | |
| | `TicketsAreUnique` | `TicketsUnique` | `Apart = TRUE` |
| | `TurnStaysClosedHolds` | `TurnStaysClosed` | `Apart = TRUE` |
| | `OrderKeptHolds` | `OrderKept` | `Apart = TRUE` |
| | `MovePassesHolds` | `MovePasses` | |
| `ChargeProofs` | `MpPaidIsApprovedHolds` | `MpPaidIsApproved` | |
| | `AccreditedKeptHolds` | `AccreditedKept` | `OneClerk` |
| | `ManualWithinPriceHolds` | `ManualWithinPrice` | `OneClerk` |
| `TenancyProofs` | `ClaimedCanEnterHolds` | `ClaimedCanEnter` | |
| | `AcceptedIsMemberHolds` | `AcceptedIsMember` | |
| `BackOfficeProofs` | `BlockedAfterGraceHolds` | `BlockedAfterGrace` | |
| | `PaidPeriodsApartHolds` | `PaidPeriodsApart` | |
| | `PaidHasAccessHolds` | `PaidHasAccess` | |
| | `GoneWasDeliveredHolds` | `GoneWasDelivered` | |
| | `BackOfficeTypeCorrect` | `BackOfficeTypeOK` | |
| `OfferProofs` | `OfferTypeCorrect` | `OfferTypeOK` | |
| | `OfferedIsOpenHolds` | `OfferedIsOpen` | |
| | `OfferedIsAcceptedHolds` | `OfferedIsAccepted` | |
| | `OfferedAsMeantHolds` | `OfferedAsMeant` | |
| | `ChipTellsSlotsHolds` | `ChipTellsSlots` | |
| | `AddonsPricedHolds` | `AddonsPriced` | |
| | `SelectionsNestHolds` | `SelectionsNest` | |

`FirmOnly` says that every booking without payment is provisional (`book()` checks
outside the lock) and that panel calls only close turns (the saves of `start` and of
the reschedule are not guarded against a stale copy).

The arguments, by inductive invariant:

- `TypeInv` of booking adds to the types that a handler past `HookRead` has a job, without which
  the type of the payment it saves is unknown.
- `OnceInv` adds that the lock belongs to the one process inside its transaction
  (`LockOK`), which labels a request or a handler may be at (`LabelOK`), that a request
  that has not committed left nothing (`Unborn`), that only a Mercado Pago request with
  an open checkout is notified (`MpOK`), that a hold has no turn yet (`HoldOK`) and that
  rows read exist (`RowsOK`). A handler goes on to confirm only if there is a hold, a
  hold has no turn, and while it confirms it holds the lock.
- `ToldInv` adds that whoever may still be displaced, by a choice made, by rows read or
  by a copy a panel call holds, was told.
- `FirmInv` adds that active turns stand where they were booked (`Placed`), that the
  rows read under the lock are all the firm turns there are (`SeenFresh`) and that a
  granted place is still free (`Granted`). A step other than a commit under the lock
  never takes a place (`OccupiesKept`), a commit takes its own interval
  (`CommitTakes`), and what the grant counted bounds what is taken (`GrantFinds`).
- `PlaceInv` adds that a request leaves a payment exactly when it commits and that no
  hold outlives it (`Owed`), and that whoever is to be displaced meets the one to be
  seated (`MeetOK`). Each action is then one action of `Agenda`
  or leaves every place alone. The refinement gives the last two theorems about
  booking: `PlaceWhyInv` adds that only a cancelled turn says it was displaced (`WhyOK`) and
  that every turn and every copy of one stands where it was booked (`StandOK`), and what a step of `Agenda` may do to
  a place says what it may do to the turn.
- `DecentInv`: no row, and no copy that may still be saved, is both called and absent.
- `TicketInv`: calls hold disjoint rows (`HeldApart`); the rows a call holds exist, a copy
  it will save carries the number its row has or none (`SameTicket`), who is about to
  get a number has none, and a call about to give one owns the lock and knows a number
  above all those in the room (`CallOK`). Only the owner of the lock adds a number,
  above all others; every other save keeps a number or drops it.
- `ClosedInv` adds that a copy of a closed turn is closed, and that `start`, which reads
  the row again and asks nothing of it, never works on one. `OrderInv` adds that a copy
  of a call that is no reorder keeps the place of its row, and that the ranks a move
  will write keep the order of those it is not about; `SwapKeeps` is why: exchanging two
  neighbours moves nobody else past anybody. `MoveInv` says of the copies of a move that
  they put the person past the neighbour, in the same group; it needs no `Apart`,
  because the two rows are saved in one statement.
- `PaidInv`: a copy a call will save of a Mercado Pago row is not paid, and a hook that
  will save Paid has an approval. `KeptInv` adds that one panel call is under way and
  that the rows with a checkout, an attempt or a notification stay Mercado Pago's.
  Amounts play no part in these two.
- `TotalInv` adds the amounts. Every row by hand that is not open is settled (`ByHandOK`), so
  what a call finds due when none is open, or once it has settled all those it listed,
  is not charged by hand yet: `Hands(payment) + due <= Price` from that summary until the
  row is inserted (`SumsOK`). Between the two only this call writes rows by hand, which
  is what `OneClerk` gives, and a webhook never changes a base. The copies being settled
  have the base of their rows, so saving them leaves the sum alone.
- `DeedInv`: every table holds rows of its kind whose owners exist (`TablesOK`), and each
  call under way holds a copy that may be saved (`HandlersOK`). No row is ever taken out
  (`Grows`). `TypeInv` of tenancy adds the types of the tables, and that a call past the
  step that found a page, a person or a copy holds one (`SeekOK`).
- `AccessInv`: a renewal under way has its row of payment, for the days that follow the
  copy it read (`RenewOK`); a run of the job blocks only a copy that was past its grace
  when the run read the clock (`JobOK`). While no stale copy was saved (`~raced`), the row
  covers all that was paid, settled periods are apart, and a block or a grace lies after
  them (`RowOK`).
- `QueueInv`: a job has its row, a row says sent only once it was delivered, and a worker or
  a call holds a notification that exists.
- `BackInv` is the four types together; a step of one part leaves the others alone.
- `MeantInv`: a rule is directed to what it is meant for, unless an edit of it is between
  its statements or was cut there (`torn`).
- `OfferedIsOpen` and `OfferedIsAccepted` follow from the types alone, whatever the
  schedule and the turns: one relates a test on intervals to one instant by instant,
  the other the tests of two modules of the code.
- `ChipTellsSlots` holds of the operators in any state: a fold of `Winner` over a finite
  set of chips is "available" exactly when one of them is.
- `IndexInv`: two rules in force differ in a service or in the type. Then one discount at
  most applies, and the cost of a selection is a sum that splits over its parts.

Sums and folds are recursive functions that the community modules take by `CHOOSE`.
`SumProofs` shows, by induction over the subsets of a finite set (the strict subset is
well founded, as the library proves), that there is one such function, hence that
the fold unfolds, and that any element may be taken first; `ChargeProofs` and
`OfferProofs` use only what follows: a part and its rest add up, one value changes the
sum by its difference, larger values give a larger sum.

Each of these invariants holds on the instance of its run, where TLC checked it too.

Model-checked only: the liveness properties (`PaidIsHonoured`, `BookingsAreAnswered`,
`NextIsTold`), because fairness needs ENABLED, which is out of the prover's reach. Every
invariant and every action property of the runs that hold has a theorem.

The plan leaves for later: booking without `FirmOnly` and the waiting room without
`Apart`, where only weaker promises hold and they are still to be stated; properties
for the hazards that have none (end of section 10).

## 10. Not modelled

- Cash closing, metrics, legal and audit: reports and append-only records that no
  other part reads to decide. Tenant context, guards and configuration: filters and
  constants per request, without state; the transaction of `runWithTenant` is part of
  `Booking`, the guard on writes of `Subscription`.
- Booking: series, the panel's own edits of a turn, reminders. Waiting room: estimated
  times, statistics, the socket gateway. Availability: recurrence by weekday and the
  view over several days (one day is modelled). Sessions are one bit: hashes,
  signatures and expiry of tokens are left out. Catalog: categories, listings, the edit
  of a combination rule in place. Profiles, notes and tags, prizes and dates of
  raffles: fields nothing decides on. Mercado Pago's OAuth: only whether a professional
  is connected. Mail: a call to SMTP with no state.
- Hazards that no property covers, each with its reason in `PROJECT.json`: the client's
  page cancels without emitting the room; a notice's mark written after it was cleared;
  a walk-in saved and not numbered; ranks rewritten before a pending self check-in is
  accepted; the count of absences in a copy saved late; the client's reschedule, which
  looks at no hold; a pending payment left without its hold. In the first four and the
  last the code promises nothing that could be checked; the other two need what
  `Apart` or `FirmOnly` excludes.
