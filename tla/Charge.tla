------------------------------- MODULE Charge -------------------------------
(* The money of ONE turn (ChargeService and PaymentsService): what it is    *)
(* worth, the rows of table payment that settle it, the QR of Mercado Pago, *)
(* "already paid", the promissory note and the undoing of a mark, beside    *)
(* the provider's notifications.  Every row belongs to one turn, so turns   *)
(* do not interact.  One action is one statement a handler awaits; save()   *)
(* writes back every column of the copy read earlier.  The audit log, which *)
(* never fails a charge and is never read by one, is left out.              *)
EXTENDS Integers, FiniteSets, FiniteSetsExt

CONSTANTS
  PayRows,       \* identities of payment rows
  Clerks,        \* panel calls that may run at once
  PayHooks,      \* webhook handlers that may run at once
  Price,         \* value of the turn without VAT, add-ons included
  VatPercent,    \* VAT charged on Mercado Pago payments
  FirstRows,     \* the row booking may have left: to pay by hand, or accredited
  OneClerk,      \* TRUE: one panel call on the turn at a time
  MaxCharges,    \* bound on panel calls
  MaxBreaks,     \* bound on handlers cut short
  NoCall         \* an idle clerk or hook

ChargeOps == {"qr", "preference", "paid", "deferred", "revert", "cashPaid",
              "cashDeferred", "collected", "owed"}

(* Math.round((baseCents * percent) / 100), on amounts that are not negative. *)
VatOf(base) == (base * VatPercent + 50) \div 100

PaymentStatuses == {"none", "Pending", "Paid", "Failed", "Deferred"}
(* cash and transfer are charged by hand alike: "manual".                   *)
Money == [method: {"none", "manual", "mp"}, base: Nat, vat: Nat, status: PaymentStatuses]
NoMoney == [method |-> "none", base |-> 0, vat |-> 0, status |-> "none"]
OpenStatuses == {"Pending", "Deferred"}
(* What the checkout of a row asks the payer for.                           *)
AmountAsked(row) == row.base + row.vat

ASSUME ChargeAssumption ==
  /\ IsFiniteSet(PayRows) /\ NoCall \notin Clerks \cup PayHooks
  /\ Price \in Nat \ {0} /\ VatPercent \in Nat
  /\ OneClerk \in BOOLEAN /\ MaxCharges \in Nat /\ MaxBreaks \in Nat
  /\ FirstRows \subseteq Money
  /\ \A m \in FirstRows : m.method = "mp" => m.status = "Paid"
  /\ \A m \in FirstRows : m.method = "manual" => m.status = "Pending" /\ m.base <= Price

VARIABLES
  payment,    \* payment[i]: row i of table payment
  clerk,      \* clerk[c]: what a panel call is doing and the copies it holds
  payHook,    \* payHook[h]: what a webhook handler is doing and its copy
  checkouts,  \* the checkouts whose link was given out: row and amount asked
  attempts,   \* what payers did in them, as Mercado Pago reports it
  charges,    \* panel calls made
  breaks      \* handlers cut short

chargeVars == <<payment, clerk, payHook, checkouts, attempts, charges, breaks>>

Checkout == [row: PayRows, amount: Nat]
Attempt == [row: PayRows, amount: Nat, approved: BOOLEAN]
Clerk == [at: {"rows", "settle", "rest", "note", "find", "save", "read", "link", "one"},
          op: ChargeOps, row: PayRows, copies: [PayRows -> Money],
          todo: SUBSET PayRows, due: Nat]
PayHook == [row: PayRows, copy: Money, approved: BOOLEAN]
-----------------------------------------------------------------------------
(* summary(): what is paid, VAT apart, and what is due.  A definition that  *)
(* a comment marks "bug" is a plausible defect of the one that follows it.  *)
InUse(i) == payment[i].status # "none"
(* The identity a new row takes: any one that no row has.                   *)
Fresh(i) == ~InUse(i) /\ i = CHOOSE j \in PayRows : ~InUse(j)
PaidRows == {i \in PayRows : payment[i].status = "Paid"}
SumBase(S) == SumFunctionOnSet([i \in S |-> payment[i].base], S)
Due == IF SumBase(PaidRows) >= Price THEN 0 ELSE Price - SumBase(PaidRows)

Manual(row) == row.method = "manual"
ManualOpen(row) == Manual(row) /\ row.status \in OpenStatuses
MpPending(row) == row.method = "mp" /\ row.status = "Pending"

ChargeInit ==
  /\ \E first \in FirstRows \cup {NoMoney} :
       payment = [[i \in PayRows |-> NoMoney] EXCEPT ![CHOOSE i \in PayRows : TRUE] = first]
  /\ clerk = [c \in Clerks |-> NoCall] /\ payHook = [h \in PayHooks |-> NoCall]
  /\ attempts = {[row |-> i, amount |-> AmountAsked(payment[i]), approved |-> TRUE] :
                   i \in {j \in PayRows : payment[j].method = "mp"}}
  /\ checkouts = {} /\ charges = 0 /\ breaks = 0

ClerkAt(c, l) == clerk[c] # NoCall /\ clerk[c].at = l
ClerkDone(c) == clerk' = [clerk EXCEPT ![c] = NoCall]
WriteMoney(i, row) == payment' = [payment EXCEPT ![i] = row]
providerVars == <<payHook, checkouts, attempts>>
clerkFrame == <<providerVars, charges, breaks>>

Copies(S) == [i \in PayRows |-> IF i \in S THEN payment[i] ELSE NoMoney]
Starts(c, l, op, i, S, due) ==
  /\ clerk[c] = NoCall /\ charges < MaxCharges /\ charges' = charges + 1
  /\ OneClerk => \A d \in Clerks : clerk[d] = NoCall
  /\ clerk' = [clerk EXCEPT ![c] =
       [at |-> l, op |-> op, row |-> i, copies |-> Copies(S), todo |-> {}, due |-> due]]
  /\ UNCHANGED <<payment, providerVars, breaks>>
-----------------------------------------------------------------------------
(* createQr, markPaid and markDeferred start with the summary and refuse a  *)
(* turn that is fully paid.                                                 *)
ChargeTurn(c, op, i) ==
  /\ op \in {"qr", "paid", "deferred"} /\ Due > 0
  /\ Starts(c, IF op = "qr" THEN "find" ELSE "rows", op, i, {}, Due)

(* createQr: the open Mercado Pago row is used again, else one is created.  *)
QrRow(i) ==
  IF \E j \in PayRows : MpPending(payment[j]) THEN MpPending(payment[i]) ELSE Fresh(i)

QrFind(c, i) ==
  LET due == clerk[c].due
  IN  /\ ClerkAt(c, "find") /\ QrRow(i)
      /\ clerk' = [clerk EXCEPT ![c].at = "save", ![c].row = i, ![c].copies =
           [@ EXCEPT ![i] = [method |-> "mp", base |-> due, vat |-> VatOf(due),
                             status |-> "Pending"]]]
      /\ UNCHANGED <<payment, clerkFrame>>

QrSave(c) ==
  LET i == clerk[c].row
  IN  /\ ClerkAt(c, "save")
      /\ WriteMoney(i, clerk[c].copies[i])
      /\ clerk' = [clerk EXCEPT ![c].at = "read"]
      /\ UNCHANGED clerkFrame

(* createMercadoPagoPreference, of the QR or asked for a row by itself: a   *)
(* row that is paid is refused.  The provider may fail.                     *)
AskPreference(c, i) ==
  /\ InUse(i) /\ payment[i].status # "Paid"
  /\ Starts(c, "link", "preference", i, {i}, 0)

PreferenceRead(c) ==
  LET i == clerk[c].row
  IN  /\ ClerkAt(c, "read")
      /\ IF payment[i].status = "Paid" THEN ClerkDone(c)
         ELSE clerk' = [clerk EXCEPT ![c].at = "link",
                                     ![c].copies = [@ EXCEPT ![i] = payment[i]]]
      /\ UNCHANGED <<payment, clerkFrame>>

(* The preference exists: its link is saved and given to the payer.         *)
PreferenceLink(c) ==
  LET i == clerk[c].row   row == clerk[c].copies[i]
  IN  /\ ClerkAt(c, "link")
      /\ WriteMoney(i, [row EXCEPT !.method = "mp"])
      /\ checkouts' = checkouts \cup {[row |-> i, amount |-> AmountAsked(row)]}
      /\ ClerkDone(c)
      /\ UNCHANGED <<payHook, attempts, charges, breaks>>
-----------------------------------------------------------------------------
(* markPaid and markDeferred read the turn's rows.                          *)
ToSettle(c) ==
  {i \in PayRows : ManualOpen(payment[i]) \/ (clerk[c].op = "paid" /\ MpPending(payment[i]))}

ReadRows(c) ==
  /\ ClerkAt(c, "rows")
  /\ clerk' = [clerk EXCEPT ![c].at = IF clerk[c].op = "deferred" /\ ToSettle(c) = {}
                                      THEN "note" ELSE "settle",
                            ![c].copies = Copies(ToSettle(c)), ![c].todo = ToSettle(c)]
  /\ UNCHANGED <<payment, clerkFrame>>

(* Open manual rows first, then the Mercado Pago one, superseded.           *)
SettledAs(op, row) ==
  [row EXCEPT !.status = IF op = "deferred" THEN "Deferred"
                         ELSE IF Manual(row) THEN "Paid" ELSE "Failed"]
SettleRow(c, i) ==
  LET row == clerk[c].copies[i]
  IN  /\ ClerkAt(c, "settle") /\ i \in clerk[c].todo
      /\ Manual(row) \/ \A j \in clerk[c].todo : ~Manual(clerk[c].copies[j])
      /\ WriteMoney(i, SettledAs(clerk[c].op, row))
      /\ clerk' = [clerk EXCEPT ![c].todo = @ \ {i}]
      /\ UNCHANGED clerkFrame

(* markPaid reads the summary again: the rest, if any, is a new payment.    *)
(* bug: the rest is what was due at the start *)
RestAtStart(c) == clerk[c].due
Rest(c) == Due
SettledAll(c) ==
  /\ ClerkAt(c, "settle") /\ clerk[c].todo = {}
  /\ IF clerk[c].op = "paid" /\ Rest(c) > 0
     THEN clerk' = [clerk EXCEPT ![c].at = "rest", ![c].due = Rest(c)]
     ELSE ClerkDone(c)
  /\ UNCHANGED <<payment, clerkFrame>>

(* The new row: the rest, paid, or a promissory note of all that was due.   *)
NewRow(c, i) ==
  /\ clerk[c] # NoCall /\ clerk[c].at \in {"rest", "note"} /\ Fresh(i)
  /\ WriteMoney(i, [method |-> "manual", base |-> clerk[c].due, vat |-> 0,
                    status |-> IF clerk[c].at = "rest" THEN "Paid" ELSE "Deferred"])
  /\ ClerkDone(c)
  /\ UNCHANGED clerkFrame
-----------------------------------------------------------------------------
(* Calls on one row: revert, markCashPaid, markCashDeferred, and            *)
(* applyCashOutcome when the turn is completed.                             *)
(* bug: a Mercado Pago payment may be undone *)
MayTouchAny(op, row) == IF op = "revert" THEN row.status = "Paid" ELSE ManualOpen(row)
MayTouch(op, row) ==
  CASE op = "revert" -> Manual(row) /\ row.status = "Paid"
    [] op \in {"cashPaid", "cashDeferred"} -> ManualOpen(row)
    [] op \in {"collected", "owed"} -> Manual(row) /\ row.status = "Pending"
    [] OTHER -> FALSE
TouchedAs(op) == CASE op = "revert" -> "Pending"
                   [] op \in {"cashPaid", "collected"} -> "Paid"
                   [] OTHER -> "Deferred"

TouchRead(c, op, i) == MayTouch(op, payment[i]) /\ Starts(c, "one", op, i, {i}, 0)
TouchSave(c) ==
  LET i == clerk[c].row
  IN  /\ ClerkAt(c, "one")
      /\ WriteMoney(i, [clerk[c].copies[i] EXCEPT !.status = TouchedAs(clerk[c].op)])
      /\ ClerkDone(c)
      /\ UNCHANGED clerkFrame

(* A panel call ends early: a query or the provider fails, a restart.       *)
ClerkBreaks(c) ==
  /\ clerk[c] # NoCall /\ breaks < MaxBreaks /\ breaks' = breaks + 1
  /\ ClerkDone(c)
  /\ UNCHANGED <<payment, providerVars, charges>>
-----------------------------------------------------------------------------
(* Mercado Pago (external): a checkout is paid at most once, at the amount  *)
(* it was made for; a rejected attempt may precede.                         *)
PayCheckout(k, ok) ==
  /\ k \in checkouts
  /\ [row |-> k.row, amount |-> k.amount, approved |-> TRUE] \notin attempts
  /\ attempts' = attempts \cup {[row |-> k.row, amount |-> k.amount, approved |-> ok]}
  /\ UNCHANGED <<payment, clerk, payHook, checkouts, charges, breaks>>

(* parseWebhook and handleWebhook: any notification, any number of times.   *)
(* A row already paid is answered at once.                                  *)
PayHookRead(h, a) ==
  /\ payHook[h] = NoCall /\ a \in attempts /\ payment[a.row].status # "Paid"
  /\ payHook' = [payHook EXCEPT ![h] =
       [row |-> a.row, copy |-> payment[a.row], approved |-> a.approved]]
  /\ UNCHANGED <<payment, clerk, checkouts, attempts, charges, breaks>>

(* bug: every notification counts as a payment *)
NotifiedAsPaid(j) == "Paid"
(* bug: the status of the provider is stored *)
NotifiedRaw(j) == IF j.approved THEN "approved" ELSE "rejected"
NotifiedAs(j) == IF j.approved THEN "Paid" ELSE "Failed"
PayHookSave(h) ==
  /\ payHook[h] # NoCall
  /\ WriteMoney(payHook[h].row, [payHook[h].copy EXCEPT !.status = NotifiedAs(payHook[h])])
  /\ payHook' = [payHook EXCEPT ![h] = NoCall]
  /\ UNCHANGED <<clerk, checkouts, attempts, charges, breaks>>
-----------------------------------------------------------------------------
ClerkStep(c) ==
  \/ \E op \in ChargeOps, i \in PayRows : ChargeTurn(c, op, i) \/ TouchRead(c, op, i)
  \/ \E i \in PayRows : AskPreference(c, i) \/ QrFind(c, i) \/ SettleRow(c, i) \/ NewRow(c, i)
  \/ QrSave(c) \/ PreferenceRead(c) \/ PreferenceLink(c)
  \/ ReadRows(c) \/ SettledAll(c) \/ TouchSave(c) \/ ClerkBreaks(c)

ChargeNext ==
  \/ \E c \in Clerks : ClerkStep(c)
  \/ \E k \in checkouts, ok \in BOOLEAN : PayCheckout(k, ok)
  \/ \E h \in PayHooks : (\E a \in attempts : PayHookRead(h, a)) \/ PayHookSave(h)

ChargeSpec == ChargeInit /\ [][ChargeNext]_chargeVars
-----------------------------------------------------------------------------
(* Properties.                                                              *)

(* Every variable holds a value of its kind.                                *)
ChargeTypeOK ==
  /\ payment \in [PayRows -> Money]
  /\ clerk \in [Clerks -> Clerk \cup {NoCall}]
  /\ payHook \in [PayHooks -> PayHook \cup {NoCall}]
  /\ checkouts \subseteq Checkout /\ attempts \subseteq Attempt
  /\ charges \in Nat /\ breaks \in Nat

(* What is charged by hand, owed or collected, never exceeds the price: no  *)
(* sequence of marks, undos, notes and QR paid meanwhile, with any of them  *)
(* cut short, enters the same money twice.                                  *)
ManualWithinPrice == SumBase({i \in PayRows : Manual(payment[i])}) <= Price

(* Copies of row i read before it was paid, that a handler may still save.  *)
StaleCopy(i) ==
  \/ \E c \in Clerks : clerk[c] # NoCall /\ clerk[c].copies[i].status \notin {"none", "Paid"}
  \/ \E h \in PayHooks : payHook[h] # NoCall /\ payHook[h].row = i

(* Money accredited by Mercado Pago is never unmarked, except by a handler  *)
(* that had read the row before it was accredited.                          *)
AccreditedKept ==
  [][\A i \in PayRows :
       payment[i].method = "mp" /\ payment[i].status = "Paid" /\ ~StaleCopy(i) =>
         payment'[i] = payment[i]]_chargeVars

(* A Mercado Pago row is paid only if the provider approved a payment of it: *)
(* neither the panel nor a rejected attempt makes it income.                *)
MpPaidIsApproved ==
  \A i \in PayRows : payment[i].method = "mp" /\ payment[i].status = "Paid" =>
    \E a \in attempts : a.row = i /\ a.approved

(* charge.service.ts: "un doble toque no duplica ingresos".  Nothing is     *)
(* collected by hand beyond the price.                                      *)
DoubleTapIsHarmless == SumBase({i \in PaidRows : Manual(payment[i])}) <= Price

=============================================================================
