---------------------------- MODULE ChargeProofs ----------------------------
(* The money of one turn, for any number of rows, panel calls, webhook      *)
(* handlers and notifications.  What Mercado Pago accredits is told without *)
(* amounts, from the fields of the rows; what is charged by hand, with the  *)
(* sums of SumProofs.                                                       *)
EXTENDS Charge, SumProofs
-----------------------------------------------------------------------------
(* The shape of the state, without the type of the amounts.                 *)
IsRow(m) == DOMAIN m = {"method", "base", "vat", "status"}
IsClerk(k) ==
  /\ DOMAIN k = {"at", "op", "row", "copies", "todo", "due"}
  /\ k.row \in PayRows /\ k.todo \subseteq PayRows
  /\ DOMAIN k.copies = PayRows /\ \A i \in PayRows : IsRow(k.copies[i])
IsHook(k) == DOMAIN k = {"row", "copy", "approved"} /\ k.row \in PayRows /\ IsRow(k.copy)

Shapes ==
  /\ DOMAIN payment = PayRows /\ \A i \in PayRows : IsRow(payment[i])
  /\ DOMAIN clerk = Clerks /\ \A c \in Clerks : clerk[c] # NoCall => IsClerk(clerk[c])
  /\ DOMAIN payHook = PayHooks /\ \A h \in PayHooks : payHook[h] # NoCall => IsHook(payHook[h])
  /\ \A k \in checkouts : k.row \in PayRows
  /\ \A a \in attempts : a.row \in PayRows

(* What a panel call may do with a copy it holds.                           *)
TouchOps == {"revert", "cashPaid", "cashDeferred", "collected", "owed"}
CopyOK(k) ==
  /\ \A i \in PayRows : k.copies[i].status = "Paid" => k.copies[i].method = "manual"
  /\ k.at = "save" => k.copies[k.row].status = "Pending" /\ k.copies[k.row].method = "mp"
  /\ k.at = "link" => k.copies[k.row].status \notin {"none", "Paid"}
  /\ k.at = "settle" => \A i \in k.todo : k.copies[i].status \in OpenStatuses
  /\ k.at = "one" =>
       /\ k.copies[k.row].method = "manual"
       /\ k.op = "revert" \/ k.copies[k.row].status \in OpenStatuses

Approved(i) == \E a \in attempts : a.row = i /\ a.approved

PaidInv ==
  /\ Shapes
  /\ \A c \in Clerks : clerk[c] # NoCall =>
       CopyOK(clerk[c]) /\ (clerk[c].at = "read" => InUse(clerk[c].row))
  /\ \A h \in PayHooks : payHook[h] # NoCall /\ payHook[h].approved => Approved(payHook[h].row)
  /\ \A i \in PayRows : payment[i].method = "mp" /\ payment[i].status = "Paid" => Approved(i)
-----------------------------------------------------------------------------
LEMMA ChargeInitOK == ASSUME ChargeInit PROVE PaidInv
<1> DEFINE f == CHOOSE i \in PayRows : TRUE
<1>1. PICK first \in FirstRows \cup {NoMoney} :
        payment = [[i \in PayRows |-> NoMoney] EXCEPT ![f] = first]
  BY DEF ChargeInit
<1>2. first \in Money \/ first = NoMoney
  BY ChargeAssumption
<1>3. IsRow(first) /\ IsRow(NoMoney)
  BY <1>2 DEF IsRow, Money, NoMoney
<1>4. DOMAIN payment = PayRows /\ \A i \in PayRows : payment[i] \in {first, NoMoney}
  BY <1>1
<1>5. attempts = {[row |-> i, amount |-> AmountAsked(payment[i]), approved |-> TRUE] :
                    i \in {j \in PayRows : payment[j].method = "mp"}}
  BY DEF ChargeInit
<1>6. /\ clerk = [c \in Clerks |-> NoCall] /\ payHook = [h \in PayHooks |-> NoCall]
      /\ checkouts = {}
  BY DEF ChargeInit
<1>7. \A a \in attempts : a.row \in PayRows
  BY <1>5
<1>8. Shapes
  BY <1>3, <1>4, <1>6, <1>7 DEF Shapes
<1>9. ASSUME NEW i \in PayRows, payment[i].method = "mp" PROVE Approved(i)
  <2> DEFINE a == [row |-> i, amount |-> AmountAsked(payment[i]), approved |-> TRUE]
  <2>1. a \in attempts
    BY <1>5, <1>9
  <2>2. a.row = i /\ a.approved
    OBVIOUS
  <2>3. QED
    BY <2>1, <2>2 DEF Approved
<1>10. QED
  BY <1>6, <1>8, <1>9 DEF PaidInv
-----------------------------------------------------------------------------
(* What a step may do to the rows: nothing, or write one that stays in use  *)
(* and is not paid by Mercado Pago without an approval.                     *)
Written(i, m) ==
  /\ payment' = [payment EXCEPT ![i] = m]
  /\ IsRow(m) /\ m.status # "none"
  /\ m.method = "mp" /\ m.status = "Paid" => Approved(i)
RowsKept == UNCHANGED payment \/ \E i \in PayRows : \E m : Written(i, m)

LEMMA RowsStay ==
  ASSUME PaidInv, RowsKept, attempts \subseteq attempts'
  PROVE  /\ DOMAIN payment' = PayRows /\ \A i \in PayRows : IsRow(payment'[i])
         /\ \A i \in PayRows : InUse(i) => InUse(i)'
         /\ \A i \in PayRows : Approved(i) => Approved(i)'
         /\ \A i \in PayRows : payment'[i].method = "mp" /\ payment'[i].status = "Paid" => Approved(i)'
<1>1. \A i \in PayRows : Approved(i) => Approved(i)'
  BY DEF Approved
<1>2. CASE UNCHANGED payment
  BY <1>1, <1>2 DEF PaidInv, Shapes, InUse
<1>3. ASSUME NEW j \in PayRows, NEW m, Written(j, m)
      PROVE  /\ DOMAIN payment' = PayRows
             /\ payment'[j] = m /\ \A i \in PayRows \ {j} : payment'[i] = payment[i]
  BY <1>3 DEF Written, PaidInv, Shapes
<1>4. ASSUME NEW j \in PayRows, NEW m, Written(j, m)
      PROVE  /\ \A i \in PayRows : IsRow(payment'[i])
             /\ \A i \in PayRows : InUse(i) => InUse(i)'
             /\ \A i \in PayRows :
                  payment'[i].method = "mp" /\ payment'[i].status = "Paid" => Approved(i)'
  BY <1>1, <1>3, <1>4 DEF Written, PaidInv, Shapes, InUse
<1>5. QED
  BY <1>1, <1>2, <1>3, <1>4 DEF RowsKept

(* A panel call moves on to k, or ends; the others are where they were.     *)
LEMMA ClerkMoves ==
  ASSUME PaidInv, RowsKept, NEW c \in Clerks, NEW k, clerk' = [clerk EXCEPT ![c] = k],
         k # NoCall => /\ IsClerk(k) /\ CopyOK(k)
                       /\ k.at = "read" => payment'[k.row].status # "none",
         UNCHANGED <<payHook, attempts>>, \A x \in checkouts' : x.row \in PayRows
  PROVE  PaidInv'
<1>1. /\ DOMAIN payment' = PayRows /\ \A i \in PayRows : IsRow(payment'[i])
      /\ \A i \in PayRows : InUse(i) => InUse(i)'
      /\ \A i \in PayRows : Approved(i) => Approved(i)'
      /\ \A i \in PayRows : payment'[i].method = "mp" /\ payment'[i].status = "Paid" => Approved(i)'
  BY RowsStay
<1>2. DOMAIN clerk' = Clerks /\ clerk'[c] = k /\ \A d \in Clerks \ {c} : clerk'[d] = clerk[d]
  BY DEF PaidInv, Shapes
<1>3. \A d \in Clerks : clerk'[d] # NoCall => IsClerk(clerk'[d])
  BY <1>2 DEF PaidInv, Shapes
<1>4. ASSUME NEW d \in Clerks, clerk'[d] # NoCall
      PROVE  CopyOK(clerk[d])' /\ (clerk'[d].at = "read" => InUse(clerk[d].row)')
  <2>1. CASE d = c
    BY <1>2, <1>4, <2>1 DEF CopyOK, InUse
  <2>2. CASE d # c
    <3>1. clerk[d] # NoCall /\ clerk'[d] = clerk[d]
      BY <1>2, <1>4, <2>2
    <3>2. /\ CopyOK(clerk[d]) /\ clerk[d].row \in PayRows
          /\ clerk[d].at = "read" => InUse(clerk[d].row)
      BY <3>1 DEF PaidInv, Shapes, IsClerk
    <3>3. CopyOK(clerk[d])'
      BY <3>1, <3>2 DEF CopyOK
    <3>4. clerk'[d].at = "read" => InUse(clerk[d].row)'
      BY <1>1, <3>1, <3>2 DEF InUse
    <3>5. QED
      BY <3>3, <3>4
  <2>3. QED
    BY <2>1, <2>2
<1>5. Shapes'
  BY <1>1, <1>2, <1>3 DEF PaidInv, Shapes
<1>6. \A h \in PayHooks : payHook'[h] # NoCall /\ payHook'[h].approved => Approved(payHook[h].row)'
  <2>1. \A h \in PayHooks : payHook[h] # NoCall => payHook[h].row \in PayRows
    BY DEF PaidInv, Shapes, IsHook
  <2>2. \A h \in PayHooks : payHook[h] # NoCall /\ payHook[h].approved => Approved(payHook[h].row)
    BY DEF PaidInv
  <2>3. payHook' = payHook /\ attempts' = attempts
    OBVIOUS
  <2>4. QED
    BY <2>2, <2>3 DEF Approved
<1>7. QED
  BY <1>1, <1>4, <1>5, <1>6 DEF PaidInv
-----------------------------------------------------------------------------
(* One lemma for each group of actions.  A copy just read holds no row paid *)
(* by Mercado Pago.                                                         *)
LEMMA CopiesRows ==
  ASSUME PaidInv, NEW S
  PROVE  /\ DOMAIN Copies(S) = PayRows /\ \A i \in PayRows : IsRow(Copies(S)[i])
         /\ \A i \in PayRows : Copies(S)[i] = IF i \in S THEN payment[i] ELSE NoMoney
<1>1. IsRow(NoMoney)
  BY DEF IsRow, NoMoney
<1>2. QED
  BY <1>1 DEF Copies, PaidInv, Shapes

LEMMA StartsOK ==
  ASSUME PaidInv, NEW c \in Clerks, NEW l, NEW op, NEW i \in PayRows, NEW S, NEW due,
         Starts(c, l, op, i, S, due),
         \A j \in S : payment[j].status = "Paid" => payment[j].method = "manual",
         l \in {"find", "rows", "link", "one"},
         l \in {"link", "one"} => i \in S,
         l = "link" => payment[i].status \notin {"none", "Paid"},
         l = "one" => payment[i].method = "manual"
                      /\ (op = "revert" \/ payment[i].status \in OpenStatuses)
  PROVE  PaidInv'
<1> DEFINE k == [at |-> l, op |-> op, row |-> i, copies |-> Copies(S), todo |-> {}, due |-> due]
<1>1. /\ DOMAIN Copies(S) = PayRows /\ \A j \in PayRows : IsRow(Copies(S)[j])
      /\ \A j \in PayRows : Copies(S)[j] = IF j \in S THEN payment[j] ELSE NoMoney
  BY CopiesRows
<1>2. NoMoney.status = "none"
  BY DEF NoMoney
<1>3. /\ k.at = l /\ k.op = op /\ k.row = i /\ k.copies = Copies(S) /\ k.todo = {}
      /\ DOMAIN k = {"at", "op", "row", "copies", "todo", "due"}
  OBVIOUS
<1> HIDE DEF k
<1>4. IsClerk(k)
  BY <1>1, <1>3 DEF IsClerk
<1>5. CopyOK(k)
  BY <1>1, <1>2, <1>3 DEF CopyOK
<1>6. /\ clerk' = [clerk EXCEPT ![c] = k] /\ UNCHANGED <<payment, payHook, checkouts, attempts>>
  BY DEF Starts, k, providerVars
<1>7. RowsKept /\ \A x \in checkouts' : x.row \in PayRows
  BY <1>6 DEF RowsKept, PaidInv, Shapes
<1>8. k.at # "read"
  BY <1>3
<1>9. QED
  BY <1>4, <1>5, <1>6, <1>7, <1>8, ClerkMoves

LEMMA BeginsOK ==
  ASSUME PaidInv, NEW c \in Clerks, NEW op \in ChargeOps, NEW i \in PayRows,
         ChargeTurn(c, op, i) \/ TouchRead(c, op, i) \/ AskPreference(c, i)
  PROVE  PaidInv'
<1>1. CASE ChargeTurn(c, op, i)
  <2>1. PICK l \in {"find", "rows"} : Starts(c, l, op, i, {}, Due)
    BY <1>1 DEF ChargeTurn
  <2>2. QED
    BY <2>1, StartsOK
<1>2. CASE TouchRead(c, op, i)
  <2>1. Starts(c, "one", op, i, {i}, 0)
    BY <1>2 DEF TouchRead
  <2>2. payment[i].method = "manual" /\ (op = "revert" \/ payment[i].status \in OpenStatuses)
    BY <1>2 DEF TouchRead, MayTouch, Manual, ManualOpen, OpenStatuses, ChargeOps
  <2>3. QED
    BY <2>1, <2>2, StartsOK
<1>3. CASE AskPreference(c, i)
  <2>1. Starts(c, "link", "preference", i, {i}, 0)
    BY <1>3 DEF AskPreference
  <2>2. payment[i].status \notin {"none", "Paid"}
    BY <1>3 DEF AskPreference, InUse
  <2>3. QED
    BY <2>1, <2>2, StartsOK
<1>4. QED
  BY <1>1, <1>2, <1>3

(* A call that ends, having written at most one row.                        *)
LEMMA EndsOK ==
  ASSUME PaidInv, NEW c \in Clerks, RowsKept, ClerkDone(c),
         UNCHANGED <<payHook, attempts>>, \A x \in checkouts' : x.row \in PayRows
  PROVE  PaidInv'
BY ClerkMoves DEF ClerkDone

LEMMA ClerkFields ==
  ASSUME PaidInv, NEW c \in Clerks, clerk[c] # NoCall
  PROVE  /\ IsClerk(clerk[c]) /\ CopyOK(clerk[c])
         /\ clerk[c].at = "read" => InUse(clerk[c].row)
BY DEF PaidInv, Shapes

LEMMA QrOK ==
  ASSUME PaidInv, NEW c \in Clerks, NEW i \in PayRows, QrFind(c, i)
  PROVE  PaidInv'
<1> DEFINE m == [method |-> "mp", base |-> clerk[c].due, vat |-> VatOf(clerk[c].due),
                 status |-> "Pending"]
           k == [clerk[c] EXCEPT !.at = "save", !.row = i, !.copies = [@ EXCEPT ![i] = m]]
<1>1. clerk[c] # NoCall /\ clerk' = [clerk EXCEPT ![c] = k]
  BY DEF QrFind, ClerkAt
<1>2. UNCHANGED <<payment, payHook, attempts, checkouts>>
  BY DEF QrFind, clerkFrame, providerVars
<1>3. IsClerk(clerk[c]) /\ CopyOK(clerk[c])
  BY <1>1, ClerkFields
<1>4. IsRow(m) /\ m.status = "Pending" /\ m.method = "mp"
  BY DEF IsRow
<1> HIDE DEF m
<1>5. /\ k.at = "save" /\ k.row = i /\ DOMAIN k = DOMAIN clerk[c] /\ k.todo = clerk[c].todo
      /\ DOMAIN k.copies = PayRows /\ k.copies[i] = m
      /\ \A j \in PayRows \ {i} : k.copies[j] = clerk[c].copies[j]
  BY <1>3 DEF IsClerk
<1> HIDE DEF k
<1>6. IsClerk(k)
  BY <1>3, <1>4, <1>5 DEF IsClerk
<1>7. CopyOK(k)
  BY <1>3, <1>4, <1>5 DEF CopyOK
<1>8. RowsKept /\ \A x \in checkouts' : x.row \in PayRows
  BY <1>2 DEF RowsKept, PaidInv, Shapes
<1>9. k.at # "read"
  BY <1>5
<1>10. QED
  BY <1>1, <1>2, <1>6, <1>7, <1>8, <1>9, ClerkMoves

(* The saves: none stores a Mercado Pago row as paid.                       *)
LEMMA SavesOK ==
  ASSUME PaidInv, NEW c \in Clerks, QrSave(c) \/ PreferenceLink(c) \/ TouchSave(c)
  PROVE  PaidInv'
<1> DEFINE k == clerk[c]   i == k.row
<1>1. k # NoCall
  BY DEF QrSave, PreferenceLink, TouchSave, ClerkAt
<1>2. /\ IsClerk(k) /\ CopyOK(k) /\ i \in PayRows
      /\ DOMAIN k.copies = PayRows /\ IsRow(k.copies[i])
  BY <1>1, ClerkFields DEF IsClerk
<1>3. CASE QrSave(c)
  <2> DEFINE next == [k EXCEPT !.at = "read"]
  <2>1. k.at = "save" /\ payment' = [payment EXCEPT ![i] = k.copies[i]]
        /\ clerk' = [clerk EXCEPT ![c] = next] /\ UNCHANGED <<payHook, attempts, checkouts>>
    BY <1>3 DEF QrSave, ClerkAt, WriteMoney, clerkFrame, providerVars
  <2>2. k.copies[i].status = "Pending"
    BY <1>2, <2>1 DEF CopyOK
  <2>3. Written(i, k.copies[i]) /\ payment'[i].status # "none"
    BY <1>2, <2>1, <2>2 DEF Written, PaidInv, Shapes
  <2>4. RowsKept /\ \A x \in checkouts' : x.row \in PayRows
    BY <1>2, <2>1, <2>3 DEF RowsKept, PaidInv, Shapes
  <2>5. /\ next.at = "read" /\ DOMAIN next = DOMAIN k /\ next.row = i /\ next.todo = k.todo
        /\ next.copies = k.copies
    BY <1>2 DEF IsClerk
  <2> HIDE DEF next
  <2>6. IsClerk(next) /\ CopyOK(next)
    BY <1>2, <2>5 DEF IsClerk, CopyOK
  <2>7. QED
    BY <2>1, <2>3, <2>4, <2>5, <2>6, ClerkMoves
<1>4. CASE PreferenceLink(c)
  <2> DEFINE m == [k.copies[i] EXCEPT !.method = "mp"]
  <2>1. /\ k.at = "link" /\ payment' = [payment EXCEPT ![i] = m]
        /\ checkouts' = checkouts \cup {[row |-> i, amount |-> AmountAsked(k.copies[i])]}
        /\ ClerkDone(c) /\ UNCHANGED <<payHook, attempts>>
    BY <1>4 DEF PreferenceLink, ClerkAt, WriteMoney
  <2>2. IsRow(m) /\ m.status \notin {"none", "Paid"}
    BY <1>2, <2>1 DEF CopyOK, IsRow
  <2>3. Written(i, m)
    BY <2>1, <2>2 DEF Written
  <2>4. RowsKept
    BY <1>2, <2>3 DEF RowsKept
  <2>5. \A x \in checkouts' : x.row \in PayRows
    BY <1>2, <2>1 DEF PaidInv, Shapes
  <2>6. QED
    BY <2>1, <2>4, <2>5, EndsOK
<1>5. CASE TouchSave(c)
  <2> DEFINE m == [k.copies[i] EXCEPT !.status = TouchedAs(k.op)]
  <2>1. /\ k.at = "one" /\ payment' = [payment EXCEPT ![i] = m]
        /\ ClerkDone(c) /\ UNCHANGED <<payHook, attempts, checkouts>>
    BY <1>5 DEF TouchSave, ClerkAt, WriteMoney, clerkFrame, providerVars
  <2>2. TouchedAs(k.op) # "none"
    BY DEF TouchedAs
  <2>3. IsRow(m) /\ m.method = "manual" /\ m.status # "none"
    BY <1>2, <2>1, <2>2 DEF CopyOK, IsRow
  <2>4. Written(i, m)
    BY <2>1, <2>3 DEF Written
  <2>5. RowsKept /\ \A x \in checkouts' : x.row \in PayRows
    BY <1>2, <2>1, <2>4 DEF RowsKept, PaidInv, Shapes
  <2>6. QED
    BY <2>1, <2>5, EndsOK
<1>6. QED
  BY <1>3, <1>4, <1>5

(* The steps that write nothing.                                            *)
LEMMA QuietOK ==
  ASSUME PaidInv, NEW c \in Clerks,
         PreferenceRead(c) \/ ReadRows(c) \/ SettledAll(c) \/ ClerkBreaks(c)
  PROVE  PaidInv'
<1> DEFINE k == clerk[c]
<1>1. k # NoCall /\ UNCHANGED <<payment, payHook, attempts, checkouts>>
  BY DEF PreferenceRead, ReadRows, SettledAll, ClerkBreaks, ClerkAt, clerkFrame, providerVars
<1>2. /\ IsClerk(k) /\ CopyOK(k) /\ k.row \in PayRows /\ k.todo \subseteq PayRows
      /\ k.at = "read" => InUse(k.row)
  BY <1>1, ClerkFields DEF IsClerk
<1>3. RowsKept /\ \A x \in checkouts' : x.row \in PayRows
  BY <1>1 DEF RowsKept, PaidInv, Shapes
<1>4. CASE ClerkDone(c)
  BY <1>1, <1>3, <1>4, EndsOK
<1>5. CASE PreferenceRead(c) /\ ~ClerkDone(c)
  <2> DEFINE i == k.row
             next == [k EXCEPT !.at = "link", !.copies = [@ EXCEPT ![i] = payment[i]]]
  <2>1. k.at = "read" /\ payment[i].status # "Paid" /\ clerk' = [clerk EXCEPT ![c] = next]
    BY <1>5 DEF PreferenceRead, ClerkAt
  <2>2. payment[i].status # "none" /\ IsRow(payment[i])
    BY <1>2, <2>1 DEF InUse, PaidInv, Shapes
  <2>3. /\ next.at = "link" /\ next.row = i /\ next.todo = k.todo /\ DOMAIN next = DOMAIN k
        /\ DOMAIN next.copies = PayRows /\ next.copies[i] = payment[i]
        /\ \A j \in PayRows \ {i} : next.copies[j] = k.copies[j]
    BY <1>2 DEF IsClerk
  <2> HIDE DEF next
  <2>4. IsClerk(next)
    BY <1>2, <2>2, <2>3 DEF IsClerk
  <2>5. CopyOK(next)
    BY <1>2, <2>1, <2>2, <2>3 DEF CopyOK
  <2>6. next.at # "read"
    BY <2>3
  <2>7. QED
    BY <1>1, <1>3, <2>1, <2>4, <2>5, <2>6, ClerkMoves
<1>6. CASE ReadRows(c)
  <2> DEFINE S == ToSettle(c)
             next == [k EXCEPT !.at = IF k.op = "deferred" /\ S = {} THEN "note" ELSE "settle",
                               !.copies = Copies(S), !.todo = S]
  <2>1. clerk' = [clerk EXCEPT ![c] = next]
    BY <1>6 DEF ReadRows
  <2>2. \A i \in S : i \in PayRows /\ payment[i].status \in OpenStatuses
    BY DEF ToSettle, ManualOpen, MpPending, OpenStatuses
  <2>3. /\ DOMAIN Copies(S) = PayRows /\ \A i \in PayRows : IsRow(Copies(S)[i])
        /\ \A i \in PayRows : Copies(S)[i] = IF i \in S THEN payment[i] ELSE NoMoney
    BY CopiesRows
  <2> HIDE DEF S
  <2>4. /\ next.at \in {"note", "settle"} /\ next.row = k.row /\ next.todo = S
        /\ DOMAIN next = DOMAIN k /\ next.copies = Copies(S)
    BY <1>2 DEF IsClerk
  <2> HIDE DEF next
  <2>5. IsClerk(next)
    BY <1>2, <2>2, <2>3, <2>4 DEF IsClerk
  <2>6. CopyOK(next)
    BY <2>2, <2>3, <2>4 DEF CopyOK, OpenStatuses, NoMoney
  <2>7. next.at # "read"
    BY <2>4
  <2>8. QED
    BY <1>1, <1>3, <2>1, <2>5, <2>6, <2>7, ClerkMoves
<1>7. CASE SettledAll(c) /\ ~ClerkDone(c)
  <2> DEFINE next == [k EXCEPT !.at = "rest", !.due = Rest(c)]
  <2>1. clerk' = [clerk EXCEPT ![c] = next]
    BY <1>7 DEF SettledAll
  <2>2. /\ next.at = "rest" /\ next.row = k.row /\ next.todo = k.todo
        /\ DOMAIN next = DOMAIN k /\ next.copies = k.copies
    BY <1>2 DEF IsClerk
  <2> HIDE DEF next
  <2>3. IsClerk(next) /\ CopyOK(next) /\ next.at # "read"
    BY <1>2, <2>2 DEF IsClerk, CopyOK
  <2>4. QED
    BY <1>1, <1>3, <2>1, <2>3, ClerkMoves
<1>8. CASE ClerkBreaks(c)
  BY <1>4, <1>8 DEF ClerkBreaks
<1>9. QED
  BY <1>4, <1>5, <1>6, <1>7, <1>8

(* What markPaid and markDeferred write: paid only by hand.                 *)
LEMMA SettlesOK ==
  ASSUME PaidInv, NEW c \in Clerks, NEW i \in PayRows, SettleRow(c, i) \/ NewRow(c, i)
  PROVE  PaidInv'
<1> DEFINE k == clerk[c]
<1>1. k # NoCall /\ UNCHANGED <<payHook, attempts, checkouts>>
  BY DEF SettleRow, NewRow, ClerkAt, clerkFrame, providerVars
<1>2. IsClerk(k) /\ CopyOK(k)
  BY <1>1, ClerkFields
<1>3. \A x \in checkouts' : x.row \in PayRows
  BY <1>1 DEF PaidInv, Shapes
<1>4. CASE SettleRow(c, i)
  <2> DEFINE m == SettledAs(k.op, k.copies[i])
             next == [k EXCEPT !.todo = @ \ {i}]
  <2>1. /\ k.at = "settle" /\ payment' = [payment EXCEPT ![i] = m]
        /\ clerk' = [clerk EXCEPT ![c] = next]
    BY <1>4 DEF SettleRow, ClerkAt, WriteMoney
  <2>2. IsRow(k.copies[i])
    BY <1>2 DEF IsClerk
  <2>3. IsRow(m) /\ m.status # "none" /\ (m.status = "Paid" => m.method = "manual")
    BY <2>2 DEF SettledAs, Manual, IsRow
  <2> HIDE DEF m
  <2>4. Written(i, m)
    BY <2>1, <2>3 DEF Written
  <2>5. /\ next.at = "settle" /\ next.row = k.row /\ next.todo = k.todo \ {i}
        /\ DOMAIN next = DOMAIN k /\ next.copies = k.copies
    BY <1>2, <2>1 DEF IsClerk
  <2> HIDE DEF next
  <2>6. IsClerk(next) /\ CopyOK(next) /\ next.at # "read"
    BY <1>2, <2>1, <2>5 DEF IsClerk, CopyOK
  <2>7. RowsKept
    BY <2>4 DEF RowsKept
  <2>8. QED
    BY <1>1, <1>3, <2>1, <2>6, <2>7, ClerkMoves
<1>5. CASE NewRow(c, i)
  <2> DEFINE m == [method |-> "manual", base |-> k.due, vat |-> 0,
                   status |-> IF k.at = "rest" THEN "Paid" ELSE "Deferred"]
  <2>1. payment' = [payment EXCEPT ![i] = m] /\ ClerkDone(c)
    BY <1>5 DEF NewRow, WriteMoney
  <2>2. IsRow(m) /\ m.status # "none" /\ m.method = "manual"
    BY DEF IsRow
  <2> HIDE DEF m
  <2>3. Written(i, m)
    BY <2>1, <2>2 DEF Written
  <2>4. RowsKept
    BY <2>3 DEF RowsKept
  <2>5. QED
    BY <1>1, <1>3, <2>1, <2>4, EndsOK
<1>6. QED
  BY <1>4, <1>5
-----------------------------------------------------------------------------
(* The provider and its notifications.                                      *)
LEMMA PayersOK ==
  ASSUME PaidInv, NEW x \in checkouts, NEW ok \in BOOLEAN, PayCheckout(x, ok)
  PROVE  PaidInv'
<1> DEFINE a == [row |-> x.row, amount |-> x.amount, approved |-> ok]
<1>1. attempts' = attempts \cup {a} /\ UNCHANGED <<payment, clerk, payHook, checkouts>>
  BY DEF PayCheckout
<1>2. x.row \in PayRows /\ a.row = x.row
  BY DEF PaidInv, Shapes
<1> HIDE DEF a
<1>3. Shapes'
  BY <1>1, <1>2 DEF PaidInv, Shapes
<1>4. \A i : Approved(i) => Approved(i)'
  BY <1>1 DEF Approved
<1>5. \A c \in Clerks : clerk[c] # NoCall =>
        CopyOK(clerk[c])' /\ (clerk[c].at = "read" => InUse(clerk[c].row)')
  BY <1>1 DEF PaidInv, CopyOK, InUse
<1>6. QED
  BY <1>1, <1>3, <1>4, <1>5 DEF PaidInv

LEMMA HooksOK ==
  ASSUME PaidInv, NEW h \in PayHooks,
         (\E a \in attempts : PayHookRead(h, a)) \/ PayHookSave(h)
  PROVE  PaidInv'
<1>1. UNCHANGED <<clerk, checkouts, attempts>>
  BY DEF PayHookRead, PayHookSave
<1>2. RowsKept /\ (payHook'[h] = NoCall \/
        (IsHook(payHook'[h]) /\ (payHook'[h].approved => Approved(payHook'[h].row))))
      /\ \E j : payHook' = [payHook EXCEPT ![h] = j]
  <2>1. ASSUME NEW a \in attempts, PayHookRead(h, a)
        PROVE  /\ UNCHANGED payment /\ \E j : payHook' = [payHook EXCEPT ![h] = j]
               /\ IsHook(payHook'[h]) /\ (payHook'[h].approved => Approved(payHook'[h].row))
    <3> DEFINE j == [row |-> a.row, copy |-> payment[a.row], approved |-> a.approved]
    <3>1. UNCHANGED payment /\ payHook' = [payHook EXCEPT ![h] = j]
      BY <2>1 DEF PayHookRead
    <3>2. a.row \in PayRows /\ IsRow(payment[a.row])
      BY DEF PaidInv, Shapes
    <3>3. IsHook(j) /\ (j.approved => Approved(j.row))
      BY <3>2 DEF IsHook, Approved
    <3> HIDE DEF j
    <3>4. payHook'[h] = j
      BY <3>1 DEF PaidInv, Shapes
    <3>5. QED
      BY <3>1, <3>3, <3>4
  <2>2. ASSUME PayHookSave(h)
        PROVE  /\ payHook'[h] = NoCall /\ payHook' = [payHook EXCEPT ![h] = NoCall]
               /\ RowsKept
    <3> DEFINE j == payHook[h]
               m == [j.copy EXCEPT !.status = NotifiedAs(j)]
    <3>1. /\ j # NoCall /\ payment' = [payment EXCEPT ![j.row] = m]
          /\ payHook' = [payHook EXCEPT ![h] = NoCall]
      BY <2>2 DEF PayHookSave, WriteMoney
    <3>2. IsHook(j) /\ (j.approved => Approved(j.row))
      BY <3>1 DEF PaidInv, Shapes
    <3>3. IsRow(m) /\ m.status \in {"Paid", "Failed"} /\ (m.status = "Paid" => j.approved)
      BY <3>2 DEF IsHook, IsRow, NotifiedAs
    <3> HIDE DEF m
    <3>4. Written(j.row, m) /\ j.row \in PayRows
      BY <3>1, <3>2, <3>3 DEF Written, IsHook
    <3>5. RowsKept
      BY <3>4 DEF RowsKept
    <3>6. QED
      BY <3>1, <3>5 DEF PaidInv, Shapes
  <2>3. QED
    BY <2>1, <2>2 DEF RowsKept
<1>3. /\ DOMAIN payment' = PayRows /\ \A i \in PayRows : IsRow(payment'[i])
      /\ \A i \in PayRows : InUse(i) => InUse(i)'
      /\ \A i \in PayRows : Approved(i) => Approved(i)'
      /\ \A i \in PayRows : payment'[i].method = "mp" /\ payment'[i].status = "Paid" => Approved(i)'
  BY <1>1, <1>2, RowsStay
<1>4. DOMAIN payHook' = PayHooks /\ \A g \in PayHooks \ {h} : payHook'[g] = payHook[g]
  BY <1>2 DEF PaidInv, Shapes
<1>5. Shapes'
  BY <1>1, <1>2, <1>3, <1>4 DEF PaidInv, Shapes
<1>6. \A g \in PayHooks : payHook'[g] # NoCall /\ payHook'[g].approved => Approved(payHook'[g].row)
  BY <1>2, <1>4 DEF PaidInv
<1>7. \A g \in PayHooks : payHook'[g] # NoCall /\ payHook'[g].approved => Approved(payHook[g].row)'
  BY <1>1, <1>6 DEF Approved
<1>8. \A c \in Clerks : clerk[c] # NoCall =>
        /\ clerk[c].row \in PayRows /\ CopyOK(clerk[c])
        /\ clerk[c].at = "read" => InUse(clerk[c].row)
  BY DEF PaidInv, Shapes, IsClerk
<1>9. \A c \in Clerks : clerk'[c] # NoCall =>
        CopyOK(clerk[c])' /\ (clerk'[c].at = "read" => InUse(clerk[c].row)')
  <2>1. SUFFICES ASSUME NEW c \in Clerks, clerk'[c] # NoCall
                 PROVE  CopyOK(clerk[c])' /\ (clerk'[c].at = "read" => InUse(clerk[c].row)')
    OBVIOUS
  <2>2. clerk'[c] = clerk[c]
    BY <1>1
  <2>3. CopyOK(clerk[c])'
    BY <1>8, <2>1, <2>2 DEF CopyOK
  <2>4. clerk'[c].at = "read" => InUse(clerk[c].row)'
    BY <1>3, <1>8, <2>1, <2>2 DEF InUse
  <2>5. QED
    BY <2>3, <2>4
<1>10. QED
  BY <1>3, <1>5, <1>7, <1>9 DEF PaidInv

(* Every step.                                                              *)
LEMMA PaidStep ==
  ASSUME PaidInv, [ChargeNext]_chargeVars
  PROVE  PaidInv'
<1>1. ASSUME NEW c \in Clerks, ClerkStep(c)
      PROVE  PaidInv'
  <2>1. \/ \E op \in ChargeOps, i \in PayRows :
             ChargeTurn(c, op, i) \/ TouchRead(c, op, i) \/ AskPreference(c, i)
        \/ \E i \in PayRows : QrFind(c, i)
        \/ \E i \in PayRows : SettleRow(c, i) \/ NewRow(c, i)
        \/ QrSave(c) \/ PreferenceLink(c) \/ TouchSave(c)
        \/ PreferenceRead(c) \/ ReadRows(c) \/ SettledAll(c) \/ ClerkBreaks(c)
    BY <1>1, "qr" \in ChargeOps DEF ClerkStep, ChargeOps
  <2>2. QED
    BY <2>1, BeginsOK, QrOK, SettlesOK, SavesOK, QuietOK
<1>2. ASSUME NEW x \in checkouts, NEW ok \in BOOLEAN, PayCheckout(x, ok)
      PROVE  PaidInv'
  BY <1>2, PayersOK
<1>3. ASSUME NEW h \in PayHooks, (\E a \in attempts : PayHookRead(h, a)) \/ PayHookSave(h)
      PROVE  PaidInv'
  BY <1>3, HooksOK
<1>4. CASE UNCHANGED chargeVars
  BY <1>4 DEF chargeVars, PaidInv, Shapes, CopyOK, InUse, Approved
<1>5. QED
  BY <1>1, <1>2, <1>3, <1>4 DEF ChargeNext

(* A Mercado Pago row is paid only after the provider approved a payment of *)
(* it, whatever the panel and the webhooks interleave, for any turn.        *)
THEOREM MpPaidIsApprovedHolds == ChargeSpec => []MpPaidIsApproved
<1>1. ChargeInit => PaidInv
  BY ChargeInitOK
<1>2. PaidInv /\ [ChargeNext]_chargeVars => PaidInv'
  BY PaidStep
<1>3. PaidInv => MpPaidIsApproved
  BY DEF PaidInv, MpPaidIsApproved, Approved
<1>4. QED
  BY <1>1, <1>2, <1>3, PTL DEF ChargeSpec
-----------------------------------------------------------------------------
(* Money accredited by Mercado Pago, where the panel makes one call on the  *)
(* turn at a time.  A row with a checkout is a Mercado Pago row for good,   *)
(* so a mark by hand that is being undone is of another row.                *)
OnMp(i) == InUse(i) /\ payment[i].method = "mp"
Steady(k) ==
  /\ k.at = "one" => payment[k.row].method = "manual"
  /\ k.at = "settle" => \A i \in k.todo : payment[i].method = k.copies[i].method

KeptInv ==
  /\ PaidInv
  /\ \A c, d \in Clerks : clerk[c] # NoCall /\ clerk[d] # NoCall => c = d
  /\ \A x \in checkouts \cup attempts : OnMp(x.row)
  /\ \A h \in PayHooks : payHook[h] # NoCall =>
       OnMp(payHook[h].row) /\ payHook[h].copy.method = "mp"
  /\ \A c \in Clerks : clerk[c] # NoCall => Steady(clerk[c])

LEMMA KeptInit == ASSUME ChargeInit PROVE KeptInv
<1> DEFINE f == CHOOSE i \in PayRows : TRUE
<1>1. PICK first \in FirstRows \cup {NoMoney} :
        payment = [[i \in PayRows |-> NoMoney] EXCEPT ![f] = first]
  BY DEF ChargeInit
<1>2. \A i \in PayRows : payment[i] \in {first, NoMoney}
  BY <1>1
<1>3. first.method = "mp" => first.status = "Paid"
  BY ChargeAssumption DEF NoMoney
<1>4. \A i \in PayRows : payment[i].method = "mp" => OnMp(i)
  BY <1>2, <1>3 DEF OnMp, InUse, NoMoney
<1>5. /\ attempts = {[row |-> i, amount |-> AmountAsked(payment[i]), approved |-> TRUE] :
                       i \in {j \in PayRows : payment[j].method = "mp"}}
      /\ clerk = [c \in Clerks |-> NoCall] /\ payHook = [h \in PayHooks |-> NoCall]
      /\ checkouts = {}
  BY DEF ChargeInit
<1>6. \A x \in checkouts \cup attempts : OnMp(x.row)
  BY <1>4, <1>5
<1>7. QED
  BY <1>5, <1>6, ChargeInitOK DEF KeptInv

(* A panel call is alone: it starts when no other is under way.             *)
LEMMA AloneOK ==
  ASSUME OneClerk, KeptInv, NEW c \in Clerks, ClerkStep(c)
  PROVE  /\ \A d \in Clerks \ {c} : clerk[d] = NoCall /\ clerk'[d] = NoCall
         /\ UNCHANGED <<payHook, attempts>>
<1>1. /\ UNCHANGED <<payHook, attempts>> /\ \E k : clerk' = [clerk EXCEPT ![c] = k]
      /\ clerk[c] # NoCall \/ \A d \in Clerks : clerk[d] = NoCall
  <2>1. CASE \E op \in ChargeOps, i \in PayRows :
               ChargeTurn(c, op, i) \/ TouchRead(c, op, i) \/ AskPreference(c, i)
    BY <2>1 DEF ChargeTurn, TouchRead, AskPreference, Starts, providerVars
  <2>2. CASE \E i \in PayRows : QrFind(c, i) \/ SettleRow(c, i) \/ NewRow(c, i)
    BY <2>2 DEF QrFind, SettleRow, NewRow, ClerkAt, ClerkDone, clerkFrame, providerVars
  <2>3. CASE QrSave(c) \/ PreferenceLink(c) \/ TouchSave(c)
    BY <2>3 DEF QrSave, PreferenceLink, TouchSave, ClerkAt, ClerkDone, clerkFrame, providerVars
  <2>4. CASE PreferenceRead(c) \/ ReadRows(c) \/ SettledAll(c) \/ ClerkBreaks(c)
    BY <2>4 DEF PreferenceRead, ReadRows, SettledAll, ClerkBreaks, ClerkAt, ClerkDone,
                clerkFrame, providerVars
  <2>5. QED
    BY <2>1, <2>2, <2>3, <2>4, "qr" \in ChargeOps DEF ClerkStep, ChargeOps
<1>2. \A d \in Clerks \ {c} : clerk[d] = NoCall
  BY <1>1 DEF KeptInv
<1>3. QED
  BY <1>1, <1>2 DEF KeptInv, PaidInv, Shapes

(* What a panel call writes: at most a row, which stays a Mercado Pago row  *)
(* if it was one, and only the preference gives out a checkout.             *)
Puts(i, m) ==
  /\ payment' = [payment EXCEPT ![i] = m] /\ IsRow(m) /\ m.status # "none"
  /\ OnMp(i) => m.method = "mp"

LEMMA PutsOK ==
  ASSUME KeptInv, NEW i \in PayRows, NEW m, Puts(i, m)
  PROVE  /\ payment'[i] = m /\ \A j \in PayRows \ {i} : payment'[j] = payment[j]
         /\ \A j \in PayRows : OnMp(j) => OnMp(j)'
BY DEF KeptInv, PaidInv, Shapes, Puts, OnMp, InUse

LEMMA ClerkPuts ==
  ASSUME KeptInv, NEW c \in Clerks, ClerkStep(c)
  PROVE  /\ \A i \in PayRows : OnMp(i) => OnMp(i)'
         /\ \A x \in checkouts' : OnMp(x.row)'
<1> DEFINE k == clerk[c]   i == k.row
<1>1. \A x \in checkouts : x.row \in PayRows /\ OnMp(x.row)
  BY DEF KeptInv, PaidInv, Shapes
<1>2. CASE UNCHANGED <<payment, checkouts>>
  BY <1>1, <1>2 DEF OnMp, InUse
<1>3. ASSUME NEW j \in PayRows, NEW m, Puts(j, m), UNCHANGED checkouts
      PROVE  /\ \A r \in PayRows : OnMp(r) => OnMp(r)'
             /\ \A x \in checkouts' : OnMp(x.row)'
  BY <1>1, <1>3, PutsOK
<1>4. ASSUME k # NoCall
      PROVE  /\ IsClerk(k) /\ CopyOK(k) /\ Steady(k) /\ i \in PayRows
             /\ \A j \in PayRows : IsRow(k.copies[j])
  BY <1>4, ClerkFields DEF KeptInv, IsClerk
<1>5. CASE \/ \E op \in ChargeOps, j \in PayRows : ChargeTurn(c, op, j) \/ TouchRead(c, op, j)
           \/ \E j \in PayRows : AskPreference(c, j) \/ QrFind(c, j)
           \/ PreferenceRead(c) \/ ReadRows(c) \/ SettledAll(c) \/ ClerkBreaks(c)
  <2>1. UNCHANGED <<payment, checkouts>>
    BY <1>5 DEF ChargeTurn, TouchRead, AskPreference, Starts, QrFind, PreferenceRead, ReadRows,
                SettledAll, ClerkBreaks, clerkFrame, providerVars
  <2>2. QED
    BY <1>2, <2>1
<1>6. CASE QrSave(c)
  <2>1. /\ k # NoCall /\ k.at = "save" /\ payment' = [payment EXCEPT ![i] = k.copies[i]]
        /\ UNCHANGED checkouts
    BY <1>6 DEF QrSave, ClerkAt, WriteMoney, clerkFrame, providerVars
  <2>2. Puts(i, k.copies[i])
    BY <1>4, <2>1 DEF Puts, CopyOK
  <2>3. QED
    BY <1>3, <1>4, <2>1, <2>2
<1>7. CASE PreferenceLink(c)
  <2> DEFINE m == [k.copies[i] EXCEPT !.method = "mp"]
             x == [row |-> i, amount |-> AmountAsked(k.copies[i])]
  <2>1. /\ k # NoCall /\ k.at = "link" /\ payment' = [payment EXCEPT ![i] = m]
        /\ checkouts' = checkouts \cup {x}
    BY <1>7 DEF PreferenceLink, ClerkAt, WriteMoney
  <2>2. IsRow(m) /\ m.status # "none" /\ m.method = "mp"
    BY <1>4, <2>1 DEF CopyOK, IsRow
  <2>3. x.row = i
    OBVIOUS
  <2> HIDE DEF m, x
  <2>4. Puts(i, m)
    BY <2>1, <2>2 DEF Puts
  <2>5. payment'[i] = m /\ \A j \in PayRows : OnMp(j) => OnMp(j)'
    BY <1>4, <2>1, <2>4, PutsOK
  <2>6. \A r \in PayRows : r = i => OnMp(r)'
    BY <2>2, <2>5 DEF OnMp, InUse
  <2>7. \A y \in checkouts' : OnMp(y.row)'
    BY <1>1, <1>4, <2>1, <2>3, <2>5, <2>6
  <2>8. QED
    BY <2>5, <2>7
<1>8. CASE TouchSave(c)
  <2> DEFINE m == [k.copies[i] EXCEPT !.status = TouchedAs(k.op)]
  <2>1. /\ k # NoCall /\ k.at = "one" /\ payment' = [payment EXCEPT ![i] = m]
        /\ UNCHANGED checkouts
    BY <1>8 DEF TouchSave, ClerkAt, WriteMoney, clerkFrame, providerVars
  <2>2. TouchedAs(k.op) # "none"
    BY DEF TouchedAs
  <2>3. IsRow(m) /\ m.status # "none"
    BY <1>4, <2>1, <2>2 DEF IsRow
  <2>4. ~OnMp(i)
    BY <1>4, <2>1 DEF Steady, OnMp
  <2> HIDE DEF m
  <2>5. Puts(i, m)
    BY <2>1, <2>3, <2>4 DEF Puts
  <2>6. QED
    BY <1>3, <1>4, <2>1, <2>5
<1>9. ASSUME NEW j \in PayRows, SettleRow(c, j)
      PROVE  /\ \A r \in PayRows : OnMp(r) => OnMp(r)'
             /\ \A x \in checkouts' : OnMp(x.row)'
  <2> DEFINE m == SettledAs(k.op, k.copies[j])
  <2>1. /\ k # NoCall /\ k.at = "settle" /\ j \in k.todo
        /\ payment' = [payment EXCEPT ![j] = m] /\ UNCHANGED checkouts
    BY <1>9 DEF SettleRow, ClerkAt, WriteMoney, clerkFrame, providerVars
  <2>2. IsRow(m) /\ m.status # "none" /\ m.method = k.copies[j].method
    BY <1>4, <2>1 DEF SettledAs, IsRow
  <2>3. payment[j].method = k.copies[j].method
    BY <1>4, <2>1 DEF Steady
  <2> HIDE DEF m
  <2>4. Puts(j, m)
    BY <2>1, <2>2, <2>3 DEF Puts, OnMp
  <2>5. QED
    BY <1>3, <2>1, <2>4
<1>10. ASSUME NEW j \in PayRows, NewRow(c, j)
       PROVE  /\ \A r \in PayRows : OnMp(r) => OnMp(r)'
              /\ \A x \in checkouts' : OnMp(x.row)'
  <2> DEFINE m == [method |-> "manual", base |-> k.due, vat |-> 0,
                   status |-> IF k.at = "rest" THEN "Paid" ELSE "Deferred"]
  <2>1. payment' = [payment EXCEPT ![j] = m] /\ ~InUse(j) /\ UNCHANGED checkouts
    BY <1>10 DEF NewRow, Fresh, WriteMoney, clerkFrame, providerVars
  <2>2. IsRow(m) /\ m.status # "none"
    BY DEF IsRow
  <2> HIDE DEF m
  <2>3. Puts(j, m)
    BY <2>1, <2>2 DEF Puts, OnMp
  <2>4. QED
    BY <1>3, <2>1, <2>3
<1>11. QED
  BY <1>5, <1>6, <1>7, <1>8, <1>9, <1>10 DEF ClerkStep

(* The call goes on with copies as the rows are.                            *)
LEMMA ClerkSteady ==
  ASSUME KeptInv, NEW c \in Clerks, ClerkStep(c), clerk'[c] # NoCall
  PROVE  Steady(clerk[c])'
<1> DEFINE k == clerk[c]
<1>1. DOMAIN clerk = Clerks /\ DOMAIN payment = PayRows
  BY DEF KeptInv, PaidInv, Shapes
<1>2. ASSUME NEW l, NEW op, NEW i \in PayRows, NEW S, NEW due, Starts(c, l, op, i, S, due),
             l = "one" => payment[i].method = "manual", l # "settle"
      PROVE  Steady(clerk[c])'
  <2>1. clerk'[c].at = l /\ clerk'[c].row = i /\ UNCHANGED payment
    BY <1>1, <1>2 DEF Starts
  <2>2. QED
    BY <1>2, <2>1 DEF Steady
<1>3. ASSUME NEW op \in ChargeOps, NEW i \in PayRows,
             ChargeTurn(c, op, i) \/ TouchRead(c, op, i) \/ AskPreference(c, i)
      PROVE  Steady(clerk[c])'
  <2>1. CASE ChargeTurn(c, op, i)
    <3>1. PICK l \in {"find", "rows"} : Starts(c, l, op, i, {}, Due)
      BY <2>1 DEF ChargeTurn
    <3>2. QED
      BY <1>2, <3>1
  <2>2. CASE TouchRead(c, op, i)
    <3>1. Starts(c, "one", op, i, {i}, 0) /\ payment[i].method = "manual"
      BY <2>2 DEF TouchRead, MayTouch, Manual, ManualOpen, ChargeOps
    <3>2. QED
      BY <1>2, <3>1
  <2>3. CASE AskPreference(c, i)
    <3>1. Starts(c, "link", "preference", i, {i}, 0)
      BY <2>3 DEF AskPreference
    <3>2. QED
      BY <1>2, <3>1
  <2>4. QED
    BY <1>3, <2>1, <2>2, <2>3
<1>4. ASSUME k # NoCall
      PROVE  IsClerk(k) /\ Steady(k)
  BY <1>4, ClerkFields DEF KeptInv
<1>5. CASE \/ \E i \in PayRows : QrFind(c, i)
           \/ QrSave(c) \/ PreferenceRead(c) \/ SettledAll(c)
  <2>1. k # NoCall /\ IsClerk(k)
    BY <1>4, <1>5 DEF QrFind, QrSave, PreferenceRead, SettledAll, ClerkAt
  <2>2. clerk'[c].at \in {"save", "read", "link", "rest"}
    <3>1. CASE \E i \in PayRows : QrFind(c, i)
      BY <1>1, <2>1, <3>1 DEF QrFind, IsClerk
    <3>2. CASE QrSave(c)
      BY <1>1, <2>1, <3>2 DEF QrSave, IsClerk
    <3>3. CASE PreferenceRead(c)
      BY <1>1, <2>1, <3>3 DEF PreferenceRead, IsClerk, ClerkDone
    <3>4. CASE SettledAll(c)
      BY <1>1, <2>1, <3>4 DEF SettledAll, IsClerk, ClerkDone
    <3>5. QED
      BY <1>5, <3>1, <3>2, <3>3, <3>4
  <2>3. QED
    BY <2>2 DEF Steady
<1>6. CASE ReadRows(c)
  <2> DEFINE S == ToSettle(c)
             next == [k EXCEPT !.at = IF k.op = "deferred" /\ S = {} THEN "note" ELSE "settle",
                               !.copies = Copies(S), !.todo = S]
  <2>1. k # NoCall /\ IsClerk(k) /\ clerk' = [clerk EXCEPT ![c] = next] /\ UNCHANGED payment
    BY <1>4, <1>6 DEF ReadRows, ClerkAt
  <2>2. \A i \in S : Copies(S)[i] = payment[i]
    BY DEF Copies, ToSettle
  <2>3. S \subseteq PayRows
    BY DEF ToSettle
  <2> HIDE DEF S
  <2>4. next.at \in {"note", "settle"} /\ next.todo = S /\ next.copies = Copies(S)
    BY <2>1 DEF IsClerk
  <2>5. clerk'[c] = next
    BY <1>1, <2>1
  <2> HIDE DEF next
  <2>6. QED
    BY <2>1, <2>2, <2>4, <2>5 DEF Steady
<1>7. ASSUME NEW i \in PayRows, SettleRow(c, i)
      PROVE  Steady(clerk[c])'
  <2> DEFINE m == SettledAs(k.op, k.copies[i])
             next == [k EXCEPT !.todo = @ \ {i}]
  <2>1. /\ k # NoCall /\ k.at = "settle" /\ i \in k.todo
        /\ payment' = [payment EXCEPT ![i] = m] /\ clerk' = [clerk EXCEPT ![c] = next]
    BY <1>7 DEF SettleRow, ClerkAt, WriteMoney
  <2>2. IsClerk(k) /\ Steady(k) /\ IsRow(k.copies[i])
    BY <1>4, <2>1 DEF IsClerk
  <2>3. next.at = "settle" /\ next.todo = k.todo \ {i} /\ next.copies = k.copies
    BY <2>1, <2>2 DEF IsClerk
  <2>4. clerk'[c] = next
    BY <1>1, <2>1
  <2> HIDE DEF next, m
  <2>5. \A j \in next.todo : payment'[j] = payment[j]
    BY <1>1, <2>1, <2>2, <2>3 DEF IsClerk
  <2>6. \A j \in next.todo : payment'[j].method = next.copies[j].method
    BY <2>1, <2>2, <2>3, <2>5 DEF Steady
  <2>7. QED
    BY <2>3, <2>4, <2>6 DEF Steady
<1>8. CASE \/ \E i \in PayRows : NewRow(c, i)
           \/ PreferenceLink(c) \/ TouchSave(c) \/ ClerkBreaks(c)
  <2>1. ClerkDone(c)
    BY <1>8 DEF NewRow, PreferenceLink, TouchSave, ClerkBreaks
  <2>2. QED
    BY <1>1, <2>1 DEF ClerkDone
<1>9. QED
  BY <1>3, <1>5, <1>6, <1>7, <1>8, "qr" \in ChargeOps DEF ClerkStep, ChargeOps

(* Payers and notifications change no method.                               *)
LEMMA ProviderKept ==
  ASSUME KeptInv, PaidInv',
         \/ \E x \in checkouts, ok \in BOOLEAN : PayCheckout(x, ok)
         \/ \E h \in PayHooks : (\E a \in attempts : PayHookRead(h, a)) \/ PayHookSave(h)
  PROVE  KeptInv'
<1>1. /\ DOMAIN payment = PayRows /\ DOMAIN payHook = PayHooks
      /\ \A x \in checkouts \cup attempts : x.row \in PayRows /\ OnMp(x.row)
      /\ \A h \in PayHooks : payHook[h] # NoCall =>
           /\ IsHook(payHook[h]) /\ payHook[h].row \in PayRows
           /\ OnMp(payHook[h].row) /\ payHook[h].copy.method = "mp"
      /\ \A c \in Clerks : clerk[c] # NoCall => IsClerk(clerk[c]) /\ Steady(clerk[c])
  BY DEF KeptInv, PaidInv, Shapes, IsHook
<1>2. UNCHANGED <<clerk, checkouts>>
  BY DEF PayCheckout, PayHookRead, PayHookSave
<1>3. /\ \A i \in PayRows : payment'[i].method = payment[i].method /\ (InUse(i) => InUse(i)')
      /\ \A a \in attempts' : a.row \in PayRows /\ OnMp(a.row)
      /\ \A h \in PayHooks : payHook'[h] # NoCall =>
           payHook'[h].row \in PayRows /\ OnMp(payHook'[h].row) /\ payHook'[h].copy.method = "mp"
  <2>1. ASSUME NEW x \in checkouts, NEW ok \in BOOLEAN, PayCheckout(x, ok)
        PROVE  <1>3!:
    BY <1>1, <2>1 DEF PayCheckout, InUse
  <2>2. ASSUME NEW h \in PayHooks, NEW a \in attempts, PayHookRead(h, a)
        PROVE  <1>3!:
    <3> DEFINE j == [row |-> a.row, copy |-> payment[a.row], approved |-> a.approved]
    <3>1. UNCHANGED <<payment, attempts>> /\ payHook' = [payHook EXCEPT ![h] = j]
      BY <2>2 DEF PayHookRead
    <3>2. j.row = a.row /\ j.copy = payment[a.row] /\ a.row \in PayRows /\ OnMp(a.row)
      BY <1>1
    <3> HIDE DEF j
    <3>3. payHook'[h] = j /\ \A g \in PayHooks \ {h} : payHook'[g] = payHook[g]
      BY <1>1, <3>1
    <3>4. QED
      BY <1>1, <3>1, <3>2, <3>3 DEF OnMp, InUse
  <2>3. ASSUME NEW h \in PayHooks, PayHookSave(h)
        PROVE  <1>3!:
    <3> DEFINE j == payHook[h]
               m == [j.copy EXCEPT !.status = NotifiedAs(j)]
    <3>1. /\ j # NoCall /\ payment' = [payment EXCEPT ![j.row] = m] /\ UNCHANGED attempts
          /\ payHook' = [payHook EXCEPT ![h] = NoCall]
      BY <2>3 DEF PayHookSave, WriteMoney
    <3>2. IsHook(j) /\ j.row \in PayRows /\ OnMp(j.row) /\ j.copy.method = "mp"
      BY <1>1, <3>1
    <3>3. m.method = "mp" /\ m.status # "none"
      BY <3>2 DEF IsHook, IsRow, NotifiedAs
    <3> HIDE DEF m
    <3>4. payment'[j.row] = m /\ \A i \in PayRows \ {j.row} : payment'[i] = payment[i]
      BY <1>1, <3>1, <3>2
    <3>5. \A i \in PayRows : payment'[i].method = payment[i].method /\ (InUse(i) => InUse(i)')
      BY <3>2, <3>3, <3>4 DEF OnMp, InUse
    <3>6. \A g \in PayHooks : payHook'[g] # NoCall => payHook'[g] = payHook[g]
      BY <1>1, <3>1
    <3>7. QED
      BY <1>1, <3>1, <3>5, <3>6
  <2>4. QED
    BY <2>1, <2>2, <2>3
<1>4. \A i \in PayRows : OnMp(i) => OnMp(i)'
  BY <1>3 DEF OnMp
<1>5. ASSUME NEW c \in Clerks, clerk'[c] # NoCall
      PROVE  Steady(clerk[c])'
  <2>1. clerk'[c] = clerk[c] /\ IsClerk(clerk[c]) /\ Steady(clerk[c])
    BY <1>1, <1>2, <1>5
  <2>2. QED
    BY <1>3, <2>1 DEF Steady, IsClerk
<1>6. \A x \in checkouts' \cup attempts' : OnMp(x.row)'
  BY <1>1, <1>2, <1>3, <1>4
<1>7. \A h \in PayHooks : payHook'[h] # NoCall => OnMp(payHook[h].row)' /\ payHook'[h].copy.method = "mp"
  BY <1>3, <1>4
<1>8. \A c, d \in Clerks : clerk'[c] # NoCall /\ clerk'[d] # NoCall => c = d
  BY <1>2 DEF KeptInv
<1>9. QED
  BY <1>5, <1>6, <1>7, <1>8 DEF KeptInv

LEMMA KeptStep ==
  ASSUME OneClerk, KeptInv, [ChargeNext]_chargeVars
  PROVE  KeptInv'
<1>1. PaidInv'
  BY PaidStep DEF KeptInv
<1>2. ASSUME NEW c \in Clerks, ClerkStep(c)
      PROVE  KeptInv'
  <2>1. /\ \A d \in Clerks \ {c} : clerk[d] = NoCall /\ clerk'[d] = NoCall
        /\ UNCHANGED <<payHook, attempts>>
    BY <1>2, AloneOK
  <2>2. /\ \A i \in PayRows : OnMp(i) => OnMp(i)'
        /\ \A x \in checkouts' : OnMp(x.row)'
    BY <1>2, ClerkPuts
  <2>3. \A x \in checkouts' \cup attempts' : OnMp(x.row)'
    BY <2>1, <2>2 DEF KeptInv, PaidInv, Shapes
  <2>4. ASSUME NEW h \in PayHooks, payHook'[h] # NoCall
        PROVE  OnMp(payHook[h].row)' /\ payHook'[h].copy.method = "mp"
    <3>1. payHook'[h] = payHook[h]
      BY <2>1
    <3>2. payHook[h].row \in PayRows /\ OnMp(payHook[h].row) /\ payHook[h].copy.method = "mp"
      BY <2>4, <3>1 DEF KeptInv, PaidInv, Shapes, IsHook
    <3>3. OnMp(payHook[h].row)'
      BY <2>2, <3>1, <3>2 DEF OnMp, InUse
    <3>4. QED
      BY <3>1, <3>2, <3>3
  <2>5. \A d \in Clerks : clerk'[d] # NoCall => d = c /\ Steady(clerk[d])'
    BY <1>2, <2>1, ClerkSteady
  <2>6. QED
    BY <1>1, <2>3, <2>4, <2>5 DEF KeptInv
<1>3. CASE UNCHANGED chargeVars
  BY <1>1, <1>3 DEF chargeVars, KeptInv, OnMp, InUse, Steady
<1>4. QED
  BY <1>1, <1>2, <1>3, ProviderKept DEF ChargeNext

(* A row accredited is written by nobody who does not hold a copy read      *)
(* before.                                                                  *)
LEMMA AccreditedStep ==
  ASSUME KeptInv, [ChargeNext]_chargeVars, NEW i \in PayRows,
         payment[i].method = "mp", payment[i].status = "Paid", ~StaleCopy(i)
  PROVE  payment'[i] = payment[i]
<1>1. DOMAIN payment = PayRows
  BY DEF KeptInv, PaidInv, Shapes
<1>2. ASSUME NEW r, NEW m, r # i, payment' = [payment EXCEPT ![r] = m]
      PROVE  payment'[i] = payment[i]
  BY <1>1, <1>2
<1>3. ASSUME NEW c \in Clerks, clerk[c] # NoCall
      PROVE  /\ CopyOK(clerk[c]) /\ Steady(clerk[c])
             /\ clerk[c].copies[i].status \in {"none", "Paid"}
  BY <1>3 DEF KeptInv, PaidInv, StaleCopy
<1>4. ASSUME NEW c \in Clerks, ClerkStep(c)
      PROVE  payment'[i] = payment[i]
  <2> DEFINE k == clerk[c]
  <2>1. CASE \/ \E op \in ChargeOps, j \in PayRows : ChargeTurn(c, op, j) \/ TouchRead(c, op, j)
             \/ \E j \in PayRows : AskPreference(c, j) \/ QrFind(c, j)
             \/ PreferenceRead(c) \/ ReadRows(c) \/ SettledAll(c) \/ ClerkBreaks(c)
    BY <2>1 DEF ChargeTurn, TouchRead, AskPreference, Starts, QrFind, PreferenceRead, ReadRows,
                SettledAll, ClerkBreaks, clerkFrame
  <2>2. CASE QrSave(c)
    <3>1. /\ k # NoCall /\ k.at = "save" /\ payment' = [payment EXCEPT ![k.row] = k.copies[k.row]]
      BY <2>2 DEF QrSave, ClerkAt, WriteMoney
    <3>2. k.row # i
      BY <1>3, <3>1 DEF CopyOK
    <3>3. QED
      BY <1>2, <3>1, <3>2
  <2>3. CASE PreferenceLink(c)
    <3>1. k # NoCall /\ k.at = "link" /\ \E m : payment' = [payment EXCEPT ![k.row] = m]
      BY <2>3 DEF PreferenceLink, ClerkAt, WriteMoney
    <3>2. k.row # i
      BY <1>3, <3>1 DEF CopyOK
    <3>3. QED
      BY <1>2, <3>1, <3>2
  <2>4. CASE TouchSave(c)
    <3>1. k # NoCall /\ k.at = "one" /\ \E m : payment' = [payment EXCEPT ![k.row] = m]
      BY <2>4 DEF TouchSave, ClerkAt, WriteMoney
    <3>2. k.row # i
      BY <1>3, <3>1 DEF Steady
    <3>3. QED
      BY <1>2, <3>1, <3>2
  <2>5. ASSUME NEW j \in PayRows, SettleRow(c, j)
        PROVE  payment'[i] = payment[i]
    <3>1. k # NoCall /\ k.at = "settle" /\ j \in k.todo /\ \E m : payment' = [payment EXCEPT ![j] = m]
      BY <2>5 DEF SettleRow, ClerkAt, WriteMoney
    <3>2. j # i
      BY <1>3, <3>1 DEF CopyOK, OpenStatuses
    <3>3. QED
      BY <1>2, <3>1, <3>2
  <2>6. ASSUME NEW j \in PayRows, NewRow(c, j)
        PROVE  payment'[i] = payment[i]
    <3>1. payment[j].status = "none" /\ \E m : payment' = [payment EXCEPT ![j] = m]
      BY <2>6 DEF NewRow, Fresh, InUse, WriteMoney
    <3>2. QED
      BY <1>2, <3>1
  <2>7. QED
    BY <1>4, <2>1, <2>2, <2>3, <2>4, <2>5, <2>6 DEF ClerkStep
<1>5. ASSUME NEW h \in PayHooks, PayHookSave(h)
      PROVE  payment'[i] = payment[i]
  <2>1. payHook[h] # NoCall /\ \E m : payment' = [payment EXCEPT ![payHook[h].row] = m]
    BY <1>5 DEF PayHookSave, WriteMoney
  <2>2. payHook[h].row # i
    BY <2>1 DEF StaleCopy
  <2>3. QED
    BY <1>2, <2>1, <2>2
<1>6. CASE \/ \E x \in checkouts, ok \in BOOLEAN : PayCheckout(x, ok)
           \/ \E h \in PayHooks, a \in attempts : PayHookRead(h, a)
           \/ UNCHANGED chargeVars
  BY <1>6 DEF PayCheckout, PayHookRead, chargeVars
<1>7. QED
  BY <1>4, <1>5, <1>6 DEF ChargeNext

(* charge.service and handleWebhook: money accredited by Mercado Pago is    *)
(* unmarked only by a copy read before it was accredited.                   *)
THEOREM AccreditedKeptHolds ==
  ASSUME OneClerk
  PROVE  ChargeSpec => AccreditedKept
<1>1. KeptInv /\ [ChargeNext]_chargeVars =>
        \A i \in PayRows :
          payment[i].method = "mp" /\ payment[i].status = "Paid" /\ ~StaleCopy(i) =>
            payment'[i] = payment[i]
  BY AccreditedStep
<1>2. ChargeInit => KeptInv
  BY KeptInit
<1>3. KeptInv /\ [ChargeNext]_chargeVars => KeptInv'
  BY KeptStep
<1>4. QED
  BY <1>1, <1>2, <1>3, PTL DEF ChargeSpec, AccreditedKept
-----------------------------------------------------------------------------
(* Types, amounts included.                                                 *)
LEMMA ChargeParts ==
  /\ NoMoney \in Money
  /\ \A m \in Money, s \in PaymentStatuses :
       [m EXCEPT !.status = s] \in Money /\ [m EXCEPT !.method = "mp"] \in Money
  /\ \A m \in Money : AmountAsked(m) \in Nat
<1>1. NoMoney \in Money
  BY DEF NoMoney, Money, PaymentStatuses
<1>2. \A m \in Money, s \in PaymentStatuses :
        [m EXCEPT !.status = s] \in Money /\ [m EXCEPT !.method = "mp"] \in Money
  BY DEF Money
<1>3. \A m \in Money : AmountAsked(m) \in Nat
  BY DEF Money, AmountAsked
<1>. QED
  BY <1>1, <1>2, <1>3

LEMMA SumBaseIsNat == ASSUME ChargeTypeOK, NEW S \in SUBSET PayRows PROVE SumBase(S) \in Nat
<1>1. IsFiniteSet(S)
  BY ChargeAssumption, FS_Subset
<1>2. \A i \in S : [j \in S |-> payment[j].base][i] \in Nat
  BY DEF ChargeTypeOK, Money
<1>. QED
  BY <1>1, <1>2, SumNat DEF SumBase

LEMMA DueIsNat == ASSUME ChargeTypeOK PROVE Due \in Nat
<1>1. SumBase(PaidRows) \in Nat
  BY SumBaseIsNat DEF PaidRows
<1>. QED
  BY <1>1, ChargeAssumption DEF Due

LEMMA VatIsNat == ASSUME NEW base \in Nat PROVE VatOf(base) \in Nat
<1>1. base * VatPercent \in Nat
  BY ChargeAssumption
<1>. QED
  BY <1>1 DEF VatOf

LEMMA ClerkTyped ==
  ASSUME ChargeTypeOK, NEW c \in Clerks, clerk[c] # NoCall
  PROVE  /\ clerk[c] \in Clerk /\ clerk[c].row \in PayRows /\ clerk[c].due \in Nat
         /\ clerk[c].copies \in [PayRows -> Money] /\ clerk[c].todo \subseteq PayRows
         /\ \A i \in PayRows : clerk[c].copies[i] \in Money
<1>1. clerk[c] \in Clerk
  BY DEF ChargeTypeOK
<1>. QED
  BY <1>1 DEF Clerk

(* A panel call goes on to k or ends, and writes at most one row.           *)
LEMMA ClerkTypes ==
  ASSUME ChargeTypeOK, NEW c \in Clerks, NEW k, clerk' = [clerk EXCEPT ![c] = k],
         k # NoCall => k \in Clerk,
         UNCHANGED payment \/ \E i \in PayRows, m \in Money : WriteMoney(i, m),
         UNCHANGED <<payHook, attempts>>, checkouts' \subseteq Checkout,
         charges' \in Nat, breaks' \in Nat
  PROVE  ChargeTypeOK'
<1>1. payment' \in [PayRows -> Money]
  BY DEF ChargeTypeOK, WriteMoney
<1>2. clerk' \in [Clerks -> Clerk \cup {NoCall}]
  BY DEF ChargeTypeOK
<1>. QED
  BY <1>1, <1>2 DEF ChargeTypeOK

LEMMA StartsTypes ==
  ASSUME ChargeTypeOK, NEW c \in Clerks, NEW l \in {"find", "rows", "link", "one"},
         NEW op \in ChargeOps, NEW i \in PayRows, NEW S, NEW due \in Nat, Starts(c, l, op, i, S, due)
  PROVE  ChargeTypeOK'
<1> DEFINE k == [at |-> l, op |-> op, row |-> i, copies |-> Copies(S), todo |-> {}, due |-> due]
<1>1. Copies(S) \in [PayRows -> Money]
  BY ChargeParts DEF Copies, ChargeTypeOK
<1>2. k \in Clerk
  BY <1>1 DEF Clerk
<1>3. /\ clerk' = [clerk EXCEPT ![c] = k] /\ charges' = charges + 1
      /\ UNCHANGED <<payment, payHook, checkouts, attempts, breaks>>
  BY DEF Starts, providerVars
<1> HIDE DEF k
<1>4. charges' \in Nat /\ breaks' \in Nat /\ checkouts' \subseteq Checkout
  BY <1>3 DEF ChargeTypeOK
<1>. QED
  BY <1>2, <1>3, <1>4, ClerkTypes

LEMMA FrameTypes ==
  ASSUME ChargeTypeOK, UNCHANGED clerkFrame
  PROVE  /\ UNCHANGED <<payHook, attempts, checkouts>> /\ checkouts' \subseteq Checkout
         /\ charges' \in Nat /\ breaks' \in Nat
  BY DEF ChargeTypeOK, clerkFrame, providerVars

LEMMA ClerkStepTypes == ASSUME ChargeTypeOK, NEW c \in Clerks, ClerkStep(c) PROVE ChargeTypeOK'
<1> DEFINE k == clerk[c]
<1>1. ASSUME NEW op \in ChargeOps, NEW i \in PayRows, ChargeTurn(c, op, i) \/ TouchRead(c, op, i)
      PROVE  ChargeTypeOK'
  BY <1>1, StartsTypes, DueIsNat DEF ChargeTurn, TouchRead
<1>2. ASSUME NEW i \in PayRows, AskPreference(c, i) PROVE ChargeTypeOK'
  BY <1>2, StartsTypes DEF AskPreference, ChargeOps
<1>3. ASSUME k # NoCall
      PROVE  /\ k \in Clerk /\ k.row \in PayRows /\ k.due \in Nat /\ k.copies \in [PayRows -> Money]
             /\ k.todo \subseteq PayRows /\ \A i \in PayRows : k.copies[i] \in Money
  BY <1>3, ClerkTyped
<1>4. ASSUME NEW i \in PayRows, QrFind(c, i) PROVE ChargeTypeOK'
  <2> DEFINE m == [method |-> "mp", base |-> k.due, vat |-> VatOf(k.due), status |-> "Pending"]
             s == [k.copies EXCEPT ![i] = m]
             v == [k EXCEPT !.at = "save", !.row = i, !.copies = s]
  <2>1. /\ k # NoCall /\ clerk' = [clerk EXCEPT ![c] = v]
        /\ UNCHANGED payment /\ UNCHANGED clerkFrame
    BY <1>4 DEF QrFind, ClerkAt
  <2>2. m \in Money
    BY <2>1, <1>3, VatIsNat DEF Money, PaymentStatuses
  <2>3. s \in [PayRows -> Money]
    BY <2>1, <2>2, <1>3
  <2> HIDE DEF m, s
  <2>4. v \in Clerk
    BY <2>1, <2>3, <1>3 DEF Clerk
  <2> HIDE DEF v
  <2>. QED
    BY <2>1, <2>4, FrameTypes, ClerkTypes
<1>5. CASE QrSave(c)
  <2> DEFINE v == [k EXCEPT !.at = "read"]
  <2>1. /\ k # NoCall /\ clerk' = [clerk EXCEPT ![c] = v]
        /\ WriteMoney(k.row, k.copies[k.row]) /\ UNCHANGED clerkFrame
    BY <1>5 DEF QrSave, ClerkAt
  <2>2. v \in Clerk
    BY <2>1, <1>3 DEF Clerk
  <2> HIDE DEF v
  <2>3. k.row \in PayRows /\ k.copies[k.row] \in Money
    BY <2>1, <1>3
  <2>. QED
    BY <2>1, <2>2, <2>3, FrameTypes, ClerkTypes
<1>6. CASE PreferenceRead(c)
  <2> DEFINE v == [k EXCEPT !.at = "link", !.copies = [@ EXCEPT ![k.row] = payment[k.row]]]
  <2>1. /\ k # NoCall /\ (clerk' = [clerk EXCEPT ![c] = v] \/ clerk' = [clerk EXCEPT ![c] = NoCall])
        /\ UNCHANGED payment /\ UNCHANGED clerkFrame
    BY <1>6 DEF PreferenceRead, ClerkAt, ClerkDone
  <2>2. k # NoCall /\ payment[k.row] \in Money
    BY <1>3, <1>6 DEF PreferenceRead, ClerkAt, ChargeTypeOK
  <2>3. v \in Clerk
    BY <2>2, <1>3 DEF Clerk
  <2> HIDE DEF v
  <2>. QED
    BY <2>1, <2>3, FrameTypes, ClerkTypes
<1>7. CASE PreferenceLink(c)
  <2> DEFINE m == [k.copies[k.row] EXCEPT !.method = "mp"]
             x == [row |-> k.row, amount |-> AmountAsked(k.copies[k.row])]
  <2>1. /\ k # NoCall /\ clerk' = [clerk EXCEPT ![c] = NoCall] /\ WriteMoney(k.row, m)
        /\ checkouts' = checkouts \cup {x} /\ UNCHANGED <<payHook, attempts, charges, breaks>>
    BY <1>7 DEF PreferenceLink, ClerkAt, ClerkDone
  <2>2. k.row \in PayRows /\ k.copies[k.row] \in Money
    BY <2>1, <1>3
  <2>3. m \in Money
    BY <2>2 DEF Money
  <2>4. x \in Checkout
    BY <2>2, ChargeParts DEF Checkout
  <2> HIDE DEF m, x
  <2>5. checkouts' \subseteq Checkout /\ charges' \in Nat /\ breaks' \in Nat
    BY <2>1, <2>4 DEF ChargeTypeOK
  <2>. QED
    BY <2>1, <2>2, <2>3, <2>5, ClerkTypes
<1>8. CASE ReadRows(c)
  <2> DEFINE S == ToSettle(c)
             l == IF k.op = "deferred" /\ S = {} THEN "note" ELSE "settle"
             v == [k EXCEPT !.at = l, !.copies = Copies(S), !.todo = S]
  <2>1. /\ k # NoCall /\ clerk' = [clerk EXCEPT ![c] = v]
        /\ UNCHANGED payment /\ UNCHANGED clerkFrame
    BY <1>8 DEF ReadRows, ClerkAt
  <2>2. S \subseteq PayRows /\ Copies(S) \in [PayRows -> Money]
    BY ChargeParts DEF ToSettle, Copies, ChargeTypeOK
  <2>3. l \in {"note", "settle"}
    OBVIOUS
  <2> HIDE DEF l, S
  <2>4. v \in Clerk
    BY <2>1, <2>2, <2>3, <1>3 DEF Clerk
  <2> HIDE DEF v
  <2>. QED
    BY <2>1, <2>4, FrameTypes, ClerkTypes
<1>9. ASSUME NEW i \in PayRows, SettleRow(c, i) PROVE ChargeTypeOK'
  <2> DEFINE v == [k EXCEPT !.todo = k.todo \ {i}]
             m == SettledAs(k.op, k.copies[i])
  <2>1. /\ k # NoCall /\ clerk' = [clerk EXCEPT ![c] = v]
        /\ WriteMoney(i, m) /\ UNCHANGED clerkFrame
    BY <1>9 DEF SettleRow, ClerkAt
  <2>2. v \in Clerk
    BY <2>1, <1>3 DEF Clerk
  <2>3. m \in Money
    <3>1. \A s \in {"Deferred", "Paid", "Failed"} : s \in PaymentStatuses
      BY DEF PaymentStatuses
    <3>2. k.copies[i] \in Money
      BY <2>1, <1>3
    <3>. QED
      BY <3>1, <3>2, ChargeParts DEF SettledAs
  <2> HIDE DEF v, m
  <2>. QED
    BY <2>1, <2>2, <2>3, FrameTypes, ClerkTypes
<1>10. CASE SettledAll(c)
  <2> DEFINE v == [k EXCEPT !.at = "rest", !.due = Due]
  <2>1. /\ k # NoCall /\ (clerk' = [clerk EXCEPT ![c] = v] \/ clerk' = [clerk EXCEPT ![c] = NoCall])
        /\ UNCHANGED payment /\ UNCHANGED clerkFrame
    BY <1>10 DEF SettledAll, ClerkAt, ClerkDone, Rest
  <2>2. k # NoCall
    BY <1>10 DEF SettledAll, ClerkAt
  <2>3. v \in Clerk
    BY <2>2, <1>3, DueIsNat DEF Clerk
  <2> HIDE DEF v
  <2>. QED
    BY <2>1, <2>3, FrameTypes, ClerkTypes
<1>11. ASSUME NEW i \in PayRows, NewRow(c, i) PROVE ChargeTypeOK'
  <2> DEFINE s == IF k.at = "rest" THEN "Paid" ELSE "Deferred"
             m == [method |-> "manual", base |-> k.due, vat |-> 0, status |-> s]
  <2>1. /\ k # NoCall /\ clerk' = [clerk EXCEPT ![c] = NoCall]
        /\ WriteMoney(i, m) /\ UNCHANGED clerkFrame
    BY <1>11 DEF NewRow, ClerkDone
  <2>2. s \in PaymentStatuses
    BY DEF PaymentStatuses
  <2> HIDE DEF s
  <2>3. m \in Money
    BY <2>1, <2>2, <1>3 DEF Money
  <2> HIDE DEF m
  <2>. QED
    BY <2>1, <2>3, FrameTypes, ClerkTypes
<1>12. CASE TouchSave(c)
  <2> DEFINE m == [k.copies[k.row] EXCEPT !.status = TouchedAs(k.op)]
  <2>1. /\ k # NoCall /\ clerk' = [clerk EXCEPT ![c] = NoCall]
        /\ WriteMoney(k.row, m) /\ UNCHANGED clerkFrame
    BY <1>12 DEF TouchSave, ClerkAt, ClerkDone
  <2>2. TouchedAs(k.op) \in PaymentStatuses
    BY DEF TouchedAs, PaymentStatuses
  <2>3. m \in Money /\ k.row \in PayRows
    BY <2>1, <2>2, <1>3, ChargeParts
  <2> HIDE DEF m
  <2>. QED
    BY <2>1, <2>3, FrameTypes, ClerkTypes
<1>13. CASE ClerkBreaks(c)
  <2>1. /\ clerk' = [clerk EXCEPT ![c] = NoCall] /\ breaks' = breaks + 1
        /\ UNCHANGED <<payment, payHook, checkouts, attempts, charges>>
    BY <1>13 DEF ClerkBreaks, ClerkDone, providerVars
  <2>2. charges' \in Nat /\ breaks' \in Nat /\ checkouts' \subseteq Checkout
    BY <2>1 DEF ChargeTypeOK
  <2>. QED
    BY <2>1, <2>2, ClerkTypes
<1>. QED
  BY <1>1, <1>2, <1>4, <1>5, <1>6, <1>7, <1>8, <1>9, <1>10, <1>11, <1>12, <1>13 DEF ClerkStep

LEMMA ChargeTypeInit == ASSUME ChargeInit PROVE ChargeTypeOK
<1>1. PICK first \in FirstRows \cup {NoMoney} :
        payment = [[i \in PayRows |-> NoMoney] EXCEPT ![CHOOSE i \in PayRows : TRUE] = first]
  BY DEF ChargeInit
<1>2. first \in Money /\ NoMoney \in Money
  BY ChargeAssumption, ChargeParts
<1>3. payment \in [PayRows -> Money]
  BY <1>1, <1>2
<1>4. attempts = {[row |-> i, amount |-> AmountAsked(payment[i]), approved |-> TRUE] :
                    i \in {j \in PayRows : payment[j].method = "mp"}}
  BY DEF ChargeInit
<1>5. ASSUME NEW i \in PayRows
      PROVE  [row |-> i, amount |-> AmountAsked(payment[i]), approved |-> TRUE] \in Attempt
  BY <1>3, ChargeParts DEF Attempt
<1>6. attempts \subseteq Attempt
  BY <1>4, <1>5
<1>. QED
  BY <1>3, <1>6 DEF ChargeInit, ChargeTypeOK

LEMMA ChargeTypeStep == ASSUME ChargeTypeOK, [ChargeNext]_chargeVars PROVE ChargeTypeOK'
<1>1. CASE UNCHANGED chargeVars
  BY <1>1 DEF chargeVars, ChargeTypeOK
<1>2. ASSUME NEW x \in checkouts, NEW ok \in BOOLEAN, PayCheckout(x, ok) PROVE ChargeTypeOK'
  <2>1. [row |-> x.row, amount |-> x.amount, approved |-> ok] \in Attempt
    BY DEF ChargeTypeOK, Checkout, Attempt
  <2>. QED
    BY <1>2, <2>1 DEF PayCheckout, ChargeTypeOK
<1>3. ASSUME NEW h \in PayHooks, NEW a \in attempts, PayHookRead(h, a) PROVE ChargeTypeOK'
  <2> DEFINE j == [row |-> a.row, copy |-> payment[a.row], approved |-> a.approved]
  <2>1. a.row \in PayRows /\ a.approved \in BOOLEAN /\ payment[a.row] \in Money
    BY DEF ChargeTypeOK, Attempt
  <2>2. j \in PayHook
    BY <2>1 DEF PayHook
  <2>3. /\ payHook' = [payHook EXCEPT ![h] = j]
        /\ UNCHANGED <<payment, clerk, checkouts, attempts, charges, breaks>>
    BY <1>3 DEF PayHookRead
  <2> HIDE DEF j
  <2>. QED
    BY <2>2, <2>3 DEF ChargeTypeOK
<1>4. ASSUME NEW h \in PayHooks, PayHookSave(h) PROVE ChargeTypeOK'
  <2> DEFINE j == payHook[h]
             m == [j.copy EXCEPT !.status = NotifiedAs(j)]
  <2>1. /\ j # NoCall /\ payment' = [payment EXCEPT ![j.row] = m]
        /\ payHook' = [payHook EXCEPT ![h] = NoCall]
        /\ UNCHANGED <<clerk, checkouts, attempts, charges, breaks>>
    BY <1>4 DEF PayHookSave, WriteMoney
  <2>2. j \in PayHook
    BY <2>1 DEF ChargeTypeOK
  <2>3. NotifiedAs(j) \in PaymentStatuses
    BY DEF NotifiedAs, PaymentStatuses
  <2>4. m \in Money /\ j.row \in PayRows
    BY <2>2, <2>3, ChargeParts DEF PayHook
  <2> HIDE DEF m
  <2>. QED
    BY <2>1, <2>4 DEF ChargeTypeOK
<1>. QED
  BY <1>1, <1>2, <1>3, <1>4, ClerkStepTypes DEF ChargeNext
-----------------------------------------------------------------------------
(* What is charged by hand, where the panel makes one call on the turn at a *)
(* time.  Every row by hand that is not open is paid, so what is due when   *)
(* none is open, or once all are settled, is not charged by hand yet.       *)
Hand(m) == IF Manual(m) THEN m.base ELSE 0
Hands(p) == SumFunctionOnSet([i \in PayRows |-> Hand(p[i])], PayRows)
NoneOpen == \A i \in PayRows : ~ManualOpen(payment[i])
SumsOK(k) ==
  /\ k.at = "settle" =>
       /\ \A i \in k.todo : Manual(payment[i]) => k.copies[i].base = payment[i].base
       /\ k.op = "paid" => \A i \in PayRows : ManualOpen(payment[i]) => i \in k.todo
  /\ k.at = "one" => k.copies[k.row].base = payment[k.row].base
  /\ k.at \in {"rest", "note"} => Hands(payment) + k.due <= Price
  /\ k.at = "rows" /\ k.op = "deferred" /\ NoneOpen => Hands(payment) + k.due <= Price
ByHandOK == \A i \in PayRows : Manual(payment[i]) => payment[i].status \in {"Pending", "Deferred", "Paid"}

TotalInv ==
  /\ KeptInv /\ ChargeTypeOK /\ ByHandOK /\ Hands(payment) <= Price
  /\ \A c \in Clerks : clerk[c] # NoCall => SumsOK(clerk[c])

LEMMA HandsAre ==
  ASSUME ChargeTypeOK PROVE SumBase({i \in PayRows : Manual(payment[i])}) = Hands(payment)
<1> DEFINE A == {i \in PayRows : Manual(payment[i])}
           f == [i \in A |-> payment[i].base]
           g == [i \in PayRows |-> IF i \in A THEN f[i] ELSE 0]
<1>1. \A i \in A : f[i] \in Int
  BY DEF ChargeTypeOK, Money
<1>2. SumFunctionOnSet(f, A) = SumFunctionOnSet(g, PayRows)
  <2>1. A \in SUBSET PayRows
    OBVIOUS
  <2> HIDE DEF A, f
  <2>. QED
    BY <1>1, <2>1, ChargeAssumption, SumPicked
<1>3. g = [i \in PayRows |-> Hand(payment[i])]
  BY DEF Hand
<1>. QED
  BY <1>2, <1>3 DEF SumBase, Hands

LEMMA HandsAreNat == ASSUME NEW p \in [PayRows -> Money] PROVE Hands(p) \in Nat
<1>1. \A i \in PayRows : [j \in PayRows |-> Hand(p[j])][i] \in Nat
  BY DEF Hand, Money
<1>. QED
  BY <1>1, ChargeAssumption, SumNat DEF Hands

LEMMA HandsChange ==
  ASSUME NEW p \in [PayRows -> Money], NEW i \in PayRows, NEW m \in Money
  PROVE  /\ Hands([p EXCEPT ![i] = m]) = (Hands(p) - Hand(p[i])) + Hand(m)
         /\ Hand(p[i]) \in Nat /\ Hand(m) \in Nat
<1> DEFINE q == [p EXCEPT ![i] = m]
           f == [j \in PayRows |-> Hand(p[j])]
           g == [j \in PayRows |-> Hand(q[j])]
<1>1. \A r \in Money : Hand(r) \in Nat
  BY DEF Hand, Money
<1>2. q \in [PayRows -> Money] /\ q[i] = m /\ \A j \in PayRows : j # i => q[j] = p[j]
  OBVIOUS
<1> HIDE DEF q
<1>3. (\A j \in PayRows : f[j] \in Int /\ g[j] \in Int) /\ \A j \in PayRows : j # i => f[j] = g[j]
  BY <1>1, <1>2
<1>4. f[i] = Hand(p[i]) /\ g[i] = Hand(m)
  BY <1>2
<1>5. Hands(p) = SumFunctionOnSet(f, PayRows) /\ Hands(q) = SumFunctionOnSet(g, PayRows)
  BY DEF Hands
<1> HIDE DEF f, g
<1>6. SumFunctionOnSet(g, PayRows) = (SumFunctionOnSet(f, PayRows) - f[i]) + g[i]
  BY <1>3, ChargeAssumption, SumChanges
<1>. QED
  BY <1>1, <1>4, <1>5, <1>6 DEF q

(* With no row by hand open, what is due is not charged by hand.            *)
LEMMA DueIsLeft ==
  ASSUME ChargeTypeOK, ByHandOK, NoneOpen, Due > 0
  PROVE  Hands(payment) + Due <= Price
<1> DEFINE f == [i \in PaidRows |-> payment[i].base]
           g == [i \in PayRows |-> IF i \in PaidRows THEN f[i] ELSE 0]
           h == [i \in PayRows |-> Hand(payment[i])]
<1>1. PaidRows \in SUBSET PayRows /\ \A i \in PayRows : payment[i].base \in Nat
  BY DEF PaidRows, ChargeTypeOK, Money
<1>2. SumBase(PaidRows) = SumFunctionOnSet(g, PayRows)
  <2>1. \A i \in PaidRows : f[i] \in Int
    BY <1>1
  <2>2. SumFunctionOnSet(f, PaidRows) = SumFunctionOnSet(g, PayRows)
    <3> HIDE DEF f
    <3>. QED
      BY <1>1, <2>1, ChargeAssumption, SumPicked
  <2>. QED
    BY <2>2 DEF SumBase
<1>3. ASSUME NEW i \in PayRows PROVE h[i] \in Int /\ g[i] \in Int /\ h[i] <= g[i]
  <2>1. Manual(payment[i]) => i \in PaidRows
    BY DEF ByHandOK, NoneOpen, ManualOpen, OpenStatuses, PaidRows
  <2>2. h[i] = (IF Manual(payment[i]) THEN payment[i].base ELSE 0)
    BY DEF Hand
  <2>3. g[i] = (IF i \in PaidRows THEN payment[i].base ELSE 0)
    OBVIOUS
  <2>4. payment[i].base \in Nat
    BY <1>1
  <2> HIDE DEF g, h
  <2>. QED
    BY <2>1, <2>2, <2>3, <2>4
<1>4. Hands(payment) = SumFunctionOnSet(h, PayRows)
  BY DEF Hands
<1> HIDE DEF g, h
<1>5. SumFunctionOnSet(h, PayRows) <= SumFunctionOnSet(g, PayRows)
  BY <1>3, ChargeAssumption, SumAtMost
<1>6. SumBase(PaidRows) \in Nat /\ Hands(payment) \in Nat
  BY <1>1, SumBaseIsNat, HandsAreNat DEF ChargeTypeOK
<1>7. Due = Price - SumBase(PaidRows)
  BY DEF Due
<1>. QED
  BY <1>2, <1>4, <1>5, <1>6, <1>7, ChargeAssumption

(* A row written leaves no more charged by hand than it held, or its new    *)
(* amount.                                                                  *)
LEMMA WriteHands ==
  ASSUME ChargeTypeOK, ByHandOK, NEW i \in PayRows, NEW m \in Money, WriteMoney(i, m),
         Manual(m) => m.status \in {"Pending", "Deferred", "Paid"}
  PROVE  /\ ByHandOK' /\ payment'[i] = m /\ \A j \in PayRows : j # i => payment'[j] = payment[j]
         /\ Hands(payment) \in Nat /\ Hand(payment[i]) \in Nat /\ Hand(m) \in Nat
         /\ Hands(payment') = (Hands(payment) - Hand(payment[i])) + Hand(m)
<1>1. payment \in [PayRows -> Money] /\ payment' = [payment EXCEPT ![i] = m]
  BY DEF ChargeTypeOK, WriteMoney
<1>2. payment'[i] = m /\ \A j \in PayRows : j # i => payment'[j] = payment[j]
  BY <1>1
<1>3. ByHandOK'
  BY <1>2 DEF ByHandOK
<1>. QED
  BY <1>1, <1>2, <1>3, HandsChange, HandsAreNat

LEMMA TotalInit == ASSUME ChargeInit PROVE TotalInv
<1> DEFINE f == CHOOSE i \in PayRows : TRUE
           z == [i \in PayRows |-> NoMoney]
<1>1. PICK first \in FirstRows \cup {NoMoney} : payment = [z EXCEPT ![f] = first]
  BY DEF ChargeInit
<1>2. first \in Money /\ NoMoney \in Money /\ ~Manual(NoMoney) /\ z \in [PayRows -> Money]
  BY ChargeAssumption, ChargeParts DEF NoMoney, Manual
<1>3. Manual(first) => first.status = "Pending" /\ first.base <= Price
  BY <1>2, ChargeAssumption DEF Manual
<1>4. \A i \in PayRows : payment[i] \in {first, NoMoney}
  BY <1>1
<1>5. ByHandOK
  BY <1>2, <1>3, <1>4 DEF ByHandOK
<1>6. Hands(z) = 0
  <2>1. \A i \in PayRows : [j \in PayRows |-> Hand(z[j])][i] = 0
    BY <1>2 DEF Hand
  <2>. QED
    BY <2>1, ChargeAssumption, SumZero DEF Hands
<1>7. Hands(payment) <= Price
  <2>1. CASE f \in PayRows
    <3>1. Hands(payment) = (Hands(z) - Hand(z[f])) + Hand(first) /\ z[f] = NoMoney /\ Hand(first) \in Nat
      BY <1>1, <1>2, <2>1, HandsChange
    <3>2. Hand(z[f]) = 0 /\ (Hand(first) = 0 \/ Hand(first) <= Price)
      BY <1>2, <1>3, <3>1 DEF Hand
    <3>. QED
      BY <1>6, <3>1, <3>2, ChargeAssumption
  <2>2. CASE f \notin PayRows
    <3>1. payment = z
      BY <1>1, <2>2
    <3>. QED
      BY <1>6, <3>1, ChargeAssumption
  <2>. QED
    BY <2>1, <2>2
<1>8. \A c \in Clerks : clerk[c] = NoCall
  BY DEF ChargeInit
<1>. QED
  BY <1>5, <1>7, <1>8, KeptInit, ChargeTypeInit DEF TotalInv

LEMMA TotalMoves ==
  ASSUME OneClerk, TotalInv, KeptInv', ChargeTypeOK', NEW c \in Clerks, ClerkStep(c),
         ByHandOK', Hands(payment') <= Price, clerk'[c] # NoCall => SumsOK(clerk[c])'
  PROVE  TotalInv'
<1>1. \A d \in Clerks \ {c} : clerk'[d] = NoCall
  BY AloneOK DEF TotalInv
<1>. QED
  BY <1>1 DEF TotalInv

(* No row is written.                                                       *)
LEMMA TotalStays ==
  ASSUME TotalInv, UNCHANGED payment
  PROVE  ByHandOK' /\ Hands(payment') <= Price
  BY DEF TotalInv, ByHandOK

LEMMA BeginsTotal ==
  ASSUME TotalInv, NEW c \in Clerks, NEW op \in ChargeOps, NEW i \in PayRows,
         ChargeTurn(c, op, i) \/ TouchRead(c, op, i) \/ AskPreference(c, i)
  PROVE  UNCHANGED payment /\ SumsOK(clerk[c])'
<1>1. ASSUME NEW l, NEW o, NEW S, NEW due, Starts(c, l, o, i, S, due)
      PROVE  /\ UNCHANGED payment /\ clerk'[c].at = l /\ clerk'[c].op = o
             /\ clerk'[c].row = i /\ clerk'[c].copies = Copies(S) /\ clerk'[c].due = due
  BY <1>1 DEF Starts, TotalInv, ChargeTypeOK
<1>2. CASE ChargeTurn(c, op, i)
  <2>1. PICK l \in {"find", "rows"} : Starts(c, l, op, i, {}, Due)
    BY <1>2 DEF ChargeTurn
  <2>2. Due > 0
    BY <1>2 DEF ChargeTurn
  <2>3. UNCHANGED payment /\ clerk'[c].at = l /\ clerk'[c].due = Due
    BY <1>1, <2>1
  <2>4. NoneOpen => Hands(payment) + Due <= Price
    BY <2>2, DueIsLeft DEF TotalInv
  <2>5. NoneOpen' => NoneOpen
    BY <2>3 DEF NoneOpen
  <2>. QED
    BY <2>3, <2>4, <2>5 DEF SumsOK
<1>3. CASE TouchRead(c, op, i)
  <2>1. /\ UNCHANGED payment /\ clerk'[c].at = "one" /\ clerk'[c].row = i
        /\ clerk'[c].copies = Copies({i})
    BY <1>1, <1>3 DEF TouchRead
  <2>2. Copies({i})[i] = payment[i]
    BY DEF Copies
  <2>. QED
    BY <2>1, <2>2 DEF SumsOK
<1>4. CASE AskPreference(c, i)
  <2>1. UNCHANGED payment /\ clerk'[c].at = "link"
    BY <1>1, <1>4 DEF AskPreference
  <2>. QED
    BY <2>1 DEF SumsOK
<1>. QED
  BY <1>2, <1>3, <1>4

LEMMA ReadsTotal ==
  ASSUME TotalInv, NEW c \in Clerks, ReadRows(c) \/ SettledAll(c), clerk'[c] # NoCall
  PROVE  UNCHANGED payment /\ SumsOK(clerk[c])'
<1> DEFINE k == clerk[c]
<1>1. k # NoCall /\ k \in Clerk /\ SumsOK(k) /\ UNCHANGED payment
  BY ClerkTyped DEF ReadRows, SettledAll, ClerkAt, TotalInv
<1>2. CASE ReadRows(c)
  <2> DEFINE S == ToSettle(c)
             l == IF k.op = "deferred" /\ S = {} THEN "note" ELSE "settle"
             v == [k EXCEPT !.at = l, !.copies = Copies(S), !.todo = S]
  <2>1. clerk'[c] = v /\ k.at = "rows"
    BY <1>2 DEF ReadRows, ClerkAt, TotalInv, ChargeTypeOK
  <2>2. S \subseteq PayRows /\ \A i \in S : Copies(S)[i] = payment[i]
    BY DEF ToSettle, Copies
  <2>3. \A i \in PayRows : ManualOpen(payment[i]) => i \in S
    BY DEF ToSettle
  <2>4. l = "note" => k.op = "deferred" /\ S = {}
    OBVIOUS
  <2>5. l \in {"note", "settle"}
    OBVIOUS
  <2> HIDE DEF S, l
  <2>6. v.at = l /\ v.copies = Copies(S) /\ v.todo = S /\ v.due = k.due /\ v.op = k.op
    BY <1>1 DEF Clerk
  <2> HIDE DEF v
  <2>7. l = "note" => Hands(payment) + k.due <= Price
    BY <1>1, <2>1, <2>3, <2>4 DEF SumsOK, NoneOpen
  <2>8. CASE l = "note"
    BY <1>1, <2>1, <2>6, <2>7, <2>8 DEF SumsOK
  <2>9. CASE l = "settle"
    <3>1. /\ \A i \in v.todo : Manual(payment[i]) => v.copies[i].base = payment[i].base
          /\ \A i \in PayRows : ManualOpen(payment[i]) => i \in v.todo
      BY <2>2, <2>3, <2>6
    <3>. QED
      BY <1>1, <2>1, <2>6, <2>9, <3>1 DEF SumsOK
  <2>. QED
    BY <2>5, <2>8, <2>9
<1>3. CASE SettledAll(c)
  <2> DEFINE v == [k EXCEPT !.at = "rest", !.due = Due]
  <2>1. /\ k.at = "settle" /\ k.todo = {} /\ k.op = "paid" /\ Due > 0
        /\ clerk' = [clerk EXCEPT ![c] = v]
    BY <1>3 DEF SettledAll, ClerkAt, ClerkDone, Rest, TotalInv, ChargeTypeOK
  <2>2. clerk'[c] = v /\ v.at = "rest" /\ v.due = Due
    BY <1>1, <2>1 DEF Clerk, TotalInv, ChargeTypeOK
  <2>3. NoneOpen
    BY <1>1, <2>1 DEF SumsOK, NoneOpen
  <2> HIDE DEF v
  <2>4. Hands(payment) + Due <= Price
    BY <2>1, <2>3, DueIsLeft DEF TotalInv
  <2>. QED
    BY <1>1, <2>2, <2>4 DEF SumsOK
<1>. QED
  BY <1>2, <1>3

(* The calls that write a row.                                              *)
LEMMA MpWritesTotal ==
  ASSUME TotalInv, NEW i \in PayRows, NEW m \in Money, WriteMoney(i, m), ~Manual(m)
  PROVE  ByHandOK' /\ Hands(payment') <= Price
<1>1. /\ ByHandOK' /\ Hands(payment) \in Nat /\ Hand(payment[i]) \in Nat
      /\ Hands(payment') = (Hands(payment) - Hand(payment[i])) + Hand(m)
  BY WriteHands DEF TotalInv
<1>2. Hand(m) = 0 /\ Hands(payment) <= Price
  BY DEF Hand, TotalInv
<1>. QED
  BY <1>1, <1>2, ChargeAssumption

LEMMA SameWritesTotal ==
  ASSUME TotalInv, NEW i \in PayRows, NEW m \in Money, WriteMoney(i, m),
         Manual(m) <=> Manual(payment[i]), Manual(m) => m.base = payment[i].base,
         Manual(m) => m.status \in {"Pending", "Deferred", "Paid"}
  PROVE  ByHandOK' /\ Hands(payment') <= Price
<1>1. /\ ByHandOK' /\ Hands(payment) \in Nat /\ Hand(payment[i]) \in Nat
      /\ Hands(payment') = (Hands(payment) - Hand(payment[i])) + Hand(m)
  BY WriteHands DEF TotalInv
<1>2. Hand(m) = Hand(payment[i]) /\ Hands(payment) <= Price
  BY DEF Hand, TotalInv
<1>. QED
  BY <1>1, <1>2, ChargeAssumption

LEMMA SettleTotal ==
  ASSUME TotalInv, NEW c \in Clerks, NEW i \in PayRows, SettleRow(c, i)
  PROVE  ByHandOK' /\ Hands(payment') <= Price /\ SumsOK(clerk[c])'
<1> DEFINE k == clerk[c]
           m == SettledAs(k.op, k.copies[i])
           v == [k EXCEPT !.todo = k.todo \ {i}]
<1>1. /\ k # NoCall /\ k.at = "settle" /\ i \in k.todo /\ WriteMoney(i, m)
      /\ clerk' = [clerk EXCEPT ![c] = v]
  BY DEF SettleRow, ClerkAt
<1>2. k \in Clerk /\ k.copies[i] \in Money /\ k.todo \subseteq PayRows /\ SumsOK(k) /\ Steady(k)
  BY <1>1, ClerkTyped DEF TotalInv, KeptInv
<1>3. /\ payment[i].method = k.copies[i].method
      /\ Manual(payment[i]) => k.copies[i].base = payment[i].base
  BY <1>1, <1>2 DEF Steady, SumsOK
<1>4. m \in Money
  <2>1. \A s \in {"Deferred", "Paid", "Failed"} : s \in PaymentStatuses
    BY DEF PaymentStatuses
  <2>. QED
    BY <1>2, <2>1, ChargeParts DEF SettledAs
<1>5. m.method = k.copies[i].method /\ m.base = k.copies[i].base
  BY <1>2 DEF SettledAs, Money
<1>6. Manual(k.copies[i]) => m.status = IF k.op = "deferred" THEN "Deferred" ELSE "Paid"
  BY <1>2 DEF SettledAs, Money
<1> HIDE DEF m
<1>7. /\ Manual(m) <=> Manual(payment[i])
      /\ Manual(m) => m.base = payment[i].base
      /\ Manual(m) => m.status \in {"Pending", "Deferred", "Paid"}
  BY <1>3, <1>5, <1>6 DEF Manual
<1>8. ByHandOK' /\ Hands(payment') <= Price
  BY <1>1, <1>4, <1>7, SameWritesTotal
<1>9. payment'[i] = m /\ \A j \in PayRows : j # i => payment'[j] = payment[j]
  BY <1>1, <1>4, <1>7, WriteHands DEF TotalInv
<1>10. /\ clerk'[c] = v /\ v.at = "settle" /\ v.todo = k.todo \ {i} /\ v.copies = k.copies
       /\ v.op = k.op
  BY <1>1, <1>2 DEF Clerk, TotalInv, ChargeTypeOK
<1> HIDE DEF v
<1>11. \A j \in v.todo : Manual(payment'[j]) => v.copies[j].base = payment'[j].base
  BY <1>1, <1>2, <1>9, <1>10 DEF SumsOK
<1>12. v.op = "paid" => \A j \in PayRows : ManualOpen(payment'[j]) => j \in v.todo
  <2> SUFFICES ASSUME k.op = "paid", NEW j \in PayRows, ManualOpen(payment'[j])
               PROVE  j \in k.todo \ {i}
    BY <1>10
  <2>1. j # i
    BY <1>5, <1>6, <1>9 DEF ManualOpen, OpenStatuses, Manual
  <2>. QED
    BY <1>1, <1>2, <1>9, <2>1 DEF SumsOK
<1>13. SumsOK(clerk[c])'
  BY <1>10, <1>11, <1>12 DEF SumsOK
<1>. QED
  BY <1>8, <1>13

LEMMA EndsTotal ==
  ASSUME TotalInv, NEW c \in Clerks, TouchSave(c) \/ \E i \in PayRows : NewRow(c, i)
  PROVE  ByHandOK' /\ Hands(payment') <= Price
<1> DEFINE k == clerk[c]
<1>1. k # NoCall /\ k \in Clerk /\ SumsOK(k) /\ Steady(k) /\ CopyOK(k) /\ k.row \in PayRows
      /\ k.due \in Nat /\ \A i \in PayRows : k.copies[i] \in Money
  BY ClerkTyped DEF TouchSave, NewRow, ClerkAt, TotalInv, KeptInv, PaidInv
<1>2. CASE TouchSave(c)
  <2> DEFINE s == TouchedAs(k.op)
             m == [k.copies[k.row] EXCEPT !.status = s]
  <2>1. k.at = "one" /\ WriteMoney(k.row, m)
    BY <1>2 DEF TouchSave, ClerkAt
  <2>2. s \in {"Pending", "Deferred", "Paid"} /\ s \in PaymentStatuses
    BY DEF TouchedAs, PaymentStatuses
  <2>3. /\ payment[k.row].method = "manual" /\ k.copies[k.row].method = "manual"
        /\ k.copies[k.row].base = payment[k.row].base
    BY <1>1, <2>1 DEF SumsOK, Steady, CopyOK
  <2> HIDE DEF s
  <2>4. m \in Money /\ m.status = s /\ m.method = "manual" /\ m.base = payment[k.row].base
    BY <1>1, <2>2, <2>3, ChargeParts DEF Money
  <2> HIDE DEF m
  <2>. QED
    BY <1>1, <2>1, <2>2, <2>3, <2>4, SameWritesTotal DEF Manual
<1>3. ASSUME NEW i \in PayRows, NewRow(c, i) PROVE ByHandOK' /\ Hands(payment') <= Price
  <2> DEFINE s == IF k.at = "rest" THEN "Paid" ELSE "Deferred"
             m == [method |-> "manual", base |-> k.due, vat |-> 0, status |-> s]
  <2>1. k.at \in {"rest", "note"} /\ WriteMoney(i, m)
    BY <1>3 DEF NewRow
  <2>2. s \in {"Pending", "Deferred", "Paid"} /\ s \in PaymentStatuses
    BY DEF PaymentStatuses
  <2> HIDE DEF s
  <2>3. m \in Money /\ m.status = s /\ m.base = k.due /\ Manual(m)
    BY <1>1, <2>2 DEF Money, Manual
  <2> HIDE DEF m
  <2>4. /\ ByHandOK' /\ Hands(payment) \in Nat /\ Hand(payment[i]) \in Nat
        /\ Hands(payment') = (Hands(payment) - Hand(payment[i])) + Hand(m)
    BY <2>1, <2>2, <2>3, WriteHands DEF TotalInv
  <2>5. Hand(m) = k.due /\ Hands(payment) + k.due <= Price
    BY <1>1, <2>1, <2>3 DEF Hand, SumsOK
  <2>. QED
    BY <1>1, <2>4, <2>5, ChargeAssumption
<1>. QED
  BY <1>2, <1>3

LEMMA ClerkTotal ==
  ASSUME OneClerk, TotalInv, KeptInv', ChargeTypeOK', NEW c \in Clerks, ClerkStep(c)
  PROVE  TotalInv'
<1> DEFINE k == clerk[c]
<1>1. ASSUME k # NoCall
      PROVE  /\ k \in Clerk /\ k.row \in PayRows /\ CopyOK(k)
             /\ \A i \in PayRows : k.copies[i] \in Money
  BY <1>1, ClerkTyped DEF TotalInv, KeptInv, PaidInv
<1>2. ASSUME NEW op \in ChargeOps, NEW i \in PayRows,
             ChargeTurn(c, op, i) \/ TouchRead(c, op, i) \/ AskPreference(c, i)
      PROVE  TotalInv'
  BY <1>2, BeginsTotal, TotalStays, TotalMoves
<1>3. CASE ReadRows(c) \/ SettledAll(c)
  <2>1. UNCHANGED payment
    BY <1>3 DEF ReadRows, SettledAll
  <2>. QED
    BY <1>3, <2>1, ReadsTotal, TotalStays, TotalMoves
<1>4. ASSUME NEW i \in PayRows, QrFind(c, i) PROVE TotalInv'
  <2>1. k # NoCall /\ UNCHANGED payment /\ clerk'[c].at = "save"
    BY <1>1, <1>4 DEF QrFind, ClerkAt, TotalInv, ChargeTypeOK, Clerk
  <2>2. SumsOK(clerk[c])'
    BY <2>1 DEF SumsOK
  <2>. QED
    BY <2>1, <2>2, TotalStays, TotalMoves
<1>5. CASE PreferenceRead(c)
  <2>1. k # NoCall /\ UNCHANGED payment
    BY <1>5 DEF PreferenceRead, ClerkAt
  <2>2. clerk'[c] # NoCall => clerk'[c].at = "link"
    BY <1>1, <1>5, <2>1 DEF PreferenceRead, ClerkDone, TotalInv, ChargeTypeOK, Clerk
  <2>3. clerk'[c] # NoCall => SumsOK(clerk[c])'
    BY <2>2 DEF SumsOK
  <2>. QED
    BY <2>1, <2>3, TotalStays, TotalMoves
<1>6. CASE QrSave(c)
  <2>1. k # NoCall /\ k.at = "save" /\ WriteMoney(k.row, k.copies[k.row]) /\ clerk'[c].at = "read"
    BY <1>1, <1>6 DEF QrSave, ClerkAt, TotalInv, ChargeTypeOK, Clerk
  <2>2. ~Manual(k.copies[k.row])
    BY <1>1, <2>1 DEF CopyOK, Manual
  <2>3. ByHandOK' /\ Hands(payment') <= Price
    BY <1>1, <2>1, <2>2, MpWritesTotal
  <2>4. SumsOK(clerk[c])'
    BY <2>1 DEF SumsOK
  <2>. QED
    BY <2>3, <2>4, TotalMoves
<1>7. CASE PreferenceLink(c)
  <2> DEFINE m == [k.copies[k.row] EXCEPT !.method = "mp"]
  <2>1. k # NoCall /\ WriteMoney(k.row, m) /\ clerk'[c] = NoCall
    BY <1>7 DEF PreferenceLink, ClerkAt, ClerkDone, TotalInv, ChargeTypeOK
  <2>2. m \in Money /\ ~Manual(m)
    BY <1>1, <2>1 DEF Money, Manual
  <2> HIDE DEF m
  <2>3. ByHandOK' /\ Hands(payment') <= Price
    BY <1>1, <2>1, <2>2, MpWritesTotal
  <2>. QED
    BY <2>1, <2>3, TotalMoves
<1>8. ASSUME NEW i \in PayRows, SettleRow(c, i) PROVE TotalInv'
  BY <1>8, SettleTotal, TotalMoves
<1>9. CASE TouchSave(c) \/ \E i \in PayRows : NewRow(c, i)
  <2>1. clerk'[c] = NoCall
    BY <1>9 DEF TouchSave, NewRow, ClerkDone, TotalInv, ChargeTypeOK
  <2>. QED
    BY <1>9, <2>1, EndsTotal, TotalMoves
<1>10. CASE ClerkBreaks(c)
  <2>1. clerk'[c] = NoCall /\ UNCHANGED payment
    BY <1>10 DEF ClerkBreaks, ClerkDone, TotalInv, ChargeTypeOK
  <2>. QED
    BY <2>1, TotalStays, TotalMoves
<1>. QED
  BY <1>2, <1>3, <1>4, <1>5, <1>6, <1>7, <1>8, <1>9, <1>10, "qr" \in ChargeOps DEF ClerkStep, ChargeOps

LEMMA HookTotal ==
  ASSUME TotalInv, KeptInv', ChargeTypeOK', NEW h \in PayHooks, PayHookSave(h)
  PROVE  TotalInv'
<1> DEFINE j == payHook[h]
           m == [j.copy EXCEPT !.status = NotifiedAs(j)]
<1>1. j # NoCall /\ WriteMoney(j.row, m) /\ UNCHANGED clerk
  BY DEF PayHookSave
<1>2. j \in PayHook /\ payment[j.row].method = "mp" /\ j.copy.method = "mp"
  BY <1>1 DEF TotalInv, ChargeTypeOK, KeptInv, OnMp
<1>3. NotifiedAs(j) \in PaymentStatuses
  BY DEF NotifiedAs, PaymentStatuses
<1>4. j.row \in PayRows /\ m \in Money /\ ~Manual(m) /\ ~Manual(payment[j.row])
  BY <1>2, <1>3, ChargeParts DEF PayHook, Money, Manual
<1> HIDE DEF m
<1>5. ByHandOK' /\ Hands(payment') <= Price
  BY <1>1, <1>4, MpWritesTotal
<1>6. payment'[j.row] = m /\ \A i \in PayRows : i # j.row => payment'[i] = payment[i]
  BY <1>1, <1>4, WriteHands DEF TotalInv
<1>7. Hands(payment') = Hands(payment)
  <2>1. /\ Hands(payment) \in Nat
        /\ Hands(payment') = (Hands(payment) - Hand(payment[j.row])) + Hand(m)
    BY <1>1, <1>4, WriteHands DEF TotalInv
  <2>2. Hand(payment[j.row]) = 0 /\ Hand(m) = 0
    BY <1>4 DEF Hand
  <2>. QED
    BY <2>1, <2>2
<1>8. \A i \in PayRows : /\ Manual(payment'[i]) <=> Manual(payment[i])
                         /\ ManualOpen(payment'[i]) <=> ManualOpen(payment[i])
                         /\ Manual(payment[i]) => payment'[i] = payment[i]
  BY <1>4, <1>6 DEF ManualOpen
<1>9. ASSUME NEW c \in Clerks, clerk'[c] # NoCall PROVE SumsOK(clerk[c])'
  <2> DEFINE k == clerk[c]
  <2>1. /\ k # NoCall /\ clerk'[c] = k /\ SumsOK(k) /\ Steady(k)
        /\ k.row \in PayRows /\ k.todo \subseteq PayRows
    BY <1>1, <1>9, ClerkTyped DEF TotalInv, KeptInv
  <2>2. k.at = "settle" => \A i \in k.todo : Manual(payment'[i]) => k.copies[i].base = payment'[i].base
    BY <1>8, <2>1 DEF SumsOK
  <2>3. k.at = "settle" /\ k.op = "paid" => \A i \in PayRows : ManualOpen(payment'[i]) => i \in k.todo
    BY <1>8, <2>1 DEF SumsOK
  <2>4. k.at = "one" => k.copies[k.row].base = payment'[k.row].base
    BY <1>8, <2>1 DEF SumsOK, Steady, Manual
  <2>5. NoneOpen' => NoneOpen
    BY <1>8 DEF NoneOpen
  <2>. QED
    BY <1>7, <2>1, <2>2, <2>3, <2>4, <2>5 DEF SumsOK
<1>. QED
  BY <1>5, <1>9 DEF TotalInv

LEMMA TotalStep == ASSUME OneClerk, TotalInv, [ChargeNext]_chargeVars PROVE TotalInv'
<1>1. KeptInv' /\ ChargeTypeOK'
  BY KeptStep, ChargeTypeStep DEF TotalInv
<1>2. CASE UNCHANGED <<payment, clerk>>
  BY <1>1, <1>2 DEF TotalInv, ByHandOK, SumsOK, NoneOpen
<1>3. ASSUME NEW c \in Clerks, ClerkStep(c) PROVE TotalInv'
  BY <1>1, <1>3, ClerkTotal
<1>4. ASSUME NEW h \in PayHooks, PayHookSave(h) PROVE TotalInv'
  BY <1>1, <1>4, HookTotal
<1>5. CASE \/ \E x \in checkouts, ok \in BOOLEAN : PayCheckout(x, ok)
           \/ \E h \in PayHooks, a \in attempts : PayHookRead(h, a)
           \/ UNCHANGED chargeVars
  BY <1>2, <1>5 DEF PayCheckout, PayHookRead, chargeVars
<1>. QED
  BY <1>3, <1>4, <1>5 DEF ChargeNext

(* Every variable of the counter holds a value of its kind, amounts of any  *)
(* size included.                                                           *)
THEOREM ChargeTypeCorrect == ChargeSpec => []ChargeTypeOK
<1>1. ChargeInit => ChargeTypeOK
  BY ChargeTypeInit
<1>2. ChargeTypeOK /\ [ChargeNext]_chargeVars => ChargeTypeOK'
  BY ChargeTypeStep
<1>. QED
  BY <1>1, <1>2, PTL DEF ChargeSpec

(* ChargeService: where the panel makes one call on the turn at a time,     *)
(* what is charged by hand, collected or owed, never exceeds the price,     *)
(* whatever is marked, undone, cut short or paid by QR meanwhile.           *)
THEOREM ManualWithinPriceHolds ==
  ASSUME OneClerk
  PROVE  ChargeSpec => []ManualWithinPrice
<1>1. ChargeInit => TotalInv
  BY TotalInit
<1>2. TotalInv /\ [ChargeNext]_chargeVars => TotalInv'
  BY TotalStep
<1>3. TotalInv => ManualWithinPrice
  BY HandsAre DEF TotalInv, ManualWithinPrice
<1>. QED
  BY <1>1, <1>2, <1>3, PTL DEF ChargeSpec
=============================================================================
