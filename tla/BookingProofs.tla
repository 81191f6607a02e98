---------------------------- MODULE BookingProofs ----------------------------
(* Theorems about Booking, for any requests, hooks, edits, services,        *)
(* capacities and scenarios: types, then what the agenda promises, then     *)
(* that paid places are never oversold.                                     *)
EXTENDS Booking, FiniteSetTheorems, TLAPS
-----------------------------------------------------------------------------
(* Facts about rows and dtos.                                               *)

LEMMA AskType ==
  ASSUME NEW r \in Requests, ask \in [Requests -> Ask]
  PROVE  /\ ask[r] \in Ask
         /\ Service(r) \in Services
         /\ From(r) \in Nat /\ To(r) \in Nat /\ From(r) < To(r)
         /\ IsProvisional(r) \in BOOLEAN
         /\ Fresh(r) \in Row
<1>1. /\ ask[r] \in Ask /\ ask[r].service \in Services /\ ask[r].start \in Nat
      /\ ask[r].extra \in Nat /\ ask[r].provisional \in BOOLEAN
  BY DEF Ask
<1>2. Duration[ask[r].service] \in Nat \ {0}
  BY <1>1, BookingAssumption
<1>3. From(r) \in Nat /\ To(r) \in Nat /\ From(r) < To(r)
  BY <1>1, <1>2 DEF From, To
<1>4. Fresh(r) \in Row
  BY <1>3 DEF Fresh, Row, ActiveStatuses
<1>5. QED
  BY <1>1, <1>3, <1>4 DEF Service, IsProvisional

LEMMA NoRowsType ==
  NoRow \in Row /\ NoRows \in [Requests -> Row] /\ NoPayment \in Payment
BY DEF NoRow, NoRows, NoPayment, Payment, Row, ActiveStatuses

LEMMA BumpedType == ASSUME NEW row \in Row PROVE Bumped(row) \in Row
BY DEF Row, Bumped, TerminalStatuses

LEMMA OverlappingType ==
  ASSUME appt \in [Requests -> Row], NEW a, NEW b
  PROVE  Overlapping(a, b) \in [Requests -> Row]
BY NoRowsType DEF Overlapping

LEMMA WithBumpedType ==
  ASSUME TypeOK, NEW p \in Procs, NEW B
  PROVE  WithBumped(p, B) \in [Requests -> Row]
BY BumpedType DEF WithBumped, TypeOK
-----------------------------------------------------------------------------
(* TypeOK alone is not inductive: HookSave reads job[w], so a hook that is   *)
(* not idle must have a notification.                                       *)
HookHasJob == \A w \in Hooks : pc[w] # Idle => job[w] \in Job
TypeInv == TypeOK /\ HookHasJob

(* Every step of every handler keeps the variables in their types.          *)

LEMMA InitType == Init => TypeOK
<1> SUFFICES ASSUME Init PROVE TypeOK
  OBVIOUS
<1>1. ask \in [Requests -> Ask]
  BY BookingAssumption DEF Init
<1>2. seen \in [Procs -> [Requests -> Row]] /\ appt \in [Requests -> Row]
  BY NoRowsType DEF Init
<1>3. pay \in [Requests -> Payment]
  BY NoRowsType DEF Init
<1>4. QED
  BY <1>1, <1>2, <1>3 DEF Init, TypeOK, Idle

LEMMA RequestType ==
  ASSUME TypeOK, NEW r \in Requests, RequestStep(r)
  PROVE  TypeOK'
<1> USE NoRowsType, AskType, OverlappingType, WithBumpedType
    DEF TypeOK, Procs, Goto, Forget, Snapshot, Acquire, Release, envVars, Idle
<1>1. CASE BookReadTurns(r)  BY <1>1 DEF BookReadTurns
<1>2. CASE BookReadHolds(r)
  <2>1. PICK l \in {"rejected", "save"} : pc' = [pc EXCEPT ![r] = l]
    BY <1>2 DEF BookReadHolds
  <2>2. QED
    BY <1>2, <2>1 DEF BookReadHolds
<1>3. CASE BookSave(r)       BY <1>3 DEF BookSave
<1>4. CASE DepositLock(r)    BY <1>4 DEF DepositLock
<1>5. CASE DepositReject(r)  BY <1>5 DEF DepositReject
<1>6. CASE DepositGrant(r)
  <2>1. PICK B \in SUBSET Requests : /\ bump' = [bump EXCEPT ![r] = B]
                                     /\ told' = told \cup B
    BY <1>6 DEF DepositGrant, Surplus, ProvSeen, Conflicts
  <2>2. QED
    BY <1>6, <2>1 DEF DepositGrant
<1>7. CASE CashCommit(r)     BY <1>7 DEF CashCommit, Payment
<1>8. CASE MpCommit(r)       BY <1>8 DEF MpCommit, Payment
<1>9. CASE PreferenceOk(r)   BY <1>9 DEF PreferenceOk
<1>10. CASE PreferenceFails(r) BY <1>10 DEF PreferenceFails
<1>11. CASE UndoPayment(r)   BY <1>11 DEF UndoPayment
<1>12. QED
  BY <1>1, <1>2, <1>3, <1>4, <1>5, <1>6, <1>7, <1>8, <1>9, <1>10, <1>11
  DEF RequestStep

LEMMA HookType ==
  ASSUME TypeInv, NEW w \in Hooks, HookStep(w)
  PROVE  TypeOK'
<1> USE NoRowsType, OverlappingType, WithBumpedType
    DEF TypeInv, TypeOK, Procs, Goto, Forget, Snapshot, Answer, envVars, Idle
<1>1. job[w] \in Job /\ job[w].req \in Requests /\ job[w].outcome \in Outcomes
  BY DEF HookHasJob, Job, HookStep, HookSave, HookLinked, HookRelease, HookLock,
         HookDisplace, HookCommit
<1>2. CASE HookSave(w)
  <2>1. Saved(job[w]) \in Payment
    BY <1>1 DEF Saved, Job, Payment
  <2>2. QED
    BY <1>1, <1>2, <2>1 DEF HookSave
<1>3. CASE HookLinked(w)  BY <1>1, <1>3 DEF HookLinked
<1>4. CASE HookRelease(w) BY <1>1, <1>4 DEF HookRelease
<1>5. CASE HookLock(w)
  <2>1. CASE NothingToConfirm(job[w].req)
    <3>1. acked' \in [Requests -> SUBSET Outcomes]
      <4>1. acked[job[w].req] \cup {job[w].outcome} \in SUBSET Outcomes
        BY <1>1
      <4>2. acked' = [acked EXCEPT ![job[w].req] = @ \cup {job[w].outcome}]
        BY <1>5, <2>1 DEF HookLock
      <4>3. QED
        BY <1>1, <4>1, <4>2
    <3>2. job' \in [Hooks -> Job \cup {None}]
      BY <1>5, <2>1 DEF HookLock
    <3>3. /\ pc' = [pc EXCEPT ![w] = Idle]
          /\ seen' = [seen EXCEPT ![w] = NoRows] /\ bump' = [bump EXCEPT ![w] = {}]
          /\ UNCHANGED <<ask, appt, hold, pay, lock, ed, mp, failures, told, late>>
      BY <1>5, <2>1 DEF HookLock
    <3>4. QED
      BY <3>1, <3>2, <3>3
  <2>2. CASE ~NothingToConfirm(job[w].req)
    BY <1>1, <1>5, <2>2 DEF HookLock
  <2>3. QED
    BY <2>1, <2>2
<1>6. CASE HookDisplace(w) BY <1>1, <1>6 DEF HookDisplace, Displaced
<1>7. CASE HookCommit(w)
  <2>1. Fresh(job[w].req) \in Row
    BY <1>1, AskType
  <2>2. pay' \in [Requests -> Payment]
    BY <1>1, <1>7 DEF HookCommit, Payment
  <2>3. appt' \in [Requests -> Row]
    BY <1>1, <1>7, <2>1 DEF HookCommit
  <2>4. late' \subseteq Requests
    BY <1>1, <1>7 DEF HookCommit
  <2>5. QED
    BY <1>1, <1>7, <2>2, <2>3, <2>4 DEF HookCommit, Release
<1>8. QED
  BY <1>2, <1>3, <1>4, <1>5, <1>6, <1>7 DEF HookStep

LEMMA EditType ==
  ASSUME TypeOK, NEW e \in Edits, EditStep(e)
  PROVE  TypeOK'
<1> USE DEF TypeOK, editFrame, EditAt, EditGoes, EditEnds, WriteRow
<1>1. ed[e] # None => /\ ed[e] \in Edit /\ ed[e].req \in Requests /\ ed[e].row \in Row
                      /\ ed[e].op \in OpNames
  BY DEF Edit
<1>2. CASE \E op \in EditOps, q \in Requests : EditRead(e, op, q)
  <2>1. PICK op \in EditOps, q \in Requests : EditRead(e, op, q)
    BY <1>2
  <2>2. [at |-> "read", op |-> op, req |-> q, row |-> appt[q]] \in Edit
    BY BookingAssumption DEF Edit
  <2>3. QED
    BY <2>1, <2>2 DEF EditRead, reqVars
<1>3. CASE EditClose(e)
  <2>1. PICK row \in Row : appt' = [appt EXCEPT ![ed[e].req] = row]
    BY <1>1, <1>3 DEF EditClose, Row, ActiveStatuses, TerminalStatuses
  <2>2. QED
    BY <1>1, <1>3, <2>1 DEF EditClose
<1>4. CASE EditComplete(e)
  <2>1. ed' \in [Edits -> Edit \cup {None}]
    BY <1>1, <1>4 DEF EditComplete, Edit
  <2>2. PICK row \in Row : appt' = [appt EXCEPT ![ed[e].req] = row]
    BY <1>1, <1>4 DEF EditComplete, Row, TerminalStatuses
  <2>3. QED
    BY <1>1, <1>4, <2>1, <2>2 DEF EditComplete
<1>5. CASE EditCash(e)
  <2> DEFINE q == ed[e].req
  <2>1. /\ UNCHANGED <<editFrame, appt>> /\ ed' = [ed EXCEPT ![e] = None]
        /\ \/ \E s \in {"Paid", "Deferred"} : pay' = [pay EXCEPT ![q].status = s]
           \/ pay' = pay
    BY <1>5 DEF EditCash
  <2>2. q \in Requests /\ pay[q] \in Payment
    BY <1>1, <1>5 DEF EditCash
  <2>3. \A s \in {"Paid", "Deferred"} : [pay[q] EXCEPT !.status = s] \in Payment
    BY <2>2 DEF Payment
  <2>4. pay' \in [Requests -> Payment]
    BY <2>1, <2>2, <2>3
  <2>5. QED
    BY <2>1, <2>4
<1>6. CASE EditArrive(e)
  <2>1. [ed[e] EXCEPT !.at = "arrived"] \in Edit
    BY <1>1, <1>6 DEF EditArrive, Edit
  <2>2. [ed[e].row EXCEPT !.arrived = TRUE] \in Row
    BY <1>1, <1>6 DEF EditArrive, Row
  <2>3. appt' \in [Requests -> Row]
    BY <1>1, <1>6, <2>2 DEF EditArrive
  <2>4. QED
    BY <1>1, <1>6, <2>1, <2>3 DEF EditArrive
<1>7. CASE EditReread(e)
  <2>1. [ed[e] EXCEPT !.at = "reread", !.row = appt[ed[e].req]] \in Edit
    BY <1>1, <1>7 DEF EditReread, Edit
  <2>2. ed' = [ed EXCEPT ![e] = [ed[e] EXCEPT !.at = "reread", !.row = appt[ed[e].req]]]
    BY <1>7 DEF EditReread
  <2>3. QED
    BY <1>7, <2>1, <2>2 DEF EditReread
<1>8. CASE EditStart(e)
  <2>1. [ed[e].row EXCEPT !.status = "InProgress"] \in Row
    BY <1>1, <1>8 DEF EditStart, Row, ActiveStatuses
  <2>2. QED
    BY <1>1, <1>8, <2>1 DEF EditStart
<1>9. CASE \E t \in Starts : EditCheckPlace(e, t)
  <2>1. PICK t \in Starts : EditCheckPlace(e, t)
    BY <1>9
  <2> DEFINE u == t + Duration[Service(ed[e].req)]
  <2>2. ed[e] \in Edit /\ ed[e].req \in Requests
    BY <1>1, <2>1 DEF EditCheckPlace
  <2>3. t \in Nat /\ u \in Nat
    BY <2>2, AskType, BookingAssumption
  <2>4. ed' = [ed EXCEPT ![e] = [ed[e] EXCEPT !.at = "clear", !.row = Moved(ed[e].row, t, u)]]
    BY <2>1 DEF EditCheckPlace
  <2> HIDE DEF u
  <2>5. [ed[e] EXCEPT !.at = "clear", !.row = Moved(ed[e].row, t, u)] \in Edit
    <3>1. Moved(ed[e].row, t, u) \in Row
      BY <1>1, <2>1, <2>3 DEF Moved, Row, EditCheckPlace
    <3>2. QED
      BY <2>2, <3>1 DEF Edit
  <2>6. UNCHANGED <<editFrame, appt, pay>>
    BY <2>1 DEF EditCheckPlace
  <2>7. ed' \in [Edits -> Edit \cup {None}]
    BY <2>4, <2>5
  <2>8. QED
    BY <2>6, <2>7
<1>10. CASE EditMove(e)    BY <1>1, <1>10 DEF EditMove
<1>11. QED
  BY <1>2, <1>3, <1>4, <1>5, <1>6, <1>7, <1>8, <1>9, <1>10 DEF EditStep

LEMMA EnvironmentType ==
  ASSUME TypeOK, Environment
  PROVE  TypeOK'
<1> USE DEF TypeOK, Procs, Goto, envVars, reqVars, Idle
<1>1. MaxFailures \in Nat
  BY BookingAssumption
<1>2. CASE \E r \in Requests, o \in Outcomes : PayerPays(r, o)
  <2>1. PICK r \in Requests, o \in Outcomes : PayerPays(r, o)
    BY <1>2
  <2>2. mp' \in [Requests -> SUBSET Outcomes]
    <3>1. mp[r] \cup {o} \in SUBSET Outcomes
      BY <1>1
    <3>2. QED
      BY <2>1, <3>1 DEF PayerPays
  <2>3. QED
    BY <2>1, <2>2 DEF PayerPays
<1>3. CASE \E w \in Hooks, r \in Requests, o \in Outcomes : HookRead(w, r, o)
  <2>1. PICK w \in Hooks, r \in Requests, o \in Outcomes : HookRead(w, r, o)
    BY <1>3
  <2>2. CASE pay[r].status = "Paid"
    <3>1. acked[r] \cup {o} \in SUBSET Outcomes
      BY <1>1
    <3>2. acked' \in [Requests -> SUBSET Outcomes]
      BY <2>1, <2>2, <3>1 DEF HookRead
    <3>3. QED
      BY <2>1, <2>2, <3>2 DEF HookRead
  <2>3. CASE pay[r].status # "Paid"
    <3>1. [req |-> r, outcome |-> o, row |-> pay[r]] \in Job
      BY <1>1 DEF Job
    <3>2. job' = [job EXCEPT ![w] = [req |-> r, outcome |-> o, row |-> pay[r]]]
      BY <2>1, <2>3 DEF HookRead
    <3>3. job' \in [Hooks -> Job \cup {None}]
      BY <3>1, <3>2
    <3>4. /\ pc' = [pc EXCEPT ![w] = "read"]
          /\ UNCHANGED <<acked, ask, appt, hold, pay, lock, seen, bump, ed, mp, failures, told, late>>
      BY <2>1, <2>3 DEF HookRead
    <3>5. QED
      BY <3>3, <3>4
  <2>4. QED
    BY <2>2, <2>3
<1>4. CASE \E r \in Requests : HoldExpires(r) \/ HoldAges(r)
  BY <1>4 DEF HoldExpires, HoldAges
<1>5. CASE PurgeExpiredHolds
  BY <1>5 DEF PurgeExpiredHolds
<1>6. CASE \E p \in Procs : Fails(p)
  <2>1. PICK p \in Procs : Fails(p)
    BY <1>6
  <2>2. PICK l \in {Idle, "failed"} : pc' = [pc EXCEPT ![p] = l]
    BY <2>1 DEF Fails
  <2>3. job' \in [Hooks -> Job \cup {None}] /\ lock' \in Procs \cup {None}
    BY <2>1 DEF Fails
  <2>4. QED
    BY NoRowsType, <2>1, <2>2, <2>3 DEF Fails, Forget
<1>7. QED
  BY <1>2, <1>3, <1>4, <1>5, <1>6 DEF Environment

(* What each kind of step leaves alone, and where it may move a process.    *)
LEMMA RequestFrame ==
  ASSUME TypeOK, NEW r \in Requests, RequestStep(r)
  PROVE  /\ UNCHANGED <<ask, envVars, late>>
         /\ \A p \in Procs \ {r} : pc'[p] = pc[p]
BY DEF TypeOK, RequestStep, BookReadTurns, BookReadHolds, BookSave, DepositLock, DepositReject,
       DepositGrant, CashCommit, MpCommit, PreferenceOk, PreferenceFails, UndoPayment, Goto,
       envVars

LEMMA EditFrame ==
  ASSUME NEW e \in Edits, EditStep(e)
  PROVE  UNCHANGED editFrame
BY DEF EditStep, EditRead, EditClose, EditComplete, EditCash, EditArrive, EditReread,
       EditStart, EditCheckPlace, EditMove, editFrame, reqVars

LEMMA HookJobKept ==
  ASSUME TypeInv, [Next]_vars
  PROVE  HookHasJob'
<1> USE DEF TypeInv, HookHasJob
<1> SUFFICES ASSUME NEW v \in Hooks, pc'[v] # Idle
             PROVE  job'[v] \in Job
  OBVIOUS
<1>0. v \notin Requests /\ v \in Procs
  BY BookingAssumption DEF Procs
<1>1. CASE \E r \in Requests : RequestStep(r)
  BY <1>0, <1>1, RequestFrame DEF envVars
<1>2. CASE \E w \in Hooks : HookStep(w)
  <2>1. PICK w \in Hooks : HookStep(w)
    BY <1>2
  <2>2. \/ UNCHANGED job /\ pc[w] # Idle
        \/ job' = [job EXCEPT ![w] = None] /\ pc' = [pc EXCEPT ![w] = Idle]
    BY <2>1 DEF HookStep, HookSave, HookLinked, HookRelease, HookLock, HookDisplace,
                HookCommit, Answer, Goto, envVars, Idle
  <2>3. \A p \in Procs \ {w} : pc'[p] = pc[p]
    BY <2>1 DEF TypeOK, HookStep, HookSave, HookLinked, HookRelease, HookLock, HookDisplace,
                HookCommit, Answer, Goto
  <2>4. QED
    BY <1>0, <2>1, <2>2, <2>3 DEF TypeOK
<1>3. CASE \E e \in Edits : EditStep(e)
  BY <1>3, EditFrame DEF editFrame
<1>4. CASE \E r \in Requests, o \in Outcomes : PayerPays(r, o)
  BY <1>4 DEF PayerPays, reqVars
<1>5. CASE \E w \in Hooks, r \in Requests, o \in Outcomes : HookRead(w, r, o)
  <2>1. PICK w \in Hooks, r \in Requests, o \in Outcomes : HookRead(w, r, o)
    BY <1>5
  <2>2. [req |-> r, outcome |-> o, row |-> pay[r]] \in Job
    BY BookingAssumption DEF Job, TypeOK
  <2>3. QED
    BY <1>0, <2>1, <2>2 DEF HookRead, Goto, TypeOK
<1>6. CASE \E r \in Requests : HoldExpires(r) \/ HoldAges(r)
  BY <1>6 DEF HoldExpires, HoldAges, envVars
<1>7. CASE PurgeExpiredHolds
  BY <1>7 DEF PurgeExpiredHolds, envVars
<1>8. CASE \E p \in Procs : Fails(p)
  BY <1>0, <1>8 DEF Fails, Goto, TypeOK
<1>9. CASE UNCHANGED vars
  BY <1>9 DEF vars
<1>10. QED
  BY <1>1, <1>2, <1>3, <1>4, <1>5, <1>6, <1>7, <1>8, <1>9 DEF Next, Environment

LEMMA TypeKept ==
  ASSUME TypeInv, [Next]_vars
  PROVE  TypeInv'
<1>1. TypeOK'
  <2>1. CASE UNCHANGED vars
    BY <2>1 DEF TypeInv, TypeOK, vars
  <2>2. QED
    BY <2>1, RequestType, HookType, EditType, EnvironmentType DEF TypeInv, Next
<1>2. QED
  BY <1>1, HookJobKept DEF TypeInv

LEMMA TypeInvariant == Spec => []TypeInv
<1>1. Init => TypeInv
  <2>1. Init => HookHasJob
    BY BookingAssumption DEF Init, HookHasJob, Procs
  <2>2. QED
    BY <2>1, InitType DEF TypeInv
<1>2. TypeInv /\ [Next]_vars => TypeInv'
  BY TypeKept
<1>3. QED
  BY <1>1, <1>2, PTL DEF Spec

(* Every variable keeps its type, whatever the handlers' interleaving.      *)
THEOREM TypeCorrect == Spec => []TypeOK
<1>1. TypeInv => TypeOK
  BY DEF TypeInv
<1>2. QED
  BY <1>1, TypeInvariant, PTL
-----------------------------------------------------------------------------
(* Two promises of the agenda, for any number of requests, notifications    *)
(* and calls: a payment makes one turn, and whoever is displaced is told.   *)
(* The lock belongs to the one process inside its transaction.              *)
LockOK == \A p \in Procs : InTx(p) <=> lock = p

RequestLabels == {"start", "read", "save", "locked", "granted", "checkout", "undo",
                  "done", "rejected", "failed"}
HookLabels == {Idle, "read", "saved", "confirm", "booking"}
LabelOK ==
  /\ \A r \in Requests :
       /\ pc[r] \in RequestLabels
       /\ pc[r] \in {"read", "save"} => ask[r].kind = "free"
       /\ pc[r] \in {"locked", "granted", "checkout", "undo"} => ask[r].kind # "free"
  /\ \A w \in Hooks : pc[w] \in HookLabels

(* A request that has not committed has left nothing behind.                *)
Unborn ==
  \A r \in Requests : pc[r] \in {"start", "read", "save", "locked", "granted"} =>
    appt[r].status = "none" /\ hold[r] = "none"

(* Only a Mercado Pago request whose checkout opened is paid and notified.   *)
MpOK ==
  /\ \A r \in Requests : mp[r] # {} => ask[r].kind = "mp" /\ pc[r] = "done"
  /\ \A w \in Hooks : pc[w] # Idle => ask[job[w].req].kind = "mp" /\ pc[job[w].req] = "done"

(* A hold belongs to a Mercado Pago request that has no turn yet.           *)
HoldOK ==
  \A r \in Requests : hold[r] # "none" => ask[r].kind = "mp" /\ appt[r].status = "none"

(* Rows read, chosen or being edited exist, and so do the late turns.       *)
RowsOK ==
  /\ \A p \in Procs, q \in Requests :
       seen[p][q].status # "none" \/ q \in bump[p] => appt[q].status # "none"
  /\ \A e \in Edits : ed[e] # None => appt[ed[e].req].status # "none"
                                      /\ ed[e].row.status # "none"
  /\ \A q \in late : appt[q].status # "none"

OnceInv == TypeInv /\ LockOK /\ LabelOK /\ Unborn /\ MpOK /\ HoldOK /\ RowsOK /\ PaymentBooksOnce

LEMMA OnceInit == Init => OnceInv
<1> SUFFICES ASSUME Init PROVE OnceInv
  OBVIOUS
<1>1. TypeInv
  BY InitType, BookingAssumption DEF Init, HookHasJob, Procs, TypeInv
<1>2. /\ \A r \in Requests : pc[r] = "start" /\ r \in Procs
      /\ \A w \in Hooks : pc[w] = Idle /\ w \in Procs
  BY BookingAssumption DEF Init, Procs
<1>3. LockOK
  BY <1>2, BookingAssumption DEF LockOK, Init, InTx, Idle, Procs
<1>4. LabelOK /\ MpOK /\ PaymentBooksOnce
  BY <1>2 DEF LabelOK, MpOK, PaymentBooksOnce, RequestLabels, HookLabels, Idle, Init
<1>5. Unborn /\ HoldOK /\ RowsOK
  BY DEF Unborn, HoldOK, RowsOK, Init, NoRows, NoRow
<1>6. QED
  BY <1>1, <1>3, <1>4, <1>5 DEF OnceInv

(* No turn row is ever taken back to "none".                                *)
LEMMA BumpedRow ==
  ASSUME TypeOK, NEW p \in Procs, NEW B, NEW q \in Requests
  PROVE  WithBumped(p, B)[q].status = IF q \in B THEN "Cancelled" ELSE appt[q].status
BY DEF WithBumped, Bumped, TypeOK, Row

(* What a process may now remember: rows it remembered, or rows that exist. *)
Remembers(p, q) == seen[p][q].status # "none" \/ q \in bump[p]
OnlyTurns == \A p \in Procs, q \in Requests :
  Remembers(p, q)' => Remembers(p, q) \/ appt[q].status # "none"
RowsGrow == \A q \in Requests : appt[q].status # "none" => appt'[q].status # "none"

LEMMA ForgetTurns ==
  ASSUME TypeOK, NEW p \in Procs, Forget(p)
  PROVE  OnlyTurns
BY DEF OnlyTurns, Remembers, Forget, NoRows, NoRow, TypeOK

LEMMA SnapshotTurns ==
  ASSUME TypeOK, NEW p \in Procs, NEW r, Snapshot(p, r), UNCHANGED bump
  PROVE  OnlyTurns
BY DEF OnlyTurns, Remembers, Snapshot, Overlapping, NoRow, TypeOK

LEMMA SameTurns == ASSUME UNCHANGED <<seen, bump>> PROVE OnlyTurns
BY DEF OnlyTurns, Remembers

LEMMA RowsKept ==
  ASSUME RowsOK, OnlyTurns, RowsGrow, UNCHANGED <<ed, late>>, TypeOK
  PROVE  RowsOK'
<1>1. \A e \in Edits : ed[e] # None => ed[e].req \in Requests
  BY DEF TypeOK, Edit
<1>2. late \subseteq Requests
  BY DEF TypeOK
<1>3. QED
  BY <1>1, <1>2 DEF RowsOK, OnlyTurns, Remembers, RowsGrow

LEMMA RequestOnce ==
  ASSUME OnceInv, NEW r \in Requests, RequestStep(r), TypeInv'
  PROVE  OnceInv'
<1>0. r \in Procs /\ r \notin Hooks /\ None \notin Procs
  BY BookingAssumption DEF Procs
<1> USE <1>0 DEF OnceInv, TypeInv, TypeOK, envVars, Goto, Acquire, Release
<1>1. CASE BookReadTurns(r)
  <2>3. LockOK'
    BY <1>1 DEF BookReadTurns, LockOK, InTx
  <2>4. LabelOK' /\ MpOK'
    BY <1>1 DEF BookReadTurns, LabelOK, MpOK, RequestLabels, HookLabels, Idle
  <2>5. Unborn'
    BY <1>1 DEF BookReadTurns, Unborn
  <2>6. HoldOK'
    BY <1>1 DEF BookReadTurns, HoldOK, Unborn, LabelOK
  <2>7. RowsOK'
    BY <1>1, SnapshotTurns, RowsKept DEF BookReadTurns, RowsGrow
  <2>8. PaymentBooksOnce'
    BY <1>1 DEF BookReadTurns, PaymentBooksOnce
  <2>9. QED
    BY <2>3, <2>4, <2>5, <2>6, <2>7, <2>8
<1>2. CASE BookReadHolds(r)
  <2>3. LockOK'
    BY <1>2 DEF BookReadHolds, LockOK, InTx
  <2>4. LabelOK' /\ MpOK'
    BY <1>2 DEF BookReadHolds, LabelOK, MpOK, RequestLabels, HookLabels, Idle
  <2>5. Unborn'
    BY <1>2 DEF BookReadHolds, Unborn
  <2>6. HoldOK'
    BY <1>2 DEF BookReadHolds, HoldOK, Unborn, LabelOK
  <2>7. RowsOK'
    BY <1>2, ForgetTurns, RowsKept DEF BookReadHolds, RowsGrow
  <2>8. PaymentBooksOnce'
    BY <1>2 DEF BookReadHolds, PaymentBooksOnce
  <2>9. QED
    BY <2>3, <2>4, <2>5, <2>6, <2>7, <2>8
<1>3. CASE BookSave(r)
  <2>0. appt'[r].status = "Confirmed"
    BY <1>3 DEF BookSave, Fresh
  <2>2. RowsGrow /\ \A q \in Requests \ {r} : appt'[q].status = "none" <=> appt[q].status = "none"
    BY <1>3, <2>0 DEF BookSave, RowsGrow
  <2>3. LockOK'
    BY <1>3 DEF BookSave, LockOK, InTx
  <2>4. LabelOK' /\ MpOK'
    BY <1>3 DEF BookSave, LabelOK, MpOK, RequestLabels, HookLabels, Idle
  <2>5. Unborn'
    BY <1>3, <2>0, <2>2 DEF BookSave, Unborn
  <2>6. HoldOK'
    BY <1>3, <2>0, <2>2 DEF BookSave, HoldOK, Unborn, LabelOK
  <2>7. RowsOK'
    BY <1>3, <2>2, SameTurns, RowsKept DEF BookSave, RowsGrow
  <2>8. PaymentBooksOnce'
    BY <1>3, <2>2 DEF BookSave, PaymentBooksOnce, MpOK, HookHasJob, Job, Idle
  <2>9. QED
    BY <2>3, <2>4, <2>5, <2>6, <2>7, <2>8
<1>4. CASE DepositLock(r)
  <2>3. LockOK'
    BY <1>4 DEF DepositLock, LockOK, InTx
  <2>4. LabelOK' /\ MpOK'
    BY <1>4 DEF DepositLock, LabelOK, MpOK, RequestLabels, HookLabels, Idle
  <2>5. Unborn'
    BY <1>4 DEF DepositLock, Unborn
  <2>6. HoldOK'
    BY <1>4 DEF DepositLock, HoldOK, Unborn, LabelOK
  <2>7. RowsOK'
    BY <1>4, SnapshotTurns, RowsKept DEF DepositLock, RowsGrow
  <2>8. PaymentBooksOnce'
    BY <1>4 DEF DepositLock, PaymentBooksOnce
  <2>9. QED
    BY <2>3, <2>4, <2>5, <2>6, <2>7, <2>8
<1>5. CASE DepositReject(r)
  <2>3. LockOK'
    BY <1>5 DEF DepositReject, LockOK, InTx
  <2>4. LabelOK' /\ MpOK'
    BY <1>5 DEF DepositReject, LabelOK, MpOK, RequestLabels, HookLabels, Idle
  <2>5. Unborn'
    BY <1>5 DEF DepositReject, Unborn
  <2>6. HoldOK'
    BY <1>5 DEF DepositReject, HoldOK, Unborn, LabelOK
  <2>7. RowsOK'
    BY <1>5, ForgetTurns, RowsKept DEF DepositReject, RowsGrow
  <2>8. PaymentBooksOnce'
    BY <1>5 DEF DepositReject, PaymentBooksOnce
  <2>9. QED
    BY <2>3, <2>4, <2>5, <2>6, <2>7, <2>8
<1>6. CASE DepositGrant(r)
  <2>3. LockOK'
    BY <1>6 DEF DepositGrant, LockOK, InTx
  <2>4. LabelOK' /\ MpOK'
    BY <1>6 DEF DepositGrant, LabelOK, MpOK, RequestLabels, HookLabels, Idle
  <2>5. Unborn'
    BY <1>6 DEF DepositGrant, Unborn
  <2>6. HoldOK'
    BY <1>6 DEF DepositGrant, HoldOK, Unborn, LabelOK
  <2>7. RowsOK'
    <3>1. PICK B : bump' = [bump EXCEPT ![r] = B] /\ B \subseteq ProvSeen(r)
      BY <1>6 DEF DepositGrant, Surplus
    <3>2. OnlyTurns
      BY <1>6, <3>1 DEF DepositGrant, OnlyTurns, Remembers, ProvSeen, Conflicts
    <3>3. QED
      BY <1>6, <3>2, RowsKept DEF DepositGrant, RowsGrow
  <2>8. PaymentBooksOnce'
    BY <1>6 DEF DepositGrant, PaymentBooksOnce
  <2>9. QED
    BY <2>3, <2>4, <2>5, <2>6, <2>7, <2>8
<1>7. CASE CashCommit(r)
  <2>0. appt'[r].status = "Confirmed"
    BY <1>7 DEF CashCommit, Fresh, WithBumped
  <2>1. \A q \in Requests \ {r} :
          appt'[q].status = appt[q].status
          \/ (q \in bump[r] /\ appt'[q].status = "Cancelled")
    BY <1>7, BumpedRow DEF CashCommit, WithBumped
  <2>2. RowsGrow /\ \A q \in Requests \ {r} : appt'[q].status = "none" <=> appt[q].status = "none"
    BY <2>0, <2>1 DEF RowsGrow, RowsOK
  <2>3. LockOK'
    BY <1>7 DEF CashCommit, LockOK, InTx
  <2>4. LabelOK' /\ MpOK'
    BY <1>7 DEF CashCommit, LabelOK, MpOK, RequestLabels, HookLabels, Idle
  <2>5. Unborn'
    BY <1>7, <2>0, <2>2 DEF CashCommit, Unborn
  <2>6. HoldOK'
    BY <1>7, <2>0, <2>2 DEF CashCommit, HoldOK, Unborn, LabelOK
  <2>7. RowsOK'
    BY <1>7, <2>2, ForgetTurns, RowsKept DEF CashCommit, RowsGrow
  <2>8. PaymentBooksOnce'
    BY <1>7, <2>2 DEF CashCommit, PaymentBooksOnce, MpOK, HookHasJob, Job, Idle
  <2>9. QED
    BY <2>3, <2>4, <2>5, <2>6, <2>7, <2>8
<1>8. CASE MpCommit(r)
  <2>3. LockOK'
    BY <1>8 DEF MpCommit, LockOK, InTx
  <2>4. LabelOK' /\ MpOK'
    BY <1>8 DEF MpCommit, LabelOK, MpOK, RequestLabels, HookLabels, Idle
  <2>5. Unborn'
    BY <1>8 DEF MpCommit, Unborn
  <2>6. HoldOK'
    BY <1>8 DEF MpCommit, HoldOK, Unborn, LabelOK
  <2>7. RowsOK'
    BY <1>8, ForgetTurns, RowsKept DEF MpCommit, RowsGrow
  <2>8. PaymentBooksOnce'
    BY <1>8 DEF MpCommit, PaymentBooksOnce
  <2>9. QED
    BY <2>3, <2>4, <2>5, <2>6, <2>7, <2>8
<1>9. CASE PreferenceOk(r)
  <2>3. LockOK'
    BY <1>9 DEF PreferenceOk, LockOK, InTx
  <2>4. LabelOK' /\ MpOK'
    BY <1>9 DEF PreferenceOk, LabelOK, MpOK, RequestLabels, HookLabels, Idle
  <2>5. Unborn'
    BY <1>9 DEF PreferenceOk, Unborn
  <2>6. HoldOK'
    BY <1>9 DEF PreferenceOk, HoldOK, Unborn, LabelOK
  <2>7. RowsOK'
    BY <1>9, SameTurns, RowsKept DEF PreferenceOk, RowsGrow
  <2>8. PaymentBooksOnce'
    BY <1>9 DEF PreferenceOk, PaymentBooksOnce
  <2>9. QED
    BY <2>3, <2>4, <2>5, <2>6, <2>7, <2>8
<1>10. CASE PreferenceFails(r)
  <2>3. LockOK'
    BY <1>10 DEF PreferenceFails, LockOK, InTx
  <2>4. LabelOK' /\ MpOK'
    BY <1>10 DEF PreferenceFails, LabelOK, MpOK, RequestLabels, HookLabels, Idle
  <2>5. Unborn'
    BY <1>10 DEF PreferenceFails, Unborn
  <2>6. HoldOK'
    BY <1>10 DEF PreferenceFails, HoldOK, Unborn, LabelOK
  <2>7. RowsOK'
    BY <1>10, SameTurns, RowsKept DEF PreferenceFails, RowsGrow
  <2>8. PaymentBooksOnce'
    BY <1>10 DEF PreferenceFails, PaymentBooksOnce
  <2>9. QED
    BY <2>3, <2>4, <2>5, <2>6, <2>7, <2>8
<1>11. CASE UndoPayment(r)
  <2>3. LockOK'
    BY <1>11 DEF UndoPayment, LockOK, InTx
  <2>4. LabelOK' /\ MpOK'
    BY <1>11 DEF UndoPayment, LabelOK, MpOK, RequestLabels, HookLabels, Idle
  <2>5. Unborn'
    BY <1>11 DEF UndoPayment, Unborn
  <2>6. HoldOK'
    BY <1>11 DEF UndoPayment, HoldOK, Unborn, LabelOK
  <2>7. RowsOK'
    BY <1>11, SameTurns, RowsKept DEF UndoPayment, RowsGrow
  <2>8. PaymentBooksOnce'
    BY <1>11 DEF UndoPayment, PaymentBooksOnce
  <2>9. QED
    BY <2>3, <2>4, <2>5, <2>6, <2>7, <2>8
<1>12. QED
  BY <1>1, <1>2, <1>3, <1>4, <1>5, <1>6, <1>7, <1>8, <1>9, <1>10, <1>11 DEF RequestStep

(* A handler that goes on, or ends, keeps the labels and its request.       *)
LEMMA HookMoves ==
  ASSUME TypeInv, LabelOK, MpOK, NEW w \in Hooks, NEW l \in HookLabels,
         pc' = [pc EXCEPT ![w] = l], UNCHANGED <<ask, mp>>,
         \/ l = Idle /\ job' = [job EXCEPT ![w] = None]
         \/ pc[w] # Idle /\ UNCHANGED job
  PROVE  LabelOK' /\ MpOK'
<1>0. DOMAIN pc = Procs
  BY DEF TypeInv, TypeOK
<1>1. /\ w \notin Requests
      /\ \A v \in Hooks : v \in Procs /\ v \notin Requests
      /\ \A r \in Requests : r \in Procs
  BY BookingAssumption DEF Procs
<1>2. \A v \in Hooks : pc[v] # Idle => job[v].req \in Requests
  BY DEF TypeInv, HookHasJob, Job
<1>3. \A v \in Hooks : v # w => job'[v] = job[v]
  BY DEF TypeInv, TypeOK
<1>4. /\ \A r \in Requests : pc'[r] = pc[r]
      /\ \A v \in Hooks : pc'[v] = IF v = w THEN l ELSE pc[v]
  BY <1>0, <1>1
<1>5. LabelOK'
  BY <1>4 DEF LabelOK
<1>6. \A v \in Hooks : pc'[v] # Idle => job'[v] = job[v] /\ pc[v] # Idle
  BY <1>3, <1>4
<1>7. MpOK'
  BY <1>2, <1>4, <1>6 DEF MpOK
<1>8. QED
  BY <1>5, <1>7

LEMMA HookOnce ==
  ASSUME OnceInv, NEW w \in Hooks, HookStep(w), TypeInv'
  PROVE  OnceInv'
<1>0. /\ w \in Procs /\ w \notin Requests /\ None \notin Procs
      /\ \A v \in Hooks : v \in Procs /\ v \notin Requests
      /\ \A r \in Requests : r \in Procs
  BY BookingAssumption DEF Procs
<1>00. /\ pc[w] # Idle /\ job[w] \in Job /\ job[w].req \in Requests
       /\ ask[job[w].req].kind = "mp" /\ pc[job[w].req] = "done"
  BY DEF OnceInv, TypeInv, HookHasJob, MpOK, Job, HookStep, HookSave, HookLinked,
         HookRelease, HookLock, HookDisplace, HookCommit, Idle
<1> USE <1>0, <1>00 DEF OnceInv, TypeInv, TypeOK, envVars, Goto, Release
<1>1. CASE HookSave(w)
  <2>3. LockOK'
    BY <1>1 DEF HookSave, LockOK, InTx
  <2>4. LabelOK' /\ MpOK'
    BY <1>1 DEF HookSave, LabelOK, MpOK, RequestLabels, HookLabels, Idle
  <2>5. Unborn' /\ HoldOK'
    BY <1>1 DEF HookSave, Unborn, HoldOK
  <2>6. RowsOK'
    BY <1>1, SameTurns, RowsKept DEF HookSave, RowsGrow
  <2>7. PaymentBooksOnce'
    BY <1>1 DEF HookSave, PaymentBooksOnce
  <2>8. QED
    BY <2>3, <2>4, <2>5, <2>6, <2>7
<1>2. CASE HookLinked(w)
  <2>3. LockOK'
    BY <1>2 DEF HookLinked, Answer, LockOK, InTx, Idle
  <2>4. LabelOK' /\ MpOK'
    BY <1>2 DEF HookLinked, Answer, LabelOK, MpOK, RequestLabels, HookLabels, Idle
  <2>5. Unborn' /\ HoldOK'
    BY <1>2 DEF HookLinked, Answer, Unborn, HoldOK
  <2>6. RowsOK'
    BY <1>2, ForgetTurns, RowsKept DEF HookLinked, Answer, RowsGrow
  <2>7. PaymentBooksOnce'
    BY <1>2 DEF HookLinked, Answer, PaymentBooksOnce, Idle
  <2>8. QED
    BY <2>3, <2>4, <2>5, <2>6, <2>7
<1>3. CASE HookRelease(w)
  <2>3. LockOK'
    BY <1>3 DEF HookRelease, Answer, LockOK, InTx, Idle
  <2>4. LabelOK' /\ MpOK'
    BY <1>3 DEF HookRelease, Answer, LabelOK, MpOK, RequestLabels, HookLabels, Idle
  <2>5. Unborn' /\ HoldOK'
    BY <1>3 DEF HookRelease, Answer, Unborn, HoldOK
  <2>6. RowsOK'
    BY <1>3, ForgetTurns, RowsKept DEF HookRelease, Answer, RowsGrow
  <2>7. PaymentBooksOnce'
    BY <1>3 DEF HookRelease, Answer, PaymentBooksOnce, Idle
  <2>8. QED
    BY <2>3, <2>4, <2>5, <2>6, <2>7
<1>4. CASE HookLock(w) /\ NothingToConfirm(job[w].req)
  <2>3. LockOK'
    BY <1>4 DEF HookLock, Answer, LockOK, InTx, Idle
  <2>1. pc' = [pc EXCEPT ![w] = Idle] /\ UNCHANGED <<ask, mp>>
        /\ job' = [job EXCEPT ![w] = None]
    BY <1>4 DEF HookLock, Answer
  <2>4. LabelOK' /\ MpOK'
    BY <2>1, HookMoves DEF HookLabels
  <2>5. Unborn' /\ HoldOK'
    BY <1>4 DEF HookLock, Answer, Unborn, HoldOK
  <2>6. RowsOK'
    BY <1>4, ForgetTurns, RowsKept DEF HookLock, Answer, RowsGrow
  <2>7. PaymentBooksOnce'
    <3>1. UNCHANGED appt
      BY <1>4 DEF HookLock
    <3>2. \A v \in Hooks : pc'[v] \in {"confirm", "booking"} =>
            pc[v] = pc'[v] /\ job'[v] = job[v]
      BY <2>1 DEF Idle
    <3>3. QED
      BY <3>1, <3>2 DEF PaymentBooksOnce
  <2>8. QED
    BY <2>3, <2>4, <2>5, <2>6, <2>7
<1>5. CASE HookLock(w) /\ ~NothingToConfirm(job[w].req)
  <2>3. LockOK'
    BY <1>5 DEF HookLock, LockOK, InTx
  <2>1. pc' = [pc EXCEPT ![w] = "confirm"] /\ UNCHANGED <<ask, mp, job>>
    BY <1>5 DEF HookLock
  <2>4. LabelOK' /\ MpOK'
    BY <2>1, HookMoves DEF HookLabels
  <2>5. Unborn' /\ HoldOK'
    BY <1>5 DEF HookLock, Unborn, HoldOK
  <2>6. RowsOK'
    BY <1>5, SameTurns, RowsKept DEF HookLock, RowsGrow
  <2>7. PaymentBooksOnce'
    BY <1>5 DEF HookLock, PaymentBooksOnce, NothingToConfirm, HoldOK
  <2>8. QED
    BY <2>3, <2>4, <2>5, <2>6, <2>7
<1>6. CASE HookDisplace(w)
  <2>3. LockOK'
    BY <1>6 DEF HookDisplace, Snapshot, LockOK, InTx
  <2>4. LabelOK' /\ MpOK'
    BY <1>6 DEF HookDisplace, LabelOK, MpOK, RequestLabels, HookLabels, Idle
  <2>5. Unborn' /\ HoldOK'
    BY <1>6 DEF HookDisplace, Unborn, HoldOK
  <2>6. RowsOK'
    BY <1>6, SnapshotTurns, RowsKept DEF HookDisplace, RowsGrow
  <2>7. PaymentBooksOnce'
    BY <1>6 DEF HookDisplace, PaymentBooksOnce
  <2>8. QED
    BY <2>3, <2>4, <2>5, <2>6, <2>7
<1>7. CASE HookCommit(w)
  <2> DEFINE r == job[w].req
  <2>0. appt'[r].status = "Confirmed"
    BY <1>7 DEF HookCommit, Fresh, WithBumped
  <2>1. \A q \in Requests \ {r} :
          appt'[q].status = appt[q].status
          \/ (q \in ProvSeen(w) /\ appt'[q].status = "Cancelled")
    BY <1>7, BumpedRow DEF HookCommit, WithBumped
  <2>2. RowsGrow /\ \A q \in Requests \ {r} : appt'[q].status = "none" <=> appt[q].status = "none"
    <3>1. \A q \in ProvSeen(w) : appt[q].status # "none"
      BY DEF RowsOK, ProvSeen, Conflicts
    <3>2. QED
      BY <2>0, <2>1, <3>1 DEF RowsGrow
  <2>3. LockOK'
    BY <1>7 DEF HookCommit, Answer, LockOK, InTx, Idle
  <2>4. LabelOK' /\ MpOK'
    BY <1>7 DEF HookCommit, Answer, LabelOK, MpOK, RequestLabels, HookLabels, Idle
  <2>5. Unborn' /\ HoldOK'
    BY <1>7, <2>2 DEF HookCommit, Answer, Unborn, HoldOK
  <2>6. RowsOK'
    <3>1. OnlyTurns
      BY <1>7, ForgetTurns DEF HookCommit, Answer
    <3>2. \A q \in late' : appt'[q].status # "none"
      BY <1>7, <2>0, <2>2 DEF HookCommit, RowsGrow, RowsOK
    <3>3. \A e \in Edits : ed[e] # None => ed[e].req \in Requests
      BY DEF Edit
    <3>4. UNCHANGED ed
      BY <1>7 DEF HookCommit
    <3>5. QED
      BY <2>2, <3>1, <3>2, <3>3, <3>4 DEF RowsOK, OnlyTurns, Remembers, RowsGrow
  <2>7. PaymentBooksOnce'
    <3>1. \A v \in Hooks \ {w} : pc[v] \notin {"confirm", "booking"}
      BY <1>7 DEF HookCommit, LockOK, InTx
    <3>2. QED
      BY <1>7, <3>1 DEF HookCommit, Answer, PaymentBooksOnce, Idle
  <2>8. QED
    BY <2>3, <2>4, <2>5, <2>6, <2>7
<1>8. QED
  BY <1>1, <1>2, <1>3, <1>4, <1>5, <1>6, <1>7 DEF HookStep

LEMMA EditOnce ==
  ASSUME OnceInv, NEW e \in Edits, EditStep(e), TypeInv'
  PROVE  OnceInv'
<1> USE DEF OnceInv, TypeInv, TypeOK
<1>1. UNCHANGED editFrame
  BY EditFrame
<1>2. \A q \in Requests : appt'[q].status = "none" <=> appt[q].status = "none"
  <2>1. ed[e] # None => ed[e].req \in Requests /\ ed[e].row \in Row
    BY DEF Edit
  <2>2. CASE UNCHANGED appt
    BY <2>2
  <2>3. CASE \E row \in Row : row.status # "none" /\ WriteRow(e, row) /\ ed[e] # None
    BY <2>1, <2>3 DEF WriteRow, RowsOK
  <2>4. UNCHANGED appt
        \/ \E row \in Row : row.status # "none" /\ WriteRow(e, row) /\ ed[e] # None
    <3>1. \A op \in EditOps, q \in Requests : EditRead(e, op, q) => UNCHANGED appt
      BY DEF EditRead, reqVars
    <3>2. \A t \in Starts : EditCheckPlace(e, t) => UNCHANGED appt
      BY DEF EditCheckPlace
    <3>3. EditCash(e) \/ EditReread(e) => UNCHANGED appt
      BY DEF EditCash, EditReread
    <3>4. EditClose(e) \/ EditComplete(e) \/ EditStart(e) \/ EditMove(e) =>
            \E row \in Row : row.status # "none" /\ WriteRow(e, row) /\ ed[e] # None
      BY <2>1 DEF EditClose, EditComplete, EditStart, EditMove, EditAt, RowsOK, Row,
                  ActiveStatuses, TerminalStatuses
    <3>5. EditArrive(e) => UNCHANGED appt
            \/ \E row \in Row : row.status # "none" /\ WriteRow(e, row) /\ ed[e] # None
      BY <2>1 DEF EditArrive, EditAt, RowsOK, Row
    <3>6. QED
      BY <3>1, <3>2, <3>3, <3>4, <3>5 DEF EditStep
  <2>5. QED
    BY <2>2, <2>3, <2>4
<1>3. LockOK' /\ LabelOK' /\ MpOK'
  BY <1>1 DEF editFrame, LockOK, InTx, LabelOK, MpOK
<1>4. Unborn' /\ HoldOK'
  BY <1>1, <1>2 DEF editFrame, Unborn, HoldOK
<1>5. PaymentBooksOnce'
  <2>1. \A w \in Hooks : pc[w] # Idle => job[w].req \in Requests
    BY DEF HookHasJob, Job
  <2>2. QED
    BY <1>1, <1>2, <2>1 DEF editFrame, PaymentBooksOnce, Idle
<1>6. RowsOK'
  <2>1. \A d \in Edits : ed'[d] # None => ed'[d].req \in Requests
    BY DEF Edit
  <2>2. \A d \in Edits : ed'[d] # None => /\ appt'[ed'[d].req].status # "none"
                                          /\ ed'[d].row.status # "none"
    <3>1. \A d \in Edits \ {e} : ed'[d] = ed[d]
      BY DEF EditStep, EditRead, EditClose, EditComplete, EditCash, EditArrive, EditReread,
             EditStart, EditCheckPlace, EditMove, EditGoes, EditEnds
    <3>2. ed'[e] # None => /\ appt[ed'[e].req].status # "none"
                           /\ ed'[e].row.status # "none"
      <4>1. CASE \E op \in EditOps, q \in Requests : EditRead(e, op, q)
        BY <4>1 DEF EditRead
      <4>2. CASE EditClose(e) \/ EditCash(e) \/ EditStart(e) \/ EditMove(e)
        BY <4>2 DEF EditClose, EditCash, EditStart, EditMove, EditEnds
      <4>3. CASE EditComplete(e) \/ EditArrive(e)
        <5>1. ed[e] # None /\ ed[e] \in Edit /\ ed' = [ed EXCEPT ![e] = ed'[e]]
              /\ ed'[e].req = ed[e].req /\ ed'[e].row = ed[e].row
          BY <4>3 DEF EditComplete, EditArrive, EditGoes, EditAt, Edit
        <5>2. QED
          BY <5>1 DEF RowsOK
      <4>4. CASE EditReread(e)
        BY <4>4 DEF EditReread, EditAt, RowsOK, Edit
      <4>5. CASE \E t \in Starts : EditCheckPlace(e, t)
        BY <4>5 DEF EditCheckPlace, EditAt, RowsOK, Edit, Moved, Row
      <4>6. QED
        BY <4>1, <4>2, <4>3, <4>4, <4>5 DEF EditStep
    <3>3. \A d \in Edits : ed'[d] # None => /\ appt[ed'[d].req].status # "none"
                                            /\ ed'[d].row.status # "none"
      BY <3>1, <3>2 DEF RowsOK
    <3>4. QED
      BY <1>2, <2>1, <3>3
  <2>3. QED
    BY <1>1, <1>2, <2>2 DEF editFrame, RowsOK
<1>7. QED
  BY <1>3, <1>4, <1>5, <1>6
LEMMA EnvironmentOnce ==
  ASSUME OnceInv, Environment, TypeInv'
  PROVE  OnceInv'
<1>0. /\ None \notin Procs
      /\ \A v \in Hooks : v \in Procs /\ v \notin Requests
      /\ \A r \in Requests : r \in Procs
  BY BookingAssumption DEF Procs
<1>00. \A v \in Hooks : pc[v] # Idle => job[v].req \in Requests
  BY DEF OnceInv, TypeInv, HookHasJob, Job
<1> USE <1>0, <1>00 DEF OnceInv, TypeInv, TypeOK, envVars, Goto
<1>1. CASE \E r \in Requests, o \in Outcomes : PayerPays(r, o)
  <2>1. PICK r \in Requests, o \in Outcomes : PayerPays(r, o)
    BY <1>1
  <2>2. /\ UNCHANGED <<ask, appt, hold, pay, lock, pc, seen, bump, job, ed, late>>
        /\ \A q \in Requests \ {r} : mp'[q] = mp[q]
        /\ ask[r].kind = "mp" /\ pc[r] = "done"
    BY <2>1 DEF PayerPays, reqVars
  <2>3. MpOK'
    BY <2>2 DEF MpOK
  <2>4. LockOK' /\ LabelOK' /\ Unborn' /\ HoldOK' /\ PaymentBooksOnce'
    BY <2>2 DEF LockOK, InTx, LabelOK, Unborn, HoldOK, PaymentBooksOnce
  <2>5. RowsOK'
    BY <2>2 DEF RowsOK
  <2>6. QED
    BY <2>3, <2>4, <2>5
<1>2. CASE \E w \in Hooks, r \in Requests, o \in Outcomes : HookRead(w, r, o)
  <2>1. PICK w \in Hooks, r \in Requests, o \in Outcomes : HookRead(w, r, o)
    BY <1>2
  <2>2. /\ UNCHANGED <<ask, appt, hold, pay, lock, seen, bump, ed, mp, late>>
        /\ pc[w] = Idle /\ mp[r] # {}
    BY <2>1 DEF HookRead
  <2>3. \/ UNCHANGED <<pc, job>>
        \/ /\ pc' = [pc EXCEPT ![w] = "read"]
           /\ job' = [job EXCEPT ![w] = [req |-> r, outcome |-> o, row |-> pay[r]]]
    BY <2>1 DEF HookRead
  <2>4. /\ \A q \in Requests : pc'[q] = pc[q]
        /\ \A v \in Hooks \ {w} : pc'[v] = pc[v] /\ job'[v] = job[v]
        /\ pc'[w] \in {Idle, "read"}
        /\ pc'[w] = "read" => job'[w].req = r
    BY <2>2, <2>3 DEF Idle
  <2>5. LockOK'
    BY <2>2, <2>4 DEF LockOK, InTx, Idle, Procs
  <2>6. LabelOK'
    BY <2>2, <2>4 DEF LabelOK, HookLabels
  <2>7. MpOK'
    <3>1. ask[r].kind = "mp" /\ pc[r] = "done"
      BY <2>2 DEF MpOK
    <3>2. \A v \in Hooks : pc'[v] # Idle =>
            \/ pc[v] # Idle /\ job'[v].req = job[v].req
            \/ job'[v].req = r
      BY <2>2, <2>4
    <3>3. \A q \in Requests : mp'[q] # {} => ask'[q].kind = "mp" /\ pc'[q] = "done"
      BY <2>2, <2>4 DEF MpOK
    <3>4. ASSUME NEW v \in Hooks, pc'[v] # Idle
          PROVE  ask'[job'[v].req].kind = "mp" /\ pc'[job'[v].req] = "done"
      <4>1. CASE job'[v].req = r
        BY <2>2, <2>4, <3>1, <4>1
      <4>2. CASE pc[v] # Idle /\ job'[v].req = job[v].req
        BY <1>00, <2>2, <2>4, <4>2 DEF MpOK
      <4>3. QED
        BY <3>2, <3>4, <4>1, <4>2
    <3>5. QED
      BY <3>3, <3>4 DEF MpOK
  <2>8. Unborn' /\ HoldOK' /\ RowsOK'
    BY <2>2, <2>4 DEF Unborn, HoldOK, RowsOK
  <2>9. PaymentBooksOnce'
    BY <2>2, <2>4 DEF PaymentBooksOnce, Idle
  <2>10. QED
    BY <2>5, <2>6, <2>7, <2>8, <2>9
<1>3. CASE \/ \E r \in Requests : HoldExpires(r) \/ HoldAges(r)
           \/ PurgeExpiredHolds
  <2>1. /\ UNCHANGED <<ask, appt, pay, lock, pc, seen, bump, job, ed, mp, late>>
        /\ \A q \in Requests : hold'[q] # "none" => hold[q] # "none"
    BY <1>3 DEF HoldExpires, HoldAges, PurgeExpiredHolds
  <2>2. LockOK' /\ LabelOK' /\ MpOK' /\ PaymentBooksOnce' /\ RowsOK'
    BY <2>1 DEF LockOK, InTx, LabelOK, MpOK, PaymentBooksOnce, RowsOK
  <2>3. Unborn' /\ HoldOK'
    BY <2>1 DEF Unborn, HoldOK
  <2>4. QED
    BY <2>2, <2>3
<1>4. CASE \E p \in Procs : Fails(p)
  <2>1. PICK p \in Procs : Fails(p)
    BY <1>4
  <2>2. /\ UNCHANGED <<ask, appt, hold, pay, ed, mp, late>>
        /\ lock' = IF lock = p THEN None ELSE lock
        /\ pc' = [pc EXCEPT ![p] = IF p \in Hooks THEN Idle ELSE "failed"]
        /\ Forget(p)
        /\ pc[p] \notin {"start", "done", "rejected", "failed", Idle}
        /\ \A v \in Hooks \ {p} : job'[v] = job[v]
    BY <2>1 DEF Fails
  <2>3. LockOK'
    BY <2>2 DEF LockOK, InTx, Idle
  <2>4. LabelOK'
    BY <2>2 DEF LabelOK, RequestLabels, HookLabels
  <2>5. /\ \A r \in Requests : pc'[r] = "done" <=> pc[r] = "done"
        /\ \A v \in Hooks : pc'[v] # Idle => pc'[v] = pc[v] /\ job'[v] = job[v]
    BY <2>2
  <2>6. MpOK'
    BY <2>2, <2>5 DEF MpOK
  <2>7. Unborn' /\ HoldOK'
    BY <2>2 DEF Unborn, HoldOK
  <2>8. RowsOK'
    BY <2>2, ForgetTurns, RowsKept DEF RowsGrow
  <2>9. PaymentBooksOnce'
    BY <2>2, <2>5 DEF PaymentBooksOnce, Idle
  <2>10. QED
    BY <2>3, <2>4, <2>6, <2>7, <2>8, <2>9
<1>5. QED
  BY <1>1, <1>2, <1>3, <1>4 DEF Environment

LEMMA OnceKept ==
  ASSUME OnceInv, [Next]_vars
  PROVE  OnceInv'
<1>1. TypeInv'
  BY TypeKept DEF OnceInv
<1>2. CASE UNCHANGED vars
  BY <1>2 DEF vars, OnceInv, TypeInv, TypeOK, HookHasJob, LockOK, InTx, LabelOK, Unborn,
              MpOK, HoldOK, RowsOK, PaymentBooksOnce
<1>3. QED
  BY <1>1, <1>2, RequestOnce, HookOnce, EditOnce, EnvironmentOnce DEF Next

(* The inductive invariant behind the theorems about payments: locks,       *)
(* labels, checkouts, holds and rows agree in every reachable state.        *)
THEOREM OnceInvariant == Spec => []OnceInv
<1>1. QED
  BY OnceInit, OnceKept, PTL DEF Spec

(* A payment makes one turn: whatever notifications repeat, overlap or come *)
(* late, and whatever handlers fail, none creates a turn that exists.       *)
THEOREM PaymentBooksOnceHolds == Spec => []PaymentBooksOnce
<1>1. OnceInv => PaymentBooksOnce
  BY DEF OnceInv
<1>2. QED
  BY <1>1, OnceInvariant, PTL
-----------------------------------------------------------------------------
LEMMA AskSame == ASSUME [Next]_vars PROVE UNCHANGED ask
BY DEF Next, vars, RequestStep, HookStep, EditStep, Environment, BookReadTurns, BookReadHolds,
       BookSave, DepositLock, DepositReject, DepositGrant, CashCommit, MpCommit, PreferenceOk,
       PreferenceFails, UndoPayment, HookSave, HookLinked, HookRelease, HookLock,
       HookDisplace, HookCommit, EditRead, EditClose, EditComplete, EditCash, EditArrive,
       EditReread, EditStart, EditCheckPlace, EditMove, editFrame, PayerPays, HookRead,
       HoldExpires, HoldAges, PurgeExpiredHolds, Fails, reqVars

(* A webhook about to commit has the rows it displaced before it.           *)
LEMMA DisplaceBefore ==
  ASSUME OnceInv, [Next]_vars, NEW w \in Hooks, pc'[w] = "booking"
  PROVE  job'[w] = job[w]
         /\ (HookDisplace(w) \/ (pc[w] = "booking" /\ seen'[w] = seen[w]))
<1>1. w \in Procs /\ w \notin Requests /\ \A r \in Requests : w # r
  BY BookingAssumption DEF Procs
<1> USE <1>1 DEF OnceInv, TypeInv, TypeOK, Goto, Forget, Snapshot, Idle
<1>2. CASE UNCHANGED <<pc, seen, job>>
  BY <1>2
<1>3. ASSUME NEW r \in Requests, RequestStep(r)
      PROVE  pc'[w] = pc[w] /\ seen'[w] = seen[w] /\ UNCHANGED job
  BY <1>3 DEF RequestStep, BookReadTurns, BookReadHolds, BookSave, DepositLock,
     DepositReject, DepositGrant, CashCommit, MpCommit, PreferenceOk, PreferenceFails,
     UndoPayment, envVars
<1>4. ASSUME NEW v \in Hooks, HookStep(v), v # w
      PROVE  pc'[w] = pc[w] /\ seen'[w] = seen[w] /\ job'[w] = job[w]
  BY <1>4 DEF HookStep, HookSave, HookLinked, HookRelease, HookLock, HookDisplace,
     HookCommit, Answer, envVars
<1>5. CASE HookStep(w)
  <2>1. ~HookSave(w) /\ ~HookLinked(w) /\ ~HookRelease(w) /\ ~HookLock(w) /\ ~HookCommit(w)
    BY DEF HookSave, HookLinked, HookRelease, HookLock, HookCommit, Answer
  <2>2. QED
    BY <1>5, <2>1 DEF HookStep, HookDisplace, envVars
<1>6. ASSUME NEW e \in Edits, EditStep(e) PROVE UNCHANGED <<pc, seen, job>>
  BY <1>6, EditFrame DEF editFrame
<1>7. CASE Environment
  <2>1. CASE \E p \in Procs : Fails(p)
    BY <2>1 DEF Fails
  <2>2. CASE \E v \in Hooks, q \in Requests, o \in Outcomes : HookRead(v, q, o)
    BY <2>2 DEF HookRead
  <2>3. CASE UNCHANGED <<pc, seen, job>>
    BY <2>3
  <2>4. QED
    BY <1>7, <2>1, <2>2, <2>3 DEF Environment, PayerPays, HoldExpires, HoldAges,
       PurgeExpiredHolds, reqVars, envVars
<1>8. QED
  BY <1>2, <1>3, <1>4, <1>5, <1>6, <1>7 DEF Next, vars

-----------------------------------------------------------------------------
(* Whoever may still be displaced, by a choice made, by rows read or by a   *)
(* copy an edit holds, was told.                                            *)
ToldInv ==
  /\ OnceInv /\ BumpedIsTold
  /\ \A e \in Edits : ed[e] # None /\ ed[e].row.why = "bumped" => ed[e].req \in told
  /\ \A p \in Procs : bump[p] \subseteq told
  /\ \A w \in Hooks : pc[w] = "booking" => ProvSeen(w) \subseteq told

LEMMA ToldInit == Init => ToldInv
BY OnceInit, BookingAssumption
   DEF Init, ToldInv, BumpedIsTold, NoRows, NoRow, Idle, Procs

LEMMA ToldGrows == ASSUME [Next]_vars PROVE told \subseteq told'
BY DEF Next, vars, RequestStep, HookStep, EditStep, Environment, BookReadTurns, BookReadHolds,
       BookSave, DepositLock, DepositReject, DepositGrant, CashCommit, MpCommit, PreferenceOk,
       PreferenceFails, UndoPayment, HookSave, HookLinked, HookRelease, HookLock,
       HookDisplace, HookCommit, EditRead, EditClose, EditComplete, EditCash, EditArrive,
       EditReread, EditStart, EditCheckPlace, EditMove, editFrame, PayerPays, HookRead,
       HoldExpires, HoldAges, PurgeExpiredHolds, Fails

(* A step that writes no turn as bumped but those of B keeps the promise.   *)
LEMMA BumpedFrame ==
  ASSUME ToldInv, told \subseteq told', NEW B, B \subseteq told,
         \A q \in Requests : appt'[q].why = "bumped" => appt[q].why = "bumped" \/ q \in B
  PROVE  BumpedIsTold'
BY DEF ToldInv, BumpedIsTold

LEMMA RequestTold ==
  ASSUME ToldInv, NEW r \in Requests, RequestStep(r), told \subseteq told'
  PROVE  BumpedIsTold' /\ UNCHANGED ed /\ \A p \in Procs : bump'[p] \subseteq told'
<1> USE DEF ToldInv, OnceInv, TypeInv, TypeOK, Forget, envVars
<1>1. r \in Procs
  BY DEF Procs
<1>2. UNCHANGED ed
  BY DEF RequestStep, BookReadTurns, BookReadHolds, BookSave, DepositLock, DepositReject,
     DepositGrant, CashCommit, MpCommit, PreferenceOk, PreferenceFails, UndoPayment
<1>3. \A p \in Procs : bump'[p] \subseteq told'
  <2>1. CASE DepositGrant(r)
    <3>1. PICK B : bump' = [bump EXCEPT ![r] = B] /\ told' = told \cup B
      BY <2>1 DEF DepositGrant
    <3>2. QED
      BY <1>1, <3>1
  <2>2. CASE UNCHANGED bump \/ bump' = [bump EXCEPT ![r] = {}]
    BY <1>1, <2>2
  <2>3. QED
    BY <2>1, <2>2 DEF RequestStep, BookReadTurns, BookReadHolds, BookSave, DepositLock,
       DepositReject, CashCommit, MpCommit, PreferenceOk, PreferenceFails, UndoPayment
<1>4. BumpedIsTold'
  <2>1. Fresh(r).why = "no"
    BY DEF Fresh
  <2>2. CASE BookSave(r)
    <3>1. appt' = [appt EXCEPT ![r] = Fresh(r)]
      BY <2>2 DEF BookSave
    <3>2. \A q \in Requests : appt'[q].why = "bumped" => appt[q].why = "bumped"
      BY <2>1, <3>1
    <3>3. QED
      BY <3>2, BumpedFrame
  <2>3. CASE CashCommit(r)
    <3>1. appt' = [WithBumped(r, bump[r]) EXCEPT ![r] = Fresh(r)]
      BY <2>3 DEF CashCommit
    <3>2. \A q \in Requests : appt'[q].why = "bumped" => appt[q].why = "bumped" \/ q \in bump[r]
      BY <2>1, <3>1 DEF WithBumped
    <3>3. bump[r] \subseteq told
      BY <1>1
    <3>4. QED
      BY <3>2, <3>3, BumpedFrame
  <2>4. CASE UNCHANGED appt
    BY <2>4, BumpedFrame
  <2>5. QED
    BY <2>2, <2>3, <2>4 DEF RequestStep, BookReadTurns, BookReadHolds, DepositLock,
       DepositReject, DepositGrant, MpCommit, PreferenceOk, PreferenceFails, UndoPayment
<1>5. QED
  BY <1>2, <1>3, <1>4

LEMMA HookTold ==
  ASSUME ToldInv, NEW w \in Hooks, HookStep(w), told \subseteq told'
  PROVE  BumpedIsTold' /\ UNCHANGED ed /\ \A p \in Procs : bump'[p] \subseteq told'
<1> USE DEF ToldInv, OnceInv, TypeInv, TypeOK, Forget, Answer, envVars
<1>1. w \in Procs
  BY DEF Procs
<1>2. UNCHANGED ed
  BY DEF HookStep, HookSave, HookLinked, HookRelease, HookLock, HookDisplace, HookCommit
<1>3. UNCHANGED bump \/ bump' = [bump EXCEPT ![w] = {}]
  BY DEF HookStep, HookSave, HookLinked, HookRelease, HookLock, HookDisplace, HookCommit
<1>4. \A p \in Procs : bump'[p] \subseteq told'
  BY <1>1, <1>3
<1>5. CASE HookCommit(w)
  <2>1. pc[w] = "booking"
        /\ appt' = [WithBumped(w, ProvSeen(w)) EXCEPT ![job[w].req] = Fresh(job[w].req)]
    BY <1>5 DEF HookCommit
  <2>2. Fresh(job[w].req).why = "no"
    BY DEF Fresh
  <2>3. \A q \in Requests :
          appt'[q].why = "bumped" => appt[q].why = "bumped" \/ q \in ProvSeen(w)
    BY <2>1, <2>2 DEF WithBumped
  <2>4. QED
    BY <1>2, <1>4, <2>1, <2>3, BumpedFrame
<1>6. CASE UNCHANGED appt
  BY <1>2, <1>4, <1>6, BumpedFrame
<1>7. QED
  BY <1>5, <1>6 DEF HookStep, HookSave, HookLinked, HookRelease, HookLock, HookDisplace

(* A copy an edit holds was bumped only if its owner was told.              *)
EditTold == \A e \in Edits : ed[e] # None /\ ed[e].row.why = "bumped" => ed[e].req \in told

LEMMA EditsTold ==
  ASSUME ToldInv, NEW e \in Edits, EditStep(e), told \subseteq told'
  PROVE  BumpedIsTold' /\ EditTold' /\ UNCHANGED bump
<1> USE DEF ToldInv, OnceInv, TypeInv, TypeOK
<1>1. UNCHANGED bump
  BY EditFrame DEF editFrame
<1>2. ed[e] # None => ed[e] \in Edit /\ ed[e].row \in Row /\ ed[e].req \in Requests
  BY DEF Edit
<1>3. ASSUME \/ UNCHANGED appt
             \/ \E row : /\ ed[e] # None /\ WriteRow(e, row)
                         /\ row.why = "bumped" => ed[e].row.why = "bumped"
      PROVE  BumpedIsTold'
  <2>1. \A q \in Requests : appt'[q].why = "bumped" => appt[q].why = "bumped" \/ q \in told
    BY <1>2, <1>3 DEF WriteRow
  <2>2. QED
    BY <2>1, BumpedFrame
<1>4. ASSUME \/ ed' = [ed EXCEPT ![e] = None]
             \/ \E j : /\ ed' = [ed EXCEPT ![e] = j]
                       /\ j.row.why = "bumped" => j.req \in told
      PROVE  EditTold'
  BY <1>4 DEF EditTold
<1>5. CASE \E op \in EditOps, q \in Requests : EditRead(e, op, q)
  <2>1. PICK op \in EditOps, q \in Requests : EditRead(e, op, q)
    BY <1>5
  <2> DEFINE j == [at |-> "read", op |-> op, req |-> q, row |-> appt[q]]
  <2>2. UNCHANGED appt /\ ed' = [ed EXCEPT ![e] = j]
    BY <2>1 DEF EditRead, reqVars
  <2>3. j.row.why = "bumped" => j.req \in told
    BY DEF BumpedIsTold
  <2> HIDE DEF j
  <2>4. QED
    BY <1>1, <1>3, <1>4, <2>2, <2>3
<1>6. CASE EditClose(e)
  <2>1. PICK row : WriteRow(e, row) /\ row.why # "bumped"
    <3> DEFINE closed == IF ed[e].op = "noShow"
                         THEN [ed[e].row EXCEPT !.status = "NoShow", !.why = "noShow"]
                         ELSE [ed[e].row EXCEPT !.status = "Cancelled", !.why = "client"]
    <3>1. WriteRow(e, closed)
      BY <1>6 DEF EditClose
    <3>2. closed.why # "bumped"
      BY <1>2, <1>6 DEF EditClose, EditAt, Row
    <3> HIDE DEF closed
    <3>3. QED
      BY <3>1, <3>2
  <2>2. ed[e] # None /\ ed' = [ed EXCEPT ![e] = None]
    BY <1>6 DEF EditClose, EditAt, EditEnds
  <2>3. QED
    BY <1>1, <1>3, <1>4, <2>1, <2>2
<1>7. CASE EditComplete(e)
  <2> DEFINE row == [ed[e].row EXCEPT !.status = "Done"]   j == [ed[e] EXCEPT !.at = "cash"]
  <2>1. ed[e] # None /\ WriteRow(e, row) /\ ed' = [ed EXCEPT ![e] = j]
    BY <1>7 DEF EditComplete, EditAt, EditGoes
  <2>2. row.why = ed[e].row.why /\ j.row = ed[e].row /\ j.req = ed[e].req
    BY <1>2, <2>1 DEF Row, Edit
  <2> HIDE DEF row, j
  <2>3. QED
    BY <1>1, <1>3, <1>4, <2>1, <2>2
<1>8. CASE EditCash(e)
  BY <1>1, <1>3, <1>4, <1>8 DEF EditCash, EditEnds
<1>9. CASE EditArrive(e)
  <2> DEFINE row == [ed[e].row EXCEPT !.arrived = TRUE]   j == [ed[e] EXCEPT !.at = "arrived"]
  <2>1. ed[e] # None /\ (UNCHANGED appt \/ WriteRow(e, row)) /\ ed' = [ed EXCEPT ![e] = j]
    BY <1>9 DEF EditArrive, EditAt, EditGoes
  <2>2. row.why = ed[e].row.why /\ j.row = ed[e].row /\ j.req = ed[e].req
    BY <1>2, <2>1 DEF Row, Edit
  <2> HIDE DEF row, j
  <2>3. QED
    BY <1>1, <1>3, <1>4, <2>1, <2>2
<1>10. CASE EditReread(e)
  <2> DEFINE j == [ed[e] EXCEPT !.at = "reread", !.row = appt[ed[e].req]]
  <2>1. ed[e] # None /\ UNCHANGED appt /\ ed' = [ed EXCEPT ![e] = j]
    BY <1>10 DEF EditReread, EditAt
  <2>2. j.row = appt[ed[e].req] /\ j.req = ed[e].req
    BY <1>2, <2>1 DEF Edit
  <2> HIDE DEF j
  <2>3. j.row.why = "bumped" => j.req \in told
    BY <1>2, <2>1, <2>2 DEF BumpedIsTold
  <2>4. QED
    BY <1>1, <1>3, <1>4, <2>1, <2>3
<1>11. CASE EditStart(e)
  <2> DEFINE row == [ed[e].row EXCEPT !.status = "InProgress"]
  <2>1. ed[e] # None /\ WriteRow(e, row) /\ ed' = [ed EXCEPT ![e] = None]
    BY <1>11 DEF EditStart, EditAt, EditEnds
  <2>2. row.why = ed[e].row.why
    BY <1>2, <2>1 DEF Row
  <2> HIDE DEF row
  <2>3. QED
    BY <1>1, <1>3, <1>4, <2>1, <2>2
<1>12. CASE \E t \in Starts : EditCheckPlace(e, t)
  <2>1. PICK t \in Starts : EditCheckPlace(e, t)
    BY <1>12
  <2> DEFINE u == t + Duration[Service(ed[e].req)]
             j == [ed[e] EXCEPT !.at = "clear", !.row = Moved(ed[e].row, t, u)]
  <2>2. ed[e] # None /\ UNCHANGED appt /\ ed' = [ed EXCEPT ![e] = j]
    BY <2>1 DEF EditCheckPlace, EditAt
  <2>3. j.row.why = ed[e].row.why /\ j.req = ed[e].req
    BY <1>2, <2>2 DEF Row, Edit, Moved
  <2> HIDE DEF j
  <2>4. QED
    BY <1>1, <1>3, <1>4, <2>2, <2>3
<1>13. CASE EditMove(e)
  <2>1. ed[e] # None /\ WriteRow(e, ed[e].row) /\ ed' = [ed EXCEPT ![e] = None]
    BY <1>13 DEF EditMove, EditAt, EditEnds
  <2>2. QED
    BY <1>1, <1>3, <1>4, <2>1
<1>14. QED
  BY <1>5, <1>6, <1>7, <1>8, <1>9, <1>10, <1>11, <1>12, <1>13 DEF EditStep

LEMMA ToldKept ==
  ASSUME ToldInv, [Next]_vars
  PROVE  ToldInv'
<1>1. OnceInv' /\ UNCHANGED ask /\ told \subseteq told'
  BY OnceKept, AskSame, ToldGrows DEF ToldInv
<1>2. EditTold /\ (EditTold' <=> \A e \in Edits :
        ed'[e] # None /\ ed'[e].row.why = "bumped" => ed'[e].req \in told')
  BY DEF ToldInv, EditTold
<1>3. BumpedIsTold' /\ EditTold' /\ \A p \in Procs : bump'[p] \subseteq told'
  <2>1. UNCHANGED ed => EditTold'
    BY <1>1, <1>2 DEF EditTold
  <2>2. UNCHANGED bump => \A p \in Procs : bump'[p] \subseteq told'
    BY <1>1 DEF ToldInv
  <2>3. CASE \/ \E r \in Requests : RequestStep(r)
             \/ \E w \in Hooks : HookStep(w)
    BY <1>1, <2>1, <2>3, RequestTold, HookTold
  <2>4. CASE \E e \in Edits : EditStep(e)
    BY <1>1, <2>2, <2>4, EditsTold
  <2>5. CASE Environment
    <3>1. UNCHANGED <<appt, ed>>
      BY <2>5 DEF Environment, PayerPays, HookRead, HoldExpires, HoldAges, PurgeExpiredHolds,
                  Fails, envVars, reqVars
    <3>2. UNCHANGED bump \/ \E p \in Procs : bump' = [bump EXCEPT ![p] = {}]
      BY <2>5 DEF Environment, PayerPays, HookRead, HoldExpires, HoldAges, PurgeExpiredHolds,
                  Fails, Forget, reqVars
    <3>3. \A p \in Procs : bump'[p] \subseteq told'
      BY <1>1, <3>2 DEF ToldInv, OnceInv, TypeInv, TypeOK
    <3>4. QED
      BY <1>1, <2>1, <3>1, <3>3, BumpedFrame
  <2>6. CASE UNCHANGED vars
    BY <1>1, <2>1, <2>2, <2>6, BumpedFrame DEF vars
  <2>7. QED
    BY <2>3, <2>4, <2>5, <2>6 DEF Next
<1>4. ASSUME NEW w \in Hooks, pc'[w] = "booking"
      PROVE  ProvSeen(w)' \subseteq told'
  <2>1. CASE HookDisplace(w)
    <3>1. /\ seen'[w] = Overlapping(From(job[w].req), To(job[w].req))
          /\ told' = told \cup Displaced(w)
      BY <2>1 DEF HookDisplace, Snapshot, Procs, ToldInv, OnceInv, TypeInv, TypeOK
    <3>2. QED
      BY <1>1, <3>1 DEF ProvSeen, Conflicts, Displaced, Overlapping, NoRow, IsProvisional
  <2>2. CASE pc[w] = "booking" /\ seen'[w] = seen[w]
    BY <1>1, <2>2 DEF ToldInv, ProvSeen, Conflicts, IsProvisional
  <2>3. QED
    BY <1>4, <2>1, <2>2, DisplaceBefore DEF ToldInv
<1>5. QED
  BY <1>1, <1>2, <1>3, <1>4 DEF ToldInv

(* Whoever lost a turn to a payer was sent the notice, whatever handlers    *)
(* fail and whatever stale copies of the turn are saved later.              *)
THEOREM BumpedIsToldHolds == Spec => []BumpedIsTold
<1>1. ToldInv => BumpedIsTold
  BY DEF ToldInv
<1>2. QED
  BY <1>1, ToldInit, ToldKept, PTL DEF Spec
-----------------------------------------------------------------------------
(* Paid places are never oversold, for any number of requests,              *)
(* notifications, services and failures.                                    *)
(* The hypothesis, without which the promise is false: every booking made   *)
(* without payment is provisional (book() checks outside the lock), and     *)
(* turns are closed but neither started twice nor moved (their saves are    *)
(* not guarded against a stale copy).                                       *)
Closing == {"noShow", "cancel", "clientCancel"}
FirmOnly ==
  /\ EditOps \subseteq Closing
  /\ \A sc \in Scenarios, r \in Requests : sc[r].kind = "free" => sc[r].provisional

AskFirm == \A r \in Requests : ask[r].provisional <=> ask[r].kind = "free"
(* Active turns stand where they were booked.                               *)
Placed == \A q \in Requests : appt[q].status \in ActiveStatuses =>
  appt[q].start = From(q) /\ appt[q].end = To(q)
EdClosing == \A e \in Edits : ed[e] # None => ed[e].op \in Closing /\ ed[e].at = "read"

Overlap(q, r) == From(q) < To(r) /\ To(q) > From(r)
(* The rows read under the lock are the firm turns there are.               *)
SeenFresh == \A r, q \in Requests :
  pc[r] = "locked" /\ Firm(q) /\ Overlap(q, r) => seen[r][q].status # "none"

Within(r, t) == From(r) <= t /\ t < To(r)
HasPlace(r, t) ==
  /\ \A q \in Requests : Occupies(q, t) => Service(q) = Service(r)
  /\ Cardinality(Taken(Service(r), t)) < Capacity[Service(r)]
(* What was found free is still free when the transaction commits.          *)
Granted == \A r \in Requests : pc[r] = "granted" =>
  \A t \in Nat : Within(r, t) => HasPlace(r, t)

FirmInv == OnceInv /\ AskFirm /\ Placed /\ EdClosing /\ SeenFresh /\ Granted
           /\ FirmWithinCapacity /\ FirmOneService

Held(q) == Firm(q) \/ hold[q] = "live"

LEMMA OccupiesHeld ==
  ASSUME Placed, NEW q \in Requests, NEW t
  PROVE  Occupies(q, t) <=> Held(q) /\ Within(q, t)
BY DEF Occupies, Held, Within, Firm, Placed

LEMMA TakenFinite ==
  ASSUME NEW s, NEW t
  PROVE  IsFiniteSet(Taken(s, t)) /\ Cardinality(Taken(s, t)) \in Nat
<1>1. Taken(s, t) \subseteq Requests
  BY DEF Taken
<1>2. QED
  BY <1>1, BookingAssumption, FS_Subset, FS_CardinalityType

LEMMA FirmInit == ASSUME FirmOnly, Init PROVE FirmInv
<1>1. OnceInv
  BY OnceInit
<1>2. AskFirm
  BY BookingAssumption DEF FirmOnly, AskFirm, Init
<1>3. \A q \in Requests : appt[q].status = "none" /\ hold[q] = "none" /\ pc[q] = "start"
  BY DEF Init, NoRows, NoRow, Procs
<1>4. Placed /\ EdClosing /\ SeenFresh /\ Granted
  BY <1>3 DEF Placed, EdClosing, SeenFresh, Granted, ActiveStatuses, Init
<1>5. \A q \in Requests : \A t : ~Occupies(q, t)
  BY <1>3 DEF Occupies, Firm, ActiveStatuses
<1>6. \A s, t : Taken(s, t) = {}
  BY <1>5 DEF Taken
<1>7. FirmWithinCapacity
  <2>1. \A s \in Services : 0 <= Capacity[s]
    BY BookingAssumption
  <2>2. QED
    BY <1>6, <2>1, FS_EmptySet DEF FirmWithinCapacity
<1>8. FirmOneService
  BY <1>5 DEF FirmOneService
<1>9. QED
  BY <1>1, <1>2, <1>4, <1>7, <1>8 DEF FirmInv
-----------------------------------------------------------------------------
(* What a step does to the turns: it seats nobody, or it seats one request. *)
Kept(q) == appt'[q].status \in ActiveStatuses =>
  /\ appt[q].status \in ActiveStatuses
  /\ appt'[q].start = appt[q].start /\ appt'[q].end = appt[q].end
Seats(r) == appt'[r] = Fresh(r) /\ \A q \in Requests \ {r} : Kept(q)
HoldsFade == \A q \in Requests : hold'[q] = "live" => hold[q] = "live"

LEMMA SeatedRow ==
  ASSUME TypeOK, NEW p \in Procs, NEW B, NEW r \in Requests,
         appt' = [WithBumped(p, B) EXCEPT ![r] = Fresh(r)]
  PROVE  Seats(r)
<1>1. appt'[r] = Fresh(r)
  BY DEF WithBumped
<1>2. \A q \in Requests \ {r} : appt'[q] = IF q \in B THEN Bumped(seen[p][q]) ELSE appt[q]
  BY DEF WithBumped
<1>3. \A q \in Requests : seen[p][q] \in Row
  BY DEF TypeOK
<1>4. \A row \in Row : Bumped(row).status = "Cancelled"
  BY DEF Bumped, Row
<1>5. \A q \in Requests \ {r} : q \in B => appt'[q].status = "Cancelled"
  BY <1>2, <1>3, <1>4
<1>6. QED
  BY <1>1, <1>2, <1>5 DEF Seats, Kept, ActiveStatuses

(* Calls that close turns never seat anybody.                               *)
LEMMA EditsClose ==
  ASSUME FirmInv, FirmOnly, NEW e \in Edits, EditStep(e), TypeOK'
  PROVE  (\A q \in Requests : Kept(q)) /\ EdClosing'
<1> USE DEF FirmInv, OnceInv, TypeInv
<1>1. ed[e] # None => ed[e] \in Edit /\ ed[e].op \in Closing /\ ed[e].at = "read"
  BY DEF TypeOK, EdClosing
<1>2. CASE \E op \in EditOps, q \in Requests : EditRead(e, op, q)
  <2>1. PICK op \in EditOps, q \in Requests : EditRead(e, op, q)
    BY <1>2
  <2>2. UNCHANGED appt
    BY <2>1 DEF EditRead, reqVars
  <2>3. ed' = [ed EXCEPT ![e] = [at |-> "read", op |-> op, req |-> q, row |-> appt[q]]]
    BY <2>1 DEF EditRead
  <2>4. EdClosing'
    BY <2>3 DEF EdClosing, FirmOnly, TypeOK
  <2>5. QED
    BY <2>2, <2>4 DEF Kept
<1>3. CASE EditClose(e)
  <2>1. PICK row \in Row : WriteRow(e, row) /\ row.status \notin ActiveStatuses
    <3>1. ed[e].row \in Row
      BY <1>1, <1>3 DEF EditClose, EditAt, Edit
    <3> DEFINE closed == IF ed[e].op = "noShow"
                         THEN [ed[e].row EXCEPT !.status = "NoShow", !.why = "noShow"]
                         ELSE [ed[e].row EXCEPT !.status = "Cancelled", !.why = "client"]
    <3>3. closed \in Row /\ closed.status \notin ActiveStatuses
      BY <3>1 DEF Row, ActiveStatuses, TerminalStatuses
    <3>4. WriteRow(e, closed)
      BY <1>3 DEF EditClose
    <3>5. QED
      BY <3>3, <3>4
  <2>2. \A q \in Requests : Kept(q)
    BY <2>1 DEF WriteRow, Kept, TypeOK
  <2>3. EdClosing'
    BY <1>3 DEF EditClose, EditEnds, EdClosing, TypeOK
  <2>4. QED
    BY <2>2, <2>3
<1>4. CASE EditComplete(e) \/ EditCash(e) \/ EditArrive(e) \/ EditReread(e) \/ EditStart(e)
           \/ (\E t \in Starts : EditCheckPlace(e, t)) \/ EditMove(e)
  BY <1>1, <1>4 DEF EditComplete, EditCash, EditArrive, EditReread, EditStart,
                    EditCheckPlace, EditMove, EditAt, Closing
<1>5. QED
  BY <1>2, <1>3, <1>4 DEF EditStep

(* The steps that seat a request or take a hold.                            *)
Seating == \/ \E r \in Requests : BookSave(r) \/ CashCommit(r) \/ MpCommit(r)
           \/ \E w \in Hooks : HookCommit(w)

LEMMA QuietSteps ==
  ASSUME FirmInv, FirmOnly, [Next]_vars, ~Seating, TypeOK'
  PROVE  (\A q \in Requests : Kept(q)) /\ HoldsFade /\ UNCHANGED late /\ EdClosing'
<1>1. CASE UNCHANGED <<appt, ed>> /\ HoldsFade /\ UNCHANGED late
  BY <1>1 DEF Kept, EdClosing, FirmInv
<1>2. ASSUME NEW r \in Requests, RequestStep(r)
      PROVE  UNCHANGED <<appt, ed>> /\ HoldsFade /\ UNCHANGED late
  <2>1. ~BookSave(r) /\ ~CashCommit(r) /\ ~MpCommit(r)
    BY DEF Seating
  <2>2. UNCHANGED <<appt, ed, late>>
    BY <1>2, <2>1 DEF RequestStep, BookReadTurns, BookReadHolds, DepositLock, DepositReject,
       DepositGrant, PreferenceOk, PreferenceFails, UndoPayment, envVars
  <2>3. UNCHANGED hold \/ hold' = [hold EXCEPT ![r] = "none"]
    BY <1>2, <2>1 DEF RequestStep, BookReadTurns, BookReadHolds, DepositLock, DepositReject,
       DepositGrant, PreferenceOk, PreferenceFails, UndoPayment
  <2>4. HoldsFade
    BY <2>3 DEF HoldsFade, FirmInv, OnceInv, TypeInv, TypeOK
  <2>5. QED
    BY <2>2, <2>4
<1>3. ASSUME NEW w \in Hooks, HookStep(w)
      PROVE  UNCHANGED <<appt, ed>> /\ HoldsFade /\ UNCHANGED late
  <2>1. ~HookCommit(w)
    BY DEF Seating
  <2>2. UNCHANGED <<appt, ed, late>>
    BY <1>3, <2>1 DEF HookStep, HookSave, HookLinked, HookRelease, HookLock, HookDisplace,
                      envVars
  <2>3. UNCHANGED hold \/ hold' = [hold EXCEPT ![job[w].req] = "none"]
    BY <1>3, <2>1 DEF HookStep, HookSave, HookLinked, HookRelease, HookLock, HookDisplace
  <2>4. HoldsFade
    BY <2>3 DEF HoldsFade, FirmInv, OnceInv, TypeInv, TypeOK
  <2>5. QED
    BY <2>2, <2>4
<1>4. ASSUME NEW e \in Edits, EditStep(e)
      PROVE  (\A q \in Requests : Kept(q)) /\ HoldsFade /\ UNCHANGED late /\ EdClosing'
  <2>1. UNCHANGED <<hold, late>>
    BY <1>4, EditFrame DEF editFrame, FirmInv, OnceInv, TypeInv
  <2>2. QED
    BY <1>4, <2>1, EditsClose DEF HoldsFade
<1>5. ASSUME Environment
      PROVE  UNCHANGED <<appt, ed>> /\ HoldsFade /\ UNCHANGED late
  <2>1. UNCHANGED <<appt, ed, late>>
    BY <1>5 DEF Environment, PayerPays, HookRead, HoldExpires, HoldAges, PurgeExpiredHolds,
                Fails, envVars, reqVars
  <2>2. CASE UNCHANGED hold
    BY <2>1, <2>2 DEF HoldsFade
  <2>3. CASE \E r \in Requests : HoldExpires(r) \/ HoldAges(r)
    BY <2>1, <2>3 DEF HoldsFade, HoldExpires, HoldAges, FirmInv, OnceInv, TypeInv, TypeOK
  <2>4. CASE PurgeExpiredHolds
    BY <2>1, <2>4 DEF HoldsFade, PurgeExpiredHolds
  <2>5. QED
    BY <1>5, <2>2, <2>3, <2>4 DEF Environment, PayerPays, HookRead, Fails, reqVars
<1>6. CASE UNCHANGED vars
  BY <1>1, <1>6 DEF vars, HoldsFade
<1>7. QED
  BY <1>1, <1>2, <1>3, <1>4, <1>5, <1>6 DEF Next

LEMMA BookSeats ==
  ASSUME FirmInv, NEW r \in Requests, BookSave(r)
  PROVE  /\ Seats(r) /\ IsProvisional(r) /\ HoldsFade /\ UNCHANGED <<late, ed>>
BY DEF BookSave, Seats, Kept, IsProvisional, HoldsFade, FirmInv, OnceInv, TypeInv, TypeOK,
       LabelOK, AskFirm, envVars

LEMMA CashSeats ==
  ASSUME FirmInv, NEW r \in Requests, CashCommit(r)
  PROVE  Seats(r) /\ HoldsFade /\ UNCHANGED <<late, ed>>
<1>1. r \in Procs /\ TypeOK
  BY DEF Procs, FirmInv, OnceInv, TypeInv
<1>2. QED
  BY <1>1, SeatedRow DEF CashCommit, HoldsFade, envVars

LEMMA MpHolds ==
  ASSUME FirmInv, NEW r \in Requests, MpCommit(r)
  PROVE  /\ UNCHANGED <<appt, late, ed>>
         /\ \A q \in Requests \ {r} : hold'[q] = hold[q]
BY DEF MpCommit, FirmInv, OnceInv, TypeInv, TypeOK, envVars

(* The turn a webhook makes takes the place its hold kept, or is late.      *)
LEMMA HookSeats ==
  ASSUME FirmInv, NEW w \in Hooks, HookCommit(w)
  PROVE  \E r \in Requests :
           /\ Seats(r) /\ UNCHANGED ed
           /\ hold' = [hold EXCEPT ![r] = "none"]
           /\ late' = IF hold[r] = "live" THEN late ELSE late \cup {r}
<1>1. w \in Procs /\ job[w].req \in Requests /\ TypeOK
  BY DEF HookCommit, FirmInv, OnceInv, TypeInv, HookHasJob, Job, Procs, Idle
<1>2. QED
  BY <1>1, SeatedRow DEF HookCommit

LEMMA PlacedKept ==
  ASSUME FirmInv, FirmOnly, [Next]_vars, TypeOK'
  PROVE  Placed' /\ EdClosing'
<1>1. UNCHANGED ask
  BY AskSame
<1>2. \A q \in Requests : (From(q))' = From(q) /\ (To(q))' = To(q)
  BY <1>1 DEF From, To
<1>3. ASSUME \A q \in Requests : Kept(q) PROVE Placed'
  BY <1>2, <1>3 DEF Placed, Kept, FirmInv
<1>4. ASSUME NEW r \in Requests, Seats(r) PROVE Placed'
  <2>1. \A q \in Requests \ {r} : appt'[q].status \in ActiveStatuses =>
          appt'[q].start = (From(q))' /\ appt'[q].end = (To(q))'
    BY <1>2, <1>4 DEF Placed, Kept, Seats, FirmInv
  <2>2. appt'[r].start = (From(r))' /\ appt'[r].end = (To(r))'
    BY <1>2, <1>4 DEF Seats, Fresh
  <2>3. QED
    BY <2>1, <2>2 DEF Placed
<1>5. CASE ~Seating
  BY <1>3, <1>5, QuietSteps
<1>6. UNCHANGED ed => EdClosing'
  BY DEF EdClosing, FirmInv
<1>7. CASE \E r \in Requests : MpCommit(r)
  BY <1>3, <1>6, <1>7, MpHolds DEF Kept
<1>8. QED
  BY <1>4, <1>5, <1>6, <1>7, BookSeats, CashSeats, HookSeats DEF Seating

(* Places are only taken by the commits under the lock.                     *)
LEMMA HeldKept ==
  ASSUME FirmInv, FirmOnly, [Next]_vars, TypeOK',
         \A r \in Requests : ~CashCommit(r) /\ ~MpCommit(r),
         NEW q \in Requests, Held(q)'
  PROVE  Held(q)
<1>1. UNCHANGED ask
  BY AskSame
<1>2. CASE ~Seating
  BY <1>1, <1>2, QuietSteps DEF Held, Firm, Kept, HoldsFade, IsProvisional
<1>3. CASE \E r \in Requests : BookSave(r)
  BY <1>1, <1>3, BookSeats DEF Held, Firm, Seats, Kept, HoldsFade, IsProvisional
<1>4. CASE \E w \in Hooks : HookCommit(w)
  <2>1. PICK r \in Requests :
           /\ Seats(r) /\ hold' = [hold EXCEPT ![r] = "none"]
           /\ late' = IF hold[r] = "live" THEN late ELSE late \cup {r}
    BY <1>4, HookSeats
  <2>2. hold \in [Requests -> {"none", "live", "expired", "stale"}]
    BY DEF FirmInv, OnceInv, TypeInv, TypeOK
  <2>3. QED
    BY <1>1, <2>1, <2>2 DEF Held, Firm, Seats, Kept, IsProvisional
<1>5. QED
  BY <1>2, <1>3, <1>4 DEF Seating

(* Nobody is seated firmly but under the lock.                              *)
LEMMA FirmKept ==
  ASSUME FirmInv, FirmOnly, [Next]_vars, TypeOK',
         \A r \in Requests : ~CashCommit(r), \A w \in Hooks : ~HookCommit(w),
         NEW q \in Requests, Firm(q)'
  PROVE  Firm(q)
<1>1. UNCHANGED ask
  BY AskSame
<1>2. CASE ~Seating
  BY <1>1, <1>2, QuietSteps DEF Firm, Kept, IsProvisional
<1>3. CASE \E r \in Requests : BookSave(r)
  BY <1>1, <1>3, BookSeats DEF Firm, Seats, Kept, IsProvisional
<1>4. CASE \E r \in Requests : MpCommit(r)
  BY <1>1, <1>4, MpHolds DEF Firm, IsProvisional
<1>5. QED
  BY <1>2, <1>3, <1>4 DEF Seating

LEMMA OccupiesKept ==
  ASSUME FirmInv, FirmOnly, [Next]_vars, TypeOK',
         \A r \in Requests : ~CashCommit(r) /\ ~MpCommit(r)
  PROVE  \A q \in Requests : \A t : Occupies(q, t)' => Occupies(q, t)
<1> SUFFICES ASSUME NEW q \in Requests, NEW t, Occupies(q, t)' PROVE Occupies(q, t)
  OBVIOUS
<1>1. Held(q)' /\ Within(q, t)'
  BY PlacedKept DEF Occupies, Held, Within, Firm, Placed
<1>2. Held(q)
  BY <1>1, HeldKept
<1>3. Within(q, t)
  BY <1>1, AskSame DEF Within, From, To
<1>4. QED
  BY <1>2, <1>3, OccupiesHeld DEF FirmInv

(* A commit takes its own interval and no more.                             *)
LEMMA CommitTakes ==
  ASSUME FirmInv, FirmOnly, [Next]_vars, TypeOK',
         NEW r \in Requests, CashCommit(r) \/ MpCommit(r)
  PROVE  \A q \in Requests : \A t :
           Occupies(q, t)' => Occupies(q, t) \/ (q = r /\ Within(r, t))
<1> SUFFICES ASSUME NEW q \in Requests, NEW t, Occupies(q, t)'
             PROVE  Occupies(q, t) \/ (q = r /\ Within(r, t))
  OBVIOUS
<1>1. Held(q)' /\ Within(q, t)'
  BY PlacedKept DEF Occupies, Held, Within, Firm, Placed
<1>2. Within(q, t)
  BY <1>1, AskSame DEF Within, From, To
<1>3. CASE q = r
  BY <1>2, <1>3
<1>4. CASE q # r
  <2>1. Kept(q) /\ (hold'[q] = "live" => hold[q] = "live") /\ UNCHANGED late
    BY <1>4, CashSeats, MpHolds DEF Seats, HoldsFade, Kept
  <2>2. Held(q)
    BY <1>1, <2>1, AskSame DEF Held, Firm, Kept, IsProvisional
  <2>3. QED
    BY <1>2, <2>2, OccupiesHeld DEF FirmInv
<1>5. QED
  BY <1>3, <1>4

LEMMA LockedBefore ==
  ASSUME FirmInv, [Next]_vars, NEW r \in Requests
  PROVE  /\ pc'[r] = "locked" =>
              DepositLock(r) \/ (pc[r] = "locked" /\ seen'[r] = seen[r])
         /\ pc'[r] = "granted" => DepositGrant(r) \/ pc[r] = "granted"
<1>1. r \in Procs /\ r \notin Hooks /\ \A w \in Hooks : w # r
  BY BookingAssumption DEF Procs
<1> USE <1>1 DEF FirmInv, OnceInv, TypeInv, TypeOK, Goto, Forget, Snapshot, Idle
<1>2. CASE UNCHANGED <<pc, seen>>
  BY <1>2
<1>3. ASSUME NEW q \in Requests, RequestStep(q), q # r
      PROVE  pc'[r] = pc[r] /\ seen'[r] = seen[r]
  BY <1>3 DEF RequestStep, BookReadTurns, BookReadHolds, BookSave, DepositLock,
     DepositReject, DepositGrant, CashCommit, MpCommit, PreferenceOk, PreferenceFails,
     UndoPayment
<1>4. CASE RequestStep(r)
  <2>1. /\ BookReadTurns(r) => pc'[r] = "read"
        /\ BookReadHolds(r) => pc'[r] \in {"rejected", "save"}
        /\ BookSave(r) => pc'[r] = "done"
    BY DEF BookReadTurns, BookReadHolds, BookSave
  <2>2. /\ DepositReject(r) => pc'[r] = "rejected"
        /\ DepositGrant(r) => pc'[r] = "granted"
        /\ DepositLock(r) => pc'[r] = "locked"
        /\ CashCommit(r) => pc'[r] = "done"
        /\ MpCommit(r) => pc'[r] = "checkout"
    BY DEF DepositReject, DepositGrant, DepositLock, CashCommit, MpCommit
  <2>3. /\ PreferenceOk(r) => pc'[r] = "done"
        /\ PreferenceFails(r) => pc'[r] = "undo"
        /\ UndoPayment(r) => pc'[r] = "rejected"
    BY DEF PreferenceOk, PreferenceFails, UndoPayment
  <2>4. QED
    BY <1>4, <2>1, <2>2, <2>3 DEF RequestStep
<1>5. ASSUME NEW w \in Hooks, HookStep(w)
      PROVE  pc'[r] = pc[r] /\ seen'[r] = seen[r]
  BY <1>5 DEF HookStep, HookSave, HookLinked, HookRelease, HookLock, HookDisplace,
     HookCommit, Answer
<1>6. ASSUME NEW e \in Edits, EditStep(e) PROVE UNCHANGED <<pc, seen>>
  BY <1>6, EditFrame DEF editFrame
<1>7. CASE Environment
  <2>1. CASE \E p \in Procs : Fails(p)
    BY <2>1 DEF Fails
  <2>2. CASE \E w \in Hooks, q \in Requests, o \in Outcomes : HookRead(w, q, o)
    BY <2>2 DEF HookRead
  <2>3. CASE UNCHANGED <<pc, seen>>
    BY <2>3
  <2>4. QED
    BY <1>7, <2>1, <2>2, <2>3 DEF Environment, PayerPays, HoldExpires, HoldAges,
       PurgeExpiredHolds, reqVars
<1>8. QED
  BY <1>2, <1>3, <1>4, <1>5, <1>6, <1>7 DEF Next, vars

(* Inside r's transaction nobody else commits a turn or a hold.             *)
LEMMA AloneInside ==
  ASSUME FirmInv, NEW r \in Requests, InTx(r)
  PROVE  /\ \A q \in Requests : CashCommit(q) \/ MpCommit(q) => q = r
         /\ \A w \in Hooks : ~HookCommit(w)
<1>1. /\ \A q \in Requests : q \in Procs
      /\ \A w \in Hooks : w \in Procs /\ w \notin Requests
  BY BookingAssumption DEF Procs
<1>2. \A p \in Procs : InTx(p) => p = r
  BY <1>1 DEF FirmInv, OnceInv, LockOK
<1>3. QED
  BY <1>1, <1>2 DEF CashCommit, MpCommit, HookCommit, InTx

LEMMA SeenKept ==
  ASSUME FirmInv, FirmOnly, [Next]_vars, TypeOK'
  PROVE  SeenFresh'
<1> SUFFICES ASSUME NEW r \in Requests, NEW q \in Requests,
                    pc'[r] = "locked", Firm(q)', Overlap(q, r)'
             PROVE  seen'[r][q].status # "none"
  BY DEF SeenFresh
<1>1. Overlap(q, r)
  BY AskSame DEF Overlap, From, To
<1>2. r \in Procs /\ r \notin Hooks
  BY BookingAssumption DEF Procs
<1>3. CASE DepositLock(r)
  <2>1. UNCHANGED <<appt, ask, late>>
    BY <1>3 DEF DepositLock
  <2>2. Firm(q)
    BY <2>1 DEF Firm, IsProvisional
  <2>3. seen'[r] = Overlapping(From(r), To(r))
    BY <1>2, <1>3 DEF DepositLock, Snapshot, FirmInv, OnceInv, TypeInv, TypeOK
  <2>4. Meets(appt[q], From(r), To(r)) /\ appt[q].status # "none"
    BY <1>1, <2>2 DEF Firm, Meets, Overlap, Placed, FirmInv, ActiveStatuses
  <2>5. QED
    BY <2>3, <2>4 DEF Overlapping
<1>4. CASE pc[r] = "locked" /\ seen'[r] = seen[r]
  <2>1. \A p \in Requests : CashCommit(p) \/ MpCommit(p) => p = r
    BY <1>4, AloneInside DEF InTx
  <2>2. \A w \in Hooks : ~HookCommit(w)
    BY <1>4, AloneInside DEF InTx
  <2>3. \A p \in Requests : ~CashCommit(p)
    BY <1>4, <2>1 DEF CashCommit
  <2>4. Firm(q)
    BY <2>2, <2>3, FirmKept
  <2>5. QED
    BY <1>1, <1>4, <2>4 DEF SeenFresh, FirmInv
<1>5. QED
  BY <1>3, <1>4, LockedBefore

(* What the grant counts is what is taken: FirmOccupied bounds the places   *)
(* taken at any instant of r's interval.                                    *)
LEMMA GrantFinds ==
  ASSUME FirmInv, NEW r \in Requests, pc[r] = "locked", ~DepositTaken(r),
         NEW t \in Nat, Within(r, t)
  PROVE  HasPlace(r, t)
<1> DEFINE T == SameService(r, Conflicts(r) \ ProvSeen(r))
           H == SameService(r, PendingHolds(r))
<1>1. \A q \in Requests : From(q) \in Nat /\ To(q) \in Nat
  <2>1. \A q \in Requests : ask[q] \in Ask
    BY DEF FirmInv, OnceInv, TypeInv, TypeOK
  <2>2. \A q \in Requests : /\ From(q) \in Nat /\ ask[q].extra \in Nat
                            /\ ask[q].service \in Services
    BY <2>1 DEF From, Ask
  <2>3. \A s \in Services : Duration[s] \in Nat
    BY BookingAssumption
  <2>4. \A q \in Requests : To(q) \in Nat
    BY <2>2, <2>3 DEF To, From
  <2>5. QED
    BY <2>2, <2>4
<1>2. ASSUME NEW q \in Requests, Occupies(q, t)
      PROVE  q \in Conflicts(r) \ ProvSeen(r) \/ q \in PendingHolds(r)
  <2>1. Held(q) /\ Within(q, t)
    BY <1>2, OccupiesHeld DEF FirmInv
  <2>2. Overlap(q, r)
    BY <1>1, <2>1 DEF Within, Overlap
  <2>3. CASE Firm(q)
    BY <2>2, <2>3 DEF SeenFresh, FirmInv, Conflicts, ProvSeen, Firm
  <2>4. CASE hold[q] = "live"
    BY <2>2, <2>4 DEF PendingHolds, Overlap
  <2>5. QED
    BY <2>1, <2>3, <2>4 DEF Held
<1>3. \A q \in Requests : Occupies(q, t) => Service(q) = Service(r)
  BY <1>2 DEF DepositTaken
<1>4. Taken(Service(r), t) \subseteq T \cup H
  BY <1>2 DEF Taken, SameService
<1>5. T \subseteq Requests /\ H \subseteq Requests
  BY DEF SameService, Conflicts, PendingHolds
<1>6. IsFiniteSet(T) /\ IsFiniteSet(H)
  BY <1>5, BookingAssumption, FS_Subset
<1>7. /\ IsFiniteSet(T \cup H) /\ IsFiniteSet(T \cap H)
      /\ Cardinality(T \cup H) = Cardinality(T) + Cardinality(H) - Cardinality(T \cap H)
  BY <1>6, FS_Union, FS_Intersection
<1>8. /\ Cardinality(T) \in Nat /\ Cardinality(H) \in Nat /\ Cardinality(T \cap H) \in Nat
  BY <1>6, <1>7, FS_CardinalityType
<1>9. Cardinality(Taken(Service(r), t)) <= Cardinality(T \cup H)
      /\ Cardinality(Taken(Service(r), t)) \in Nat
  BY <1>4, <1>7, FS_Subset, FS_CardinalityType
<1>10. Service(r) \in Services /\ Capacity[Service(r)] \in Nat
  BY BookingAssumption DEF FirmInv, OnceInv, TypeInv, TypeOK, Service, Ask
<1>11. Cardinality(T) + Cardinality(H) < Capacity[Service(r)]
  <2>1. ~(Cardinality(T) + Cardinality(H) >= Capacity[Service(r)])
    BY DEF DepositTaken, FirmOccupied
  <2>2. QED
    BY <1>8, <1>10, <2>1
<1>12. QED
  BY <1>3, <1>7, <1>8, <1>9, <1>10, <1>11 DEF HasPlace

LEMMA GrantedKept ==
  ASSUME FirmInv, FirmOnly, [Next]_vars, TypeOK'
  PROVE  Granted'
<1> SUFFICES ASSUME NEW r \in Requests, pc'[r] = "granted",
                    NEW t \in Nat, Within(r, t)'
             PROVE  HasPlace(r, t)'
  BY DEF Granted
<1>1. UNCHANGED ask
  BY AskSame
<1>2. Within(r, t)
  BY <1>1 DEF Within, From, To
<1>3. pc[r] = "locked" \/ pc[r] = "granted"
  BY LockedBefore DEF DepositGrant
<1>4. HasPlace(r, t)
  <2>1. CASE pc[r] = "granted"
    BY <1>2, <2>1 DEF FirmInv, Granted
  <2>2. CASE pc[r] # "granted"
    BY <1>2, <2>2, GrantFinds, LockedBefore DEF DepositGrant
  <2>3. QED
    BY <2>1, <2>2
<1>5. \A q \in Requests : ~CashCommit(q) /\ ~MpCommit(q)
  <2>1. \A q \in Requests : CashCommit(q) \/ MpCommit(q) => q = r
    BY <1>3, AloneInside DEF InTx
  <2>2. ~CashCommit(r) /\ ~MpCommit(r)
    BY DEF CashCommit, MpCommit, Goto, FirmInv, OnceInv, TypeInv, TypeOK, Procs
  <2>3. QED
    BY <2>1, <2>2
<1>6. \A q \in Requests : Occupies(q, t)' => Occupies(q, t)
  BY <1>5, OccupiesKept
<1>7. Taken(Service(r), t)' \subseteq Taken(Service(r), t)
  BY <1>1, <1>6 DEF Taken, Service
<1>8. IsFiniteSet(Taken(Service(r), t)) /\ Cardinality(Taken(Service(r), t)) \in Nat
  BY TakenFinite
<1>9. /\ Cardinality(Taken(Service(r), t)') <= Cardinality(Taken(Service(r), t))
      /\ Cardinality(Taken(Service(r), t)') \in Nat
  BY <1>7, <1>8, FS_Subset, FS_CardinalityType
<1>10. /\ Capacity[Service(r)]' = Capacity[Service(r)]
       /\ Capacity[Service(r)] \in Nat
  BY <1>1, BookingAssumption DEF FirmInv, OnceInv, TypeInv, TypeOK, Service, Ask
<1>11. Cardinality(Taken(Service(r), t)') < Capacity[Service(r)]'
  BY <1>4, <1>8, <1>9, <1>10 DEF HasPlace
<1>12. \A q \in Requests : Occupies(q, t)' => Service(q)' = Service(r)'
  BY <1>1, <1>4, <1>6 DEF HasPlace, Service
<1>13. QED
  BY <1>11, <1>12 DEF HasPlace

LEMMA AddOne ==
  ASSUME NEW S, IsFiniteSet(S), NEW x
  PROVE  /\ IsFiniteSet(S \cup {x}) /\ Cardinality(S \cup {x}) \in Nat
         /\ Cardinality(S \cup {x}) <= Cardinality(S) + 1
<1>0. Cardinality(S) \in Nat
  BY FS_CardinalityType
<1>1. CASE x \in S
  <2>1. S \cup {x} = S
    BY <1>1
  <2>2. IsFiniteSet(S \cup {x}) /\ Cardinality(S \cup {x}) = Cardinality(S)
    BY <2>1, Zenon
  <2>3. QED
    BY <1>0, <2>2
<1>2. CASE x \notin S
  <2>1. IsFiniteSet(S \cup {x}) /\ Cardinality(S \cup {x}) = Cardinality(S) + 1
    BY <1>2, FS_AddElement
  <2>2. QED
    BY <1>0, <2>1
<1>3. QED
  BY <1>1, <1>2

LEMMA PlacesKept ==
  ASSUME FirmInv, FirmOnly, [Next]_vars, TypeOK'
  PROVE  FirmWithinCapacity' /\ FirmOneService'
<1>1. UNCHANGED ask
  BY AskSame
<1>2. Instants' = Instants
  BY <1>1 DEF Instants, From
<1>3. \A q \in Requests : Service(q)' = Service(q)
  BY <1>1 DEF Service
<1>4. \A s \in Services : Capacity[s] \in Nat
  BY BookingAssumption
<1>5. CASE \A r \in Requests : ~CashCommit(r) /\ ~MpCommit(r)
  <2>1. \A q \in Requests : \A t : Occupies(q, t)' => Occupies(q, t)
    BY <1>5, OccupiesKept
  <2>2. FirmOneService'
    BY <1>2, <1>3, <2>1 DEF FirmOneService, FirmInv
  <2>3. \A s \in Services, t \in Instants : Cardinality(Taken(s, t)') <= Capacity[s]
    <3>1. SUFFICES ASSUME NEW s \in Services, NEW t \in Instants
                   PROVE  Cardinality(Taken(s, t)') <= Capacity[s]
      OBVIOUS
    <3>2. Taken(s, t)' \subseteq Taken(s, t)
      BY <1>3, <2>1 DEF Taken
    <3>3. Cardinality(Taken(s, t)') <= Cardinality(Taken(s, t))
          /\ Cardinality(Taken(s, t)') \in Nat
      BY <3>2, TakenFinite, FS_Subset, FS_CardinalityType
    <3>4. Cardinality(Taken(s, t)) <= Capacity[s]
      BY DEF FirmInv, FirmWithinCapacity
    <3>5. QED
      BY <1>4, <3>3, <3>4, TakenFinite
  <2>4. QED
    BY <1>2, <2>2, <2>3 DEF FirmWithinCapacity
<1>6. ASSUME NEW r \in Requests, CashCommit(r) \/ MpCommit(r)
      PROVE  FirmWithinCapacity' /\ FirmOneService'
  <2>1. \A q \in Requests : \A t :
          Occupies(q, t)' => Occupies(q, t) \/ (q = r /\ Within(r, t))
    BY <1>6, CommitTakes
  <2>2. \A t \in Instants : Within(r, t) => HasPlace(r, t)
    <3>1. \A q \in Requests : From(q) \in Nat
      BY AskType DEF FirmInv, OnceInv, TypeInv, TypeOK
    <3>2. Instants \subseteq Nat
      BY <3>1, BookingAssumption DEF Instants
    <3>3. QED
      BY <1>6, <3>2 DEF CashCommit, MpCommit, Granted, FirmInv
  <2>3. FirmOneService'
    <3>1. SUFFICES ASSUME NEW q \in Requests, NEW p \in Requests, NEW t \in Instants,
                          Occupies(q, t)', Occupies(p, t)'
                   PROVE  Service(q) = Service(p)
      BY <1>2, <1>3 DEF FirmOneService
    <3>2. CASE Within(r, t)
      BY <2>1, <2>2, <3>1, <3>2 DEF HasPlace
    <3>3. CASE ~Within(r, t)
      BY <2>1, <3>1, <3>3 DEF FirmOneService, FirmInv
    <3>4. QED
      BY <3>2, <3>3
  <2>4. \A s \in Services, t \in Instants : Cardinality(Taken(s, t)') <= Capacity[s]
    <3>1. SUFFICES ASSUME NEW s \in Services, NEW t \in Instants
                   PROVE  Cardinality(Taken(s, t)') <= Capacity[s]
      OBVIOUS
    <3>2. IsFiniteSet(Taken(s, t)) /\ Cardinality(Taken(s, t)) \in Nat
      BY TakenFinite
    <3>3. Cardinality(Taken(s, t)) <= Capacity[s]
      BY DEF FirmInv, FirmWithinCapacity
    <3>4. CASE Within(r, t) /\ s = Service(r)
      <4>1. Taken(s, t)' \subseteq Taken(s, t) \cup {r}
        BY <1>3, <2>1 DEF Taken
      <4>2. /\ IsFiniteSet(Taken(s, t) \cup {r})
            /\ Cardinality(Taken(s, t) \cup {r}) <= Cardinality(Taken(s, t)) + 1
            /\ Cardinality(Taken(s, t) \cup {r}) \in Nat
        BY <3>2, AddOne
      <4>3. /\ Cardinality(Taken(s, t)') <= Cardinality(Taken(s, t) \cup {r})
            /\ Cardinality(Taken(s, t)') \in Nat
        BY <4>1, <4>2, FS_Subset, FS_CardinalityType
      <4>4. Cardinality(Taken(s, t)) < Capacity[s]
        BY <2>2, <3>4 DEF HasPlace
      <4>5. QED
        BY <1>4, <3>2, <4>2, <4>3, <4>4
    <3>5. CASE ~(Within(r, t) /\ s = Service(r))
      <4>1. Taken(s, t)' \subseteq Taken(s, t)
        BY <1>3, <2>1, <3>5 DEF Taken
      <4>2. /\ Cardinality(Taken(s, t)') <= Cardinality(Taken(s, t))
            /\ Cardinality(Taken(s, t)') \in Nat
        BY <3>2, <4>1, FS_Subset, FS_CardinalityType
      <4>3. QED
        BY <1>4, <3>2, <3>3, <4>2
    <3>6. QED
      BY <3>4, <3>5
  <2>5. QED
    BY <1>2, <2>3, <2>4 DEF FirmWithinCapacity
<1>7. QED
  BY <1>5, <1>6

LEMMA FirmInvKept ==
  ASSUME FirmInv, FirmOnly, [Next]_vars
  PROVE  FirmInv'
<1>1. OnceInv'
  BY OnceKept DEF FirmInv
<1>2. TypeOK'
  BY <1>1 DEF OnceInv, TypeInv
<1>3. AskFirm'
  BY AskSame DEF FirmInv, AskFirm
<1>4. QED
  BY <1>1, <1>2, <1>3, PlacedKept, SeenKept, GrantedKept, PlacesKept DEF FirmInv

(* The inductive invariant behind the theorems about places: what a request *)
(* read under the lock is still all there is when it commits.               *)
THEOREM FirmInvariant ==
  ASSUME FirmOnly
  PROVE  Spec => []FirmInv
<1>1. Init => FirmInv
  BY FirmInit
<1>2. FirmInv /\ [Next]_vars => FirmInv'
  BY FirmInvKept
<1>3. QED
  BY <1>1, <1>2, PTL DEF Spec

(* bookWithDeposit never sells one place twice: at no instant do the firm   *)
(* turns and the live holds of a service exceed its capacity.               *)
THEOREM CapacityRespected ==
  ASSUME FirmOnly
  PROVE  Spec => []FirmWithinCapacity
<1>1. FirmInv => FirmWithinCapacity
  BY DEF FirmInv
<1>2. QED
  BY <1>1, FirmInvariant, PTL

(* Nor is the professional promised, firmly, to two services at once.       *)
THEOREM OnePlaceAtATime ==
  ASSUME FirmOnly
  PROVE  Spec => []FirmOneService
<1>1. FirmInv => FirmOneService
  BY DEF FirmInv
<1>2. QED
  BY <1>1, FirmInvariant, PTL
=============================================================================
