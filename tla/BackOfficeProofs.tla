-------------------------- MODULE BackOfficeProofs --------------------------
(* Theorems about the subscription of a professional and about the durable  *)
(* queue of notifications, for any number of calls, runs of the nightly     *)
(* job, workers, payments and notifications; and, with the proofs of the    *)
(* charge and of the accounts, the types of the run that takes one of them. *)
EXTENDS MCBackOffice, ChargeProofs, TenancyProofs
-----------------------------------------------------------------------------
(* The subscription.  The invariant: what a call or a run of the job holds, *)
(* and, while no stale copy was saved, what the row owes to the payments    *)
(* settled so far.                                                          *)
RenewOK(w) ==
  WriterAt(w, "renew") =>
    \E p \in subPays : /\ p.id = writer[w].id /\ p.from = writer[w].from
                       /\ writer[w].copy.end <= p.from
JobOK(j) ==
  job[j] # NoWork =>
    /\ job[j].now <= day
    /\ job[j].at # "overdue" => job[j].copy \in Sub
    /\ job[j].at = "expire" => job[j].copy.end < job[j].now
    /\ job[j].at = "block" => /\ job[j].copy.status = "past_due" /\ job[j].copy.grace \in Int
                              /\ job[j].copy.grace < job[j].now
PaysOK ==
  /\ \A p \in subPays : p.to = p.from + PeriodDays
  /\ \A p, q \in subPays : p.id = q.id => p = q
OverdueKnown == sub.status = "past_due" => sub.grace \in Int /\ sub.grace > sub.end + GraceDays
PaidCovered == \A p \in subPays : Settled(p) => p.to <= sub.end
Apart == \A p, q \in subPays : p # q /\ Settled(p) /\ Settled(q) => p.to <= q.from \/ q.to <= p.from
BlockedLate == sub.status = "blocked" => day > sub.end + GraceDays
RowOK == OverdueKnown /\ BlockedLate /\ PaidCovered /\ Apart

AccessInv ==
  /\ SubTypeOK /\ PaysOK
  /\ \A w \in Writers : RenewOK(w)
  /\ \A j \in Jobs : JobOK(j)
  /\ ~raced => RowOK
-----------------------------------------------------------------------------
LEMMA SubInitOK == ASSUME SubInit PROVE AccessInv
<1>1. SubTypeOK
  BY SubscriptionAssumption DEF SubInit, SubTypeOK, Sub, SubStatuses
<1>2. PaysOK /\ RowOK
  BY DEF SubInit, PaysOK, RowOK, OverdueKnown, BlockedLate, PaidCovered, Apart
<1>3. (\A w \in Writers : RenewOK(w)) /\ \A j \in Jobs : JobOK(j)
  BY DEF SubInit, RenewOK, WriterAt, JobOK
<1>. QED
  BY <1>1, <1>2, <1>3 DEF AccessInv

(* The row is left alone and no payment becomes settled.                    *)
LEMMA RowKept ==
  ASSUME AccessInv, sub' = sub, raced' = raced, day' \in Nat, day <= day',
         \A p \in subPays' : Settled(p)' => p \in subPays /\ Settled(p)
  PROVE  ~raced' => RowOK'
<1>1. day \in Nat /\ sub.end \in Nat /\ GraceDays \in Nat
  BY SubscriptionAssumption DEF AccessInv, SubTypeOK, Sub
<1>2. BlockedLate => BlockedLate'
  BY <1>1 DEF BlockedLate
<1>3. PaidCovered => PaidCovered'
  BY DEF PaidCovered
<1>4. Apart => Apart'
  BY DEF Apart
<1>5. OverdueKnown => OverdueKnown'
  BY DEF OverdueKnown
<1>. QED
  BY <1>2, <1>3, <1>4, <1>5 DEF AccessInv, RowOK

(* A run of the job goes on to work: the others are where they were.        *)
LEMMA JobsGo ==
  ASSUME AccessInv, NEW j \in Jobs, NEW work, JobGoes(j, work), day' = day,
         work # NoWork => work \in Job, JobOK(j)'
  PROVE  job' \in [Jobs -> Job \cup {NoWork}] /\ \A k \in Jobs : JobOK(k)'
<1>1. job' \in [Jobs -> Job \cup {NoWork}]
  BY DEF JobGoes, AccessInv, SubTypeOK
<1>2. ASSUME NEW k \in Jobs, k # j PROVE JobOK(k)'
  <2>1. job'[k] = job[k]
    BY <1>2 DEF JobGoes, AccessInv, SubTypeOK
  <2>. QED
    BY <2>1 DEF AccessInv, JobOK
<1>. QED
  BY <1>1, <1>2

LEMMA JobsStay ==
  ASSUME AccessInv, job' = job, day' \in Nat, day <= day'
  PROVE  \A k \in Jobs : JobOK(k)'
<1>1. ASSUME NEW k \in Jobs, job[k] # NoWork PROVE job[k].now \in Nat /\ day \in Nat
  BY <1>1 DEF AccessInv, SubTypeOK, Job
<1>. QED
  BY <1>1 DEF AccessInv, JobOK

LEMMA WritersStay ==
  ASSUME AccessInv, writer' = writer, subPays \subseteq subPays'
  PROVE  \A w \in Writers : RenewOK(w)'
  BY DEF AccessInv, RenewOK, WriterAt

LEMMA WritersGo ==
  ASSUME AccessInv, NEW w \in Writers, NEW v, writer' = [writer EXCEPT ![w] = v],
         v # NoWork => v \in Writer, subPays \subseteq subPays', RenewOK(w)'
  PROVE  writer' \in [Writers -> Writer \cup {NoWork}] /\ \A x \in Writers : RenewOK(x)'
<1>1. writer' \in [Writers -> Writer \cup {NoWork}]
  BY DEF AccessInv, SubTypeOK
<1>2. ASSUME NEW x \in Writers, x # w PROVE RenewOK(x)'
  <2>1. writer'[x] = writer[x]
    BY <1>2 DEF AccessInv, SubTypeOK
  <2>. QED
    BY <2>1 DEF AccessInv, RenewOK, WriterAt
<1>. QED
  BY <1>1, <1>2

(* Settled payments stay as they are while writers and losses do.           *)
LEMMA SettledStays ==
  ASSUME writer' = writer, lost' = lost, NEW p PROVE Settled(p)' <=> Settled(p)
  BY DEF Settled, WriterAt
-----------------------------------------------------------------------------
(* The steps of recordPayment.                                              *)

LEMMA RecordBeginsKeeps ==
  ASSUME AccessInv, NEW w \in Writers, NEW id \in Refs \cup Cash, NEW paid \in BOOLEAN,
         RecordBegins(w, id, paid)
  PROVE  AccessInv'
<1> DEFINE v == [at |-> "insert", id |-> id, paid |-> paid, copy |-> sub, from |-> 0]
<1>1. v \in Writer /\ v.at = "insert"
  BY DEF AccessInv, SubTypeOK, Writer
<1>2. writer' = [writer EXCEPT ![w] = v] /\ writer \in [Writers -> Writer \cup {NoWork}]
  BY DEF RecordBegins, AccessInv, SubTypeOK
<1> HIDE DEF v
<1>3. UNCHANGED <<sub, subPays, job, day, mpStatus, raced, lost, cuts>> /\ day \in Nat
  BY DEF RecordBegins, AccessInv, SubTypeOK
<1>4. RenewOK(w)' /\ ~WriterAt(w, "renew")'
  BY <1>1, <1>2 DEF RenewOK, WriterAt
<1>5. writer' \in [Writers -> Writer \cup {NoWork}] /\ \A x \in Writers : RenewOK(x)'
  BY <1>1, <1>2, <1>3, <1>4, WritersGo
<1>6. \A k \in Jobs : JobOK(k)'
  BY <1>3, JobsStay
<1>7. ASSUME NEW p \in subPays', Settled(p)' PROVE p \in subPays /\ Settled(p)
  <2>1. ASSUME NEW x \in Writers PROVE ~(WriterAt(x, "renew") /\ writer[x].id = p.id)
    <3>1. CASE x = w
      BY <3>1 DEF RecordBegins, WriterAt
    <3>2. CASE x # w
      <4>1. writer'[x] = writer[x]
        BY <1>2, <3>2
      <4>. QED
        BY <4>1, <1>7 DEF Settled, WriterAt
    <3>. QED
      BY <3>1, <3>2
  <2>. QED
    BY <2>1, <1>3, <1>7 DEF Settled
<1>8. ~raced' => RowOK'
  BY <1>3, <1>7, RowKept
<1>. QED
  BY <1>3, <1>5, <1>6, <1>8 DEF AccessInv, SubTypeOK, PaysOK

(* A call that was not about to renew ends, or stays what it is.            *)
LEMMA PeriodType ==
  ASSUME AccessInv, NEW w \in Writers, writer[w] # NoWork
  PROVE  /\ writer[w] \in Writer /\ writer[w].copy \in Sub /\ writer[w].copy.end \in Nat
         /\ writer[w].from \in Nat /\ writer[w].id \in Refs \cup Cash /\ writer[w].paid \in BOOLEAN
         /\ PeriodStart(writer[w].copy) \in Nat /\ writer[w].copy.end <= PeriodStart(writer[w].copy)
<1>1. writer[w] \in Writer /\ day \in Nat
  BY DEF AccessInv, SubTypeOK
<1>2. /\ writer[w].copy \in Sub /\ writer[w].copy.end \in Nat
      /\ writer[w].from \in Nat /\ writer[w].id \in Refs \cup Cash /\ writer[w].paid \in BOOLEAN
  BY <1>1 DEF Writer, Sub
<1>. QED
  BY <1>1, <1>2 DEF PeriodStart

LEMMA RecordInsertKeeps ==
  ASSUME AccessInv, NEW w \in Writers, RecordInsert(w) PROVE AccessInv'
<1> DEFINE from == PeriodStart(writer[w].copy)
           p == [id |-> writer[w].id, paid |-> writer[w].paid, from |-> from, to |-> from + PeriodDays]
           v == [writer[w] EXCEPT !.at = "renew", !.from = from]
<1>1. writer[w] # NoWork /\ writer[w].at = "insert"
  BY DEF RecordInsert, WriterAt
<1>2. /\ writer[w] \in Writer /\ writer[w].copy.end \in Nat /\ from \in Nat
      /\ writer[w].id \in Refs \cup Cash /\ writer[w].paid \in BOOLEAN
      /\ writer[w].copy.end <= from
  BY <1>1, PeriodType
<1>3. /\ p \in SubPay /\ p.to = p.from + PeriodDays /\ p.from = from
      /\ p.id = writer[w].id /\ p.paid = writer[w].paid
  BY <1>2, SubscriptionAssumption DEF SubPay
<1>4. v \in Writer /\ v.at = "renew" /\ v.id = writer[w].id /\ v.from = from /\ v.copy = writer[w].copy
  BY <1>2 DEF Writer
<1>5. /\ UNCHANGED <<sub, job, day, mpStatus, raced, lost, cuts>> /\ day \in Nat
      /\ writer \in [Writers -> Writer \cup {NoWork}]
  BY DEF RecordInsert, AccessInv, SubTypeOK
<1>6. \/ Recorded(p.id) /\ subPays' = subPays /\ writer' = [writer EXCEPT ![w] = NoWork]
      \/ ~Recorded(p.id) /\ ~p.paid /\ subPays' = subPays \cup {p} /\ writer' = [writer EXCEPT ![w] = NoWork]
      \/ ~Recorded(p.id) /\ p.paid /\ subPays' = subPays \cup {p} /\ writer' = [writer EXCEPT ![w] = v]
  BY <1>3, <1>5 DEF RecordInsert, WriterDone
<1> HIDE DEF p, v, from
<1>7. subPays \subseteq subPays' /\ subPays' \subseteq SubPay /\ PaysOK'
  BY <1>3, <1>6 DEF AccessInv, SubTypeOK, PaysOK, Recorded
<1>8. \A k \in Jobs : JobOK(k)'
  BY <1>5, JobsStay
<1>9. writer' \in [Writers -> Writer \cup {NoWork}] /\ \A x \in Writers : RenewOK(x)'
  <2>1. CASE writer' = [writer EXCEPT ![w] = NoWork]
    <3>1. RenewOK(w)'
      BY <2>1, <1>5 DEF RenewOK, WriterAt
    <3>. QED
      BY <2>1, <3>1, <1>7, WritersGo
  <2>2. CASE writer' = [writer EXCEPT ![w] = v] /\ subPays' = subPays \cup {p}
    <3>1. writer'[w] = v
      BY <2>2, <1>5
    <3>2. RenewOK(w)'
      BY <2>2, <3>1, <1>2, <1>3, <1>4 DEF RenewOK
    <3>. QED
      BY <2>2, <3>2, <1>4, <1>7, WritersGo
  <2>. QED
    BY <2>1, <2>2, <1>6
<1>10. ASSUME NEW q \in subPays', Settled(q)' PROVE q \in subPays /\ Settled(q)
  <2>1. q \in subPays
    <3>1. CASE writer' = [writer EXCEPT ![w] = v] /\ subPays' = subPays \cup {p} /\ q = p
      <4>1. writer'[w] = v /\ v # NoWork
        BY <3>1, <1>4, <1>5, SubscriptionAssumption
      <4>2. WriterAt(w, "renew")' /\ writer'[w].id = p.id
        BY <4>1, <1>3, <1>4 DEF WriterAt
      <4>. QED
        BY <4>2, <1>10, <3>1 DEF Settled
    <3>2. CASE ~p.paid /\ q = p
      BY <3>2, <1>10 DEF Settled
    <3>. QED
      BY <3>1, <3>2, <1>6
  <2>2. ASSUME NEW x \in Writers PROVE ~(WriterAt(x, "renew") /\ writer[x].id = q.id)
    <3>1. CASE x = w
      BY <3>1, <1>1 DEF WriterAt
    <3>2. CASE x # w
      <4>1. writer'[x] = writer[x]
        BY <1>5, <1>6, <3>2
      <4>. QED
        BY <4>1, <1>10 DEF Settled, WriterAt
    <3>. QED
      BY <3>1, <3>2
  <2>. QED
    BY <2>1, <2>2, <1>5, <1>10 DEF Settled
<1>11. ~raced' => RowOK'
  BY <1>5, <1>10, RowKept
<1>. QED
  BY <1>5, <1>7, <1>8, <1>9, <1>11 DEF AccessInv, SubTypeOK

(* The renewal of a copy that was not stale: the period paid for starts     *)
(* when every period settled before has ended, and the row covers it.       *)
LEMMA RecordRenewKeeps ==
  ASSUME AccessInv, NEW w \in Writers, RecordRenew(w) PROVE AccessInv'
<1> DEFINE c == writer[w].copy   to == writer[w].from + PeriodDays   new == Renewed(c, to)
<1>1. writer[w] # NoWork /\ WriterAt(w, "renew")
  BY DEF RecordRenew, WriterAt
<1>2. c \in Sub /\ c.end \in Nat /\ writer[w].from \in Nat
  BY <1>1, PeriodType
<1>3. to \in Nat /\ writer[w].from <= to
  BY <1>2, SubscriptionAssumption
<1>4. new \in Sub /\ new.status = "active" /\ new.end = to
  BY <1>2, <1>3 DEF Renewed, Sub, SubStatuses
<1>5. /\ UNCHANGED <<subPays, job, day, mpStatus, lost, cuts>> /\ day \in Nat
      /\ sub' = new /\ raced' = (raced \/ c # sub) /\ raced \in BOOLEAN
      /\ writer' = [writer EXCEPT ![w] = NoWork] /\ writer \in [Writers -> Writer \cup {NoWork}]
  BY DEF RecordRenew, SaveSub, WriterDone, AccessInv, SubTypeOK
<1>6. PICK p \in subPays : /\ p.id = writer[w].id /\ p.from = writer[w].from
                           /\ c.end <= p.from
  BY <1>1 DEF AccessInv, RenewOK
<1> HIDE DEF new, to, c
<1>7. \A k \in Jobs : JobOK(k)'
  BY <1>5, JobsStay
<1>8. writer' \in [Writers -> Writer \cup {NoWork}] /\ \A x \in Writers : RenewOK(x)'
  <2>1. RenewOK(w)'
    BY <1>5 DEF RenewOK, WriterAt
  <2>. QED
    BY <1>5, <2>1, WritersGo
<1>9. ASSUME NEW q \in subPays, Settled(q)', q # p PROVE Settled(q)
  <2>1. q.id # p.id
    BY <1>9 DEF AccessInv, PaysOK
  <2>2. ASSUME NEW x \in Writers PROVE ~(WriterAt(x, "renew") /\ writer[x].id = q.id)
    <3>1. CASE x = w
      BY <2>1, <3>1, <1>6
    <3>2. CASE x # w
      <4>1. writer'[x] = writer[x]
        BY <1>5, <3>2
      <4>. QED
        BY <4>1, <1>9 DEF Settled, WriterAt
    <3>. QED
      BY <3>1, <3>2
  <2>. QED
    BY <2>2, <1>5, <1>9 DEF Settled
<1>10. ASSUME ~raced' PROVE RowOK'
  <2>1. ~raced /\ c = sub
    BY <1>10, <1>5
  <2>2. RowOK /\ PaysOK
    BY <2>1 DEF AccessInv
  <2>3. OverdueKnown' /\ BlockedLate'
    BY <1>4, <1>5 DEF OverdueKnown, BlockedLate
  <2>4. p.to = to /\ sub'.end = to /\ sub.end <= p.from /\ sub.end \in Nat /\ p.from \in Nat
    BY <1>2, <1>4, <1>5, <1>6, <2>1, <2>2 DEF PaysOK, to
  <2>5. \A q \in subPays : q.to \in Nat /\ q.from \in Nat
    BY DEF AccessInv, SubTypeOK, SubPay
  <2>6. \A q \in subPays : Settled(q)' /\ q # p => Settled(q) /\ q.to <= sub.end
    BY <2>2, <1>9 DEF RowOK, PaidCovered
  <2>7. \A q \in subPays : Settled(q)' => q.to <= sub'.end
    BY <2>4, <2>5, <2>6, <1>3, <1>6
  <2>8. \A q \in subPays : Settled(q)' /\ q # p => q.to <= p.from
    BY <2>4, <2>5, <2>6
  <2>9. PaidCovered'
    BY <2>7, <1>5 DEF PaidCovered
  <2>10. Apart'
    BY <2>2, <2>6, <2>8, <1>5 DEF RowOK, Apart
  <2>. QED
    BY <2>3, <2>9, <2>10 DEF RowOK
<1>. QED
  BY <1>4, <1>5, <1>7, <1>8, <1>10 DEF AccessInv, SubTypeOK, PaysOK

LEMMA RecordCutKeeps ==
  ASSUME AccessInv, NEW w \in Writers, RecordCut(w) PROVE AccessInv'
<1>1. /\ UNCHANGED <<sub, subPays, job, day, mpStatus, raced>> /\ day \in Nat /\ cuts' \in Nat
      /\ writer[w] # NoWork
      /\ lost' = IF writer[w].at = "renew" THEN lost \cup {writer[w].id} ELSE lost
      /\ writer' = [writer EXCEPT ![w] = NoWork] /\ writer \in [Writers -> Writer \cup {NoWork}]
  BY DEF RecordCut, WriterDone, AccessInv, SubTypeOK
<1>2. lost \subseteq lost' /\ lost' \subseteq Refs \cup Cash
  BY <1>1, PeriodType DEF AccessInv, SubTypeOK
<1>3. \A k \in Jobs : JobOK(k)'
  BY <1>1, JobsStay
<1>4. writer' \in [Writers -> Writer \cup {NoWork}] /\ \A x \in Writers : RenewOK(x)'
  <2>1. RenewOK(w)'
    BY <1>1 DEF RenewOK, WriterAt
  <2>. QED
    BY <1>1, <2>1, WritersGo
<1>5. ASSUME NEW q \in subPays', Settled(q)' PROVE q \in subPays /\ Settled(q)
  <2>1. ASSUME NEW x \in Writers PROVE ~(WriterAt(x, "renew") /\ writer[x].id = q.id)
    <3>1. CASE x = w
      BY <3>1, <1>1, <1>5 DEF Settled, WriterAt
    <3>2. CASE x # w
      <4>1. writer'[x] = writer[x]
        BY <1>1, <3>2
      <4>. QED
        BY <4>1, <1>5 DEF Settled, WriterAt
    <3>. QED
      BY <3>1, <3>2
  <2>. QED
    BY <2>1, <1>1, <1>2, <1>5 DEF Settled
<1>6. ~raced' => RowOK'
  BY <1>1, <1>5, RowKept
<1>. QED
  BY <1>1, <1>2, <1>3, <1>4, <1>6 DEF AccessInv, SubTypeOK, PaysOK
-----------------------------------------------------------------------------
(* The steps of the daily job, of time and of the payer.                    *)

LEMMA JobType ==
  ASSUME AccessInv, NEW j \in Jobs, job[j] # NoWork
  PROVE  /\ job[j] \in Job /\ job[j].now \in Nat /\ day \in Nat /\ job[j].now <= day
         /\ JobOK(j) /\ sub \in Sub /\ sub.end \in Nat /\ GraceDays \in Nat
  BY SubscriptionAssumption DEF AccessInv, SubTypeOK, Job, JobOK, Sub

(* The job read, or ended: the row is left alone.                           *)
LEMMA JobReads ==
  ASSUME AccessInv, NEW j \in Jobs, NEW work, JobGoes(j, work), UNCHANGED <<sub, raced>>,
         UNCHANGED <<subPays, writer, day, mpStatus, lost>>, cuts' \in Nat,
         work # NoWork => work \in Job, JobOK(j)'
  PROVE  AccessInv'
<1>1. job' \in [Jobs -> Job \cup {NoWork}] /\ \A k \in Jobs : JobOK(k)'
  BY JobsGo
<1>2. \A w \in Writers : RenewOK(w)'
  BY WritersStay
<1>3. day \in Nat /\ \A p : Settled(p)' <=> Settled(p)
  BY SettledStays DEF AccessInv, SubTypeOK
<1>4. ~raced' => RowOK'
  BY <1>3, RowKept
<1>. QED
  BY <1>1, <1>2, <1>4 DEF AccessInv, SubTypeOK, PaysOK

LEMMA JobStartsKeeps == ASSUME AccessInv, NEW j \in Jobs, JobStarts(j) PROVE AccessInv'
<1> DEFINE work == IF sub.status \in {"active", "trial"} /\ sub.end < day
                   THEN [at |-> "expire", copy |-> sub, now |-> day]
                   ELSE [at |-> "overdue", copy |-> NoWork, now |-> day]
<1>1. JobGoes(j, work) /\ UNCHANGED <<sub, raced>> /\ UNCHANGED <<subPays, writer, day, mpStatus, lost, cuts>>
  BY DEF JobStarts, jobFrame
<1>2. sub \in Sub /\ sub.end \in Nat /\ day \in Nat /\ cuts \in Nat /\ job \in [Jobs -> Job \cup {NoWork}]
  BY DEF AccessInv, SubTypeOK, Sub
<1>3. /\ work \in Job /\ work.now = day
      /\ work.at = "expire" => work.copy \in Sub /\ work.copy.end < day
      /\ work.at \in {"expire", "overdue"}
  BY <1>2 DEF Job
<1> HIDE DEF work
<1>4. JobOK(j)'
  BY <1>1, <1>2, <1>3 DEF JobOK, JobGoes
<1>. QED
  BY <1>1, <1>2, <1>3, <1>4, JobReads

LEMMA JobReadsOverdueKeeps == ASSUME AccessInv, NEW j \in Jobs, JobReadsOverdue(j) PROVE AccessInv'
<1> DEFINE work == IF Overdue(job[j].now) THEN [job[j] EXCEPT !.at = "block", !.copy = sub] ELSE NoWork
<1>1. JobGoes(j, work) /\ UNCHANGED <<sub, raced>> /\ UNCHANGED <<subPays, writer, day, mpStatus, lost, cuts>>
  BY DEF JobReadsOverdue, jobFrame
<1>2. job[j] # NoWork
  BY DEF JobReadsOverdue, JobAt
<1>3. /\ job[j] \in Job /\ job[j].now \in Nat /\ job[j].now <= day /\ sub \in Sub /\ cuts \in Nat
      /\ job \in [Jobs -> Job \cup {NoWork}]
  BY <1>2, JobType DEF AccessInv, SubTypeOK
<1>4. /\ work # NoWork => /\ work \in Job /\ work.at = "block" /\ work.copy = sub /\ work.now = job[j].now
                          /\ sub.status = "past_due" /\ sub.grace # NoWork /\ sub.grace < job[j].now
  BY <1>3 DEF Overdue, Job
<1>5. sub.grace # NoWork => sub.grace \in Int
  BY <1>3 DEF Sub
<1> HIDE DEF work
<1>6. job'[j] = work
  BY <1>1, <1>3 DEF JobGoes
<1>7. JobOK(j)'
  BY <1>1, <1>3, <1>4, <1>5, <1>6 DEF JobOK
<1>. QED
  BY <1>1, <1>3, <1>4, <1>7, JobReads

LEMMA JobCutKeeps == ASSUME AccessInv, NEW j \in Jobs, JobCut(j) PROVE AccessInv'
<1>1. /\ JobGoes(j, NoWork) /\ UNCHANGED <<sub, raced>> /\ UNCHANGED <<subPays, writer, day, mpStatus, lost>>
      /\ cuts' \in Nat
  BY DEF JobCut, AccessInv, SubTypeOK
<1>2. JobOK(j)'
  BY <1>1 DEF JobOK, JobGoes, AccessInv, SubTypeOK
<1>. QED
  BY <1>1, <1>2, JobReads

(* The job saved a copy of the row with another status.                     *)
LEMMA JobSaves ==
  ASSUME AccessInv, NEW j \in Jobs, job[j] # NoWork, NEW new \in Sub, NEW work,
         SaveSub(job[j].copy, new), JobGoes(j, work), UNCHANGED jobFrame,
         work # NoWork => work \in Job, JobOK(j)', new.end = job[j].copy.end,
         ~raced /\ job[j].copy = sub /\ RowOK => OverdueKnown' /\ BlockedLate'
  PROVE  AccessInv'
<1>1. /\ UNCHANGED <<subPays, writer, day, mpStatus, lost, cuts>>
      /\ sub' = new /\ raced' = (raced \/ job[j].copy # sub) /\ raced' \in BOOLEAN
  BY DEF jobFrame, SaveSub, AccessInv, SubTypeOK
<1>2. job' \in [Jobs -> Job \cup {NoWork}] /\ \A k \in Jobs : JobOK(k)'
  BY <1>1, JobsGo
<1>3. \A w \in Writers : RenewOK(w)'
  BY <1>1, WritersStay
<1>4. \A p : Settled(p)' <=> Settled(p)
  BY <1>1, SettledStays
<1>5. ASSUME ~raced' PROVE RowOK'
  <2>1. ~raced /\ job[j].copy = sub /\ RowOK /\ sub'.end = sub.end
    BY <1>1, <1>5 DEF AccessInv
  <2>2. PaidCovered'
    BY <2>1, <1>1, <1>4 DEF RowOK, PaidCovered
  <2>3. Apart'
    BY <2>1, <1>1, <1>4 DEF RowOK, Apart
  <2>. QED
    BY <2>1, <2>2, <2>3 DEF RowOK
<1>. QED
  BY <1>1, <1>2, <1>3, <1>5 DEF AccessInv, SubTypeOK, PaysOK

LEMMA JobExpiresKeeps == ASSUME AccessInv, NEW j \in Jobs, JobExpires(j) PROVE AccessInv'
<1> DEFINE c == job[j].copy
           new == [c EXCEPT !.status = "past_due", !.grace = job[j].now + GraceDays]
           work == [job[j] EXCEPT !.at = "overdue", !.copy = NoWork]
<1>1. job[j] # NoWork /\ job[j].at = "expire" /\ SaveSub(c, new) /\ JobGoes(j, work) /\ UNCHANGED jobFrame
  BY DEF JobExpires, JobAt
<1>2. /\ job[j] \in Job /\ job[j].now \in Nat /\ job[j].now <= day /\ GraceDays \in Nat /\ day \in Nat
      /\ c \in Sub /\ c.end < job[j].now /\ job \in [Jobs -> Job \cup {NoWork}]
  BY <1>1, JobType DEF JobOK, AccessInv, SubTypeOK
<1>3. c.end \in Nat /\ job[j].now + GraceDays \in Int
  BY <1>2 DEF Sub
<1>4. /\ new \in Sub /\ new.status = "past_due" /\ new.grace = job[j].now + GraceDays /\ new.end = c.end
      /\ work \in Job /\ work.at = "overdue" /\ work.now = job[j].now
  BY <1>2, <1>3 DEF Sub, SubStatuses, Job
<1> HIDE DEF work, new
<1>5. job'[j] = work /\ sub' = new /\ day' = day
  BY <1>1, <1>2 DEF JobGoes, SaveSub, jobFrame
<1>6. JobOK(j)'
  BY <1>2, <1>4, <1>5 DEF JobOK
<1>7. OverdueKnown' /\ BlockedLate'
  BY <1>2, <1>3, <1>4, <1>5 DEF OverdueKnown, BlockedLate
<1>. QED
  BY <1>1, <1>4, <1>6, <1>7, JobSaves

(* The window of the copy had passed when the run started, and so it has    *)
(* when the row is blocked.                                                 *)
LEMMA JobBlocksKeeps == ASSUME AccessInv, NEW j \in Jobs, JobBlocks(j) PROVE AccessInv'
<1> DEFINE c == job[j].copy
           new == [c EXCEPT !.status = "blocked"]
<1>1. job[j] # NoWork /\ job[j].at = "block" /\ SaveSub(c, new) /\ JobGoes(j, NoWork) /\ UNCHANGED jobFrame
  BY DEF JobBlocks, JobAt
<1>2. /\ job[j].now \in Nat /\ job[j].now <= day /\ GraceDays \in Nat /\ day \in Nat
      /\ c \in Sub /\ c.status = "past_due" /\ c.grace \in Int /\ c.grace < job[j].now
      /\ job \in [Jobs -> Job \cup {NoWork}]
  BY <1>1, JobType DEF JobOK, AccessInv, SubTypeOK
<1>3. new \in Sub /\ new.status = "blocked" /\ new.end = c.end /\ c.end \in Nat
  BY <1>2 DEF Sub, SubStatuses
<1> HIDE DEF new
<1>4. job'[j] = NoWork /\ sub' = new /\ day' = day
  BY <1>1, <1>2 DEF JobGoes, SaveSub, jobFrame
<1>5. JobOK(j)'
  BY <1>4 DEF JobOK
<1>6. ASSUME c = sub, RowOK PROVE OverdueKnown' /\ BlockedLate'
  <2>1. c.grace > c.end + GraceDays
    BY <1>2, <1>6 DEF RowOK, OverdueKnown
  <2>2. BlockedLate'
    BY <2>1, <1>2, <1>3, <1>4 DEF BlockedLate
  <2>3. OverdueKnown'
    BY <1>3, <1>4 DEF OverdueKnown
  <2>. QED
    BY <2>2, <2>3
<1>. QED
  BY <1>1, <1>3, <1>5, <1>6, JobSaves

LEMMA OthersKeep ==
  ASSUME AccessInv, UNCHANGED <<sub, subPays, writer, job, raced, lost, cuts>>,
         day' \in Nat, day <= day', mpStatus' \in [Refs -> {"none", "open", "approved"}]
  PROVE  AccessInv'
<1>1. (\A k \in Jobs : JobOK(k)') /\ \A w \in Writers : RenewOK(w)'
  BY JobsStay, WritersStay
<1>2. \A p : Settled(p)' <=> Settled(p)
  BY SettledStays
<1>3. ~raced' => RowOK'
  BY <1>2, RowKept
<1>. QED
  BY <1>1, <1>3 DEF AccessInv, SubTypeOK, PaysOK

LEMMA SubStepKeeps == ASSUME AccessInv, [SubNext]_subVars PROVE AccessInv'
<1>1. ASSUME NEW r \in Refs, NEW s \in {"open", "approved"}, ProfessionalPays(r, s) PROVE AccessInv'
  BY <1>1, OthersKeep DEF ProfessionalPays, AccessInv, SubTypeOK
<1>2. ASSUME NEW w \in Writers, NEW r \in Refs, SubWebhook(w, r) PROVE AccessInv'
  BY <1>2, RecordBeginsKeeps DEF SubWebhook
<1>3. ASSUME NEW w \in Writers, NEW c \in Cash, MarkCashPaid(w, c) PROVE AccessInv'
  BY <1>3, RecordBeginsKeeps DEF MarkCashPaid
<1>4. CASE DayPasses
  BY <1>4, OthersKeep DEF DayPasses, AccessInv, SubTypeOK
<1>5. CASE UNCHANGED subVars
  BY <1>5, OthersKeep DEF subVars, AccessInv, SubTypeOK
<1>6. ASSUME NEW w \in Writers, RecordInsert(w) \/ RecordRenew(w) \/ RecordCut(w) PROVE AccessInv'
  BY <1>6, RecordInsertKeeps, RecordRenewKeeps, RecordCutKeeps
<1>7. ASSUME NEW j \in Jobs, JobStarts(j) \/ JobExpires(j) \/ JobReadsOverdue(j) \/ JobBlocks(j) \/ JobCut(j)
      PROVE  AccessInv'
  BY <1>7, JobStartsKeeps, JobExpiresKeeps, JobReadsOverdueKeeps, JobBlocksKeeps, JobCutKeeps
<1>. QED
  BY <1>1, <1>2, <1>3, <1>4, <1>5, <1>6, <1>7 DEF SubNext

(* The invariant of the subscription, from which the next three follow.     *)
THEOREM AccessInvariant == SubSpec => []AccessInv
<1>1. SubInit => AccessInv
  BY SubInitOK
<1>2. AccessInv /\ [SubNext]_subVars => AccessInv'
  BY SubStepKeeps
<1>. QED
  BY <1>1, <1>2, PTL DEF SubSpec

(* Nobody is blocked before the window of grace, unless a stale copy of the *)
(* row was saved (SubscriptionsService.runDailyTransitions).                *)
THEOREM BlockedAfterGraceHolds == SubSpec => []BlockedAfterGrace
<1>1. AccessInv => BlockedAfterGrace
  BY DEF AccessInv, RowOK, BlockedLate, BlockedAfterGrace
<1>. QED
  BY <1>1, AccessInvariant, PTL

(* The days of two settled payments never overlap, unless a stale copy of   *)
(* the row was saved: nobody pays a day twice (SubscriptionsService.renew). *)
THEOREM PaidPeriodsApartHolds == SubSpec => []PaidPeriodsApart
<1>1. AccessInv => PaidPeriodsApart
  BY DEF AccessInv, RowOK, Apart, PaidPeriodsApart
<1>. QED
  BY <1>1, AccessInvariant, PTL

(* Whoever settled a payment has access for its days, unless a stale copy   *)
(* of the row was saved.                                                    *)
THEOREM PaidHasAccessHolds == SubSpec => []PaidHasAccess
<1>1. ASSUME AccessInv PROVE PaidHasAccess
  <2> SUFFICES ASSUME ~raced, NEW p \in subPays, Settled(p), day <= p.to PROVE HasWriteAccess
    BY DEF PaidHasAccess
  <2>1. p.to <= sub.end /\ (sub.status = "blocked" => day > sub.end + GraceDays)
    BY <1>1 DEF AccessInv, RowOK, PaidCovered, BlockedLate
  <2>2. p.to \in Nat /\ sub.end \in Nat /\ day \in Nat /\ GraceDays \in Nat
    BY <1>1, SubscriptionAssumption DEF AccessInv, SubTypeOK, SubPay, Sub
  <2>. QED
    BY <2>1, <2>2 DEF HasWriteAccess
<1>. QED
  BY <1>1, AccessInvariant, PTL
-----------------------------------------------------------------------------
(* The notifications.  The invariant: a job has a row, a row that says sent *)
(* was delivered, and what each worker and each call of the panel holds.    *)
NotesOK ==
  \A n \in Notes : /\ queue[n] # Nothing => note[n] # Nothing
                   /\ note[n] = "sent" => n \in delivered
WorkerOK(w) ==
  worker[w] # Nothing => /\ queue[worker[w].n] # Nothing
                         /\ worker[w].at = "sent" => worker[w].n \in delivered
CallOK(c) ==
  /\ DeskAt(c, "queue") => panel[c].x \in Notes /\ note[panel[c].x] # Nothing
  /\ DeskAt(c, "file") => panel[c].x \in Files

QueueInv ==
  /\ OutreachTypeOK /\ NotesOK /\ GoneWasDelivered
  /\ \A w \in Workers : WorkerOK(w)
  /\ \A c \in Panel : CallOK(c)

DeskTypeOK ==
  /\ wait \in [Waits -> WaitStatus \cup {Nothing}] /\ push \in [Browsers -> Follower]
  /\ raffle \in Raffle /\ stored \subseteq Files /\ filed \subseteq Files
  /\ asks \in Nat /\ faults \in Nat
QueueTypeOK ==
  /\ note \in [Notes -> NoteStatus \cup {Nothing}] /\ queue \in [Notes -> QueueJob \cup {Nothing}]
  /\ worker \in [Workers -> Worker \cup {Nothing}] /\ delivered \subseteq Notes /\ orphans \subseteq Notes
(* Nobody will try it again, and why.                                       *)
Spent(j) == j.attempts >= MaxAttempts \/ j.stalls > MaxStalls
-----------------------------------------------------------------------------
LEMMA TypesOfParts ==
  OutreachTypeOK <=> DeskTypeOK /\ QueueTypeOK /\ panel \in [Panel -> PanelCall \cup {Nothing}]
  BY DEF OutreachTypeOK, DeskTypeOK, QueueTypeOK

LEMMA OutreachInitOK == ASSUME OutreachInit PROVE QueueInv
<1>1. OutreachTypeOK
  BY DEF OutreachInit, OutreachTypeOK, Follower, Raffle
<1>2. NotesOK
  <2>1. "sent" \in NoteStatus /\ Nothing \notin NoteStatus
    BY OutreachAssumption DEF NoteStatus
  <2>. QED
    BY <2>1 DEF OutreachInit, NotesOK
<1>3. GoneWasDelivered /\ (\A w \in Workers : WorkerOK(w)) /\ \A c \in Panel : CallOK(c)
  BY DEF OutreachInit, GoneWasDelivered, WorkerOK, CallOK, DeskAt
<1>. QED
  BY <1>1, <1>2, <1>3 DEF QueueInv

(* A call of the panel goes on to v or ends, and the queue is left alone:   *)
(* one that was about to add a job leaves an orphan.                        *)
LEMMA DeskMoves ==
  ASSUME QueueInv, NEW c \in Panel, NEW v, panel' = [panel EXCEPT ![c] = v],
         v # Nothing => v \in PanelCall /\ v.at # "queue" /\ (v.at = "file" => v.x \in Files),
         UNCHANGED queueVars, orphans' \subseteq Notes, orphans \subseteq orphans',
         DeskAt(c, "queue") => panel[c].x \in orphans', DeskTypeOK'
  PROVE  QueueInv'
<1>1. UNCHANGED <<note, queue, worker, delivered>>
  BY DEF queueVars
<1>2. panel \in [Panel -> PanelCall \cup {Nothing}] /\ QueueTypeOK
  BY TypesOfParts DEF QueueInv
<1>3. panel' \in [Panel -> PanelCall \cup {Nothing}] /\ panel'[c] = v
  BY <1>2
<1>4. OutreachTypeOK'
  <2>1. QueueTypeOK'
    BY <1>1, <1>2 DEF QueueTypeOK
  <2>. QED
    BY <2>1, <1>3 DEF OutreachTypeOK, DeskTypeOK, QueueTypeOK
<1>5. \A d \in Panel : d # c => panel'[d] = panel[d]
  BY <1>2
<1>6. ASSUME NEW d \in Panel PROVE CallOK(d)'
  <2>1. CASE d = c
    BY <2>1, <1>3 DEF CallOK, DeskAt
  <2>2. CASE d # c
    BY <2>2, <1>1, <1>5 DEF QueueInv, CallOK, DeskAt
  <2>. QED
    BY <2>1, <2>2
<1>7. NotesOK' /\ \A w \in Workers : WorkerOK(w)'
  BY <1>1 DEF QueueInv, NotesOK, WorkerOK
<1>8. ASSUME NEW n \in Notes, note[n] # Nothing, n \notin delivered \cup orphans',
             NEW d \in Panel, DeskAt(d, "queue"), panel[d].x = n
      PROVE  DeskAt(d, "queue")' /\ panel'[d].x = n
  BY <1>5, <1>8 DEF DeskAt
<1>9. GoneWasDelivered'
  BY <1>1, <1>8 DEF QueueInv, GoneWasDelivered
<1>. QED
  BY <1>4, <1>6, <1>7, <1>9 DEF QueueInv

(* Only the waitlist, the browsers, the raffle and the files change.        *)
LEMMA DeskStays ==
  ASSUME QueueInv, UNCHANGED <<queueVars, panel, orphans>>, DeskTypeOK' PROVE QueueInv'
<1>1. UNCHANGED <<note, queue, worker, delivered, panel, orphans>>
  BY DEF queueVars
<1>2. OutreachTypeOK'
  BY <1>1 DEF QueueInv, OutreachTypeOK, DeskTypeOK
<1>3. GoneWasDelivered'
  BY <1>1 DEF QueueInv, GoneWasDelivered, DeskAt
<1>. QED
  BY <1>1, <1>2, <1>3 DEF QueueInv, NotesOK, WorkerOK, CallOK, DeskAt

(* A worker goes on to v or ends.                                           *)
LEMMA WorkerMoves ==
  ASSUME QueueInv, NEW w \in Workers, NEW v, worker' = [worker EXCEPT ![w] = v],
         v # Nothing => v \in Worker, WorkerOK(w)',
         note' \in [Notes -> NoteStatus \cup {Nothing}], queue' \in [Notes -> QueueJob \cup {Nothing}],
         delivered \subseteq delivered', delivered' \subseteq Notes,
         UNCHANGED workerFrame, faults' \in Nat,
         \A n \in Notes : /\ queue'[n] = Nothing <=> queue[n] = Nothing
                          /\ note'[n] = Nothing <=> note[n] = Nothing
                          /\ note'[n] = "sent" => n \in delivered'
                          /\ queue'[n] # queue[n] /\ queue'[n].is = "gone" => n \in delivered' \/ Spent(queue'[n])
  PROVE  QueueInv'
<1>1. UNCHANGED <<wait, push, raffle, stored, filed, panel, orphans, asks>>
  BY DEF workerFrame, deskVars
<1>2. worker \in [Workers -> Worker \cup {Nothing}] /\ orphans \subseteq Notes
  BY DEF QueueInv, OutreachTypeOK
<1>3. OutreachTypeOK'
  BY <1>1, <1>2 DEF QueueInv, OutreachTypeOK
<1>4. NotesOK'
  BY DEF QueueInv, NotesOK
<1>5. ASSUME NEW x \in Workers PROVE WorkerOK(x)'
  <2>1. CASE x = w
    BY <2>1
  <2>2. CASE x # w /\ worker[x] # Nothing
    <3>1. worker'[x] = worker[x] /\ worker[x].n \in Notes
      BY <2>2, <1>2 DEF Worker
    <3>. QED
      BY <2>2, <3>1 DEF QueueInv, WorkerOK
  <2>3. CASE x # w /\ worker[x] = Nothing
    BY <2>3, <1>2 DEF WorkerOK
  <2>. QED
    BY <2>1, <2>2, <2>3
<1>6. \A c \in Panel : CallOK(c)'
  BY <1>1 DEF QueueInv, CallOK, DeskAt
<1>7. GoneWasDelivered'
  <2> SUFFICES ASSUME NEW n \in Notes, note'[n] # Nothing, n \notin delivered' \cup orphans
               PROVE  \/ queue'[n] = Nothing /\ \E c \in Panel : DeskAt(c, "queue")' /\ panel'[c].x = n
                      \/ queue'[n] # Nothing /\ (queue'[n].is = "gone" => Spent(queue'[n]))
    BY <1>1 DEF GoneWasDelivered, Spent
  <2>1. \/ queue[n] = Nothing /\ \E c \in Panel : DeskAt(c, "queue") /\ panel[c].x = n
        \/ queue[n] # Nothing /\ (queue[n].is = "gone" => Spent(queue[n]))
    BY DEF QueueInv, GoneWasDelivered, Spent
  <2>2. CASE queue[n] = Nothing
    BY <2>1, <2>2, <1>1 DEF DeskAt
  <2>3. CASE queue[n] # Nothing
    BY <2>1, <2>3
  <2>. QED
    BY <2>2, <2>3
<1>. QED
  BY <1>3, <1>4, <1>5, <1>6, <1>7 DEF QueueInv
-----------------------------------------------------------------------------
LEMMA WorkerType ==
  ASSUME QueueInv, NEW w \in Workers, worker[w] # Nothing
  PROVE  /\ worker[w] \in Worker /\ worker[w].n \in Notes
         /\ queue[worker[w].n] \in QueueJob /\ queue[worker[w].n] # Nothing
         /\ note[worker[w].n] # Nothing /\ Nothing \notin NoteStatus \cup QueueJob
<1>1. worker[w] \in Worker /\ worker[w].n \in Notes
  BY DEF QueueInv, OutreachTypeOK, Worker
<1>2. queue[worker[w].n] # Nothing /\ queue \in [Notes -> QueueJob \cup {Nothing}]
  BY DEF QueueInv, WorkerOK, OutreachTypeOK
<1>. QED
  BY <1>1, <1>2, OutreachAssumption DEF QueueInv, NotesOK

LEMMA TakeJobKeeps ==
  ASSUME QueueInv, NEW w \in Workers, NEW n \in Notes, TakeJob(w, n) PROVE QueueInv'
<1>1. /\ queue[n] # Nothing /\ queue[n] \in QueueJob /\ queue[n].is = "waiting" /\ worker[w] = Nothing
      /\ UNCHANGED <<note, delivered, faults>> /\ UNCHANGED workerFrame
      /\ queue \in [Notes -> QueueJob \cup {Nothing}] /\ worker \in [Workers -> Worker \cup {Nothing}]
      /\ note \in [Notes -> NoteStatus \cup {Nothing}]
      /\ delivered \subseteq Notes /\ faults \in Nat /\ NotesOK /\ Nothing \notin QueueJob
  BY OutreachAssumption DEF TakeJob, QueueInv, OutreachTypeOK
<1>2. CASE note[n] = "sent"
  <2> DEFINE j == [queue[n] EXCEPT !.is = "gone"]
  <2>1. j \in QueueJob
    BY <1>1 DEF QueueJob
  <2>2. queue' = [queue EXCEPT ![n] = j] /\ worker' = worker
    BY <1>2 DEF TakeJob
  <2> HIDE DEF j
  <2>3. worker' = [worker EXCEPT ![w] = Nothing]
    BY <1>1, <2>2
  <2>4. WorkerOK(w)'
    BY <1>1, <2>2 DEF WorkerOK
  <2>5. /\ queue' \in [Notes -> QueueJob \cup {Nothing}] /\ queue'[n] = j /\ j # Nothing
        /\ \A x \in Notes : x # n => queue'[x] = queue[x]
    BY <1>1, <2>1, <2>2
  <2>6. n \in delivered
    BY <1>1, <1>2 DEF NotesOK
  <2>7. \A x \in Notes : /\ queue'[x] = Nothing <=> queue[x] = Nothing
                         /\ note'[x] = Nothing <=> note[x] = Nothing
                         /\ note'[x] = "sent" => x \in delivered'
                         /\ queue'[x] # queue[x] /\ queue'[x].is = "gone" => x \in delivered' \/ Spent(queue'[x])
    BY <1>1, <2>5, <2>6 DEF NotesOK
  <2>. QED
    BY <1>1, <2>3, <2>4, <2>5, <2>7, WorkerMoves
<1>3. CASE note[n] # "sent"
  <2> DEFINE j == [queue[n] EXCEPT !.is = "active"]
             v == [at |-> "send", n |-> n, lock |-> Run(queue[n])]
  <2>1. j \in QueueJob /\ j.is = "active"
    BY <1>1 DEF QueueJob
  <2>2. queue' = [queue EXCEPT ![n] = j] /\ worker' = [worker EXCEPT ![w] = v]
    BY <1>3 DEF TakeJob
  <2>3. v \in Worker /\ v.at = "send" /\ v.n = n
    BY <1>1 DEF QueueJob, Worker, Run
  <2> HIDE DEF j, v
  <2>4. /\ queue' \in [Notes -> QueueJob \cup {Nothing}] /\ queue'[n] = j /\ j # Nothing
        /\ \A x \in Notes : x # n => queue'[x] = queue[x]
    BY <1>1, <2>1, <2>2
  <2>5. WorkerOK(w)'
    BY <1>1, <2>2, <2>3, <2>4 DEF WorkerOK
  <2>6. \A x \in Notes : /\ queue'[x] = Nothing <=> queue[x] = Nothing
                         /\ note'[x] = Nothing <=> note[x] = Nothing
                         /\ note'[x] = "sent" => x \in delivered'
                         /\ queue'[x] # queue[x] /\ queue'[x].is = "gone" => x \in delivered' \/ Spent(queue'[x])
    BY <1>1, <2>1, <2>4 DEF NotesOK
  <2>. QED
    BY <1>1, <2>2, <2>3, <2>4, <2>5, <2>6, WorkerMoves
<1>. QED
  BY <1>2, <1>3

(* Only the worker's copy changes.                                          *)
LEMMA WorkerAlone ==
  ASSUME QueueInv, NEW w \in Workers, worker[w] # Nothing, NEW v, worker' = [worker EXCEPT ![w] = v],
         v # Nothing => v \in Worker /\ v.n = worker[w].n /\ (v.at = "sent" => v.n \in delivered'),
         UNCHANGED <<note, queue, workerFrame>>,
         delivered \subseteq delivered', delivered' \subseteq Notes, faults' \in Nat
  PROVE  QueueInv'
<1>1. /\ note' = note /\ queue' = queue /\ UNCHANGED workerFrame
      /\ note \in [Notes -> NoteStatus \cup {Nothing}] /\ queue \in [Notes -> QueueJob \cup {Nothing}]
      /\ worker \in [Workers -> Worker \cup {Nothing}] /\ NotesOK
  BY DEF QueueInv, OutreachTypeOK
<1>2. worker'[w] = v
  BY <1>1
<1>3. WorkerOK(w)'
  BY <1>1, <1>2, WorkerType DEF WorkerOK
<1>4. \A x \in Notes : /\ queue'[x] = Nothing <=> queue[x] = Nothing
                       /\ note'[x] = Nothing <=> note[x] = Nothing
                       /\ note'[x] = "sent" => x \in delivered'
                       /\ queue'[x] # queue[x] /\ queue'[x].is = "gone" => x \in delivered' \/ Spent(queue'[x])
  BY <1>1 DEF NotesOK
<1>. QED
  BY <1>1, <1>3, <1>4, WorkerMoves

LEMMA SendKeeps ==
  ASSUME QueueInv, NEW w \in Workers, SendNote(w) \/ SendFails(w) \/ SaveSentFails(w) \/ WorkerDies(w)
  PROVE  QueueInv'
<1>1. delivered \subseteq Notes /\ faults \in Nat /\ worker \in [Workers -> Worker \cup {Nothing}]
  BY DEF QueueInv, OutreachTypeOK
<1>2. worker[w] # Nothing
  BY DEF SendNote, SendFails, SaveSentFails, WorkerDies, WorkerAt
<1>3. worker[w] \in Worker /\ worker[w].n \in Notes
  BY <1>2, WorkerType
<1>4. UNCHANGED <<note, queue, workerFrame>>
  BY DEF SendNote, SendFails, SaveSentFails, WorkerDies
<1>5. faults' \in Nat
  BY <1>1 DEF SendNote, SendFails, SaveSentFails, WorkerDies, Fault
<1>6. delivered \subseteq delivered' /\ delivered' \subseteq Notes
  BY <1>1, <1>3 DEF SendNote, SendFails, SaveSentFails, WorkerDies
<1>7. CASE SendNote(w)
  <2> DEFINE v == [worker[w] EXCEPT !.at = "sent"]
  <2>1. worker' = [worker EXCEPT ![w] = v] /\ worker[w].n \in delivered'
    BY <1>7 DEF SendNote
  <2>2. v \in Worker /\ v.n = worker[w].n
    BY <1>3 DEF Worker
  <2> HIDE DEF v
  <2>. QED
    BY <1>2, <1>4, <1>5, <1>6, <2>1, <2>2, WorkerAlone
<1>8. CASE SendFails(w) \/ SaveSentFails(w)
  <2> DEFINE v == [worker[w] EXCEPT !.at = "failed"]
  <2>1. worker' = [worker EXCEPT ![w] = v]
    BY <1>8 DEF SendFails, SaveSentFails
  <2>2. v \in Worker /\ v.n = worker[w].n /\ v.at # "sent"
    BY <1>3 DEF Worker
  <2> HIDE DEF v
  <2>. QED
    BY <1>2, <1>4, <1>5, <1>6, <2>1, <2>2, WorkerAlone
<1>9. CASE WorkerDies(w)
  <2>1. worker' = [worker EXCEPT ![w] = Nothing]
    BY <1>9 DEF WorkerDies, WorkerIdle
  <2>. QED
    BY <1>2, <1>4, <1>5, <1>6, <2>1, WorkerAlone
<1>. QED
  BY <1>7, <1>8, <1>9

(* The worker writes its row as r and its job as j, if it has the lock.     *)
LEMMA WorkerEnds ==
  ASSUME QueueInv, NEW w \in Workers, worker[w] # Nothing, WorkerIdle(w),
         NEW r \in NoteStatus, note' = [note EXCEPT ![worker[w].n] = r],
         NEW j \in QueueJob, queue' = [queue EXCEPT ![worker[w].n] = j] \/ queue' = queue,
         r = "sent" => worker[w].n \in delivered,
         j.is = "gone" => worker[w].n \in delivered \/ Spent(j),
         UNCHANGED <<delivered, workerFrame, faults>>
  PROVE  QueueInv'
<1> DEFINE n == worker[w].n
<1>1. /\ n \in Notes /\ queue[n] # Nothing /\ note[n] # Nothing
      /\ r # Nothing /\ j # Nothing
  BY WorkerType, OutreachAssumption
<1>2. /\ UNCHANGED workerFrame /\ delivered' = delivered /\ faults' \in Nat
      /\ delivered \subseteq delivered' /\ delivered' \subseteq Notes
      /\ note \in [Notes -> NoteStatus \cup {Nothing}] /\ queue \in [Notes -> QueueJob \cup {Nothing}]
      /\ worker \in [Workers -> Worker \cup {Nothing}] /\ NotesOK
  BY DEF QueueInv, OutreachTypeOK
<1>3. note' \in [Notes -> NoteStatus \cup {Nothing}] /\ queue' \in [Notes -> QueueJob \cup {Nothing}]
  BY <1>1, <1>2
<1>4. worker' = [worker EXCEPT ![w] = Nothing] /\ WorkerOK(w)'
  BY <1>2 DEF WorkerIdle, WorkerOK
<1>5. note'[n] = r /\ (\A x \in Notes : x # n => note'[x] = note[x])
  BY <1>1, <1>2
<1>6. (queue'[n] = j \/ queue'[n] = queue[n]) /\ \A x \in Notes : x # n => queue'[x] = queue[x]
  BY <1>1, <1>2
<1> HIDE DEF n
<1>7. n = worker[w].n
  BY DEF n
<1>8. ASSUME NEW x \in Notes
      PROVE  /\ queue'[x] = Nothing <=> queue[x] = Nothing
             /\ note'[x] = Nothing <=> note[x] = Nothing
             /\ note'[x] = "sent" => x \in delivered'
             /\ queue'[x] # queue[x] /\ queue'[x].is = "gone" => x \in delivered' \/ Spent(queue'[x])
  <2>1. CASE x = n
    BY <2>1, <1>1, <1>2, <1>5, <1>6, <1>7
  <2>2. CASE x # n
    BY <2>2, <1>2, <1>5, <1>6 DEF NotesOK
  <2>. QED
    BY <2>1, <2>2
<1>. QED
  BY <1>2, <1>3, <1>4, <1>8, WorkerMoves

LEMMA SaveSentKeeps == ASSUME QueueInv, NEW w \in Workers, SaveSent(w) PROVE QueueInv'
<1>1. worker[w] # Nothing /\ worker[w].at = "sent" /\ WorkerIdle(w) /\ UNCHANGED <<delivered, workerFrame, faults>>
  BY DEF SaveSent, WorkerAt
<1>2. worker[w].n \in Notes /\ queue[worker[w].n] \in QueueJob /\ worker[w].n \in delivered
  BY <1>1, WorkerType DEF QueueInv, WorkerOK
<1> DEFINE j == [queue[worker[w].n] EXCEPT !.is = "gone"]
<1>3. j \in QueueJob
  BY <1>2 DEF QueueJob
<1>4. note' = [note EXCEPT ![worker[w].n] = "sent"] /\ "sent" \in NoteStatus
  BY DEF SaveSent, NoteStatus
<1>5. queue' = [queue EXCEPT ![worker[w].n] = j] \/ queue' = queue
  BY DEF SaveSent
<1> HIDE DEF j
<1>. QED
  BY <1>1, <1>2, <1>3, <1>4, <1>5, WorkerEnds

LEMMA SaveFailedKeeps == ASSUME QueueInv, NEW w \in Workers, SaveFailed(w) PROVE QueueInv'
<1>1. worker[w] # Nothing /\ WorkerIdle(w) /\ UNCHANGED <<delivered, workerFrame, faults>>
  BY DEF SaveFailed, WorkerAt
<1>2. worker[w].n \in Notes /\ queue[worker[w].n] \in QueueJob
  BY <1>1, WorkerType
<1> DEFINE j == Retried(queue[worker[w].n])
<1>3. j \in QueueJob
  <2> DEFINE old == queue[worker[w].n]
             end == IF old.attempts + 1 < MaxAttempts THEN "waiting" ELSE "gone"
  <2>1. old \in QueueJob /\ old.attempts + 1 \in Nat
    BY <1>2 DEF QueueJob
  <2>2. end \in {"waiting", "active", "gone"}
    OBVIOUS
  <2>3. j = [old EXCEPT !.attempts = old.attempts + 1, !.is = end]
    BY DEF Retried
  <2> HIDE DEF old, end, j
  <2>. QED
    BY <2>1, <2>2, <2>3 DEF QueueJob
<1>4. j.is = "gone" => Spent(j)
  <2>1. queue[worker[w].n].attempts \in Nat /\ MaxAttempts \in Nat
    BY <1>2, OutreachAssumption DEF QueueJob
  <2>2. j.attempts = queue[worker[w].n].attempts + 1
    BY <1>2 DEF QueueJob, Retried
  <2>3. j.is = IF queue[worker[w].n].attempts + 1 < MaxAttempts THEN "waiting" ELSE "gone"
    BY <1>2 DEF QueueJob, Retried
  <2>. QED
    BY <2>1, <2>2, <2>3 DEF Spent
<1>5. note' = [note EXCEPT ![worker[w].n] = "failed"] /\ "failed" \in NoteStatus
  BY DEF SaveFailed, NoteStatus
<1>6. queue' = [queue EXCEPT ![worker[w].n] = j] \/ queue' = queue
  BY DEF SaveFailed
<1> HIDE DEF j
<1>. QED
  BY <1>1, <1>2, <1>3, <1>4, <1>5, <1>6, WorkerEnds

LEMMA JobStallsKeeps == ASSUME QueueInv, NEW n \in Notes, JobStalls(n) PROVE QueueInv'
<1> DEFINE end == IF queue[n].stalls < MaxStalls THEN "waiting" ELSE "gone"
           j == [queue[n] EXCEPT !.stalls = queue[n].stalls + 1, !.is = end]
<1>1. /\ queue[n] # Nothing /\ queue' = [queue EXCEPT ![n] = j]
      /\ UNCHANGED <<note, worker, delivered, panel, orphans, wait, push, raffle, stored, filed, asks>>
  BY DEF JobStalls, workerFrame, deskVars
<1>2. /\ queue \in [Notes -> QueueJob \cup {Nothing}] /\ Nothing \notin QueueJob
      /\ MaxStalls \in Nat /\ faults \in Nat /\ worker \in [Workers -> Worker \cup {Nothing}]
  BY OutreachAssumption DEF QueueInv, OutreachTypeOK
<1>3. queue[n] \in QueueJob /\ queue[n].stalls \in Nat
  BY <1>1, <1>2 DEF QueueJob
<1>4. end \in {"waiting", "active", "gone"} /\ queue[n].stalls + 1 \in Nat
  BY <1>3
<1>5. end = "gone" => queue[n].stalls + 1 > MaxStalls
  BY <1>2, <1>3
<1> HIDE DEF end
<1>6. j \in QueueJob /\ j.stalls = queue[n].stalls + 1 /\ j.is = end
  BY <1>3, <1>4 DEF QueueJob
<1> HIDE DEF j
<1>7. /\ queue' \in [Notes -> QueueJob \cup {Nothing}] /\ queue'[n] = j /\ j # Nothing
      /\ \A x \in Notes : x # n => queue'[x] = queue[x]
  BY <1>1, <1>2, <1>6
<1>8. j.is = "gone" => Spent(j)
  BY <1>5, <1>6 DEF Spent
<1>9. faults' \in Nat
  BY <1>2 DEF JobStalls, Fault
<1>10. OutreachTypeOK'
  BY <1>1, <1>7, <1>9 DEF QueueInv, OutreachTypeOK
<1>11. NotesOK' /\ \A c \in Panel : CallOK(c)'
  BY <1>1, <1>7 DEF QueueInv, NotesOK, CallOK, DeskAt
<1>12. ASSUME NEW w \in Workers PROVE WorkerOK(w)'
  <2>1. worker[w] # Nothing => worker[w].n \in Notes
    BY <1>2 DEF Worker
  <2>. QED
    BY <1>1, <1>7, <2>1 DEF QueueInv, WorkerOK
<1>13. GoneWasDelivered'
  <2> SUFFICES ASSUME NEW x \in Notes, note[x] # Nothing, x \notin delivered \cup orphans
               PROVE  \/ queue'[x] = Nothing /\ \E c \in Panel : DeskAt(c, "queue")' /\ panel'[c].x = x
                      \/ queue'[x] # Nothing /\ (queue'[x].is = "gone" => Spent(queue'[x]))
    BY <1>1 DEF GoneWasDelivered, Spent
  <2>1. \/ queue[x] = Nothing /\ \E c \in Panel : DeskAt(c, "queue") /\ panel[c].x = x
        \/ queue[x] # Nothing /\ (queue[x].is = "gone" => Spent(queue[x]))
    BY DEF QueueInv, GoneWasDelivered, Spent
  <2>2. CASE x = n
    BY <2>2, <1>7, <1>8
  <2>3. CASE x # n
    BY <2>1, <2>3, <1>1, <1>7 DEF DeskAt
  <2>. QED
    BY <2>2, <2>3
<1>. QED
  BY <1>10, <1>11, <1>12, <1>13 DEF QueueInv

LEMMA CallType ==
  ASSUME QueueInv, NEW c \in Panel, panel[c] # Nothing
  PROVE  panel[c] \in PanelCall /\ Nothing \notin PanelCall
  BY OutreachAssumption DEF QueueInv, OutreachTypeOK

LEMMA EnqueueRowKeeps ==
  ASSUME QueueInv, NEW c \in Panel, NEW n \in Notes, EnqueueRow(c, n) PROVE QueueInv'
<1> DEFINE v == [panel[c] EXCEPT !.at = "queue", !.x = n]
<1>1. /\ panel[c] # Nothing /\ panel[c].at = "row" /\ note[n] = Nothing
      /\ note' = [note EXCEPT ![n] = "pending"] /\ panel' = [panel EXCEPT ![c] = v]
      /\ UNCHANGED <<queue, worker, delivered, wait, push, raffle, stored, filed, orphans, asks, faults>>
  BY DEF EnqueueRow, DeskAt, DeskGoes, deskVars
<1>2. panel[c] \in PanelCall /\ Nothing \notin PanelCall
  BY <1>1, CallType
<1>3. v \in PanelCall /\ v.at = "queue" /\ v.x = n
  BY <1>2 DEF PanelCall
<1> HIDE DEF v
<1>4. /\ note \in [Notes -> NoteStatus \cup {Nothing}] /\ panel \in [Panel -> PanelCall \cup {Nothing}]
      /\ "pending" \in NoteStatus /\ "sent" # "pending" /\ Nothing # "pending"
      /\ worker \in [Workers -> Worker \cup {Nothing}]
  BY OutreachAssumption DEF QueueInv, OutreachTypeOK, NoteStatus
<1>5. /\ note' \in [Notes -> NoteStatus \cup {Nothing}] /\ note'[n] = "pending"
      /\ \A x \in Notes : x # n => note'[x] = note[x]
  BY <1>1, <1>4
<1>6. /\ panel' \in [Panel -> PanelCall \cup {Nothing}] /\ panel'[c] = v
      /\ \A d \in Panel : d # c => panel'[d] = panel[d]
  BY <1>1, <1>3, <1>4
<1>7. OutreachTypeOK'
  BY <1>1, <1>5, <1>6 DEF QueueInv, OutreachTypeOK
<1>8. queue[n] = Nothing
  BY <1>1 DEF QueueInv, NotesOK
<1>9. NotesOK'
  BY <1>1, <1>4, <1>5 DEF QueueInv, NotesOK
<1>10. \A w \in Workers : WorkerOK(w)'
  BY <1>1 DEF QueueInv, WorkerOK
<1>11. v # Nothing
  BY <1>2, <1>3
<1>12. ASSUME NEW d \in Panel PROVE CallOK(d)'
  <2>1. CASE d = c
    BY <2>1, <1>3, <1>4, <1>5, <1>6 DEF CallOK, DeskAt
  <2>2. CASE d # c
    BY <2>2, <1>4, <1>5, <1>6 DEF QueueInv, CallOK, DeskAt
  <2>. QED
    BY <2>1, <2>2
<1>13. GoneWasDelivered'
  <2> SUFFICES ASSUME NEW x \in Notes, note'[x] # Nothing, x \notin delivered \cup orphans
               PROVE  \/ queue[x] = Nothing /\ \E d \in Panel : DeskAt(d, "queue")' /\ panel'[d].x = x
                      \/ queue[x] # Nothing /\ (queue[x].is = "gone" => Spent(queue[x]))
    BY <1>1 DEF GoneWasDelivered, Spent
  <2>1. CASE x = n
    BY <2>1, <1>3, <1>6, <1>8, <1>11 DEF DeskAt
  <2>2. CASE x # n
    <3>1. \/ queue[x] = Nothing /\ \E d \in Panel : DeskAt(d, "queue") /\ panel[d].x = x
          \/ queue[x] # Nothing /\ (queue[x].is = "gone" => Spent(queue[x]))
      BY <2>2, <1>5 DEF QueueInv, GoneWasDelivered, Spent
    <3>2. ASSUME NEW d \in Panel, DeskAt(d, "queue") PROVE panel'[d] = panel[d]
      BY <3>2, <1>1, <1>6 DEF DeskAt
    <3>. QED
      BY <3>1, <3>2 DEF DeskAt
  <2>. QED
    BY <2>1, <2>2
<1>. QED
  BY <1>7, <1>9, <1>10, <1>12, <1>13 DEF QueueInv

LEMMA EnqueueJobKeeps == ASSUME QueueInv, NEW c \in Panel, EnqueueJob(c) PROVE QueueInv'
<1> DEFINE n == panel[c].x
           j == [is |-> "waiting", attempts |-> 0, stalls |-> 0]
<1>1. /\ n \in Notes /\ note[n] # Nothing
      /\ queue' = [queue EXCEPT ![n] = j] /\ panel' = [panel EXCEPT ![c] = Nothing]
      /\ UNCHANGED <<note, worker, delivered, wait, push, raffle, stored, filed, orphans, asks, faults>>
  BY DEF EnqueueJob, DeskEnds, deskVars, QueueInv, CallOK
<1>2. j \in QueueJob /\ j.is = "waiting" /\ j # Nothing
  BY OutreachAssumption DEF QueueJob
<1>3. /\ queue \in [Notes -> QueueJob \cup {Nothing}] /\ panel \in [Panel -> PanelCall \cup {Nothing}]
      /\ worker \in [Workers -> Worker \cup {Nothing}]
  BY DEF QueueInv, OutreachTypeOK
<1>4. n = panel[c].x
  OBVIOUS
<1> HIDE DEF j, n
<1>5. /\ queue' \in [Notes -> QueueJob \cup {Nothing}] /\ queue'[n] = j
      /\ \A x \in Notes : x # n => queue'[x] = queue[x]
  BY <1>1, <1>2, <1>3
<1>6. /\ panel' \in [Panel -> PanelCall \cup {Nothing}] /\ panel'[c] = Nothing
      /\ \A d \in Panel : d # c => panel'[d] = panel[d]
  BY <1>1, <1>3
<1>7. OutreachTypeOK'
  BY <1>1, <1>5, <1>6 DEF QueueInv, OutreachTypeOK
<1>8. NotesOK'
  BY <1>1, <1>5 DEF QueueInv, NotesOK
<1>9. ASSUME NEW w \in Workers PROVE WorkerOK(w)'
  <2>1. worker[w] # Nothing => worker[w].n \in Notes
    BY <1>3 DEF Worker
  <2>. QED
    BY <1>1, <1>2, <1>5, <2>1 DEF QueueInv, WorkerOK
<1>10. ASSUME NEW d \in Panel PROVE CallOK(d)'
  BY <1>1, <1>6 DEF QueueInv, CallOK, DeskAt
<1>11. GoneWasDelivered'
  <2> SUFFICES ASSUME NEW x \in Notes, note[x] # Nothing, x \notin delivered \cup orphans
               PROVE  \/ queue'[x] = Nothing /\ \E d \in Panel : DeskAt(d, "queue")' /\ panel'[d].x = x
                      \/ queue'[x] # Nothing /\ (queue'[x].is = "gone" => Spent(queue'[x]))
    BY <1>1 DEF GoneWasDelivered, Spent
  <2>1. CASE x = n
    BY <2>1, <1>2, <1>5
  <2>2. CASE x # n
    <3>1. \/ queue[x] = Nothing /\ \E d \in Panel : DeskAt(d, "queue") /\ panel[d].x = x
          \/ queue[x] # Nothing /\ (queue[x].is = "gone" => Spent(queue[x]))
      BY DEF QueueInv, GoneWasDelivered, Spent
    <3>2. ASSUME NEW d \in Panel, DeskAt(d, "queue"), panel[d].x = x PROVE panel'[d] = panel[d]
      BY <3>2, <2>2, <1>4, <1>6
    <3>. QED
      BY <3>1, <3>2, <2>2, <1>5 DEF DeskAt
  <2>. QED
    BY <2>1, <2>2
<1>. QED
  BY <1>7, <1>8, <1>9, <1>10, <1>11 DEF QueueInv
-----------------------------------------------------------------------------
(* A call of the panel that begins holds no job yet.                        *)
LEMMA CallBegins ==
  ASSUME QueueInv, NEW c \in Panel, NEW at \in {"wait", "row", "draw", "file", "unfile"},
         NEW x \in Waits \cup Files \cup {Nothing}, NEW is \in WaitStatus,
         at = "file" => x \in Files, DeskBegins(c, at, x, is), UNCHANGED <<queueVars, orphans>>, DeskTypeOK'
  PROVE  QueueInv'
<1> DEFINE v == [at |-> at, x |-> x, is |-> is]
<1>1. panel[c] = Nothing /\ panel' = [panel EXCEPT ![c] = v]
  BY DEF DeskBegins
<1>2. v \in PanelCall /\ v.at = at /\ v.x = x
  BY DEF PanelCall
<1> HIDE DEF v
<1>3. orphans' \subseteq Notes /\ orphans \subseteq orphans'
  BY DEF QueueInv, OutreachTypeOK
<1>. QED
  BY <1>1, <1>2, <1>3, DeskMoves DEF DeskAt

LEMMA CallEnds ==
  ASSUME QueueInv, NEW c \in Panel, DeskEnds(c), ~ DeskAt(c, "queue"),
         UNCHANGED <<queueVars, orphans>>, DeskTypeOK'
  PROVE  QueueInv'
<1>1. panel' = [panel EXCEPT ![c] = Nothing]
  BY DEF DeskEnds
<1>2. orphans' \subseteq Notes /\ orphans \subseteq orphans'
  BY DEF QueueInv, OutreachTypeOK
<1>. QED
  BY <1>1, <1>2, DeskMoves

LEMMA PanelKeeps == ASSUME QueueInv, NEW c \in Panel, PanelNext(c) PROVE QueueInv'
<1>1. DeskTypeOK
  BY TypesOfParts DEF QueueInv
<1>2. asks + 1 \in Nat /\ faults + 1 \in Nat /\ "waiting" \in WaitStatus
  BY <1>1 DEF DeskTypeOK, WaitStatus
<1>3. ASSUME NEW x \in Waits, NEW is \in WaitStatus, BeginWait(c, x, is) PROVE QueueInv'
  <2>1. DeskTypeOK'
    BY <1>1, <1>2, <1>3 DEF BeginWait, DeskBegins, DeskCounts, DeskTypeOK, deskVars
  <2>. QED
    BY <2>1, <1>3, CallBegins DEF BeginWait
<1>4. CASE SaveWait(c)
  <2>1. panel[c] # Nothing /\ panel[c].at = "wait" /\ panel[c] \in PanelCall
    BY <1>4, CallType DEF SaveWait, DeskAt
  <2>2. panel[c].is \in WaitStatus
    BY <2>1 DEF PanelCall
  <2>3. DeskTypeOK'
    BY <1>1, <1>4, <2>2 DEF SaveWait, DeskTypeOK
  <2>4. ~ DeskAt(c, "queue") /\ UNCHANGED <<queueVars, orphans>> /\ orphans \subseteq Notes
    BY <1>4, <2>1 DEF SaveWait, DeskAt, QueueInv, OutreachTypeOK
  <2>5. CASE panel[c].is = "notified"
    <3> DEFINE v == [panel[c] EXCEPT !.at = "row", !.x = Nothing]
    <3>1. panel' = [panel EXCEPT ![c] = v]
      BY <1>4, <2>5 DEF SaveWait, DeskGoes
    <3>2. v \in PanelCall /\ v.at = "row"
      BY <2>1 DEF PanelCall
    <3> HIDE DEF v
    <3>. QED
      BY <2>3, <2>4, <3>1, <3>2, DeskMoves
  <2>6. CASE panel[c].is # "notified"
    BY <1>4, <2>3, <2>4, <2>6, CallEnds DEF SaveWait
  <2>. QED
    BY <2>5, <2>6
<1>5. CASE BeginEnqueue(c) \/ BeginDraw(c)
  <2>1. DeskTypeOK'
    BY <1>1, <1>2, <1>5 DEF BeginEnqueue, BeginDraw, DeskBegins, DeskCounts, DeskTypeOK, deskVars
  <2>2. UNCHANGED <<queueVars, orphans>>
    BY <1>5 DEF BeginEnqueue, BeginDraw
  <2>3. DeskBegins(c, "row", Nothing, "waiting") \/ DeskBegins(c, "draw", Nothing, "waiting")
    BY <1>5 DEF BeginEnqueue, BeginDraw
  <2>. QED
    BY <1>2, <2>1, <2>2, <2>3, CallBegins
<1>6. ASSUME NEW x \in Entries, Draw(c, x) PROVE QueueInv'
  <2>1. DeskTypeOK'
    BY <1>1, <1>6 DEF Draw, raffleFrame, DeskTypeOK, Raffle
  <2>. QED
    BY <2>1, <1>6, CallEnds DEF Draw, raffleFrame, DeskAt
<1>7. ASSUME NEW k \in Files, Upload(c, k) PROVE QueueInv'
  <2>1. DeskTypeOK'
    BY <1>1, <1>2, <1>7 DEF Upload, DeskBegins, DeskCounts, fileFrame, DeskTypeOK
  <2>. QED
    BY <1>2, <2>1, <1>7, CallBegins DEF Upload, fileFrame
<1>8. ASSUME NEW k \in Files, RemoveFile(c, k) PROVE QueueInv'
  <2>1. DeskTypeOK'
    BY <1>1, <1>2, <1>8 DEF RemoveFile, DeskBegins, DeskCounts, fileFrame, DeskTypeOK
  <2>. QED
    BY <1>2, <2>1, <1>8, CallBegins DEF RemoveFile, fileFrame
<1>9. CASE InsertFile(c)
  <2>1. DeskTypeOK'
    BY <1>1, <1>9 DEF InsertFile, fileFrame, DeskTypeOK, QueueInv, CallOK
  <2>. QED
    BY <2>1, <1>9, CallEnds DEF InsertFile, fileFrame, DeskAt
<1>10. CASE DeleteFileRow(c)
  <2>1. DeskTypeOK'
    BY <1>1, <1>10 DEF DeleteFileRow, fileFrame, DeskTypeOK
  <2>. QED
    BY <2>1, <1>10, CallEnds DEF DeleteFileRow, fileFrame, DeskAt
<1>11. CASE PanelCut(c)
  <2>1. DeskTypeOK'
    BY <1>1, <1>2, <1>11 DEF PanelCut, Fault, DeskTypeOK, deskVars
  <2>2. orphans \subseteq Notes /\ (DeskAt(c, "queue") => panel[c].x \in Notes)
    BY DEF QueueInv, OutreachTypeOK, CallOK
  <2>3. /\ orphans' \subseteq Notes /\ orphans \subseteq orphans'
        /\ DeskAt(c, "queue") => panel[c].x \in orphans'
    BY <1>11, <2>2 DEF PanelCut, DeskAt
  <2>. QED
    BY <1>11, <2>1, <2>3, DeskMoves DEF PanelCut, DeskEnds
<1>. QED
  BY <1>3, <1>4, <1>5, <1>6, <1>7, <1>8, <1>9, <1>10, <1>11, EnqueueRowKeeps, EnqueueJobKeeps DEF PanelNext

LEMMA AtOnceKeeps ==
  ASSUME QueueInv,
         \/ \E x \in Waits : CreateWait(x) \/ RemoveWait(x)
         \/ \E x \in Browsers, o \in Owners : Subscribe(x, o)
         \/ \E x \in Browsers : Unsubscribe(x)
         \/ \E o \in Owners : ClearAppointment(o)
         \/ \E x \in Entries : AddRaffleEntry(x)
  PROVE  QueueInv'
<1>1. DeskTypeOK
  BY TypesOfParts DEF QueueInv
<1>2. DeskAtOnce => asks' \in Nat /\ faults' \in Nat /\ UNCHANGED <<panel, orphans>>
  BY <1>1 DEF DeskAtOnce, DeskCounts, DeskTypeOK
<1>3. ASSUME NEW x \in Waits, CreateWait(x) \/ RemoveWait(x) PROVE QueueInv'
  <2>1. DeskTypeOK'
    BY <1>1, <1>2, <1>3 DEF CreateWait, RemoveWait, DeskTypeOK, WaitStatus
  <2>. QED
    BY <1>2, <1>3, <2>1, DeskStays DEF CreateWait, RemoveWait
<1>4. ASSUME NEW x \in Browsers, NEW o \in Owners, Subscribe(x, o) PROVE QueueInv'
  <2>1. DeskTypeOK'
    BY <1>1, <1>2, <1>4 DEF Subscribe, pushFrame, DeskTypeOK, Follower
  <2>. QED
    BY <1>2, <1>4, <2>1, DeskStays DEF Subscribe, pushFrame
<1>5. ASSUME NEW x \in Browsers, Unsubscribe(x) PROVE QueueInv'
  <2>1. DeskTypeOK'
    BY <1>1, <1>2, <1>5 DEF Unsubscribe, pushFrame, DeskTypeOK, Follower
  <2>. QED
    BY <1>2, <1>5, <2>1, DeskStays DEF Unsubscribe, pushFrame
<1>6. ASSUME NEW o \in Owners, ClearAppointment(o) PROVE QueueInv'
  <2>1. DeskTypeOK'
    BY <1>1, <1>2, <1>6 DEF ClearAppointment, pushFrame, DeskTypeOK, Follower
  <2>. QED
    BY <1>2, <1>6, <2>1, DeskStays DEF ClearAppointment, pushFrame
<1>7. ASSUME NEW x \in Entries, AddRaffleEntry(x) PROVE QueueInv'
  <2>1. DeskTypeOK'
    BY <1>1, <1>2, <1>7 DEF AddRaffleEntry, raffleFrame, DeskTypeOK, Raffle
  <2>. QED
    BY <1>2, <1>7, <2>1, DeskStays DEF AddRaffleEntry, raffleFrame
<1>. QED
  BY <1>3, <1>4, <1>5, <1>6, <1>7

LEMMA OutreachStepKeeps == ASSUME QueueInv, [OutreachNext]_outreachVars PROVE QueueInv'
<1>1. CASE UNCHANGED outreachVars
  <2>1. DeskTypeOK'
    BY <1>1, TypesOfParts DEF outreachVars, deskVars, DeskTypeOK, QueueInv
  <2>. QED
    BY <1>1, <2>1, DeskStays DEF outreachVars
<1>2. ASSUME NEW w \in Workers, WorkerNext(w) PROVE QueueInv'
  BY <1>2, TakeJobKeeps, SendKeeps, SaveSentKeeps, SaveFailedKeeps DEF WorkerNext
<1>3. ASSUME NEW n \in Notes, JobStalls(n) PROVE QueueInv'
  BY <1>3, JobStallsKeeps
<1>4. ASSUME NEW c \in Panel, PanelNext(c) PROVE QueueInv'
  BY <1>4, PanelKeeps
<1>. QED
  BY <1>1, <1>2, <1>3, <1>4, AtOnceKeeps DEF OutreachNext

(* Every variable of the queue, the waitlist, the browsers, the raffle and  *)
(* the files holds a value of its kind (NotificationsService, PushService,  *)
(* WaitlistService, RafflesService, FilesService).                          *)
THEOREM OutreachTypeCorrect == OutreachSpec => []OutreachTypeOK
<1>1. OutreachInit => QueueInv
  BY OutreachInitOK
<1>2. QueueInv /\ [OutreachNext]_outreachVars => QueueInv'
  BY OutreachStepKeeps
<1>3. QueueInv => OutreachTypeOK
  BY DEF QueueInv
<1>. QED
  BY <1>1, <1>2, <1>3, PTL DEF OutreachSpec

(* Once nobody will try a recorded notification again, it was delivered, or *)
(* its attempts are spent, or its runs stalled too often: however workers,  *)
(* stalls, crashes and failed writes interleave (NotificationsProcessor).   *)
THEOREM GoneWasDeliveredHolds == OutreachSpec => []GoneWasDelivered
<1>1. OutreachInit => QueueInv
  BY OutreachInitOK
<1>2. QueueInv /\ [OutreachNext]_outreachVars => QueueInv'
  BY OutreachStepKeeps
<1>3. QueueInv => GoneWasDelivered
  BY DEF QueueInv
<1>. QED
  BY <1>1, <1>2, <1>3, PTL DEF OutreachSpec
-----------------------------------------------------------------------------
(* The run of the four parts takes steps of one of them and leaves the      *)
(* variables of the others alone: each keeps its own invariant.             *)
BackInv == ChargeTypeOK /\ AccessInv /\ TypeInv /\ QueueInv

LEMMA BackInitOK == ASSUME BackInit PROVE BackInv
  BY ChargeTypeInit, SubInitOK, TypeInvInit, OutreachInitOK DEF BackInit, BackInv

LEMMA BackStep == ASSUME BackInv, [BackNext]_backVars PROVE BackInv'
<1>1. [ChargeNext]_chargeVars /\ [SubNext]_subVars /\ [TenancyNext]_tenancyVars /\ [OutreachNext]_outreachVars
  BY DEF BackNext, backVars
<1>. QED
  BY <1>1, ChargeTypeStep, SubStepKeeps, TypeInvStep, OutreachStepKeeps DEF BackInv

(* Charges, subscription, accounts and notifications, each a part that the  *)
(* others never write: in any of them every row keeps its kind, whatever    *)
(* calls, jobs, workers and failures there are.                             *)
THEOREM BackOfficeTypeCorrect == BackSpec => []BackOfficeTypeOK
<1>1. BackInit => BackInv
  BY BackInitOK
<1>2. BackInv /\ [BackNext]_backVars => BackInv'
  BY BackStep
<1>3. BackInv => BackOfficeTypeOK
  BY TypeInvIsType DEF BackInv, AccessInv, QueueInv, BackOfficeTypeOK
<1>. QED
  BY <1>1, <1>2, <1>3, PTL DEF BackSpec
=============================================================================
