---------------------------- MODULE WaitingProofs ----------------------------
(* Types of the waiting room, and what calls and absences have to do with   *)
(* each other, for any number of persons, handlers and notices.             *)
EXTENDS WaitingRoom, FiniteSetTheorems, TLAPS
-----------------------------------------------------------------------------
(* Types of rows.                                                           *)

LEMMA NewRowType ==
  ASSUME NEW s \in {"none", "requested", "confirmed"}
  PROVE  NewRow(s) \in Row
BY DEF NewRow, Row, TerminalStatuses

LEMMA NoRowsType == NoRows \in [People -> Row]
BY NewRowType DEF NoRows

LEMMA ResetType == ASSUME NEW row \in Row PROVE Reset(row) \in Row
BY DEF Reset, Row

LEMMA ChangedType ==
  ASSUME NEW row \in Row, NEW op \in OpNames, NEW walkIn \in BOOLEAN
  PROVE  Changed(op, row, walkIn) \in Row
<1>1. CASE op = "undo"
  BY <1>1, ResetType DEF Changed
<1>2. CASE op = "leave"
  BY <1>2, ResetType DEF Changed, Row, TerminalStatuses
<1>3. CASE op \in {"confirm", "complete", "noShow", "cancel", "meCancel"}
  BY <1>3 DEF Changed, Row, TerminalStatuses
<1>4. CASE op \in {"call", "urgent", "notUrgent", "back"}
  <2>1. {} \in SUBSET Stages
    OBVIOUS
  <2>2. QED
    BY <1>4, <2>1 DEF Changed, Resumed, Row
<1>5. CASE op = "away"
  <2>1. Changed(op, row, walkIn) = [row EXCEPT !.away = TRUE, !.awayCount = row.awayCount + 1]
    BY <1>5 DEF Changed
  <2>2. row.awayCount + 1 \in Nat
    BY DEF Row
  <2>3. [row EXCEPT !.away = TRUE, !.awayCount = row.awayCount + 1] \in Row
    BY <2>2 DEF Row
  <2>4. QED
    BY <2>1, <2>3
<1>6. CASE op \in {"sendToBack", "moveUp", "moveDown", "checkIn", "start"}
  BY <1>6 DEF Changed
<1>7. QED
  BY <1>1, <1>2, <1>3, <1>4, <1>5, <1>6 DEF OpNames, Clearing, Reorders

(* What a change never does: it makes nobody arrive, gives no number, and   *)
(* takes no row out of the table.                                           *)
LEMMA ChangedKeeps ==
  ASSUME NEW row \in Row, NEW op \in OpNames, NEW walkIn \in BOOLEAN
  PROVE  /\ Changed(op, row, walkIn).arrived =>
              row.arrived /\ Changed(op, row, walkIn).ticket = row.ticket
         /\ row.status # "none" => Changed(op, row, walkIn).status # "none"
<1>1. CASE op = "undo"
  BY <1>1 DEF Changed, Reset, Row
<1>2. CASE op = "leave"
  BY <1>2 DEF Changed, Reset, Row
<1>3. CASE op \notin {"undo", "leave"}
  BY <1>3 DEF Changed, Resumed, Row
<1>4. QED
  BY <1>1, <1>2, <1>3

LEMMA HighestType ==
  ASSUME NEW S \in SUBSET Nat, NEW m \in Highest(S)
  PROVE  m \in Nat /\ \A n \in S : n <= m
BY DEF Highest
-----------------------------------------------------------------------------
(* Types of the whole state.                                                *)

LEMMA NewRanksType ==
  ASSUME NEW o \in Orders(Queue), NEW x \in Queue, NEW y \in Queue
  PROVE  \A z \in Queue : NewRanks(o, x, y)[z] \in Nat
<1>1. IsFiniteSet(Queue)
  BY WaitingAssumption, FS_Subset DEF Queue
<1>2. Cardinality(Queue) \in Nat
  BY <1>1, FS_CardinalityType
<1>3. \A z \in Queue : o[z] \in Nat
  BY <1>2 DEF Orders
<1>4. QED
  BY <1>3 DEF NewRanks

LEMMA CallStepType ==
  ASSUME TypeOK, NEW c \in Calls, CallStep(c) \/ Fails(c)
  PROVE  TypeOK'
<1> USE DEF TypeOK, noticeVars
<1>1. call[c] # None => call[c] \in Call /\ call[c].who \in People
                        /\ call[c].rows \in [People -> Row] /\ call[c].op \in OpNames \cup {"arrive"}
                        /\ call[c].max \in Nat /\ call[c].rows[call[c].who] \in Row
  BY DEF Call
<1>2. ASSUME Emit(call[c].op) PROVE emits' \in Nat
  BY <1>2, WaitingAssumption DEF Emit
<1>3. CASE TicketLock(c)
  <2>1. {appt[x].ticket : x \in Arrived} \in SUBSET Nat
    BY DEF Arrived, Row
  <2>2. PICK m \in Highest({appt[x].ticket : x \in Arrived}) :
          call' = [call EXCEPT ![c].at = "number", ![c].max = m]
    BY <1>3 DEF TicketLock
  <2>3. m \in Nat
    BY <2>1, HighestType
  <2>4. call' \in [Calls -> Call \cup {None}]
    BY <1>1, <1>3, <2>2, <2>3 DEF TicketLock, At, Call
  <2>5. QED
    BY <1>3, <2>4 DEF TicketLock
<1>4. CASE TicketSave(c)
  <2>1. PICK d \in 0..MaxWait :
          /\ clock' = clock + d
          /\ appt' = [appt EXCEPT ![call[c].who] =
               [call[c].rows[call[c].who] EXCEPT !.arrived = TRUE, !.ticket = call[c].max + 1,
                                                 !.rank = clock + d]]
    BY <1>4 DEF TicketSave
  <2>2. clock' \in Nat
    BY <2>1, WaitingAssumption
  <2>11. /\ call[c].rows[call[c].who] \in Row /\ call[c].max + 1 \in Nat /\ clock + d \in Nat
        /\ call[c].who \in People
    BY <1>1, <1>4, <2>1, <2>2 DEF TicketSave, At
  <2>12. [call[c].rows[call[c].who] EXCEPT !.arrived = TRUE, !.ticket = call[c].max + 1,
                                          !.rank = clock + d] \in Row
    BY <2>11 DEF Row
  <2>3. appt' \in [People -> Row]
    BY <2>1, <2>11, <2>12
  <2>4. call' \in [Calls -> Call \cup {None}] /\ emits' \in Nat
    BY <1>1, <1>2, <1>4 DEF TicketSave, At, Ends, Call
  <2>5. QED
    BY <1>4, <2>2, <2>3, <2>4 DEF TicketSave
<1>5. CASE Reread(c)
  <2>1. [appt[call[c].who] EXCEPT !.status = "inProgress", !.away = FALSE] \in Row
    BY <1>1, <1>5 DEF Reread, At, Row
  <2>2. call' \in [Calls -> Call \cup {None}]
    BY <1>1, <1>5, <2>1 DEF Reread, At, Call
  <2>3. QED
    BY <1>5, <2>2 DEF Reread
<1>6. CASE Save(c)
  BY <1>1, <1>2, <1>6 DEF Save, At, Ends, Cleared
<1>7. CASE SendToBack(c)
  <2>1. {appt[y].rank : y \in Queue} \in SUBSET Nat
    BY DEF Queue, Row
  <2>2. PICK m \in Highest({appt[y].rank : y \in Queue}) :
          call' = [call EXCEPT ![c].at = "save",
             ![c].rows[call[c].who] =
                [@ EXCEPT !.rank = m + 1, !.urgent = FALSE, !.called = FALSE,
                          !.away = FALSE, !.notified = {}]]
    BY <1>7 DEF SendToBack
  <2>3. m \in Nat
    BY <2>1, HighestType
  <2>4. [call[c].rows[call[c].who] EXCEPT !.rank = m + 1, !.urgent = FALSE, !.called = FALSE,
                                          !.away = FALSE, !.notified = {}] \in Row
    <3>1. call[c].rows[call[c].who] \in Row /\ m + 1 \in Nat /\ {} \in SUBSET Stages
      BY <1>1, <1>7, <2>3 DEF SendToBack, At
    <3>2. QED
      BY <3>1 DEF Row
  <2>5. call' \in [Calls -> Call \cup {None}]
    BY <1>1, <1>7, <2>2, <2>4 DEF SendToBack, At, Call
  <2>6. QED
    BY <1>7, <2>5 DEF SendToBack
<1>8. CASE MoveInQueue(c)
  <2>1. PICK o \in Orders(Queue), y \in People : Move(c, o, y)
    BY <1>8 DEF MoveInQueue
  <2>2. call[c].who \in Queue /\ y \in Queue /\ Queue \in SUBSET People
    BY <2>1 DEF Move, Neighbour, Queue
  <2>3. \A z \in Queue : [appt[z] EXCEPT !.rank = NewRanks(o, call[c].who, y)[z]] \in Row
    BY <2>2, NewRanksType DEF Row
  <2>4. [z \in People |->
             IF z \in Queue THEN [appt[z] EXCEPT !.rank = NewRanks(o, call[c].who, y)[z]]
             ELSE NoRows[z]] \in [People -> Row]
    BY <2>3, NoRowsType
  <2>5. call' \in [Calls -> Call \cup {None}]
    BY <1>1, <1>8, <2>1, <2>2, <2>4 DEF Move, MoveInQueue, At, Call
  <2>6. QED
    BY <1>8, <2>5 DEF MoveInQueue
<1>9. CASE MoveRefused(c)
  BY <1>9 DEF MoveRefused, Ends
<1>10. CASE SaveAll(c)
  <2>1. appt' \in [People -> Row]
    BY <1>1, <1>10 DEF SaveAll, At
  <2>2. QED
    BY <1>2, <1>10, <2>1 DEF SaveAll, Ends
<1>11. CASE Fails(c)
  BY <1>11 DEF Fails, Ends
<1>12. QED
  BY <1>3, <1>4, <1>5, <1>6, <1>7, <1>8, <1>9, <1>10, <1>11 DEF CallStep

LEMMA NoticeStepType ==
  ASSUME TypeOK, NEW n \in Notices, NoticeStep(n)
  PROVE  TypeOK'
<1> DEFINE T == [who: People, stage: Stages]
<1> USE DEF TypeOK, noticeFrame, NoticeIs
<1>1. notice[n] # None => notice[n] \in Notice /\ notice[n].on \in T /\ notice[n].todo \in SUBSET T
  BY DEF Notice
<1>2. CASE NoticeRoom(n)
  <2>1. \A o : Candidates(o) \in SUBSET T
    BY DEF Candidates, Queue
  <2>2. notice' \in [Notices -> Notice \cup {None}]
    BY <1>2, <2>1 DEF NoticeRoom, Notice
  <2>3. emits' \in Nat
    BY <1>2 DEF NoticeRoom
  <2>4. QED
    BY <1>2, <2>2, <2>3 DEF NoticeRoom
<1>3. CASE NoticeRows(n)
  <2>1. {t \in notice[n].todo : t.stage \notin appt[t.who].notified} \in SUBSET T
    BY <1>1, <1>3 DEF NoticeRows
  <2>2. notice' \in [Notices -> Notice \cup {None}]
    BY <1>1, <1>3, <2>1 DEF NoticeRows, Notice
  <2>3. QED
    BY <1>3, <2>2 DEF NoticeRows
<1>4. CASE NoticeSend(n)
  <2>1. PICK t \in notice[n].todo :
          /\ sent' = sent \cup {t}
          /\ notice' = [notice EXCEPT ![n] = [notice[n] EXCEPT !.at = "mark", !.on = t]]
    BY <1>4 DEF NoticeSend
  <2>2. t \in T /\ notice[n] \in Notice
    BY <1>1, <1>4, <2>1 DEF NoticeSend
  <2>3. [notice[n] EXCEPT !.at = "mark", !.on = t] \in Notice
    BY <2>2 DEF Notice
  <2>4. QED
    BY <1>4, <2>1, <2>2, <2>3 DEF NoticeSend
<1>5. CASE NoticeMark(n)
  <2>1. appt' \in [People -> Row]
    <3> DEFINE t == notice[n].on
    <3>1. t \in T /\ appt[t.who] \in Row
      BY <1>1, <1>5 DEF NoticeMark
    <3>2. [appt[t.who] EXCEPT !.notified = @ \cup {t.stage}] \in Row
      BY <3>1 DEF Row
    <3>3. appt' = [appt EXCEPT ![t.who] = [appt[t.who] EXCEPT !.notified = @ \cup {t.stage}]]
      BY <1>5 DEF NoticeMark
    <3>4. QED
      BY <3>1, <3>2, <3>3
  <2>2. notice' \in [Notices -> Notice \cup {None}]
    BY <1>1, <1>5 DEF NoticeMark, Notice
  <2>3. QED
    BY <1>5, <2>1, <2>2 DEF NoticeMark
<1>6. QED
  BY <1>2, <1>3, <1>4, <1>5 DEF NoticeStep

LEMMA InitType == Init => TypeOK
<1> SUFFICES ASSUME Init PROVE TypeOK
  OBVIOUS
<1>1. Cardinality(People) \in Nat /\ MaxCalls \in Nat
  BY WaitingAssumption, FS_CardinalityType
<1>2. appt \in [People -> Row]
  BY NewRowType DEF Init
<1>3. QED
  BY <1>1, <1>2, WaitingAssumption DEF Init, TypeOK

LEMMA NextType == TypeOK /\ [Next]_vars => TypeOK'
<1> SUFFICES ASSUME TypeOK, [Next]_vars PROVE TypeOK'
  OBVIOUS
<1>1. CASE \E c \in Calls : CallStep(c) \/ Fails(c)
  BY <1>1, CallStepType
<1>2. ASSUME NEW c \in Calls, NEW x \in People, Arrive(c, x) PROVE TypeOK'
  <2>1. NewRow(IF via[x] = "self" THEN "requested" ELSE "confirmed") \in Row
    BY NewRowType
  <2>2. call' \in [Calls -> Call \cup {None}]
    BY <1>2, <2>1, NoRowsType DEF Arrive, Call, TypeOK
  <2>3. QED
    BY <1>2, <2>1, <2>2 DEF Arrive, TypeOK, noticeVars
<1>3. ASSUME NEW c \in Calls, NEW op \in Ops, NEW x \in People, Begin(c, op, x) PROVE TypeOK'
  <2>1. op \in OpNames /\ appt[x] \in Row
    BY WaitingAssumption DEF TypeOK
  <2>2. Changed(op, appt[x], WalkIn(x)) \in Row
    BY <2>1, ChangedType DEF WalkIn
  <2>3. FirstStep(op, appt[x]) \in {"ticket", "reread", "queue", "save"}
    BY DEF FirstStep
  <2>4. call' \in [Calls -> Call \cup {None}]
    BY <1>3, <2>1, <2>2, <2>3, NoRowsType DEF Begin, Call, TypeOK
  <2>5. QED
    BY <1>3, <2>4 DEF Begin, TypeOK, noticeVars
<1>4. ASSUME NEW x \in People, AwayEnds(x) PROVE TypeOK'
  <2>1. appt' \in [People -> Row]
    <3>1. appt[x] \in Row
      BY DEF TypeOK
    <3>2. [appt[x] EXCEPT !.away = FALSE] \in Row
      BY <3>1 DEF Row
    <3>3. QED
      BY <1>4, <3>2 DEF AwayEnds, TypeOK
  <2>2. ASSUME NEW c \in Calls, call[c] # None
        PROVE  [call[c] EXCEPT !.rows[x].away = FALSE] \in Call
    <3>1. call[c] \in Call /\ call[c].rows \in [People -> Row]
      BY <2>2 DEF TypeOK, Call
    <3>2. [call[c].rows[x] EXCEPT !.away = FALSE] \in Row
      BY <3>1 DEF Row
    <3>3. [call[c].rows EXCEPT ![x] = [call[c].rows[x] EXCEPT !.away = FALSE]] \in [People -> Row]
      BY <3>1, <3>2
    <3>4. QED
      BY <3>1, <3>3 DEF Call
  <2>3. call' \in [Calls -> Call \cup {None}]
    BY <1>4, <2>2 DEF AwayEnds, TypeOK
  <2>4. emits' \in Nat
    BY <1>4, WaitingAssumption DEF AwayEnds, Emit, TypeOK
  <2>5. QED
    BY <1>4, <2>1, <2>3, <2>4 DEF AwayEnds, TypeOK, noticeVars
<1>5. CASE \E n \in Notices : NoticeStep(n)
  BY <1>5, NoticeStepType
<1>6. CASE UNCHANGED vars
  BY <1>6 DEF vars, TypeOK
<1>7. QED
  BY <1>1, <1>2, <1>3, <1>4, <1>5, <1>6 DEF Next

(* Every variable of the waiting room keeps its type.                       *)
THEOREM WaitingTypeCorrect == Spec => []TypeOK
BY InitType, NextType, PTL DEF Spec
-----------------------------------------------------------------------------
(* No row is both called and absent, and no copy a handler may still save.  *)
Decent(row) == ~(row.called /\ row.away)
DecentInv ==
  /\ TypeOK /\ \A x \in People : Decent(appt[x])
  /\ \A c \in Calls : call[c] # None => \A x \in People : Decent(call[c].rows[x])

LEMMA ChangedDecent ==
  ASSUME NEW row \in Row, Decent(row), NEW op, NEW walkIn, Allowed(op, row, walkIn)
  PROVE  Decent(Changed(op, row, walkIn))
<1>1. CASE op \in {"call", "back"}
  BY <1>1 DEF Changed, Resumed, Row, Decent
<1>2. CASE op = "away"
  BY <1>2 DEF Changed, Allowed, GrantsAbsence, Row, Decent
<1>3. CASE op \in {"undo", "leave"}
  BY <1>3 DEF Changed, Reset, Row, Decent
<1>4. CASE op \in {"confirm", "complete", "noShow", "cancel", "meCancel", "urgent", "notUrgent"}
  BY <1>4 DEF Changed, Row, Decent
<1>5. CASE op \notin {"call", "back", "away", "undo", "leave", "confirm", "complete", "noShow",
                      "cancel", "meCancel", "urgent", "notUrgent"}
  BY <1>5 DEF Changed
<1>6. QED
  BY <1>1, <1>2, <1>3, <1>4, <1>5

(* A step that writes decent rows and leaves the copies of all calls but c, *)
(* whose copies stay decent.                                                *)
LEMMA DecentStep ==
  ASSUME DecentInv, TypeOK', \A x \in People : Decent(appt'[x]),
         NEW c \in Calls, \A d \in Calls \ {c} : call'[d] = call[d],
         call'[c] # None => \A x \in People : Decent(call'[c].rows[x])
  PROVE  DecentInv'
BY DEF DecentInv, Decent

LEMMA CallDecent ==
  ASSUME DecentInv, TypeOK', NEW c \in Calls, CallStep(c) \/ Fails(c)
  PROVE  DecentInv'
<1> USE DEF DecentInv, TypeOK
<1>1. call[c] # None => call[c] \in Call /\ call[c].who \in People
                        /\ call[c].rows \in [People -> Row]
  BY DEF Call
<1>2. \A d \in Calls \ {c} : call'[d] = call[d]
  BY DEF CallStep, TicketLock, TicketSave, Reread, Save, SendToBack, MoveInQueue, Move,
         MoveRefused, SaveAll, Fails, Ends
<1>3. CASE TicketLock(c)
  <2>1. UNCHANGED appt /\ call[c] # None /\ call'[c].rows = call[c].rows
    BY <1>1, <1>3 DEF TicketLock, At, Call
  <2>2. QED
    BY <1>2, <2>1, DecentStep
<1>4. CASE TicketSave(c)
  <2>1. call[c] # None /\ (call'[c] = None \/ call'[c].rows = call[c].rows)
    BY <1>1, <1>4 DEF TicketSave, At, Ends, Call
  <2>2. PICK t, r : appt' = [appt EXCEPT ![call[c].who] =
          [call[c].rows[call[c].who] EXCEPT !.arrived = TRUE, !.ticket = t, !.rank = r]]
    BY <1>4 DEF TicketSave
  <2>3. \A x \in People : Decent(appt'[x])
    BY <1>1, <2>1, <2>2 DEF Decent, Row
  <2>4. QED
    BY <1>2, <2>1, <2>3, DecentStep
<1>5. CASE Reread(c)
  <2> DEFINE row == [appt[call[c].who] EXCEPT !.status = "inProgress", !.away = FALSE]
  <2>1. call[c] # None /\ UNCHANGED appt
        /\ call'[c].rows = [call[c].rows EXCEPT ![call[c].who] = row]
    BY <1>1, <1>5 DEF Reread, At, Call
  <2>2. Decent(row)
    BY <1>1, <2>1 DEF Decent, Row
  <2> HIDE DEF row
  <2>3. \A x \in People : Decent(call'[c].rows[x])
    BY <1>1, <2>1, <2>2
  <2>4. QED
    BY <1>2, <2>1, <2>3, DecentStep
<1>6. CASE Save(c)
  <2>1. call[c] # None /\ call'[c] = None
        /\ appt' = [appt EXCEPT ![call[c].who] = call[c].rows[call[c].who]]
    BY <1>6 DEF Save, At, Ends
  <2>2. \A x \in People : Decent(appt'[x])
    BY <1>1, <2>1
  <2>3. QED
    BY <1>2, <2>1, <2>2, DecentStep
<1>7. CASE SendToBack(c)
  <2>1. PICK m :
          call' = [call EXCEPT ![c].at = "save",
             ![c].rows[call[c].who] =
                [@ EXCEPT !.rank = m + 1, !.urgent = FALSE, !.called = FALSE,
                          !.away = FALSE, !.notified = {}]]
    BY <1>7 DEF SendToBack
  <2> DEFINE row == [call[c].rows[call[c].who] EXCEPT
                       !.rank = m + 1, !.urgent = FALSE, !.called = FALSE,
                       !.away = FALSE, !.notified = {}]
  <2>2. call[c] # None /\ UNCHANGED appt
        /\ call'[c].rows = [call[c].rows EXCEPT ![call[c].who] = row]
    BY <1>1, <1>7, <2>1 DEF SendToBack, At, Call
  <2>3. Decent(row)
    BY <1>1, <2>2 DEF Decent, Row
  <2> HIDE DEF row
  <2>4. \A x \in People : Decent(call'[c].rows[x])
    BY <1>1, <2>2, <2>3
  <2>5. QED
    BY <1>2, <2>2, <2>4, DecentStep
<1>8. CASE MoveInQueue(c)
  <2>1. PICK o \in Orders(Queue), y \in People : Move(c, o, y)
    BY <1>8 DEF MoveInQueue
  <2>2. call[c] # None /\ UNCHANGED appt
    BY <1>8 DEF MoveInQueue, At
  <2>3. call'[c].rows = [z \in People |->
             IF z \in Queue THEN [appt[z] EXCEPT !.rank = NewRanks(o, call[c].who, y)[z]]
             ELSE NoRows[z]]
    BY <1>1, <2>1, <2>2 DEF Move, Call
  <2>4. \A z \in People : Decent([appt[z] EXCEPT !.rank = NewRanks(o, call[c].who, y)[z]])
    BY DEF Decent, Row
  <2>5. \A z \in People : Decent(NoRows[z])
    BY DEF Decent, NoRows, NewRow
  <2>6. \A x \in People : Decent(call'[c].rows[x])
    BY <2>3, <2>4, <2>5
  <2>7. QED
    BY <1>2, <2>2, <2>6, DecentStep
<1>9. CASE MoveRefused(c) \/ Fails(c)
  BY <1>2, <1>9, DecentStep DEF MoveRefused, Fails, Ends
<1>10. CASE SaveAll(c)
  <2>1. call[c] # None /\ call'[c] = None
        /\ appt' = [x \in People |-> IF x \in call[c].held THEN call[c].rows[x] ELSE appt[x]]
    BY <1>10 DEF SaveAll, At, Ends
  <2>2. \A x \in People : Decent(appt'[x])
    BY <2>1
  <2>3. QED
    BY <1>2, <2>1, <2>2, DecentStep
<1>11. QED
  BY <1>3, <1>4, <1>5, <1>6, <1>7, <1>8, <1>9, <1>10 DEF CallStep

LEMMA DecentKept ==
  ASSUME DecentInv, [Next]_vars
  PROVE  DecentInv'
<1>1. TypeOK'
  BY NextType DEF DecentInv
<1> USE DEF DecentInv
<1>2. CASE \E c \in Calls : CallStep(c) \/ Fails(c)
  BY <1>1, <1>2, CallDecent
<1>3. ASSUME NEW c \in Calls, NEW x \in People, Arrive(c, x) PROVE DecentInv'
  <2> DEFINE row == NewRow(IF via[x] = "self" THEN "requested" ELSE "confirmed")
  <2>1. Decent(row) /\ \A y \in People : Decent(NoRows[y])
    BY DEF Decent, NoRows, NewRow
  <2> HIDE DEF row
  <2>2. /\ appt' = [appt EXCEPT ![x] = row] /\ call'[c].rows = [NoRows EXCEPT ![x] = row]
        /\ \A d \in Calls \ {c} : call'[d] = call[d]
    BY <1>3 DEF Arrive, row, TypeOK
  <2>3. \A y \in People : Decent(appt'[y]) /\ Decent(call'[c].rows[y])
    BY <2>1, <2>2 DEF TypeOK, NoRows
  <2>4. QED
    BY <1>1, <2>2, <2>3, DecentStep
<1>4. ASSUME NEW c \in Calls, NEW op \in Ops, NEW x \in People, Begin(c, op, x) PROVE DecentInv'
  <2> DEFINE row == Changed(op, appt[x], WalkIn(x))
  <2>1. Decent(row)
    BY <1>4, ChangedDecent DEF Begin, TypeOK
  <2>2. \A y \in People : Decent(NoRows[y])
    BY DEF Decent, NoRows, NewRow
  <2> HIDE DEF row
  <2>3. /\ UNCHANGED appt /\ call'[c].rows = [NoRows EXCEPT ![x] = row]
        /\ \A d \in Calls \ {c} : call'[d] = call[d]
    BY <1>4 DEF Begin, row, TypeOK
  <2>4. \A y \in People : Decent(call'[c].rows[y])
    BY <2>1, <2>2, <2>3 DEF NoRows
  <2>5. QED
    BY <1>1, <2>3, <2>4, DecentStep
<1>5. ASSUME NEW x \in People, AwayEnds(x) PROVE DecentInv'
  <2>1. \A y \in People : Decent(appt'[y])
    BY <1>5 DEF AwayEnds, TypeOK, Decent, Row
  <2>2. ASSUME NEW c \in Calls, call'[c] # None, NEW y \in People
        PROVE  Decent(call'[c].rows[y])
    <3>1. /\ call[c] # None /\ call[c] \in Call /\ call[c].rows \in [People -> Row]
          /\ call'[c] = [call[c] EXCEPT !.rows[x].away = FALSE]
      BY <1>5, <2>2 DEF AwayEnds, TypeOK, Call
    <3>2. call'[c].rows = [call[c].rows EXCEPT ![x] = [call[c].rows[x] EXCEPT !.away = FALSE]]
      BY <3>1 DEF Call
    <3>3. Decent([call[c].rows[x] EXCEPT !.away = FALSE])
      BY <3>1 DEF Decent, Row
    <3>4. Decent(call[c].rows[y])
      BY <3>1
    <3>5. QED
      BY <3>1, <3>2, <3>3, <3>4
  <2>3. QED
    BY <1>1, <2>1, <2>2 DEF Decent
<1>6. ASSUME NEW n \in Notices, NoticeStep(n) PROVE DecentInv'
  <2>1. UNCHANGED call
    BY <1>6 DEF NoticeStep, NoticeRoom, NoticeRows, NoticeSend, NoticeMark, noticeFrame
  <2>2. \A x \in People : appt'[x].called = appt[x].called /\ appt'[x].away = appt[x].away
    <3>1. CASE UNCHANGED appt
      BY <3>1
    <3>2. CASE NoticeMark(n)
      <4>1. PICK y, m : appt' = [appt EXCEPT ![y].notified = m]
        BY <3>2 DEF NoticeMark
      <4>2. QED
        BY <4>1 DEF TypeOK, Row
    <3>3. QED
      BY <1>6, <3>1, <3>2 DEF NoticeStep, NoticeRoom, NoticeRows, NoticeSend
  <2>3. QED
    BY <1>1, <2>1, <2>2 DEF Decent
<1>7. CASE UNCHANGED vars
  BY <1>1, <1>7 DEF vars, Decent
<1>8. QED
  BY <1>2, <1>3, <1>4, <1>5, <1>6, <1>7 DEF Next

(* Nobody in the queue is skipped as absent after having been called: no    *)
(* copy saved late, by however many handlers, brings the absence back.      *)
THEOREM CalledIsPresentHolds == Spec => []CalledIsPresent
<1>1. Init => DecentInv
  BY InitType DEF Init, DecentInv, Decent, NewRow
<1>2. DecentInv /\ [Next]_vars => DecentInv'
  BY DecentKept
<1>3. DecentInv => CalledIsPresent
  BY DEF DecentInv, Decent, CalledIsPresent, Queue
<1>4. QED
  BY <1>1, <1>2, <1>3, PTL DEF Spec
-----------------------------------------------------------------------------
(* TicketsUnique for any number of persons, handlers and calls, where no    *)
(* two calls work on one turn at once.  A number is given only under the    *)
(* lock, above all the numbers in the room; a copy saved without the lock   *)
(* holds the number its row has, or none.                                   *)
(* Row a carries no number but the one b has.                               *)
SameTicket(a, b) == a.arrived => b.arrived /\ a.ticket = b.ticket

(* What each call knows of the rows it works on.                            *)
CallOK(c) ==
  call[c] # None =>
    /\ call[c].who \in call[c].held
    /\ call[c].at # "saveAll" => call[c].held = {call[c].who}
    /\ \A x \in call[c].held : appt[x].status # "none" /\ call[c].rows[x].status # "none"
    /\ call[c].at \in {"ticket", "number"} => ~appt[call[c].who].arrived
    /\ call[c].at \in {"queue", "save", "saveAll"} =>
         \A x \in call[c].held : SameTicket(call[c].rows[x], appt[x])
    /\ call[c].at = "number" =>
         lock = c /\ \A x \in Arrived : appt[x].ticket <= call[c].max

HeldApart ==
  \A c, d \in Calls : c # d /\ call[c] # None /\ call[d] # None =>
    call[c].held \cap call[d].held = {}

TicketInv == TypeOK /\ HeldApart /\ TicketsUnique /\ \A c \in Calls : CallOK(c)
-----------------------------------------------------------------------------
LEMMA CallFields ==
  ASSUME TypeOK, NEW c \in Calls, call[c] # None
  PROVE  /\ call[c] \in Call /\ call[c].who \in People /\ call[c].held \in SUBSET People
         /\ call[c].rows \in [People -> Row] /\ call[c].max \in Nat
         /\ call[c].op \in OpNames \cup {"arrive"}
BY DEF TypeOK, Call

(* No step but a numbering gives a number.                                  *)
LEMMA TicketsKept ==
  ASSUME TypeOK, TicketsUnique, \A x \in People : SameTicket(appt'[x], appt[x])
  PROVE  TicketsUnique'
BY DEF TicketsUnique, Arrived, SameTicket

(* A step of one call leaves the others as they were: it changes only rows  *)
(* they do not hold, and no number while one of them is giving its own.     *)
LEMMA OtherCall ==
  ASSUME TypeOK, NEW d \in Calls, CallOK(d), call'[d] = call[d], NEW S \in SUBSET People,
         \A x \in People \ S : appt'[x] = appt[x],
         call[d] # None => S \cap call[d].held = {},
         call[d] # None /\ call[d].at = "number" =>
            lock' = lock /\ \A x \in People : SameTicket(appt'[x], appt[x])
  PROVE  CallOK(d)'
<1> SUFFICES ASSUME call[d] # None PROVE CallOK(d)'
  BY DEF CallOK
<1>1. call[d].held \in SUBSET People /\ call[d].who \in People
  BY CallFields
<1>2. \A x \in call[d].held : appt'[x] = appt[x]
  BY <1>1
<1>3. call[d].at = "number" => \A x \in Arrived' : appt'[x].ticket <= call[d].max
  BY DEF CallOK, SameTicket, Arrived
<1>4. QED
  BY <1>1, <1>2, <1>3 DEF CallOK

(* A step that changes neither numbers nor presence nor status, in any row  *)
(* or copy.                                                                 *)
LEMMA NothingOfTickets ==
  ASSUME TicketInv, TypeOK', lock' = lock,
         \A x \in People : /\ appt'[x].arrived = appt[x].arrived
                           /\ appt'[x].ticket = appt[x].ticket
                           /\ appt'[x].status = appt[x].status,
         \A c \in Calls : /\ call[c] = None => call'[c] = None
                          /\ call[c] # None =>
                               /\ call'[c].at = call[c].at /\ call'[c].who = call[c].who
                               /\ call'[c].held = call[c].held /\ call'[c].max = call[c].max
                               /\ \A x \in People :
                                    /\ call'[c].rows[x].arrived = call[c].rows[x].arrived
                                    /\ call'[c].rows[x].ticket = call[c].rows[x].ticket
                                    /\ call'[c].rows[x].status = call[c].rows[x].status
  PROVE  TicketInv'
<1> USE DEF TicketInv
<1>1. HeldApart'
  BY DEF HeldApart
<1>2. TicketsUnique'
  BY TicketsKept DEF SameTicket
<1>3. ASSUME NEW c \in Calls, call[c] # None PROVE CallOK(c)'
  <2>1. call[c].held \in SUBSET People /\ call[c].who \in People
    BY <1>3, CallFields
  <2>2. Arrived' = Arrived /\ Arrived \in SUBSET People
    BY DEF Arrived
  <2>3. CallOK(c)
    OBVIOUS
  <2>4. QED
    BY <1>3, <2>1, <2>2, <2>3 DEF CallOK, SameTicket
<1>4. ASSUME NEW c \in Calls, call[c] = None PROVE CallOK(c)'
  BY <1>4 DEF CallOK
<1>5. QED
  BY <1>1, <1>2, <1>3, <1>4

(* Only the call that owns the lock is giving a number.                     *)
LEMMA OneNumbers ==
  ASSUME TicketInv, NEW d \in Calls, call[d] # None, call[d].at = "number"
  PROVE  lock = d /\ lock # None
BY WaitingAssumption DEF TicketInv, CallOK
-----------------------------------------------------------------------------
(* A step of call c that gives no number: its rows stay with it.            *)
LEMMA CallChanges ==
  ASSUME TicketInv, TypeOK', NEW c \in Calls,
         \A d \in Calls \ {c} : call'[d] = call[d],
         NEW S \in SUBSET People, \A x \in People \ S : appt'[x] = appt[x],
         \A d \in Calls \ {c} : call[d] # None => S \cap call[d].held = {},
         \A x \in People : SameTicket(appt'[x], appt[x]),
         \A d \in Calls \ {c} : call[d] # None /\ call[d].at = "number" => lock' = lock,
         \A d \in Calls \ {c} : call[d] # None /\ call'[c] # None =>
            call'[c].held \cap call[d].held = {},
         CallOK(c)'
  PROVE  TicketInv'
<1>1. TicketsUnique'
  BY TicketsKept DEF TicketInv
<1>2. HeldApart'
  BY DEF TicketInv, HeldApart
<1>3. \A d \in Calls \ {c} : CallOK(d)'
  BY OtherCall DEF TicketInv
<1>4. QED
  BY <1>1, <1>2, <1>3 DEF TicketInv

(* A step of call c that only rewrites its own copies.                       *)
LEMMA CopyChanges ==
  ASSUME TicketInv, TypeOK', NEW c \in Calls, call[c] # None,
         \A d \in Calls \ {c} : call'[d] = call[d],
         appt' = appt, lock' = lock, call'[c].held = call[c].held, CallOK(c)'
  PROVE  TicketInv'
<1>1. \A x \in People : SameTicket(appt'[x], appt[x])
  BY DEF SameTicket
<1>2. \A d \in Calls \ {c} : call[d] # None => call'[c].held \cap call[d].held = {}
  BY DEF TicketInv, HeldApart
<1>3. QED
  BY <1>1, <1>2, CallChanges

LEMMA CallStepTickets ==
  ASSUME TicketInv, Apart = TRUE, TypeOK', NEW c \in Calls, CallStep(c) \/ Fails(c)
  PROVE  TicketInv'
<1>0. call[c] # None
  BY DEF CallStep, TicketLock, TicketSave, Reread, Save, SendToBack, MoveInQueue,
         MoveRefused, SaveAll, Fails, At
<1> DEFINE x == call[c].who   held == call[c].held   rows == call[c].rows
<1>1. /\ call[c] \in Call /\ x \in People /\ held \in SUBSET People
      /\ rows \in [People -> Row] /\ call[c].max \in Nat
  BY <1>0, CallFields DEF TicketInv
<1>2. /\ TypeOK /\ CallOK(c) /\ x \in held
      /\ \A d \in Calls \ {c} : call[d] # None => held \cap call[d].held = {}
  BY <1>0 DEF TicketInv, CallOK, HeldApart
<1>3. \A y \in People : SameTicket(appt[y], appt[y])
  BY DEF SameTicket
<1>4. \A d \in Calls \ {c} : call[d] # None /\ call[d].at = "number" => lock = d
  BY OneNumbers
<1>5. call \in [Calls -> Call \cup {None}] /\ appt \in [People -> Row]
  BY <1>2 DEF TypeOK
<1>6. CASE TicketLock(c)
  <2>1. {appt[y].ticket : y \in Arrived} \in SUBSET Nat
    BY <1>5 DEF Arrived, Row
  <2>2. PICK m \in Highest({appt[y].ticket : y \in Arrived}) :
          call' = [call EXCEPT ![c].at = "number", ![c].max = m]
    BY <1>6 DEF TicketLock
  <2>3. \A y \in Arrived : appt[y].ticket <= m
    BY <2>1, <2>2, HighestType
  <2>4. /\ call[c].at = "ticket" /\ lock = None /\ lock' = c /\ appt' = appt
        /\ call'[c].at = "number" /\ call'[c].max = m /\ call'[c].who = x
        /\ call'[c].held = held /\ call'[c].rows = rows
        /\ \A d \in Calls \ {c} : call'[d] = call[d]
    BY <1>1, <1>5, <1>6, <2>2 DEF TicketLock, At, TicketFree, Call
  <2>5. CallOK(c)'
    BY <1>0, <1>2, <2>3, <2>4 DEF CallOK, Arrived
  <2>6. \A d \in Calls \ {c} : call[d] # None /\ call[d].at = "number" => lock' = lock
    BY <2>4, OneNumbers
  <2>7. QED
    BY <1>2, <1>3, <2>4, <2>5, <2>6, CallChanges
<1>7. CASE TicketSave(c)
  <2>1. PICK k \in 0..MaxWait :
          appt' = [appt EXCEPT ![x] =
             [rows[x] EXCEPT !.arrived = TRUE, !.ticket = call[c].max + 1, !.rank = clock + k]]
    BY <1>7 DEF TicketSave
  <2>2. call[c].at = "number" /\ held = {x}
    BY <1>0, <1>2, <1>7 DEF TicketSave, At, CallOK
  <2>3. \A y \in Arrived : appt[y].ticket <= call[c].max
    BY <1>0, <1>2, <2>2 DEF CallOK
  <2>4. /\ \A y \in People \ {x} : appt'[y] = appt[y]
        /\ appt'[x].ticket = call[c].max + 1 /\ appt'[x].status = rows[x].status
    BY <1>1, <1>5, <2>1 DEF Row
  <2>5. TicketsUnique'
    <3>1. \A y \in Arrived \ {x} : appt'[y].ticket # appt'[x].ticket
      BY <1>1, <1>5, <2>3, <2>4 DEF Arrived, Row
    <3>2. \A y, z \in Arrived \ {x} : y # z => appt'[y].ticket # appt'[z].ticket
      BY <2>4 DEF TicketInv, TicketsUnique, Arrived
    <3>3. Arrived' \ {x} \subseteq Arrived \ {x}
      BY <2>4 DEF Arrived
    <3>4. QED
      BY <3>1, <3>2, <3>3 DEF TicketsUnique
  <2>6. /\ \A d \in Calls \ {c} : call'[d] = call[d]
        /\ call'[c] = None \/ /\ call'[c].at = "reread" /\ call'[c].who = x
                              /\ call'[c].held = held /\ call'[c].rows = rows
    BY <1>1, <1>5, <1>7 DEF TicketSave, Ends, Call
  <2>7. CallOK(c)'
    BY <1>0, <1>2, <2>2, <2>4, <2>6 DEF CallOK
  <2>8. HeldApart'
    BY <1>0, <2>6 DEF TicketInv, HeldApart
  <2>9. ASSUME NEW d \in Calls \ {c} PROVE CallOK(d)'
    <3>1. call[d] # None => {x} \cap call[d].held = {}
      BY <1>2, <2>2
    <3>2. ~(call[d] # None /\ call[d].at = "number")
      BY <1>0, <2>2, OneNumbers
    <3>3. CallOK(d) /\ call'[d] = call[d]
      BY <2>6 DEF TicketInv
    <3>4. QED
      BY <1>1, <1>2, <2>4, <3>1, <3>2, <3>3, OtherCall
  <2>10. QED
    BY <2>5, <2>7, <2>8, <2>9 DEF TicketInv
<1>8. CASE Reread(c)
  <2>1. /\ call[c].at = "reread" /\ appt' = appt /\ lock' = lock
        /\ \A d \in Calls \ {c} : call'[d] = call[d]
        /\ call'[c].at = "save" /\ call'[c].who = x /\ call'[c].held = held
        /\ call'[c].rows[x] = [appt[x] EXCEPT !.status = "inProgress", !.away = FALSE]
    BY <1>1, <1>5, <1>8 DEF Reread, At, Call
  <2>2. held = {x}
    BY <1>0, <1>2, <2>1 DEF CallOK
  <2>3. /\ call'[c].rows[x].arrived = appt[x].arrived
        /\ call'[c].rows[x].ticket = appt[x].ticket /\ call'[c].rows[x].status = "inProgress"
    BY <1>1, <1>5, <2>1 DEF Row
  <2>4. appt[x].status # "none"
    BY <1>0, <1>2 DEF CallOK
  <2>5. CallOK(c)'
    <3>1. \A y \in held : y = x
      BY <2>2
    <3>2. SameTicket(call'[c].rows[x], appt'[x])
      BY <2>1, <2>3 DEF SameTicket
    <3>3. QED
      BY <1>2, <2>1, <2>2, <2>3, <2>4, <3>1, <3>2 DEF CallOK
  <2>6. QED
    BY <1>0, <1>2, <2>1, <2>5, CopyChanges
<1>9. CASE Save(c)
  <2>1. /\ call[c].at = "save" /\ lock' = lock /\ call' = [call EXCEPT ![c] = None]
        /\ appt' = [appt EXCEPT ![x] = rows[x]]
    BY <1>9 DEF Save, At, Ends
  <2>2. SameTicket(rows[x], appt[x])
    BY <1>0, <1>2, <2>1 DEF CallOK
  <2>3. /\ appt'[x] = rows[x] /\ \A y \in People \ {x} : appt'[y] = appt[y]
    BY <1>1, <1>5, <2>1
  <2>0. /\ \A y \in People \ held : appt'[y] = appt[y]
        /\ \A y \in People : SameTicket(appt'[y], appt[y])
    BY <1>1, <1>2, <1>3, <2>2, <2>3
  <2>4. /\ call'[c] = None /\ \A d \in Calls \ {c} : call'[d] = call[d]
        /\ CallOK(c)'
    BY <1>5, <2>1 DEF CallOK
  <2>5. QED
    BY <1>1, <1>2, <2>0, <2>1, <2>4, CallChanges
<1>10. CASE SendToBack(c)
  <2>1. PICK m \in Highest({appt[y].rank : y \in Queue}) :
          call' = [call EXCEPT ![c].at = "save",
             ![c].rows[x] = [@ EXCEPT !.rank = m + 1, !.urgent = FALSE, !.called = FALSE,
                                      !.away = FALSE, !.notified = {}]]
    BY <1>10 DEF SendToBack
  <2>2. /\ call[c].at = "queue" /\ appt' = appt /\ lock' = lock
        /\ \A d \in Calls \ {c} : call'[d] = call[d]
        /\ call'[c].at = "save" /\ call'[c].who = x /\ call'[c].held = held
        /\ call'[c].rows[x] = [rows[x] EXCEPT !.rank = m + 1, !.urgent = FALSE, !.called = FALSE,
                                              !.away = FALSE, !.notified = {}]
    BY <1>1, <1>5, <1>10, <2>1 DEF SendToBack, At, Call
  <2>3. held = {x}
    BY <1>0, <1>2, <2>2 DEF CallOK
  <2>4. /\ call'[c].rows[x].arrived = rows[x].arrived
        /\ call'[c].rows[x].ticket = rows[x].ticket /\ call'[c].rows[x].status = rows[x].status
    BY <1>1, <2>2 DEF Row
  <2>5. CallOK(c)'
    <3>1. /\ \A y \in held : y = x
          /\ appt[x].status # "none" /\ rows[x].status # "none"
          /\ SameTicket(rows[x], appt[x])
      BY <1>0, <1>2, <2>2, <2>3 DEF CallOK
    <3>2. SameTicket(call'[c].rows[x], appt'[x])
      BY <2>2, <2>4, <3>1 DEF SameTicket
    <3>3. QED
      BY <1>2, <2>2, <2>3, <2>4, <3>1, <3>2 DEF CallOK
  <2>6. QED
    BY <1>0, <1>2, <2>2, <2>5, CopyChanges
<1>11. CASE MoveInQueue(c)
  <2>1. PICK o \in Orders(Queue), y \in People : Move(c, o, y)
    BY <1>11 DEF MoveInQueue
  <2>2. /\ x \in Queue /\ Queue \in SUBSET People /\ appt' = appt /\ lock' = lock
        /\ \A d \in Calls \ {c} : call[d] # None => Queue \cap call[d].held = {}
        /\ \A d \in Calls \ {c} : call'[d] = call[d]
        /\ call'[c].at = "saveAll" /\ call'[c].who = x /\ call'[c].held = Queue
    <3>1. /\ x \in Queue /\ appt' = appt /\ lock' = lock
          /\ \A d \in Calls \ {c} : call[d] # None => call[d].held \cap Queue = {}
      BY <1>1, <1>11, <2>1 DEF Move, MoveInQueue, Neighbour
    <3>2. /\ call[c] \in Call /\ \A d \in Calls \ {c} : call'[d] = call[d]
          /\ call'[c].at = "saveAll" /\ call'[c].who = x /\ call'[c].held = Queue
      BY <1>1, <1>5, <2>1 DEF Move, Call
    <3>3. QED
      BY <3>1, <3>2 DEF Queue
  <2>3. \A z \in Queue :
          call'[c].rows[z] = [appt[z] EXCEPT !.rank = NewRanks(o, x, y)[z]]
    BY <1>1, <1>5, <2>1, <2>2 DEF Move, Call
  <2>4. \A z \in Queue : /\ call'[c].rows[z].arrived = appt[z].arrived
                         /\ call'[c].rows[z].ticket = appt[z].ticket
                         /\ call'[c].rows[z].status = appt[z].status
                         /\ appt[z].status = "confirmed"
    <3>1. ASSUME NEW z \in Queue
          PROVE  /\ call'[c].rows[z].arrived = appt[z].arrived
                 /\ call'[c].rows[z].ticket = appt[z].ticket
                 /\ call'[c].rows[z].status = appt[z].status
      <4>1. appt[z] \in Row
        BY <1>5, <2>2
      <4>2. QED
        BY <2>3, <4>1 DEF Row
    <3>2. \A z \in Queue : appt[z].status = "confirmed"
      BY DEF Queue, Present
    <3>3. QED
      BY <3>1, <3>2
  <2>5. CallOK(c)'
    BY <2>2, <2>4 DEF CallOK, SameTicket
  <2>6. QED
    BY <1>2, <1>3, <2>2, <2>5, CallChanges
<1>12. CASE MoveRefused(c)
  <2>1. call' = [call EXCEPT ![c] = None] /\ appt' = appt /\ lock' = lock
    BY <1>12 DEF MoveRefused, Ends
  <2>2. /\ call'[c] = None /\ \A d \in Calls \ {c} : call'[d] = call[d]
        /\ CallOK(c)'
    BY <1>5, <2>1 DEF CallOK
  <2>3. QED
    BY <1>2, <1>3, <2>1, <2>2, CallChanges
<1>13. CASE SaveAll(c)
  <2>1. /\ call[c].at = "saveAll" /\ lock' = lock /\ call' = [call EXCEPT ![c] = None]
        /\ appt' = [y \in People |-> IF y \in held THEN rows[y] ELSE appt[y]]
    BY <1>13 DEF SaveAll, At, Ends
  <2>2. \A y \in held : SameTicket(rows[y], appt[y])
    BY <1>0, <1>2, <2>1 DEF CallOK
  <2>3. /\ \A y \in People \ held : appt'[y] = appt[y]
        /\ \A y \in People : SameTicket(appt'[y], appt[y])
    BY <1>1, <1>3, <1>5, <2>1, <2>2
  <2>4. /\ call'[c] = None /\ \A d \in Calls \ {c} : call'[d] = call[d]
        /\ CallOK(c)'
    BY <1>5, <2>1 DEF CallOK
  <2>5. QED
    BY <1>1, <1>2, <2>1, <2>3, <2>4, CallChanges
<1>14. CASE Fails(c)
  <2>1. call' = [call EXCEPT ![c] = None] /\ appt' = appt
        /\ lock' = IF lock = c THEN None ELSE lock
    BY <1>14 DEF Fails, Ends
  <2>2. /\ call'[c] = None /\ \A d \in Calls \ {c} : call'[d] = call[d]
        /\ CallOK(c)'
    BY <1>5, <2>1 DEF CallOK
  <2>3. \A d \in Calls \ {c} : call[d] # None /\ call[d].at = "number" => lock' = lock
    BY <1>4, <2>1
  <2>4. QED
    BY <1>2, <1>3, <2>1, <2>2, <2>3, CallChanges
<1>15. QED
  BY <1>6, <1>7, <1>8, <1>9, <1>10, <1>11, <1>12, <1>13, <1>14 DEF CallStep

LEMMA ArriveTickets ==
  ASSUME TicketInv, TypeOK', NEW c \in Calls, NEW x \in People, Arrive(c, x)
  PROVE  TicketInv'
<1> DEFINE row == NewRow(IF via[x] = "self" THEN "requested" ELSE "confirmed")
<1>1. row.status # "none" /\ ~row.arrived
  BY DEF NewRow
<1>2. call \in [Calls -> Call \cup {None}] /\ appt \in [People -> Row]
  BY DEF TicketInv, TypeOK
<1>3. /\ call[c] = None /\ appt[x].status = "none" /\ lock' = lock
      /\ appt' = [appt EXCEPT ![x] = row]
      /\ \A d \in Calls \ {c} : call'[d] = call[d]
      /\ call'[c].at = "ticket" /\ call'[c].who = x /\ call'[c].held = {x}
      /\ call'[c].rows = [NoRows EXCEPT ![x] = row]
  BY <1>2 DEF Arrive
<1>4. appt'[x] = row /\ call'[c].rows[x] = row
  BY <1>2, <1>3, NoRowsType
<1>5. CallOK(c)'
  BY <1>1, <1>3, <1>4 DEF CallOK
<1>6. ASSUME NEW d \in Calls \ {c}, call[d] # None PROVE {x} \cap call[d].held = {}
  BY <1>3, <1>6 DEF TicketInv, CallOK
<1>7. \A y \in People : SameTicket(appt'[y], appt[y])
  BY <1>1, <1>2, <1>3 DEF SameTicket
<1>8. \A y \in People \ {x} : appt'[y] = appt[y]
  BY <1>2, <1>3
<1>9. /\ lock' = lock /\ call'[c].held = {x}
      /\ \A d \in Calls \ {c} : call'[d] = call[d]
  BY <1>3
<1>10. {x} \in SUBSET People
  OBVIOUS
<1>11. QED
  BY <1>5, <1>6, <1>7, <1>8, <1>9, <1>10, CallChanges

LEMMA BeginTickets ==
  ASSUME TicketInv, Apart = TRUE, TypeOK', NEW c \in Calls, NEW op \in Ops, NEW x \in People,
         Begin(c, op, x)
  PROVE  TicketInv'
<1> DEFINE row == Changed(op, appt[x], WalkIn(x))
<1>1. call \in [Calls -> Call \cup {None}] /\ appt \in [People -> Row] /\ op \in OpNames
  BY WaitingAssumption DEF TicketInv, TypeOK
<1>2. SameTicket(row, appt[x]) /\ (appt[x].status # "none" => row.status # "none")
  BY <1>1, ChangedKeeps DEF SameTicket, WalkIn
<1>3. /\ call[c] = None /\ appt[x].status # "none" /\ ~Busy(x)
      /\ appt' = appt /\ lock' = lock /\ Allowed(op, appt[x], WalkIn(x))
      /\ \A d \in Calls \ {c} : call'[d] = call[d]
      /\ call'[c].at = FirstStep(op, appt[x]) /\ call'[c].who = x /\ call'[c].held = {x}
      /\ call'[c].rows = [NoRows EXCEPT ![x] = row]
  BY <1>1 DEF Begin
<1>4. call'[c].rows[x] = row
  BY <1>3, NoRowsType
<1>5. /\ FirstStep(op, appt[x]) \in {"ticket", "reread", "queue", "save"}
      /\ FirstStep(op, appt[x]) = "ticket" => ~appt[x].arrived
  BY <1>3 DEF FirstStep, Allowed
<1>6. CallOK(c)'
  BY <1>2, <1>3, <1>4, <1>5 DEF CallOK
<1>7. \A d \in Calls \ {c} : call[d] # None => {x} \cap call[d].held = {}
  BY <1>3 DEF Busy
<1>8. \A y \in People : SameTicket(appt'[y], appt[y]) /\ appt'[y] = appt[y]
  BY <1>3 DEF SameTicket
<1>9. /\ lock' = lock /\ call'[c].held = {x}
      /\ \A d \in Calls \ {c} : call'[d] = call[d]
  BY <1>3
<1>10. {x} \in SUBSET People
  OBVIOUS
<1>11. QED
  BY <1>6, <1>7, <1>8, <1>9, <1>10, CallChanges

LEMMA OtherTickets ==
  ASSUME TicketInv, TypeOK',
         \/ \E x \in People : AwayEnds(x)
         \/ \E n \in Notices : NoticeStep(n)
         \/ UNCHANGED vars
  PROVE  TicketInv'
<1>1. call \in [Calls -> Call \cup {None}] /\ appt \in [People -> Row]
  BY DEF TicketInv, TypeOK
<1>2. ASSUME NEW x \in People, AwayEnds(x) PROVE TicketInv'
  <2>1. /\ lock' = lock /\ appt' = [appt EXCEPT ![x].away = FALSE]
        /\ call' = [c \in Calls |-> IF call[c] = None THEN None
                                    ELSE [call[c] EXCEPT !.rows[x].away = FALSE]]
    BY <1>2 DEF AwayEnds
  <2>2. ASSUME NEW y \in People
        PROVE  /\ appt'[y].arrived = appt[y].arrived /\ appt'[y].ticket = appt[y].ticket
               /\ appt'[y].status = appt[y].status
    BY <1>1, <2>1 DEF Row
  <2>3. ASSUME NEW c \in Calls, call[c] # None
        PROVE  /\ call'[c].at = call[c].at /\ call'[c].who = call[c].who
               /\ call'[c].held = call[c].held /\ call'[c].max = call[c].max
               /\ \A y \in People : /\ call'[c].rows[y].arrived = call[c].rows[y].arrived
                                    /\ call'[c].rows[y].ticket = call[c].rows[y].ticket
                                    /\ call'[c].rows[y].status = call[c].rows[y].status
    <3>1. call[c] \in Call /\ call[c].rows \in [People -> Row]
      BY <2>3, CallFields DEF TicketInv
    <3>2. call'[c] = [call[c] EXCEPT !.rows[x].away = FALSE]
      BY <2>1, <2>3
    <3>3. /\ call'[c].at = call[c].at /\ call'[c].who = call[c].who
          /\ call'[c].held = call[c].held /\ call'[c].max = call[c].max
          /\ call'[c].rows = [call[c].rows EXCEPT ![x] = [call[c].rows[x] EXCEPT !.away = FALSE]]
      BY <3>1, <3>2 DEF Call
    <3>4. call[c].rows[x] \in Row
      BY <3>1
    <3>5. \A y \in People : /\ call'[c].rows[y].arrived = call[c].rows[y].arrived
                            /\ call'[c].rows[y].ticket = call[c].rows[y].ticket
                            /\ call'[c].rows[y].status = call[c].rows[y].status
      BY <3>1, <3>3, <3>4 DEF Row
    <3>6. QED
      BY <3>3, <3>5
  <2>4. \A c \in Calls : call[c] = None => call'[c] = None
    BY <2>1
  <2>5. QED
    BY <2>1, <2>2, <2>3, <2>4, NothingOfTickets
<1>3. ASSUME NEW n \in Notices, NoticeStep(n) PROVE TicketInv'
  <2>1. lock' = lock /\ call' = call
    BY <1>3 DEF NoticeStep, NoticeRoom, NoticeRows, NoticeSend, NoticeMark, noticeFrame
  <2>2. ASSUME NEW y \in People
        PROVE  /\ appt'[y].arrived = appt[y].arrived /\ appt'[y].ticket = appt[y].ticket
               /\ appt'[y].status = appt[y].status
    <3>1. CASE NoticeMark(n)
      <4>1. notice[n].on.who \in People
        BY <3>1 DEF NoticeMark, TicketInv, TypeOK, Notice
      <4>2. \E S : appt' = [appt EXCEPT ![notice[n].on.who].notified = S]
        BY <3>1 DEF NoticeMark
      <4>3. QED
        BY <1>1, <4>1, <4>2 DEF Row
    <3>2. CASE appt' = appt
      BY <3>2
    <3>3. QED
      BY <1>3, <3>1, <3>2 DEF NoticeStep, NoticeRoom, NoticeRows, NoticeSend
  <2>3. QED
    BY <2>1, <2>2, NothingOfTickets
<1>4. CASE UNCHANGED vars
  BY <1>4, NothingOfTickets DEF vars
<1>5. QED
  BY <1>2, <1>3, <1>4

LEMMA InitTickets == Init => TicketInv
BY InitType DEF Init, TicketInv, HeldApart, CallOK, TicketsUnique, Arrived, NewRow

LEMMA NextTickets ==
  ASSUME TicketInv, Apart = TRUE, [Next]_vars
  PROVE  TicketInv'
<1>1. TypeOK'
  BY NextType DEF TicketInv
<1>2. QED
  BY <1>1, CallStepTickets, ArriveTickets, BeginTickets, OtherTickets DEF Next

(* No two persons in the room ever have one number, for any number of       *)
(* persons and of concurrent handlers, where no two calls work on one turn  *)
(* at once.                                                                 *)
THEOREM TicketsAreUnique ==
  ASSUME Apart = TRUE
  PROVE  Spec => []TicketsUnique
<1>1. TicketInv /\ [Next]_vars => TicketInv'
  BY NextTickets
<1>2. TicketInv => TicketsUnique
  BY DEF TicketInv
<1>3. QED
  BY <1>1, <1>2, InitTickets, PTL DEF Spec
-----------------------------------------------------------------------------
(* Closed turns.  A copy of a closed turn is closed, whatever the call that *)
(* holds it is about; start(), which reads the row again and asks nothing   *)
(* of it, never works on one.                                               *)
Done(row) == row.status \in TerminalStatuses

ClosedOK(c) ==
  call[c] # None =>
    /\ \A x \in call[c].held :
         Done(appt[x]) => call[c].at # "reread" /\ Done(call[c].rows[x])
    /\ call[c].op = "start" /\ call[c].at \in {"ticket", "number"} =>
         ~Done(call[c].rows[call[c].who])

ClosedInv == TicketInv /\ \A c \in Calls : ClosedOK(c)

LEMMA ChangedDone ==
  ASSUME NEW row \in Row, NEW op \in OpNames, NEW w \in BOOLEAN, Allowed(op, row, w), Done(row)
  PROVE  Done(Changed(op, row, w))
<1>1. CASE op \in {"complete", "noShow", "cancel", "meCancel", "leave", "confirm"}
  BY <1>1 DEF Changed, Allowed, Done, TerminalStatuses, Row, Reset, Accepts
<1>2. CASE op \notin {"complete", "noShow", "cancel", "meCancel", "leave", "confirm"}
  <2>1. Changed(op, row, w).status = row.status
    BY <1>2 DEF Changed, Row, Reset, Resumed, OpNames, Clearing, Reorders
  <2>2. QED
    BY <2>1 DEF Done
<1>3. QED
  BY <1>1, <1>2

(* A step of call c changes, of the rows, only those it holds, and opens    *)
(* none that was closed.                                                    *)
LEMMA ClosedChanges ==
  ASSUME ClosedInv, NEW c \in Calls, \A d \in Calls \ {c} : call'[d] = call[d],
         NEW S \in SUBSET People, \A x \in People \ S : appt'[x].status = appt[x].status,
         \A d \in Calls \ {c} : call[d] # None => S \cap call[d].held = {},
         ClosedOK(c)'
  PROVE  \A d \in Calls : ClosedOK(d)'
<1>1. ASSUME NEW d \in Calls \ {c}, call[d] # None PROVE ClosedOK(d)'
  <2>1. call[d].held \in SUBSET People /\ S \cap call[d].held = {} /\ ClosedOK(d)
    BY <1>1, CallFields DEF ClosedInv, TicketInv
  <2>2. \A x \in call[d].held : appt'[x].status = appt[x].status
    BY <2>1
  <2>3. QED
    BY <1>1, <2>1, <2>2 DEF ClosedOK, Done
<1>2. ASSUME NEW d \in Calls \ {c}, call[d] = None PROVE ClosedOK(d)'
  BY <1>2 DEF ClosedOK
<1>3. QED
  BY <1>1, <1>2

StaysDone == \A x \in People : Done(appt[x]) => Done(appt'[x])

LEMMA CallStepClosed ==
  ASSUME ClosedInv, NEW c \in Calls, CallStep(c) \/ Fails(c)
  PROVE  StaysDone /\ \A d \in Calls : ClosedOK(d)'
<1> DEFINE k == call[c]   x == call[c].who   held == call[c].held   rows == call[c].rows
<1>0. call[c] # None
  BY DEF CallStep, TicketLock, TicketSave, Reread, Save, SendToBack, MoveInQueue,
         MoveRefused, SaveAll, Fails, At
<1>1. /\ call[c] \in Call /\ x \in People /\ held \in SUBSET People /\ rows \in [People -> Row]
  BY <1>0, CallFields DEF ClosedInv, TicketInv
<1>2. /\ x \in held /\ (k.at # "saveAll" => held = {x})
      /\ \A d \in Calls \ {c} : call[d] # None => held \cap call[d].held = {}
      /\ ClosedOK(c)
  BY <1>0 DEF ClosedInv, TicketInv, CallOK, HeldApart
<1>3. call \in [Calls -> Call \cup {None}] /\ appt \in [People -> Row]
  BY DEF ClosedInv, TicketInv, TypeOK
<1>4. /\ \A y \in held : Done(appt[y]) => k.at # "reread" /\ Done(rows[y])
      /\ k.op = "start" /\ k.at \in {"ticket", "number"} => ~Done(rows[x])
  BY <1>0, <1>2 DEF ClosedOK
<1>5. CASE TicketLock(c)
  <2>1. PICK m : call' = [call EXCEPT ![c].at = "number", ![c].max = m]
    BY <1>5 DEF TicketLock
  <2>2. /\ k.at = "ticket" /\ appt' = appt
        /\ call'[c].at = "number" /\ call'[c].op = k.op /\ call'[c].who = x
        /\ call'[c].held = held /\ call'[c].rows = rows
        /\ \A d \in Calls \ {c} : call'[d] = call[d]
    BY <1>1, <1>3, <1>5, <2>1 DEF TicketLock, At, Call
  <2>3. ClosedOK(c)'
    BY <1>4, <2>2 DEF ClosedOK
  <2>4. QED
    BY <1>1, <1>2, <2>2, <2>3, ClosedChanges DEF StaysDone
<1>6. CASE TicketSave(c)
  <2>1. PICK j \in 0..MaxWait :
          appt' = [appt EXCEPT ![x] =
             [rows[x] EXCEPT !.arrived = TRUE, !.ticket = k.max + 1, !.rank = clock + j]]
    BY <1>6 DEF TicketSave
  <2>2. /\ k.at = "number" /\ held = {x} /\ \A y \in People \ {x} : appt'[y] = appt[y]
        /\ appt'[x].status = rows[x].status
    BY <1>1, <1>2, <1>3, <1>6, <2>1 DEF TicketSave, At, Row
  <2>3. StaysDone
    BY <1>1, <1>4, <2>2 DEF StaysDone, Done
  <2>4. /\ \A d \in Calls \ {c} : call'[d] = call[d]
        /\ call'[c] = None \/ /\ call'[c].at = "reread" /\ call'[c].who = x /\ k.op = "start"
                              /\ call'[c].held = held /\ call'[c].rows = rows
    BY <1>1, <1>3, <1>6 DEF TicketSave, Ends, Call
  <2>5. ClosedOK(c)'
    BY <1>4, <2>2, <2>4 DEF ClosedOK, Done
  <2>6. QED
    BY <1>1, <1>2, <2>2, <2>3, <2>4, <2>5, ClosedChanges
<1>7. CASE Reread(c)
  <2>1. /\ k.at = "reread" /\ appt' = appt
        /\ \A d \in Calls \ {c} : call'[d] = call[d]
        /\ call'[c].at = "save" /\ call'[c].who = x /\ call'[c].held = held
    BY <1>1, <1>3, <1>7 DEF Reread, At, Call
  <2>2. \A y \in held : ~Done(appt'[y])
    BY <1>4, <2>1
  <2>3. ClosedOK(c)'
    BY <2>1, <2>2 DEF ClosedOK
  <2>4. QED
    BY <1>1, <1>2, <2>1, <2>3, ClosedChanges DEF StaysDone
<1>8. CASE Save(c)
  <2>1. /\ k.at = "save" /\ call' = [call EXCEPT ![c] = None]
        /\ appt' = [appt EXCEPT ![x] = rows[x]]
    BY <1>8 DEF Save, At, Ends
  <2>2. /\ appt'[x] = rows[x] /\ \A y \in People \ {x} : appt'[y] = appt[y]
        /\ call'[c] = None /\ \A d \in Calls \ {c} : call'[d] = call[d]
    BY <1>1, <1>3, <2>1
  <2>3. StaysDone
    BY <1>2, <1>4, <2>2 DEF StaysDone
  <2>4. ClosedOK(c)'
    BY <2>2 DEF ClosedOK
  <2>5. \A y \in People \ held : appt'[y].status = appt[y].status
    BY <1>2, <2>2
  <2>6. QED
    BY <1>1, <1>2, <2>2, <2>3, <2>4, <2>5, ClosedChanges
<1>9. CASE SendToBack(c)
  <2>1. PICK m : call' = [call EXCEPT ![c].at = "save",
             ![c].rows[x] = [@ EXCEPT !.rank = m + 1, !.urgent = FALSE, !.called = FALSE,
                                      !.away = FALSE, !.notified = {}]]
    BY <1>9 DEF SendToBack
  <2>2. /\ k.at = "queue" /\ appt' = appt
        /\ \A d \in Calls \ {c} : call'[d] = call[d]
        /\ call'[c].at = "save" /\ call'[c].who = x /\ call'[c].held = held
        /\ call'[c].rows[x] = [rows[x] EXCEPT !.rank = m + 1, !.urgent = FALSE, !.called = FALSE,
                                              !.away = FALSE, !.notified = {}]
    BY <1>1, <1>3, <1>9, <2>1 DEF SendToBack, At, Call
  <2>3. call'[c].rows[x].status = rows[x].status /\ held = {x}
    BY <1>1, <1>2, <2>2 DEF Row
  <2>4. ClosedOK(c)'
    BY <1>4, <2>2, <2>3 DEF ClosedOK, Done
  <2>5. QED
    BY <1>1, <1>2, <2>2, <2>4, ClosedChanges DEF StaysDone
<1>10. CASE MoveInQueue(c)
  <2>1. PICK o \in Orders(Queue), y \in People : Move(c, o, y)
    BY <1>10 DEF MoveInQueue
  <2>2. /\ appt' = appt /\ \A d \in Calls \ {c} : call'[d] = call[d]
        /\ call'[c].at = "saveAll" /\ call'[c].held = Queue
    BY <1>1, <1>3, <1>10, <2>1 DEF Move, MoveInQueue, Call
  <2>3. \A z \in Queue : ~Done(appt[z])
    BY DEF Queue, Present, Done, TerminalStatuses
  <2>4. ClosedOK(c)'
    BY <2>2, <2>3 DEF ClosedOK
  <2>5. QED
    BY <1>1, <1>2, <2>2, <2>4, ClosedChanges DEF StaysDone
<1>11. CASE SaveAll(c)
  <2>1. /\ k.at = "saveAll" /\ call' = [call EXCEPT ![c] = None]
        /\ appt' = [y \in People |-> IF y \in held THEN rows[y] ELSE appt[y]]
    BY <1>11 DEF SaveAll, At, Ends
  <2>2. /\ \A y \in held : appt'[y] = rows[y]
        /\ \A y \in People \ held : appt'[y] = appt[y]
        /\ call'[c] = None /\ \A d \in Calls \ {c} : call'[d] = call[d]
    BY <1>1, <1>3, <2>1
  <2>3. StaysDone
    BY <1>4, <2>1 DEF StaysDone
  <2>4. ClosedOK(c)'
    BY <2>2 DEF ClosedOK
  <2>5. \A y \in People \ held : appt'[y] = appt[y]
    BY <2>1
  <2>6. QED
    BY <1>1, <1>2, <2>2, <2>3, <2>4, <2>5, ClosedChanges
<1>12. CASE MoveRefused(c) \/ Fails(c)
  <2>1. call' = [call EXCEPT ![c] = None] /\ appt' = appt
    BY <1>12 DEF MoveRefused, Fails, Ends
  <2>2. call'[c] = None /\ \A d \in Calls \ {c} : call'[d] = call[d]
    BY <1>3, <2>1
  <2>3. ClosedOK(c)'
    BY <2>2 DEF ClosedOK
  <2>4. QED
    BY <1>1, <1>2, <2>1, <2>2, <2>3, ClosedChanges DEF StaysDone
<1>13. QED
  BY <1>5, <1>6, <1>7, <1>8, <1>9, <1>10, <1>11, <1>12 DEF CallStep

LEMMA BeginsClosed ==
  ASSUME ClosedInv, Apart = TRUE, NEW c \in Calls, NEW x \in People,
         Arrive(c, x) \/ \E op \in Ops : Begin(c, op, x)
  PROVE  StaysDone /\ \A d \in Calls : ClosedOK(d)'
<1>1. call \in [Calls -> Call \cup {None}] /\ appt \in [People -> Row]
  BY DEF ClosedInv, TicketInv, TypeOK
<1>2. CASE Arrive(c, x)
  <2> DEFINE row == NewRow(IF via[x] = "self" THEN "requested" ELSE "confirmed")
  <2>1. /\ appt[x].status = "none" /\ appt' = [appt EXCEPT ![x] = row]
        /\ \A d \in Calls \ {c} : call'[d] = call[d]
        /\ call'[c].at = "ticket" /\ call'[c].op = "arrive" /\ call'[c].held = {x}
    BY <1>1, <1>2 DEF Arrive
  <2>2. ~Done(row) /\ ~Done(appt[x])
    BY <2>1 DEF Done, NewRow, TerminalStatuses
  <2> HIDE DEF row
  <2>3. appt'[x] = row /\ \A y \in People \ {x} : appt'[y] = appt[y]
    BY <1>1, <2>1
  <2>4. \A d \in Calls \ {c} : call[d] # None => {x} \cap call[d].held = {}
    BY <2>1 DEF ClosedInv, TicketInv, CallOK
  <2>5. ClosedOK(c)'
    BY <2>1, <2>2, <2>3 DEF ClosedOK
  <2>6. StaysDone
    BY <2>2, <2>3 DEF StaysDone
  <2>7. {x} \in SUBSET People
    OBVIOUS
  <2>8. QED
    BY <2>1, <2>3, <2>4, <2>5, <2>6, <2>7, ClosedChanges
<1>3. ASSUME NEW op \in Ops, Begin(c, op, x)
      PROVE  StaysDone /\ \A d \in Calls : ClosedOK(d)'
  <2> DEFINE row == Changed(op, appt[x], WalkIn(x))
  <2>1. /\ appt' = appt /\ Allowed(op, appt[x], WalkIn(x)) /\ ~Busy(x)
        /\ \A d \in Calls \ {c} : call'[d] = call[d]
        /\ call'[c].at = FirstStep(op, appt[x]) /\ call'[c].op = op /\ call'[c].who = x
        /\ call'[c].held = {x} /\ call'[c].rows = [NoRows EXCEPT ![x] = row]
    BY <1>1, <1>3 DEF Begin
  <2>2. call'[c].rows[x] = row
    BY <2>1, NoRowsType
  <2>3. op \in OpNames /\ appt[x] \in Row /\ WalkIn(x) \in BOOLEAN
    BY <1>1, WaitingAssumption DEF WalkIn
  <2>4. Done(appt[x]) => Done(row) /\ op # "start"
    <3>1. Done(appt[x]) => op # "start"
      BY <2>1 DEF Allowed, Done, TerminalStatuses
    <3>2. QED
      BY <2>1, <2>3, <3>1, ChangedDone
  <2>5. op = "start" => row = appt[x]
    BY DEF Changed
  <2>6. FirstStep(op, appt[x]) = "reread" => op = "start"
    BY DEF FirstStep
  <2> HIDE DEF row
  <2>7. ClosedOK(c)'
    BY <2>1, <2>2, <2>4, <2>5, <2>6 DEF ClosedOK
  <2>8. \A d \in Calls \ {c} : call[d] # None => {x} \cap call[d].held = {}
    BY <2>1 DEF Busy
  <2>9. {x} \in SUBSET People
    OBVIOUS
  <2>10. QED
    BY <2>1, <2>7, <2>8, <2>9, ClosedChanges DEF StaysDone
<1>4. QED
  BY <1>2, <1>3

LEMMA OthersClosed ==
  ASSUME ClosedInv,
         \/ \E x \in People : AwayEnds(x)
         \/ \E n \in Notices : NoticeStep(n)
         \/ UNCHANGED vars
  PROVE  StaysDone /\ \A d \in Calls : ClosedOK(d)'
<1>1. call \in [Calls -> Call \cup {None}] /\ appt \in [People -> Row]
  BY DEF ClosedInv, TicketInv, TypeOK
<1>2. ASSUME \A y \in People : appt'[y].status = appt[y].status, call' = call
      PROVE  StaysDone /\ \A d \in Calls : ClosedOK(d)'
  <2>1. ASSUME NEW d \in Calls, call[d] # None PROVE ClosedOK(d)'
    <3>1. call[d].held \in SUBSET People /\ ClosedOK(d)
      BY <2>1, CallFields DEF ClosedInv, TicketInv
    <3>2. QED
      BY <1>2, <2>1, <3>1 DEF ClosedOK, Done
  <2>2. \A d \in Calls : call[d] = None => ClosedOK(d)'
    BY <1>2 DEF ClosedOK
  <2>3. QED
    BY <1>2, <2>1, <2>2 DEF StaysDone, Done
<1>3. ASSUME NEW x \in People, AwayEnds(x)
      PROVE  StaysDone /\ \A d \in Calls : ClosedOK(d)'
  <2>1. /\ appt' = [appt EXCEPT ![x].away = FALSE]
        /\ call' = [c \in Calls |-> IF call[c] = None THEN None
                                    ELSE [call[c] EXCEPT !.rows[x].away = FALSE]]
    BY <1>3 DEF AwayEnds
  <2>2. \A y \in People : appt'[y].status = appt[y].status
    BY <1>1, <2>1 DEF Row
  <2>3. ASSUME NEW d \in Calls, call[d] # None PROVE ClosedOK(d)'
    <3>1. /\ call[d] \in Call /\ call[d].held \in SUBSET People /\ call[d].who \in People
          /\ call[d].rows \in [People -> Row] /\ ClosedOK(d)
      BY <2>3, CallFields DEF ClosedInv, TicketInv
    <3>2. call'[d] = [call[d] EXCEPT !.rows[x].away = FALSE]
      BY <2>1, <2>3
    <3>3. /\ call'[d].at = call[d].at /\ call'[d].who = call[d].who /\ call'[d].op = call[d].op
          /\ call'[d].held = call[d].held
          /\ call'[d].rows = [call[d].rows EXCEPT ![x] = [call[d].rows[x] EXCEPT !.away = FALSE]]
      BY <3>1, <3>2 DEF Call
    <3>4. call[d].rows[x] \in Row
      BY <3>1
    <3>5. \A y \in People : call'[d].rows[y].status = call[d].rows[y].status
      BY <3>1, <3>3, <3>4 DEF Row
    <3>6. QED
      BY <2>2, <2>3, <3>1, <3>3, <3>5 DEF ClosedOK, Done
  <2>4. \A d \in Calls : call[d] = None => ClosedOK(d)'
    BY <2>1 DEF ClosedOK
  <2>5. QED
    BY <2>2, <2>3, <2>4 DEF StaysDone, Done
<1>4. ASSUME NEW n \in Notices, NoticeStep(n)
      PROVE  StaysDone /\ \A d \in Calls : ClosedOK(d)'
  <2>1. call' = call
    BY <1>4 DEF NoticeStep, NoticeRoom, NoticeRows, NoticeSend, NoticeMark, noticeFrame
  <2>2. \A y \in People : appt'[y].status = appt[y].status
    <3>1. CASE NoticeMark(n)
      <4>1. \E z, S : appt' = [appt EXCEPT ![z].notified = S]
        BY <3>1 DEF NoticeMark
      <4>2. QED
        BY <1>1, <4>1 DEF Row
    <3>2. CASE appt' = appt
      BY <3>2
    <3>3. QED
      BY <1>4, <3>1, <3>2 DEF NoticeStep, NoticeRoom, NoticeRows, NoticeSend
  <2>3. QED
    BY <1>2, <2>1, <2>2
<1>5. CASE UNCHANGED vars
  BY <1>2, <1>5 DEF vars
<1>6. QED
  BY <1>3, <1>4, <1>5

LEMMA ClosedStep ==
  ASSUME ClosedInv, Apart = TRUE, [Next]_vars
  PROVE  StaysDone /\ ClosedInv'
<1>1. TicketInv'
  BY NextTickets DEF ClosedInv
<1>2. StaysDone /\ \A d \in Calls : ClosedOK(d)'
  BY CallStepClosed, BeginsClosed, OthersClosed DEF Next
<1>3. QED
  BY <1>1, <1>2 DEF ClosedInv

(* A turn done, missed or cancelled never returns to the queue or to the    *)
(* agenda, for any number of persons and of handlers, where no two calls    *)
(* work on one turn at once.                                                *)
THEOREM TurnStaysClosedHolds ==
  ASSUME Apart = TRUE
  PROVE  Spec => TurnStaysClosed
<1>1. Init => ClosedInv
  BY InitTickets DEF Init, ClosedInv, ClosedOK
<1>2. ClosedInv /\ [Next]_vars => ClosedInv'
  BY ClosedStep
<1>3. ClosedInv /\ [Next]_vars =>
        \A x \in People : appt[x].status \in TerminalStatuses => appt'[x].status \in TerminalStatuses
  BY ClosedStep DEF StaysDone, Done
<1>4. QED
  BY <1>1, <1>2, <1>3, PTL DEF Spec, TurnStaysClosed
-----------------------------------------------------------------------------
(* The order of the queue.  What the order looks at, in rows and copies.    *)
Alike(a, b) ==
  /\ a.status = b.status /\ a.arrived = b.arrived
  /\ a.ticket = b.ticket /\ a.rank = b.rank /\ a.urgent = b.urgent
(* A row in the queue that stays in it keeps its place.                     *)
KeepsPlace(a, b) ==
  Present(a) /\ Present(b) => a.ticket = b.ticket /\ a.rank = b.rank /\ a.urgent = b.urgent

(* The copies of a call that is no reorder keep the place of their row; the *)
(* ranks a move will write keep the order of those it is not about.         *)
OrderOK(c) ==
  call[c] # None =>
    /\ call[c].at = "save" /\ call[c].op \notin Reorders =>
         KeepsPlace(call[c].rows[call[c].who], appt[call[c].who])
    /\ call[c].at = "saveAll" =>
         /\ call[c].op \in Reorders
         /\ \A x, y \in call[c].held \ {call[c].who} :
              Before(appt[x], appt[y]) => Before(call[c].rows[x], call[c].rows[y])

OrderInv == TicketInv /\ \A c \in Calls : OrderOK(c)

LEMMA BeforeOneWay ==
  ASSUME NEW a \in Row, NEW b \in Row, Before(a, b)
  PROVE  ~Before(b, a)
<1>1. /\ a.rank \in Nat /\ b.rank \in Nat /\ a.ticket \in Nat /\ b.ticket \in Nat
      /\ a.urgent \in BOOLEAN /\ b.urgent \in BOOLEAN
  BY DEF Row
<1>2. CASE a.urgent # b.urgent
  BY <1>1, <1>2, Zenon DEF Before
<1>3. CASE a.urgent = b.urgent
  BY <1>1, <1>3 DEF Before
<1>4. QED
  BY <1>2, <1>3

(* Two rows that keep their place keep their order.                         *)
LEMMA PlacesKeepOrder ==
  ASSUME TypeOK, NEW x \in Queue, NEW y \in Queue, Before(appt[x], appt[y]),
         Present(appt'[x]), Present(appt'[y]),
         KeepsPlace(appt'[x], appt[x]), KeepsPlace(appt'[y], appt[y])
  PROVE  ~Before(appt'[y], appt'[x])
<1>1. appt[x] \in Row /\ appt[y] \in Row /\ Present(appt[x]) /\ Present(appt[y])
  BY DEF TypeOK, Queue
<1>2. ~Before(appt[y], appt[x])
  BY <1>1, BeforeOneWay
<1>3. QED
  BY <1>1, <1>2 DEF KeepsPlace, Before

(* A call whose rows nobody touches is where it was.                        *)
LEMMA OrderSame ==
  ASSUME TicketInv, NEW d \in Calls, call[d] # None, OrderOK(d),
         call'[d].at = call[d].at, call'[d].op = call[d].op, call'[d].who = call[d].who,
         call'[d].held = call[d].held,
         \A y \in call[d].held : /\ Alike(call'[d].rows[y], call[d].rows[y])
                                 /\ Alike(appt'[y], appt[y])
  PROVE  OrderOK(d)'
<1>1. call[d].who \in call[d].held
  BY DEF TicketInv, CallOK
<1>2. call'[d].at = "save" /\ call'[d].op \notin Reorders =>
        KeepsPlace(call'[d].rows[call'[d].who], appt'[call'[d].who])
  <2> DEFINE x == call[d].who
  <2>1. SUFFICES ASSUME call[d].at = "save", call[d].op \notin Reorders
                 PROVE  KeepsPlace(call'[d].rows[x], appt'[x])
    OBVIOUS
  <2>2. KeepsPlace(call[d].rows[x], appt[x])
    BY <2>1 DEF OrderOK
  <2>3. Alike(call'[d].rows[x], call[d].rows[x]) /\ Alike(appt'[x], appt[x])
    BY <1>1
  <2>4. QED
    BY <2>2, <2>3 DEF KeepsPlace, Present, Alike
<1>3. ASSUME call[d].at = "saveAll", NEW x \in call[d].held \ {call[d].who},
             NEW y \in call[d].held \ {call[d].who}, Before(appt'[x], appt'[y])
      PROVE  Before(call'[d].rows[x], call'[d].rows[y])
  <2>1. Before(appt[x], appt[y])
    BY <1>3 DEF Before, Alike
  <2>2. Before(call[d].rows[x], call[d].rows[y])
    BY <1>3, <2>1 DEF OrderOK
  <2>3. QED
    BY <1>3, <2>2 DEF Before, Alike
<1>4. call'[d].at = "saveAll" => call'[d].op \in Reorders
  BY DEF OrderOK
<1>5. QED
  BY <1>2, <1>3, <1>4 DEF OrderOK

LEMMA OrderChanges ==
  ASSUME OrderInv, NEW c \in Calls, \A d \in Calls \ {c} : call'[d] = call[d],
         NEW S \in SUBSET People, \A x \in People \ S : appt'[x] = appt[x],
         \A d \in Calls \ {c} : call[d] # None => S \cap call[d].held = {},
         OrderOK(c)'
  PROVE  \A d \in Calls : OrderOK(d)'
<1>1. ASSUME NEW d \in Calls \ {c}, call[d] # None PROVE OrderOK(d)'
  <2>1. call[d].held \in SUBSET People /\ S \cap call[d].held = {} /\ OrderOK(d) /\ TicketInv
    BY <1>1, CallFields DEF OrderInv, TicketInv
  <2>2. \A x \in call[d].held :
          Alike(appt'[x], appt[x]) /\ Alike(call'[d].rows[x], call[d].rows[x])
    BY <1>1, <2>1 DEF Alike
  <2>3. QED
    BY <1>1, <2>1, <2>2, OrderSame
<1>2. ASSUME NEW d \in Calls \ {c}, call[d] = None PROVE OrderOK(d)'
  BY <1>2 DEF OrderOK
<1>3. QED
  BY <1>1, <1>2

(* An order and its new ranks are numbers.                                  *)
LEMMA OrderNumbers ==
  ASSUME NEW o \in Orders(Queue), NEW z \in Queue
  PROVE  o[z] \in Int
<1>1. IsFiniteSet(Queue)
  BY WaitingAssumption, FS_Subset DEF Queue
<1>2. Cardinality(Queue) \in Nat
  BY <1>1, FS_CardinalityType
<1>3. QED
  BY <1>2 DEF Orders

(* Exchanging two neighbours moves nobody else past anybody.                *)
LEMMA SwapKeeps ==
  ASSUME NEW op, NEW o \in Orders(Queue), NEW x, NEW y, Neighbour(op, o, x, y),
         NEW u \in Queue \ {x}, NEW v \in Queue \ {x}, o[u] < o[v]
  PROVE  NewRanks(o, x, y)[u] < NewRanks(o, x, y)[v]
<1>1. x \in Queue /\ y \in Queue /\ (o[y] = o[x] - 1 \/ o[y] = o[x] + 1)
  BY DEF Neighbour
<1>2. o[x] \in Int /\ o[y] \in Int /\ o[u] \in Int /\ o[v] \in Int
  BY <1>1, OrderNumbers
<1>3. o[u] # o[x] /\ o[v] # o[x]
  BY <1>1 DEF Orders
<1>4. \A z \in Queue \ {x} : NewRanks(o, x, y)[z] = IF z = y THEN o[x] ELSE o[z]
  BY DEF NewRanks
<1>5. CASE u = y
  BY <1>1, <1>2, <1>3, <1>4, <1>5
<1>6. CASE u # y /\ v = y
  BY <1>1, <1>2, <1>3, <1>4, <1>6
<1>7. CASE u # y /\ v # y
  BY <1>4, <1>7
<1>8. QED
  BY <1>5, <1>6, <1>7

(* What a change that is no reorder does to the place: nothing, or the row  *)
(* leaves the queue, or was not in it.                                      *)
LEMMA ChangedKeepsPlace ==
  ASSUME NEW row \in Row, NEW op \in OpNames \ Reorders, NEW w \in BOOLEAN, Allowed(op, row, w)
  PROVE  KeepsPlace(Changed(op, row, w), row)
<1>1. CASE op \in {"complete", "noShow", "cancel", "meCancel", "confirm", "undo", "leave"}
  BY <1>1 DEF Changed, Allowed, Accepts, KeepsPlace, Present, Row, Reset
<1>2. CASE op \notin {"complete", "noShow", "cancel", "meCancel", "confirm", "undo", "leave"}
  BY <1>2 DEF Changed, KeepsPlace, Row, Resumed, Reorders
<1>3. QED
  BY <1>1, <1>2

(* Who is in the queue and stays in it keeps its place in this step.        *)
AllKeep == \A x \in People : KeepsPlace(appt'[x], appt[x])

(* The same, but for those of a reorder that ends.                          *)
OrderMoves ==
  \A x, y \in Queue :
    Before(appt[x], appt[y]) /\ Present(appt'[x]) /\ Present(appt'[y])
      /\ Before(appt'[y], appt'[x]) =>
    \E c \in Calls : \/ Reordered(c, x, y)
                     \/ /\ At(c, "saveAll") /\ call'[c] = None
                        /\ ~({x, y} \subseteq call[c].held)

LEMMA KeepMovesNobody == ASSUME TypeOK, AllKeep PROVE OrderMoves
BY PlacesKeepOrder DEF AllKeep, OrderMoves, Queue

LEMMA SamePlaces == ASSUME appt' = appt PROVE AllKeep
BY DEF AllKeep, KeepsPlace

LEMMA CallStepOrder ==
  ASSUME OrderInv, NEW c \in Calls, CallStep(c) \/ Fails(c)
  PROVE  OrderMoves /\ \A d \in Calls : OrderOK(d)'
<1> DEFINE k == call[c]   x == call[c].who   held == call[c].held   rows == call[c].rows
<1>0. call[c] # None
  BY DEF CallStep, TicketLock, TicketSave, Reread, Save, SendToBack, MoveInQueue,
         MoveRefused, SaveAll, Fails, At
<1>1. /\ call[c] \in Call /\ x \in People /\ held \in SUBSET People /\ rows \in [People -> Row]
  BY <1>0, CallFields DEF OrderInv, TicketInv
<1>2. /\ x \in held /\ (k.at # "saveAll" => held = {x})
      /\ \A d \in Calls \ {c} : call[d] # None => held \cap call[d].held = {}
      /\ TypeOK /\ OrderOK(c) /\ CallOK(c)
  BY <1>0 DEF OrderInv, TicketInv, CallOK, HeldApart
<1>3. call \in [Calls -> Call \cup {None}] /\ appt \in [People -> Row]
  BY <1>2 DEF TypeOK
<1>4. appt' = appt => OrderMoves
  BY <1>2, SamePlaces, KeepMovesNobody
<1>5. CASE TicketLock(c)
  <2>1. PICK m : call' = [call EXCEPT ![c].at = "number", ![c].max = m]
    BY <1>5 DEF TicketLock
  <2>2. /\ appt' = appt /\ call'[c].at = "number" /\ \A d \in Calls \ {c} : call'[d] = call[d]
    BY <1>1, <1>3, <1>5, <2>1 DEF TicketLock, Call
  <2>3. OrderOK(c)'
    BY <2>2 DEF OrderOK
  <2>4. QED
    BY <1>1, <1>2, <1>4, <2>2, <2>3, OrderChanges
<1>6. CASE TicketSave(c)
  <2>1. k.at = "number" /\ held = {x} /\ ~appt[x].arrived
    BY <1>0, <1>2, <1>6 DEF TicketSave, At, CallOK
  <2>2. \A y \in People \ {x} : appt'[y] = appt[y]
    <3>1. \E m : appt' = [appt EXCEPT ![x] = m]
      BY <1>6 DEF TicketSave
    <3>2. QED
      BY <1>3, <3>1
  <2>3. /\ \A d \in Calls \ {c} : call'[d] = call[d]
        /\ call'[c] = None \/ call'[c].at = "reread"
    BY <1>1, <1>3, <1>6 DEF TicketSave, Ends, Call
  <2>4. OrderOK(c)'
    BY <2>3 DEF OrderOK
  <2>5. AllKeep
    BY <2>1, <2>2 DEF AllKeep, KeepsPlace, Present
  <2>6. QED
    BY <1>1, <1>2, <2>1, <2>2, <2>3, <2>4, <2>5, OrderChanges, KeepMovesNobody
<1>7. CASE Reread(c)
  <2>1. /\ appt' = appt /\ \A d \in Calls \ {c} : call'[d] = call[d]
        /\ call'[c].at = "save" /\ call'[c].who = x
        /\ call'[c].rows[x] = [appt[x] EXCEPT !.status = "inProgress", !.away = FALSE]
    BY <1>1, <1>3, <1>7 DEF Reread, At, Call
  <2>2. ~Present(call'[c].rows[x])
    BY <1>1, <1>3, <2>1 DEF Present, Row
  <2>3. OrderOK(c)'
    BY <2>1, <2>2 DEF OrderOK, KeepsPlace
  <2>4. QED
    BY <1>1, <1>2, <1>4, <2>1, <2>3, OrderChanges
<1>8. CASE Save(c)
  <2>1. /\ k.at = "save" /\ call' = [call EXCEPT ![c] = None]
        /\ appt' = [appt EXCEPT ![x] = rows[x]]
    BY <1>8 DEF Save, At, Ends
  <2>2. /\ held = {x} /\ appt'[x] = rows[x] /\ \A y \in People \ {x} : appt'[y] = appt[y]
        /\ call'[c] = None /\ \A d \in Calls \ {c} : call'[d] = call[d]
    BY <1>1, <1>2, <1>3, <2>1
  <2>3. OrderOK(c)'
    BY <2>2 DEF OrderOK
  <2>4. CASE k.op \notin Reorders
    <3>1. KeepsPlace(rows[x], appt[x])
      BY <1>0, <1>2, <2>1, <2>4 DEF OrderOK
    <3>2. AllKeep
      BY <2>2, <3>1 DEF AllKeep, KeepsPlace
    <3>3. QED
      BY <1>1, <1>2, <2>2, <2>3, <3>2, OrderChanges, KeepMovesNobody
  <2>5. CASE k.op \in Reorders
    <3>1. ASSUME NEW u \in Queue, NEW v \in Queue, Before(appt[u], appt[v]),
                 Present(appt'[u]), Present(appt'[v]), Before(appt'[v], appt'[u])
          PROVE  Reordered(c, u, v)
      <4>1. u \in People /\ v \in People
        BY DEF Queue
      <4>2. u = x \/ v = x
        BY <1>2, <2>2, <3>1, <4>1, PlacesKeepOrder DEF KeepsPlace
      <4>3. QED
        BY <1>0, <2>2, <2>5, <4>2 DEF Reordered
    <3>2. OrderMoves
      BY <3>1 DEF OrderMoves
    <3>3. QED
      BY <1>1, <1>2, <2>2, <2>3, <3>2, OrderChanges
  <2>6. QED
    BY <2>4, <2>5
<1>9. CASE SendToBack(c)
  <2>1. PICK m : call' = [call EXCEPT ![c].at = "save", ![c].rows[x] = m]
    BY <1>9 DEF SendToBack
  <2>2. /\ k.op = "sendToBack" /\ appt' = appt /\ \A d \in Calls \ {c} : call'[d] = call[d]
        /\ call'[c].at = "save" /\ call'[c].op = k.op
    BY <1>1, <1>3, <1>9, <2>1 DEF SendToBack, Call
  <2>3. OrderOK(c)'
    BY <2>2 DEF OrderOK, Reorders
  <2>4. QED
    BY <1>1, <1>2, <1>4, <2>2, <2>3, OrderChanges
<1>10. CASE MoveInQueue(c)
  <2>1. PICK o \in Orders(Queue), y \in People : Move(c, o, y)
    BY <1>10 DEF MoveInQueue
  <2>2. /\ appt' = appt /\ k.op \in Reorders /\ Neighbour(k.op, o, x, y)
        /\ \A d \in Calls \ {c} : call'[d] = call[d]
        /\ call'[c].at = "saveAll" /\ call'[c].held = Queue /\ call'[c].who = x
        /\ call'[c].op = k.op
        /\ call'[c].rows = [z \in People |->
             IF z \in Queue THEN [appt[z] EXCEPT !.rank = NewRanks(o, x, y)[z]] ELSE NoRows[z]]
    BY <1>1, <1>3, <1>10, <2>1 DEF Move, MoveInQueue, Call, Reorders
  <2>3. ASSUME NEW z \in Queue
        PROVE  /\ call'[c].rows[z].rank = NewRanks(o, x, y)[z]
               /\ call'[c].rows[z].ticket = appt[z].ticket
               /\ call'[c].rows[z].urgent = appt[z].urgent
    <3>1. z \in People /\ appt[z] \in Row
      BY <1>3 DEF Queue
    <3>2. QED
      BY <2>2, <2>3, <3>1 DEF Row
  <2>4. ASSUME NEW u \in Queue \ {x}, NEW v \in Queue \ {x}, Before(appt[u], appt[v])
        PROVE  Before(call'[c].rows[u], call'[c].rows[v])
    <3>1. o[u] < o[v]
      BY <2>4 DEF Orders
    <3>2. NewRanks(o, x, y)[u] < NewRanks(o, x, y)[v]
      BY <2>2, <3>1, SwapKeeps
    <3>3. appt[u].urgent # appt[v].urgent => appt[u].urgent
      BY <2>4 DEF Before
    <3>4. QED
      BY <2>3, <3>2, <3>3 DEF Before
  <2>5. OrderOK(c)'
    BY <2>2, <2>4 DEF OrderOK
  <2>6. QED
    BY <1>1, <1>2, <1>4, <2>2, <2>5, OrderChanges
<1>11. CASE SaveAll(c)
  <2>1. /\ k.at = "saveAll" /\ call' = [call EXCEPT ![c] = None]
        /\ appt' = [y \in People |-> IF y \in held THEN rows[y] ELSE appt[y]]
    BY <1>11 DEF SaveAll, At, Ends
  <2>2. /\ \A y \in held : appt'[y] = rows[y]
        /\ \A z \in People \ held : appt'[z] = appt[z]
        /\ call'[c] = None /\ \A d \in Calls \ {c} : call'[d] = call[d]
    BY <1>1, <1>3, <2>1
  <2>3. OrderOK(c)'
    BY <2>2 DEF OrderOK
  <2>4. ASSUME NEW u \in Queue, NEW v \in Queue, Before(appt[u], appt[v]),
               Before(appt'[v], appt'[u]), {u, v} \subseteq held
        PROVE  Reordered(c, u, v)
    <3>1. CASE x \in {u, v}
      BY <1>0, <1>2, <2>1, <2>2, <3>1 DEF Reordered, OrderOK
    <3>2. CASE x \notin {u, v}
      <4>1. Before(rows[u], rows[v])
        BY <1>0, <1>2, <2>1, <2>4, <3>2 DEF OrderOK
      <4>2. rows[u] \in Row /\ rows[v] \in Row
        BY <1>1, <2>4
      <4>3. QED
        BY <2>2, <2>4, <4>1, <4>2, BeforeOneWay
    <3>3. QED
      BY <3>1, <3>2
  <2>5. OrderMoves
    BY <1>0, <2>1, <2>2, <2>4 DEF OrderMoves, At
  <2>6. QED
    BY <1>1, <1>2, <2>2, <2>3, <2>5, OrderChanges
<1>12. CASE MoveRefused(c) \/ Fails(c)
  <2>1. call' = [call EXCEPT ![c] = None] /\ appt' = appt
    BY <1>12 DEF MoveRefused, Fails, Ends
  <2>2. call'[c] = None /\ \A d \in Calls \ {c} : call'[d] = call[d]
    BY <1>3, <2>1
  <2>3. OrderOK(c)'
    BY <2>2 DEF OrderOK
  <2>4. QED
    BY <1>1, <1>2, <1>4, <2>1, <2>2, <2>3, OrderChanges
<1>13. QED
  BY <1>5, <1>6, <1>7, <1>8, <1>9, <1>10, <1>11, <1>12 DEF CallStep

LEMMA BeginsOrder ==
  ASSUME OrderInv, Apart = TRUE, NEW c \in Calls, NEW x \in People,
         Arrive(c, x) \/ \E op \in Ops : Begin(c, op, x)
  PROVE  OrderMoves /\ \A d \in Calls : OrderOK(d)'
<1>1. call \in [Calls -> Call \cup {None}] /\ appt \in [People -> Row] /\ TypeOK
  BY DEF OrderInv, TicketInv, TypeOK
<1>2. {x} \in SUBSET People
  OBVIOUS
<1>3. CASE Arrive(c, x)
  <2>1. /\ appt[x].status = "none" /\ \E m : appt' = [appt EXCEPT ![x] = m]
        /\ \A d \in Calls \ {c} : call'[d] = call[d] /\ call'[c].at = "ticket"
    BY <1>1, <1>3 DEF Arrive
  <2>2. \A y \in People \ {x} : appt'[y] = appt[y]
    BY <1>1, <2>1
  <2>3. \A d \in Calls \ {c} : call[d] # None => {x} \cap call[d].held = {}
    BY <2>1 DEF OrderInv, TicketInv, CallOK
  <2>4. call'[c].at = "ticket"
    BY <1>1, <1>3 DEF Arrive
  <2>5. OrderOK(c)'
    BY <2>4 DEF OrderOK
  <2>6. AllKeep
    BY <2>1, <2>2 DEF AllKeep, KeepsPlace, Present
  <2>7. QED
    BY <1>1, <1>2, <2>1, <2>2, <2>3, <2>5, <2>6, OrderChanges, KeepMovesNobody
<1>4. ASSUME NEW op \in Ops, Begin(c, op, x)
      PROVE  OrderMoves /\ \A d \in Calls : OrderOK(d)'
  <2> DEFINE row == Changed(op, appt[x], WalkIn(x))
  <2>1. /\ appt' = appt /\ Allowed(op, appt[x], WalkIn(x)) /\ ~Busy(x)
        /\ \A d \in Calls \ {c} : call'[d] = call[d]
        /\ call'[c].at = FirstStep(op, appt[x]) /\ call'[c].op = op /\ call'[c].who = x
        /\ call'[c].rows = [NoRows EXCEPT ![x] = row]
    BY <1>1, <1>4 DEF Begin
  <2>2. call'[c].rows[x] = row
    BY <2>1, NoRowsType
  <2>3. op \in OpNames /\ appt[x] \in Row /\ WalkIn(x) \in BOOLEAN
    BY <1>1, WaitingAssumption DEF WalkIn
  <2>4. op \notin Reorders => KeepsPlace(row, appt[x])
    BY <2>1, <2>3, ChangedKeepsPlace
  <2>5. FirstStep(op, appt[x]) # "saveAll"
    BY DEF FirstStep
  <2> HIDE DEF row
  <2>6. OrderOK(c)'
    BY <2>1, <2>2, <2>4, <2>5 DEF OrderOK
  <2>7. \A d \in Calls \ {c} : call[d] # None => {x} \cap call[d].held = {}
    BY <2>1 DEF Busy
  <2>8. QED
    BY <1>1, <1>2, <2>1, <2>6, <2>7, OrderChanges, SamePlaces, KeepMovesNobody
<1>5. QED
  BY <1>3, <1>4

LEMMA OthersOrder ==
  ASSUME OrderInv,
         \/ \E x \in People : AwayEnds(x)
         \/ \E n \in Notices : NoticeStep(n)
         \/ UNCHANGED vars
  PROVE  OrderMoves /\ \A d \in Calls : OrderOK(d)'
<1>1. call \in [Calls -> Call \cup {None}] /\ appt \in [People -> Row] /\ TypeOK
  BY DEF OrderInv, TicketInv, TypeOK
<1>2. ASSUME \A y \in People : Alike(appt'[y], appt[y]),
             \A d \in Calls : call[d] = None => call'[d] = None,
             \A d \in Calls : call[d] # None =>
               /\ call'[d].at = call[d].at /\ call'[d].op = call[d].op
               /\ call'[d].who = call[d].who /\ call'[d].held = call[d].held
               /\ \A y \in People : Alike(call'[d].rows[y], call[d].rows[y])
      PROVE  OrderMoves /\ \A d \in Calls : OrderOK(d)'
  <2>1. ASSUME NEW d \in Calls, call[d] # None PROVE OrderOK(d)'
    <3>1. call[d].held \in SUBSET People /\ OrderOK(d) /\ TicketInv
      BY <2>1, CallFields DEF OrderInv, TicketInv
    <3>2. QED
      BY <1>2, <2>1, <3>1, OrderSame
  <2>2. \A d \in Calls : call[d] = None => OrderOK(d)'
    BY <1>2 DEF OrderOK
  <2>3. AllKeep
    BY <1>2 DEF AllKeep, KeepsPlace, Alike
  <2>4. QED
    BY <1>1, <2>1, <2>2, <2>3, KeepMovesNobody
<1>3. ASSUME NEW x \in People, AwayEnds(x)
      PROVE  OrderMoves /\ \A d \in Calls : OrderOK(d)'
  <2>1. /\ appt' = [appt EXCEPT ![x].away = FALSE]
        /\ call' = [c \in Calls |-> IF call[c] = None THEN None
                                    ELSE [call[c] EXCEPT !.rows[x].away = FALSE]]
    BY <1>3 DEF AwayEnds
  <2>2. \A y \in People : Alike(appt'[y], appt[y])
    BY <1>1, <2>1 DEF Row, Alike
  <2>3. ASSUME NEW d \in Calls, call[d] # None
        PROVE  /\ call'[d].at = call[d].at /\ call'[d].op = call[d].op
               /\ call'[d].who = call[d].who /\ call'[d].held = call[d].held
               /\ \A y \in People : Alike(call'[d].rows[y], call[d].rows[y])
    <3>1. call[d] \in Call /\ call[d].rows \in [People -> Row]
      BY <2>3, CallFields DEF OrderInv, TicketInv
    <3>2. call'[d] = [call[d] EXCEPT !.rows[x].away = FALSE]
      BY <2>1, <2>3
    <3>3. /\ call'[d].at = call[d].at /\ call'[d].who = call[d].who /\ call'[d].op = call[d].op
          /\ call'[d].held = call[d].held
          /\ call'[d].rows = [call[d].rows EXCEPT ![x] = [call[d].rows[x] EXCEPT !.away = FALSE]]
      BY <3>1, <3>2 DEF Call
    <3>4. call[d].rows[x] \in Row
      BY <3>1
    <3>5. \A y \in People : Alike(call'[d].rows[y], call[d].rows[y])
      BY <3>1, <3>3, <3>4 DEF Row, Alike
    <3>6. QED
      BY <3>3, <3>5
  <2>4. \A d \in Calls : call[d] = None => call'[d] = None
    BY <2>1
  <2>5. QED
    BY <1>2, <2>2, <2>3, <2>4
<1>4. ASSUME NEW n \in Notices, NoticeStep(n)
      PROVE  OrderMoves /\ \A d \in Calls : OrderOK(d)'
  <2>1. call' = call
    BY <1>4 DEF NoticeStep, NoticeRoom, NoticeRows, NoticeSend, NoticeMark, noticeFrame
  <2>2. \A y \in People : Alike(appt'[y], appt[y])
    <3>1. CASE NoticeMark(n)
      <4>1. \E z, S : appt' = [appt EXCEPT ![z].notified = S]
        BY <3>1 DEF NoticeMark
      <4>2. QED
        BY <1>1, <4>1 DEF Row, Alike
    <3>2. CASE appt' = appt
      BY <3>2 DEF Alike
    <3>3. QED
      BY <1>4, <3>1, <3>2 DEF NoticeStep, NoticeRoom, NoticeRows, NoticeSend
  <2>3. QED
    BY <1>2, <2>1, <2>2 DEF Alike
<1>5. CASE UNCHANGED vars
  BY <1>2, <1>5 DEF vars, Alike
<1>6. QED
  BY <1>3, <1>4, <1>5

LEMMA OrderStep ==
  ASSUME OrderInv, Apart = TRUE, [Next]_vars
  PROVE  OrderMoves /\ OrderInv'
<1>1. TicketInv'
  BY NextTickets DEF OrderInv
<1>2. OrderMoves /\ \A d \in Calls : OrderOK(d)'
  BY CallStepOrder, BeginsOrder, OthersOrder DEF Next
<1>3. QED
  BY <1>1, <1>2 DEF OrderInv

(* Two persons in the queue change places only by a reorder of one of them, *)
(* or where a move rewrites ranks of people it had not read: for any number *)
(* of persons, where no two calls work on one turn at once.                 *)
THEOREM OrderKeptHolds ==
  ASSUME Apart = TRUE
  PROVE  Spec => OrderKept
<1>1. Init => OrderInv
  BY InitTickets DEF Init, OrderInv, OrderOK
<1>2. OrderInv /\ [Next]_vars => OrderInv'
  BY OrderStep
<1>3. OrderInv /\ [Next]_vars => OrderMoves
  BY OrderStep
<1>4. QED
  BY <1>1, <1>2, <1>3, PTL DEF Spec, OrderKept, OrderMoves
-----------------------------------------------------------------------------
(* A move takes effect.  The copies a move is about to save put the person  *)
(* past the neighbour, in the same group.                                   *)
MoveOK(c) ==
  At(c, "saveAll") =>
    LET x == call[c].who  y == call[c].past  rows == call[c].rows
    IN  /\ {x, y} \subseteq call[c].held
        /\ rows[x].urgent = rows[y].urgent
        /\ IF call[c].op = "moveUp" THEN rows[x].rank < rows[y].rank
           ELSE rows[y].rank < rows[x].rank

MoveInv == TypeOK /\ \A c \in Calls : MoveOK(c)

(* Only the end of the move itself empties a call that is about to save.    *)
Passes ==
  \A c \in Calls : At(c, "saveAll") /\ call'[c] = None /\ UNCHANGED failures =>
    LET x == call[c].who  y == call[c].past
    IN  IF call[c].op = "moveUp" THEN Before(appt'[x], appt'[y])
        ELSE Before(appt'[y], appt'[x])

LEMMA MoveSame ==
  ASSUME NEW d \in Calls, MoveOK(d), call'[d] = call[d]
  PROVE  MoveOK(d)'
BY DEF MoveOK, At

LEMMA MoveSetUp ==
  ASSUME TypeOK, NEW c \in Calls, MoveInQueue(c)
  PROVE  MoveOK(c)' /\ call'[c] # None /\ \A d \in Calls \ {c} : call'[d] = call[d]
<1> DEFINE x == call[c].who   op == call[c].op
<1>1. call[c] # None /\ call[c].at = "queue" /\ op \in {"moveUp", "moveDown"}
  BY DEF MoveInQueue, At
<1>2. /\ call[c] \in Call /\ call \in [Calls -> Call \cup {None}] /\ appt \in [People -> Row]
  BY <1>1, CallFields DEF TypeOK
<1>3. PICK o \in Orders(Queue), y \in People : Move(c, o, y)
  BY DEF MoveInQueue
<1>4. /\ Neighbour(op, o, x, y) /\ \A d \in Calls \ {c} : call'[d] = call[d]
      /\ call'[c].at = "saveAll" /\ call'[c].held = Queue /\ call'[c].who = x
      /\ call'[c].op = op /\ call'[c].past = y
      /\ call'[c].rows = [z \in People |->
           IF z \in Queue THEN [appt[z] EXCEPT !.rank = NewRanks(o, x, y)[z]] ELSE NoRows[z]]
  BY <1>2, <1>3 DEF Move, Call
<1>5. /\ x \in Queue /\ y \in Queue /\ appt[y].urgent = appt[x].urgent
      /\ o[y] = (IF op = "moveUp" THEN o[x] - 1 ELSE o[x] + 1)
  BY <1>4 DEF Neighbour
<1>6. ASSUME NEW z \in Queue
      PROVE  /\ call'[c].rows[z].rank = NewRanks(o, x, y)[z]
             /\ call'[c].rows[z].urgent = appt[z].urgent
  <2>1. z \in People /\ appt[z] \in Row
    BY <1>2 DEF Queue
  <2>2. QED
    BY <1>4, <1>6, <2>1 DEF Row
<1>7. o[x] \in Int /\ o[y] \in Int /\ x # y
  BY <1>5, OrderNumbers
<1>8. NewRanks(o, x, y)[x] = o[y] /\ NewRanks(o, x, y)[y] = o[x]
  BY <1>5, <1>7 DEF NewRanks
<1>9. IF op = "moveUp" THEN call'[c].rows[x].rank < call'[c].rows[y].rank
      ELSE call'[c].rows[y].rank < call'[c].rows[x].rank
  BY <1>5, <1>6, <1>7, <1>8
<1>10. call'[c] # None
  <2> DEFINE rows == [z \in People |->
                        IF z \in Queue THEN [appt[z] EXCEPT !.rank = NewRanks(o, x, y)[z]]
                        ELSE NoRows[z]]
  <2>1. rows \in [People -> Row]
    <3>1. ASSUME NEW z \in People PROVE rows[z] \in Row
      <4>1. CASE z \in Queue
        BY <1>2, <1>5, <4>1, NewRanksType DEF Row
      <4>2. CASE z \notin Queue
        BY <4>2, NoRowsType
      <4>3. QED
        BY <4>1, <4>2
    <3>2. QED
      BY <3>1
  <2>2. call'[c] = [call[c] EXCEPT !.at = "saveAll", !.held = Queue, !.past = y, !.rows = rows]
    BY <1>2, <1>3 DEF Move
  <2>3. Queue \in SUBSET People
    BY DEF Queue
  <2> HIDE DEF rows
  <2>4. call'[c] \in Call
    BY <1>2, <2>1, <2>2, <2>3 DEF Call
  <2>5. QED
    BY <2>4, NoneIsNoCall
<1>11. {x, y} \subseteq call'[c].held /\ call'[c].rows[x].urgent = call'[c].rows[y].urgent
  BY <1>4, <1>5, <1>6
<1>12. QED
  BY <1>4, <1>9, <1>10, <1>11 DEF MoveOK

LEMMA CallStepMove ==
  ASSUME MoveInv, NEW c \in Calls, CallStep(c) \/ Fails(c)
  PROVE  Passes /\ \A d \in Calls : MoveOK(d)'
<1>1. call[c] # None
  BY DEF CallStep, TicketLock, TicketSave, Reread, Save, SendToBack, MoveInQueue,
         MoveRefused, SaveAll, Fails, At
<1>2. /\ call[c] \in Call /\ call \in [Calls -> Call \cup {None}] /\ appt \in [People -> Row]
      /\ call[c].held \in SUBSET People /\ call[c].rows \in [People -> Row] /\ failures \in Nat
  BY <1>1, CallFields DEF MoveInv, TypeOK
<1>3. ASSUME \A d \in Calls \ {c} : call'[d] = call[d],
             call'[c] = None \/ call'[c].at # "saveAll",
             ~At(c, "saveAll") \/ failures' # failures
      PROVE  Passes /\ \A d \in Calls : MoveOK(d)'
  <2>1. \A d \in Calls : MoveOK(d)'
    BY <1>3, MoveSame DEF MoveInv, MoveOK, At
  <2>2. Passes
    BY <1>3 DEF Passes, At
  <2>3. QED
    BY <2>1, <2>2
<1>4. CASE TicketLock(c)
  BY <1>2, <1>3, <1>4 DEF TicketLock, At, Call
<1>5. CASE TicketSave(c)
  BY <1>2, <1>3, <1>5 DEF TicketSave, At, Ends, Call
<1>6. CASE Reread(c)
  BY <1>2, <1>3, <1>6 DEF Reread, At, Call
<1>7. CASE Save(c)
  BY <1>2, <1>3, <1>7 DEF Save, At, Ends
<1>8. CASE SendToBack(c)
  <2>1. PICK m : call' = [call EXCEPT ![c].at = "save", ![c].rows[call[c].who] = m]
    BY <1>8 DEF SendToBack
  <2>2. QED
    BY <1>2, <1>3, <1>8, <2>1 DEF SendToBack, At, Call
<1>9. CASE MoveInQueue(c)
  <2>1. \A d \in Calls : MoveOK(d)'
    BY <1>9, MoveSetUp, MoveSame DEF MoveInv
  <2>2. QED
    BY <1>9, <2>1, MoveSetUp DEF MoveInv, Passes, At
<1>10. CASE SaveAll(c)
  <2>1. /\ call[c].at = "saveAll" /\ call'[c] = None /\ \A d \in Calls \ {c} : call'[d] = call[d]
        /\ \A y \in call[c].held : appt'[y] = call[c].rows[y]
    BY <1>2, <1>10 DEF SaveAll, At, Ends
  <2>2. \A d \in Calls : MoveOK(d)'
    BY <2>1, MoveSame DEF MoveInv, MoveOK, At
  <2>3. /\ {call[c].who, call[c].past} \subseteq call[c].held
        /\ LET x == call[c].who  y == call[c].past  rows == call[c].rows
           IN  /\ rows[x].urgent = rows[y].urgent
               /\ IF call[c].op = "moveUp" THEN rows[x].rank < rows[y].rank
                  ELSE rows[y].rank < rows[x].rank
    BY <1>1, <2>1 DEF MoveInv, MoveOK, At
  <2>4. QED
    BY <2>1, <2>2, <2>3 DEF Passes, At, Before
<1>11. CASE MoveRefused(c)
  BY <1>2, <1>3, <1>11 DEF MoveRefused, At, Ends
<1>12. CASE Fails(c)
  BY <1>2, <1>3, <1>12 DEF Fails, At, Ends
<1>13. QED
  BY <1>4, <1>5, <1>6, <1>7, <1>8, <1>9, <1>10, <1>11, <1>12 DEF CallStep

LEMMA OthersMove ==
  ASSUME MoveInv,
         \/ \E c \in Calls, x \in People : Arrive(c, x) \/ \E op \in Ops : Begin(c, op, x)
         \/ \E x \in People : AwayEnds(x)
         \/ \E n \in Notices : NoticeStep(n)
         \/ UNCHANGED vars
  PROVE  Passes /\ \A d \in Calls : MoveOK(d)'
<1>1. call \in [Calls -> Call \cup {None}] /\ TypeOK
  BY DEF MoveInv, TypeOK
<1>2. ASSUME NEW c \in Calls, NEW x \in People,
             Arrive(c, x) \/ \E op \in Ops : Begin(c, op, x)
      PROVE  Passes /\ \A d \in Calls : MoveOK(d)'
  <2>1. call[c] = None /\ \A d \in Calls \ {c} : call'[d] = call[d]
    BY <1>1, <1>2 DEF Arrive, Begin
  <2>2. call'[c].at # "saveAll"
    BY <1>1, <1>2 DEF Arrive, Begin, FirstStep
  <2>3. QED
    BY <2>1, <2>2, MoveSame DEF MoveInv, MoveOK, Passes, At
<1>3. ASSUME NEW x \in People, AwayEnds(x)
      PROVE  Passes /\ \A d \in Calls : MoveOK(d)'
  <2>1. ASSUME NEW d \in Calls
        PROVE  MoveOK(d)' /\ (call[d] # None => call'[d] # None)
    <3>1. CASE call[d] = None
      BY <1>3, <3>1 DEF AwayEnds, MoveOK, At
    <3>2. CASE call[d] # None
      <4>1. call[d] \in Call /\ call[d].rows \in [People -> Row] /\ call[d].held \in SUBSET People
        BY <1>1, <3>2, CallFields
      <4>2. call'[d] = [call[d] EXCEPT !.rows[x].away = FALSE]
        BY <1>3, <3>2 DEF AwayEnds
      <4>3. /\ call'[d].at = call[d].at /\ call'[d].op = call[d].op
            /\ call'[d].who = call[d].who /\ call'[d].past = call[d].past
            /\ call'[d].held = call[d].held
            /\ call'[d].rows = [call[d].rows EXCEPT ![x] = [call[d].rows[x] EXCEPT !.away = FALSE]]
        BY <4>1, <4>2 DEF Call
      <4>4. \A y \in People : /\ call'[d].rows[y].rank = call[d].rows[y].rank
                              /\ call'[d].rows[y].urgent = call[d].rows[y].urgent
        BY <4>1, <4>3 DEF Row
      <4>5. At(d, "saveAll") => MoveOK(d)'
        BY <1>1, <3>2, <4>1, <4>3, <4>4 DEF MoveInv, MoveOK, At, Call
      <4>6. ~At(d, "saveAll") => MoveOK(d)'
        BY <3>2, <4>3 DEF MoveOK, At
      <4>7. call'[d] # None
        <5>1. [call[d].rows[x] EXCEPT !.away = FALSE] \in Row
          BY <4>1 DEF Row
        <5>2. call'[d].rows \in [People -> Row]
          BY <4>1, <4>3, <5>1
        <5>3. call'[d] = [call[d] EXCEPT !.rows = call'[d].rows]
          BY <4>1, <4>2 DEF Call
        <5>4. call'[d] \in Call
          BY <4>1, <5>2, <5>3 DEF Call
        <5>5. QED
          BY <5>4, NoneIsNoCall
      <4>8. QED
        BY <4>5, <4>6, <4>7
    <3>3. QED
      BY <3>1, <3>2
  <2>2. failures' = failures
    BY <1>3 DEF AwayEnds
  <2>3. QED
    BY <2>1 DEF Passes, At
<1>4. ASSUME NEW n \in Notices, NoticeStep(n)
      PROVE  Passes /\ \A d \in Calls : MoveOK(d)'
  <2>1. call' = call
    BY <1>4 DEF NoticeStep, NoticeRoom, NoticeRows, NoticeSend, NoticeMark, noticeFrame
  <2>2. QED
    BY <2>1, MoveSame DEF MoveInv, Passes, At
<1>5. CASE UNCHANGED vars
  BY <1>5, MoveSame DEF vars, MoveInv, Passes, At
<1>6. QED
  BY <1>2, <1>3, <1>4, <1>5

LEMMA MoveStep ==
  ASSUME MoveInv, [Next]_vars
  PROVE  Passes /\ MoveInv'
<1>1. TypeOK'
  BY NextType DEF MoveInv
<1>2. QED
  BY <1>1, CallStepMove, OthersMove DEF Next, MoveInv

(* A move that is saved leaves the person strictly past the neighbour, for  *)
(* any queue and whatever other calls and notices do meanwhile.             *)
THEOREM MovePassesHolds == Spec => MovePasses
<1>1. Init => MoveInv
  BY InitType DEF Init, MoveInv, MoveOK, At
<1>2. MoveInv /\ [Next]_vars => MoveInv'
  BY MoveStep
<1>3. MoveInv /\ [Next]_vars => Passes
  BY MoveStep
<1>4. QED
  BY <1>1, <1>2, <1>3, PTL DEF Spec, MovePasses, Passes
=============================================================================
