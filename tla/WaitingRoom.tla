---------------------------- MODULE WaitingRoom ----------------------------
(* The waiting room of ONE agenda on one day (AppointmentsService): turns   *)
(* whose owner has arrived, their ticket numbers and their order, called,   *)
(* moved and closed from the panel, left and resumed from the client's      *)
(* link, and the "you are next" and "you are second" notices of             *)
(* WaitingRoomNotifier.  One action is one statement a handler awaits; a    *)
(* save() writes back every column of the copy read earlier.  Ranks count   *)
(* seconds: 1000 of the code's milliseconds are 1.                          *)
EXTENDS Integers, FiniteSets

CONSTANTS
  People,       \* persons, each with at most one turn today
  Calls,        \* handlers that may run at once
  Notices,      \* runs of notifyProgress that may overlap
  Scenarios,    \* how each person comes: booked, or without a turn
  Ops,          \* which calls are made on existing turns
  Apart,        \* TRUE: no two calls work on one person's turn at once
  MaxCalls,     \* bound on calls made on existing turns
  MaxWait,      \* bound on the seconds between two arrivals
  MaxEmits,     \* bound on room updates not yet computed
  MaxFailures,  \* bound on handlers cut short
  None          \* no call, no owner

MAX_AWAYS == 2

Clearing == {"sendToBack", "urgent", "notUrgent", "undo", "leave"}
Reorders == {"sendToBack", "urgent", "notUrgent", "moveUp", "moveDown"}
OpNames == Clearing \cup Reorders \cup
  {"confirm", "checkIn", "start", "complete", "noShow", "cancel", "call",
   "away", "back", "meCancel"}

ASSUME WaitingAssumption ==
  /\ IsFiniteSet(People) /\ None \notin Calls
  /\ Scenarios \subseteq [People -> {"booked", "panel", "self"}]
  /\ Ops \subseteq OpNames /\ Apart \in BOOLEAN
  /\ MaxCalls \in Nat /\ MaxWait \in Nat /\ MaxEmits \in Nat /\ MaxFailures \in Nat

VARIABLES
  via,       \* via[x]: how x comes, fixed
  appt,      \* appt[x]: x's row of table appointment
  call,      \* call[c]: what handler c is doing and the copies it holds
  lock,      \* owner of pg_advisory_xact_lock("ticket:" staff)
  clock,     \* seconds
  begun,     \* calls made on existing turns so far
  emits,     \* emitWaitingRoom calls that have not computed the room yet
  notice,    \* notice[n]: what run n of notifyProgress is doing
  sent,      \* history: notices sent since the row's marks were last cleared
  failures   \* handlers cut short so far

vars == <<via, appt, call, lock, clock, begun, emits, notice, sent, failures>>
-----------------------------------------------------------------------------
TerminalStatuses == {"done", "noShow", "cancelled"}
Stages == {"next", "second"}
Row == [status: {"none", "requested", "confirmed", "inProgress"} \cup TerminalStatuses,
        arrived: BOOLEAN, ticket: Nat, rank: Nat, urgent: BOOLEAN, called: BOOLEAN,
        away: BOOLEAN, awayCount: Nat, notified: SUBSET Stages]
NewRow(s) == [status |-> s, arrived |-> FALSE, ticket |-> 0, rank |-> 0, urgent |-> FALSE,
              called |-> FALSE, away |-> FALSE, awayCount |-> 0, notified |-> {}]

NoRows == [x \in People |-> NewRow("none")]

Present(row) == row.status = "confirmed" /\ row.arrived
Queue == {x \in People : Present(appt[x])}
Arrived == {x \in People : appt[x].arrived}
WalkIn(x) == via[x] # "booked"

(* byQueueOrder: urgent first, then rank, then ticket.                      *)
Before(a, b) ==
  IF a.urgent # b.urgent THEN a.urgent
  ELSE a.rank < b.rank \/ (a.rank = b.rank /\ a.ticket < b.ticket)

(* The orders sort(byQueueOrder) may leave the queue in: ties fall anyhow.  *)
Orders(Q) ==
  {o \in [Q -> 1..Cardinality(Q)] :
     \A x, y \in Q : /\ x # y => o[x] # o[y]
                     /\ Before(appt[x], appt[y]) => o[x] < o[y]}

(* Greatest of a set of numbers, 0 when there is none.                      *)
Highest(S) == {m \in S \cup {0} : \A n \in S : n <= m}

(* resetQueueState                                                          *)
Reset(row) == [row EXCEPT !.arrived = FALSE, !.ticket = 0, !.rank = 0, !.urgent = FALSE,
                          !.called = FALSE, !.away = FALSE, !.notified = {}]
-----------------------------------------------------------------------------
(* What a call requires of the row it reads, and how it changes its copy.   *)

(* bug: any turn may be accepted *)
AcceptsAny(row) == row.status # "confirmed"
Accepts(row) == row.status = "requested"
(* bug: an absence is granted after the call *)
GrantsAbsenceAnyway(row) == Present(row) /\ row.awayCount < MAX_AWAYS
GrantsAbsence(row) == Present(row) /\ ~row.called /\ row.awayCount < MAX_AWAYS

(* The guard of each call.  A check-in of who has arrived only emits, and   *)
(* is left out.                                                             *)
Allowed(op, row, walkIn) ==
  CASE op = "confirm"  -> Accepts(row)
    [] op = "checkIn"  -> row.status \notin {"done", "cancelled"} /\ ~row.arrived
    [] op = "start"    -> row.status = "confirmed"
    [] op = "complete" -> row.status = "inProgress"
    [] op = "cancel"   -> row.status \notin {"done", "cancelled"}
    [] op \in {"call", "sendToBack", "urgent", "notUrgent"} -> Present(row)
    [] op = "leave"    -> row.status \notin TerminalStatuses \cup {"inProgress"}
    [] op = "away"     -> GrantsAbsence(row)
    [] op = "meCancel" -> row.status \notin TerminalStatuses /\ ~walkIn
    [] OTHER           -> TRUE   \* noShow, undo, back and the moves

(* bug: coming back gives the absence back *)
ResumedRefunded(row) == [row EXCEPT !.away = FALSE, !.awayCount = @ - 1]
Resumed(row) == [row EXCEPT !.away = FALSE]

Changed(op, row, walkIn) ==
  CASE op = "confirm"   -> [row EXCEPT !.status = "confirmed"]
    [] op = "complete"  -> [row EXCEPT !.status = "done"]
    [] op = "noShow"    -> [row EXCEPT !.status = "noShow"]
    [] op \in {"cancel", "meCancel"} -> [row EXCEPT !.status = "cancelled"]
    [] op = "call"      -> [row EXCEPT !.called = TRUE, !.away = FALSE]
    [] op = "urgent"    -> [row EXCEPT !.urgent = TRUE, !.notified = {}]
    [] op = "notUrgent" -> [row EXCEPT !.urgent = FALSE, !.notified = {}]
    [] op = "undo"      -> Reset(row)
    [] op = "leave"     -> IF ~walkIn /\ row.status = "confirmed" THEN Reset(row)
                           ELSE [row EXCEPT !.status = "cancelled"]
    [] op = "away"      -> [row EXCEPT !.away = TRUE, !.awayCount = @ + 1]
    [] op = "back"      -> Resumed(row)
    [] OTHER            -> row
-----------------------------------------------------------------------------
(* A call: where it is, on whom, the rows it will save, and what it knows:  *)
(* the highest ticket, or the person a move passes.                         *)
Call == [at: {"number", "ticket", "reread", "queue", "save", "saveAll"},
         op: OpNames \cup {"arrive"}, who: People,
         held: SUBSET People, rows: [People -> Row], max: Nat, past: People]
ASSUME NoneIsNoCall == None \notin Call

Busy(x) == \E c \in Calls : call[c] # None /\ x \in call[c].held
At(c, l) == call[c] # None /\ call[c].at = l

(* The calls that end with emitWaitingRoom: all but the client's own page.  *)
(* bug: a no-show refreshes nobody *)
EmitsUnlessNoShow(op) == op \notin {"meCancel", "noShow"}
EmitsRoom(op) == op # "meCancel"
Emit(op) == emits' = IF EmitsRoom(op) /\ emits < MaxEmits THEN emits + 1 ELSE emits
Ends(c) == call' = [call EXCEPT ![c] = None]
Cleared(op, x) ==
  sent' = IF op \in Clearing THEN {t \in sent : t.who # x} ELSE sent

Init ==
  /\ via \in Scenarios
  /\ appt = [x \in People |-> NewRow(IF WalkIn(x) THEN "none" ELSE "confirmed")]
  /\ call = [c \in Calls |-> None] /\ lock = None
  /\ clock = Cardinality(People) + MaxCalls + 1   \* later than any rewritten rank
  /\ begun = 0 /\ emits = 0 /\ failures = 0
  /\ notice = [n \in Notices |-> None] /\ sent = {}

noticeVars == <<notice, sent>>
-----------------------------------------------------------------------------
(* createWalkIn: the row is saved, then markArrival.  A client who scans    *)
(* the QR waits to be accepted.                                             *)
Arrive(c, x) ==
  LET row == NewRow(IF via[x] = "self" THEN "requested" ELSE "confirmed")
  IN  /\ call[c] = None /\ WalkIn(x) /\ appt[x].status = "none"
      /\ appt' = [appt EXCEPT ![x] = row]
      /\ call' = [call EXCEPT ![c] =
           [at |-> "ticket", op |-> "arrive", who |-> x, held |-> {x},
            rows |-> [NoRows EXCEPT ![x] = row], max |-> 0, past |-> x]]
      /\ UNCHANGED <<via, lock, clock, begun, emits, noticeVars, failures>>

(* findById or findByToken, the guard, and the change to the copy.          *)
FirstStep(op, row) ==
  CASE op = "checkIn" -> "ticket"
    [] op = "start"   -> IF row.arrived THEN "reread" ELSE "ticket"
    [] op \in {"sendToBack", "moveUp", "moveDown"} -> "queue"
    [] OTHER          -> "save"

Begin(c, op, x) ==
  /\ call[c] = None /\ begun < MaxCalls
  /\ appt[x].status # "none" /\ Allowed(op, appt[x], WalkIn(x))
  /\ Apart => ~Busy(x)
  /\ call' = [call EXCEPT ![c] =
       [at |-> FirstStep(op, appt[x]), op |-> op, who |-> x, held |-> {x},
        rows |-> [NoRows EXCEPT ![x] = Changed(op, appt[x], WalkIn(x))],
        max |-> 0, past |-> x]]
  /\ begun' = begun + 1
  /\ UNCHANGED <<via, appt, lock, clock, emits, noticeVars, failures>>

(* markArrival: lock the agenda's tickets and read the day's highest.       *)
(* bug: no lock *)
TicketFreeAlways == TRUE
TicketFree == lock = None

TicketLock(c) ==
  /\ At(c, "ticket") /\ TicketFree /\ lock' = c
  /\ \E m \in Highest({appt[x].ticket : x \in Arrived}) :
       call' = [call EXCEPT ![c].at = "number", ![c].max = m]
  /\ UNCHANGED <<via, appt, clock, begun, emits, noticeVars, failures>>

(* The copy is saved with the next number and commits.  start() goes on.    *)
TicketSave(c) ==
  LET x == call[c].who
  IN  /\ At(c, "number")
      /\ \E d \in 0..MaxWait :
           /\ clock' = clock + d
           /\ appt' = [appt EXCEPT ![x] =
                [call[c].rows[x] EXCEPT !.arrived = TRUE, !.ticket = call[c].max + 1,
                                        !.rank = clock + d]]
      /\ lock' = IF lock = c THEN None ELSE lock
      /\ IF call[c].op = "start"
         THEN call' = [call EXCEPT ![c].at = "reread"] /\ UNCHANGED emits
         ELSE Ends(c) /\ Emit(call[c].op)
      /\ UNCHANGED <<via, begun, noticeVars, failures>>

(* start(): transition reads the row again, without a guard.                *)
Reread(c) ==
  LET x == call[c].who
  IN  /\ At(c, "reread")
      /\ call' = [call EXCEPT ![c].at = "save",
           ![c].rows[x] = [appt[x] EXCEPT !.status = "inProgress", !.away = FALSE]]
      /\ UNCHANGED <<via, appt, lock, clock, begun, emits, noticeVars, failures>>

Save(c) ==
  LET x == call[c].who
  IN  /\ At(c, "save")
      /\ appt' = [appt EXCEPT ![x] = call[c].rows[x]]
      /\ Ends(c) /\ Emit(call[c].op) /\ Cleared(call[c].op, x)
      /\ UNCHANGED <<via, lock, clock, begun, notice, failures>>

(* sendToBack: behind the highest rank of the queue.                        *)
SendToBack(c) ==
  LET x == call[c].who
  IN  /\ At(c, "queue") /\ call[c].op = "sendToBack"
      /\ \E m \in Highest({appt[y].rank : y \in Queue}) :
           call' = [call EXCEPT ![c].at = "save",
             ![c].rows[x] = [@ EXCEPT !.rank = m + 1, !.urgent = FALSE, !.called = FALSE,
                                      !.away = FALSE, !.notified = {}]]
      /\ UNCHANGED <<via, appt, lock, clock, begun, emits, noticeVars, failures>>

(* moveInQueue: x and a neighbour of its group change places and everyone's *)
(* rank is rewritten, 1 to n.                                               *)
(* bug: the two exchange their ranks *)
RanksExchanged(o, x, y) ==
  [z \in Queue |-> CASE z = x -> appt[y].rank [] z = y -> appt[x].rank [] OTHER -> appt[z].rank]
(* bug: only the two get their new place *)
RanksOfTwo(o, x, y) ==
  [z \in Queue |-> CASE z = x -> o[y] [] z = y -> o[x] [] OTHER -> appt[z].rank]
NewRanks(o, x, y) == [z \in Queue |-> CASE z = x -> o[y] [] z = y -> o[x] [] OTHER -> o[z]]

Neighbour(op, o, x, y) ==
  /\ x \in Queue /\ y \in Queue /\ appt[y].urgent = appt[x].urgent
  /\ o[y] = IF op = "moveUp" THEN o[x] - 1 ELSE o[x] + 1

Move(c, o, y) ==
  LET x == call[c].who
  IN  /\ Neighbour(call[c].op, o, x, y)
      /\ Apart => \A d \in Calls \ {c} : call[d] # None => call[d].held \cap Queue = {}
      /\ call' = [call EXCEPT ![c].at = "saveAll", ![c].held = Queue, ![c].past = y,
           ![c].rows = [z \in People |->
             IF z \in Queue THEN [appt[z] EXCEPT !.rank = NewRanks(o, x, y)[z]]
             ELSE NoRows[z]]]

MoveInQueue(c) ==
  /\ At(c, "queue") /\ call[c].op \in {"moveUp", "moveDown"}
  /\ \E o \in Orders(Queue), y \in People : Move(c, o, y)
  /\ UNCHANGED <<via, appt, lock, clock, begun, emits, noticeVars, failures>>

(* Not in the queue, at its end, or beside the other group: nothing.        *)
MoveRefused(c) ==
  /\ At(c, "queue") /\ call[c].op \in {"moveUp", "moveDown"}
  /\ \E o \in Orders(Queue) : \A y \in Queue : ~Neighbour(call[c].op, o, call[c].who, y)
  /\ Ends(c)
  /\ UNCHANGED <<via, appt, lock, clock, begun, emits, noticeVars, failures>>

SaveAll(c) ==
  /\ At(c, "saveAll")
  /\ appt' = [x \in People |-> IF x \in call[c].held THEN call[c].rows[x] ELSE appt[x]]
  /\ Ends(c) /\ Emit(call[c].op)
  /\ UNCHANGED <<via, lock, clock, begun, noticeVars, failures>>

(* The handler ends early; an open transaction frees its lock.              *)
Fails(c) ==
  /\ failures < MaxFailures /\ call[c] # None
  /\ failures' = failures + 1
  /\ lock' = IF lock = c THEN None ELSE lock
  /\ Ends(c)
  /\ UNCHANGED <<via, appt, clock, begun, emits, noticeVars>>

(* awayUntil passes: the absence ends in the row and in every copy of it,   *)
(* and the timer setAwayByToken left emits the room again.                  *)
AwayEnds(x) ==
  /\ appt[x].away
  /\ appt' = [appt EXCEPT ![x].away = FALSE]
  /\ call' = [c \in Calls |-> IF call[c] = None THEN None
                              ELSE [call[c] EXCEPT !.rows[x].away = FALSE]]
  /\ Emit("away")
  /\ UNCHANGED <<via, lock, clock, begun, noticeVars, failures>>
-----------------------------------------------------------------------------
(* notifyProgress, detached from the call that caused it.                   *)

Notice == [at: {"rows", "send", "mark"}, todo: SUBSET [who: People, stage: Stages],
           on: [who: People, stage: Stages]]

(* Position: those ahead, the absent not counted.                           *)
Position(o, x) == Cardinality({y \in Queue : o[y] < o[x] /\ ~appt[y].away})
Candidates(o) ==
  {t \in [who: Queue, stage: Stages] :
     /\ Position(o, t.who) = IF t.stage = "next" THEN 0 ELSE 1
     /\ ~appt[t.who].called /\ ~appt[t.who].away}

NoticeIs(n, v) == notice' = [notice EXCEPT ![n] = v]
noticeFrame == <<via, call, lock, clock, begun, failures>>

(* emitWaitingRoom computes the room and leaves notifyProgress running.     *)
NoticeRoom(n) ==
  /\ emits > 0 /\ notice[n] = None
  /\ emits' = emits - 1
  /\ \E o \in Orders(Queue) :
       IF Candidates(o) = {} THEN UNCHANGED notice
       ELSE NoticeIs(n, [at |-> "rows", todo |-> Candidates(o),
                         on |-> CHOOSE t \in Candidates(o) : TRUE])
  /\ UNCHANGED <<appt, sent, noticeFrame>>

(* The rows are read; a stage already marked is not sent.                   *)
NoticeRows(n) ==
  LET rest == {t \in notice[n].todo : t.stage \notin appt[t.who].notified}
  IN  /\ notice[n] # None /\ notice[n].at = "rows"
      /\ NoticeIs(n, IF rest = {} THEN None ELSE [notice[n] EXCEPT !.at = "send", !.todo = rest])
      /\ UNCHANGED <<appt, emits, sent, noticeFrame>>

NoticeSend(n) ==
  /\ notice[n] # None /\ notice[n].at = "send"
  /\ \E t \in notice[n].todo :
       /\ t.stage = "next" \/ \A u \in notice[n].todo : u.stage = "second"
       /\ sent' = sent \cup {t}
       /\ NoticeIs(n, [notice[n] EXCEPT !.at = "mark", !.on = t])
  /\ UNCHANGED <<appt, emits, noticeFrame>>

(* update() of one column.                                                  *)
NoticeMark(n) ==
  LET t == notice[n].on   rest == notice[n].todo \ {t}
  IN  /\ notice[n] # None /\ notice[n].at = "mark"
      /\ appt' = [appt EXCEPT ![t.who].notified = @ \cup {t.stage}]
      /\ NoticeIs(n, IF rest = {} THEN None ELSE [notice[n] EXCEPT !.at = "send", !.todo = rest])
      /\ UNCHANGED <<emits, sent, noticeFrame>>
-----------------------------------------------------------------------------
CallStep(c) ==
  \/ TicketLock(c) \/ TicketSave(c) \/ Reread(c) \/ Save(c)
  \/ SendToBack(c) \/ MoveInQueue(c) \/ MoveRefused(c) \/ SaveAll(c)
NoticeStep(n) == NoticeRoom(n) \/ NoticeRows(n) \/ NoticeSend(n) \/ NoticeMark(n)

Next ==
  \/ \E c \in Calls : CallStep(c) \/ Fails(c)
  \/ \E c \in Calls, x \in People : Arrive(c, x)
  \/ \E c \in Calls, op \in Ops, x \in People : Begin(c, op, x)
  \/ \E x \in People : AwayEnds(x)
  \/ \E n \in Notices : NoticeStep(n)

Spec == Init /\ [][Next]_vars

(* The event loop runs every handler and every detached run on.             *)
Fairness ==
  /\ \A c \in Calls : WF_vars(CallStep(c)) /\ SF_vars(TicketLock(c))
  /\ \A n \in Notices : WF_vars(NoticeStep(n))
FairSpec == Spec /\ Fairness
-----------------------------------------------------------------------------
(* Properties.                                                              *)

(* Every variable holds a value of its kind.                                *)
TypeOK ==
  /\ via \in [People -> {"booked", "panel", "self"}]
  /\ appt \in [People -> Row]
  /\ call \in [Calls -> Call \cup {None}]
  /\ lock \in Calls \cup {None}
  /\ clock \in Nat /\ begun \in Nat /\ emits \in Nat /\ failures \in Nat
  /\ notice \in [Notices -> Notice \cup {None}]
  /\ sent \subseteq [who: People, stage: Stages]

(* No two persons in the room have one ticket number, however check-ins,    *)
(* walk-ins and self check-ins coincide with each other and with undos.     *)
TicketsUnique ==
  \A x, y \in Arrived : x # y => appt[x].ticket # appt[y].ticket

(* A closed turn never returns: whatever is done with it later, it stays    *)
(* out of the queue and of the agenda.                                      *)
TurnStaysClosed ==
  [][\A x \in People : appt[x].status \in TerminalStatuses =>
                         appt'[x].status \in TerminalStatuses]_vars

(* Nobody is skipped as absent after having been called: a call ends the    *)
(* absence and an absence is refused to who was called.                     *)
CalledIsPresent == \A x \in Queue : ~(appt[x].called /\ appt[x].away)

(* The call in c ends in this step, a reorder asked for x or y.             *)
Reordered(c, x, y) ==
  /\ call[c] # None /\ call'[c] = None
  /\ call[c].op \in Reorders /\ call[c].who \in {x, y}

(* Two persons in the queue change places only by a reorder of one of them; *)
(* rewriting everyone's rank moves nobody else among the people it read.    *)
OrderKept ==
  [][\A x, y \in Queue :
       Before(appt[x], appt[y]) /\ Present(appt'[x]) /\ Present(appt'[y])
         /\ Before(appt'[y], appt'[x]) =>
       \E c \in Calls : \/ Reordered(c, x, y)
                        \/ /\ At(c, "saveAll") /\ call'[c] = None
                           /\ ~({x, y} \subseteq call[c].held)]_vars

(* A move takes effect: when its ranks are saved, the person is strictly    *)
(* past the neighbour, even if the two had the same rank.                   *)
MovePasses ==
  [][\A c \in Calls : At(c, "saveAll") /\ call'[c] = None /\ UNCHANGED failures =>
       LET x == call[c].who  y == call[c].past
       IN  IF call[c].op = "moveUp" THEN Before(appt'[x], appt'[y])
           ELSE Before(appt'[y], appt'[x])]_vars

(* Whoever stays first in the queue, neither absent nor called, is told.    *)
FirstInLine(x) ==
  /\ x \in Queue /\ ~appt[x].away /\ ~appt[x].called
  /\ \A y \in Queue \ {x} : appt[y].away \/ Before(appt[x], appt[y])
NextIsTold ==
  \A x \in People :
    FirstInLine(x) ~> ([who |-> x, stage |-> "next"] \in sent \/ ~FirstInLine(x))

(* waiting-room.notifier.ts: "Cada etapa se avisa UNA vez por turno", until *)
(* the marks are cleared.                                                   *)
ToldOnce ==
  [][\A n \in Notices : notice[n] # None /\ notice[n].at = "send"
                        /\ notice'[n] # None /\ notice'[n].at = "mark" =>
       notice'[n].on \notin sent]_vars
=============================================================================
