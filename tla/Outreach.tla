------------------------------- MODULE Outreach -------------------------------
(* What the comercio sends and keeps for its clients: the durable queue of  *)
(* notifications and the worker that sends them (NotificationsService,      *)
(* NotificationsProcessor), the waitlist that fills it (WaitlistService),   *)
(* push subscriptions of browsers (PushService), raffles (RafflesService)   *)
(* and files in private storage (FilesService).                             *)
EXTENDS Integers, FiniteSets

CONSTANTS
  Notes,         \* ids of notifications
  Waits,         \* ids of waitlist entries
  Browsers,      \* push endpoints
  Owners,        \* turns and accounts a browser may follow
  Entries,       \* entries of the raffle
  Files,         \* object keys
  Panel,         \* calls from the panel that may run at once
  Workers,       \* runs of the processor
  MaxAttempts,   \* attempts of a job
  MaxStalls,     \* times BullMQ puts a stalled job back
  MaxAsks,      \* bound on calls from the panel
  MaxFaults,     \* bound on crashes, stalls and failed writes
  Nothing            \* no row, no job, idle

NoteStatus == {"pending", "sent", "failed"}
QueueJob == [is: {"waiting", "active", "gone"}, attempts: Nat, stalls: Nat]
Worker == [at: {"send", "sent", "failed"}, n: Notes, lock: Nat]
WaitStatus == {"waiting", "notified", "converted"}
(* Whom a browser follows.                                                 *)
Follower == Owners \cup {Nothing}
Raffle == [entries: SUBSET Entries, winner: Entries \cup {Nothing}]
PanelCall == [at: {"wait", "row", "queue", "draw", "file", "unfile"},
           x: Waits \cup Notes \cup Files \cup {Nothing}, is: WaitStatus]

ASSUME OutreachAssumption ==
  /\ MaxAttempts \in Nat \ {0} /\ MaxStalls \in Nat /\ MaxAsks \in Nat /\ MaxFaults \in Nat
  /\ Nothing \notin Owners \cup Entries \cup NoteStatus \cup QueueJob \cup PanelCall

VARIABLES
  note,       \* table notification
  queue,      \* queue[n]: the BullMQ job of n, its failures and its stalls
  worker,     \* worker[w]: the notification it processes, with its copy
  wait,       \* table waitlist_entry: its status
  push,       \* push[b]: who the browser follows
  raffle,     \* the raffle: its entries and its winner
  stored,     \* objects in storage
  filed,      \* rows of table file
  panel,      \* panel[c]: the call under way
  delivered,  \* history: notifications a sender took
  orphans,    \* history: notifications whose call was cut before the queue
  asks, faults

queueVars == <<note, queue, worker, delivered>>
deskVars == <<wait, push, raffle, stored, filed>>
outreachVars == <<queueVars, deskVars, panel, orphans, asks, faults>>

OutreachInit ==
  /\ note = [n \in Notes |-> Nothing] /\ queue = [n \in Notes |-> Nothing]
  /\ worker = [w \in Workers |-> Nothing] /\ wait = [x \in Waits |-> Nothing]
  /\ push = [b \in Browsers |-> Nothing] /\ raffle = [entries |-> {}, winner |-> Nothing]
  /\ stored = {} /\ filed = {} /\ panel = [c \in Panel |-> Nothing]
  /\ delivered = {} /\ orphans = {} /\ asks = 0 /\ faults = 0

DeskCounts == asks < MaxAsks /\ asks' = asks + 1
Fault == faults < MaxFaults /\ faults' = faults + 1
DeskBegins(c, at, x, is) ==
  panel[c] = Nothing /\ DeskCounts /\ panel' = [panel EXCEPT ![c] = [at |-> at, x |-> x, is |-> is]]
DeskAt(c, l) == panel[c] # Nothing /\ panel[c].at = l
DeskGoes(c, at, x) == panel' = [panel EXCEPT ![c].at = at, ![c].x = x]
DeskEnds(c) == panel' = [panel EXCEPT ![c] = Nothing]
DeskAtOnce == DeskCounts /\ UNCHANGED <<panel, orphans, faults>>
-----------------------------------------------------------------------------
(* The waitlist.  notify and convert read the entry and save the copy: an   *)
(* entry removed meanwhile is inserted again.                               *)

CreateWait(x) ==
  /\ wait[x] = Nothing /\ DeskAtOnce /\ wait' = [wait EXCEPT ![x] = "waiting"]
  /\ UNCHANGED <<queueVars, push, raffle, stored, filed>>
BeginWait(c, x, is) ==
  /\ wait[x] # Nothing /\ is \in {"notified", "converted"} /\ DeskBegins(c, "wait", x, is)
  /\ UNCHANGED <<queueVars, deskVars, orphans, faults>>
SaveWait(c) ==
  LET p == panel[c]
  IN  /\ DeskAt(c, "wait") /\ wait' = [wait EXCEPT ![p.x] = p.is]
      /\ IF p.is = "notified" THEN DeskGoes(c, "row", Nothing) ELSE DeskEnds(c)
      /\ UNCHANGED <<queueVars, push, raffle, stored, filed, orphans, asks, faults>>
RemoveWait(x) ==
  /\ wait[x] # Nothing /\ DeskAtOnce /\ wait' = [wait EXCEPT ![x] = Nothing]
  /\ UNCHANGED <<queueVars, push, raffle, stored, filed>>

(* enqueue(): the row, then the job.  Other calls enqueue too, on their own.*)
BeginEnqueue(c) ==
  /\ DeskBegins(c, "row", Nothing, "waiting") /\ UNCHANGED <<queueVars, deskVars, orphans, faults>>
EnqueueRow(c, n) ==
  /\ DeskAt(c, "row") /\ note[n] = Nothing
  /\ note' = [note EXCEPT ![n] = "pending"] /\ DeskGoes(c, "queue", n)
  /\ UNCHANGED <<queue, worker, delivered, deskVars, orphans, asks, faults>>
EnqueueJob(c) ==
  /\ DeskAt(c, "queue") /\ DeskEnds(c)
  /\ queue' = [queue EXCEPT ![panel[c].x] = [is |-> "waiting", attempts |-> 0, stalls |-> 0]]
  /\ UNCHANGED <<note, worker, delivered, deskVars, orphans, asks, faults>>
-----------------------------------------------------------------------------
(* The processor.  A definition that a comment marks "bug" is a plausible   *)
(* defect of the one that follows it.                                       *)

workerFrame == <<deskVars, panel, orphans, asks>>
WorkerAt(w, l) == worker[w] # Nothing /\ worker[w].at = l
WorkerIdle(w) == worker' = [worker EXCEPT ![w] = Nothing]

(* A run of the job keeps its lock until the job fails or stalls.           *)
Run(job) == job.attempts + job.stalls
Locked(w) == LET job == queue[worker[w].n] IN job.is = "active" /\ Run(job) = worker[w].lock

(* BullMQ (external) hands a waiting job to a worker; one already sent is   *)
(* completed at once.                                                       *)
TakeJob(w, n) ==
  /\ worker[w] = Nothing /\ queue[n] # Nothing /\ queue[n].is = "waiting"
  /\ IF note[n] = "sent"
     THEN queue' = [queue EXCEPT ![n].is = "gone"] /\ UNCHANGED worker
     ELSE /\ queue' = [queue EXCEPT ![n].is = "active"]
          /\ worker' = [worker EXCEPT ![w] = [at |-> "send", n |-> n, lock |-> Run(queue[n])]]
  /\ UNCHANGED <<note, delivered, workerFrame, faults>>

(* The sender takes the message, or throws.                                 *)
SendNote(w) ==
  /\ WorkerAt(w, "send") /\ delivered' = delivered \cup {worker[w].n}
  /\ worker' = [worker EXCEPT ![w].at = "sent"]
  /\ UNCHANGED <<note, queue, workerFrame, faults>>
SendFails(w) ==
  /\ WorkerAt(w, "send") /\ worker' = [worker EXCEPT ![w].at = "failed"]
  /\ UNCHANGED <<note, queue, delivered, workerFrame, faults>>

(* save() of the sent row ends the job; if it throws, the catch saves the   *)
(* row as failed.                                                           *)
SaveSent(w) ==
  /\ WorkerAt(w, "sent") /\ WorkerIdle(w)
  /\ note' = [note EXCEPT ![worker[w].n] = "sent"]
  /\ queue' = IF Locked(w) THEN [queue EXCEPT ![worker[w].n].is = "gone"] ELSE queue
  /\ UNCHANGED <<delivered, workerFrame, faults>>
SaveSentFails(w) ==
  /\ WorkerAt(w, "sent") /\ Fault /\ worker' = [worker EXCEPT ![w].at = "failed"]
  /\ UNCHANGED <<note, queue, delivered, workerFrame>>

(* bug: the error is not thrown on, and the job completes *)
RetriedNever(job) == [job EXCEPT !.is = "gone"]
Retried(job) ==
  [job EXCEPT !.attempts = @ + 1, !.is = IF job.attempts + 1 < MaxAttempts THEN "waiting" ELSE "gone"]
SaveFailed(w) ==
  LET n == worker[w].n
  IN  /\ WorkerAt(w, "failed") /\ WorkerIdle(w)
      /\ note' = [note EXCEPT ![n] = "failed"]
      /\ queue' = IF Locked(w) THEN [queue EXCEPT ![n] = Retried(@)] ELSE queue
      /\ UNCHANGED <<delivered, workerFrame, faults>>

(* A worker that dies, or blocks for longer than its lock, leaves its job   *)
(* active: BullMQ puts it back to wait, while the worker may still be on    *)
(* it, or fails it when it had stalled too often.                           *)
WorkerDies(w) ==
  /\ worker[w] # Nothing /\ Fault /\ WorkerIdle(w)
  /\ UNCHANGED <<note, queue, delivered, workerFrame>>
JobStalls(n) ==
  /\ queue[n] # Nothing /\ queue[n].is = "active" /\ Fault
  /\ queue' = [queue EXCEPT ![n].stalls = @ + 1,
                              ![n].is = IF queue[n].stalls < MaxStalls THEN "waiting" ELSE "gone"]
  /\ UNCHANGED <<note, worker, delivered, workerFrame>>
-----------------------------------------------------------------------------
(* Browsers: an endpoint has one row, that the last subscription takes; a   *)
(* turn that ends clears its rows; a dead endpoint (404, 410) loses its row.*)

pushFrame == <<queueVars, wait, raffle, stored, filed>>
Subscribe(b, o) == push[b] # o /\ DeskAtOnce /\ push' = [push EXCEPT ![b] = o] /\ UNCHANGED pushFrame
Unsubscribe(b) == push[b] # Nothing /\ DeskAtOnce /\ push' = [push EXCEPT ![b] = Nothing] /\ UNCHANGED pushFrame
ClearAppointment(o) ==
  /\ \E b \in Browsers : push[b] = o
  /\ DeskAtOnce /\ push' = [b \in Browsers |-> IF push[b] = o THEN Nothing ELSE push[b]]
  /\ UNCHANGED pushFrame

(* The raffle: entries are added whatever its status; draw() reads it       *)
(* unfinished and saves the winner it picked.                               *)
raffleFrame == <<queueVars, wait, push, stored, filed>>
AddRaffleEntry(x) ==
  /\ x \notin raffle.entries /\ DeskAtOnce /\ raffle' = [raffle EXCEPT !.entries = @ \cup {x}]
  /\ UNCHANGED raffleFrame
BeginDraw(c) ==
  /\ raffle.winner = Nothing /\ raffle.entries # {} /\ DeskBegins(c, "draw", Nothing, "waiting")
  /\ UNCHANGED <<queueVars, deskVars, orphans, faults>>
Draw(c, x) ==
  /\ DeskAt(c, "draw") /\ x \in raffle.entries /\ DeskEnds(c) /\ raffle' = [raffle EXCEPT !.winner = x]
  /\ UNCHANGED <<raffleFrame, orphans, asks, faults>>

(* upload() puts the object and inserts its row; remove() removes the       *)
(* object and deletes the row.                                              *)
fileFrame == <<queueVars, wait, push, raffle>>
Upload(c, k) ==
  /\ k \notin stored \cup filed /\ DeskBegins(c, "file", k, "waiting") /\ stored' = stored \cup {k}
  /\ UNCHANGED <<fileFrame, filed, orphans, faults>>
InsertFile(c) ==
  /\ DeskAt(c, "file") /\ DeskEnds(c) /\ filed' = filed \cup {panel[c].x}
  /\ UNCHANGED <<fileFrame, stored, orphans, asks, faults>>
RemoveFile(c, k) ==
  /\ k \in filed /\ DeskBegins(c, "unfile", k, "waiting") /\ stored' = stored \ {k}
  /\ UNCHANGED <<fileFrame, filed, orphans, faults>>
DeleteFileRow(c) ==
  /\ DeskAt(c, "unfile") /\ DeskEnds(c) /\ filed' = filed \ {panel[c].x}
  /\ UNCHANGED <<fileFrame, stored, orphans, asks, faults>>

(* A panel call cut short leaves what it wrote.                             *)
PanelCut(c) ==
  /\ panel[c] # Nothing /\ Fault /\ DeskEnds(c)
  /\ orphans' = IF panel[c].at = "queue" THEN orphans \cup {panel[c].x} ELSE orphans
  /\ UNCHANGED <<queueVars, deskVars, asks>>
-----------------------------------------------------------------------------
PanelNext(c) ==
  \/ \E x \in Waits, is \in WaitStatus : BeginWait(c, x, is)
  \/ SaveWait(c) \/ BeginEnqueue(c) \/ (\E n \in Notes : EnqueueRow(c, n)) \/ EnqueueJob(c)
  \/ BeginDraw(c) \/ (\E x \in Entries : Draw(c, x))
  \/ (\E k \in Files : Upload(c, k) \/ RemoveFile(c, k)) \/ InsertFile(c) \/ DeleteFileRow(c)
  \/ PanelCut(c)
WorkerNext(w) ==
  \/ \E n \in Notes : TakeJob(w, n)
  \/ SendNote(w) \/ SendFails(w) \/ SaveSent(w) \/ SaveSentFails(w) \/ SaveFailed(w)
  \/ WorkerDies(w)

OutreachNext ==
  \/ \E c \in Panel : PanelNext(c)
  \/ \E w \in Workers : WorkerNext(w)
  \/ \E n \in Notes : JobStalls(n)
  \/ \E x \in Waits : CreateWait(x) \/ RemoveWait(x)
  \/ \E b \in Browsers, o \in Owners : Subscribe(b, o)
  \/ \E b \in Browsers : Unsubscribe(b)
  \/ \E o \in Owners : ClearAppointment(o)
  \/ \E x \in Entries : AddRaffleEntry(x)

OutreachSpec == OutreachInit /\ [][OutreachNext]_outreachVars
-----------------------------------------------------------------------------
(* Properties.                                                              *)

(* Every variable holds a value of its kind.                                *)
OutreachTypeOK ==
  /\ note \in [Notes -> NoteStatus \cup {Nothing}] /\ queue \in [Notes -> QueueJob \cup {Nothing}]
  /\ worker \in [Workers -> Worker \cup {Nothing}] /\ wait \in [Waits -> WaitStatus \cup {Nothing}]
  /\ push \in [Browsers -> Follower] /\ raffle \in Raffle
  /\ stored \subseteq Files /\ filed \subseteq Files
  /\ panel \in [Panel -> PanelCall \cup {Nothing}] /\ delivered \subseteq Notes
  /\ orphans \subseteq Notes /\ asks \in Nat /\ faults \in Nat

(* A notification recorded is never lost: unless its call was cut before    *)
(* the queue had it, once nobody will try it again it was delivered, or     *)
(* every attempt was spent, or its runs stalled too often.                  *)
GoneWasDelivered ==
  \A n \in Notes : note[n] # Nothing =>
    \/ n \in delivered \cup orphans
    \/ queue[n] = Nothing /\ \E c \in Panel : DeskAt(c, "queue") /\ panel[c].x = n
    \/ queue[n] # Nothing /\ (queue[n].is = "gone" =>
                        queue[n].attempts >= MaxAttempts \/ queue[n].stalls > MaxStalls)
=============================================================================
