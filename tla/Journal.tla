------------------------------ MODULE Journal ------------------------------
(***************************************************************************)
(* The durable store: cortex_v5/journal.py and the recorder that writes to *)
(* it from worker threads (EventRecorder.record of observability.py).      *)
(*                                                                         *)
(* Every operation reads the clock first and takes the lock afterwards:    *)
(* what it does to the tables is one transaction, but of a moment that may *)
(* be past.  Rows are deleted only by operations that meet them expired;   *)
(* an update of a row that is dead but not deleted keeps it dead, and one  *)
(* of a deleted row inserts it again.                                      *)
(*                                                                         *)
(* One task and the one model state of the program (the global seating     *)
(* state, which has no task row) stand for all.  Payloads are left out: of *)
(* an entry only its expiry matters here.  Remote sinks only take time:    *)
(* TaskRuntime models their answers.                                       *)
(***************************************************************************)
EXTENDS Integers, FiniteSets

CONSTANTS Recorders,    \* worker threads that record events
          TTL,          \* ttl_seconds
          None,
          MaxTime,      \* bound: the clock
          MaxWait,      \* bound: how long an operation waits for the lock
          MaxRecords    \* bound: rows ever inserted in the records table

Loop == "loop"   \* the thread of the event loop
Clients == {Loop} \cup Recorders

ASSUME JournalAssumption ==
  /\ TTL \in Nat \ {0} /\ {MaxTime, MaxWait, MaxRecords} \subseteq Nat
  /\ None \notin Nat /\ Loop \notin Recorders

VARIABLES
  now,       \* time.time()
  tasks,     \* the tasks table: the task's row, or None
  records,   \* the records table
  state,     \* the model_state table: the one row, or None
  lastId,    \* AUTOINCREMENT of records
  client     \* each thread: the operation it is in and the clock it read

vars == <<now, tasks, records, state, lastId, client>>

-----------------------------------------------------------------------------
Times == 0 .. MaxTime
Expiries == 0 .. MaxTime + TTL

(* A task row; born is history: the moment the row was really inserted.    *)
TaskRows == [expires : Expiries, born : Times]

(* A receipt names its event and says whether the journal took it; other   *)
(* rows are those the runtime appends itself (event = 0).  since is when   *)
(* the append of the event began.                                          *)
Records == [id : 1 .. MaxRecords, kind : {"event", "receipt", "other"},
            event : 0 .. MaxRecords, ok : BOOLEAN, since : Times, expires : Expiries]

Simple == {"put", "get", "update", "append", "read", "setState", "purge"}
Idle == [op |-> "idle"]
Calls == {Idle}
     \cup [op : Simple \cup {"event"}, at : Times]
     \cup [op : {"posting"}, event : 0 .. MaxRecords, ok : BOOLEAN, since : Times]
     \cup [op : {"receipt"}, at : Times, event : 0 .. MaxRecords, ok : BOOLEAN, since : Times]

TypeOK ==
  /\ now \in Times
  /\ tasks \in TaskRows \cup {None}
  /\ records \subseteq Records
  /\ state \in Expiries \cup {None}
  /\ lastId \in 0 .. MaxRecords
  /\ client \in [Clients -> Calls]

-----------------------------------------------------------------------------
(* expires_at > now                                                        *)
Live(expires, at) == IF expires = None THEN FALSE ELSE expires > at

TaskExpiry == IF tasks = None THEN None ELSE tasks.expires
TaskLive(at) == Live(TaskExpiry, at)

Unexpired(at) == {r \in records : r.expires > at}

Becomes(c, call) == client' = [client EXCEPT ![c] = call]

(* What a caller could still see at this moment.                           *)
Seen(expires) == IF Live(expires, now) THEN expires ELSE None

Waiting(c) == client[c].op \notin {"idle", "posting"}

Init ==
  /\ now = 0 /\ tasks = None /\ records = {} /\ state = None /\ lastId = 0
  /\ client = [c \in Clients |-> Idle]

Tick ==
  /\ now < MaxTime
  /\ \A c \in Clients : Waiting(c) => now < client[c].at + MaxWait
  /\ now' = now + 1
  /\ UNCHANGED <<tasks, records, state, lastId, client>>

(* A thread enters an operation: it encodes its payload, reads the clock,  *)
(* and waits for the lock.                                                 *)
Call(c) ==
  /\ client[c] = Idle
  /\ \E op \in IF c = Loop THEN Simple ELSE {"event"} : Becomes(c, [op |-> op, at |-> now])
  /\ UNCHANGED <<now, tasks, records, state, lastId>>

Enters(c, op) == client[c].op = op

(* Mutant of PutRow: an update prolongs the row.                           *)
PutRowSliding(row, at) ==
  IF row = None THEN [expires |-> at + TTL, born |-> now]
                ELSE [row EXCEPT !.expires = @ + TTL]

(* INSERT ... ON CONFLICT DO UPDATE: created_at and expires_at stay.       *)
PutRow(row, at) == IF row = None THEN [expires |-> at + TTL, born |-> now] ELSE row

Put(c) ==
  /\ Enters(c, "put")
  /\ tasks' = PutRow(tasks, client[c].at)
  /\ Becomes(c, Idle)
  /\ UNCHANGED <<now, records, state, lastId>>

(* A row that is not live is deleted on the way.                           *)
Get(c) ==
  /\ Enters(c, "get")
  /\ tasks' = IF TaskLive(client[c].at) THEN tasks ELSE None
  /\ Becomes(c, Idle)
  /\ UNCHANGED <<now, records, state, lastId>>

(* get and put under one lock, with the clock read inside: a dead row is a *)
(* KeyError, a live one keeps its end.                                     *)
Update(c) ==
  /\ Enters(c, "update")
  /\ tasks' = IF TaskLive(now) THEN PutRow(tasks, now) ELSE None
  /\ Becomes(c, Idle)
  /\ UNCHANGED <<now, records, state, lastId>>

(* events, receipts, outcomes: the expired records of every task go.       *)
Read(c) ==
  /\ Enters(c, "read")
  /\ records' = Unexpired(client[c].at)
  /\ Becomes(c, Idle)
  /\ UNCHANGED <<now, tasks, state, lastId>>

Least(a, b) == IF a < b THEN a ELSE b

(* Mutant of RecordExpiry: every record lives for a whole TTL.             *)
RecordExpiryWhole(at) == at + TTL

(* A record lives no longer than its task, if it finds one alive.          *)
RecordExpiry(at) == IF TaskLive(at) THEN Least(at + TTL, tasks.expires) ELSE at + TTL

Insert(kind, event, ok, since, at) ==
  /\ lastId < MaxRecords
  /\ lastId' = lastId + 1
  /\ records' = records \cup {[id |-> lastId', kind |-> kind, event |-> event, ok |-> ok,
                               since |-> since, expires |-> RecordExpiry(at)]}

Append(c) ==
  /\ Enters(c, "append")
  /\ Insert("other", 0, FALSE, 0, client[c].at)
  /\ Becomes(c, Idle)
  /\ UNCHANGED <<now, tasks, state>>

(* An existing window is kept, an expired one replaced by a fresh one.     *)
SetState(c) ==
  /\ Enters(c, "setState")
  /\ state' = IF Live(state, client[c].at) THEN state ELSE client[c].at + TTL
  /\ Becomes(c, Idle)
  /\ UNCHANGED <<now, tasks, records, lastId>>

-----------------------------------------------------------------------------
(* EventRecorder.record: the event goes to the journal first.              *)
EventAppended(c) ==
  /\ Enters(c, "event")
  /\ Insert("event", lastId + 1, TRUE, client[c].at, client[c].at)
  /\ Becomes(c, [op |-> "posting", event |-> lastId', ok |-> TRUE, since |-> client[c].at])
  /\ UNCHANGED <<now, tasks, state>>

(* Mutant of EventFails: local_ok is set before the append.                *)
EventFailsUnnoticed(c) ==
  /\ Enters(c, "event")
  /\ Becomes(c, [op |-> "posting", event |-> 0, ok |-> TRUE, since |-> client[c].at])
  /\ UNCHANGED <<now, tasks, records, state, lastId>>

(* The transaction fails and is rolled back; record goes on without it.    *)
EventFails(c) ==
  /\ Enters(c, "event")
  /\ Becomes(c, [op |-> "posting", event |-> 0, ok |-> FALSE, since |-> 0])
  /\ UNCHANGED <<now, tasks, records, state, lastId>>

(* Both remote sinks have been tried, however long that took.              *)
Posted(c) ==
  /\ Enters(c, "posting")
  /\ Becomes(c, [op |-> "receipt", at |-> now, event |-> client[c].event,
                 ok |-> client[c].ok, since |-> client[c].since])
  /\ UNCHANGED <<now, tasks, records, state, lastId>>

ReceiptAppended(c) ==
  /\ Enters(c, "receipt")
  /\ Insert("receipt", client[c].event, client[c].ok, client[c].since, client[c].at)
  /\ Becomes(c, Idle)
  /\ UNCHANGED <<now, tasks, state>>

(* The exception is swallowed (for a receipt) or goes to the caller.       *)
OperationFails(c) ==
  /\ client[c].op \in Simple \cup {"receipt"}
  /\ Becomes(c, Idle)
  /\ UNCHANGED <<now, tasks, records, state, lastId>>

-----------------------------------------------------------------------------
(* purge_expired: what is dead at a moment goes, in all three tables.      *)
Purge(at) ==
  /\ tasks' = IF TaskLive(at) THEN tasks ELSE None
  /\ state' = IF Live(state, at) THEN state ELSE None
  /\ records' = Unexpired(at)

PurgeExpired(c) ==
  /\ Enters(c, "purge")
  /\ Purge(client[c].at)
  /\ Becomes(c, Idle)
  /\ UNCHANGED <<now, lastId>>

(* The process dies: its threads are gone, what was committed stays.  The  *)
(* journal purges when it is opened again.                                 *)
Restart ==
  /\ client' = [c \in Clients |-> Idle]
  /\ Purge(now)
  /\ UNCHANGED <<now, lastId>>

Next ==
  \/ Tick \/ Restart
  \/ \E c \in Clients :
       \/ Call(c) \/ Put(c) \/ Get(c) \/ Update(c) \/ Read(c) \/ Append(c) \/ SetState(c)
       \/ PurgeExpired(c)
       \/ EventAppended(c) \/ EventFails(c) \/ Posted(c) \/ ReceiptAppended(c)
       \/ OperationFails(c)

Spec == Init /\ [][Next]_vars

-----------------------------------------------------------------------------
Store == INSTANCE ExpiringStore WITH
  Ids <- 1 .. MaxRecords,
  task <- Seen(TaskExpiry),
  log <- {[id |-> r.id, until |-> r.expires] : r \in Unexpired(now)},
  state <- Seen(state)

(* Two-step operations of any number of threads, with stale clocks, rows   *)
(* that are dead but not deleted, failures and restarts, look like a store *)
(* of entries whose end is fixed when they are added: updates renew        *)
(* nothing, deletion takes nothing that could still be read, and no record *)
(* appended while its task lives outlives it.                              *)
ImplementsStore == Store!Spec

(* A receipt that can be read and says that the journal took its event is  *)
(* read beside that event: neither expiry, nor a purge, nor a failure      *)
(* between the two appends leaves it alone.  Events begun before the       *)
(* present row of the task was inserted are excepted: a row that expired   *)
(* and is put again may meet a late receipt of its former life.            *)
ReceiptBacked ==
  \A r \in Unexpired(now) :
    (r.kind = "receipt" /\ r.ok /\ TaskLive(now) /\ r.since >= tasks.born)
      => \E e \in Unexpired(now) : e.kind = "event" /\ e.id = r.event
=============================================================================
