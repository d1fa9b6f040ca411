--------------------------- MODULE JournalProofs ---------------------------
(* What TLAPS proves about Journal: for any number of recorder threads,    *)
(* any TTL and any wait for the lock.                                      *)
EXTENDS Journal, TLAPS

-----------------------------------------------------------------------------
(* Types, and what is past                                                 *)

(* What a thread knows in each operation.                                  *)
LEMMA CallFields ==
  ASSUME NEW call \in Calls
  PROVE  /\ call.op \in Simple \cup {"event", "receipt", "idle", "posting"}
         /\ call.op \in Simple \cup {"event", "receipt"} => call.at \in Times
         /\ call.op \in {"posting", "receipt"} =>
              call.event \in 0 .. MaxRecords /\ call.ok \in BOOLEAN /\ call.since \in Times
         /\ call.op \in {"put", "get", "update", "append", "read", "setState", "purge", "event"}
              => call.at \in Times
BY DEF Calls, Idle, Simple

(* What a thread may come to know.                                         *)
LEMMA CallTypes ==
  /\ Idle \in Calls
  /\ \A op \in Simple \cup {"event"}, at \in Times : [op |-> op, at |-> at] \in Calls
  /\ \A event \in 0 .. MaxRecords, ok \in BOOLEAN, since \in Times :
       /\ [op |-> "posting", event |-> event, ok |-> ok, since |-> since] \in Calls
       /\ \A at \in Times :
            [op |-> "receipt", at |-> at, event |-> event, ok |-> ok, since |-> since] \in Calls
BY DEF Calls, Idle, Simple

(* A thread moves and no other.                                            *)
LEMMA BecomesType ==
  ASSUME TypeOK, NEW c \in Clients, NEW call \in Calls, Becomes(c, call)
  PROVE  /\ client' \in [Clients -> Calls]
         /\ client'[c] = call
         /\ \A d \in Clients \ {c} : client'[d] = client[d]
BY DEF TypeOK, Becomes

(* _record_expiry ends within a TTL.                                       *)
LEMMA ExpiryRange ==
  ASSUME TypeOK, NEW at \in Times
  PROVE  /\ RecordExpiry(at) \in Expiries /\ RecordExpiry(at) <= at + TTL
         /\ at + TTL \in Expiries
         /\ TaskLive(at) => RecordExpiry(at) <= tasks.expires
         /\ TaskLive(at) /\ tasks.expires <= at + TTL => RecordExpiry(at) = tasks.expires
         /\ ~TaskLive(at) => RecordExpiry(at) = at + TTL
BY JournalAssumption
   DEF TypeOK, TaskRows, RecordExpiry, Least, TaskLive, TaskExpiry, Live, Expiries, Times

(* A row of the records table: its number, and the rest.                   *)
LEMMA InsertType ==
  ASSUME TypeOK, NEW kind \in {"event", "receipt", "other"}, NEW event \in 0 .. MaxRecords,
         NEW ok \in BOOLEAN, NEW since \in Times, NEW at \in Times,
         Insert(kind, event, ok, since, at)
  PROVE  /\ records' \subseteq Records /\ lastId' \in 0 .. MaxRecords /\ lastId' = lastId + 1
         /\ \E r \in Records :
              /\ r.id = lastId' /\ r.kind = kind /\ r.event = event /\ r.ok = ok
              /\ r.since = since /\ r.expires = RecordExpiry(at)
              /\ records' = records \cup {r}
<1>1. lastId' = lastId + 1 /\ lastId' \in 1 .. MaxRecords /\ lastId' \in 0 .. MaxRecords
  BY JournalAssumption DEF Insert, TypeOK
<1>2. [id |-> lastId', kind |-> kind, event |-> event, ok |-> ok, since |-> since,
       expires |-> RecordExpiry(at)] \in Records
  BY <1>1, ExpiryRange DEF Records
<1> QED
  BY <1>1, <1>2 DEF Insert, TypeOK

(* A put leaves a typed row.                                               *)
LEMMA PutRowType ==
  ASSUME TypeOK, NEW at \in Times
  PROVE  PutRow(tasks, at) \in TaskRows
BY ExpiryRange DEF TypeOK, PutRow, TaskRows

LEMMA TypeStep ==
  TypeOK /\ [Next]_vars => TypeOK'
<1> SUFFICES ASSUME TypeOK, [Next]_vars PROVE TypeOK'
  OBVIOUS
<1>0. /\ now \in Times /\ lastId \in 0 .. MaxRecords
      /\ tasks \in TaskRows \cup {None} /\ records \subseteq Records
      /\ state \in Expiries \cup {None} /\ client \in [Clients -> Calls]
  BY DEF TypeOK
<1>1. CASE Tick
  BY <1>1, JournalAssumption DEF Tick, TypeOK, Times
<1>2. CASE Restart
  BY <1>2, CallTypes DEF Restart, Purge, Unexpired, TypeOK
<1>3. ASSUME NEW c \in Clients, Call(c) PROVE TypeOK'
  <2>1. PICK op \in Simple \cup {"event"} : Becomes(c, [op |-> op, at |-> now])
    BY <1>3 DEF Call
  <2>2. client' \in [Clients -> Calls]
    BY <2>1, <1>0, CallTypes, BecomesType
  <2> QED
    BY <1>3, <2>2 DEF Call, TypeOK
<1>4. ASSUME NEW c \in Clients, Put(c) PROVE TypeOK'
  <2>1. client' \in [Clients -> Calls]
    BY <1>4, CallTypes, BecomesType DEF Put
  <2>2. client[c].at \in Times
    BY <1>4, <1>0, CallFields DEF Put, Enters
  <2> QED
    BY <1>4, <2>1, <2>2, PutRowType DEF Put, TypeOK
<1>5. ASSUME NEW c \in Clients, Get(c) PROVE TypeOK'
  BY <1>5, CallTypes, BecomesType DEF Get, TypeOK
<1>6. ASSUME NEW c \in Clients, Update(c) PROVE TypeOK'
  BY <1>6, <1>0, CallTypes, BecomesType, PutRowType DEF Update, TypeOK
<1>7. ASSUME NEW c \in Clients, Read(c) PROVE TypeOK'
  BY <1>7, CallTypes, BecomesType DEF Read, Unexpired, TypeOK
<1>8. ASSUME NEW c \in Clients, Append(c) PROVE TypeOK'
  <2>1. client[c].at \in Times
    BY <1>8, <1>0, CallFields DEF Append, Enters
  <2>0. PICK ok \in BOOLEAN : Insert("other", 0, ok, 0, client[c].at)
    BY <1>8, Zenon DEF Append
  <2>2. records' \subseteq Records /\ lastId' \in 0 .. MaxRecords
    BY <2>0, <2>1, InsertType, JournalAssumption DEF Times
  <2> QED
    BY <1>8, <2>2, CallTypes, BecomesType DEF Append, TypeOK
<1>9. ASSUME NEW c \in Clients, SetState(c) PROVE TypeOK'
  <2>1. client[c].at \in Times
    BY <1>9, <1>0, CallFields DEF SetState, Enters
  <2> QED
    BY <1>9, <2>1, ExpiryRange, CallTypes, BecomesType DEF SetState, TypeOK
<1>10. ASSUME NEW c \in Clients, PurgeExpired(c) PROVE TypeOK'
  BY <1>10, CallTypes, BecomesType DEF PurgeExpired, Purge, Unexpired, TypeOK
<1>11. ASSUME NEW c \in Clients, EventAppended(c) PROVE TypeOK'
  <2>1. client[c].at \in Times
    BY <1>11, <1>0, CallFields DEF EventAppended, Enters
  <2>2. lastId + 1 \in 0 .. MaxRecords
    BY <1>11, <1>0, JournalAssumption DEF EventAppended, Insert
  <2>0. PICK ok \in BOOLEAN :
          /\ Insert("event", lastId + 1, ok, client[c].at, client[c].at)
          /\ Becomes(c, [op |-> "posting", event |-> lastId', ok |-> ok, since |-> client[c].at])
    BY <1>11, Zenon DEF EventAppended
  <2>3. records' \subseteq Records /\ lastId' \in 0 .. MaxRecords
    BY <2>0, <2>1, <2>2, InsertType
  <2>4. client' \in [Clients -> Calls]
    BY <2>0, <2>1, <2>3, CallTypes, BecomesType
  <2> QED
    BY <1>11, <2>3, <2>4 DEF EventAppended, TypeOK
<1>12. ASSUME NEW c \in Clients, EventFails(c) PROVE TypeOK'
  <2>1. PICK ok \in BOOLEAN : Becomes(c, [op |-> "posting", event |-> 0, ok |-> ok, since |-> 0])
    BY <1>12, Zenon DEF EventFails
  <2>2. [op |-> "posting", event |-> 0, ok |-> ok, since |-> 0] \in Calls
    BY CallTypes, JournalAssumption DEF Times
  <2> QED
    BY <1>12, <2>1, <2>2, BecomesType DEF EventFails, TypeOK
<1>13. ASSUME NEW c \in Clients, Posted(c) PROVE TypeOK'
  <2>1. client[c].event \in 0 .. MaxRecords /\ client[c].ok \in BOOLEAN /\ client[c].since \in Times
    BY <1>13, <1>0, CallFields DEF Posted, Enters
  <2>2. client' \in [Clients -> Calls]
    BY <1>13, <1>0, <2>1, CallTypes, BecomesType DEF Posted
  <2> QED
    BY <1>13, <2>2 DEF Posted, TypeOK
<1>14. ASSUME NEW c \in Clients, ReceiptAppended(c) PROVE TypeOK'
  <2>1. /\ client[c].event \in 0 .. MaxRecords /\ client[c].ok \in BOOLEAN
        /\ client[c].since \in Times /\ client[c].at \in Times
    BY <1>14, <1>0, CallFields DEF ReceiptAppended, Enters
  <2>2. records' \subseteq Records /\ lastId' \in 0 .. MaxRecords
    BY <1>14, <2>1, InsertType DEF ReceiptAppended
  <2> QED
    BY <1>14, <2>2, CallTypes, BecomesType DEF ReceiptAppended, TypeOK
<1>15. ASSUME NEW c \in Clients, OperationFails(c) PROVE TypeOK'
  BY <1>15, CallTypes, BecomesType DEF OperationFails, TypeOK
<1>16. CASE UNCHANGED vars
  BY <1>16 DEF vars, TypeOK
<1> QED
  BY <1>1, <1>2, <1>3, <1>4, <1>5, <1>6, <1>7, <1>8, <1>9, <1>10, <1>11, <1>12, <1>13,
     <1>14, <1>15, <1>16 DEF Next

LEMMA TypeInit == Init => TypeOK
BY JournalAssumption, CallTypes DEF Init, TypeOK, Times

(* The tables and the threads' locals stay well-formed.                    *)
THEOREM TypeCorrect == Spec => []TypeOK
BY TypeInit, TypeStep, PTL DEF Spec

-----------------------------------------------------------------------------
(* Nothing a thread or a table knows is of the future, record numbers are  *)
(* used once, and a task's row ends within a TTL of its insertion.         *)
CallPast(call) ==
  /\ call.op \notin {"idle", "posting"} => call.at <= now
  /\ call.op \in {"posting", "receipt"} => call.since <= now

TablesPast ==
  /\ \A r \in records : r.id <= lastId /\ r.since <= now
  /\ tasks # None => tasks.born <= now /\ tasks.expires <= tasks.born + TTL

Past == TablesPast /\ \A c \in Clients : CallPast(client[c])

(* A thread's new call is of the past if the others' are.                  *)
LEMMA BecomesPast ==
  ASSUME TypeOK, Past, NEW c \in Clients, NEW call \in Calls, Becomes(c, call), now' = now,
         CallPast(call)
  PROVE  \A d \in Clients : CallPast(client[d])'
BY BecomesType DEF Past, CallPast

LEMMA IdlePast == CallPast(Idle)
BY DEF CallPast, Idle

(* Tables that only lose rows stay of the past.                            *)
LEMMA TablesShrink ==
  ASSUME TablesPast, now' = now, lastId' = lastId, records' \subseteq records,
         tasks' \in {tasks, None}
  PROVE  TablesPast'
BY DEF TablesPast

(* So do tables that receive a record.                                     *)
LEMMA TablesGrow ==
  ASSUME TypeOK, TablesPast, NEW r \in Records, records' = records \cup {r}, r.id = lastId',
         lastId' = lastId + 1, r.since <= now, now' = now, tasks' = tasks
  PROVE  TablesPast'
BY DEF TablesPast, TypeOK, Records

(* A row put at a moment that is past.                                     *)
LEMMA PutRowPast ==
  ASSUME TypeOK, TablesPast, NEW at \in Times, at <= now
  PROVE  /\ PutRow(tasks, at).born <= now
         /\ PutRow(tasks, at).expires <= PutRow(tasks, at).born + TTL
<1>1. CASE tasks = None
  BY <1>1, JournalAssumption DEF PutRow, TypeOK, Times
<1>2. CASE tasks # None
  BY <1>2 DEF PutRow, TablesPast
<1> QED
  BY <1>1, <1>2

(* The clock read before the lock is not ahead of the one read inside.     *)
LEMMA ClockRead ==
  ASSUME TypeOK, Past, NEW c \in Clients, client[c].op \in Simple \cup {"event", "receipt"}
  PROVE  client[c].at \in Times /\ client[c].at <= now
<1>1. client[c] \in Calls
  BY DEF TypeOK
<1> QED
  BY <1>1, CallFields DEF Past, CallPast, Simple

LEMMA PastStep ==
  TypeOK /\ Past /\ [Next]_vars => Past'
<1> SUFFICES ASSUME TypeOK, Past, [Next]_vars PROVE Past'
  OBVIOUS
<1>0. now \in Times /\ TablesPast /\ Idle \in Calls
  BY CallTypes DEF TypeOK, Past
<1>1. CASE Tick
  <2>1. now' = now + 1 /\ records' = records /\ tasks' = tasks /\ client' = client /\ lastId' = lastId
    BY <1>1 DEF Tick
  <2>2. TablesPast'
    BY <2>1, <1>0 DEF TablesPast, TypeOK, Records, TaskRows, Times
  <2>3. ASSUME NEW c \in Clients PROVE CallPast(client[c])'
    <3>1. client[c] \in Calls /\ CallPast(client[c])
      BY DEF TypeOK, Past
    <3> QED
      BY <3>1, <2>1, <1>0, CallFields DEF CallPast, Times
  <2> QED
    BY <2>2, <2>3 DEF Past
<1>2. CASE Restart
  <2>1. TablesPast'
    BY <1>2, <1>0, TablesShrink DEF Restart, Purge, Unexpired
  <2> QED
    BY <1>2, <2>1, IdlePast DEF Restart, Past, CallPast
<1>3. ASSUME NEW c \in Clients, Call(c) PROVE Past'
  <2>1. PICK op \in Simple \cup {"event"} : Becomes(c, [op |-> op, at |-> now])
    BY <1>3 DEF Call
  <2>2. [op |-> op, at |-> now] \in Calls /\ CallPast([op |-> op, at |-> now])
    BY <1>0, CallTypes DEF CallPast, Simple, Times
  <2>3. TablesPast'
    BY <1>3, <1>0, TablesShrink DEF Call
  <2> QED
    BY <1>3, <2>1, <2>2, <2>3, BecomesPast DEF Call, Past
<1>4. ASSUME NEW c \in Clients, Put(c) PROVE Past'
  <2>1. client[c].at \in Times /\ client[c].at <= now
    BY <1>4, ClockRead DEF Put, Enters, Simple
  <2>2. TablesPast'
    BY <1>4, <1>0, <2>1, PutRowPast DEF Put, TablesPast
  <2> QED
    BY <1>4, <1>0, <2>2, IdlePast, BecomesPast DEF Put, Past
<1>5. ASSUME NEW c \in Clients, Get(c) \/ Read(c) \/ PurgeExpired(c) PROVE Past'
  <2>1. TablesPast'
    BY <1>5, <1>0, TablesShrink DEF Get, Read, PurgeExpired, Purge, Unexpired
  <2> QED
    BY <1>5, <1>0, <2>1, IdlePast, BecomesPast DEF Get, Read, PurgeExpired, Past
<1>6. ASSUME NEW c \in Clients, Update(c) PROVE Past'
  <2>1. TablesPast'
    BY <1>6, <1>0, PutRowPast DEF Update, TablesPast, Times
  <2> QED
    BY <1>6, <1>0, <2>1, IdlePast, BecomesPast DEF Update, Past
<1>7. ASSUME NEW c \in Clients, SetState(c) \/ OperationFails(c) PROVE Past'
  <2>1. TablesPast'
    BY <1>7, <1>0, TablesShrink DEF SetState, OperationFails
  <2> QED
    BY <1>7, <1>0, <2>1, IdlePast, BecomesPast DEF SetState, OperationFails, Past
<1>8. ASSUME NEW c \in Clients, Append(c) PROVE Past'
  <2>1. client[c].at \in Times
    BY <1>8, ClockRead DEF Append, Enters, Simple
  <2>2. PICK ok \in BOOLEAN : Insert("other", 0, ok, 0, client[c].at)
    BY <1>8, Zenon DEF Append
  <2>3. TablesPast'
    BY <1>8, <1>0, <2>1, <2>2, InsertType, TablesGrow, JournalAssumption DEF Append, Times
  <2> QED
    BY <1>8, <1>0, <2>3, IdlePast, BecomesPast DEF Append, Past
<1>9. ASSUME NEW c \in Clients, EventAppended(c) PROVE Past'
  <2>1. client[c].at \in Times /\ client[c].at <= now
    BY <1>9, ClockRead DEF EventAppended, Enters
  <2>2. PICK ok \in BOOLEAN :
          /\ Insert("event", lastId + 1, ok, client[c].at, client[c].at)
          /\ Becomes(c, [op |-> "posting", event |-> lastId', ok |-> ok, since |-> client[c].at])
    BY <1>9, Zenon DEF EventAppended
  <2>3. lastId + 1 \in 0 .. MaxRecords
    BY <1>9, JournalAssumption DEF EventAppended, Insert, TypeOK
  <2>4. /\ lastId' \in 0 .. MaxRecords /\ TablesPast'
    BY <1>9, <1>0, <2>1, <2>2, <2>3, InsertType, TablesGrow DEF EventAppended
  <2>5. /\ [op |-> "posting", event |-> lastId', ok |-> ok, since |-> client[c].at] \in Calls
        /\ CallPast([op |-> "posting", event |-> lastId', ok |-> ok, since |-> client[c].at])
    BY <2>1, <2>4, CallTypes DEF CallPast
  <2> QED
    BY <1>9, <2>2, <2>4, <2>5, BecomesPast DEF EventAppended, Past
<1>10. ASSUME NEW c \in Clients, EventFails(c) PROVE Past'
  <2>1. PICK ok \in BOOLEAN : Becomes(c, [op |-> "posting", event |-> 0, ok |-> ok, since |-> 0])
    BY <1>10, Zenon DEF EventFails
  <2>2. /\ [op |-> "posting", event |-> 0, ok |-> ok, since |-> 0] \in Calls
        /\ CallPast([op |-> "posting", event |-> 0, ok |-> ok, since |-> 0])
    BY <1>0, CallTypes, JournalAssumption DEF CallPast, Times
  <2>3. TablesPast'
    BY <1>10, <1>0, TablesShrink DEF EventFails
  <2> QED
    BY <1>10, <2>1, <2>2, <2>3, BecomesPast DEF EventFails, Past
<1>11. ASSUME NEW c \in Clients, Posted(c) PROVE Past'
  <2>1. client[c] \in Calls /\ CallPast(client[c]) /\ client[c].op = "posting"
    BY <1>11 DEF Posted, Enters, TypeOK, Past
  <2> DEFINE call == [op |-> "receipt", at |-> now, event |-> client[c].event,
                      ok |-> client[c].ok, since |-> client[c].since]
  <2>2. client[c].event \in 0 .. MaxRecords /\ client[c].ok \in BOOLEAN /\ client[c].since \in Times
    BY <2>1, CallFields
  <2>3. call \in Calls
    BY <1>0, <2>2, CallTypes
  <2>4. CallPast(call)
    BY <1>0, <2>1 DEF CallPast, Times
  <2>5. Becomes(c, call) /\ now' = now
    BY <1>11 DEF Posted
  <2>6. TablesPast'
    BY <1>11, <1>0, TablesShrink DEF Posted
  <2> HIDE DEF call
  <2> QED
    BY <2>3, <2>4, <2>5, <2>6, BecomesPast DEF Past
<1>12. ASSUME NEW c \in Clients, ReceiptAppended(c) PROVE Past'
  <2>1. /\ client[c].event \in 0 .. MaxRecords /\ client[c].ok \in BOOLEAN
        /\ client[c].since \in Times /\ client[c].at \in Times
        /\ client[c].since <= now
    BY <1>12, CallFields DEF ReceiptAppended, Enters, TypeOK, Past, CallPast
  <2>2. TablesPast'
    BY <1>12, <1>0, <2>1, InsertType, TablesGrow DEF ReceiptAppended
  <2> QED
    BY <1>12, <1>0, <2>2, IdlePast, BecomesPast DEF ReceiptAppended, Past
<1>13. CASE UNCHANGED vars
  BY <1>13 DEF vars, Past, TablesPast, CallPast
<1> QED
  BY <1>1, <1>2, <1>3, <1>4, <1>5, <1>6, <1>7, <1>8, <1>9, <1>10, <1>11, <1>12, <1>13 DEF Next

LEMMA PastInit == Init => Past
BY DEF Init, Past, TablesPast, CallPast, Idle

-----------------------------------------------------------------------------
(* What a step does to the tables                                          *)

Clock == now' = now + 1 /\ UNCHANGED <<tasks, records, state>>

(* Rows that nobody can see any more may go.                               *)
Sweep ==
  /\ now' = now
  /\ tasks' = tasks \/ (tasks' = None /\ ~TaskLive(now))
  /\ state' = state \/ (state' = None /\ ~Live(state, now))
  /\ records' \subseteq records /\ Unexpired(now) \subseteq records'

NewTask ==
  /\ tasks = None
  /\ \E at \in Times : at <= now /\ tasks' = [expires |-> at + TTL, born |-> now]
  /\ UNCHANGED <<now, records, state>>

NewRecord ==
  /\ \E r \in Records :
       /\ r.id = lastId + 1 /\ r.expires <= now + TTL
       /\ TaskLive(now) => r.expires <= tasks.expires
       /\ records' = records \cup {r}
  /\ UNCHANGED <<now, tasks, state>>

NewState ==
  /\ ~Live(state, now)
  /\ \E at \in Times : at <= now /\ state' = at + TTL
  /\ UNCHANGED <<now, tasks, records>>

(* What is live now was live at every earlier reading of the clock.        *)
LEMMA LiveBefore ==
  ASSUME TypeOK, NEW at \in Times, at <= now
  PROVE  /\ TaskLive(now) => TaskLive(at)
         /\ Live(state, now) => Live(state, at)
         /\ Unexpired(now) \subseteq Unexpired(at)
BY JournalAssumption
   DEF TypeOK, TaskLive, TaskExpiry, Live, Unexpired, TaskRows, Expiries, Times, Records

LEMMA InsertIsNewRecord ==
  ASSUME TypeOK, NEW kind \in {"event", "receipt", "other"}, NEW event \in 0 .. MaxRecords,
         NEW ok \in BOOLEAN, NEW since \in Times, NEW at \in Times, at <= now,
         Insert(kind, event, ok, since, at), UNCHANGED <<now, tasks, state>>
  PROVE  NewRecord
<1>1. PICK r \in Records : /\ r.id = lastId' /\ r.expires = RecordExpiry(at)
                           /\ records' = records \cup {r} /\ lastId' = lastId + 1
  BY InsertType
<1>2. RecordExpiry(at) <= at + TTL /\ (TaskLive(now) => RecordExpiry(at) <= tasks.expires)
  BY ExpiryRange, LiveBefore
<1>3. r.expires \in Int /\ at + TTL <= now + TTL
  BY JournalAssumption DEF Records, Expiries, Times, TypeOK
<1>4. r.expires <= now + TTL
  BY <1>1, <1>2, <1>3, JournalAssumption DEF Times, TypeOK
<1> QED
  BY <1>1, <1>2, <1>4 DEF NewRecord

LEMMA StepKinds ==
  TypeOK /\ Past /\ [Next]_vars => Clock \/ Sweep \/ NewTask \/ NewRecord \/ NewState
<1> SUFFICES ASSUME TypeOK, Past, [Next]_vars
             PROVE  Clock \/ Sweep \/ NewTask \/ NewRecord \/ NewState
  OBVIOUS
<1>0. now \in Times /\ now <= now
  BY DEF TypeOK, Times
<1>1. CASE Tick
  BY <1>1 DEF Tick, Clock
<1>2. CASE Restart
  BY <1>2 DEF Restart, Purge, Sweep, Unexpired
<1>3. ASSUME NEW c \in Clients, Call(c) \/ EventFails(c) \/ Posted(c) \/ OperationFails(c) PROVE Sweep
  BY <1>3 DEF Call, EventFails, Posted, OperationFails, Sweep, Unexpired
<1>4. ASSUME NEW c \in Clients, Put(c) PROVE NewTask \/ Sweep
  <2>1. client[c].at \in Times /\ client[c].at <= now
    BY <1>4, ClockRead DEF Put, Enters, Simple
  <2> QED
    BY <1>4, <2>1 DEF Put, PutRow, NewTask, Sweep, Unexpired
<1>5. ASSUME NEW c \in Clients, Get(c) \/ Read(c) \/ PurgeExpired(c) PROVE Sweep
  <2>1. client[c].at \in Times /\ client[c].at <= now
    BY <1>5, ClockRead DEF Get, Read, PurgeExpired, Enters, Simple
  <2> QED
    BY <1>5, <2>1, LiveBefore DEF Get, Read, PurgeExpired, Purge, Sweep, Unexpired
<1>6. ASSUME NEW c \in Clients, Update(c) PROVE Sweep
  BY <1>6 DEF Update, PutRow, TaskLive, TaskExpiry, Live, Sweep, Unexpired
<1>7. ASSUME NEW c \in Clients, SetState(c) PROVE Sweep \/ NewState
  <2>1. client[c].at \in Times /\ client[c].at <= now
    BY <1>7, ClockRead DEF SetState, Enters, Simple
  <2> QED
    BY <1>7, <2>1, LiveBefore DEF SetState, Sweep, NewState, Unexpired
<1>8. ASSUME NEW c \in Clients, Append(c) PROVE NewRecord
  <2>1. client[c].at \in Times /\ client[c].at <= now
    BY <1>8, ClockRead DEF Append, Enters, Simple
  <2>2. PICK ok \in BOOLEAN : Insert("other", 0, ok, 0, client[c].at)
    BY <1>8, Zenon DEF Append
  <2> QED
    BY <1>8, <2>1, <2>2, InsertIsNewRecord, JournalAssumption DEF Append, Times
<1>9. ASSUME NEW c \in Clients, EventAppended(c) PROVE NewRecord
  <2>1. client[c].at \in Times /\ client[c].at <= now
    BY <1>9, ClockRead DEF EventAppended, Enters
  <2>2. PICK ok \in BOOLEAN : Insert("event", lastId + 1, ok, client[c].at, client[c].at)
    BY <1>9, Zenon DEF EventAppended
  <2>3. lastId + 1 \in 0 .. MaxRecords
    BY <1>9, JournalAssumption DEF EventAppended, Insert, TypeOK
  <2> QED
    BY <1>9, <2>1, <2>2, <2>3, InsertIsNewRecord DEF EventAppended
<1>10. ASSUME NEW c \in Clients, ReceiptAppended(c) PROVE NewRecord
  <2>1. client[c].at \in Times /\ client[c].at <= now
    BY <1>10, ClockRead DEF ReceiptAppended, Enters
  <2>2. client[c].event \in 0 .. MaxRecords /\ client[c].ok \in BOOLEAN /\ client[c].since \in Times
    BY <1>10, CallFields DEF ReceiptAppended, Enters, TypeOK
  <2> QED
    BY <1>10, <2>1, <2>2, InsertIsNewRecord DEF ReceiptAppended
<1>11. CASE UNCHANGED vars
  BY <1>11 DEF vars, Sweep, Unexpired
<1> QED
  BY <1>1, <1>2, <1>3, <1>4, <1>5, <1>6, <1>7, <1>8, <1>9, <1>10, <1>11 DEF Next

-----------------------------------------------------------------------------
(* The store implements the promise                                        *)

LEMMA StoreStep ==
  TypeOK /\ Past /\ [Next]_vars => [Store!Next]_(Store!vars)
<1> SUFFICES ASSUME TypeOK, Past, [Next]_vars PROVE [Store!Next]_(Store!vars)
  OBVIOUS
<1> DEFINE task == Seen(TaskExpiry)
           log == {[id |-> r.id, until |-> r.expires] : r \in Unexpired(now)}
           model == Seen(state)
<1>0. /\ now \in Nat /\ TTL \in Nat /\ None \notin Nat
      /\ tasks # None => tasks.expires \in Nat
      /\ state # None => state \in Nat
      /\ \A r \in records : r.expires \in Nat /\ r.id \in 1 .. MaxRecords
  BY JournalAssumption DEF TypeOK, TaskRows, Records, Expiries, Times
<1>1. CASE Clock
  <2>1. task' = IF task = None \/ task <= now' THEN None ELSE task
    BY <1>0, <1>1 DEF Clock, Seen, TaskExpiry, Live
  <2>2. model' = IF model = None \/ model <= now' THEN None ELSE model
    BY <1>0, <1>1 DEF Clock, Seen, Live
  <2>3. log' = {entry \in log : entry.until > now'}
    BY <1>0, <1>1 DEF Clock, Unexpired
  <2> QED
    BY <1>1, <2>1, <2>2, <2>3 DEF Clock, Store!Next, Store!Tick, Store!StillThere
<1>2. CASE Sweep
  <2>1. task' = task
    BY <1>2 DEF Sweep, Seen, TaskExpiry, TaskLive, Live
  <2>2. model' = model
    BY <1>2 DEF Sweep, Seen, Live
  <2>3. log' = log
    BY <1>2 DEF Sweep, Unexpired
  <2> QED
    BY <1>2, <2>1, <2>2, <2>3 DEF Sweep, Store!vars
<1>3. CASE NewTask
  <2>1. task = None
    BY <1>3 DEF NewTask, Seen, TaskExpiry, Live
  <2>2. task' \in now + 1 .. now + TTL \/ task' = None
    BY <1>3, <1>0 DEF NewTask, Seen, TaskExpiry, Live, Times
  <2>3. model' = model /\ log' = log /\ now' = now
    BY <1>3 DEF NewTask, Seen, Unexpired
  <2> QED
    BY <2>1, <2>2, <2>3 DEF Store!vars, Store!Next, Store!Insert, Store!Moments
<1>4. CASE NewRecord
  <2>1. PICK r \in Records : /\ r.id = lastId + 1 /\ r.expires <= now + TTL
                             /\ TaskLive(now) => r.expires <= tasks.expires
                             /\ records' = records \cup {r}
    BY <1>4 DEF NewRecord
  <2>2. r.expires \in Nat /\ r.id \in 1 .. MaxRecords
    BY JournalAssumption DEF Records, Expiries, Times
  <2>3. task' = task /\ model' = model /\ now' = now
    BY <1>4 DEF NewRecord, Seen, TaskExpiry
  <2>4. \A entry \in log : entry.id # r.id
    BY <2>1 DEF Unexpired, Past, TablesPast, TypeOK, Records
  <2>5. CASE r.expires > now
    <3>1. log' = log \cup {[id |-> r.id, until |-> r.expires]}
      BY <2>1, <2>3, <2>5 DEF Unexpired
    <3>2. task = None \/ r.expires <= task
      BY <2>1 DEF Seen, TaskLive, TaskExpiry, Live
    <3>3. r.expires \in now + 1 .. now + TTL
      BY <1>0, <2>1, <2>2, <2>5
    <3> QED
      BY <2>2, <2>3, <2>4, <3>1, <3>2, <3>3 DEF Store!Next, Store!Append, Store!Moments
  <2>6. CASE ~(r.expires > now)
    <3>1. log' = log
      BY <2>1, <2>3, <2>6 DEF Unexpired
    <3> QED
      BY <2>3, <3>1 DEF Store!vars
  <2> QED
    BY <2>5, <2>6
<1>5. CASE NewState
  <2>1. model = None
    BY <1>5 DEF NewState, Seen
  <2>0. PICK at \in Times : at <= now /\ state' = at + TTL
    BY <1>5 DEF NewState
  <2>2. model' \in now + 1 .. now + TTL \/ model' = None
    <3>1. state' \in Nat /\ state' <= now + TTL /\ now' = now
      BY <2>0, <1>0, <1>5, JournalAssumption DEF NewState, Times
    <3>2. model' = None \/ (model' = state' /\ state' > now)
      BY <3>1 DEF Seen, Live
    <3> QED
      BY <3>1, <3>2, <1>0
  <2>3. task' = task /\ log' = log /\ now' = now
    BY <1>5 DEF NewState, Seen, TaskExpiry, Unexpired
  <2> QED
    BY <2>1, <2>2, <2>3 DEF Store!vars, Store!Next, Store!SetState, Store!Moments
<1> QED
  BY <1>1, <1>2, <1>3, <1>4, <1>5, StepKinds

(* journal.py keeps what it promises its callers: every entry is there     *)
(* until a moment fixed when it was added, whatever operations with stale  *)
(* clocks, purges, failures and restarts do meanwhile.                     *)
THEOREM JournalImplementsStore == Spec => ImplementsStore
<1>1. Init => Store!Init
  BY DEF Init, Store!Init, Seen, TaskExpiry, Live, Unexpired
<1> QED
  BY <1>1, TypeInit, TypeStep, PastInit, PastStep, StoreStep, PTL DEF Spec, ImplementsStore, Store!Spec

-----------------------------------------------------------------------------
(* A receipt beside its event                                              *)

(* The event is in the journal, until that moment at least.                *)
Kept(event, moment) == \E e \in records : e.kind = "event" /\ e.id = event /\ e.expires >= moment

(* What is known of an event the journal took, whose append began at since:*)
(* it outlives the task's row if that is alive and was there before; and   *)
(* at the moment of the append it outlives any row still to be inserted.   *)
Backed(event, since) ==
  /\ TaskLive(now) /\ since >= tasks.born => Kept(event, tasks.expires)
  /\ since = now /\ ~TaskLive(now) => Kept(event, since + TTL)

Claims(x) == x.ok => Backed(x.event, x.since)

BackedInv ==
  /\ \A r \in records : r.kind = "receipt" => Claims(r)
  /\ \A c \in Clients : client[c].op \in {"posting", "receipt"} => Claims(client[c])

(* Whatever a step does, what it met backed stays backed.                  *)
LEMMA BackedKept ==
  ASSUME TypeOK, Past, [Next]_vars, NEW event, NEW since \in Times, since <= now,
         Backed(event, since)
  PROVE  Backed(event, since)'
<1>0. /\ now \in Nat /\ TTL \in Nat /\ TTL > 0 /\ None \notin Nat /\ since \in Nat
      /\ tasks # None => tasks.expires \in Nat /\ tasks.born \in Nat
      /\ \A r \in records : r.expires \in Nat
  BY JournalAssumption DEF TypeOK, TaskRows, Records, Expiries, Times
<1>1. CASE Clock
  BY <1>0, <1>1 DEF Clock, Backed, Kept, TaskLive, TaskExpiry, Live
<1>2. CASE Sweep
  <2>0. now' = now
    BY <1>2 DEF Sweep
  <2>1. ASSUME NEW moment \in Nat, moment > now, Kept(event, moment) PROVE Kept(event, moment)'
    <3>1. PICK e \in records : e.kind = "event" /\ e.id = event /\ e.expires >= moment
      BY <2>1 DEF Kept
    <3>2. e \in Unexpired(now)
      BY <3>1, <2>1, <1>0 DEF Unexpired
    <3> QED
      BY <3>1, <3>2, <1>2 DEF Sweep, Kept
  <2>2. TaskLive(now)' => tasks' = tasks /\ TaskLive(now) /\ tasks.expires > now
    BY <1>2, <1>0 DEF Sweep, TaskLive, TaskExpiry, Live
  <2>3. ~TaskLive(now)' => ~TaskLive(now)
    BY <1>2, <1>0 DEF Sweep, TaskLive, TaskExpiry, Live
  <2>4. tasks = None => ~TaskLive(now)
    BY DEF TaskLive, TaskExpiry, Live
  <2>5. ASSUME TaskLive(now)', since >= tasks'.born PROVE Kept(event, tasks.expires)'
    <3>1. PICK moment \in Nat : moment = tasks.expires /\ moment > now
      BY <2>2, <2>4, <2>5, <1>0
    <3>2. Kept(event, moment)'
      BY <3>1, <2>1, <2>2, <2>5 DEF Backed
    <3> QED
      BY <3>1, <3>2, <2>2, <2>5 DEF Kept
  <2>6. ASSUME since = now', ~TaskLive(now)' PROVE Kept(event, since + TTL)'
    BY <2>0, <2>1, <2>3, <2>6, <1>0 DEF Backed
  <2> QED
    BY <2>5, <2>6 DEF Backed
<1>3. CASE NewTask
  <2>1. PICK at \in Times : at <= now /\ tasks' = [expires |-> at + TTL, born |-> now]
    BY <1>3 DEF NewTask
  <2>2. ~TaskLive(now) /\ now' = now /\ records' = records
    BY <1>3 DEF NewTask, TaskLive, TaskExpiry, Live
  <2>3. tasks'.born = now /\ tasks'.expires = at + TTL /\ at + TTL <= now + TTL
    BY <2>1, <1>0 DEF Times
  <2>4. ASSUME since = now PROVE Kept(event, since + TTL) /\ Kept(event, at + TTL)
    BY <2>1, <2>2, <2>4, <1>0 DEF Backed, Kept, Times
  <2>5. \A moment : Kept(event, moment) => Kept(event, moment)'
    BY <2>2 DEF Kept
  <2> QED
    BY <2>2, <2>3, <2>4, <2>5, <1>0 DEF Backed
<1>4. CASE NewRecord \/ NewState
  <2>1. now' = now /\ tasks' = tasks /\ records \subseteq records'
    BY <1>4 DEF NewRecord, NewState
  <2> QED
    BY <2>1 DEF Backed, Kept, TaskLive, TaskExpiry
<1> QED
  BY <1>1, <1>2, <1>3, <1>4, StepKinds

(* The append of an event backs it.                                        *)
LEMMA EventBacked ==
  ASSUME TypeOK, Past, NEW at \in Times, at <= now, NEW ok \in BOOLEAN,
         NEW event \in 0 .. MaxRecords, event = lastId + 1,
         Insert("event", event, ok, at, at), now' = now, tasks' = tasks
  PROVE  Backed(event, at)'
<1>1. PICK r \in Records : /\ r.id = event /\ r.kind = "event" /\ r.expires = RecordExpiry(at)
                           /\ r \in records'
  BY InsertType
<1>2. TaskLive(now) => r.expires >= tasks.expires \/ at < tasks.born
  <2>1. SUFFICES ASSUME TaskLive(now), at >= tasks.born PROVE r.expires >= tasks.expires
    BY JournalAssumption DEF TaskLive, TaskExpiry, Live, TypeOK, TaskRows, Times
  <2>2. tasks # None
    BY <2>1 DEF TaskLive, TaskExpiry, Live
  <2>3. TaskLive(at) /\ tasks.expires <= at + TTL
    BY <2>1, <2>2, LiveBefore, JournalAssumption
       DEF Past, TablesPast, TypeOK, TaskRows, Times, Expiries
  <2> QED
    BY <1>1, <2>2, <2>3, ExpiryRange DEF TypeOK, TaskRows, Expiries
<1>3. at = now /\ ~TaskLive(now) => r.expires >= at + TTL
  BY <1>1, ExpiryRange DEF Expiries
<1>4. TaskLive(now)' = TaskLive(now)
  BY DEF TaskLive, TaskExpiry
<1>5. TaskLive(now) /\ at >= tasks.born => at >= tasks.born /\ ~(at < tasks.born)
  BY JournalAssumption DEF TaskLive, TaskExpiry, Live, TypeOK, TaskRows, Times
<1> QED
  BY <1>1, <1>2, <1>3, <1>4, <1>5 DEF Backed, Kept

(* Threads that keep their calls, and one with a new call.                 *)
LEMMA BecomesBacked ==
  ASSUME TypeOK, NEW c \in Clients, NEW call \in Calls, Becomes(c, call),
         \A x \in Calls, d \in Clients :
           x = client[d] /\ x.op \in {"posting", "receipt"} => Claims(x)',
         call.op \in {"posting", "receipt"} => Claims(call)'
  PROVE  \A d \in Clients : client'[d].op \in {"posting", "receipt"} => Claims(client[d])'
<1> SUFFICES ASSUME NEW d \in Clients, client'[d].op \in {"posting", "receipt"}
             PROVE  Claims(client[d])'
  OBVIOUS
<1>1. PICK x \in Calls : x = client'[d]
  BY BecomesType
<1>2. Claims(x)'
  BY <1>1, BecomesType DEF TypeOK
<1> QED
  BY <1>1, <1>2 DEF Claims, Backed, Kept

(* A record of another kind, or a receipt that repeats what is known.      *)
LEMMA InsertBacked ==
  ASSUME \A x \in records : x.kind = "receipt" => Claims(x)',
         NEW r, records' = records \cup {r}, r.kind = "receipt" => Claims(r)'
  PROVE  \A x \in records' : x.kind = "receipt" => Claims(x)'
OBVIOUS

LEMMA BackedStep ==
  TypeOK /\ Past /\ BackedInv /\ [Next]_vars => BackedInv'
<1> SUFFICES ASSUME TypeOK, Past, BackedInv, [Next]_vars PROVE BackedInv'
  OBVIOUS
<1>0. Idle \in Calls /\ Idle.op \notin {"posting", "receipt"}
  BY CallTypes DEF Idle
<1>1. \A x \in records : x.kind = "receipt" => Claims(x)'
  <2>1. ASSUME NEW x \in records, x.kind = "receipt" PROVE Claims(x)'
    BY <2>1, BackedKept DEF BackedInv, Claims, TypeOK, Records, Past, TablesPast
  <2> QED
    BY <2>1
<1>2. \A x \in Calls, d \in Clients :
         x = client[d] /\ x.op \in {"posting", "receipt"} => Claims(x)'
  <2>1. ASSUME NEW x \in Calls, NEW d \in Clients, x = client[d], x.op \in {"posting", "receipt"}
        PROVE  Claims(x)'
    <3>1. Claims(x) /\ x.since \in Times /\ x.since <= now
      BY <2>1, CallFields DEF BackedInv, Claims, Past, CallPast
    <3> QED
      BY <3>1, BackedKept DEF Claims
  <2> QED
    BY <2>1
<1> DEFINE Records_ == \A x \in records' : x.kind = "receipt" => Claims(x)'
           Calls_ == \A d \in Clients : client'[d].op \in {"posting", "receipt"} => Claims(client[d])'
<1>3. Records_ /\ Calls_ => BackedInv'
  BY DEF BackedInv
<1>4. records' \subseteq records => Records_
  BY <1>1
<1>5. ASSUME NEW c \in Clients, Becomes(c, Idle) PROVE Calls_
  BY <1>0, <1>2, <1>5, BecomesBacked
<1>6. client' = client => Calls_
  <2>1. ASSUME client' = client, NEW d \in Clients, client'[d].op \in {"posting", "receipt"}
        PROVE  Claims(client[d])'
    <3>1. PICK x \in Calls : x = client[d]
      BY DEF TypeOK
    <3>2. Claims(x)'
      BY <3>1, <2>1, <1>2
    <3> QED
      BY <3>1, <3>2, <2>1 DEF Claims, Backed, Kept
  <2> QED
    BY <2>1
<1> HIDE DEF Records_, Calls_
<1>7. CASE Tick \/ UNCHANGED vars
  BY <1>7, <1>3, <1>4, <1>6 DEF Tick, vars
<1>8. CASE Restart
  <2>1. Records_
    BY <1>8, <1>4 DEF Restart, Purge, Unexpired
  <2>2. \A d \in Clients : client'[d] = Idle
    BY <1>8 DEF Restart
  <2>3. Calls_
    BY <2>2, <1>0 DEF Calls_
  <2> QED
    BY <2>1, <2>3, <1>3
<1>9. ASSUME NEW c \in Clients,
             \/ Put(c) \/ Get(c) \/ Update(c) \/ Read(c) \/ SetState(c)
             \/ PurgeExpired(c) \/ OperationFails(c)
      PROVE  BackedInv'
  <2>1. Becomes(c, Idle) /\ records' \subseteq records
    BY <1>9 DEF Put, Get, Update, Read, SetState, PurgeExpired, OperationFails, Purge, Unexpired
  <2> QED
    BY <2>1, <1>3, <1>4, <1>5
<1>10. ASSUME NEW c \in Clients, Call(c) PROVE BackedInv'
  <2>1. PICK call \in Calls : Becomes(c, call) /\ call.op \notin {"posting", "receipt"}
    BY <1>10, CallTypes DEF Call, TypeOK, Simple
  <2>2. Calls_
    BY <2>1, <1>2, BecomesBacked DEF Calls_
  <2> QED
    BY <1>10, <2>2, <1>3, <1>4 DEF Call
<1>11. ASSUME NEW c \in Clients, Append(c) PROVE BackedInv'
  <2>1. client[c].at \in Times
    BY <1>11, ClockRead DEF Append, Enters, Simple
  <2>2. PICK ok \in BOOLEAN : Insert("other", 0, ok, 0, client[c].at)
    BY <1>11, Zenon DEF Append
  <2>3. PICK r \in Records : r.kind = "other" /\ records' = records \cup {r}
    BY <2>1, <2>2, InsertType, JournalAssumption DEF Times
  <2>4. Records_
    BY <2>3, <1>1, InsertBacked DEF Records_
  <2> QED
    BY <1>11, <2>4, <1>3, <1>5 DEF Append
<1>12. ASSUME NEW c \in Clients, EventAppended(c) PROVE BackedInv'
  <2>1. client[c].at \in Times /\ client[c].at <= now
    BY <1>12, ClockRead DEF EventAppended, Enters
  <2>2. PICK at \in Times : at = client[c].at /\ at <= now
    BY <2>1
  <2>3. PICK event \in 0 .. MaxRecords : event = lastId + 1
    BY <1>12, JournalAssumption DEF EventAppended, Insert, TypeOK
  <2>4. PICK ok \in BOOLEAN :
          /\ Insert("event", lastId + 1, ok, client[c].at, client[c].at)
          /\ Becomes(c, [op |-> "posting", event |-> lastId', ok |-> ok, since |-> client[c].at])
    BY <1>12, Zenon DEF EventAppended
  <2>5. PICK r \in Records : /\ r.kind = "event" /\ records' = records \cup {r}
                             /\ lastId' = event
    BY <2>1, <2>3, <2>4, InsertType
  <2>6. Insert("event", event, ok, at, at)
    BY <2>2, <2>3, <2>4
  <2>7. Backed(event, at)'
    BY <1>12, <2>2, <2>3, <2>6, EventBacked DEF EventAppended
  <2> DEFINE call == [op |-> "posting", event |-> event, ok |-> ok, since |-> at]
  <2>8. call \in Calls /\ Becomes(c, call)
    BY <2>2, <2>4, <2>5, CallTypes
  <2>9. Claims(call)'
    BY <2>7 DEF Claims
  <2> HIDE DEF call
  <2>10. Calls_
    BY <2>8, <2>9, <1>2, BecomesBacked DEF Calls_
  <2>11. Records_
    BY <2>5, <1>1, InsertBacked DEF Records_
  <2> QED
    BY <2>10, <2>11, <1>3
<1>13. ASSUME NEW c \in Clients, EventFails(c) PROVE BackedInv'
  <2>1. PICK ok \in BOOLEAN :
          ok = FALSE /\ Becomes(c, [op |-> "posting", event |-> 0, ok |-> ok, since |-> 0])
    BY <1>13, Zenon DEF EventFails
  <2> DEFINE call == [op |-> "posting", event |-> 0, ok |-> ok, since |-> 0]
  <2>2. call \in Calls
    BY CallTypes, JournalAssumption DEF Times
  <2>3. Claims(call)'
    BY <2>1 DEF Claims
  <2> HIDE DEF call
  <2>4. Calls_
    BY <2>1, <2>2, <2>3, <1>2, BecomesBacked DEF Calls_, call
  <2> QED
    BY <1>13, <2>4, <1>3, <1>4 DEF EventFails
<1>14. ASSUME NEW c \in Clients, Posted(c) PROVE BackedInv'
  <2>1. PICK x \in Calls : x = client[c] /\ x.op = "posting"
    BY <1>14 DEF Posted, Enters, TypeOK
  <2>2. Claims(x)'
    BY <2>1, <1>2
  <2>3. PICK at \in Times : at = now
    BY DEF TypeOK
  <2> DEFINE call == [op |-> "receipt", at |-> at, event |-> x.event, ok |-> x.ok, since |-> x.since]
  <2>4. call \in Calls /\ Becomes(c, call)
    BY <1>14, <2>1, <2>3, CallFields, CallTypes DEF Posted
  <2>5. Claims(call)'
    BY <2>2 DEF Claims
  <2> HIDE DEF call
  <2>6. Calls_
    BY <2>4, <2>5, <1>2, BecomesBacked DEF Calls_
  <2> QED
    BY <1>14, <2>6, <1>3, <1>4 DEF Posted
<1>15. ASSUME NEW c \in Clients, ReceiptAppended(c) PROVE BackedInv'
  <2>1. PICK x \in Calls : x = client[c] /\ x.op = "receipt"
    BY <1>15 DEF ReceiptAppended, Enters, TypeOK
  <2>2. Claims(x)'
    BY <2>1, <1>2
  <2>3. Insert("receipt", x.event, x.ok, x.since, x.at)
    BY <1>15, <2>1 DEF ReceiptAppended
  <2>4. PICK r \in Records : /\ r.event = x.event /\ r.ok = x.ok /\ r.since = x.since
                             /\ records' = records \cup {r}
    BY <2>1, <2>3, CallFields, InsertType
  <2>5. Claims(r)'
    BY <2>2, <2>4 DEF Claims
  <2>6. Records_
    BY <2>4, <2>5, <1>1, InsertBacked DEF Records_
  <2> QED
    BY <1>15, <2>6, <1>3, <1>5 DEF ReceiptAppended
<1> QED
  BY <1>7, <1>8, <1>9, <1>10, <1>11, <1>12, <1>13, <1>14, <1>15 DEF Next

(* EventRecorder.record (observability.py:182-235): a receipt that can be  *)
(* read, and says the journal took its event in the present life of its    *)
(* task, is read beside that event.                                        *)
THEOREM ReceiptsAreBacked == Spec => []ReceiptBacked
<1>1. Init => BackedInv
  BY DEF Init, BackedInv, Idle
<1>2. TypeOK /\ BackedInv => ReceiptBacked
  <2> SUFFICES ASSUME TypeOK, BackedInv, NEW r \in Unexpired(now), r.kind = "receipt", r.ok,
                      TaskLive(now), r.since >= tasks.born
               PROVE  \E e \in Unexpired(now) : e.kind = "event" /\ e.id = r.event
    BY DEF ReceiptBacked
  <2>1. Kept(r.event, tasks.expires)
    BY DEF BackedInv, Claims, Backed, Unexpired
  <2>2. tasks # None /\ tasks.expires > now
    BY DEF TaskLive, TaskExpiry, Live
  <2>3. PICK e \in records : e.kind = "event" /\ e.id = r.event /\ e.expires >= tasks.expires
    BY <2>1 DEF Kept
  <2>4. e.expires > now
    BY <2>2, <2>3, JournalAssumption DEF TypeOK, Records, TaskRows, Expiries, Times
  <2> QED
    BY <2>3, <2>4 DEF Unexpired
<1> QED
  BY <1>1, <1>2, TypeInit, TypeStep, PastInit, PastStep, BackedStep, PTL DEF Spec
=============================================================================
