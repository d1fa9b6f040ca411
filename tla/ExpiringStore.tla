--------------------------- MODULE ExpiringStore ---------------------------
(***************************************************************************)
(* What the journal promises its callers, without tables, clock reads that *)
(* precede the lock, physical deletion or restarts: every entry is there   *)
(* until a moment fixed when it was added, an update does not move that    *)
(* moment, and what is logged while a task lives does not outlive it.      *)
(* Journal implements this.                                                *)
(***************************************************************************)
EXTENDS Naturals

CONSTANTS Ids, TTL, None

VARIABLES
  now,
  task,   \* until when the task is there, or None
  log,    \* entries of the task's log, and until when they are there
  state   \* until when the model state is there, or None

vars == <<now, task, log, state>>

Init == now = 0 /\ task = None /\ log = {} /\ state = None

Moments == now + 1 .. now + TTL

(* An update of what is there changes a payload, and none of this.         *)
Insert ==
  /\ task = None
  /\ task' \in Moments
  /\ UNCHANGED <<now, log, state>>

Append ==
  /\ \E id \in Ids, until \in Moments :
       /\ \A entry \in log : entry.id # id
       /\ task = None \/ until <= task
       /\ log' = log \cup {[id |-> id, until |-> until]}
  /\ UNCHANGED <<now, task, state>>

SetState ==
  /\ state = None
  /\ state' \in Moments
  /\ UNCHANGED <<now, task, log>>

(* An entry is there strictly before its moment.                           *)
StillThere(until) == IF until = None \/ until <= now' THEN None ELSE until

Tick ==
  /\ now' = now + 1
  /\ task' = StillThere(task)
  /\ log' = {entry \in log : entry.until > now'}
  /\ state' = StillThere(state)

Next == Insert \/ Append \/ SetState \/ Tick

Spec == Init /\ [][Next]_vars
=============================================================================
