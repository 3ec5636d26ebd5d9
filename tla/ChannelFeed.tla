----------------------------- MODULE ChannelFeed -----------------------------
(***************************************************************************)
(* One community channel: durable membership and messages                  *)
(* (modules/community/services.py, infra/db/repositories/community.py) and *)
(* its read projection (consumers/community.py).                           *)
(*                                                                         *)
(* Membership events and message events of a channel go to two consumers,  *)
(* each of which handles its own events in order but runs concurrently     *)
(* with the other and writes the same projection row: it reads the facts   *)
(* in two statements and writes them unless the row already comes from an  *)
(* event of a later position.  Positions come from one sequence and follow *)
(* commit order within the lane of one consumer (module Outbox), but not   *)
(* between the two lanes.                                                  *)
(***************************************************************************)
EXTENDS Naturals, Sequences, FiniteSets, FiniteSetsExt

CONSTANTS
    Accounts,
    Procs,      \* request tasks
    None,
    MaxOps      \* bound on commands

VARIABLES
    members,    \* accounts with an open membership row
    sent,       \* identifiers of committed messages
    nextId,     \* the message sequence
    nextPos,    \* the event position sequence
    log,        \* outbox events in commit order: [type, by, pos]
    op,         \* the transaction of each task: [kind, by, pc, id, pos]
    ops,
    at,         \* consumer -> position of the last event it finished
    hd,         \* consumer -> None or its handler: [pos, pc, count, latest]
    proj,       \* projection row: [pos, count, latest]
    late        \* an event committed below the position of the projection

facts == <<members, sent, log>>
feed == <<at, hd, proj, late>>

Consumers == {"community", "messages"}
Lane(kind) == IF kind = "sent" THEN "messages" ELSE "community"
NoOp == [kind |-> None, by |-> None, pc |-> "idle", id |-> 0, pos |-> 0]

Init ==
    /\ members = {} /\ sent = {} /\ nextId = 1 /\ nextPos = 1 /\ log = <<>>
    /\ op = [p \in Procs |-> NoOp] /\ ops = 0
    /\ at = [c \in Consumers |-> 0]
    /\ hd = [c \in Consumers |-> None]
    /\ proj = [pos |-> 0, count |-> 0, latest |-> 0]
    /\ late = FALSE

-----------------------------------------------------------------------------
\* Commands.

Writing(p, kinds, a) ==
    \E q \in Procs \ {p} : op[q].pc \in {"append", "commit"} /\ op[q].kind \in kinds /\ op[q].by = a
Commence(p, kind, a) ==
    /\ op[p].pc = "idle" /\ ops < MaxOps
    /\ ops' = ops + 1
    /\ op' = [op EXCEPT ![p] = [NoOp EXCEPT !.kind = kind, !.by = a, !.pc = "write"]]
    /\ UNCHANGED <<facts, nextId, nextPos, feed>>

\* INSERT ... ON CONFLICT DO NOTHING on the open membership row: waits for a
\* transaction inserting or closing that row.
JoinMembership(p) ==
    /\ op[p].pc = "write" /\ op[p].kind = "join"
    /\ ~Writing(p, {"join", "leave"}, op[p].by)
    /\ op' = [op EXCEPT ![p] = IF op[p].by \in members THEN NoOp ELSE [@ EXCEPT !.pc = "append"]]
    /\ UNCHANGED <<facts, nextId, nextPos, ops, feed>>

\* UPDATE ... WHERE left_at IS NULL: sees committed rows only, and waits for a
\* transaction closing the row.
LeaveMembership(p) ==
    /\ op[p].pc = "write" /\ op[p].kind = "leave"
    /\ ~Writing(p, {"leave"}, op[p].by)
    /\ op' = [op EXCEPT ![p] = IF op[p].by \in members THEN [@ EXCEPT !.pc = "append"] ELSE NoOp]
    /\ UNCHANGED <<facts, nextId, nextPos, ops, feed>>

InsertMessage(p) ==
    /\ op[p].pc = "write" /\ op[p].kind = "sent"
    /\ op' = [op EXCEPT ![p].pc = "append", ![p].id = nextId]
    /\ nextId' = nextId + 1
    /\ UNCHANGED <<facts, nextPos, ops, feed>>

\* The event takes its position under the lock of its consumer's lane.
AppendEvent(p) ==
    /\ op[p].pc = "append"
    /\ \A q \in Procs \ {p} : op[q].pc = "commit" => Lane(op[q].kind) # Lane(op[p].kind)
    /\ op' = [op EXCEPT ![p].pc = "commit", ![p].pos = nextPos]
    /\ nextPos' = nextPos + 1
    /\ UNCHANGED <<facts, nextId, ops, feed>>

Commit(p) ==
    LET o == op[p] IN
    /\ o.pc = "commit"
    /\ members' = CASE o.kind = "join" -> members \cup {o.by}
                    [] o.kind = "leave" -> members \ {o.by}
                    [] OTHER -> members
    /\ sent' = IF o.kind = "sent" THEN sent \cup {o.id} ELSE sent
    /\ log' = Append(log, [type |-> o.kind, by |-> o.by, pos |-> o.pos])
    /\ op' = [op EXCEPT ![p] = NoOp]
    /\ late' = (late \/ o.pos < Max({proj.pos} \cup {hd[c].pos : c \in {d \in Consumers : hd[d] # None}}))
    /\ UNCHANGED <<nextId, nextPos, ops, at, hd, proj>>

Rollback(p) ==
    /\ op[p].pc # "idle"
    /\ op' = [op EXCEPT ![p] = NoOp]
    /\ UNCHANGED <<facts, nextId, nextPos, ops, feed>>

-----------------------------------------------------------------------------
\* Consumers.

Waiting(c) == {e.pos : e \in {log[i] : i \in {j \in DOMAIN log : Lane(log[j].type) = c /\ log[j].pos > at[c]}}}
NextEvent(c) == Min(Waiting(c))
HasEvent(c) == Waiting(c) # {}

\* The handler starts with the count of open memberships.
CountMembers(c) ==
    /\ hd[c] = None /\ HasEvent(c)
    /\ hd' = [hd EXCEPT ![c] = [pos |-> NextEvent(c), pc |-> "latest",
                                count |-> Cardinality(members), latest |-> 0]]
    /\ UNCHANGED <<facts, nextId, nextPos, op, ops, at, proj, late>>

ReadLatest(c) ==
    /\ hd[c] # None /\ hd[c].pc = "latest"
    /\ hd' = [hd EXCEPT ![c].pc = "upsert", ![c].latest = Max({0} \cup sent)]
    /\ UNCHANGED <<facts, nextId, nextPos, op, ops, at, proj, late>>

\* The upsert, guarded by the position of the event, and the end of the event.
UpsertProjection(c) ==
    /\ hd[c] # None /\ hd[c].pc = "upsert"
    /\ proj' = IF hd[c].pos > proj.pos
               THEN [pos |-> hd[c].pos, count |-> hd[c].count, latest |-> hd[c].latest]
               ELSE proj
    /\ at' = [at EXCEPT ![c] = hd[c].pos]
    /\ hd' = [hd EXCEPT ![c] = None]
    /\ UNCHANGED <<facts, nextId, nextPos, op, ops, late>>

\* The handler fails or loses its lease; the event is delivered again.
Retry(c) ==
    /\ hd[c] # None
    /\ hd' = [hd EXCEPT ![c] = None]
    /\ UNCHANGED <<facts, nextId, nextPos, op, ops, at, proj, late>>

Next ==
    \/ \E p \in Procs :
        \/ \E a \in Accounts, k \in {"join", "leave", "sent"} : Commence(p, k, a)
        \/ JoinMembership(p) \/ LeaveMembership(p) \/ InsertMessage(p) \/ AppendEvent(p) \/ Commit(p) \/ Rollback(p)
    \/ \E c \in Consumers : CountMembers(c) \/ ReadLatest(c) \/ UpsertProjection(c) \/ Retry(c)

-----------------------------------------------------------------------------
Current == proj.count = Cardinality(members) /\ proj.latest = Max({0} \cup sent)
Quiet == \A c \in Consumers : hd[c] = None /\ ~HasEvent(c)

\* Once both consumers have finished every event, the projection holds the
\* channel's member count and latest message, whichever consumer wrote last
\* and however old the facts were that the other one had read, unless an event
\* of one lane committed after a handler of the other lane had begun with a
\* later position.
ProjectionConverges == Quiet /\ ~late => Current

Moves(a) == SelectSeq(log, LAMBDA e : e.by = a /\ e.type # "sent")

\* The membership events of an account alternate, starting with a join, and
\* the last one says whether it is a member: concurrent joins and leaves are
\* announced exactly when they change the open row.
MovesAlternate ==
    \A a \in Accounts :
        /\ \A i \in 1..Len(Moves(a)) : (Moves(a)[i].type = "join") = (i % 2 = 1)
        /\ (a \in members) = (Len(Moves(a)) % 2 = 1)
=============================================================================
