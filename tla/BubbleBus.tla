------------------------------ MODULE BubbleBus ------------------------------
(***************************************************************************)
(* Delivery of realtime events ("Bubbles") to one account: the Redis       *)
(* stream and consumer groups of infra/redis/bubbles.py, the poll gate of  *)
(* the same file, the readers of it (Stable polls of                       *)
(* api/stable/router/cho.py, the SignalR bridge of api/signalr/base.py and *)
(* the notifications WebSocket of api/notifications.py) and one writer     *)
(* that works from the outbox (consumers/notification.py).                 *)
(*                                                                         *)
(* Redis commands are atomic; a pipeline without MULTI is a step per       *)
(* command only where another command can come between, which for XADD and *)
(* EXPIRE changes nothing a reader sees.                                   *)
(***************************************************************************)
EXTENDS Integers, Sequences, FiniteSets, SequencesExt

CONSTANTS
    SignalR, Sockets,   \* bridge connections of the two lazer transports
    Polls,              \* Stable poll handlers
    MaxEntries,         \* MAXLEN of the stream
    Ttl,                \* stream ttl_seconds
    GateTtl,            \* stable_poll_gate_seconds
    Batch,              \* stable_bubble_batch_size
    Faults,             \* the Redis calls that may fail in this instance
    MaxBubbles,         \* bound on published bubbles
    MaxLogins,          \* bound on session fences
    MaxTime,            \* bound on the clock
    None

BusAssumption == MaxEntries > 0 /\ Ttl > 0 /\ GateTtl > 0 /\ Batch > 0

Conns == SignalR \cup Sockets

\* Group names: delivery-<uuid> per connection, delivery-stable for polls.
Stable == "delivery-stable"
Groups == Conns \cup {Stable}

VARIABLES
    now,
    stream,    \* ids of the entries in the stream
    deadline,  \* when the stream key expires; 0 when it does not exist
    group,     \* last delivered id per group; -1 when the group is absent
    last,      \* ids published so far
    conn,      \* state of each connection
    got,       \* ids a connection handled, in order
    poll,      \* the poll handlers
    gate,      \* the poll-gate lease, or None
    fence,     \* current session fence of the account
    answered,  \* ids returned in poll responses, in order of the reads
    note       \* the notification consumer's attempt

vars == <<now, stream, deadline, group, last, conn, got, poll, gate, fence, answered, note>>

Idle == [pc |-> "idle", fence |-> 0, until |-> 0, read |-> <<>>]

BusVars == <<stream, deadline, group, last>>

-----------------------------------------------------------------------------
(* The stream.                                                             *)

\* redis-py trims approximately: the cap may be exceeded until Redis drops
\* whole nodes, so either all entries or the newest MaxEntries stay.
Trimmed(s) ==
    {s} \cup (IF Len(s) > MaxEntries THEN {SubSeq(s, Len(s) - MaxEntries + 1, Len(s))} ELSE {})

\* publish, publish_many for this account: XADD creates a missing stream,
\* which then has no group.
publish ==
    /\ last < MaxBubbles
    /\ last' = last + 1
    /\ stream' \in Trimmed(Append(stream, last + 1))
    /\ deadline' = now + Ttl
    /\ UNCHANGED group

\* Mutant: the group is destroyed and created again for every subscriber.
recreate(g) ==
    /\ group' = [group EXCEPT ![g] = 0]
    /\ deadline' = now + Ttl
    /\ UNCHANGED <<stream, last>>

\* subscribe: XGROUP CREATE ... 0 MKSTREAM, BUSYGROUP ignored, EXPIRE.
subscribe(g) ==
    /\ group' = [group EXCEPT ![g] = IF @ = -1 THEN 0 ELSE @]
    /\ deadline' = now + Ttl
    /\ UNCHANGED <<stream, last>>

Unread(g) == SelectSeq(stream, LAMBDA e : e > group[g])

\* XREADGROUP ">" with COUNT 1.  NOGROUP is the error of an absent group.
NoGroup(g) == group[g] = -1

ReadNext(g) == group' = [group EXCEPT ![g] = Head(Unread(g))]

-----------------------------------------------------------------------------
(* Bridges: PerfchoHub and notifications_ws.                               *)

Connect(c) ==
    /\ conn[c] = "closed" /\ got[c] = <<>>
    /\ conn' = [conn EXCEPT ![c] = "open"]
    /\ subscribe(c)
    /\ UNCHANGED <<now, got, poll, gate, fence, answered, note>>

\* receive, handle_bubble or send_text, acknowledge.  A failing handler is
\* logged; the entry is acknowledged all the same.
Forward(c) ==
    /\ conn[c] = "open" /\ ~NoGroup(c)
    /\ Unread(c) # <<>>
    /\ got' = [got EXCEPT ![c] = Append(@, Head(Unread(c)))]
    /\ ReadNext(c)
    /\ UNCHANGED <<now, stream, deadline, last, conn, poll, gate, fence, answered, note>>

\* The WebSocket handler returns with its loop and the connection closes; the
\* hub's loop is a task of its own and the connection stays.
AfterBridge(c) == IF c \in Sockets THEN "closed" ELSE "mute"

\* Any error of receive ends the loop.
BridgeFails(c) ==
    /\ conn[c] = "open"
    /\ NoGroup(c) \/ "receive" \in Faults
    /\ conn' = [conn EXCEPT ![c] = AfterBridge(c)]
    /\ UNCHANGED <<now, BusVars, got, poll, gate, fence, answered, note>>

Disconnect(c) ==
    /\ conn[c] \in {"open", "mute"}
    /\ conn' = [conn EXCEPT ![c] = "closed"]
    /\ UNCHANGED <<now, BusVars, got, poll, gate, fence, answered, note>>

-----------------------------------------------------------------------------
(* Stable polls: RedisRealtimePollGate around _poll_subscribed.            *)

\* A login opens a new fence; polls of the old one keep theirs.
Login ==
    /\ fence < MaxLogins
    /\ fence' = fence + 1
    /\ UNCHANGED <<now, BusVars, conn, got, poll, gate, answered, note>>

PollArrives(p) ==
    /\ poll[p].pc = "idle"
    /\ \E f \in 1..fence : poll' = [poll EXCEPT ![p] = [Idle EXCEPT !.pc = "acquire", !.fence = f]]
    /\ UNCHANGED <<now, BusVars, conn, got, gate, fence, answered, note>>

\* _ACQUIRE_POLL_GATE: the fence must be current and the key absent.
acquire(p) ==
    /\ poll[p].pc = "acquire"
    /\ IF poll[p].fence = fence /\ gate = None
       THEN /\ gate' = [p |-> p, until |-> now + GateTtl]
            /\ poll' = [poll EXCEPT ![p].pc = "drain", ![p].until = now + GateTtl]
            /\ subscribe(Stable)
       ELSE /\ poll' = [poll EXCEPT ![p] = Idle]
            /\ UNCHANGED <<gate, BusVars>>
    /\ UNCHANGED <<now, conn, got, fence, answered, note>>

\* One receive of drain or of the blocking wait; at most Batch bubbles.
PollReads(p) ==
    /\ poll[p].pc = "drain" /\ ~NoGroup(Stable)
    /\ Unread(Stable) # <<>> /\ Len(poll[p].read) < Batch
    /\ poll' = [poll EXCEPT ![p].read = Append(@, Head(Unread(Stable)))]
    /\ answered' = Append(answered, Head(Unread(Stable)))
    /\ ReadNext(Stable)
    /\ UNCHANGED <<now, stream, deadline, last, conn, got, gate, fence, note>>

\* Drained, timed out or failed (a failed read answers with local output).
PollAnswers(p) ==
    /\ poll[p].pc = "drain"
    /\ poll' = [poll EXCEPT ![p].pc = "release"]
    /\ UNCHANGED <<now, BusVars, conn, got, gate, fence, answered, note>>

\* _RELEASE_POLL_GATE: only the exact owner's value is deleted.
Released(p) == IF gate # None /\ gate.p = p THEN None ELSE gate

release(p) ==
    /\ poll[p].pc = "release"
    /\ gate' = Released(p)
    /\ poll' = [poll EXCEPT ![p] = Idle]
    /\ UNCHANGED <<now, BusVars, conn, got, fence, answered, note>>

-----------------------------------------------------------------------------
(* notification_realtime_handler for one notification of this account.     *)

\* get_presences: the account is online or not; the call may fail, and the
\* failure is the handler's.
NoteResolve ==
    /\ note = "pending"
    /\ \/ note' \in {"publish", "commit"}
       \/ "presences" \in Faults /\ note' = "failed"
    /\ UNCHANGED <<now, BusVars, conn, got, poll, gate, fence, answered>>

\* publish is guarded: its failure is logged.
NotePublish ==
    /\ note = "publish"
    /\ publish \/ UNCHANGED BusVars
    /\ note' = "commit"
    /\ UNCHANGED <<now, conn, got, poll, gate, fence, answered>>

\* advance_checkpoint and the worker's commit.
NoteCommit ==
    /\ note = "commit"
    /\ note' = "done"
    /\ UNCHANGED <<now, BusVars, conn, got, poll, gate, fence, answered>>

\* The worker dies before the commit: the delivery is claimed again.
NoteCrash ==
    /\ note \in {"publish", "commit"}
    /\ note' = "pending"
    /\ UNCHANGED <<now, BusVars, conn, got, poll, gate, fence, answered>>

-----------------------------------------------------------------------------

\* Other publishers: presence, chat, spectator and multiplayer handlers.
PublishOther ==
    /\ publish
    /\ UNCHANGED <<now, conn, got, poll, gate, fence, answered, note>>

\* Time passes; an expired stream takes its groups with it.
Tick ==
    /\ now < MaxTime
    /\ now' = now + 1
    /\ IF deadline # 0 /\ deadline <= now + 1
       THEN /\ stream' = <<>> /\ deadline' = 0
            /\ group' = [g \in Groups |-> -1]
       ELSE UNCHANGED <<stream, deadline, group>>
    /\ gate' = IF gate # None /\ gate.until <= now + 1 THEN None ELSE gate
    /\ UNCHANGED <<last, conn, got, poll, fence, answered, note>>

Init ==
    /\ now = 0 /\ stream = <<>> /\ deadline = 0
    /\ group = [g \in Groups |-> -1]
    /\ last = 0
    /\ conn = [c \in Conns |-> "closed"] /\ got = [c \in Conns |-> <<>>]
    /\ poll = [p \in Polls |-> Idle]
    /\ gate = None /\ fence = 1 /\ answered = <<>>
    /\ note = "pending"

Next ==
    \/ \E c \in Conns : Connect(c) \/ Forward(c) \/ BridgeFails(c) \/ Disconnect(c)
    \/ \E p \in Polls : PollArrives(p) \/ acquire(p) \/ PollReads(p) \/ PollAnswers(p) \/ release(p)
    \/ Login \/ PublishOther
    \/ NoteResolve \/ NotePublish \/ NoteCommit \/ NoteCrash
    \/ Tick

Spec == Init /\ [][Next]_vars

-----------------------------------------------------------------------------
(* Properties.                                                             *)

Increasing(s) == \A i, j \in 1..Len(s) : i < j => s[i] < s[j]

TypeOK ==
    /\ now \in 0..MaxTime
    /\ group \in [Groups -> -1..MaxBubbles]
    /\ conn \in [Conns -> {"closed", "open", "mute"}]
    /\ note \in {"pending", "publish", "commit", "done", "failed"}
    /\ deadline = 0 => stream = <<>>  \* no stream without an expiry

\* A connection handles every bubble at most once and in the order of
\* publication, over trims and over the history its group starts with.
BridgeInOrder == \A c \in Conns : Increasing(got[c])

\* A bubble is returned by at most one poll, also when leases ran out and two
\* polls of two logins read the shared group at the same time.
PolledAtMostOnce == Increasing(answered)

\* Two polls are between acquire and release at the same time only if the
\* lease of one of them has run out: a late release never frees the lease of
\* a successor.
GateExcludes ==
    \A p, q \in Polls :
        (p # q /\ poll[p].pc \in {"drain", "release"} /\ poll[q].pc \in {"drain", "release"})
        => poll[p].until <= now \/ poll[q].until <= now

\* A failed delivery never fails the notification's consumer attempt, as the
\* module's docstring promises.
DeliveryFailureNeverBlocks == note # "failed"

=============================================================================
