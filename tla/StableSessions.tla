--------------------------- MODULE StableSessions ---------------------------
(***************************************************************************)
(* The two stores a Stable client's session lives in, and the handlers     *)
(* that keep them together: _login, _poll, _compensate_failed_login and    *)
(* _realtime_lost of api/stable/router/cho.py and _logout of               *)
(* api/stable/dispatcher/packets.py.  One account, whose clients log in    *)
(* from several places.                                                    *)
(*                                                                         *)
(* Composition: the durable session is ClientSessions' (its transactions   *)
(* are atomic steps here), the realtime session and the presence are       *)
(* RealtimeState's (one fence per login, so a fence is its session).  A    *)
(* handler is a sequence of awaited calls to the two stores; between any   *)
(* two of them other handlers run, a call may fail, time passes or the     *)
(* API process dies.                                                       *)
(***************************************************************************)
EXTENDS Integers, FiniteSets

CONSTANTS
    Clients,    \* client programs of the account
    Sessions,   \* session identifiers
    Grace,      \* client_session_stale_grace
    RtTtl,      \* redis_session_ttl_seconds
    Failing,    \* calls that may fail in this instance
    None

TimesAssumption == Grace > 0 /\ RtTtl > 0

VARIABLES
    dur,       \* durable session rows: "none", "open", "closed"
    idle,      \* time since the last touch of each session, up to Grace
    rt,        \* session whose fence is current in Redis, or None
    lease,     \* time until the realtime session expires
    presence,  \* session that owns the account's presence hash, or None
    tok,       \* token each client holds, or None
    h,         \* the handler that serves each client
    failed,    \* logins whose compensation ran without a failing call
    lost       \* sessions whose client was told to reconnect, close succeeded

vars == <<dur, idle, rt, lease, presence, tok, h, failed, lost>>

Ready == [pc |-> "ready", s |-> None]

To(c, pc) == h' = [h EXCEPT ![c].pc = pc]
End(c) == h' = [h EXCEPT ![c] = Ready]
At(c, pc) == h[c].pc = pc
Own(c) == h[c].s

Open == {s \in Sessions : dur[s] = "open"}
Durable == <<dur, idle>>
Redis == <<rt, lease, presence>>
History == <<failed, lost>>

Closed(s) == [dur EXCEPT ![s] = IF @ = "open" THEN "closed" ELSE @]

-----------------------------------------------------------------------------
(* _login                                                                  *)

\* authenticate_client_session: refused while another session is fresh, else
\* the open one is closed and a new one inserted.
LoginAuth(c) ==
    /\ At(c, "ready") /\ tok[c] = None
    /\ \A o \in Open : idle[o] >= Grace
    /\ \E s \in Sessions :
         /\ dur[s] = "none"
         /\ dur' = [o \in Sessions |-> IF o = s THEN "open" ELSE IF o \in Open THEN "closed" ELSE dur[o]]
         /\ idle' = [idle EXCEPT ![s] = 0]
         /\ h' = [h EXCEPT ![c] = [pc |-> "list", s |-> s]]
    /\ UNCHANGED <<Redis, tok, History>>

\* Presences, authorization, friends and channels are read; a full server or
\* a failing read goes to the compensation with no realtime session.
LoginList(c) ==
    /\ At(c, "list")
    /\ To(c, "open") \/ ("list" \in Failing /\ To(c, "compensate_close"))
    /\ UNCHANGED <<Durable, Redis, tok, History>>

\* open_session replaces whatever login was current, presence included.  A
\* call that fails may have been applied; the handler has no session then.
LoginOpen(c) ==
    /\ At(c, "open")
    /\ \/ /\ rt' = Own(c) /\ lease' = RtTtl /\ presence' = None
          /\ To(c, "join") \/ ("open" \in Failing /\ To(c, "compensate_close"))
       \/ "open" \in Failing /\ UNCHANGED Redis /\ To(c, "compensate_close")
    /\ UNCHANGED <<Durable, tok, History>>

\* join_channel for every automatic channel; a superseded login is fenced.
LoginJoin(c) ==
    /\ At(c, "join")
    /\ \/ rt = Own(c) /\ To(c, "presence")
       \/ (rt # Own(c) \/ "join" \in Failing) /\ To(c, "compensate_fence")
    /\ UNCHANGED <<Durable, Redis, tok, History>>

\* set_presence, which may fail for capacity, for the fence, or unanswered.
LoginPresence(c) ==
    /\ At(c, "presence")
    /\ \/ /\ rt = Own(c) /\ presence' = Own(c)
          /\ To(c, "answer") \/ ("presence" \in Failing /\ To(c, "compensate_fence"))
       \/ /\ rt # Own(c) \/ "presence" \in Failing
          /\ To(c, "compensate_fence") /\ UNCHANGED presence
    /\ UNCHANGED <<Durable, rt, lease, tok, History>>

LoginAnswer(c) ==
    /\ At(c, "answer")
    /\ \/ tok' = [tok EXCEPT ![c] = Own(c)] /\ End(c)
       \/ "answer" \in Failing /\ To(c, "compensate_fence") /\ UNCHANGED tok
    /\ UNCHANGED <<Durable, Redis, History>>

\* fence_session: only the exact fence is removed, with its presence.
fence_session(s) ==
    IF rt = s THEN rt' = None /\ lease' = 0 /\ presence' = None ELSE UNCHANGED Redis

\* Mutant: the realtime session is left to its expiry.
CompensateFenceSkipped(c) ==
    /\ At(c, "compensate_fence")
    /\ To(c, "compensate_close")
    /\ UNCHANGED <<Durable, Redis, tok, History>>

\* _compensate_failed_login: fence, then close; a failure of either is
\* swallowed.
CompensateFence(c) ==
    /\ At(c, "compensate_fence")
    /\ \/ To(c, "compensate_close") /\ fence_session(Own(c))
       \/ "fence" \in Failing /\ To(c, "compensate_half") /\ UNCHANGED Redis
    /\ UNCHANGED <<Durable, tok, History>>

CompensateClose(c) ==
    /\ At(c, "compensate_close") \/ At(c, "compensate_half")
    /\ \/ /\ dur' = Closed(Own(c))
          /\ failed' = IF At(c, "compensate_close") THEN failed \cup {Own(c)} ELSE failed
       \/ "close" \in Failing /\ UNCHANGED <<dur, failed>>
    /\ End(c)
    /\ UNCHANGED <<idle, Redis, tok, lost>>

-----------------------------------------------------------------------------
(* _poll                                                                   *)

\* Mutant: a session that is no longer open is let through.
TouchedAnyway(s) == dur[s] # "none"

\* touch_client_session resolves open sessions only.
Touched(s) == dur[s] = "open"

PollTouch(c) ==
    /\ At(c, "ready") /\ tok[c] # None
    /\ IF Touched(tok[c])
       THEN /\ h' = [h EXCEPT ![c] = [pc |-> "resolve", s |-> tok[c]]]
            /\ idle' = [idle EXCEPT ![tok[c]] = 0] /\ UNCHANGED tok
       ELSE tok' = [tok EXCEPT ![c] = None] /\ UNCHANGED <<h, idle>>
    /\ UNCHANGED <<dur, Redis, History>>

PollResolve(c) ==
    /\ At(c, "resolve")
    /\ To(c, IF rt = Own(c) THEN "heartbeat" ELSE "lost")
    /\ UNCHANGED <<Durable, Redis, tok, History>>

PollHeartbeat(c) ==
    /\ At(c, "heartbeat")
    /\ IF rt = Own(c) THEN lease' = RtTtl /\ To(c, "present") ELSE To(c, "lost") /\ UNCHANGED lease
    /\ UNCHANGED <<Durable, rt, presence, tok, History>>

\* A missing presence is written again, which can meet the capacity.
PollPresence(c) ==
    /\ At(c, "present")
    /\ \/ presence # None /\ To(c, "gate") /\ UNCHANGED presence
       \/ presence = None /\ rt = Own(c) /\ presence' = Own(c) /\ To(c, "gate")
       \/ /\ presence = None /\ (rt # Own(c) \/ "presence" \in Failing)
          /\ To(c, "lost") /\ UNCHANGED presence
    /\ UNCHANGED <<Durable, rt, lease, tok, History>>

\* The gate admits the current fence only; a refused poll is answered empty.
PollGate(c) ==
    /\ At(c, "gate")
    /\ IF rt = Own(c) THEN To(c, "dispatch") ELSE End(c)
    /\ UNCHANGED <<Durable, Redis, tok, History>>

\* Packets: a logout, a fenced operation, or anything else.
PollDispatch(c) ==
    /\ At(c, "dispatch")
    /\ \/ End(c)
       \/ To(c, "logout_close")
       \/ rt # Own(c) /\ To(c, "lost")
    /\ UNCHANGED <<Durable, Redis, tok, History>>

\* _realtime_lost: close the durable session, tell the client to reconnect.
RealtimeLost(c) ==
    /\ At(c, "lost")
    /\ \/ dur' = Closed(Own(c)) /\ lost' = lost \cup {Own(c)}
       \/ "close" \in Failing /\ UNCHANGED <<dur, lost>>
    /\ tok' = [tok EXCEPT ![c] = None]
    /\ End(c)
    /\ UNCHANGED <<idle, Redis, failed>>

\* _logout: spectating and multiplayer are cleaned up, then the durable
\* session is closed, a refusal being reported; then the fence is removed.
LogoutClose(c) ==
    /\ At(c, "logout_close")
    /\ \/ dur' = Closed(Own(c)) /\ To(c, "logout_fence")
       \/ "close" \in Failing /\ UNCHANGED dur /\ (To(c, "logout_fence") \/ End(c))
    /\ UNCHANGED <<idle, Redis, tok, History>>

LogoutFence(c) ==
    /\ At(c, "logout_fence")
    /\ fence_session(Own(c)) \/ ("fence" \in Failing /\ UNCHANGED Redis)
    /\ tok' = [tok EXCEPT ![c] = None]
    /\ End(c)
    /\ UNCHANGED <<Durable, History>>

-----------------------------------------------------------------------------

\* The API process dies: the handler ends where it is, the client gets no
\* answer and keeps what it had.
Crash(c) ==
    /\ "crash" \in Failing /\ ~At(c, "ready")
    /\ End(c)
    /\ UNCHANGED <<Durable, Redis, tok, History>>

\* Time passes for both stores; an unrenewed realtime session expires with
\* its presence.
Tick ==
    /\ idle' = [s \in Sessions |-> IF s \in Open /\ idle[s] < Grace THEN idle[s] + 1 ELSE idle[s]]
    /\ IF rt # None /\ lease = 1
       THEN rt' = None /\ lease' = 0 /\ presence' = None
       ELSE lease' = (IF lease > 0 THEN lease - 1 ELSE 0) /\ UNCHANGED <<rt, presence>>
    /\ UNCHANGED <<dur, tok, h, History>>

Init ==
    /\ dur = [s \in Sessions |-> "none"]
    /\ idle = [s \in Sessions |-> 0]
    /\ rt = None /\ lease = 0 /\ presence = None
    /\ tok = [c \in Clients |-> None]
    /\ h = [c \in Clients |-> Ready]
    /\ failed = {} /\ lost = {}

\* The steps of a started handler.
Step(c) ==
    \/ LoginList(c) \/ LoginOpen(c) \/ LoginJoin(c) \/ LoginPresence(c) \/ LoginAnswer(c)
    \/ CompensateFence(c) \/ CompensateClose(c)
    \/ PollResolve(c) \/ PollHeartbeat(c) \/ PollPresence(c) \/ PollGate(c) \/ PollDispatch(c)
    \/ RealtimeLost(c) \/ LogoutClose(c) \/ LogoutFence(c)

Next ==
    \/ \E c \in Clients : LoginAuth(c) \/ PollTouch(c) \/ Step(c) \/ Crash(c)
    \/ Tick

Spec == Init /\ [][Next]_vars

\* Handlers run to their end and the clock runs.
FairSpec == Spec /\ WF_vars(Tick) /\ \A c \in Clients : WF_vars(Step(c))

-----------------------------------------------------------------------------
(* Properties.                                                             *)

TypeOK ==
    /\ dur \in [Sessions -> {"none", "open", "closed"}]
    /\ idle \in [Sessions -> 0..Grace]
    /\ rt \in Sessions \cup {None} /\ lease \in 0..RtTtl
    /\ (rt = None) <=> (lease = 0)
    /\ presence \in {None, rt}

\* A handler ends only its own realtime session: compensation, logout and a
\* lost poll of an old login never take a newer login offline.
EndsOwnOnly ==
    \A c \in Clients :
        (~At(c, "ready") /\ h'[c] # h[c] /\ rt # None /\ rt' = None) => rt = Own(c)

\* A login that failed leaves no open durable session and no presence, at
\* whichever of its calls it failed, unless it crashed.
FailedLoginLeavesNothing ==
    \A s \in failed : dur[s] # "open" /\ presence # s

\* A client told to reconnect is not refused for its own lost session.
ReconnectNotBlocked == \A s \in lost : s \notin Open

=============================================================================
