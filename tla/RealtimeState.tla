---------------------------- MODULE RealtimeState ----------------------------
(***************************************************************************)
(* RedisRealtimeStateRepository (infra/redis/realtime.py): the operations  *)
(* API processes call on the shared realtime state.  Each is one Lua       *)
(* program of RealtimeScripts, run with a fence the caller obtained at     *)
(* some time in the past: requests of superseded sessions keep arriving.   *)
(* list_presences alone is several round trips, hence its reader state.    *)
(***************************************************************************)
EXTENDS RealtimeScripts

CONSTANTS
    Setups  \* which parts of the interface a behaviour uses

\* The sessions that log in, the channels and preference fields they use, the
\* uuid4 values of attach requests, the sizes of frames, the concurrent
\* list_presences calls; stable_presence_batch_size; how far a caller's clock
\* may run ahead of Redis's; bounds on logins, published frames and time.
ASSUME StateAssumption ==
    \A s \in Setups :
        /\ s.sessions \subseteq Sessions /\ s.channels \subseteq Channels
        /\ s.sizes \cup {s.capacity, s.skew, s.logins, s.frames} \subseteq Nat /\ s.time \in 0 .. MaxTime

VARIABLES
    setup,     \* an element of Setups, never changed
    seen,      \* history: the relations attach has returned
    published, \* history: the number of published frames
    reader     \* reader[p]: where a list_presences call stands

vars == <<setup, redisKeys, seen, published, reader>>
callers == <<seen, published, reader>>

Capacity == setup.capacity
Readers == setup.readers

Idle == [pc |-> "idle", listed |-> {}, stale |-> {}]

Init ==
    /\ setup \in Setups
    /\ RedisInit
    /\ seen = {} /\ published = 0
    /\ reader = [p \in Readers |-> Idle]

Clock == now .. (now + setup.skew)

-----------------------------------------------------------------------------

open_session ==
    /\ Cardinality(issued) < setup.logins
    /\ \E s \in setup.sessions, requested \in now + 1 .. now + SessionTtl + setup.skew :
           OPEN_SESSION(s, requested)
    /\ UNCHANGED callers

heartbeat_session ==
    /\ \E f \in issued, requested \in now + 1 .. now + SessionTtl + setup.skew :
           HEARTBEAT_SESSION(f, requested)
    /\ UNCHANGED callers

fence_session == (\E f \in issued : FENCE_SESSION(f)) /\ UNCHANGED callers

\* Polls claim a slot; a status change only rewrites the presence.
set_presence ==
    /\ \E f \in issued, exp \in now + 1 .. now + PresenceTtl, capacity \in {0, Capacity} :
           /\ capacity = 0 => Account(f) \in DOMAIN index
           /\ SET_PRESENCE(f, exp, capacity)
    /\ UNCHANGED callers

clear_presence ==
    (\E f \in issued : CLEAR_PRESENCE(Account(f), f)) /\ UNCHANGED callers

set_preference ==
    (\E f \in issued, field \in setup.preferences : SET_PREFERENCE(f)) /\ UNCHANGED callers

join_channel ==
    (\E f \in issued, c \in setup.channels : JOIN_CHANNEL(f, c)) /\ UNCHANGED callers

leave_channel ==
    (\E f \in issued, c \in setup.channels : LEAVE_CHANNEL(f, c)) /\ UNCHANGED callers

list_channel_members == (\E c \in setup.channels : LIST_CHANNEL(c)) /\ UNCHANGED callers

UnusedIds == setup.relations \ {r.id : r \in seen}

attach_spectator ==
    \E hf, f \in issued, exp \in now + 1 .. now + PresenceTtl, id \in UnusedIds :
        /\ Account(hf) # Account(f)
        /\ ATTACH_SPECTATOR(hf, f, exp, id)
        /\ seen' = seen \cup {[relation'[Account(f)] EXCEPT !.exp = 0]}
        /\ UNCHANGED <<published, reader>>

detach_spectator == (\E r \in seen : DETACH_SPECTATOR(r)) /\ UNCHANGED callers

get_spectator_relation ==
    (\E f \in issued, at \in Clock : GET_SPECTATOR(f, at)) /\ UNCHANGED callers

list_spectators ==
    (\E f \in issued, at \in Clock : LIST_SPECTATORS(f, at)) /\ UNCHANGED callers

publish_spectator_frame ==
    /\ published < setup.frames
    /\ \E f \in issued, sequence \in 0 .. SequenceSpace - 1, size \in setup.sizes,
          exp \in now + 1 .. now + PresenceTtl, reset \in BOOLEAN :
           PUBLISH_FRAME(f, sequence, size, exp, reset)
    /\ published' = published + 1
    /\ UNCHANGED <<seen, reader>>

read_spectator_frames ==
    (\E f \in issued, at \in Clock : READ_FRAMES(f, at)) /\ UNCHANGED callers

-----------------------------------------------------------------------------
(* list_presences: read the index, read the hashes, remove the accounts    *)
(* whose hash was missing.                                                 *)

MoveReader(p, r) ==
    /\ reader' = [reader EXCEPT ![p] = r]
    /\ UNCHANGED <<now, sessionKeys, presence, preference, channelKeys, spectatorKeys,
                   frameKeys, seen, published>>

ReadIndex(p) ==
    /\ reader[p].pc = "idle"
    /\ \E at \in Clock :
           LET live == Without(index, {a \in DOMAIN index : index[a] <= at}) IN
           /\ index' = live
           /\ MoveReader(p, [pc |-> IF live = Empty THEN "idle" ELSE "hashes",
                             listed |-> DOMAIN live, stale |-> {}])

ReadHashes(p) ==
    LET missing == {a \in reader[p].listed : presence[a] = NoKey} IN
    /\ reader[p].pc = "hashes"
    /\ MoveReader(p, IF missing = {} THEN Idle ELSE [pc |-> "prune", listed |-> {}, stale |-> missing])
    /\ UNCHANGED index

PruneIndex(p) ==
    /\ reader[p].pc = "prune"
    /\ index' = Without(index, reader[p].stale)
    /\ MoveReader(p, Idle)

list_presences == \E p \in Readers : ReadIndex(p) \/ ReadHashes(p) \/ PruneIndex(p)

-----------------------------------------------------------------------------

Elapse == now < setup.time /\ Tick /\ UNCHANGED callers

Next ==
    /\ \/ open_session \/ heartbeat_session \/ fence_session
       \/ set_presence \/ clear_presence \/ set_preference
       \/ join_channel \/ leave_channel \/ list_channel_members
       \/ attach_spectator \/ detach_spectator \/ get_spectator_relation
       \/ list_spectators \/ publish_spectator_frame \/ read_spectator_frames
       \/ list_presences
       \/ Elapse
    /\ UNCHANGED setup

Spec == Init /\ [][Next]_vars

-----------------------------------------------------------------------------

Keys(R) == R \cup {NoKey}
Time == 0 .. (MaxTime + SessionTtl + PresenceTtl)
Expiring == [sid : Sessions, rev : 1 .. MaxRevision, exp : Time]

\* The shape of every Redis key.
TypeOK ==
    /\ now \in 0 .. MaxTime
    /\ \A s \in Sessions : /\ session[s] \in Keys([rev : 1 .. MaxRevision, exp : Time])
                           /\ revision[s] \in Keys([n : 1 .. MaxRevision, exp : Nat])
                           /\ channels[s].ids \subseteq Channels /\ channels[s].exp \in Time
    /\ \A a \in Accounts : /\ epoch[a] \in Keys(Expiring)
                           /\ presence[a] \in Keys(Expiring)
                           /\ preference[a] \in Keys(Expiring)
                           /\ DOMAIN viewers[a] \subseteq Accounts
                           /\ frames[a].exp \in Time
    /\ \A c \in Channels : \A a \in DOMAIN members[c] : members[c][a] \in Expiring
    /\ DOMAIN index \subseteq Accounts
    /\ issued \subseteq Fence

\* open_session replaces the account's epoch and session together and every
\* heartbeat moves both deadlines: a session key exists exactly while it is
\* the epoch of its account, so resolve_session can only answer for the
\* current login and a superseded login leaves no session behind.
OneSessionPerAccount ==
    \A s \in Sessions :
        LET current == epoch[Owner[s]] IN
        IF session[s] = NoKey THEN current = NoKey \/ current.sid # s
        ELSE current = [sid |-> s, rev |-> session[s].rev, exp |-> session[s].exp]

\* get_presence, get_presence_subscription and get_away_message check no
\* fence.  That is right because what they read was written by the current
\* epoch and cannot outlive it.
UnfencedReadsCurrent ==
    \A a \in Accounts : \A key \in {presence[a], preference[a]} :
        key # NoKey => /\ Owned(epoch[a], FenceOf(key))
                       /\ key.exp <= epoch[a].exp

\* An open never returns a fence handed out before, so a delayed request of
\* an older login is refused whatever expired in between.
NoFenceReuse ==
    [][\A s \in Sessions :
          LET opened == session'[s] # NoKey /\
                        (session[s] # NoKey => session'[s].rev # session[s].rev)
          IN opened => [sid |-> s, rev |-> session'[s].rev] \notin issued]_vars

\* A live channel membership is always listed under its session, so the next
\* heartbeat renews it and logout removes it.
MembershipIndexed ==
    \A c \in Channels : \A a \in ChannelMembers(c) :
        c \in channels[members[c][a].sid].ids

\* The per-session channel limit holds for the memberships others can see.
ChannelLimit ==
    \A f \in issued :
        Cardinality({c \in Channels : Account(f) \in ChannelMembers(c)
                                      /\ FenceOf(members[c][Account(f)]) = f}) <= MaxChannels

\* Where no list_presences call prunes what it read earlier, everyone with a
\* presence is in the online index: presence and index are written together.
OnlineListed ==
    Readers = {} => \A a \in Accounts : presence[a] # NoKey => a \in DOMAIN index

\* set_presence claims slots with an upper bound: the index never lists more
\* than Capacity accounts whose entry has not expired.  A list_presences call
\* can remove the entry of somebody online; their next heartbeat puts it back
\* without counting, hence the same condition.
CapacityHeld ==
    (Readers = {} /\ Capacity > 0) => Cardinality({a \in DOMAIN index : index[a] > now}) <= Capacity

\* Every spectator whose relation and both logins are live is in the host's
\* viewer index, so publish_spectator_frame reaches them.
LiveRelationReached ==
    \A a \in Accounts :
        (relation[a] # NoKey /\ Live(relation[a].fence) /\ Live(relation[a].hostFence))
            => a \in Recipients(relation[a].hostFence)

\* attach_spectator counts the viewer index before it adds to it, heartbeats
\* and publishes rewrite the index without counting: it stays within the limit.
ViewerLimit ==
    \A h \in Accounts : Cardinality(DOMAIN viewers[h]) <= MaxViewers

\* attach_spectator returns the stored frames without comparing fences: they
\* were all published by the host's current login.
HistoryOfCurrentLogin ==
    \A h \in Accounts : \A e \in frames[h].items :
        /\ epoch[h] # NoKey => e.fence = FenceOf(epoch[h])
        /\ Owned(frameState[h], e.fence)

\* The stored window is within both bounds, a cursor names one frame, no
\* cursor is ahead of the counter it came from, and the sequence numbers of
\* consecutive frames advance by at most half the 16-bit space.
FrameWindow ==
    \A h \in Accounts :
        LET z == frames[h].items IN
        /\ Cardinality(z) <= MaxFrames /\ Bytes(z) <= MaxBytes
        /\ \A d, e \in z : d.cursor = e.cursor => d = e
        /\ \A d, e \in z : e.cursor = d.cursor + 1 =>
               Delta(e.sequence, d.sequence) \in 1 .. (SequenceSpace \div 2)
        /\ \A e \in z : e.cursor <= frameState[h].cursor

\* Nothing of a superseded login can be read, with or without a fence: neither
\* its session, nor its presence and preferences, nor the frames it published.
OnlyCurrentLogin == OneSessionPerAccount /\ UnfencedReadsCurrent /\ HistoryOfCurrentLogin

\* The indexes of memberships, presences and viewers, whose entries expire on
\* their own, list whoever is live and never exceed the limits of the scripts,
\* and the frame window keeps its bounds and its order.
IndexesSound ==
    /\ TypeOK
    /\ MembershipIndexed /\ OnlineListed /\ LiveRelationReached
    /\ ChannelLimit /\ CapacityHeld /\ ViewerLimit /\ FrameWindow
=============================================================================
