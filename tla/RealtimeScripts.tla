--------------------------- MODULE RealtimeScripts ---------------------------
(***************************************************************************)
(* The Lua programs of infra/redis/scripts.py, one action per program.     *)
(* Redis runs a program atomically and at one instant.                     *)
(*                                                                         *)
(* A key that does not exist has the value NoKey, or an empty map.  Every  *)
(* key carries the deadline its last PEXPIREAT wrote; Tick removes a key   *)
(* when the clock reaches its deadline.  A sorted set is a map from its    *)
(* members to their scores, and a score is an expiry.  Its key lives until *)
(* the largest score, which every program writes with one of the refresh   *)
(* functions, so members with a smaller score outlive their expiry.        *)
(*                                                                         *)
(* A fence is the pair of a session id and the revision an open returned;  *)
(* the code writes it as session_id|revision.                              *)
(***************************************************************************)
EXTENDS Integers, FiniteSets

CONSTANTS
    Accounts, Sessions, Channels,
    Owner,          \* Owner[s]: the account the durable session s belongs to
    Durable,        \* Durable[s]: when the durable session s ends
    SessionTtl, PresenceTtl,
    MaxChannels, MaxViewers, MaxFrames, MaxBytes,
    MaxRevision,    \* MAX_REVISION of modules/realtime/models.py
    MaxSequence,    \* MAX_SEQUENCE of modules/realtime/models.py: the last cursor
    SequenceSpace,  \* 65536 in the code: the stream sequence is 16 bits wide
    MaxTime,        \* bound on the clock
    NoKey

ASSUME RealtimeAssumption ==
    /\ Owner \in [Sessions -> Accounts]
    /\ Durable \in [Sessions -> Nat]
    /\ SessionTtl \in Nat \ {0} /\ PresenceTtl \in Nat \ {0}
    /\ MaxChannels \in Nat \ {0} /\ MaxViewers \in Nat \ {0}
    /\ MaxFrames \in Nat \ {0} /\ MaxBytes \in Nat \ {0}
    /\ MaxRevision \in Nat \ {0} /\ MaxSequence \in Nat \ {0} /\ MaxTime \in Nat
    /\ SequenceSpace \in Nat \ {0} /\ SequenceSpace % 2 = 0

\* A missing key is told from every stored value and from every name.
ASSUME NoKeyAssumption ==
    /\ NoKey \notin Accounts
    /\ NoKey \notin [rev : Nat, exp : Nat] /\ NoKey \notin [n : Nat, exp : Nat]
    /\ NoKey \notin [sid : Sessions, rev : Nat]
    /\ NoKey \notin [sid : Sessions, rev : Nat, exp : Nat]
    /\ NoKey \notin [sid : Sessions, rev : Nat, cursor : Nat, sequence : Nat, exp : Nat]

VARIABLES
    now,               \* the clock of Redis
    session,           \* session:<id>: revision, expiry
    epoch,             \* account:<id>:session: the current fence of an account
    revision,          \* session:<id>:revision: the counter of opens
    presence,          \* presence:<account>: owning fence, expiry
    index,             \* presence:index: account -> expiry
    preference,        \* preference:<account>: owning fence, expiry
    channels,          \* session:<id>:channels: set of channels, expiry
    members,           \* channel:<id>:members and :epochs: account -> expiry, fence
    relation,          \* spectator:viewer:<account>:host
    relationRevision,  \* spectator:viewer:<account>:revision
    viewers,           \* spectator:host:<account>:viewers: account -> expiry
    frames,            \* spectator:host:<account>:frames: set of frames, expiry
    frameState,        \* spectator:host:<account>:frame-state
    issued             \* history: the fences opens have returned

sessionKeys == <<session, epoch, revision, issued>>
presenceKeys == <<presence, index, preference>>
channelKeys == <<channels, members>>
spectatorKeys == <<relation, relationRevision, viewers>>
frameKeys == <<frames, frameState>>
redisKeys == <<now, sessionKeys, presenceKeys, channelKeys, spectatorKeys, frameKeys>>

Fence == [sid : Sessions, rev : 1 .. MaxRevision]
FenceOf(k) == [sid |-> k.sid, rev |-> k.rev]
Account(f) == Owner[f.sid]
Empty == [x \in {} |-> 0]
NoChannels == [ids |-> {}, exp |-> 0]
Smaller(a, b) == IF a <= b THEN a ELSE b
Larger(a, b) == IF a >= b THEN a ELSE b
Without(map, S) == [x \in DOMAIN map \ S |-> map[x]]
Put(map, k, v) == [x \in DOMAIN map \cup {k} |-> IF x = k THEN v ELSE map[x]]
Owned(key, f) == key # NoKey /\ FenceOf(key) = f

-----------------------------------------------------------------------------
(* The functions the programs share.                                       *)

\* A sorted set whose largest score has passed is gone.
refresh_viewers(z) == IF \E x \in DOMAIN z : z[x] > now THEN z ELSE Empty
refresh_expiring_index(z) == IF \E x \in DOMAIN z : z[x] > now THEN z ELSE Empty
refresh_channel(z) == IF \E x \in DOMAIN z : z[x].exp > now THEN z ELSE Empty

session_status(f, at) ==
    LET current == epoch[Account(f)] IN
    IF current # NoKey /\ FenceOf(current) # f THEN "FENCED"
    ELSE IF session[f.sid] = NoKey THEN "NOT_FOUND"
    ELSE IF session[f.sid].exp <= at THEN "NOT_FOUND"
    ELSE IF session[f.sid].rev # f.rev \/ current = NoKey THEN "FENCED"
    ELSE "OK"

Live(f) == session_status(f, now) = "OK"

\* The checks some programs make without session_status.
Current(f, at) ==
    /\ Owned(epoch[Account(f)], f)
    /\ session[f.sid] # NoKey
    /\ session[f.sid].exp > at

\* The frames are members of a sorted set that all have score 0: their order
\* is that of the cursors they begin with.
NoFrames == [items |-> {}, exp |-> 0]
frame_stats(z, at) == {e \in z : e.exp > at}
Latest(z, least) ==
    LET exps == {e.exp : e \in z} \cup {least}
    IN CHOOSE t \in exps : \A u \in exps : u <= t

\* The payload bytes of the frames in z, each a frame and a position in it.
Bytes(z) == Cardinality({b \in z \X (1 .. MaxBytes) : b[2] <= b[1].size})

\* frame_stats and expire_frames: drop the expired frames, then reset the
\* deadline.  frame_stats gives up on more than MaxFrames frames, of which
\* there are none (FrameWindow).
LiveFrames(h, at) ==
    LET kept == frame_stats(frames[h].items, at)
    IN IF kept = {} THEN NoFrames ELSE [items |-> kept, exp |-> Latest(kept, 0)]

-----------------------------------------------------------------------------
(* State owned by the fence f of account a.  f is NoKey when the account   *)
(* has no epoch.                                                           *)

MembersWithout(a, f) ==
    [c \in Channels |->
        IF f # NoKey /\ c \in channels[f.sid].ids
           /\ a \in DOMAIN members[c] /\ FenceOf(members[c][a]) = f
        THEN refresh_channel(Without(members[c], {a}))
        ELSE members[c]]

RelationsWithout(a, f) ==
    [s \in Accounts |->
        IF s = a \/ ( /\ f # NoKey /\ s \in DOMAIN viewers[a]
                      /\ relation[s] # NoKey /\ relation[s].hostFence = f )
        THEN NoKey ELSE relation[s]]

ViewersWithout(a, f) ==
    [h \in Accounts |->
        IF h = a THEN Empty
        ELSE IF f # NoKey /\ relation[a] # NoKey
                /\ relation[a].fence = f /\ relation[a].host = h
        THEN refresh_viewers(Without(viewers[h], {a}))
        ELSE viewers[h]]

DropFrames(a) ==
    /\ frames' = [frames EXCEPT ![a] = NoFrames]
    /\ frameState' = [frameState EXCEPT ![a] = NoKey]

\* What OPEN_SESSION and FENCE_SESSION remove for an account whose epoch is f.
DropOwned(a, f) ==
    /\ members' = MembersWithout(a, f)
    /\ relation' = RelationsWithout(a, f)
    /\ viewers' = ViewersWithout(a, f)
    /\ presence' = [presence EXCEPT ![a] = NoKey]
    /\ preference' = [preference EXCEPT ![a] = NoKey]
    /\ index' = refresh_expiring_index(Without(index, {a}))
    /\ relationRevision' = [relationRevision EXCEPT ![a] = NoKey]
    /\ DropFrames(a)

-----------------------------------------------------------------------------
(* Sessions.                                                               *)

NextRevision(s) == IF revision[s] = NoKey THEN 1 ELSE revision[s].n + 1

\* Mutant: the counter expires with the realtime session.
ExpiringCounter(s, exp) == exp

CounterDeadline(s, exp) == Durable[s]

ReplaceSession(s, old, new) ==
    [t \in Sessions |-> IF t = s THEN new
                        ELSE IF old # NoKey /\ t = old.sid THEN NoKey ELSE session[t]]

OPEN_SESSION(s, requested) ==
    LET a == Owner[s]
        old == IF epoch[a] = NoKey THEN NoKey ELSE FenceOf(epoch[a])
        exp == Smaller(requested, now + SessionTtl)
        rev == NextRevision(s)
    IN
    /\ now < requested /\ requested <= Durable[s]
    /\ rev <= MaxRevision
    /\ DropOwned(a, old)
    /\ channels' = [t \in Sessions |->
                       IF t = s \/ (old # NoKey /\ t = old.sid) THEN NoChannels ELSE channels[t]]
    /\ session' = ReplaceSession(s, old, [rev |-> rev, exp |-> exp])
    /\ epoch' = [epoch EXCEPT ![a] = [sid |-> s, rev |-> rev, exp |-> exp]]
    /\ revision' = [revision EXCEPT ![s] = [n |-> rev, exp |-> CounterDeadline(s, exp)]]
    /\ issued' = issued \cup {[sid |-> s, rev |-> rev]}
    /\ UNCHANGED now

\* Mutant: the relation is renewed, its entry in the host's viewer index is not.
RelationRenewedAlone(f, exp) ==
    LET r == relation[Account(f)] IN
    IF r # NoKey /\ r.fence = f /\ Current(r.hostFence, now)
    THEN [kept |-> [r EXCEPT !.exp = Smaller(exp, session[r.hostFence.sid].exp)],
          host |-> NoKey, until |-> 0]
    ELSE [kept |-> r, host |-> NoKey, until |-> 0]

\* What a heartbeat of f does to the relation in which f is the spectator.
RelationRenewed(f, exp) ==
    LET a == Account(f) r == relation[a] IN
    IF r = NoKey \/ r.fence # f
    THEN [kept |-> r, host |-> NoKey, until |-> 0]
    ELSE IF Current(r.hostFence, now)
    THEN LET until == Smaller(exp, session[r.hostFence.sid].exp)
         IN [kept |-> [r EXCEPT !.exp = until], host |-> r.host, until |-> until]
    ELSE [kept |-> NoKey, host |-> NoKey, until |-> 0]

\* The spectators of f that a heartbeat of f keeps.
ValidSpectators(f) ==
    {s \in DOMAIN viewers[Account(f)] :
        /\ relation[s] # NoKey
        /\ relation[s].hostFence = f
        /\ Current(relation[s].fence, now)}

HEARTBEAT_SESSION(f, requested) ==
    LET a == Account(f)
        s == f.sid
        exp == Larger(session[s].exp, Smaller(Smaller(requested, Durable[s]), now + SessionTtl))
        presenceExp == Smaller(exp, now + PresenceTtl)
        joined == {c \in channels[s].ids : a \in DOMAIN members[c] /\ FenceOf(members[c][a]) = f}
        mine == RelationRenewed(f, exp)
        kept == ValidSpectators(f)
        until(v) == Smaller(exp, session[relation[v].fence.sid].exp)
    IN
    /\ Live(f) /\ requested > now
    /\ session' = [session EXCEPT ![s].exp = exp]
    /\ epoch' = [epoch EXCEPT ![a].exp = exp]
    /\ IF Owned(presence[a], f)
       THEN /\ presence' = [presence EXCEPT ![a].exp = presenceExp]
            /\ index' = refresh_expiring_index(Put(index, a, presenceExp))
       ELSE UNCHANGED <<presence, index>>
    /\ preference' = IF Owned(preference[a], f)
                     THEN [preference EXCEPT ![a].exp = exp] ELSE preference
    /\ members' = [c \in Channels |->
                      IF c \in joined THEN Put(members[c], a, [sid |-> s, rev |-> f.rev, exp |-> exp])
                      ELSE members[c]]
    /\ channels' = [channels EXCEPT ![s] = IF joined = {} THEN NoChannels
                                           ELSE [ids |-> joined, exp |-> exp]]
    /\ relation' = [x \in Accounts |->
           IF x = a THEN mine.kept
           ELSE IF x \in kept THEN [relation[x] EXCEPT !.exp = until(x)]
           ELSE IF x \in DOMAIN viewers[a] /\ relation[x] # NoKey /\ relation[x].hostFence = f
           THEN NoKey ELSE relation[x]]
    /\ viewers' = [h \in Accounts |->
           IF h = a THEN refresh_viewers([v \in kept |-> until(v)])
           ELSE IF h = mine.host THEN refresh_viewers(Put(viewers[h], a, mine.until))
           ELSE viewers[h]]
    /\ UNCHANGED <<now, revision, issued, relationRevision, frameKeys>>

FENCE_SESSION(f) ==
    LET a == Account(f) IN
    /\ Live(f)
    /\ DropOwned(a, f)
    /\ session' = [session EXCEPT ![f.sid] = NoKey]
    /\ epoch' = [epoch EXCEPT ![a] = NoKey]
    /\ channels' = [channels EXCEPT ![f.sid] = NoChannels]
    /\ UNCHANGED <<now, revision, issued>>

-----------------------------------------------------------------------------
(* Presence and preferences.                                               *)

\* The index after the entries the capacity check prunes; capacity 0 is no check.
IndexFor(capacity) == IF capacity = 0 THEN index
                      ELSE Without(index, {a \in DOMAIN index : index[a] <= now})

Full(pruned, a, capacity) ==
    capacity > 0 /\ a \notin DOMAIN pruned /\ Cardinality(DOMAIN pruned) >= capacity

SET_PRESENCE(f, exp, capacity) ==
    LET a == Account(f) pruned == IndexFor(capacity) IN
    /\ Live(f)
    /\ now < exp /\ exp <= session[f.sid].exp /\ exp - now <= PresenceTtl
    /\ IF Full(pruned, a, capacity)
       THEN /\ index' = refresh_expiring_index(pruned)
            /\ UNCHANGED presence
       ELSE /\ index' = refresh_expiring_index(Put(pruned, a, exp))
            /\ presence' = [presence EXCEPT ![a] = [sid |-> f.sid, rev |-> f.rev, exp |-> exp]]
    /\ UNCHANGED <<now, sessionKeys, preference, channelKeys, spectatorKeys, frameKeys>>

CLEAR_PRESENCE(a, f) ==
    /\ Owned(presence[a], f)
    /\ presence' = [presence EXCEPT ![a] = NoKey]
    /\ index' = refresh_expiring_index(Without(index, {a}))
    /\ UNCHANGED <<now, sessionKeys, preference, channelKeys, spectatorKeys, frameKeys>>

\* Mutant: preferences live as long as the durable session.
SET_PREFERENCE_Durable(f) ==
    /\ Live(f)
    /\ preference' = [preference EXCEPT ![Account(f)] =
                         [sid |-> f.sid, rev |-> f.rev, exp |-> Durable[f.sid]]]
    /\ UNCHANGED <<now, sessionKeys, presence, index, channelKeys, spectatorKeys, frameKeys>>

SET_PREFERENCE(f) ==
    /\ Live(f)
    /\ preference' = [preference EXCEPT ![Account(f)] =
                         [sid |-> f.sid, rev |-> f.rev, exp |-> session[f.sid].exp]]
    /\ UNCHANGED <<now, sessionKeys, presence, index, channelKeys, spectatorKeys, frameKeys>>

-----------------------------------------------------------------------------
(* Channels.                                                               *)

ChannelRoom(f, c) ==
    c \in channels[f.sid].ids \/ Cardinality(channels[f.sid].ids) < MaxChannels

JOIN_CHANNEL(f, c) ==
    LET joined == channels[f.sid].ids exp == session[f.sid].exp IN
    /\ Live(f) /\ ChannelRoom(f, c)
    /\ members' = [members EXCEPT ![c] =
                      Put(@, Account(f), [sid |-> f.sid, rev |-> f.rev, exp |-> exp])]
    /\ channels' = [channels EXCEPT ![f.sid] = [ids |-> joined \cup {c}, exp |-> exp]]
    /\ UNCHANGED <<now, sessionKeys, presenceKeys, spectatorKeys, frameKeys>>

LEAVE_CHANNEL(f, c) ==
    LET a == Account(f) left == channels[f.sid].ids \ {c} IN
    /\ Live(f)
    /\ members' = IF a \in DOMAIN members[c] /\ FenceOf(members[c][a]) = f
                  THEN [members EXCEPT ![c] = refresh_channel(Without(@, {a}))] ELSE members
    /\ channels' = [channels EXCEPT ![f.sid] = IF left = {} THEN NoChannels ELSE [@ EXCEPT !.ids = left]]
    /\ UNCHANGED <<now, sessionKeys, presenceKeys, spectatorKeys, frameKeys>>

\* The members LIST_CHANNEL returns; the others are pruned.
ChannelMembers(c) ==
    {a \in DOMAIN members[c] : members[c][a].exp > now /\ Live(FenceOf(members[c][a]))}

LIST_CHANNEL(c) ==
    /\ members' = [members EXCEPT ![c] = refresh_channel([a \in ChannelMembers(c) |-> @[a]])]
    /\ UNCHANGED <<now, sessionKeys, presenceKeys, channels, spectatorKeys, frameKeys>>

-----------------------------------------------------------------------------
(* Spectators.                                                             *)

Present(f) == Owned(presence[Account(f)], f) /\ presence[Account(f)].exp > now

ViewerRoom(h, a) == a \in DOMAIN viewers[h] \/ Cardinality(DOMAIN viewers[h]) < MaxViewers

ATTACH_SPECTATOR(hf, f, exp, id) ==
    LET h == Account(hf)
        a == Account(f)
        previous == IF relation[a] = NoKey THEN NoKey ELSE relation[a].host
        left == [x \in Accounts |-> IF x = previous THEN refresh_viewers(Without(viewers[x], {a}))
                                    ELSE viewers[x]]
        n == IF relationRevision[a] = NoKey THEN 1 ELSE relationRevision[a].n + 1
    IN
    /\ Live(hf) /\ Live(f) /\ Present(hf)
    /\ now < exp /\ exp - now <= PresenceTtl
    /\ \A limit \in {session[hf.sid].exp, session[f.sid].exp, presence[h].exp} : exp <= limit
    /\ ViewerRoom(h, a)
    /\ n <= MaxRevision
    /\ relationRevision' = [relationRevision EXCEPT ![a] = [n |-> n, exp |-> session[f.sid].exp]]
    /\ relation' = [relation EXCEPT ![a] = [host |-> h, id |-> id, revision |-> n,
                                            hostFence |-> hf, fence |-> f, exp |-> exp]]
    /\ viewers' = [left EXCEPT ![h] = Put(@, a, exp)]
    /\ frames' = [frames EXCEPT ![h] = LiveFrames(h, now)]
    /\ UNCHANGED <<now, sessionKeys, presenceKeys, channelKeys, frameState>>

\* r is a relation the caller read earlier; it need not be the current one.
DETACH_SPECTATOR(r) ==
    LET a == Account(r.fence) IN
    /\ relation[a] # NoKey
    /\ [relation[a] EXCEPT !.exp = 0] = [r EXCEPT !.exp = 0]
    /\ relation' = [relation EXCEPT ![a] = NoKey]
    /\ viewers' = [viewers EXCEPT ![r.host] = refresh_viewers(Without(@, {a}))]
    /\ UNCHANGED <<now, sessionKeys, presenceKeys, channelKeys, relationRevision, frameKeys>>

\* The program takes the later of Redis's clock and the caller's.
ValidRelation(r, f, at) == r.exp > at /\ r.fence = f /\ Current(r.hostFence, at)

GET_SPECTATOR(f, at) ==
    LET a == Account(f) IN
    /\ session_status(f, at) = "OK"
    /\ relation[a] # NoKey /\ ~ValidRelation(relation[a], f, at)
    /\ relation' = [relation EXCEPT ![a] = NoKey]
    /\ viewers' = [viewers EXCEPT ![relation[a].host] = refresh_viewers(Without(@, {a}))]
    /\ UNCHANGED <<now, sessionKeys, presenceKeys, channelKeys, relationRevision, frameKeys>>

\* The viewers whose relation names the host's fence and has not expired.
Watching(f, at) ==
    {s \in DOMAIN viewers[Account(f)] :
        relation[s] # NoKey /\ relation[s].hostFence = f /\ relation[s].exp > at}

\* LIST_SPECTATORS and PUBLISH_FRAME drop every viewer outside valid, and its
\* relation when that still names f as the host.
PruneViewers(f, valid) ==
    LET h == Account(f)
        stale == DOMAIN viewers[h] \ valid
    IN
    /\ relation' = [s \in Accounts |->
                       IF s \in stale /\ relation[s] # NoKey /\ relation[s].hostFence = f
                       THEN NoKey ELSE relation[s]]
    /\ viewers' = [viewers EXCEPT ![h] = refresh_viewers(Without(@, stale))]
    /\ UNCHANGED relationRevision

LIST_SPECTATORS(f, at) ==
    /\ session_status(f, at) = "OK"
    /\ PruneViewers(f, {s \in Watching(f, at) : Current(relation[s].fence, at)})
    /\ UNCHANGED <<now, sessionKeys, presenceKeys, channelKeys, frameKeys>>

-----------------------------------------------------------------------------
(* Spectator frames.                                                       *)

\* The 16-bit distance from the previous sequence to the new one.
Delta(new, previous) == (new - previous + SequenceSpace) % SequenceSpace

\* The oldest frames are dropped until the new one fits.
MakeRoom(z, size) ==
    LET fits == {kept \in SUBSET z :
                    /\ \A e \in kept, d \in z \ kept : d.cursor < e.cursor
                    /\ Cardinality(kept) < MaxFrames
                    /\ Bytes(kept) + size <= MaxBytes}
    IN CHOOSE kept \in fits : \A other \in fits : other \subseteq kept

\* The spectators a published frame is sent to.
Recipients(f) == {s \in Watching(f, now) : Live(relation[s].fence)}

PUBLISH_FRAME(f, sequence, size, exp, reset) ==
    LET h == Account(f)
        clear == reset \/ (frameState[h] # NoKey /\ FenceOf(frameState[h]) # f)
        state == IF clear THEN NoKey ELSE frameState[h]
        live == frame_stats(IF clear THEN {} ELSE frames[h].items, now)
        cursor == IF state = NoKey THEN 1 ELSE state.cursor + 1
        deadline == Latest(live, exp)
    IN
    /\ Live(f) /\ Present(f)
    /\ size <= MaxBytes
    /\ now < exp /\ exp <= session[f.sid].exp /\ exp <= presence[h].exp /\ exp - now <= PresenceTtl
    /\ state # NoKey => /\ Delta(sequence, state.sequence) \in 1 .. (SequenceSpace \div 2)
                        /\ state.cursor # MaxSequence
    /\ PruneViewers(f, Recipients(f))
    /\ frames' = [frames EXCEPT ![h] =
           [items |-> MakeRoom(live, size) \cup
                      {[cursor |-> cursor, exp |-> exp, sequence |-> sequence,
                        size |-> size, fence |-> f]},
            exp |-> deadline]]
    /\ frameState' = [frameState EXCEPT ![h] =
           [sid |-> f.sid, rev |-> f.rev, cursor |-> cursor, sequence |-> sequence,
            exp |-> deadline]]
    /\ UNCHANGED <<now, sessionKeys, presenceKeys, channelKeys>>

READ_FRAMES(f, at) ==
    LET h == Account(f) IN
    /\ session_status(f, at) = "OK"
    /\ frameState[h] # NoKey => FenceOf(frameState[h]) = f
    /\ frames' = [frames EXCEPT ![h] = LiveFrames(h, at)]
    /\ UNCHANGED <<now, sessionKeys, presenceKeys, channelKeys, spectatorKeys, frameState>>

-----------------------------------------------------------------------------
(* Time.  Redis drops every key whose deadline has come.                   *)

Expire(key, t) == IF key # NoKey THEN (IF key.exp <= t THEN NoKey ELSE key) ELSE NoKey
ExpireMap(z, t) == IF \E x \in DOMAIN z : z[x] > t THEN z ELSE Empty

Tick ==
    LET t == now + 1 IN
    /\ now < MaxTime
    /\ now' = t
    /\ session' = [s \in Sessions |-> Expire(session[s], t)]
    /\ epoch' = [a \in Accounts |-> Expire(epoch[a], t)]
    /\ revision' = [s \in Sessions |-> Expire(revision[s], t)]
    /\ presence' = [a \in Accounts |-> Expire(presence[a], t)]
    /\ index' = ExpireMap(index, t)
    /\ preference' = [a \in Accounts |-> Expire(preference[a], t)]
    /\ channels' = [s \in Sessions |-> IF channels[s].exp <= t THEN NoChannels ELSE channels[s]]
    /\ members' = [c \in Channels |->
                      IF \E a \in DOMAIN members[c] : members[c][a].exp > t THEN members[c] ELSE Empty]
    /\ relation' = [a \in Accounts |-> Expire(relation[a], t)]
    /\ relationRevision' = [a \in Accounts |-> Expire(relationRevision[a], t)]
    /\ viewers' = [a \in Accounts |-> ExpireMap(viewers[a], t)]
    /\ frameState' = [a \in Accounts |-> Expire(frameState[a], t)]
    /\ frames' = [a \in Accounts |-> IF frames[a].exp <= t THEN NoFrames ELSE frames[a]]
    /\ UNCHANGED issued

RedisInit ==
    /\ now = 0
    /\ session = [s \in Sessions |-> NoKey]
    /\ epoch = [a \in Accounts |-> NoKey]
    /\ revision = [s \in Sessions |-> NoKey]
    /\ presence = [a \in Accounts |-> NoKey]
    /\ index = Empty
    /\ preference = [a \in Accounts |-> NoKey]
    /\ channels = [s \in Sessions |-> NoChannels]
    /\ members = [c \in Channels |-> Empty]
    /\ relation = [a \in Accounts |-> NoKey]
    /\ relationRevision = [a \in Accounts |-> NoKey]
    /\ viewers = [a \in Accounts |-> Empty]
    /\ frames = [a \in Accounts |-> NoFrames]
    /\ frameState = [a \in Accounts |-> NoKey]
    /\ issued = {}
=============================================================================
