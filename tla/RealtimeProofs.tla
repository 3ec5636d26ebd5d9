--------------------------- MODULE RealtimeProofs ----------------------------
(***************************************************************************)
(* Proofs about RealtimeState, for every number of accounts, sessions and  *)
(* channels, every limit and every setup.  RealtimeInv is the inductive    *)
(* invariant; its parts follow the groups of keys the programs write.      *)
(***************************************************************************)
EXTENDS RealtimeState, TLAPS

Maps(S, T) == UNION {[D -> T] : D \in SUBSET S}
SessionKey == [rev : 1 .. MaxRevision, exp : Time]
CounterKey == [n : 1 .. MaxRevision, exp : Nat]
ChannelsKey == [ids : SUBSET Channels, exp : Time]
RelationIds == UNION {s.relations : s \in Setups}
RelationKey == [host : Accounts, id : RelationIds, revision : Nat,
                hostFence : Fence, fence : Fence, exp : Nat]
Frame == [cursor : Nat, exp : Time, sequence : Nat, size : Nat, fence : Fence]
FramesKey == [items : SUBSET Frame, exp : Time]
FrameStateKey == [sid : Sessions, rev : 1 .. MaxRevision, cursor : Nat, sequence : Nat, exp : Nat]

\* What every key holds, the maps included.
KeyTypes ==
    /\ setup \in Setups /\ now \in 0 .. MaxTime /\ issued \subseteq Fence
    /\ session \in [Sessions -> Keys(SessionKey)]
    /\ revision \in [Sessions -> Keys(CounterKey)]
    /\ epoch \in [Accounts -> Keys(Expiring)]
    /\ presence \in [Accounts -> Keys(Expiring)]
    /\ preference \in [Accounts -> Keys(Expiring)]
    /\ index \in Maps(Accounts, Nat)
    /\ channels \in [Sessions -> ChannelsKey]
    /\ members \in [Channels -> Maps(Accounts, Expiring)]
    /\ relation \in [Accounts -> Keys(RelationKey)]
    /\ relationRevision \in [Accounts -> Keys([n : Nat, exp : Nat])]
    /\ viewers \in [Accounts -> Maps(Accounts, Nat)]
    /\ frames \in [Accounts -> FramesKey]
    /\ frameState \in [Accounts -> Keys(FrameStateKey)]
    /\ seen \subseteq RelationKey

\* The logins: a session that is stored is the epoch of its account, has not
\* ended, and its fence was returned by an open.
LoginInv ==
    /\ OneSessionPerAccount
    /\ \A s \in Sessions : session[s] # NoKey => now < session[s].exp
    /\ \A a \in Accounts : epoch[a] # NoKey =>
           Owner[epoch[a].sid] = a /\ FenceOf(epoch[a]) \in issued

\* The counter of a session that can still be opened is at or above every
\* revision it has given out, and lives until the durable session ends.
CounterInv ==
    \A f \in issued : now < Durable[f.sid] =>
        /\ revision[f.sid] # NoKey
        /\ f.rev <= revision[f.sid].n
        /\ revision[f.sid].exp = Durable[f.sid]

\* The frames end no later than the counter that numbers them, and every
\* frame's publisher was the login of the host.
HistoryInv ==
    /\ HistoryOfCurrentLogin
    /\ \A h \in Accounts : frames[h].items # {} =>
           /\ frames[h].exp <= frameState[h].exp
           /\ \A e \in frames[h].items : e.exp <= frameState[h].exp
           /\ epoch[h] # NoKey /\ frameState[h].exp <= epoch[h].exp

PresenceInv ==
    /\ UnfencedReadsCurrent
    /\ \A a \in Accounts : presence[a] # NoKey => now < presence[a].exp

\* Without a concurrent list_presences an index entry ends with its presence.
IndexInv ==
    Readers = {} =>
        /\ \A a \in Accounts : presence[a] # NoKey =>
               a \in DOMAIN index /\ index[a] = presence[a].exp
        /\ Capacity > 0 => IsFiniteSet(DOMAIN index) /\ Cardinality(DOMAIN index) <= Capacity

\* The channels of a session end with it and list all its memberships.
MembersInv ==
    /\ \A s \in Sessions :
           /\ IsFiniteSet(channels[s].ids) /\ Cardinality(channels[s].ids) <= MaxChannels
           /\ channels[s].ids # {} => session[s] # NoKey /\ channels[s].exp = session[s].exp
    /\ \A c \in Channels : \A a \in DOMAIN members[c] :
           LET f == FenceOf(members[c][a]) IN
           /\ Account(f) = a /\ f \in issued
           /\ Owned(epoch[a], f) => c \in channels[f.sid].ids

\* A relation joins two current logins, ends with the first of them to end,
\* and stands in the host's viewer index with the same deadline.
RelationInv ==
    \A a \in Accounts : relation[a] # NoKey =>
        LET r == relation[a] IN
        /\ now < r.exp /\ r.host # a /\ r.host = Account(r.hostFence) /\ a = Account(r.fence)
        /\ Owned(epoch[a], r.fence) /\ r.exp <= epoch[a].exp
        /\ Owned(epoch[r.host], r.hostFence) /\ r.exp <= epoch[r.host].exp
        /\ a \in DOMAIN viewers[r.host] /\ viewers[r.host][a] = r.exp

ViewersInv ==
    \A h \in Accounts :
        IsFiniteSet(DOMAIN viewers[h]) /\ Cardinality(DOMAIN viewers[h]) <= MaxViewers

\* The newest frame carries the last sequence the counter saw.
WindowInv ==
    /\ FrameWindow
    /\ \A h \in Accounts :
           /\ IsFiniteSet(frames[h].items)
           /\ \A e \in frames[h].items : /\ e.size <= MaxBytes
                                         /\ e.cursor = frameState[h].cursor =>
                                                e.sequence = frameState[h].sequence

RealtimeInv ==
    /\ KeyTypes /\ LoginInv /\ CounterInv /\ HistoryInv /\ PresenceInv
    /\ IndexInv /\ MembersInv /\ RelationInv /\ ViewersInv /\ WindowInv

-----------------------------------------------------------------------------
(* The operators the programs are built from.                              *)

\* What the smaller of two deadlines is bounded by.
LEMMA SmallerBounds ==
    ASSUME NEW a \in Nat, NEW b \in Nat, NEW n, n < a, n < b
    PROVE  /\ Smaller(a, b) \in Nat /\ n < Smaller(a, b)
           /\ Smaller(a, b) <= a /\ Smaller(a, b) <= b
BY DEF Smaller

\* What outlives a key that is left after a tick is left too.
LEMMA Outlives ==
    ASSUME NEW k \in Nat, NEW e \in Nat, k <= e, NEW n \in Nat, ~(k <= n + 1)
    PROVE  ~(e <= n + 1)
OBVIOUS

\* The limits, and the times a key may carry.
LEMMA Limits ==
    /\ Owner \in [Sessions -> Accounts] /\ Durable \in [Sessions -> Nat]
    /\ SessionTtl \in Nat \ {0} /\ PresenceTtl \in Nat \ {0}
    /\ MaxChannels \in Nat \ {0} /\ MaxViewers \in Nat \ {0}
    /\ MaxFrames \in Nat \ {0} /\ MaxBytes \in Nat \ {0}
    /\ MaxRevision \in Nat \ {0} /\ MaxSequence \in Nat \ {0} /\ MaxTime \in Nat
BY RealtimeAssumption, Zenon

\* A time is a number.
LEMMA TimeFacts == Time \subseteq Nat /\ 0 \in Time
BY Limits DEF Time

\* A time until which a key may live, however late it is asked for.
LEMMA EarlierTime ==
    ASSUME NEW t \in Nat, NEW u \in Time, t <= u
    PROVE  t \in Time
BY Limits DEF Time

\* What the clock and the fences handed out may be.
LEMMA ClockFacts ==
    ASSUME KeyTypes
    PROVE  now \in Nat /\ now <= MaxTime /\ now \in 0 .. MaxTime /\ issued \subseteq Fence
<1>1. now \in 0 .. MaxTime /\ issued \subseteq Fence BY Zenon DEF KeyTypes
<1> QED BY <1>1, Limits

\* A deadline capped by the session's lifetime is a time, and in the future
\* when the one asked for is.
LEMMA CappedTime ==
    ASSUME NEW t \in 0 .. MaxTime, NEW requested \in Nat
    PROVE  /\ Smaller(requested, t + SessionTtl) \in Time
           /\ t < requested => t < Smaller(requested, t + SessionTtl)
BY Limits DEF Smaller, Time

\* The channels of a session without any.
LEMMA NoChannelsKey == NoChannels \in ChannelsKey
BY TimeFacts DEF NoChannels, ChannelsKey

\* What a session's counter gives out next.
LEMMA RevisionFacts ==
    ASSUME KeyTypes, NEW s \in Sessions, NextRevision(s) <= MaxRevision
    PROVE  NextRevision(s) \in 1 .. MaxRevision
<1>1. revision[s] = NoKey \/ revision[s] \in CounterKey BY Zenon DEF KeyTypes, Keys
<1>2. revision[s] \in CounterKey => revision[s].n \in 1 .. MaxRevision BY DEF CounterKey
<1> HIDE DEF KeyTypes
<1> QED BY <1>1, <1>2, Limits DEF NextRevision

\* The deadline of a stored session is a time.
LEMMA SessionDeadline ==
    ASSUME KeyTypes, NEW s \in Sessions, session[s] # NoKey
    PROVE  session[s] \in SessionKey /\ session[s].exp \in Time /\ session[s].exp \in Nat
<1>1. session[s] \in SessionKey BY Zenon DEF KeyTypes, Keys
<1>2. session[s].exp \in Time BY <1>1 DEF SessionKey
<1> QED BY <1>1, <1>2, TimeFacts, Zenon

\* What belonging to Maps(S, T) means.
LEMMA MapFacts ==
    ASSUME NEW S, NEW T, NEW z \in Maps(S, T)
    PROVE  /\ DOMAIN z \subseteq S /\ z = [x \in DOMAIN z |-> z[x]]
           /\ \A x \in DOMAIN z : z[x] \in T
BY DEF Maps

\* A function whose domain and values fit is a map.
LEMMA IsMap ==
    ASSUME NEW S, NEW T, NEW D \in SUBSET S, NEW z \in [D -> T]
    PROVE  z \in Maps(S, T)
BY DEF Maps

\* The empty map, which stands for a missing sorted set.
LEMMA EmptyMap ==
    ASSUME NEW S, NEW T
    PROVE  Empty \in Maps(S, T) /\ DOMAIN Empty = {}
<1>1. Empty \in [{} -> T] BY DEF Empty
<1> QED BY <1>1, IsMap, Zenon DEF Empty

\* ZREM removes the members of X and leaves the other scores.
LEMMA WithoutMap ==
    ASSUME NEW S, NEW T, NEW z \in Maps(S, T), NEW X
    PROVE  /\ Without(z, X) \in Maps(S, T) /\ DOMAIN Without(z, X) = DOMAIN z \ X
           /\ \A x \in DOMAIN z \ X : Without(z, X)[x] = z[x]
<1>1. Without(z, X) \in [DOMAIN z \ X -> T] BY MapFacts DEF Without
<1>2. DOMAIN z \ X \in SUBSET S BY MapFacts
<1> QED BY <1>1, <1>2, IsMap, Zenon DEF Without

\* ZADD sets one score and leaves the others.
LEMMA PutMap ==
    ASSUME NEW S, NEW T, NEW z \in Maps(S, T), NEW k \in S, NEW v \in T
    PROVE  /\ Put(z, k, v) \in Maps(S, T) /\ DOMAIN Put(z, k, v) = DOMAIN z \cup {k}
           /\ Put(z, k, v)[k] = v
           /\ \A x \in DOMAIN z \ {k} : Put(z, k, v)[x] = z[x]
<1>1. Put(z, k, v) \in [DOMAIN z \cup {k} -> T] BY MapFacts DEF Put
<1>2. DOMAIN z \cup {k} \in SUBSET S BY MapFacts
<1>3. Put(z, k, v) \in Maps(S, T) BY <1>1, <1>2, IsMap, Zenon
<1> QED BY <1>1, <1>3 DEF Put

\* refresh_viewers leaves a sorted set alone or deletes it, and keeps it while
\* some score is in the future.
LEMMA RefreshMap ==
    ASSUME NEW S, NEW T, NEW z \in Maps(S, T)
    PROVE  /\ refresh_viewers(z) \in Maps(S, T) /\ refresh_viewers(z) \in {z, Empty}
           /\ refresh_expiring_index(z) \in Maps(S, T) /\ refresh_expiring_index(z) \in {z, Empty}
           /\ refresh_channel(z) \in Maps(S, T) /\ refresh_channel(z) \in {z, Empty}
           /\ \A x \in DOMAIN z : z[x] > now =>
                  refresh_viewers(z) = z /\ refresh_expiring_index(z) = z
BY EmptyMap DEF refresh_viewers, refresh_expiring_index, refresh_channel

\* A fence names a session of one account.
LEMMA FenceFacts ==
    ASSUME NEW f \in Fence
    PROVE  /\ f.sid \in Sessions /\ f.rev \in 1 .. MaxRevision /\ Account(f) \in Accounts
           /\ f = [sid |-> f.sid, rev |-> f.rev] /\ f # NoKey /\ FenceOf(f) = f
<1>1. /\ f.sid \in Sessions /\ f.rev \in 1 .. MaxRevision /\ Account(f) \in Accounts
      /\ f = [sid |-> f.sid, rev |-> f.rev]
  BY Limits DEF Fence, Account
<1>2. f \in [sid : Sessions, rev : Nat] BY Limits DEF Fence
<1> QED BY <1>1, <1>2, NoKeyAssumption DEF FenceOf

\* A key written under a fence.
LEMMA ExpiringFacts ==
    ASSUME NEW k \in Expiring
    PROVE  /\ k.sid \in Sessions /\ k.rev \in 1 .. MaxRevision /\ k.exp \in Time /\ k.exp \in Nat
           /\ k # NoKey /\ FenceOf(k) \in Fence /\ FenceOf(k).sid = k.sid /\ FenceOf(k).rev = k.rev
           /\ k = [sid |-> k.sid, rev |-> k.rev, exp |-> k.exp]
<1>1. /\ k.sid \in Sessions /\ k.rev \in 1 .. MaxRevision /\ k.exp \in Time /\ k.exp \in Nat
      /\ k = [sid |-> k.sid, rev |-> k.rev, exp |-> k.exp]
  BY Limits DEF Expiring, Time
<1>2. k \in [sid : Sessions, rev : Nat, exp : Nat] BY <1>1, Limits
<1> QED BY <1>1, <1>2, NoKeyAssumption DEF FenceOf, Fence

\* The records the programs store are not NoKey.
LEMMA StoredIsKey ==
    /\ NoKey \notin SessionKey /\ NoKey \notin CounterKey
    /\ NoKey \notin Expiring /\ NoKey \notin FrameStateKey
<1>1. SessionKey \subseteq [rev : Nat, exp : Nat] BY Limits DEF SessionKey, Time
<1>2. CounterKey \subseteq [n : Nat, exp : Nat] BY Limits DEF CounterKey
<1>3. Expiring \subseteq [sid : Sessions, rev : Nat, exp : Nat]
  BY Limits DEF Expiring, Time
<1>4. FrameStateKey \subseteq [sid : Sessions, rev : Nat, cursor : Nat, sequence : Nat, exp : Nat]
  BY Limits DEF FrameStateKey
<1> QED BY <1>1, <1>2, <1>3, <1>4, NoKeyAssumption

\* session_status answers OK only to the fence that is its account's epoch
\* and whose session has not ended.
LEMMA StatusFacts ==
    ASSUME KeyTypes, NEW f \in Fence, NEW at, session_status(f, at) = "OK"
    PROVE  /\ Owned(epoch[Account(f)], f) /\ epoch[Account(f)] \in Expiring
           /\ session[f.sid] \in SessionKey /\ session[f.sid] # NoKey
           /\ session[f.sid].rev = f.rev /\ ~(session[f.sid].exp <= at)
<1>1. f.sid \in Sessions /\ Account(f) \in Accounts BY FenceFacts
<1>2. /\ epoch[Account(f)] # NoKey /\ FenceOf(epoch[Account(f)]) = f
      /\ session[f.sid] # NoKey /\ session[f.sid].rev = f.rev /\ ~(session[f.sid].exp <= at)
  BY DEF session_status
<1> QED BY <1>1, <1>2 DEF KeyTypes, Keys, Owned

\* The same for a fence that is live now.
LEMMA LiveFacts ==
    ASSUME KeyTypes, NEW f \in Fence, Live(f)
    PROVE  /\ Account(f) \in Accounts /\ f.sid \in Sessions /\ f.rev \in 1 .. MaxRevision
           /\ Owned(epoch[Account(f)], f) /\ epoch[Account(f)] \in Expiring
           /\ epoch[Account(f)].sid = f.sid /\ epoch[Account(f)].rev = f.rev
           /\ session[f.sid] \in SessionKey /\ session[f.sid] # NoKey
           /\ session[f.sid].rev = f.rev /\ session[f.sid].exp \in Time
           /\ session[f.sid].exp \in Nat /\ now < session[f.sid].exp
<1>1. session_status(f, now) = "OK" BY DEF Live
<1>2. /\ Owned(epoch[Account(f)], f) /\ epoch[Account(f)] \in Expiring
      /\ session[f.sid] \in SessionKey /\ session[f.sid] # NoKey
      /\ session[f.sid].rev = f.rev /\ ~(session[f.sid].exp <= now)
  BY <1>1, StatusFacts
<1>3. session[f.sid].exp \in Time /\ session[f.sid].exp \in Nat
  BY <1>2, Limits DEF SessionKey, Time
<1>4. now < session[f.sid].exp BY <1>2, <1>3, Limits DEF KeyTypes
<1>5. epoch[Account(f)].sid = f.sid /\ epoch[Account(f)].rev = f.rev
  BY <1>2, ExpiringFacts DEF Owned
<1> QED BY <1>2, <1>3, <1>4, <1>5, FenceFacts

-----------------------------------------------------------------------------
(* A step runs one program, or a round trip of list_presences, with        *)
(* arguments of the right kind.                                            *)

SessionProgram ==
    \/ \E s \in Sessions, requested \in Nat : OPEN_SESSION(s, requested)
    \/ \E f \in issued, requested \in Nat : HEARTBEAT_SESSION(f, requested)
    \/ \E f \in issued : FENCE_SESSION(f)

PresenceProgram ==
    \/ \E f \in issued, exp \in Nat, capacity \in {0, Capacity} :
           (capacity = 0 => Account(f) \in DOMAIN index) /\ SET_PRESENCE(f, exp, capacity)
    \/ \E f \in issued : CLEAR_PRESENCE(Account(f), f)
    \/ \E f \in issued : SET_PREFERENCE(f)

ChannelProgram ==
    \/ \E f \in issued, c \in Channels : JOIN_CHANNEL(f, c)
    \/ \E f \in issued, c \in Channels : LEAVE_CHANNEL(f, c)
    \/ \E c \in Channels : LIST_CHANNEL(c)

RelationProgram ==
    \/ \E r \in seen : DETACH_SPECTATOR(r)
    \/ \E f \in issued, at \in Nat : GET_SPECTATOR(f, at)
    \/ \E f \in issued, at \in Nat : LIST_SPECTATORS(f, at)

Attaching ==
    \E hf, f \in issued, exp \in Nat, id \in RelationIds :
        /\ Account(hf) # Account(f) /\ ATTACH_SPECTATOR(hf, f, exp, id)
        /\ seen' = seen \cup {[relation'[Account(f)] EXCEPT !.exp = 0]}

Publishing ==
    \E f \in issued, sequence \in Nat, size \in Nat, exp \in Nat, reset \in BOOLEAN :
        sequence < SequenceSpace /\ PUBLISH_FRAME(f, sequence, size, exp, reset)

Reading == \E f \in issued, at \in Nat : now <= at /\ READ_FRAMES(f, at)

\* A round trip of list_presences only removes entries from the index.
Listing ==
    /\ Readers # {} /\ \E X : index' = Without(index, X)
    /\ UNCHANGED <<now, sessionKeys, presence, preference, channelKeys, spectatorKeys, frameKeys>>

StepKinds ==
    \/ UNCHANGED redisKeys
    \/ SessionProgram \/ PresenceProgram \/ ChannelProgram \/ RelationProgram
    \/ Attaching \/ Publishing \/ Reading \/ Listing
    \/ Tick

\* Removing nobody from a map leaves it alone.
LEMMA WithoutNobody ==
    ASSUME NEW S, NEW T, NEW z \in Maps(S, T)
    PROVE  Without(z, {}) = z
BY MapFacts DEF Without

\* Every step is of one of these kinds; only an attach adds to what it returned.
LEMMA StepCases ==
    ASSUME KeyTypes, [Next]_vars
    PROVE  setup' = setup /\ StepKinds /\ (Attaching \/ seen' = seen)
<1>1. CASE UNCHANGED vars BY <1>1 DEF vars, StepKinds
<1>2. ASSUME Next PROVE setup' = setup BY <1>2 DEF Next
<1> SUFFICES ASSUME Next PROVE StepKinds /\ (Attaching \/ seen' = seen) BY <1>1, <1>2
<1> USE DEF callers
<1>3. /\ setup.sessions \subseteq Sessions /\ setup.channels \subseteq Channels
      /\ setup.sizes \subseteq Nat /\ setup.skew \in Nat /\ setup.relations \subseteq RelationIds
  BY StateAssumption DEF KeyTypes, RelationIds
<1>4. now \in Nat /\ Clock \subseteq Nat /\ \A at \in Clock : now <= at
  BY <1>3, Limits DEF KeyTypes, Clock
<1>5. /\ now + 1 .. now + SessionTtl + setup.skew \subseteq Nat
      /\ now + 1 .. now + PresenceTtl \subseteq Nat
      /\ \A n \in 0 .. SequenceSpace - 1 : n \in Nat /\ n < SequenceSpace
  BY <1>3, <1>4, RealtimeAssumption
<1>6. CASE open_session \/ heartbeat_session \/ fence_session
  <2>1. SessionProgram /\ seen' = seen
    BY <1>3, <1>5, <1>6 DEF open_session, heartbeat_session, fence_session, SessionProgram
  <2> QED BY <2>1 DEF StepKinds
<1>7. CASE set_presence \/ clear_presence \/ set_preference
  <2>1. PresenceProgram /\ seen' = seen
    BY <1>5, <1>7 DEF set_presence, clear_presence, set_preference, PresenceProgram
  <2> QED BY <2>1 DEF StepKinds
<1>8. CASE join_channel \/ leave_channel \/ list_channel_members
  <2>1. ChannelProgram /\ seen' = seen
    BY <1>3, <1>8 DEF join_channel, leave_channel, list_channel_members, ChannelProgram
  <2> QED BY <2>1 DEF StepKinds
<1>9. CASE detach_spectator \/ get_spectator_relation \/ list_spectators
  <2>1. RelationProgram /\ seen' = seen
    BY <1>4, <1>9 DEF detach_spectator, get_spectator_relation, list_spectators, RelationProgram
  <2> QED BY <2>1 DEF StepKinds
<1>10. CASE attach_spectator
  <2>1. UnusedIds \subseteq RelationIds BY <1>3 DEF UnusedIds
  <2>2. Attaching BY <1>5, <1>10, <2>1 DEF attach_spectator, Attaching
  <2> QED BY <2>2 DEF StepKinds
<1>11. CASE publish_spectator_frame
  <2>1. Publishing /\ seen' = seen BY <1>3, <1>5, <1>11 DEF publish_spectator_frame, Publishing
  <2> QED BY <2>1 DEF StepKinds
<1>12. CASE read_spectator_frames
  <2>1. Reading /\ seen' = seen BY <1>4, <1>12 DEF read_spectator_frames, Reading
  <2> QED BY <2>1 DEF StepKinds
<1>13. CASE list_presences
  <2>1. PICK p \in Readers : ReadIndex(p) \/ ReadHashes(p) \/ PruneIndex(p)
    BY <1>13 DEF list_presences
  <2>2. /\ Readers # {} /\ seen' = seen
        /\ UNCHANGED <<now, sessionKeys, presence, preference, channelKeys, spectatorKeys, frameKeys>>
    BY <2>1, Zenon DEF ReadIndex, ReadHashes, PruneIndex, MoveReader
  <2>3. \E X : index' = Without(index, X)
    <3>1. CASE ReadIndex(p) BY <3>1 DEF ReadIndex
    <3>2. CASE ReadHashes(p)
      <4>1. index' = Without(index, {}) BY <3>2, WithoutNobody DEF ReadHashes, KeyTypes
      <4> QED BY <4>1
    <3>3. CASE PruneIndex(p) BY <3>3 DEF PruneIndex
    <3> QED BY <2>1, <3>1, <3>2, <3>3
  <2>4. Listing BY <2>2, <2>3 DEF Listing
  <2> QED BY <2>2, <2>4 DEF StepKinds
<1>14. CASE Elapse BY <1>14 DEF Elapse, StepKinds
<1> QED BY <1>6, <1>7, <1>8, <1>9, <1>10, <1>11, <1>12, <1>13, <1>14 DEF Next

\* The keys each group of programs leaves alone.
LEMMA ProgramFrames ==
    /\ PresenceProgram => UNCHANGED <<now, session, epoch, revision, issued, channels, members,
                                      relation, relationRevision, viewers, frames, frameState>>
    /\ ChannelProgram => UNCHANGED <<now, session, epoch, revision, issued, presence, index, preference,
                                     relation, relationRevision, viewers, frames, frameState>>
    /\ RelationProgram => UNCHANGED <<now, session, epoch, revision, issued, presence, index, preference,
                                      channels, members, relationRevision, frames, frameState>>
    /\ Attaching => UNCHANGED <<now, session, epoch, revision, issued, presence, index, preference,
                                channels, members, frameState>>
    /\ Publishing => UNCHANGED <<now, session, epoch, revision, issued, presence, index, preference,
                                 channels, members, relationRevision>>
    /\ Reading => UNCHANGED <<now, session, epoch, revision, issued, presence, index, preference,
                              channels, members, relation, relationRevision, viewers, frameState>>
    /\ Listing => UNCHANGED <<now, session, epoch, revision, issued, presence, preference, channels, members,
                              relation, relationRevision, viewers, frames, frameState>>
<1> USE DEF sessionKeys, presenceKeys, channelKeys, spectatorKeys, frameKeys
<1>1. PresenceProgram => UNCHANGED <<now, session, epoch, revision, issued, channels, members,
                                     relation, relationRevision, viewers, frames, frameState>>
  BY Zenon DEF PresenceProgram, SET_PRESENCE, CLEAR_PRESENCE, SET_PREFERENCE
<1>2. ChannelProgram => UNCHANGED <<now, session, epoch, revision, issued, presence, index, preference,
                                    relation, relationRevision, viewers, frames, frameState>>
  BY Zenon DEF ChannelProgram, JOIN_CHANNEL, LEAVE_CHANNEL, LIST_CHANNEL
<1>3. RelationProgram => UNCHANGED <<now, session, epoch, revision, issued, presence, index, preference,
                                     channels, members, relationRevision, frames, frameState>>
  BY Zenon DEF RelationProgram, DETACH_SPECTATOR, GET_SPECTATOR, LIST_SPECTATORS, PruneViewers
<1>4. Attaching => UNCHANGED <<now, session, epoch, revision, issued, presence, index, preference,
                               channels, members, frameState>>
  BY DEF Attaching, ATTACH_SPECTATOR
<1>5. Publishing => UNCHANGED <<now, session, epoch, revision, issued, presence, index, preference,
                                channels, members, relationRevision>>
  <2> SUFFICES ASSUME Publishing
               PROVE  UNCHANGED <<now, session, epoch, revision, issued, presence, index, preference,
                                  channels, members, relationRevision>>
    BY Zenon
  <2>1. PICK f \in issued, sequence \in Nat, size \in Nat, exp \in Nat, reset \in BOOLEAN :
            PUBLISH_FRAME(f, sequence, size, exp, reset)
    BY Zenon DEF Publishing
  <2> QED BY <2>1, Zenon DEF PUBLISH_FRAME, PruneViewers
<1>6. Reading => UNCHANGED <<now, session, epoch, revision, issued, presence, index, preference,
                             channels, members, relation, relationRevision, viewers, frameState>>
  BY DEF Reading, READ_FRAMES
<1>7. Listing => UNCHANGED <<now, session, epoch, revision, issued, presence, preference, channels, members,
                             relation, relationRevision, viewers, frames, frameState>>
  BY DEF Listing
<1> QED BY <1>1, <1>2, <1>3, <1>4, <1>5, <1>6, <1>7

-----------------------------------------------------------------------------
(* Types of the keys the programs write; those of frames are in            *)
(* RealtimeIndexProofs.                                                    *)

\* The epoch of an account as OPEN_SESSION reads it.
OldFence(a) == IF epoch[a] = NoKey THEN NoKey ELSE FenceOf(epoch[a])

\* What the end of a login writes has its types.
LEMMA DropTypes ==
    ASSUME KeyTypes, NEW a \in Accounts, NEW f, DropOwned(a, f)
    PROVE  /\ presence' \in [Accounts -> Keys(Expiring)]
           /\ preference' \in [Accounts -> Keys(Expiring)]
           /\ index' \in Maps(Accounts, Nat)
           /\ members' \in [Channels -> Maps(Accounts, Expiring)]
           /\ relation' \in [Accounts -> Keys(RelationKey)]
           /\ relationRevision' \in [Accounts -> Keys([n : Nat, exp : Nat])]
           /\ viewers' \in [Accounts -> Maps(Accounts, Nat)]
           /\ frames' \in [Accounts -> FramesKey]
           /\ frameState' \in [Accounts -> Keys(FrameStateKey)]
<1>1. /\ presence' \in [Accounts -> Keys(Expiring)]
      /\ preference' \in [Accounts -> Keys(Expiring)]
      /\ relationRevision' \in [Accounts -> Keys([n : Nat, exp : Nat])]
      /\ frameState' \in [Accounts -> Keys(FrameStateKey)]
  BY DEF DropOwned, DropFrames, KeyTypes, Keys
<1>2. index' \in Maps(Accounts, Nat)
  BY WithoutMap, RefreshMap, Zenon DEF DropOwned, KeyTypes
<1>3. members' \in [Channels -> Maps(Accounts, Expiring)]
  BY WithoutMap, RefreshMap, Zenon DEF DropOwned, MembersWithout, KeyTypes
<1>4. relation' \in [Accounts -> Keys(RelationKey)]
  BY DEF DropOwned, RelationsWithout, KeyTypes, Keys
<1>5. viewers' \in [Accounts -> Maps(Accounts, Nat)]
  BY WithoutMap, RefreshMap, EmptyMap, Zenon DEF DropOwned, ViewersWithout, KeyTypes
<1>6. NoFrames \in FramesKey BY Limits DEF NoFrames, FramesKey, Time
<1>7. frames' \in [Accounts -> FramesKey] BY <1>6 DEF DropOwned, DropFrames, KeyTypes
<1> QED BY <1>1, <1>2, <1>3, <1>4, <1>5, <1>7

\* OPEN_SESSION preserves the types.
LEMMA OpenTypes ==
    ASSUME KeyTypes, setup' = setup, seen' = seen,
           NEW s \in Sessions, NEW requested \in Nat, OPEN_SESSION(s, requested)
    PROVE  KeyTypes'
<1> DEFINE a == Owner[s]
           exp == Smaller(requested, now + SessionTtl)
           rev == NextRevision(s)
<1>1. a \in Accounts BY Limits
<1>2. exp \in Time BY ClockFacts, CappedTime
<1>3. rev \in 1 .. MaxRevision
  <2>1. rev <= MaxRevision BY Zenon DEF OPEN_SESSION
  <2> QED BY <2>1, RevisionFacts
<1>4. DropOwned(a, OldFence(a)) BY DEF OPEN_SESSION, OldFence
<1>5. NoChannels \in ChannelsKey BY NoChannelsKey
<1>6. channels' \in [Sessions -> ChannelsKey] BY <1>5, Zenon DEF OPEN_SESSION, KeyTypes
<1>7. [rev |-> rev, exp |-> exp] \in SessionKey BY <1>2, <1>3 DEF SessionKey
<1>8. session' \in [Sessions -> Keys(SessionKey)]
  <2> HIDE DEF exp, rev
  <2>1. session' = ReplaceSession(s, OldFence(a), [rev |-> rev, exp |-> exp])
    BY DEF OPEN_SESSION, OldFence, exp, rev
  <2> QED BY <1>7, <2>1, Zenon DEF ReplaceSession, KeyTypes, Keys
<1>9. epoch' \in [Accounts -> Keys(Expiring)]
  BY <1>1, <1>2, <1>3, Zenon DEF OPEN_SESSION, KeyTypes, Keys, Expiring
<1>10. revision' \in [Sessions -> Keys(CounterKey)]
  BY <1>3, Limits, Zenon DEF OPEN_SESSION, KeyTypes, Keys, CounterKey, CounterDeadline
<1>11. issued' \subseteq Fence /\ now' = now
  <2>1. issued' = issued \cup {[sid |-> s, rev |-> rev]} /\ now' = now BY Zenon DEF OPEN_SESSION
  <2>2. [sid |-> s, rev |-> rev] \in Fence BY <1>3 DEF Fence
  <2> QED BY <2>1, <2>2, ClockFacts, Zenon
<1> QED BY <1>1, <1>4, <1>6, <1>8, <1>9, <1>10, <1>11, DropTypes, Zenon DEF KeyTypes

\* FENCE_SESSION preserves the types.
LEMMA FenceTypes ==
    ASSUME KeyTypes, setup' = setup, seen' = seen, NEW f \in issued, FENCE_SESSION(f)
    PROVE  KeyTypes'
<1>1. f \in Fence BY Zenon DEF KeyTypes
<1>2. f.sid \in Sessions /\ Account(f) \in Accounts BY <1>1, FenceFacts
<1>3. DropOwned(Account(f), f) BY DEF FENCE_SESSION
<1>4. NoChannels \in ChannelsKey BY Limits DEF NoChannels, ChannelsKey, Time
<1>5. /\ channels' \in [Sessions -> ChannelsKey] /\ session' \in [Sessions -> Keys(SessionKey)]
      /\ epoch' \in [Accounts -> Keys(Expiring)] /\ UNCHANGED <<now, revision, issued>>
  BY <1>2, <1>4 DEF FENCE_SESSION, KeyTypes, Keys
<1> QED BY <1>2, <1>3, <1>5, DropTypes, Zenon DEF KeyTypes

\* A heartbeat that moves the session's deadline to exp.
Joined(f) == {c \in channels[f.sid].ids :
                  Account(f) \in DOMAIN members[c] /\ FenceOf(members[c][Account(f)]) = f}
Until(v, exp) == Smaller(exp, session[relation[v].fence.sid].exp)

Heartbeat(f, exp) ==
    LET a == Account(f)
        presenceExp == Smaller(exp, now + PresenceTtl)
    IN
    /\ Live(f)
    /\ session' = [session EXCEPT ![f.sid].exp = exp]
    /\ epoch' = [epoch EXCEPT ![a].exp = exp]
    /\ IF Owned(presence[a], f)
       THEN /\ presence' = [presence EXCEPT ![a].exp = presenceExp]
            /\ index' = refresh_expiring_index(Put(index, a, presenceExp))
       ELSE UNCHANGED <<presence, index>>
    /\ preference' = IF Owned(preference[a], f)
                     THEN [preference EXCEPT ![a].exp = exp] ELSE preference
    /\ members' = [c \in Channels |->
                      IF c \in Joined(f)
                      THEN Put(members[c], a, [sid |-> f.sid, rev |-> f.rev, exp |-> exp])
                      ELSE members[c]]
    /\ channels' = [channels EXCEPT ![f.sid] = IF Joined(f) = {} THEN NoChannels
                                               ELSE [ids |-> Joined(f), exp |-> exp]]
    /\ relation' = [x \in Accounts |->
           IF x = a THEN RelationRenewed(f, exp).kept
           ELSE IF x \in ValidSpectators(f) THEN [relation[x] EXCEPT !.exp = Until(x, exp)]
           ELSE IF x \in DOMAIN viewers[a] /\ relation[x] # NoKey /\ relation[x].hostFence = f
           THEN NoKey ELSE relation[x]]
    /\ viewers' = [h \in Accounts |->
           IF h = a THEN refresh_viewers([v \in ValidSpectators(f) |-> Until(v, exp)])
           ELSE IF h = RelationRenewed(f, exp).host
           THEN refresh_viewers(Put(viewers[h], a, RelationRenewed(f, exp).until))
           ELSE viewers[h]]
    /\ UNCHANGED <<now, revision, issued, relationRevision, frames, frameState>>

\* A heartbeat never moves the deadline back.
LEMMA HeartbeatFacts ==
    ASSUME KeyTypes, NEW f \in issued, NEW requested \in Nat, HEARTBEAT_SESSION(f, requested)
    PROVE  \E exp \in Time : session[f.sid].exp <= exp /\ Heartbeat(f, exp)
<1> DEFINE exp == Larger(session[f.sid].exp,
                         Smaller(Smaller(requested, Durable[f.sid]), now + SessionTtl))
<1>1. f \in Fence /\ Live(f) BY DEF KeyTypes, HEARTBEAT_SESSION
<1>2. /\ f.sid \in Sessions /\ Durable[f.sid] \in Nat /\ session[f.sid].exp \in Time
      /\ session[f.sid].exp \in Nat /\ now \in Nat /\ now <= MaxTime
  BY <1>1, LiveFacts, ClockFacts, Limits
<1>3. exp \in Time /\ session[f.sid].exp <= exp
  <2> DEFINE asked == Smaller(requested, Durable[f.sid])
             capped == Smaller(asked, now + SessionTtl)
  <2>1. asked \in Nat BY <1>2 DEF Smaller
  <2> HIDE DEF asked
  <2>2. capped \in Time BY <2>1, ClockFacts, CappedTime
  <2>3. capped \in Nat BY <2>2, TimeFacts, Zenon
  <2> HIDE DEF capped
  <2>4. Larger(session[f.sid].exp, capped) \in Time
        /\ session[f.sid].exp <= Larger(session[f.sid].exp, capped)
    BY <1>2, <2>2, <2>3 DEF Larger
  <2> QED BY <2>4 DEF asked, capped
<1>4. Heartbeat(f, exp)
  BY DEF HEARTBEAT_SESSION, Heartbeat, Joined, Until, frameKeys
<1> QED BY <1>3, <1>4, Zenon

\* The sessions of the spectators a heartbeat keeps are stored and current.
LEMMA SpectatorFacts ==
    ASSUME KeyTypes, NEW f \in Fence, NEW v \in ValidSpectators(f)
    PROVE  /\ v \in Accounts /\ v \in DOMAIN viewers[Account(f)] /\ relation[v] \in RelationKey
           /\ relation[v] # NoKey /\ relation[v].hostFence = f /\ relation[v].fence \in Fence
           /\ relation[v].fence.sid \in Sessions
           /\ session[relation[v].fence.sid] \in SessionKey
           /\ session[relation[v].fence.sid].exp \in Nat /\ now < session[relation[v].fence.sid].exp
<1>1. Account(f) \in Accounts BY FenceFacts
<1>2. v \in Accounts BY <1>1, MapFacts DEF ValidSpectators, KeyTypes
<1>3. relation[v] # NoKey /\ relation[v].hostFence = f /\ Current(relation[v].fence, now)
      /\ v \in DOMAIN viewers[Account(f)]
  BY DEF ValidSpectators
<1>4. relation[v] \in RelationKey BY <1>2, <1>3 DEF KeyTypes, Keys
<1>5. relation[v].fence \in Fence BY <1>4 DEF RelationKey
<1>6. relation[v].fence.sid \in Sessions BY <1>5, FenceFacts, Zenon
<1>7. session[relation[v].fence.sid] \in SessionKey /\ session[relation[v].fence.sid].exp > now
  BY <1>3, <1>6 DEF KeyTypes, Keys, Current
<1>8. session[relation[v].fence.sid].exp \in Nat BY <1>7, Limits DEF SessionKey, Time
<1> QED BY <1>2, <1>3, <1>4, <1>5, <1>6, <1>7, <1>8, Limits DEF KeyTypes

\* What a heartbeat leaves of the spectator's own relation.
LEMMA RenewedFacts ==
    ASSUME KeyTypes, NEW f \in Fence, NEW exp \in Time
    PROVE  LET a == Account(f) m == RelationRenewed(f, exp) IN
           /\ m.kept \in Keys(RelationKey) /\ m.until \in Nat
           /\ \/ m.kept = relation[a] /\ m.host = NoKey /\ (relation[a] = NoKey \/ relation[a].fence # f)
              \/ m.kept = NoKey /\ m.host = NoKey /\ relation[a] # NoKey /\ ~Current(relation[a].hostFence, now)
              \/ /\ relation[a] \in RelationKey /\ relation[a] # NoKey /\ relation[a].fence = f
                 /\ Current(relation[a].hostFence, now) /\ m.host = relation[a].host
                 /\ m.until = Smaller(exp, session[relation[a].hostFence.sid].exp)
                 /\ m.kept = [relation[a] EXCEPT !.exp = m.until]
                 /\ session[relation[a].hostFence.sid] \in SessionKey
<1> DEFINE a == Account(f) r == relation[a] m == RelationRenewed(f, exp)
           until == Smaller(exp, session[r.hostFence.sid].exp)
<1>1. a \in Accounts /\ r \in Keys(RelationKey) BY FenceFacts DEF KeyTypes
<1>2. CASE r = NoKey \/ r.fence # f
  <2>1. m = [kept |-> r, host |-> NoKey, until |-> 0] BY <1>2 DEF RelationRenewed
  <2> HIDE DEF m, r
  <2> QED BY <1>1, <1>2, <2>1 DEF m, r
<1>3. CASE ~(r = NoKey \/ r.fence # f) /\ ~Current(r.hostFence, now)
  <2>1. m = [kept |-> NoKey, host |-> NoKey, until |-> 0] BY <1>3 DEF RelationRenewed
  <2> QED BY <1>3, <2>1 DEF Keys
<1>4. CASE ~(r = NoKey \/ r.fence # f) /\ Current(r.hostFence, now)
  <2>1. m = [kept |-> [r EXCEPT !.exp = until], host |-> r.host, until |-> until]
    BY <1>4 DEF RelationRenewed
  <2>2. r \in RelationKey BY <1>1, <1>4 DEF Keys
  <2>3. r.hostFence \in Fence BY <2>2 DEF RelationKey
  <2>4. session[r.hostFence.sid] \in SessionKey
    BY <1>4, <2>3, FenceFacts, Zenon DEF Current, KeyTypes, Keys
  <2>5. until \in Nat BY <2>4, Limits DEF SessionKey, Time, Smaller
  <2>6. [r EXCEPT !.exp = until] \in RelationKey
    <3> HIDE DEF until, r
    <3> QED BY <2>2, <2>5 DEF RelationKey
  <2>7. m.kept = [r EXCEPT !.exp = until] /\ m.host = r.host /\ m.until = until
    <3> HIDE DEF until, r, m
    <3> QED BY <2>1
  <2> HIDE DEF until, m
  <2> QED BY <1>4, <2>2, <2>4, <2>5, <2>6, <2>7 DEF Keys, until, m
<1> QED BY <1>2, <1>3, <1>4

\* HEARTBEAT_SESSION preserves the types.
LEMMA HeartbeatTypes ==
    ASSUME KeyTypes, setup' = setup, seen' = seen, NEW f \in issued, NEW exp \in Time, Heartbeat(f, exp)
    PROVE  KeyTypes'
<1> DEFINE a == Account(f) presenceExp == Smaller(exp, now + PresenceTtl)
<1>1. f \in Fence /\ Live(f) BY DEF KeyTypes, Heartbeat
<1>2. /\ a \in Accounts /\ f.sid \in Sessions /\ f.rev \in 1 .. MaxRevision
      /\ session[f.sid] \in SessionKey /\ epoch[a] \in Expiring
  BY <1>1, LiveFacts
<1>3. presenceExp \in Time /\ presenceExp \in Nat /\ exp \in Nat
  BY Limits DEF Smaller, Time, KeyTypes
<1>4. session' \in [Sessions -> Keys(SessionKey)]
  <2>1. [session[f.sid] EXCEPT !.exp = exp] \in SessionKey BY <1>2 DEF SessionKey
  <2> QED BY <1>2, <2>1 DEF Heartbeat, KeyTypes, Keys
<1>5. epoch' \in [Accounts -> Keys(Expiring)]
  <2>1. [epoch[a] EXCEPT !.exp = exp] \in Expiring BY <1>2 DEF Expiring
  <2> QED BY <1>2, <2>1 DEF Heartbeat, KeyTypes, Keys
<1>6. presence' \in [Accounts -> Keys(Expiring)] /\ index' \in Maps(Accounts, Nat)
  <2>1. CASE ~Owned(presence[a], f) BY <2>1 DEF Heartbeat, KeyTypes
  <2>2. CASE Owned(presence[a], f)
    <3>1. presence[a] \in Expiring BY <1>2, <2>2, Zenon DEF Owned, KeyTypes, Keys
    <3>2. [presence[a] EXCEPT !.exp = presenceExp] \in Expiring
      <4> HIDE DEF presenceExp
      <4> QED BY <1>3, <3>1 DEF Expiring
    <3>3. presence' = [presence EXCEPT ![a] = [presence[a] EXCEPT !.exp = presenceExp]]
      BY <2>2 DEF Heartbeat
    <3>4. presence' \in [Accounts -> Keys(Expiring)]
      <4> HIDE DEF presenceExp
      <4> QED BY <1>2, <3>2, <3>3 DEF KeyTypes, Keys
    <3>5. index' = refresh_expiring_index(Put(index, a, presenceExp)) BY <2>2 DEF Heartbeat
    <3> HIDE DEF presenceExp
    <3>6. Put(index, a, presenceExp) \in Maps(Accounts, Nat) BY <1>2, <1>3, PutMap, Zenon DEF KeyTypes
    <3> QED BY <3>4, <3>5, <3>6, RefreshMap
  <2> QED BY <2>1, <2>2
<1>7. preference' \in [Accounts -> Keys(Expiring)]
  <2>1. CASE ~Owned(preference[a], f) BY <2>1 DEF Heartbeat, KeyTypes
  <2>2. CASE Owned(preference[a], f)
    <3>1. preference[a] \in Expiring BY <1>2, <2>2, Zenon DEF Owned, KeyTypes, Keys
    <3>2. [preference[a] EXCEPT !.exp = exp] \in Expiring BY <3>1 DEF Expiring
    <3> QED BY <1>2, <2>2, <3>2 DEF Heartbeat, KeyTypes, Keys
  <2> QED BY <2>1, <2>2
<1>8. members' \in [Channels -> Maps(Accounts, Expiring)]
  <2>1. [sid |-> f.sid, rev |-> f.rev, exp |-> exp] \in Expiring BY <1>2 DEF Expiring
  <2>2. \A c \in Channels : members[c] \in Maps(Accounts, Expiring) BY DEF KeyTypes
  <2>3. \A c \in Channels : Put(members[c], a, [sid |-> f.sid, rev |-> f.rev, exp |-> exp])
                                \in Maps(Accounts, Expiring)
    <3> HIDE DEF a
    <3>1. PICK v : v = [sid |-> f.sid, rev |-> f.rev, exp |-> exp] BY Zenon
    <3>2. v \in Expiring /\ a \in Accounts BY <1>2, <2>1, <3>1, Zenon
    <3>3. \A c \in Channels : Put(members[c], a, v) \in Maps(Accounts, Expiring)
      BY <2>2, <3>2, PutMap, Zenon
    <3> QED BY <3>1, <3>3, Zenon
  <2> QED BY <2>2, <2>3, Zenon DEF Heartbeat
<1>9. channels' \in [Sessions -> ChannelsKey]
  <2>1. NoChannels \in ChannelsKey BY Limits DEF NoChannels, ChannelsKey, Time
  <2>2. [ids |-> Joined(f), exp |-> exp] \in ChannelsKey
    BY <1>2, Zenon DEF Joined, ChannelsKey, KeyTypes
  <2> QED BY <2>1, <2>2, Zenon DEF Heartbeat, KeyTypes
<1>10. \A v \in ValidSpectators(f) :
           /\ v \in Accounts /\ Until(v, exp) \in Nat
           /\ [relation[v] EXCEPT !.exp = Until(v, exp)] \in RelationKey
  <2> SUFFICES ASSUME NEW v \in ValidSpectators(f)
               PROVE  /\ v \in Accounts /\ Until(v, exp) \in Nat
                      /\ [relation[v] EXCEPT !.exp = Until(v, exp)] \in RelationKey
    OBVIOUS
  <2>1. v \in Accounts /\ relation[v] \in RelationKey /\ session[relation[v].fence.sid].exp \in Nat
    BY <1>1, SpectatorFacts
  <2>2. Until(v, exp) \in Nat BY <1>3, <2>1 DEF Until, Smaller
  <2> QED BY <2>1, <2>2 DEF RelationKey
<1>11. RelationRenewed(f, exp).kept \in Keys(RelationKey) /\ RelationRenewed(f, exp).until \in Nat
  BY <1>1, RenewedFacts, Zenon
<1>12. relation' \in [Accounts -> Keys(RelationKey)]
  <2>1. relation \in [Accounts -> Keys(RelationKey)] BY Zenon DEF KeyTypes
  <2> QED BY <1>10, <1>11, <2>1 DEF Heartbeat, Keys
<1>13. viewers' \in [Accounts -> Maps(Accounts, Nat)]
  <2>1. [v \in ValidSpectators(f) |-> Until(v, exp)] \in Maps(Accounts, Nat)
    <3>1. [v \in ValidSpectators(f) |-> Until(v, exp)] \in [ValidSpectators(f) -> Nat] BY <1>10, Zenon
    <3>2. ValidSpectators(f) \in SUBSET Accounts BY <1>10, Zenon
    <3> QED BY <3>1, <3>2, IsMap, Zenon
  <2>2. \A h \in Accounts : Put(viewers[h], a, RelationRenewed(f, exp).until) \in Maps(Accounts, Nat)
    <3>1. \A h \in Accounts : viewers[h] \in Maps(Accounts, Nat) BY DEF KeyTypes
    <3> HIDE DEF a
    <3> QED BY <1>2, <1>11, <3>1, PutMap, Zenon
  <2> QED BY <2>1, <2>2, RefreshMap DEF Heartbeat, KeyTypes
<1>14. UNCHANGED <<now, revision, issued, relationRevision, frames, frameState>> BY DEF Heartbeat
<1> QED BY <1>4, <1>5, <1>6, <1>7, <1>8, <1>9, <1>12, <1>13, <1>14, Zenon DEF KeyTypes

\* The programs on presences and preferences preserve the types.
LEMMA PresenceTypes ==
    ASSUME KeyTypes, setup' = setup, seen' = seen, PresenceProgram
    PROVE  KeyTypes'
<1>1. UNCHANGED <<now, session, epoch, revision, issued, channels, members,
                  relation, relationRevision, viewers, frames, frameState>>
  BY ProgramFrames
<1>2. ASSUME NEW f \in issued, NEW exp \in Nat, NEW capacity, SET_PRESENCE(f, exp, capacity)
      PROVE  presence' \in [Accounts -> Keys(Expiring)] /\ index' \in Maps(Accounts, Nat)
             /\ preference' = preference
  <2>1. f \in Fence /\ Live(f) BY <1>2, Zenon DEF KeyTypes, SET_PRESENCE
  <2>2. Account(f) \in Accounts /\ f.sid \in Sessions /\ f.rev \in 1 .. MaxRevision
        /\ session[f.sid].exp \in Time /\ exp <= session[f.sid].exp
    BY <1>2, <2>1, LiveFacts DEF SET_PRESENCE
  <2>3. exp \in Time BY <2>2, Limits DEF Time
  <2>4. [sid |-> f.sid, rev |-> f.rev, exp |-> exp] \in Expiring BY <2>2, <2>3, Zenon DEF Expiring
  <2>5. presence' \in [Accounts -> Keys(Expiring)]
    BY <1>2, <2>2, <2>4, Zenon DEF SET_PRESENCE, KeyTypes, Keys
  <2>6. IndexFor(capacity) \in Maps(Accounts, Nat) BY WithoutMap, Zenon DEF IndexFor, KeyTypes
  <2>7. Put(IndexFor(capacity), Account(f), exp) \in Maps(Accounts, Nat) BY <2>2, <2>6, PutMap, Zenon
  <2>8. \/ index' = refresh_expiring_index(IndexFor(capacity))
        \/ index' = refresh_expiring_index(Put(IndexFor(capacity), Account(f), exp))
    BY <1>2, Zenon DEF SET_PRESENCE
  <2>9. index' \in Maps(Accounts, Nat)
    <3>1. refresh_expiring_index(IndexFor(capacity)) \in Maps(Accounts, Nat)
      BY <2>6, RefreshMap, Zenon
    <3>2. refresh_expiring_index(Put(IndexFor(capacity), Account(f), exp)) \in Maps(Accounts, Nat)
      BY <2>7, RefreshMap, Zenon
    <3> QED BY <2>8, <3>1, <3>2, Zenon
  <2> QED BY <1>2, <2>5, <2>9, Zenon DEF SET_PRESENCE
<1>3. ASSUME NEW f \in issued, CLEAR_PRESENCE(Account(f), f)
      PROVE  presence' \in [Accounts -> Keys(Expiring)] /\ index' \in Maps(Accounts, Nat)
             /\ preference' = preference
  BY <1>3, WithoutMap, RefreshMap, Zenon DEF CLEAR_PRESENCE, KeyTypes, Keys
<1>4. ASSUME NEW f \in issued, SET_PREFERENCE(f)
      PROVE  preference' \in [Accounts -> Keys(Expiring)] /\ UNCHANGED <<presence, index>>
  <2>1. f \in Fence /\ Live(f) BY <1>4 DEF KeyTypes, SET_PREFERENCE
  <2>2. Account(f) \in Accounts /\ f.sid \in Sessions /\ f.rev \in 1 .. MaxRevision
        /\ session[f.sid].exp \in Time
    BY <2>1, LiveFacts
  <2>3. [sid |-> f.sid, rev |-> f.rev, exp |-> session[f.sid].exp] \in Expiring BY <2>2 DEF Expiring
  <2> QED BY <1>4, <2>2, <2>3, Zenon DEF SET_PREFERENCE, KeyTypes, Keys
<1> QED BY <1>1, <1>2, <1>3, <1>4, Zenon DEF PresenceProgram, KeyTypes

\* The programs on channels preserve the types.
LEMMA ChannelTypes ==
    ASSUME KeyTypes, setup' = setup, seen' = seen, ChannelProgram
    PROVE  KeyTypes'
<1>1. UNCHANGED <<now, session, epoch, revision, issued, presence, index, preference,
                  relation, relationRevision, viewers, frames, frameState>>
  BY ProgramFrames
<1>2. NoChannels \in ChannelsKey BY NoChannelsKey
<1>3. ASSUME NEW f \in issued, NEW c \in Channels, JOIN_CHANNEL(f, c)
      PROVE  members' \in [Channels -> Maps(Accounts, Expiring)] /\ channels' \in [Sessions -> ChannelsKey]
  <2>1. f \in Fence /\ Live(f) BY <1>3, Zenon DEF KeyTypes, JOIN_CHANNEL
  <2>2. Account(f) \in Accounts /\ f.sid \in Sessions /\ f.rev \in 1 .. MaxRevision
        /\ session[f.sid].exp \in Time
    BY <2>1, LiveFacts
  <2>3. [sid |-> f.sid, rev |-> f.rev, exp |-> session[f.sid].exp] \in Expiring BY <2>2 DEF Expiring
  <2>4. Put(members[c], Account(f), [sid |-> f.sid, rev |-> f.rev, exp |-> session[f.sid].exp])
            \in Maps(Accounts, Expiring)
    <3> DEFINE entry == [sid |-> f.sid, rev |-> f.rev, exp |-> session[f.sid].exp]
    <3>1. members[c] \in Maps(Accounts, Expiring) BY DEF KeyTypes
    <3>2. entry \in Expiring BY <2>3, Zenon
    <3> HIDE DEF entry
    <3>3. Put(members[c], Account(f), entry) \in Maps(Accounts, Expiring) BY <2>2, <3>1, <3>2, PutMap, Zenon
    <3> QED BY <3>3 DEF entry
  <2>5. channels[f.sid].ids \subseteq Channels BY <2>2 DEF KeyTypes, ChannelsKey
  <2>6. [ids |-> channels[f.sid].ids \cup {c}, exp |-> session[f.sid].exp] \in ChannelsKey
    BY <2>2, <2>5 DEF ChannelsKey
  <2> QED BY <1>3, <2>4, <2>6, Zenon DEF JOIN_CHANNEL, KeyTypes
<1>4. ASSUME NEW f \in issued, NEW c \in Channels, LEAVE_CHANNEL(f, c)
      PROVE  members' \in [Channels -> Maps(Accounts, Expiring)] /\ channels' \in [Sessions -> ChannelsKey]
  <2>1. f.sid \in Sessions BY FenceFacts DEF KeyTypes
  <2>2. [channels[f.sid] EXCEPT !.ids = channels[f.sid].ids \ {c}] \in ChannelsKey
    BY <2>1 DEF KeyTypes, ChannelsKey
  <2>3. channels' \in [Sessions -> ChannelsKey] BY <1>2, <1>4, <2>2, Zenon DEF LEAVE_CHANNEL, KeyTypes
  <2> QED BY <1>4, <2>3, WithoutMap, RefreshMap, Zenon DEF LEAVE_CHANNEL, KeyTypes
<1>5. ASSUME NEW c \in Channels, LIST_CHANNEL(c)
      PROVE  members' \in [Channels -> Maps(Accounts, Expiring)] /\ channels' = channels
  <2>1. members[c] \in Maps(Accounts, Expiring) /\ ChannelMembers(c) \subseteq DOMAIN members[c]
    BY DEF KeyTypes, ChannelMembers
  <2>2. [a \in ChannelMembers(c) |-> members[c][a]] \in [ChannelMembers(c) -> Expiring]
    BY <2>1, MapFacts
  <2>3. ChannelMembers(c) \in SUBSET Accounts BY <2>1, MapFacts
  <2>4. [a \in ChannelMembers(c) |-> members[c][a]] \in Maps(Accounts, Expiring)
    BY <2>2, <2>3, IsMap, Zenon
  <2>5. refresh_channel([a \in ChannelMembers(c) |-> members[c][a]]) \in Maps(Accounts, Expiring)
    BY <2>4, RefreshMap
  <2> QED BY <1>5, <2>5, Zenon DEF LIST_CHANNEL, KeyTypes
<1> QED BY <1>1, <1>3, <1>4, <1>5, Zenon DEF ChannelProgram, KeyTypes

\* Pruning a viewer index preserves its types.
LEMMA PruneTypes ==
    ASSUME KeyTypes, NEW f \in Fence, NEW valid, PruneViewers(f, valid)
    PROVE  /\ relation' \in [Accounts -> Keys(RelationKey)]
           /\ viewers' \in [Accounts -> Maps(Accounts, Nat)] /\ relationRevision' = relationRevision
<1>1. relation' \in [Accounts -> Keys(RelationKey)] BY DEF PruneViewers, KeyTypes, Keys
<1>2. Account(f) \in Accounts BY FenceFacts
<1>3. viewers' \in [Accounts -> Maps(Accounts, Nat)]
  BY <1>2, WithoutMap, RefreshMap, Zenon DEF PruneViewers, KeyTypes
<1> QED BY <1>1, <1>3 DEF PruneViewers

\* The programs that end relations preserve the types.
LEMMA RelationTypes ==
    ASSUME KeyTypes, setup' = setup, seen' = seen, RelationProgram
    PROVE  KeyTypes'
<1>1. UNCHANGED <<now, session, epoch, revision, issued, presence, index, preference,
                  channels, members, relationRevision, frames, frameState>>
  BY ProgramFrames
<1>2. ASSUME NEW r \in seen, DETACH_SPECTATOR(r)
      PROVE  relation' \in [Accounts -> Keys(RelationKey)] /\ viewers' \in [Accounts -> Maps(Accounts, Nat)]
  <2>1. r.host \in Accounts BY Zenon DEF KeyTypes, RelationKey
  <2> QED BY <1>2, <2>1, WithoutMap, RefreshMap, Zenon DEF DETACH_SPECTATOR, KeyTypes, Keys
<1>3. ASSUME NEW f \in issued, NEW at, GET_SPECTATOR(f, at)
      PROVE  relation' \in [Accounts -> Keys(RelationKey)] /\ viewers' \in [Accounts -> Maps(Accounts, Nat)]
  <2>1. Account(f) \in Accounts BY FenceFacts DEF KeyTypes
  <2>2. relation[Account(f)].host \in Accounts
    BY <1>3, <2>1, Zenon DEF GET_SPECTATOR, KeyTypes, Keys, RelationKey
  <2> QED BY <1>3, <2>2, WithoutMap, RefreshMap, Zenon DEF GET_SPECTATOR, KeyTypes, Keys
<1>4. ASSUME NEW f \in issued, NEW at, LIST_SPECTATORS(f, at)
      PROVE  relation' \in [Accounts -> Keys(RelationKey)] /\ viewers' \in [Accounts -> Maps(Accounts, Nat)]
  <2>1. f \in Fence BY Zenon DEF KeyTypes
  <2> QED BY <1>4, <2>1, PruneTypes DEF LIST_SPECTATORS
<1> QED BY <1>1, <1>2, <1>3, <1>4, Zenon DEF RelationProgram, KeyTypes

\* Redis's expiry keeps the shape of every key.
LEMMA ExpireFacts ==
    ASSUME NEW R, NEW k \in Keys(R), NEW t
    PROVE  /\ Expire(k, t) \in Keys(R) /\ Expire(k, t) \in {k, NoKey}
           /\ Expire(k, t) # NoKey => Expire(k, t) = k /\ ~(k.exp <= t)
           /\ k # NoKey /\ ~(k.exp <= t) => Expire(k, t) = k
BY DEF Expire, Keys

\* The passing of time preserves the types.
LEMMA TickTypes ==
    ASSUME KeyTypes, setup' = setup, seen' = seen, Tick
    PROVE  KeyTypes'
<1>1. now' \in 0 .. MaxTime /\ issued' = issued
  <2>1. now < MaxTime /\ now' = now + 1 /\ issued' = issued BY Zenon DEF Tick
  <2> QED BY <2>1, ClockFacts, Limits
<1>2. /\ session' \in [Sessions -> Keys(SessionKey)] /\ revision' \in [Sessions -> Keys(CounterKey)]
      /\ epoch' \in [Accounts -> Keys(Expiring)] /\ presence' \in [Accounts -> Keys(Expiring)]
      /\ preference' \in [Accounts -> Keys(Expiring)]
  BY ExpireFacts, Zenon DEF Tick, KeyTypes
<1>3. /\ relation' \in [Accounts -> Keys(RelationKey)]
      /\ relationRevision' \in [Accounts -> Keys([n : Nat, exp : Nat])]
      /\ frameState' \in [Accounts -> Keys(FrameStateKey)]
  BY ExpireFacts, Zenon DEF Tick, KeyTypes
<1>4. index' \in Maps(Accounts, Nat) /\ viewers' \in [Accounts -> Maps(Accounts, Nat)]
      /\ members' \in [Channels -> Maps(Accounts, Expiring)]
  BY EmptyMap, Zenon DEF Tick, KeyTypes, ExpireMap
<1>5. NoChannels \in ChannelsKey /\ NoFrames \in FramesKey
  BY Limits DEF NoChannels, ChannelsKey, NoFrames, FramesKey, Time
<1>6. channels' \in [Sessions -> ChannelsKey] /\ frames' \in [Accounts -> FramesKey]
  BY <1>5, Zenon DEF Tick, KeyTypes
<1> QED BY <1>1, <1>2, <1>3, <1>4, <1>6, Zenon DEF KeyTypes

-----------------------------------------------------------------------------
(* Logins.                                                                 *)

\* The programs that write session, epoch, revision and issued.
LEMMA LoginSteps ==
    ASSUME StepKinds
    PROVE  SessionProgram \/ Tick \/ UNCHANGED <<now, session, epoch, revision, issued>>
BY ProgramFrames DEF StepKinds, redisKeys, sessionKeys

\* The session of a current epoch is stored with the same revision and deadline.
LEMMA CurrentLogin ==
    ASSUME KeyTypes, LoginInv, NEW a \in Accounts, epoch[a] # NoKey
    PROVE  /\ epoch[a] \in Expiring /\ epoch[a].sid \in Sessions /\ Owner[epoch[a].sid] = a
           /\ epoch[a].exp \in Nat /\ now < epoch[a].exp
           /\ session[epoch[a].sid] \in SessionKey /\ session[epoch[a].sid] # NoKey
           /\ session[epoch[a].sid].rev = epoch[a].rev /\ session[epoch[a].sid].exp = epoch[a].exp
           /\ FenceOf(epoch[a]) \in issued
<1>1. epoch[a] \in Expiring BY Zenon DEF KeyTypes, Keys
<1>2. epoch[a].sid \in Sessions /\ epoch[a].exp \in Nat BY <1>1, ExpiringFacts
<1>3. Owner[epoch[a].sid] = a /\ FenceOf(epoch[a]) \in issued BY Zenon DEF LoginInv
<1>4. session[epoch[a].sid] # NoKey BY <1>2, <1>3, Zenon DEF LoginInv, OneSessionPerAccount
<1>5. session[epoch[a].sid] \in SessionKey /\ now < session[epoch[a].sid].exp
  BY <1>2, <1>4, Zenon DEF KeyTypes, Keys, LoginInv
<1>6. epoch[a] = [sid |-> epoch[a].sid, rev |-> session[epoch[a].sid].rev, exp |-> session[epoch[a].sid].exp]
  BY <1>2, <1>3, <1>4, Zenon DEF LoginInv, OneSessionPerAccount
<1> DEFINE k == session[epoch[a].sid]
<1>7. epoch[a].rev = k.rev /\ epoch[a].exp = k.exp
  <2> HIDE DEF k
  <2>1. epoch[a] = [sid |-> epoch[a].sid, rev |-> k.rev, exp |-> k.exp] BY <1>6 DEF k
  <2> QED BY <2>1
<1> QED BY <1>1, <1>2, <1>3, <1>4, <1>5, <1>7, Zenon

\* A stored session is the epoch of its account.
LEMMA StoredIsEpoch ==
    ASSUME KeyTypes, LoginInv, NEW s \in Sessions, session[s] # NoKey
    PROVE  /\ epoch[Owner[s]] # NoKey /\ epoch[Owner[s]].sid = s
           /\ epoch[Owner[s]].rev = session[s].rev /\ epoch[Owner[s]].exp = session[s].exp
<1> DEFINE k == session[s]
<1>1. k \in SessionKey BY DEF KeyTypes, Keys
<1>2. epoch[Owner[s]] = [sid |-> s, rev |-> k.rev, exp |-> k.exp] BY DEF LoginInv, OneSessionPerAccount
<1> HIDE DEF k
<1>3. [sid |-> s, rev |-> k.rev, exp |-> k.exp] \in Expiring BY <1>1 DEF SessionKey, Expiring
<1>4. epoch[Owner[s]] # NoKey BY <1>2, <1>3, StoredIsKey
<1> QED BY <1>2, <1>4 DEF k

\* A fence that is the epoch of its account is live.
LEMMA OwnedIsLive ==
    ASSUME KeyTypes, LoginInv, NEW f \in Fence, Owned(epoch[Account(f)], f)
    PROVE  Live(f)
<1> DEFINE a == Account(f)
<1>1. a \in Accounts /\ epoch[a] # NoKey /\ FenceOf(epoch[a]) = f BY FenceFacts, Zenon DEF Owned
<1>2. /\ session[epoch[a].sid] # NoKey /\ session[epoch[a].sid].rev = epoch[a].rev
      /\ session[epoch[a].sid] \in SessionKey /\ session[epoch[a].sid].exp = epoch[a].exp
      /\ epoch[a].exp \in Nat /\ now < epoch[a].exp /\ epoch[a] \in Expiring
  BY <1>1, CurrentLogin
<1>3. f.sid = epoch[a].sid /\ f.rev = epoch[a].rev BY <1>1, <1>2, ExpiringFacts, Zenon
<1>4. ~(session[f.sid].exp <= now) BY <1>2, <1>3, ClockFacts
<1> QED BY <1>1, <1>2, <1>3, <1>4, Zenon DEF Live, session_status

\* What OPEN_SESSION does to the logins.
LEMMA OpenFacts ==
    ASSUME KeyTypes, LoginInv, NEW s \in Sessions, NEW requested \in Nat, OPEN_SESSION(s, requested)
    PROVE  \E rev \in 1 .. MaxRevision, exp \in Time :
               LET a == Owner[s] IN
               /\ a \in Accounts /\ rev = NextRevision(s) /\ now < exp /\ now < Durable[s]
               /\ session'[s] = [rev |-> rev, exp |-> exp]
               /\ epoch' = [epoch EXCEPT ![a] = [sid |-> s, rev |-> rev, exp |-> exp]]
               /\ \A t \in Sessions \ {s} :
                      session'[t] = IF Owner[t] = a THEN NoKey ELSE session[t]
               /\ revision' = [revision EXCEPT ![s] = [n |-> rev, exp |-> Durable[s]]]
               /\ issued' = issued \cup {[sid |-> s, rev |-> rev]}
               /\ now' = now /\ DropOwned(a, OldFence(a))
               /\ channels' = [t \in Sessions |->
                      IF t = s \/ (OldFence(a) # NoKey /\ t = OldFence(a).sid) THEN NoChannels ELSE channels[t]]
<1> DEFINE a == Owner[s]
           exp == Smaller(requested, now + SessionTtl)
           rev == NextRevision(s)
           old == OldFence(a)
<1>1. a \in Accounts BY Limits
<1>2. exp \in Time /\ now < exp /\ now < Durable[s]
  <2>1. now < requested /\ requested <= Durable[s] BY Zenon DEF OPEN_SESSION
  <2>2. now \in Nat /\ now <= MaxTime /\ Durable[s] \in Nat BY ClockFacts, Limits
  <2>3. exp \in Time /\ now < exp BY <2>1, ClockFacts, CappedTime
  <2>4. now < Durable[s] BY <2>1, <2>2
  <2> QED BY <2>3, <2>4
<1>3. rev \in 1 .. MaxRevision
  <2>1. rev <= MaxRevision BY Zenon DEF OPEN_SESSION
  <2> QED BY <2>1, RevisionFacts
<1>4. /\ epoch' = [epoch EXCEPT ![a] = [sid |-> s, rev |-> rev, exp |-> exp]]
      /\ revision' = [revision EXCEPT ![s] = [n |-> rev, exp |-> Durable[s]]]
      /\ issued' = issued \cup {[sid |-> s, rev |-> rev]} /\ now' = now
      /\ session' = ReplaceSession(s, old, [rev |-> rev, exp |-> exp])
      /\ DropOwned(a, old)
      /\ channels' = [t \in Sessions |->
                         IF t = s \/ (old # NoKey /\ t = old.sid) THEN NoChannels ELSE channels[t]]
  BY Zenon DEF OPEN_SESSION, OldFence, CounterDeadline
<1>5. session'[s] = [rev |-> rev, exp |-> exp]
  <2> HIDE DEF rev, exp, old
  <2> QED BY <1>4, Zenon DEF ReplaceSession
<1>6. ASSUME NEW t \in Sessions \ {s}
      PROVE  session'[t] = IF Owner[t] = a THEN NoKey ELSE session[t]
  <2>1. session'[t] = IF old # NoKey /\ t = old.sid THEN NoKey ELSE session[t]
    <3> HIDE DEF rev, exp, old
    <3> QED BY <1>4, Zenon DEF ReplaceSession
  <2>2. CASE epoch[a] = NoKey
    <3>1. old = NoKey BY <2>2 DEF OldFence
    <3>2. Owner[t] = a => session[t] = NoKey
      BY <2>2, StoredIsEpoch
    <3> QED BY <2>1, <3>1, <3>2
  <2>3. CASE epoch[a] # NoKey
    <3>1. old = FenceOf(epoch[a]) /\ epoch[a] \in Expiring BY <1>1, <2>3, CurrentLogin DEF OldFence
    <3>2. old \in Fence /\ old.sid = epoch[a].sid /\ old # NoKey BY <3>1, ExpiringFacts, FenceFacts, Zenon
    <3>3. Owner[old.sid] = a BY <1>1, <2>3, <3>2, CurrentLogin
    <3>4. Owner[t] = a /\ t # old.sid => session[t] = NoKey
      BY <3>2, StoredIsEpoch, Zenon
    <3> HIDE DEF old, a
    <3> QED BY <2>1, <3>2, <3>3, <3>4
  <2> QED BY <2>2, <2>3
<1> HIDE DEF rev, exp
<1>7. rev = NextRevision(s) BY DEF rev
<1> QED BY <1>1, <1>2, <1>3, <1>4, <1>5, <1>6, <1>7, Zenon

\* FENCE_SESSION removes the epoch of a live fence and its session.
LEMMA LogoutFacts ==
    ASSUME KeyTypes, NEW f \in issued, FENCE_SESSION(f)
    PROVE  /\ f \in Fence /\ Live(f) /\ DropOwned(Account(f), f)
           /\ session' = [session EXCEPT ![f.sid] = NoKey]
           /\ epoch' = [epoch EXCEPT ![Account(f)] = NoKey]
           /\ channels' = [channels EXCEPT ![f.sid] = NoChannels]
           /\ UNCHANGED <<now, revision, issued>>
BY Zenon DEF FENCE_SESSION, KeyTypes

\* What a heartbeat does to the logins.
LEMMA BeatFacts ==
    ASSUME KeyTypes, NEW f \in issued, NEW exp \in Time, session[f.sid].exp <= exp, Heartbeat(f, exp)
    PROVE  LET a == Account(f) IN
           /\ f \in Fence /\ a \in Accounts /\ f.sid \in Sessions /\ exp \in Nat /\ now < exp /\ now' = now
           /\ session[f.sid].exp \in Nat
           /\ \A t \in Sessions \ {f.sid} : session'[t] = session[t]
           /\ session'[f.sid] # NoKey /\ session'[f.sid].rev = f.rev /\ session'[f.sid].exp = exp
           /\ \A b \in Accounts \ {a} : epoch'[b] = epoch[b]
           /\ epoch'[a] = [sid |-> f.sid, rev |-> f.rev, exp |-> exp]
           /\ Owned(epoch[a], f) /\ Owned(epoch'[a], f)
           /\ epoch'[a].sid = f.sid /\ epoch'[a].rev = f.rev /\ epoch'[a].exp = exp
<1> DEFINE a == Account(f)
<1>1. f \in Fence /\ Live(f) BY ClockFacts, Zenon DEF Heartbeat
<1>2. /\ a \in Accounts /\ f.sid \in Sessions /\ f.rev \in 1 .. MaxRevision
      /\ Owned(epoch[a], f) /\ epoch[a] \in Expiring
      /\ epoch[a].sid = f.sid /\ epoch[a].rev = f.rev
      /\ session[f.sid] \in SessionKey /\ session[f.sid] # NoKey
      /\ session[f.sid].rev = f.rev /\ session[f.sid].exp \in Nat /\ now < session[f.sid].exp
  BY <1>1, LiveFacts, Zenon
<1>3. exp \in Nat /\ now < exp /\ now' = now
  <2>1. now' = now BY Zenon DEF Heartbeat
  <2>2. exp \in Nat /\ now \in Nat BY TimeFacts, ClockFacts, Zenon
  <2> QED BY <1>2, <2>1, <2>2
<1>4. /\ session' = [session EXCEPT ![f.sid] = [session[f.sid] EXCEPT !.exp = exp]]
      /\ epoch' = [epoch EXCEPT ![a] = [epoch[a] EXCEPT !.exp = exp]]
  BY DEF Heartbeat
<1>5. /\ [session[f.sid] EXCEPT !.exp = exp] \in SessionKey
      /\ [session[f.sid] EXCEPT !.exp = exp].rev = f.rev /\ [session[f.sid] EXCEPT !.exp = exp].exp = exp
  BY <1>2 DEF SessionKey
<1>6. [epoch[a] EXCEPT !.exp = exp] = [sid |-> f.sid, rev |-> f.rev, exp |-> exp]
  BY <1>2 DEF Expiring
<1>7. /\ \A t \in Sessions \ {f.sid} : session'[t] = session[t]
      /\ session'[f.sid] # NoKey /\ session'[f.sid].rev = f.rev /\ session'[f.sid].exp = exp
  BY <1>2, <1>4, <1>5, StoredIsKey DEF KeyTypes
<1>8. /\ \A b \in Accounts \ {a} : epoch'[b] = epoch[b]
      /\ epoch'[a] = [sid |-> f.sid, rev |-> f.rev, exp |-> exp]
  BY <1>2, <1>4, <1>6 DEF KeyTypes
<1>9. [sid |-> f.sid, rev |-> f.rev, exp |-> exp] \in Expiring BY <1>2, Zenon DEF Expiring
<1>10. Owned(epoch'[a], f) BY <1>1, <1>8, <1>9, StoredIsKey, FenceFacts DEF Owned, FenceOf
<1>11. epoch'[a].sid = f.sid /\ epoch'[a].rev = f.rev /\ epoch'[a].exp = exp BY <1>8
<1> QED BY <1>1, <1>2, <1>3, <1>7, <1>8, <1>10, <1>11, Zenon

\* Logins stay as LoginInv says.
LEMMA LoginNext ==
    ASSUME KeyTypes, LoginInv, StepKinds
    PROVE  LoginInv'
<1>1. ASSUME NEW s \in Sessions, NEW requested \in Nat, OPEN_SESSION(s, requested) PROVE LoginInv'
  <2>1. PICK rev \in 1 .. MaxRevision, exp \in Time :
            /\ now < exp /\ Owner[s] \in Accounts
            /\ session'[s] = [rev |-> rev, exp |-> exp]
            /\ epoch' = [epoch EXCEPT ![Owner[s]] = [sid |-> s, rev |-> rev, exp |-> exp]]
            /\ \A t \in Sessions \ {s} :
                   session'[t] = IF Owner[t] = Owner[s] THEN NoKey ELSE session[t]
            /\ issued' = issued \cup {[sid |-> s, rev |-> rev]} /\ now' = now
    BY <1>1, OpenFacts, Zenon
  <2> DEFINE a == Owner[s]
  <2>2. [sid |-> s, rev |-> rev, exp |-> exp] \in Expiring /\ [rev |-> rev, exp |-> exp] \in SessionKey
    BY DEF Expiring, SessionKey
  <2>3. /\ session'[s] # NoKey /\ session'[s].rev = rev /\ session'[s].exp = exp
        /\ epoch'[a] = [sid |-> s, rev |-> rev, exp |-> exp]
        /\ \A b \in Accounts \ {a} : epoch'[b] = epoch[b]
    <3>1. session'[s] # NoKey BY <2>1, <2>2, StoredIsKey, Zenon
    <3>2. session'[s].rev = rev /\ session'[s].exp = exp BY <2>1
    <3>3. epoch \in [Accounts -> Keys(Expiring)] BY Zenon DEF KeyTypes
    <3> QED BY <2>1, <3>1, <3>2, <3>3, Zenon
  <2>4. OneSessionPerAccount'
    <3> SUFFICES ASSUME NEW t \in Sessions
                 PROVE  IF session'[t] = NoKey THEN epoch'[Owner[t]] = NoKey \/ epoch'[Owner[t]].sid # t
                        ELSE epoch'[Owner[t]] = [sid |-> t, rev |-> session'[t].rev, exp |-> session'[t].exp]
      BY Zenon DEF OneSessionPerAccount
    <3>1. CASE t = s BY <2>3, <3>1
    <3>2. CASE t # s /\ Owner[t] = a
      <4>1. session'[t] = NoKey BY <2>1, <3>2, Zenon
      <4>2. epoch'[Owner[t]].sid = s BY <2>3, <3>2
      <4> QED BY <3>2, <4>1, <4>2, Zenon
    <3>3. CASE Owner[t] # a
      BY <2>1, <2>3, <3>3, Limits, Zenon DEF LoginInv, OneSessionPerAccount
    <3> QED BY <3>1, <3>2, <3>3, Zenon
  <2>5. \A t \in Sessions : session'[t] # NoKey => now' < session'[t].exp
    BY <2>1, <2>3, Zenon DEF LoginInv
  <2>6. \A b \in Accounts : epoch'[b] # NoKey =>
            Owner[epoch'[b].sid] = b /\ FenceOf(epoch'[b]) \in issued'
    <3>1. epoch'[a].sid = s /\ FenceOf(epoch'[a]) = [sid |-> s, rev |-> rev] BY <2>3 DEF FenceOf
    <3>2. ASSUME NEW b \in Accounts \ {a}, epoch'[b] # NoKey
          PROVE  Owner[epoch'[b].sid] = b /\ FenceOf(epoch'[b]) \in issued
      BY <2>3, <3>2, Zenon DEF LoginInv
    <3>3. Owner[epoch'[a].sid] = a /\ FenceOf(epoch'[a]) \in issued' BY <2>1, <3>1
    <3>4. issued \subseteq issued' BY <2>1, Zenon
    <3> HIDE DEF a
    <3> QED BY <3>2, <3>3, <3>4
  <2> QED BY <2>4, <2>5, <2>6, Zenon DEF LoginInv, FenceOf
<1>2. ASSUME NEW f \in issued, NEW exp \in Time, session[f.sid].exp <= exp, Heartbeat(f, exp) PROVE LoginInv'
  <2> DEFINE a == Account(f)
  <2>1. /\ f \in Fence /\ a \in Accounts /\ f.sid \in Sessions /\ now < exp /\ now' = now
        /\ \A t \in Sessions \ {f.sid} : session'[t] = session[t]
        /\ session'[f.sid] # NoKey /\ session'[f.sid].rev = f.rev /\ session'[f.sid].exp = exp
        /\ \A b \in Accounts \ {a} : epoch'[b] = epoch[b]
        /\ epoch'[a] = [sid |-> f.sid, rev |-> f.rev, exp |-> exp]
        /\ Owned(epoch[a], f) /\ Owned(epoch'[a], f) /\ epoch'[a].sid = f.sid
    BY <1>2, BeatFacts, Zenon
  <2>2. epoch[a].sid = f.sid /\ Owner[f.sid] = a /\ issued' = issued
    BY <1>2, <2>1, LiveFacts DEF Account, Heartbeat
  <2>3. OneSessionPerAccount'
    <3> SUFFICES ASSUME NEW t \in Sessions
                 PROVE  IF session'[t] = NoKey THEN epoch'[Owner[t]] = NoKey \/ epoch'[Owner[t]].sid # t
                        ELSE epoch'[Owner[t]] = [sid |-> t, rev |-> session'[t].rev, exp |-> session'[t].exp]
      BY Zenon DEF OneSessionPerAccount
    <3>1. CASE t = f.sid BY <2>1, <2>2, <3>1, Zenon
    <3>2. CASE t # f.sid /\ Owner[t] = a
      <4>1. session[t] = NoKey BY <2>2, <3>2, StoredIsEpoch
      <4> QED BY <2>1, <3>2, <4>1, Zenon
    <3>3. CASE Owner[t] # a
      BY <2>1, <2>2, <3>3, Limits, Zenon DEF LoginInv, OneSessionPerAccount
    <3> QED BY <3>1, <3>2, <3>3, Zenon
  <2>4. \A t \in Sessions : session'[t] # NoKey => now' < session'[t].exp BY <2>1, Zenon DEF LoginInv
  <2>5. \A b \in Accounts : epoch'[b] # NoKey =>
            Owner[epoch'[b].sid] = b /\ FenceOf(epoch'[b]) \in issued'
    BY <2>1, <2>2, Zenon DEF LoginInv, Owned
  <2> QED BY <2>3, <2>4, <2>5 DEF LoginInv, FenceOf
<1>3. ASSUME NEW f \in issued, FENCE_SESSION(f) PROVE LoginInv'
  <2> DEFINE a == Account(f)
  <2>1. /\ f \in Fence /\ Live(f) /\ session' = [session EXCEPT ![f.sid] = NoKey]
        /\ epoch' = [epoch EXCEPT ![a] = NoKey] /\ UNCHANGED <<now, issued>>
    BY <1>3, LogoutFacts
  <2>2. epoch[a].sid = f.sid /\ a \in Accounts /\ f.sid \in Sessions /\ Owner[f.sid] = a
    BY <2>1, LiveFacts, Zenon DEF Account
  <2>3. /\ session'[f.sid] = NoKey /\ epoch'[a] = NoKey
        /\ \A t \in Sessions \ {f.sid} : session'[t] = session[t]
        /\ \A b \in Accounts \ {a} : epoch'[b] = epoch[b]
    BY <2>1, <2>2, Zenon DEF KeyTypes
  <2>4. OneSessionPerAccount'
    <3> SUFFICES ASSUME NEW t \in Sessions
                 PROVE  IF session'[t] = NoKey THEN epoch'[Owner[t]] = NoKey \/ epoch'[Owner[t]].sid # t
                        ELSE epoch'[Owner[t]] = [sid |-> t, rev |-> session'[t].rev, exp |-> session'[t].exp]
      BY Zenon DEF OneSessionPerAccount
    <3>1. CASE Owner[t] = a
      <4>1. t # f.sid => session[t] = NoKey BY <2>2, <3>1, StoredIsEpoch
      <4> QED BY <2>3, <3>1, <4>1, Zenon
    <3>2. CASE Owner[t] # a
      BY <2>2, <2>3, <3>2, Limits, Zenon DEF LoginInv, OneSessionPerAccount
    <3> QED BY <3>1, <3>2
  <2> QED BY <2>1, <2>2, <2>3, <2>4 DEF LoginInv, FenceOf
<1>4. CASE Tick
  <2>1. /\ now' = now + 1 /\ issued' = issued
        /\ session' = [s \in Sessions |-> Expire(session[s], now + 1)]
        /\ epoch' = [a \in Accounts |-> Expire(epoch[a], now + 1)]
    BY <1>4, Zenon DEF Tick
  <2>2. OneSessionPerAccount'
    <3> SUFFICES ASSUME NEW t \in Sessions
                 PROVE  IF session'[t] = NoKey THEN epoch'[Owner[t]] = NoKey \/ epoch'[Owner[t]].sid # t
                        ELSE epoch'[Owner[t]] = [sid |-> t, rev |-> session'[t].rev, exp |-> session'[t].exp]
      BY Zenon DEF OneSessionPerAccount
    <3>1. Owner[t] \in Accounts BY Limits
    <3>2. CASE session[t] = NoKey
      BY <2>1, <3>1, <3>2 DEF Expire, LoginInv, OneSessionPerAccount
    <3>3. CASE session[t] # NoKey
      <4>1. /\ epoch[Owner[t]] # NoKey /\ epoch[Owner[t]].exp = session[t].exp
            /\ epoch[Owner[t]] = [sid |-> t, rev |-> session[t].rev, exp |-> session[t].exp]
        BY <3>3, StoredIsEpoch, Zenon DEF LoginInv, OneSessionPerAccount
      <4>2. CASE session[t].exp <= now + 1 BY <2>1, <3>1, <3>3, <4>1, <4>2, Zenon DEF Expire
      <4>3. CASE ~(session[t].exp <= now + 1)
        <5>1. session'[t] = session[t] /\ epoch'[Owner[t]] = epoch[Owner[t]]
          BY <2>1, <3>1, <3>3, <4>1, <4>3 DEF Expire
        <5> QED BY <3>3, <4>1, <5>1, Zenon
      <4> QED BY <4>2, <4>3, Zenon
    <3> QED BY <3>2, <3>3
  <2>3. ASSUME NEW t \in Sessions, session'[t] # NoKey PROVE now' < session'[t].exp
    <3>1. session'[t] = session[t] /\ session[t] # NoKey /\ ~(session[t].exp <= now + 1)
      BY <2>1, <2>3 DEF Expire
    <3>2. session[t].exp \in Nat /\ now \in Nat
      BY <3>1, SessionDeadline, ClockFacts
    <3> QED BY <2>1, <3>1, <3>2
  <2>4. \A b \in Accounts : epoch'[b] # NoKey =>
            Owner[epoch'[b].sid] = b /\ FenceOf(epoch'[b]) \in issued'
    BY <2>1, Zenon DEF Expire, LoginInv
  <2> QED BY <2>2, <2>3, <2>4, Zenon DEF LoginInv, FenceOf
<1>5. CASE UNCHANGED <<now, session, epoch, revision, issued>>
  BY <1>5 DEF LoginInv, OneSessionPerAccount, FenceOf
<1>6. ASSUME NEW f \in issued, NEW requested \in Nat, HEARTBEAT_SESSION(f, requested) PROVE LoginInv'
  BY <1>2, <1>6, HeartbeatFacts, Zenon
<1> QED BY <1>1, <1>3, <1>4, <1>5, <1>6, LoginSteps DEF SessionProgram

-----------------------------------------------------------------------------
(* Fences.                                                                 *)

\* The revision an open returns is new for its session.
LEMMA OpenIsFresh ==
    ASSUME KeyTypes, CounterInv, NEW s \in Sessions, now < Durable[s]
    PROVE  [sid |-> s, rev |-> NextRevision(s)] \notin issued
<1> SUFFICES ASSUME NEW f \in issued, f.sid = s, f.rev = NextRevision(s) PROVE FALSE OBVIOUS
<1>1. revision[s] # NoKey /\ f.rev <= revision[s].n BY Zenon DEF CounterInv
<1>2. f.rev = revision[s].n + 1 BY <1>1, Zenon DEF NextRevision
<1>3. revision[s] \in CounterKey BY <1>1, Zenon DEF KeyTypes, Keys
<1>4. revision[s].n \in Nat BY <1>3, Limits DEF CounterKey
<1> QED BY <1>1, <1>2, <1>4

\* The counters stay ahead of what they gave out.
LEMMA CounterNext ==
    ASSUME KeyTypes, LoginInv, CounterInv, StepKinds
    PROVE  CounterInv'
<1>1. ASSUME NEW s \in Sessions, NEW requested \in Nat, OPEN_SESSION(s, requested) PROVE CounterInv'
  <2>1. PICK rev \in 1 .. MaxRevision :
            /\ rev = NextRevision(s) /\ now < Durable[s] /\ now' = now
            /\ revision' = [revision EXCEPT ![s] = [n |-> rev, exp |-> Durable[s]]]
            /\ issued' = issued \cup {[sid |-> s, rev |-> rev]}
    BY <1>1, OpenFacts, Zenon
  <2>2. /\ revision'[s] = [n |-> rev, exp |-> Durable[s]]
        /\ \A t \in Sessions \ {s} : revision'[t] = revision[t]
    BY <2>1 DEF KeyTypes
  <2>3. [n |-> rev, exp |-> Durable[s]] \in CounterKey BY Limits DEF CounterKey
  <2>4. revision'[s] # NoKey /\ revision'[s].n = rev /\ revision'[s].exp = Durable[s]
    BY <2>2, <2>3, StoredIsKey
  <2>5. ASSUME NEW f \in issued', now' < Durable[f.sid]
        PROVE  revision'[f.sid] # NoKey /\ f.rev <= revision'[f.sid].n /\ revision'[f.sid].exp = Durable[f.sid]
    <3>1. CASE f = [sid |-> s, rev |-> rev] BY <2>4, <3>1
    <3>2. CASE f \in issued /\ f.sid # s
      <4>1. f.sid \in Sessions BY <3>2, FenceFacts DEF KeyTypes
      <4> QED BY <2>1, <2>2, <2>5, <3>2, <4>1 DEF CounterInv
    <3>3. CASE f \in issued /\ f.sid = s
      <4>1. revision[s] # NoKey /\ f.rev <= revision[s].n BY <2>1, <2>5, <3>3, Zenon DEF CounterInv
      <4>2. rev = revision[s].n + 1 /\ revision[s].n \in Nat /\ f.rev \in Nat
        BY <2>1, <3>3, <4>1, FenceFacts, Limits DEF NextRevision, KeyTypes, Keys, CounterKey
      <4> QED BY <2>4, <3>3, <4>1, <4>2
    <3> QED BY <2>1, <3>1, <3>2, <3>3, Zenon
  <2> QED BY <2>5 DEF CounterInv
<1>2. CASE Tick
  <2>1. /\ now' = now + 1 /\ issued' = issued /\ now \in Nat
        /\ revision' = [s \in Sessions |-> Expire(revision[s], now + 1)]
    BY <1>2, ClockFacts, Zenon DEF Tick
  <2>2. ASSUME NEW f \in issued, now + 1 < Durable[f.sid]
        PROVE  revision'[f.sid] # NoKey /\ f.rev <= revision'[f.sid].n /\ revision'[f.sid].exp = Durable[f.sid]
    <3>1. f.sid \in Sessions /\ Durable[f.sid] \in Nat BY FenceFacts, ClockFacts, Limits
    <3>2. now < Durable[f.sid] BY <2>1, <2>2, <3>1
    <3>3. /\ revision[f.sid] # NoKey /\ f.rev <= revision[f.sid].n /\ revision[f.sid].exp = Durable[f.sid]
      BY <3>2 DEF CounterInv
    <3>4. ~(revision[f.sid].exp <= now + 1) BY <2>1, <2>2, <3>1, <3>3
    <3>5. revision'[f.sid] = revision[f.sid] BY <2>1, <3>1, <3>3, <3>4 DEF Expire
    <3> QED BY <3>3, <3>5
  <2> QED BY <2>1, <2>2, Zenon DEF CounterInv
<1>3. CASE UNCHANGED <<now, revision, issued>> BY <1>3 DEF CounterInv
<1>4. ASSUME NEW f \in issued, NEW requested \in Nat, HEARTBEAT_SESSION(f, requested) PROVE CounterInv'
  <2>1. UNCHANGED <<now, revision, issued>> BY <1>4 DEF HEARTBEAT_SESSION
  <2> QED BY <1>3, <2>1, Zenon
<1>5. ASSUME NEW f \in issued, FENCE_SESSION(f) PROVE CounterInv'
  <2>1. UNCHANGED <<now, revision, issued>> BY <1>5 DEF FENCE_SESSION
  <2> QED BY <1>3, <2>1
<1> QED BY <1>1, <1>2, <1>3, <1>4, <1>5, LoginSteps DEF SessionProgram

-----------------------------------------------------------------------------
(* Presence and preferences.                                               *)

\* What DropOwned does to the presence keys.
LEMMA DropPresence ==
    ASSUME KeyTypes, NEW a \in Accounts, NEW f, DropOwned(a, f)
    PROVE  /\ presence'[a] = NoKey /\ preference'[a] = NoKey
           /\ \A b \in Accounts \ {a} : presence'[b] = presence[b] /\ preference'[b] = preference[b]
BY Zenon DEF DropOwned, KeyTypes

\* Unfenced reads stay current.
LEMMA PresenceNext ==
    ASSUME KeyTypes, KeyTypes', LoginInv, PresenceInv, StepKinds
    PROVE  PresenceInv'
<1> DEFINE Fine(a, k) == k # NoKey => Owned(epoch[a], FenceOf(k)) /\ k.exp <= epoch[a].exp
           FineThen(a, k) == k # NoKey => Owned(epoch'[a], FenceOf(k)) /\ k.exp <= epoch'[a].exp
<1>1. \A a \in Accounts : /\ Fine(a, presence[a]) /\ Fine(a, preference[a])
                          /\ presence[a] # NoKey => now < presence[a].exp
  BY Zenon DEF PresenceInv, UnfencedReadsCurrent
<1> SUFFICES ASSUME NEW a \in Accounts
             PROVE  /\ FineThen(a, presence'[a]) /\ FineThen(a, preference'[a])
                    /\ presence'[a] # NoKey => now' < presence'[a].exp
  BY Zenon DEF PresenceInv, UnfencedReadsCurrent, Owned, FenceOf
<1>2. ASSUME epoch'[a] = epoch[a], now' = now, presence'[a] = presence[a], preference'[a] = preference[a]
      PROVE  /\ FineThen(a, presence'[a]) /\ FineThen(a, preference'[a])
             /\ presence'[a] # NoKey => now' < presence'[a].exp
  BY <1>1, <1>2, Zenon
<1>3. ASSUME NEW s \in Sessions, NEW requested \in Nat, OPEN_SESSION(s, requested)
      PROVE  /\ FineThen(a, presence'[a]) /\ FineThen(a, preference'[a])
             /\ presence'[a] # NoKey => now' < presence'[a].exp
  <2>1. PICK rev, exp : /\ epoch' = [epoch EXCEPT ![Owner[s]] = [sid |-> s, rev |-> rev, exp |-> exp]]
                        /\ now' = now /\ DropOwned(Owner[s], OldFence(Owner[s])) /\ Owner[s] \in Accounts
    BY <1>3, OpenFacts, Zenon
  <2>2. CASE a = Owner[s] BY <2>1, <2>2, DropPresence, Zenon
  <2>3. CASE a # Owner[s]
    <3>1. epoch'[a] = epoch[a] BY <2>1, <2>3, Zenon DEF KeyTypes
    <3> QED BY <1>2, <2>1, <2>3, <3>1, DropPresence, Zenon
  <2> QED BY <2>2, <2>3
<1>4. ASSUME NEW f \in issued, FENCE_SESSION(f)
      PROVE  /\ FineThen(a, presence'[a]) /\ FineThen(a, preference'[a])
             /\ presence'[a] # NoKey => now' < presence'[a].exp
  <2>1. /\ f \in Fence /\ DropOwned(Account(f), f) /\ Account(f) \in Accounts
        /\ epoch' = [epoch EXCEPT ![Account(f)] = NoKey] /\ now' = now
    BY <1>4, LogoutFacts, FenceFacts, Zenon
  <2>2. CASE a = Account(f) BY <2>1, <2>2, DropPresence, Zenon
  <2>3. CASE a # Account(f)
    <3>1. epoch'[a] = epoch[a] BY <2>1, <2>3, Zenon DEF KeyTypes
    <3> QED BY <1>2, <2>1, <2>3, <3>1, DropPresence
  <2> QED BY <2>2, <2>3, Zenon
<1>5. ASSUME NEW f \in issued, NEW exp \in Time, session[f.sid].exp <= exp, Heartbeat(f, exp)
      PROVE  /\ FineThen(a, presence'[a]) /\ FineThen(a, preference'[a])
             /\ presence'[a] # NoKey => now' < presence'[a].exp
  <2> DEFINE until == Smaller(exp, now + PresenceTtl)
  <2>1. /\ Account(f) \in Accounts /\ exp \in Nat /\ now < exp /\ now' = now
        /\ \A b \in Accounts \ {Account(f)} : epoch'[b] = epoch[b]
        /\ Owned(epoch[Account(f)], f) /\ Owned(epoch'[Account(f)], f) /\ epoch'[Account(f)].exp = exp
    BY <1>5, BeatFacts, Zenon
  <2>5. now + PresenceTtl \in Nat /\ now < now + PresenceTtl BY ClockFacts, Limits
  <2>2. now < until /\ until <= exp BY <2>1, <2>5, SmallerBounds, Zenon
  <2>3. CASE a # Account(f)
    <3>1. presence'[a] = presence[a] /\ preference'[a] = preference[a]
      BY <1>5, <2>3, Zenon DEF Heartbeat, KeyTypes
    <3> QED BY <1>2, <2>1, <2>3, <3>1, Zenon
  <2>4. CASE a = Account(f)
    <3>1. ASSUME presence[a] # NoKey
          PROVE  FenceOf(presence'[a]) = f /\ presence'[a].exp = until
      <4>1. FenceOf(presence[a]) = f /\ presence[a] \in Expiring
        BY <1>1, <2>1, <2>4, <3>1, Zenon DEF Owned, KeyTypes, Keys
      <4>2. presence' = [presence EXCEPT ![a] = [presence[a] EXCEPT !.exp = until]]
        BY <1>5, <2>4, <3>1, <4>1 DEF Heartbeat, Owned
      <4> HIDE DEF until
      <4>3. presence'[a] = [presence[a] EXCEPT !.exp = until] BY <4>2 DEF KeyTypes
      <4> QED BY <4>1, <4>3 DEF Expiring, FenceOf
    <3>2. presence[a] = NoKey => presence'[a] = NoKey BY <1>5, <2>4 DEF Heartbeat, Owned
    <3>3. ASSUME preference[a] # NoKey
          PROVE  FenceOf(preference'[a]) = f /\ preference'[a].exp = exp
      <4>1. FenceOf(preference[a]) = f /\ preference[a] \in Expiring
        BY <1>1, <2>1, <2>4, <3>3, Zenon DEF Owned, KeyTypes, Keys
      <4>2. preference' = [preference EXCEPT ![a] = [preference[a] EXCEPT !.exp = exp]]
        BY <1>5, <2>4, <3>3, <4>1 DEF Heartbeat, Owned
      <4>3. preference'[a] = [preference[a] EXCEPT !.exp = exp] BY <4>2 DEF KeyTypes
      <4> QED BY <4>1, <4>3 DEF Expiring, FenceOf
    <3>4. preference[a] = NoKey => preference'[a] = NoKey BY <1>5, <2>4, Zenon DEF Heartbeat, Owned
    <3> HIDE DEF until
    <3>5. exp <= exp BY <2>1
    <3>6. FineThen(a, preference'[a]) BY <2>1, <2>4, <3>3, <3>4, <3>5, Zenon
    <3>7. FineThen(a, presence'[a]) BY <2>1, <2>2, <2>4, <3>1, <3>2, Zenon
    <3>8. presence'[a] # NoKey => now' < presence'[a].exp BY <2>1, <2>2, <3>1, <3>2, Zenon
    <3> QED BY <3>6, <3>7, <3>8, Zenon
  <2> QED BY <2>3, <2>4, Zenon
<1>6. ASSUME NEW f \in issued, NEW requested \in Nat, HEARTBEAT_SESSION(f, requested)
      PROVE  /\ FineThen(a, presence'[a]) /\ FineThen(a, preference'[a])
             /\ presence'[a] # NoKey => now' < presence'[a].exp
  BY <1>5, <1>6, HeartbeatFacts, Zenon
<1>7. CASE Tick
  <2>1. /\ now' = now + 1 /\ now \in Nat /\ epoch' = [b \in Accounts |-> Expire(epoch[b], now + 1)]
        /\ presence'[a] = Expire(presence[a], now + 1) /\ preference'[a] = Expire(preference[a], now + 1)
    BY <1>7, ClockFacts, Zenon DEF Tick
  <2>2. ASSUME NEW k \in Keys(Expiring), Fine(a, k), Expire(k, now + 1) # NoKey
        PROVE  /\ FineThen(a, Expire(k, now + 1)) /\ now + 1 < Expire(k, now + 1).exp
    <3>1. k # NoKey /\ Expire(k, now + 1) = k /\ ~(k.exp <= now + 1) BY <2>2, Zenon DEF Expire
    <3>2. /\ k \in Expiring /\ k.exp \in Nat /\ epoch[a] # NoKey /\ epoch[a].exp \in Nat
          /\ k.exp <= epoch[a].exp /\ Owned(epoch[a], FenceOf(k))
      BY <2>2, <3>1, ExpiringFacts DEF Keys, Owned, KeyTypes
    <3>3. ~(epoch[a].exp <= now + 1) BY <2>1, <3>1, <3>2, Outlives, Zenon
    <3>4. epoch'[a] = epoch[a] BY <2>1, <3>2, <3>3, Zenon DEF Expire
    <3> QED BY <2>1, <3>1, <3>2, <3>4
  <2>3. presence[a] \in Keys(Expiring) /\ preference[a] \in Keys(Expiring) BY Zenon DEF KeyTypes
  <2> HIDE DEF Fine, FineThen
  <2>4. presence'[a] # NoKey => FineThen(a, presence'[a]) /\ now' < presence'[a].exp
    BY <1>1, <2>1, <2>2, <2>3, Zenon
  <2>5. preference'[a] # NoKey => FineThen(a, preference'[a]) BY <1>1, <2>1, <2>2, <2>3, Zenon
  <2> QED BY <2>4, <2>5 DEF FineThen
<1>8. ASSUME PresenceProgram
      PROVE  /\ FineThen(a, presence'[a]) /\ FineThen(a, preference'[a])
             /\ presence'[a] # NoKey => now' < presence'[a].exp
  <2>1. now' = now /\ epoch' = epoch BY <1>8, ProgramFrames
  <2>2. ASSUME NEW f \in issued, Live(f)
        PROVE  /\ f \in Fence /\ Owned(epoch[Account(f)], f) /\ f.sid \in Sessions /\ f.rev \in 1 .. MaxRevision
               /\ epoch[Account(f)].exp = session[f.sid].exp /\ session[f.sid].exp \in Time
               /\ Account(f) \in Accounts /\ session[f.sid].exp \in Nat
    <3>1. /\ f \in Fence /\ Owned(epoch[Account(f)], f) /\ f.sid \in Sessions /\ f.rev \in 1 .. MaxRevision
          /\ session[f.sid].exp \in Time /\ session[f.sid] # NoKey
          /\ Account(f) \in Accounts /\ session[f.sid].exp \in Nat
      BY <2>2, LiveFacts, Zenon DEF KeyTypes
    <3> QED BY <3>1, StoredIsEpoch, Zenon DEF Account
  <2>3. ASSUME NEW f \in issued, NEW exp \in Nat, NEW capacity, SET_PRESENCE(f, exp, capacity)
        PROVE  /\ preference'[a] = preference[a] /\ FineThen(a, presence'[a])
               /\ presence'[a] # NoKey => now' < presence'[a].exp
    <3> DEFINE new == [sid |-> f.sid, rev |-> f.rev, exp |-> exp]
    <3>1. /\ f \in Fence /\ Owned(epoch[Account(f)], f) /\ exp <= epoch[Account(f)].exp
          /\ now < exp /\ Account(f) \in Accounts
      BY <2>2, <2>3, Zenon DEF SET_PRESENCE
    <3>2. FenceOf(new) = f /\ new.exp = exp BY <3>1, FenceFacts, Zenon DEF FenceOf
    <3>3. preference'[a] = preference[a] BY <2>3, Zenon DEF SET_PRESENCE
    <3>4. presence' = presence \/ presence' = [presence EXCEPT ![Account(f)] = new]
      BY <2>3, Zenon DEF SET_PRESENCE
    <3> HIDE DEF new
    <3>5. CASE presence'[a] = presence[a] BY <1>1, <2>1, <3>3, <3>5, Zenon
    <3>6. CASE a = Account(f) /\ presence'[a] = new BY <2>1, <3>1, <3>2, <3>3, <3>6, Zenon
    <3> QED BY <3>4, <3>5, <3>6, Zenon DEF KeyTypes
  <2>4. ASSUME NEW f \in issued, CLEAR_PRESENCE(Account(f), f)
        PROVE  preference'[a] = preference[a] /\ presence'[a] \in {presence[a], NoKey}
    BY <2>4, Zenon DEF CLEAR_PRESENCE, KeyTypes
  <2>5. ASSUME NEW f \in issued, SET_PREFERENCE(f)
        PROVE  presence'[a] = presence[a] /\ FineThen(a, preference'[a])
    <3> DEFINE new == [sid |-> f.sid, rev |-> f.rev, exp |-> session[f.sid].exp]
    <3>1. /\ f \in Fence /\ Owned(epoch[Account(f)], f) /\ session[f.sid].exp = epoch[Account(f)].exp
          /\ session[f.sid].exp \in Nat /\ Account(f) \in Accounts
      BY <2>2, <2>5 DEF SET_PREFERENCE
    <3>2. FenceOf(new) = f /\ new.exp = session[f.sid].exp BY <3>1, FenceFacts, Zenon DEF FenceOf
    <3>3. presence'[a] = presence[a] BY <2>5, Zenon DEF SET_PREFERENCE
    <3>4. preference' = [preference EXCEPT ![Account(f)] = new] BY <2>5, Zenon DEF SET_PREFERENCE
    <3> HIDE DEF new
    <3>5. CASE preference'[a] = preference[a] BY <1>1, <2>1, <3>3, <3>5, Zenon
    <3>6. CASE a = Account(f) /\ preference'[a] = new BY <2>1, <3>1, <3>2, <3>3, <3>6
    <3> QED BY <3>4, <3>5, <3>6, Zenon DEF KeyTypes
  <2> QED BY <1>1, <1>8, <2>1, <2>3, <2>4, <2>5, Zenon DEF PresenceProgram
<1>9. CASE UNCHANGED <<now, epoch, presence, preference>> BY <1>2, <1>9
<1>10. UNCHANGED redisKeys => UNCHANGED <<now, epoch, presence, preference>>
  BY DEF redisKeys, sessionKeys, presenceKeys
<1> QED BY <1>3, <1>4, <1>6, <1>7, <1>8, <1>9, <1>10, ProgramFrames, Zenon DEF StepKinds, SessionProgram

-----------------------------------------------------------------------------
(* What a step does to the frames of a host.                               *)

\* The frames a step leaves of a host: none, some of the stored ones under the
\* same counter, or those of a publish.
LEMMA FrameSteps ==
    ASSUME KeyTypes, HistoryOfCurrentLogin, WindowInv, StepKinds, ~Publishing, ~Tick, NEW h \in Accounts
    PROVE  \/ frames'[h] = NoFrames
           \/ frames'[h] = frames[h] /\ frameState'[h] = frameState[h]
           \/ /\ frameState'[h] = frameState[h] /\ epoch' = epoch /\ now' = now
              /\ \E at \in Nat : frames'[h] = LiveFrames(h, at)
<1>1. ASSUME NEW a \in Accounts, NEW f, DropOwned(a, f)
      PROVE  frames'[h] = NoFrames \/ (frames'[h] = frames[h] /\ frameState'[h] = frameState[h])
  BY <1>1, Zenon DEF DropOwned, DropFrames, KeyTypes
<1>2. ASSUME SessionProgram
      PROVE  frames'[h] = NoFrames \/ (frames'[h] = frames[h] /\ frameState'[h] = frameState[h])
  <2>1. ASSUME NEW s \in Sessions, NEW requested, OPEN_SESSION(s, requested)
        PROVE  frames'[h] = NoFrames \/ (frames'[h] = frames[h] /\ frameState'[h] = frameState[h])
    <3>1. PICK f : DropOwned(Owner[s], f) BY <2>1, Zenon DEF OPEN_SESSION
    <3>2. Owner[s] \in Accounts BY Limits, Zenon
    <3> QED BY <1>1, <3>1, <3>2
  <2>2. ASSUME NEW f \in issued, FENCE_SESSION(f)
        PROVE  frames'[h] = NoFrames \/ (frames'[h] = frames[h] /\ frameState'[h] = frameState[h])
    BY <1>1, <2>2, FenceFacts, Zenon DEF FENCE_SESSION, KeyTypes
  <2>3. ASSUME NEW f, NEW requested, HEARTBEAT_SESSION(f, requested)
        PROVE  frames'[h] = frames[h] /\ frameState'[h] = frameState[h]
    BY <2>3 DEF HEARTBEAT_SESSION, frameKeys
  <2> QED BY <1>2, <2>1, <2>2, <2>3 DEF SessionProgram
<1>3. ASSUME Attaching
      PROVE  \/ frames'[h] = frames[h] /\ frameState'[h] = frameState[h]
             \/ /\ frameState'[h] = frameState[h] /\ epoch' = epoch /\ now' = now
                /\ \E at \in Nat : frames'[h] = LiveFrames(h, at)
  <2>1. frameState' = frameState /\ epoch' = epoch /\ now' = now BY <1>3, ProgramFrames
  <2>2. PICK hf \in issued : frames' = [frames EXCEPT ![Account(hf)] = LiveFrames(Account(hf), now)]
    <3>1. PICK hf \in issued, f \in issued, exp \in Nat, id \in RelationIds : ATTACH_SPECTATOR(hf, f, exp, id)
      BY <1>3 DEF Attaching
    <3>2. frames' = [frames EXCEPT ![Account(hf)] = LiveFrames(Account(hf), now)]
      BY <3>1, Zenon DEF ATTACH_SPECTATOR
    <3> QED BY <3>2, Zenon
  <2>3. now \in Nat BY ClockFacts
  <2> QED BY <2>1, <2>2, <2>3, Zenon DEF KeyTypes
<1>4. ASSUME Reading
      PROVE  \/ frames'[h] = frames[h] /\ frameState'[h] = frameState[h]
             \/ /\ frameState'[h] = frameState[h] /\ epoch' = epoch /\ now' = now
                /\ \E at \in Nat : frames'[h] = LiveFrames(h, at)
  <2>1. frameState' = frameState /\ epoch' = epoch /\ now' = now BY <1>4, ProgramFrames
  <2>2. PICK f \in issued, at \in Nat : frames' = [frames EXCEPT ![Account(f)] = LiveFrames(Account(f), at)]
    BY <1>4, Zenon DEF Reading, READ_FRAMES
  <2> QED BY <2>1, <2>2, Zenon DEF KeyTypes
<1>5. CASE UNCHANGED <<frames, frameState>> BY <1>5
<1>6. UNCHANGED redisKeys => UNCHANGED <<frames, frameState>> BY DEF redisKeys, frameKeys
<1> QED BY <1>2, <1>3, <1>4, <1>5, <1>6, ProgramFrames, Zenon DEF StepKinds

\* An epoch only changes its deadline, and only to a later one, or with the
\* frames of its account.
LEMMA EpochSteps ==
    ASSUME KeyTypes, LoginInv, StepKinds, ~Tick, NEW h \in Accounts
    PROVE  \/ frames'[h] = NoFrames
           \/ epoch'[h] = epoch[h]
           \/ /\ epoch[h] # NoKey /\ epoch'[h] # NoKey /\ FenceOf(epoch'[h]) = FenceOf(epoch[h])
              /\ epoch[h].exp <= epoch'[h].exp /\ epoch[h].exp \in Nat /\ epoch'[h].exp \in Nat
<1>1. ASSUME NEW s \in Sessions, NEW requested \in Nat, OPEN_SESSION(s, requested)
      PROVE  frames'[h] = NoFrames \/ epoch'[h] = epoch[h]
  <2>1. DropFrames(Owner[s]) BY <1>1, Zenon DEF OPEN_SESSION, DropOwned
  <2>2. PICK k : epoch' = [epoch EXCEPT ![Owner[s]] = k] BY <1>1, Zenon DEF OPEN_SESSION
  <2> QED BY <2>1, <2>2, Zenon DEF DropFrames, KeyTypes
<1>2. ASSUME NEW f \in issued, FENCE_SESSION(f)
      PROVE  frames'[h] = NoFrames \/ epoch'[h] = epoch[h]
  BY <1>2, Zenon DEF FENCE_SESSION, DropOwned, DropFrames, KeyTypes
<1>3. ASSUME NEW f \in issued, NEW exp \in Time, session[f.sid].exp <= exp, Heartbeat(f, exp)
      PROVE  \/ epoch'[h] = epoch[h]
             \/ /\ epoch[h] # NoKey /\ epoch'[h] # NoKey /\ FenceOf(epoch'[h]) = FenceOf(epoch[h])
                /\ epoch[h].exp <= epoch'[h].exp /\ epoch[h].exp \in Nat /\ epoch'[h].exp \in Nat
  <2>1. /\ f.sid \in Sessions /\ exp \in Nat /\ session[f.sid].exp \in Nat
        /\ \A b \in Accounts \ {Account(f)} : epoch'[b] = epoch[b]
        /\ Owned(epoch[Account(f)], f) /\ Owned(epoch'[Account(f)], f) /\ epoch'[Account(f)].exp = exp
    BY <1>3, BeatFacts, Zenon
  <2>2. session[f.sid] # NoKey BY <1>3, LiveFacts, Zenon DEF Heartbeat, KeyTypes
  <2>3. epoch[Account(f)].exp = session[f.sid].exp BY <2>1, <2>2, StoredIsEpoch, Zenon DEF Account
  <2> QED BY <1>3, <2>1, <2>3, Zenon DEF Owned
<1>4. ASSUME NEW f \in issued, NEW requested \in Nat, HEARTBEAT_SESSION(f, requested)
      PROVE  \/ epoch'[h] = epoch[h]
             \/ /\ epoch[h] # NoKey /\ epoch'[h] # NoKey /\ FenceOf(epoch'[h]) = FenceOf(epoch[h])
                /\ epoch[h].exp <= epoch'[h].exp /\ epoch[h].exp \in Nat /\ epoch'[h].exp \in Nat
  BY <1>3, <1>4, HeartbeatFacts, Zenon
<1> QED BY <1>1, <1>2, <1>4, LoginSteps, Zenon DEF SessionProgram

=============================================================================
