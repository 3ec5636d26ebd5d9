------------------------- MODULE RealtimeIndexProofs -------------------------
(***************************************************************************)
(* The rest of the induction of RealtimeProofs: frames and the online      *)
(* index.  The theorems about RealtimeState are at the end.                *)
(***************************************************************************)
EXTENDS RealtimeMembershipProofs

-----------------------------------------------------------------------------
(* Types of frames.                                                        *)

\* The frames that stay after the expired ones are dropped.
LEMMA LiveFramesFacts ==
    ASSUME KeyTypes, NEW h \in Accounts, NEW at
    PROVE  /\ LiveFrames(h, at) \in FramesKey /\ LiveFrames(h, at).items \subseteq frames[h].items
           /\ \A b \in Nat : (\A e \in frames[h].items : e.exp <= b) => LiveFrames(h, at).exp <= b
           /\ \A e \in LiveFrames(h, at).items : e.exp <= LiveFrames(h, at).exp
<1> DEFINE kept == frame_stats(frames[h].items, at)
<1>1. frames[h].items \subseteq Frame BY DEF KeyTypes, FramesKey
<1>2. kept \subseteq frames[h].items /\ \A e \in kept : e.exp \in Time /\ e.exp \in Nat
  BY <1>1, Limits DEF frame_stats, Frame, Time
<1>3. CASE kept = {}
  <2>1. LiveFrames(h, at) = NoFrames BY <1>3 DEF LiveFrames
  <2> QED BY <2>1, Limits DEF NoFrames, FramesKey, Time
<1>4. CASE kept # {}
  <2>1. LiveFrames(h, at) = [items |-> kept, exp |-> Latest(kept, 0)] BY <1>4 DEF LiveFrames
  <2> DEFINE most == MaxTime + SessionTtl + PresenceTtl
  <2>2. most \in Nat /\ 0 <= most /\ \A e \in kept : e.exp <= most
    BY <1>2, Limits DEF Time
  <2> HIDE DEF kept
  <2>3. Latest(kept, 0) \in Nat /\ Latest(kept, 0) <= most /\ \A e \in kept : e.exp <= Latest(kept, 0)
    BY <1>2, <2>2, LatestFacts, Zenon
  <2>4. \A b \in Nat : (\A e \in frames[h].items : e.exp <= b) => Latest(kept, 0) <= b
    <3> SUFFICES ASSUME NEW b \in Nat, \A e \in frames[h].items : e.exp <= b
                 PROVE  Latest(kept, 0) <= b
      OBVIOUS
    <3>1. \A e \in kept : e.exp <= b BY <1>2
    <3>2. 0 \in Nat /\ 0 <= b OBVIOUS
    <3> QED BY <1>2, <3>1, <3>2, LatestFacts, Zenon
  <2>5. Latest(kept, 0) \in Time BY <2>2, <2>3 DEF Time
  <2> QED BY <1>1, <1>2, <2>1, <2>3, <2>4, <2>5 DEF FramesKey
<1> QED BY <1>3, <1>4, Zenon

\* ATTACH_SPECTATOR preserves the types.
LEMMA AttachTypes ==
    ASSUME KeyTypes, setup' = setup, Attaching
    PROVE  KeyTypes'
<1>1. UNCHANGED <<now, session, epoch, revision, issued, presence, index, preference,
                  channels, members, frameState>>
  BY ProgramFrames, Zenon
<1>2. PICK hf \in issued, f \in issued, exp \in Nat, id \in RelationIds :
          /\ ATTACH_SPECTATOR(hf, f, exp, id)
          /\ seen' = seen \cup {[relation'[Account(f)] EXCEPT !.exp = 0]}
  BY DEF Attaching
<1> DEFINE a == Account(f) h == Account(hf)
           n == IF relationRevision[a] = NoKey THEN 1 ELSE relationRevision[a].n + 1
           new == [host |-> h, id |-> id, revision |-> n, hostFence |-> hf, fence |-> f, exp |-> exp]
           left == [x \in Accounts |->
                       IF x = (IF relation[a] = NoKey THEN NoKey ELSE relation[a].host)
                       THEN refresh_viewers(Without(viewers[x], {a})) ELSE viewers[x]]
<1>3. /\ hf \in Fence /\ f \in Fence /\ a \in Accounts /\ h \in Accounts /\ f.sid \in Sessions
      /\ session[f.sid].exp \in Nat
  <2>1. Live(f) /\ hf \in Fence /\ f \in Fence BY <1>2, Zenon DEF ATTACH_SPECTATOR, KeyTypes
  <2> QED BY <2>1, FenceFacts, LiveFacts, Zenon
<1>4. n \in Nat BY <1>3 DEF KeyTypes, Keys
<1>5. new \in RelationKey
  <2> HIDE DEF n, a, h
  <2> QED BY <1>3, <1>4, Zenon DEF RelationKey
<1>6. relation' = [relation EXCEPT ![a] = new] BY <1>2 DEF ATTACH_SPECTATOR
<1>7. /\ relationRevision' = [relationRevision EXCEPT ![a] = [n |-> n, exp |-> session[f.sid].exp]]
      /\ viewers' = [left EXCEPT ![h] = Put(left[h], a, exp)]
      /\ frames' = [frames EXCEPT ![h] = LiveFrames(h, now)]
  BY <1>2 DEF ATTACH_SPECTATOR
<1>8. left \in [Accounts -> Maps(Accounts, Nat)] BY WithoutMap, RefreshMap, Zenon DEF KeyTypes
<1> HIDE DEF n, a, h, new, left
<1>9. relation' \in [Accounts -> Keys(RelationKey)] BY <1>5, <1>6, Zenon DEF KeyTypes, Keys
<1>10. relationRevision' \in [Accounts -> Keys([n : Nat, exp : Nat])]
  BY <1>3, <1>4, <1>7, Zenon DEF KeyTypes, Keys
<1>11. left[h] \in Maps(Accounts, Nat) BY <1>3, <1>8
<1>12. Put(left[h], a, exp) \in Maps(Accounts, Nat) BY <1>3, <1>11, PutMap, Zenon
<1>13. viewers' \in [Accounts -> Maps(Accounts, Nat)] BY <1>7, <1>8, <1>12, Zenon
<1>14. frames' \in [Accounts -> FramesKey] BY <1>3, <1>7, LiveFramesFacts, Zenon DEF KeyTypes
<1>15. relation'[a] = new BY <1>3, <1>6, Zenon DEF KeyTypes
<1>16. [relation'[a] EXCEPT !.exp = 0] \in RelationKey BY <1>5, <1>15, Zenon DEF RelationKey
<1>17. seen' \subseteq RelationKey BY <1>2, <1>16, Zenon DEF KeyTypes, a
<1> QED BY <1>1, <1>9, <1>10, <1>13, <1>14, <1>17, Zenon DEF KeyTypes

\* What a publish stores: the frames of the same login for which there is
\* room and the new one, numbered after them.
Published(f, sequence, size, exp, kept, cursor, deadline) ==
    LET h == Account(f) IN
    /\ Live(f) /\ size <= MaxBytes /\ now < exp /\ exp <= session[f.sid].exp
    /\ PruneViewers(f, Recipients(f))
    /\ kept \subseteq frames[h].items
    /\ Cardinality(kept) < MaxFrames /\ Bytes(kept) + size <= MaxBytes
    /\ frames' = [frames EXCEPT ![h] =
           [items |-> kept \cup {[cursor |-> cursor, exp |-> exp, sequence |-> sequence,
                                  size |-> size, fence |-> f]},
            exp |-> deadline]]
    /\ frameState' = [frameState EXCEPT ![h] =
           [sid |-> f.sid, rev |-> f.rev, cursor |-> cursor, sequence |-> sequence, exp |-> deadline]]
    /\ exp <= deadline /\ \A e \in kept : e.exp <= deadline
    /\ \A b \in Nat : (exp <= b /\ \A e \in frames[h].items : e.exp <= b) => deadline <= b
    /\ kept # {} => /\ Owned(frameState[h], f) /\ cursor = frameState[h].cursor + 1
                    /\ Delta(sequence, frameState[h].sequence) \in 1 .. (SequenceSpace \div 2)

\* Every PUBLISH_FRAME that is accepted does what Published says.
LEMMA PublishFacts ==
    ASSUME KeyTypes, HistoryOfCurrentLogin, WindowInv, Publishing
    PROVE  \E f \in issued, sequence \in Nat, size \in Nat, exp \in Time, cursor \in Nat, deadline \in Time, kept \in SUBSET Frame :
               sequence < SequenceSpace /\ Published(f, sequence, size, exp, kept, cursor, deadline)
<1>1. PICK f \in issued, sequence \in Nat, size \in Nat, exp \in Nat, reset \in BOOLEAN :
          sequence < SequenceSpace /\ PUBLISH_FRAME(f, sequence, size, exp, reset)
  BY DEF Publishing
<1> DEFINE h == Account(f)
           clear == reset \/ (frameState[h] # NoKey /\ FenceOf(frameState[h]) # f)
           state == IF clear THEN NoKey ELSE frameState[h]
           live == frame_stats(IF clear THEN {} ELSE frames[h].items, now)
           cursor == IF state = NoKey THEN 1 ELSE state.cursor + 1
           deadline == Latest(live, exp)
           kept == MakeRoom(live, size)
<1>2. f \in Fence /\ Live(f) /\ h \in Accounts
  BY <1>1, FenceFacts, Zenon DEF PUBLISH_FRAME, KeyTypes
<1>3. /\ size <= MaxBytes /\ now < exp /\ exp <= session[f.sid].exp /\ session[f.sid].exp \in Time
      /\ PruneViewers(f, Recipients(f))
      /\ state # NoKey => Delta(sequence, state.sequence) \in 1 .. (SequenceSpace \div 2)
  BY <1>1, <1>2, LiveFacts, Zenon DEF PUBLISH_FRAME
<1>4. exp \in Time
  <2>1. exp \in Nat /\ exp <= session[f.sid].exp /\ session[f.sid].exp \in Time BY <1>1, <1>3, Zenon
  <2> QED BY <2>1, EarlierTime, Zenon
<1>5. cursor \in Nat
  <2>1. frameState[h] = NoKey \/ frameState[h] \in FrameStateKey BY <1>2, Zenon DEF KeyTypes, Keys
  <2>2. frameState[h] \in FrameStateKey => frameState[h].cursor \in Nat BY DEF FrameStateKey
  <2>3. state = NoKey \/ state.cursor \in Nat BY <2>1, <2>2, Zenon
  <2> HIDE DEF state
  <2> QED BY <2>3
<1>6. live \subseteq frames[h].items /\ frames[h].items \subseteq Frame
  BY <1>2, Zenon DEF frame_stats, KeyTypes, FramesKey
<1>7. IsFiniteSet(live) /\ \A e \in live : e.cursor \in Nat /\ e.exp \in Nat /\ e.exp \in Time
  <2>1. IsFiniteSet(frames[h].items) BY <1>2, Zenon DEF WindowInv
  <2>2. \A e \in Frame : e.cursor \in Nat /\ e.exp \in Nat /\ e.exp \in Time
    BY Limits DEF Frame, Time
  <2> HIDE DEF live, h
  <2> QED BY <1>6, <2>1, <2>2, FS_Subset, Zenon
<1>8. /\ frames' = [frames EXCEPT ![h] =
             [items |-> kept \cup {[cursor |-> cursor, exp |-> exp, sequence |-> sequence,
                                    size |-> size, fence |-> f]},
              exp |-> deadline]]
      /\ frameState' = [frameState EXCEPT ![h] =
             [sid |-> f.sid, rev |-> f.rev, cursor |-> cursor, sequence |-> sequence, exp |-> deadline]]
  BY <1>1, Zenon DEF PUBLISH_FRAME
<1>9. live # {} => Owned(frameState[h], f) /\ state = frameState[h]
  <2> SUFFICES ASSUME live # {} PROVE Owned(frameState[h], f) /\ state = frameState[h] OBVIOUS
  <2>1. ~clear BY DEF frame_stats
  <2>2. frames[h].items # {} BY <1>6, Zenon
  <2>3. frameState[h] # NoKey BY <1>2, <2>2, Zenon DEF HistoryOfCurrentLogin, Owned
  <2> QED BY <2>1, <2>3, Zenon DEF Owned
<1>10. live # {} => /\ Owned(frameState[h], f) /\ cursor = frameState[h].cursor + 1
                    /\ Delta(sequence, frameState[h].sequence) \in 1 .. (SequenceSpace \div 2)
  <2> SUFFICES ASSUME live # {}
               PROVE  /\ Owned(frameState[h], f) /\ cursor = frameState[h].cursor + 1
                      /\ Delta(sequence, frameState[h].sequence) \in 1 .. (SequenceSpace \div 2)
    BY Zenon
  <2>1. Owned(frameState[h], f) /\ state = frameState[h] /\ state # NoKey BY <1>9, Zenon DEF Owned
  <2> HIDE DEF state, live, h
  <2> QED BY <1>3, <2>1, Zenon
<1> HIDE DEF live, state, h
<1>11. kept \subseteq live /\ Cardinality(kept) < MaxFrames /\ Bytes(kept) + size <= MaxBytes
  BY <1>3, <1>7, MakeRoomFacts, Zenon
<1>12. \A b \in Nat : (exp <= b /\ \A e \in frames[h].items : e.exp <= b) =>
           /\ deadline \in Nat /\ deadline <= b /\ exp <= deadline /\ \A e \in live : e.exp <= deadline
  BY <1>6, <1>7, LatestFacts, Zenon
<1>13. deadline \in Time /\ exp <= deadline /\ \A e \in live : e.exp <= deadline
  <2> DEFINE most == MaxTime + SessionTtl + PresenceTtl
  <2>1. most \in Nat /\ exp <= most /\ \A e \in frames[h].items : e.exp <= most
    BY <1>4, <1>6, Limits DEF Time, Frame
  <2>2. deadline \in Nat /\ deadline <= most /\ exp <= deadline /\ \A e \in live : e.exp <= deadline
    <3> HIDE DEF most, deadline
    <3> QED BY <1>12, <2>1
  <2> QED BY <2>2 DEF Time
<1> HIDE DEF kept, deadline, cursor
<1>14. Published(f, sequence, size, exp, kept, cursor, deadline)
  <2>1. kept # {} => live # {} BY <1>11, Zenon
  <2>2. kept \subseteq frames[h].items /\ \A e \in kept : e.exp <= deadline BY <1>6, <1>11, <1>13, Zenon
  <2> QED BY <1>2, <1>3, <1>8, <1>10, <1>11, <1>12, <1>13, <2>1, <2>2, Zenon DEF Published, h
<1>15. kept \in SUBSET Frame BY <1>6, <1>11, Zenon
<1> QED BY <1>1, <1>4, <1>5, <1>13, <1>14, <1>15, Zenon

\* PUBLISH_FRAME preserves the types.
LEMMA PublishTypes ==
    ASSUME KeyTypes, HistoryOfCurrentLogin, WindowInv, setup' = setup, seen' = seen, Publishing
    PROVE  KeyTypes'
<1>1. UNCHANGED <<now, session, epoch, revision, issued, presence, index, preference,
                  channels, members, relationRevision>>
  BY ProgramFrames, Zenon
<1>2. PICK f \in issued, sequence \in Nat, size \in Nat, exp \in Time, cursor \in Nat, deadline \in Time, kept \in SUBSET Frame :
          Published(f, sequence, size, exp, kept, cursor, deadline)
  BY PublishFacts, Zenon
<1> DEFINE h == Account(f)
           new == [cursor |-> cursor, exp |-> exp, sequence |-> sequence, size |-> size, fence |-> f]
           state == [sid |-> f.sid, rev |-> f.rev, cursor |-> cursor, sequence |-> sequence, exp |-> deadline]
<1>3. f \in Fence /\ h \in Accounts /\ f.sid \in Sessions /\ f.rev \in 1 .. MaxRevision
  BY FenceFacts, Zenon DEF KeyTypes
<1>4. new \in Frame BY <1>3, Zenon DEF Frame
<1>5. state \in FrameStateKey BY <1>3, Limits DEF FrameStateKey, Time
<1>6. /\ frames' = [frames EXCEPT ![h] = [items |-> kept \cup {new}, exp |-> deadline]]
      /\ frameState' = [frameState EXCEPT ![h] = state]
      /\ kept \subseteq frames[h].items /\ PruneViewers(f, Recipients(f))
  BY <1>2, Zenon DEF Published
<1> HIDE DEF new, state
<1>7. kept \subseteq Frame BY <1>3, <1>6, Zenon DEF KeyTypes, FramesKey
<1>8. [items |-> kept \cup {new}, exp |-> deadline] \in FramesKey BY <1>4, <1>7, Zenon DEF FramesKey
<1>9. frames' \in [Accounts -> FramesKey] BY <1>6, <1>8, Zenon DEF KeyTypes
<1>10. frameState' \in [Accounts -> Keys(FrameStateKey)] BY <1>5, <1>6, Zenon DEF KeyTypes, Keys
<1> QED BY <1>1, <1>3, <1>6, <1>9, <1>10, PruneTypes, Zenon DEF KeyTypes

\* Every step keeps the types.
LEMMA TypesNext ==
    ASSUME KeyTypes, HistoryOfCurrentLogin, WindowInv, [Next]_vars
    PROVE  KeyTypes'
<1>1. setup' = setup /\ StepKinds /\ (Attaching \/ seen' = seen) BY StepCases, Zenon
<1>2. CASE Attaching BY <1>1, <1>2, AttachTypes, Zenon
<1>3. CASE ~Attaching /\ SessionProgram
  <2>1. ASSUME NEW f \in issued, NEW requested \in Nat, HEARTBEAT_SESSION(f, requested) PROVE KeyTypes'
    BY <1>1, <1>3, <2>1, HeartbeatFacts, HeartbeatTypes, Zenon
  <2> QED BY <1>1, <1>3, <2>1, OpenTypes, FenceTypes, Zenon DEF SessionProgram
<1>4. CASE ~Attaching /\ Reading
  <2>1. UNCHANGED <<now, session, epoch, revision, issued, presence, index, preference,
                    channels, members, relation, relationRevision, viewers, frameState>>
    BY <1>4, ProgramFrames, Zenon
  <2>2. PICK f \in issued, at \in Nat : READ_FRAMES(f, at) BY <1>4, Zenon DEF Reading
  <2>3. frames' = [frames EXCEPT ![Account(f)] = LiveFrames(Account(f), at)] BY <2>2, Zenon DEF READ_FRAMES
  <2>4. frames' \in [Accounts -> FramesKey] BY <2>3, LiveFramesFacts, Zenon DEF KeyTypes
  <2> QED BY <1>1, <1>4, <2>1, <2>4, Zenon DEF KeyTypes
<1>5. CASE ~Attaching /\ Listing
  <2>1. index' \in Maps(Accounts, Nat)
    <3>1. PICK X : index' = Without(index, X) BY <1>5, Zenon DEF Listing
    <3>2. index \in Maps(Accounts, Nat) BY DEF KeyTypes
    <3> QED BY <3>1, <3>2, WithoutMap, Zenon
  <2>2. UNCHANGED <<now, session, epoch, revision, issued, presence, preference, channels, members,
                    relation, relationRevision, viewers, frames, frameState>>
    BY <1>5, ProgramFrames, Zenon
  <2> QED BY <1>1, <1>5, <2>1, <2>2, Zenon DEF KeyTypes
<1>6. CASE ~Attaching /\ UNCHANGED redisKeys
  BY <1>1, <1>6, Zenon DEF redisKeys, sessionKeys, presenceKeys, channelKeys, spectatorKeys, frameKeys, KeyTypes
<1> QED BY <1>1, <1>2, <1>3, <1>4, <1>5, <1>6, PresenceTypes, ChannelTypes, RelationTypes, PublishTypes,
           TickTypes, Zenon DEF StepKinds

-----------------------------------------------------------------------------
(* Frames.                                                                 *)

\* What HistoryInv says of one host, for given values of their keys.
History(login, z, exp, state) ==
    /\ \A e \in z : (login # NoKey => e.fence = FenceOf(login)) /\ Owned(state, e.fence)
    /\ z # {} => /\ exp <= state.exp /\ (\A e \in z : e.exp <= state.exp)
                 /\ login # NoKey /\ state.exp <= login.exp

\* HistoryInv host by host.
LEMMA HistoryPointwise ==
    /\ HistoryInv <=> \A h \in Accounts : History(epoch[h], frames[h].items, frames[h].exp, frameState[h])
    /\ HistoryInv' <=> \A h \in Accounts : History(epoch'[h], frames'[h].items, frames'[h].exp, frameState'[h])
BY Zenon DEF HistoryInv, HistoryOfCurrentLogin, History, Owned, FenceOf

\* No frame contradicts no login.
LEMMA EmptyHistory ==
    ASSUME NEW login, NEW z, NEW exp, NEW state, z = {}
    PROVE  History(login, z, exp, state)
BY DEF History

\* No stored frame outlives the login it was published under.
LEMMA FramesWithin ==
    ASSUME NEW login, NEW z, NEW exp, NEW state, History(login, z, exp, state),
           \A e \in z : e.exp \in Nat, z # {} => state.exp \in Nat /\ login.exp \in Nat
    PROVE  \A e \in z : e.exp <= login.exp
BY DEF History

\* A published frame joins what is kept of the history under the new counter.
LEMMA PublishedHistory ==
    ASSUME NEW login, NEW z, NEW exp, NEW old, History(login, z, exp, old),
           NEW f, NEW kept, kept \subseteq z, NEW new, NEW state, NEW deadline \in Nat,
           login # NoKey, FenceOf(login) = f, deadline <= login.exp,
           Owned(state, f), state.exp = deadline,
           new.fence = f, new.exp <= deadline, \A e \in kept : e.exp <= deadline
    PROVE  History(login, kept \cup {new}, deadline, state)
<1>1. \A e \in kept \cup {new} : e.fence = f /\ e.exp <= deadline BY DEF History
<1>2. deadline <= state.exp BY SMT
<1> QED BY <1>1, <1>2, Zenon DEF History

\* The deadlines of stored frames are numbers.
LEMMA FrameDeadlines ==
    ASSUME KeyTypes, NEW h \in Accounts
    PROVE  \A e \in frames[h].items : e.exp \in Nat
<1>1. frames[h] \in FramesKey BY Zenon DEF KeyTypes
<1>2. frames[h].items \subseteq Frame BY <1>1, Zenon DEF FramesKey
<1> QED BY <1>2, Limits DEF Frame, Time

\* The stored frames stay those of the current login.
LEMMA HistoryNext ==
    ASSUME KeyTypes, KeyTypes', LoginInv, HistoryInv, WindowInv, StepKinds
    PROVE  HistoryInv'
<1> SUFFICES ASSUME NEW h \in Accounts
             PROVE  History(epoch'[h], frames'[h].items, frames'[h].exp, frameState'[h])
  BY HistoryPointwise
<1>1. History(epoch[h], frames[h].items, frames[h].exp, frameState[h]) BY HistoryPointwise, Zenon
<1>2. HistoryOfCurrentLogin BY DEF HistoryInv
<1>3. CASE frames'[h] = NoFrames BY <1>3 DEF NoFrames, History
<1>4. ASSUME frames[h].items # {}
      PROVE  /\ frameState[h] \in FrameStateKey /\ frameState[h] # NoKey /\ frameState[h].exp \in Nat
             /\ epoch[h] # NoKey /\ epoch[h].exp \in Nat /\ frames[h].exp \in Nat
  <2>1. frameState[h] # NoKey /\ epoch[h] # NoKey BY <1>1, <1>4, Zenon DEF History, Owned
  <2>2. epoch[h].exp \in Nat BY <2>1, CurrentLogin, Zenon
  <2> QED BY <2>1, <2>2, Limits DEF KeyTypes, Keys, FrameStateKey, FramesKey, Time
<1>5. CASE Publishing
  <2>1. epoch' = epoch BY <1>5, ProgramFrames, Zenon
  <2>2. PICK f \in issued, sequence \in Nat, size \in Nat, exp \in Time, cursor \in Nat, deadline \in Time, kept \in SUBSET Frame :
            Published(f, sequence, size, exp, kept, cursor, deadline)
    BY <1>2, <1>5, PublishFacts, Zenon
  <2>3. f \in Fence /\ Account(f) \in Accounts /\ f.sid \in Sessions BY FenceFacts, Zenon DEF KeyTypes
  <2>4. CASE h # Account(f)
    <3>1. frames'[h] = frames[h] /\ frameState'[h] = frameState[h]
      BY <2>2, <2>3, <2>4, Zenon DEF Published, KeyTypes
    <3> QED BY <1>1, <2>1, <3>1, Zenon
  <2>5. CASE h = Account(f)
    <3> DEFINE new == [cursor |-> cursor, exp |-> exp, sequence |-> sequence, size |-> size, fence |-> f]
               state == [sid |-> f.sid, rev |-> f.rev, cursor |-> cursor, sequence |-> sequence, exp |-> deadline]
    <3>1. frames'[h] = [items |-> kept \cup {new}, exp |-> deadline] /\ frameState'[h] = state
      BY <2>2, <2>3, <2>5, Zenon DEF Published, KeyTypes
    <3>2. /\ Live(f) /\ kept \subseteq frames[h].items /\ exp <= session[f.sid].exp
          /\ exp <= deadline /\ \A e \in kept : e.exp <= deadline
          /\ \A b \in Nat : (exp <= b /\ \A e \in frames[h].items : e.exp <= b) => deadline <= b
      BY <2>2, <2>5, Zenon DEF Published
    <3>3. /\ epoch[h] # NoKey /\ FenceOf(epoch[h]) = f /\ session[f.sid] # NoKey
      BY <2>3, <2>5, <3>2, LiveFacts, Zenon DEF Owned
    <3>4. epoch[h].exp = session[f.sid].exp /\ epoch[h].exp \in Nat
      BY <2>3, <2>5, <3>3, StoredIsEpoch, CurrentLogin, Zenon DEF Account
    <3>5. state \in FrameStateKey /\ FenceOf(state) = f /\ state.exp = deadline
      BY <2>3, FenceFacts, Limits DEF FrameStateKey, FenceOf, Time
    <3>6. Owned(state, f)
      <4> HIDE DEF state
      <4> QED BY <3>5, StoredIsKey, Zenon DEF Owned
    <3>7. \A e \in frames[h].items : e.exp <= epoch[h].exp
      BY <1>1, <1>4, FrameDeadlines, FramesWithin, Zenon
    <3>8. deadline <= epoch[h].exp BY <3>2, <3>4, <3>7, Zenon
    <3>9. new.fence = f /\ new.exp = exp /\ deadline \in Nat BY Limits DEF Time
    <3>10. History(epoch[h], kept \cup {new}, deadline, state)
      <4> HIDE DEF state, new
      <4> QED BY <1>1, <3>2, <3>3, <3>5, <3>6, <3>8, <3>9, PublishedHistory, Zenon
    <3> HIDE DEF state, new
    <3> QED BY <2>1, <3>1, <3>10
  <2> QED BY <2>4, <2>5, Zenon
<1>6. CASE Tick
  <2>1. /\ epoch'[h] = Expire(epoch[h], now + 1) /\ frameState'[h] = Expire(frameState[h], now + 1)
        /\ frames'[h] = IF frames[h].exp <= now + 1 THEN NoFrames ELSE frames[h]
        /\ now \in Nat
    BY <1>6, ClockFacts, Zenon DEF Tick
  <2>2. CASE frames[h].items = {}
    <3>1. frames'[h].items = {} BY <2>1, <2>2 DEF NoFrames
    <3> QED BY <3>1, EmptyHistory, Zenon
  <2>3. CASE frames[h].items # {} /\ ~(frames[h].exp <= now + 1)
    <3>1. /\ frames[h].exp <= frameState[h].exp /\ frameState[h].exp <= epoch[h].exp
      BY <1>1, <2>3, Zenon DEF History
    <3>2. ~(frameState[h].exp <= now + 1) /\ ~(epoch[h].exp <= now + 1) BY <1>4, <2>1, <2>3, <3>1
    <3>3. epoch'[h] = epoch[h] /\ frameState'[h] = frameState[h] /\ frames'[h] = frames[h]
      BY <1>4, <2>1, <2>3, <3>2, Zenon DEF Expire
    <3> QED BY <1>1, <3>3, Zenon
  <2> QED BY <1>3, <2>1, <2>2, <2>3, Zenon
<1>7. CASE ~Publishing /\ ~Tick /\ frames'[h] # NoFrames
  <2>1. /\ frameState'[h] = frameState[h]
        /\ frames'[h] = frames[h] \/ \E at \in Nat : frames'[h] = LiveFrames(h, at)
    BY <1>2, <1>7, FrameSteps, Zenon
  <2>2. History(epoch[h], frames'[h].items, frames'[h].exp, frameState[h])
    <3>1. CASE frames'[h] = frames[h] BY <1>1, <3>1, Zenon
    <3>2. ASSUME NEW at \in Nat, frames'[h] = LiveFrames(h, at)
          PROVE  History(epoch[h], frames'[h].items, frames'[h].exp, frameState[h])
      <4>1. frames'[h].items \subseteq frames[h].items BY <3>2, LiveFramesFacts, Zenon
      <4>2. frames'[h].items # {} => frames'[h].exp <= frameState[h].exp
        BY <1>1, <1>4, <3>2, <4>1, LiveFramesFacts, Zenon DEF History
      <4> QED BY <1>1, <4>1, <4>2, Zenon DEF History
    <3> QED BY <2>1, <3>1, <3>2, Zenon
  <2>3. CASE epoch'[h] = epoch[h] BY <2>1, <2>2, <2>3, Zenon
  <2>4. CASE /\ epoch[h] # NoKey /\ epoch'[h] # NoKey /\ FenceOf(epoch'[h]) = FenceOf(epoch[h])
             /\ epoch[h].exp <= epoch'[h].exp /\ epoch[h].exp \in Nat /\ epoch'[h].exp \in Nat
    <3>1. frames'[h].items # {} => frameState[h].exp <= epoch[h].exp /\ frameState[h].exp \in Nat
      <4>1. frames'[h].items # {} => frameState[h] # NoKey BY <2>2, Zenon DEF History, Owned
      <4> QED BY <2>2, <4>1, Zenon DEF History, KeyTypes, Keys, FrameStateKey
    <3>2. frames'[h].items # {} => frameState[h].exp <= epoch'[h].exp BY <2>4, <3>1
    <3> QED BY <2>1, <2>2, <2>4, <3>2, Zenon DEF History
  <2> QED BY <1>7, <2>3, <2>4, EpochSteps, Zenon
<1> QED BY <1>3, <1>5, <1>6, <1>7, Zenon

\* What WindowInv says of one host.
Window(z, state) ==
    /\ IsFiniteSet(z) /\ Cardinality(z) <= MaxFrames /\ Bytes(z) <= MaxBytes
    /\ \A d, e \in z : d.cursor = e.cursor => d = e
    /\ \A d, e \in z : e.cursor = d.cursor + 1 => Delta(e.sequence, d.sequence) \in 1 .. (SequenceSpace \div 2)
    /\ \A e \in z : /\ e.size <= MaxBytes /\ e.cursor <= state.cursor
                    /\ e.cursor = state.cursor => e.sequence = state.sequence

\* WindowInv host by host.
LEMMA WindowPointwise ==
    /\ WindowInv <=> \A h \in Accounts : Window(frames[h].items, frameState[h])
    /\ WindowInv' <=> \A h \in Accounts : Window(frames'[h].items, frameState'[h])
BY Zenon DEF WindowInv, FrameWindow, Window, Bytes, Delta

\* Dropping frames keeps the window.
LEMMA WindowSubset ==
    ASSUME NEW z, NEW state, Window(z, state), NEW y \in SUBSET z
    PROVE  Window(y, state)
<1>1. IsFiniteSet(z) /\ Cardinality(z) <= MaxFrames /\ Bytes(z) <= MaxBytes BY DEF Window
<1>2. IsFiniteSet(y) /\ Cardinality(y) <= Cardinality(z) /\ Cardinality(y) \in Nat /\ Cardinality(z) \in Nat
  BY <1>1, FS_Subset, FS_CardinalityType, Zenon
<1>3. Bytes(y) \in Nat /\ Bytes(z) \in Nat /\ Bytes(y) <= Bytes(z) BY <1>1, BytesFacts, Zenon
<1>4. Cardinality(y) <= MaxFrames /\ Bytes(y) <= MaxBytes BY <1>1, <1>2, <1>3, Limits
<1> QED BY <1>2, <1>4, Zenon DEF Window

\* No frames are within every bound.
LEMMA WindowEmpty ==
    ASSUME NEW state
    PROVE  Window({}, state)
<1>1. {b \in {} \X (1 .. MaxBytes) : b[2] <= b[1].size} = {} OBVIOUS
<1>2. Bytes({}) = 0 BY <1>1, FS_EmptySet, Zenon DEF Bytes
<1> QED BY <1>2, FS_EmptySet, Limits DEF Window

\* The window stays within its bounds and in order.
LEMMA WindowNext ==
    ASSUME KeyTypes, LoginInv, HistoryInv, WindowInv, StepKinds
    PROVE  WindowInv'
<1> SUFFICES ASSUME NEW h \in Accounts PROVE Window(frames'[h].items, frameState'[h])
  BY WindowPointwise, Zenon
<1>1. Window(frames[h].items, frameState[h]) BY WindowPointwise
<1>2. HistoryOfCurrentLogin BY DEF HistoryInv
<1>3. CASE frames'[h] = NoFrames BY <1>3, WindowEmpty DEF NoFrames
<1>4. CASE Publishing
  <2>1. PICK f \in issued, sequence \in Nat, size \in Nat, exp \in Time, cursor \in Nat, deadline \in Time, kept \in SUBSET Frame :
            Published(f, sequence, size, exp, kept, cursor, deadline)
    BY <1>2, <1>4, PublishFacts, Zenon
  <2>2. Account(f) \in Accounts BY FenceFacts, Zenon DEF KeyTypes
  <2>3. CASE h # Account(f)
    <3>1. frames'[h] = frames[h] /\ frameState'[h] = frameState[h]
      BY <2>1, <2>2, <2>3, Zenon DEF Published, KeyTypes
    <3> QED BY <1>1, <3>1, Zenon
  <2>4. CASE h = Account(f)
    <3> DEFINE new == [cursor |-> cursor, exp |-> exp, sequence |-> sequence, size |-> size, fence |-> f]
               state == [sid |-> f.sid, rev |-> f.rev, cursor |-> cursor, sequence |-> sequence, exp |-> deadline]
    <3>1. frames'[h] = [items |-> kept \cup {new}, exp |-> deadline] /\ frameState'[h] = state
      BY <2>1, <2>2, <2>4, Zenon DEF Published, KeyTypes
    <3>2. /\ size <= MaxBytes /\ kept \subseteq frames[h].items
          /\ Cardinality(kept) < MaxFrames /\ Bytes(kept) + size <= MaxBytes
          /\ kept # {} => /\ Owned(frameState[h], f) /\ cursor = frameState[h].cursor + 1
                          /\ Delta(sequence, frameState[h].sequence) \in 1 .. (SequenceSpace \div 2)
      BY <2>1, <2>4, Zenon DEF Published
    <3>3. Window(kept, frameState[h]) BY <1>1, <3>2, WindowSubset, Zenon
    <3>4. kept # {} => frameState[h].cursor \in Nat
      BY <3>2 DEF Owned, KeyTypes, Keys, FrameStateKey
    <3>5. \A e \in kept : /\ e.cursor \in Nat /\ e.cursor < cursor
                          /\ cursor = e.cursor + 1 => Delta(sequence, e.sequence) \in 1 .. (SequenceSpace \div 2)
      <4> SUFFICES ASSUME NEW e \in kept
                   PROVE  /\ e.cursor \in Nat /\ e.cursor < cursor
                          /\ cursor = e.cursor + 1 => Delta(sequence, e.sequence) \in 1 .. (SequenceSpace \div 2)
        BY Zenon
      <4>1. e.cursor \in Nat BY Zenon DEF Frame
      <4>2. e.cursor <= frameState[h].cursor /\ (e.cursor = frameState[h].cursor => e.sequence = frameState[h].sequence)
        BY <3>3, Zenon DEF Window
      <4>3. cursor = frameState[h].cursor + 1 /\ frameState[h].cursor \in Nat BY <3>2, <3>4, Zenon
      <4>4. e.cursor < cursor BY <4>1, <4>2, <4>3
      <4>5. cursor = e.cursor + 1 => e.cursor = frameState[h].cursor BY <4>1, <4>3
      <4> QED BY <3>2, <4>1, <4>2, <4>4, <4>5, Zenon
    <3>6. /\ new.cursor = cursor /\ new.sequence = sequence /\ new.size = size
          /\ state.cursor = cursor /\ state.sequence = sequence
      BY Zenon
    <3> HIDE DEF new, state
    <3>7. IsFiniteSet(kept) BY <3>3, Zenon DEF Window
    <3>8. IsFiniteSet(kept \cup {new}) /\ Cardinality(kept \cup {new}) <= MaxFrames
      <4>1. Cardinality(kept) \in Nat BY <3>7, FS_CardinalityType, Zenon
      <4>2. /\ IsFiniteSet(kept \cup {new})
            /\ Cardinality(kept \cup {new}) = IF new \in kept THEN Cardinality(kept) ELSE Cardinality(kept) + 1
        BY <3>7, FS_AddElement, Zenon
      <4>3. Cardinality(kept) + 1 <= MaxFrames BY <3>2, <4>1, Limits
      <4> QED BY <4>1, <4>2, <4>3, Limits
    <3>9. Bytes(kept \cup {new}) <= MaxBytes
      <4>1. IsFiniteSet(kept \cup {new}) BY <3>8, Zenon
      <4>2. Bytes(kept \cup {new}) \in Nat /\ Bytes(kept) \in Nat BY <3>7, <4>1, BytesFacts, Zenon
      <4>3. Bytes(kept \cup {new}) <= Bytes(kept) + size BY <3>6, <3>7, BytesFacts, Zenon
      <4> QED BY <3>2, <4>2, <4>3, Limits
    <3>10. \A d, e \in kept \cup {new} : d.cursor = e.cursor => d = e
      <4>1. \A d, e \in kept : d.cursor = e.cursor => d = e BY <3>3, Zenon DEF Window
      <4> QED BY <3>5, <3>6, <4>1
    <3>11. \A d, e \in kept \cup {new} : e.cursor = d.cursor + 1 =>
               Delta(e.sequence, d.sequence) \in 1 .. (SequenceSpace \div 2)
      <4>1. \A d, e \in kept : e.cursor = d.cursor + 1 =>
                Delta(e.sequence, d.sequence) \in 1 .. (SequenceSpace \div 2)
        BY <3>3, Zenon DEF Window
      <4>2. \A d \in kept \cup {new} : cursor = d.cursor + 1 => d \in kept BY <3>6
      <4>3. \A d \in kept : ~(d.cursor = cursor + 1) BY <3>5
      <4> QED BY <3>5, <3>6, <4>1, <4>2, <4>3, Zenon
    <3>12. \A e \in kept \cup {new} : /\ e.size <= MaxBytes /\ e.cursor <= state.cursor
                                      /\ e.cursor = state.cursor => e.sequence = state.sequence
      <4>1. \A e \in kept : e.size <= MaxBytes BY <3>3, Zenon DEF Window
      <4> QED BY <3>2, <3>5, <3>6, <4>1
    <3>13. Window(kept \cup {new}, state) BY <3>8, <3>9, <3>10, <3>11, <3>12, Zenon DEF Window
    <3> QED BY <3>1, <3>13
  <2> QED BY <2>3, <2>4, Zenon
<1>5. CASE Tick
  <2>1. /\ frameState'[h] = Expire(frameState[h], now + 1) /\ now \in Nat
        /\ frames'[h] = IF frames[h].exp <= now + 1 THEN NoFrames ELSE frames[h]
    BY <1>5, ClockFacts, Zenon DEF Tick
  <2>2. CASE frames[h].items = {} BY <2>1, <2>2, WindowEmpty DEF NoFrames
  <2>3. CASE frames[h].items # {} /\ ~(frames[h].exp <= now + 1)
    <3>1. frames[h].exp <= frameState[h].exp /\ frameState[h] # NoKey
      BY <2>3, Zenon DEF HistoryInv, HistoryOfCurrentLogin, Owned
    <3>2. frameState[h].exp \in Nat /\ frames[h].exp \in Nat
      BY <3>1, Limits DEF KeyTypes, Keys, FrameStateKey, FramesKey, Time
    <3>3. ~(frameState[h].exp <= now + 1) BY <2>1, <2>3, <3>1, <3>2
    <3>4. frameState'[h] = frameState[h] /\ frames'[h] = frames[h] BY <2>1, <2>3, <3>1, <3>3, Zenon DEF Expire
    <3> QED BY <1>1, <3>4, Zenon
  <2> QED BY <1>3, <2>1, <2>2, <2>3, Zenon
<1>6. CASE ~Publishing /\ ~Tick /\ frames'[h] # NoFrames
  <2>1. /\ frameState'[h] = frameState[h]
        /\ frames'[h] = frames[h] \/ \E at \in Nat : frames'[h] = LiveFrames(h, at)
    BY <1>2, <1>6, FrameSteps, Zenon
  <2>2. frames'[h].items \subseteq frames[h].items BY <2>1, LiveFramesFacts, Zenon
  <2> QED BY <1>1, <2>1, <2>2, WindowSubset, Zenon
<1> QED BY <1>3, <1>4, <1>5, <1>6, Zenon

-----------------------------------------------------------------------------
(* The online index.                                                       *)

\* What IndexInv says of the index z when the presences are p.
Indexed(z, p) ==
    /\ \A a \in Accounts : p[a] # NoKey => a \in DOMAIN z /\ z[a] = p[a].exp
    /\ Capacity > 0 => IsFiniteSet(DOMAIN z) /\ Cardinality(DOMAIN z) <= Capacity

\* Entries that belong to nobody online may go, and the index expires only
\* when nobody is online.
LEMMA IndexShrinks ==
    ASSUME NEW z \in Maps(Accounts, Nat), NEW p, Indexed(z, p), NEW y \in Maps(Accounts, Nat),
           DOMAIN y \subseteq DOMAIN z, \A x \in DOMAIN y : y[x] = z[x],
           NEW q, \A a \in Accounts : q[a] # NoKey => q[a] = p[a] /\ a \in DOMAIN y,
           Capacity \in Nat
    PROVE  Indexed(y, q)
<1>1. \A a \in Accounts : q[a] # NoKey => a \in DOMAIN y /\ y[a] = q[a].exp BY Zenon DEF Indexed
<1>2. ASSUME Capacity > 0 PROVE IsFiniteSet(DOMAIN y) /\ Cardinality(DOMAIN y) <= Capacity
  <2>1. IsFiniteSet(DOMAIN z) /\ Cardinality(DOMAIN z) <= Capacity BY <1>2, Zenon DEF Indexed
  <2>2. /\ IsFiniteSet(DOMAIN y) /\ Cardinality(DOMAIN y) <= Cardinality(DOMAIN z)
        /\ Cardinality(DOMAIN y) \in Nat /\ Cardinality(DOMAIN z) \in Nat
    BY <2>1, FS_Subset, FS_CardinalityType, Zenon
  <2> QED BY <2>1, <2>2
<1> QED BY <1>1, <1>2, Zenon DEF Indexed

\* ZREM removes the entries it names.
LEMMA IndexWithout ==
    ASSUME NEW z \in Maps(Accounts, Nat), NEW X
    PROVE  /\ Without(z, X) \in Maps(Accounts, Nat)
           /\ DOMAIN Without(z, X) = DOMAIN z \ X
           /\ \A x \in DOMAIN Without(z, X) : Without(z, X)[x] = z[x]
<1>1. Without(z, X) \in Maps(Accounts, Nat) BY WithoutMap, Zenon
<1>2. /\ DOMAIN Without(z, X) = DOMAIN z \ X
      /\ \A x \in DOMAIN Without(z, X) : Without(z, X)[x] = z[x]
  BY DEF Without
<1> QED BY <1>1, <1>2, Zenon

\* A sorted set that lists somebody online is not deleted.
LEMMA IndexRefreshes ==
    ASSUME NEW z \in Maps(Accounts, Nat), NEW p, Indexed(z, p), Capacity \in Nat,
           \A a \in Accounts : p[a] # NoKey => now < p[a].exp
    PROVE  Indexed(refresh_expiring_index(z), p)
<1>1. CASE refresh_expiring_index(z) = z BY <1>1, Zenon
<1>2. CASE refresh_expiring_index(z) # z
  <2>1. refresh_expiring_index(z) = Empty BY <1>2, RefreshMap, Zenon
  <2>2. \A a \in Accounts : p[a] = NoKey
    <3> SUFFICES ASSUME NEW a \in Accounts, p[a] # NoKey PROVE FALSE BY Zenon
    <3>1. a \in DOMAIN z /\ z[a] > now BY Zenon DEF Indexed
    <3> QED BY <1>2, <3>1, RefreshMap, Zenon
  <2>3. DOMAIN Empty = {} BY Zenon DEF Empty
  <2>4. Indexed(Empty, p) BY <2>2, <2>3, FS_EmptySet DEF Indexed
  <2> QED BY <2>1, <2>4, Zenon
<1> QED BY <1>1, <1>2, Zenon

\* One entry is written, for an account already listed or one there is room for.
LEMMA IndexGrows ==
    ASSUME NEW z \in Maps(Accounts, Nat), NEW p, Indexed(z, p), Capacity \in Nat,
           NEW k \in Accounts, NEW exp \in Nat,
           Capacity > 0 => (k \in DOMAIN z \/ Cardinality(DOMAIN z) < Capacity),
           NEW q, q[k] # NoKey => q[k].exp = exp, \A a \in Accounts \ {k} : q[a] = p[a]
    PROVE  Indexed(Put(z, k, exp), q)
<1>1. /\ DOMAIN Put(z, k, exp) = DOMAIN z \cup {k} /\ Put(z, k, exp)[k] = exp
      /\ \A x \in DOMAIN z \ {k} : Put(z, k, exp)[x] = z[x]
  BY Zenon DEF Put
<1>2. \A a \in Accounts : q[a] # NoKey => a \in DOMAIN Put(z, k, exp) /\ Put(z, k, exp)[a] = q[a].exp
  BY <1>1, Zenon DEF Indexed
<1>3. ASSUME Capacity > 0
      PROVE  IsFiniteSet(DOMAIN z \cup {k}) /\ Cardinality(DOMAIN z \cup {k}) <= Capacity
  <2>1. IsFiniteSet(DOMAIN z) /\ Cardinality(DOMAIN z) <= Capacity /\ Cardinality(DOMAIN z) \in Nat
    BY <1>3, FS_CardinalityType, Zenon DEF Indexed
  <2>2. /\ IsFiniteSet(DOMAIN z \cup {k})
        /\ Cardinality(DOMAIN z \cup {k}) = IF k \in DOMAIN z THEN Cardinality(DOMAIN z) ELSE Cardinality(DOMAIN z) + 1
    BY <2>1, FS_AddElement, Zenon
  <2> QED BY <1>3, <2>1, <2>2
<1> QED BY <1>1, <1>2, <1>3, Zenon DEF Indexed

\* The online index keeps its promises.
LEMMA IndexNext ==
    ASSUME KeyTypes, KeyTypes', LoginInv, PresenceInv, PresenceInv', IndexInv, StepKinds, setup' = setup
    PROVE  IndexInv'
<1>1. Readers' = Readers /\ Capacity' = Capacity /\ Capacity \in Nat
  BY StateAssumption, Zenon DEF Readers, Capacity, KeyTypes
<1> SUFFICES ASSUME Readers = {} PROVE Indexed(index', presence')
  BY <1>1, Zenon DEF IndexInv, Indexed, Readers, Capacity
<1>2. Indexed(index, presence) BY DEF IndexInv, Indexed
<1>3. index \in Maps(Accounts, Nat) /\ index' \in Maps(Accounts, Nat) BY Zenon DEF KeyTypes
<1>4. /\ \A a \in Accounts : presence[a] # NoKey => now < presence[a].exp
      /\ \A a \in Accounts : presence'[a] # NoKey => now' < presence'[a].exp
  BY DEF PresenceInv
<1>5. CASE UNCHANGED <<index, presence>>
  <2>1. index' = index /\ presence' = presence BY <1>5, Zenon
  <2> QED BY <1>2, <2>1, Zenon
<1>6. ASSUME NEW a \in Accounts, index' = refresh_expiring_index(Without(index, {a})), now' = now,
             presence'[a] = NoKey, \A b \in Accounts \ {a} : presence'[b] = presence[b]
      PROVE  Indexed(index', presence')
  <2> DEFINE y == Without(index, {a})
  <2>1. y \in Maps(Accounts, Nat) /\ DOMAIN y = DOMAIN index \ {a} /\ \A x \in DOMAIN y : y[x] = index[x]
    BY <1>3, IndexWithout, Zenon
  <2>2. \A b \in Accounts : presence'[b] # NoKey => presence'[b] = presence[b] /\ b \in DOMAIN y
    BY <1>2, <1>6, <2>1, Zenon DEF Indexed
  <2> HIDE DEF y
  <2>3. Indexed(y, presence') BY <1>1, <1>2, <1>3, <2>1, <2>2, IndexShrinks
  <2>4. Indexed(refresh_expiring_index(y), presence') BY <1>1, <1>4, <1>6, <2>1, <2>3, IndexRefreshes, Zenon
  <2> QED BY <1>6, <2>4, Zenon DEF y
<1>7. ASSUME NEW a \in Accounts, NEW f, DropOwned(a, f), now' = now PROVE Indexed(index', presence')
  <2>1. presence'[a] = NoKey /\ \A b \in Accounts \ {a} : presence'[b] = presence[b]
    BY <1>7, DropPresence, Zenon
  <2>2. index' = refresh_expiring_index(Without(index, {a})) BY <1>7, Zenon DEF DropOwned
  <2> QED BY <1>6, <1>7, <2>1, <2>2, Zenon
<1>8. ASSUME NEW s \in Sessions, NEW requested \in Nat, OPEN_SESSION(s, requested)
      PROVE  Indexed(index', presence')
  <2>1. PICK f : DropOwned(Owner[s], f) BY <1>8, Zenon DEF OPEN_SESSION
  <2>2. Owner[s] \in Accounts /\ now' = now BY <1>8, Limits, Zenon DEF OPEN_SESSION
  <2> QED BY <1>7, <2>1, <2>2, Zenon
<1>9. ASSUME NEW f \in issued, FENCE_SESSION(f) PROVE Indexed(index', presence')
  BY <1>7, <1>9, LogoutFacts, FenceFacts, Zenon
<1>10. ASSUME NEW f \in issued, NEW exp \in Time, session[f.sid].exp <= exp, Heartbeat(f, exp)
       PROVE  Indexed(index', presence')
  <2> DEFINE a == Account(f) until == Smaller(exp, now + PresenceTtl)
  <2>1. a \in Accounts /\ exp \in Nat /\ now' = now BY <1>10, BeatFacts, Zenon
  <2>2. CASE ~Owned(presence[a], f) BY <1>5, <1>10, <2>2, Zenon DEF Heartbeat
  <2>3. CASE Owned(presence[a], f)
    <3>1. /\ presence' = [presence EXCEPT ![a] = [presence[a] EXCEPT !.exp = until]]
          /\ index' = refresh_expiring_index(Put(index, a, until))
      BY <1>10, <2>3, Zenon DEF Heartbeat
    <3>2. until \in Nat BY <2>1, ClockFacts, Limits DEF Smaller
    <3>3. presence[a] \in Expiring BY <2>1, <2>3, Zenon DEF KeyTypes, Keys, Owned
    <3>4. a \in DOMAIN index BY <1>2, <2>1, <2>3, Zenon DEF Indexed, Owned
    <3> HIDE DEF until, a
    <3>5. presence'[a].exp = until /\ \A b \in Accounts \ {a} : presence'[b] = presence[b]
      BY <2>1, <3>1, <3>3, Zenon DEF Expiring, KeyTypes
    <3>6. Indexed(Put(index, a, until), presence') BY <1>1, <1>2, <1>3, <2>1, <3>2, <3>4, <3>5, IndexGrows
    <3>7. Put(index, a, until) \in Maps(Accounts, Nat) BY <1>3, <2>1, <3>2, PutMap, Zenon
    <3>8. Indexed(refresh_expiring_index(Put(index, a, until)), presence')
      BY <1>1, <1>4, <2>1, <3>6, <3>7, IndexRefreshes, Zenon
    <3> QED BY <3>1, <3>8, Zenon
  <2> QED BY <2>2, <2>3, Zenon
<1>11. ASSUME NEW f \in issued, NEW requested \in Nat, HEARTBEAT_SESSION(f, requested)
       PROVE  Indexed(index', presence')
  BY <1>10, <1>11, HeartbeatFacts, Zenon
<1>12. ASSUME NEW f \in issued, NEW exp \in Nat, NEW capacity \in {0, Capacity},
              capacity = 0 => Account(f) \in DOMAIN index, SET_PRESENCE(f, exp, capacity)
       PROVE  Indexed(index', presence')
  <2> DEFINE a == Account(f) y == IndexFor(capacity)
             new == [sid |-> f.sid, rev |-> f.rev, exp |-> exp]
  <2>1. a \in Accounts /\ now' = now BY <1>12, FenceFacts, Zenon DEF KeyTypes, SET_PRESENCE
  <2>2. /\ y \in Maps(Accounts, Nat) /\ DOMAIN y \subseteq DOMAIN index /\ \A x \in DOMAIN y : y[x] = index[x]
        /\ \A x \in DOMAIN index : ~(index[x] <= now) => x \in DOMAIN y
    <3>1. CASE capacity = 0 BY <1>3, <3>1, Zenon DEF IndexFor
    <3>2. CASE capacity # 0
      <4> DEFINE X == {x \in DOMAIN index : index[x] <= now}
      <4>1. y = Without(index, X) BY <3>2, Zenon DEF IndexFor
      <4>2. \A x \in DOMAIN index : ~(index[x] <= now) => x \in DOMAIN index \ X BY Zenon
      <4> HIDE DEF X, y
      <4>3. y \in Maps(Accounts, Nat) /\ DOMAIN y = DOMAIN index \ X /\ \A x \in DOMAIN y : y[x] = index[x]
        <5>1. /\ Without(index, X) \in Maps(Accounts, Nat) /\ DOMAIN Without(index, X) = DOMAIN index \ X
              /\ \A x \in DOMAIN Without(index, X) : Without(index, X)[x] = index[x]
          BY <1>3, IndexWithout, Zenon
        <5> QED BY <4>1, <5>1, Zenon
      <4> QED BY <4>2, <4>3, Zenon
    <3> QED BY <3>1, <3>2, Zenon
  <2>3. \A b \in Accounts : presence[b] # NoKey => b \in DOMAIN y
    <3> SUFFICES ASSUME NEW b \in Accounts, presence[b] # NoKey PROVE b \in DOMAIN y OBVIOUS
    <3>1. b \in DOMAIN index /\ index[b] = presence[b].exp BY <1>2, Zenon DEF Indexed
    <3>2. index[b] \in Nat /\ now \in Nat BY <1>3, <3>1, MapFacts, ClockFacts, Zenon DEF KeyTypes
    <3>3. ~(index[b] <= now) BY <1>4, <3>1, <3>2
    <3> QED BY <2>2, <3>1, <3>3, Zenon
  <2>4. Indexed(y, presence)
    <3> HIDE DEF y
    <3> QED BY <1>1, <1>2, <1>3, <2>2, <2>3, IndexShrinks, Zenon
  <2>5. CASE Full(y, a, capacity)
    <3>1. index' = refresh_expiring_index(y) /\ presence' = presence BY <1>12, <2>5, Zenon DEF SET_PRESENCE
    <3>2. Indexed(refresh_expiring_index(y), presence)
      <4> HIDE DEF y
      <4> QED BY <1>1, <1>4, <2>2, <2>4, IndexRefreshes, Zenon
    <3> QED BY <3>1, <3>2, Zenon
  <2>6. CASE ~Full(y, a, capacity)
    <3>1. /\ index' = refresh_expiring_index(Put(y, a, exp)) /\ presence' = [presence EXCEPT ![a] = new]
      BY <1>12, <2>6, Zenon DEF SET_PRESENCE
    <3>2. ASSUME Capacity > 0 PROVE a \in DOMAIN y \/ Cardinality(DOMAIN y) < Capacity
      <4>1. CASE capacity = 0 BY <1>12, <4>1, Zenon DEF IndexFor
      <4>2. CASE capacity = Capacity /\ capacity > 0
        <5>1. a \in DOMAIN y \/ ~(Cardinality(DOMAIN y) >= capacity) BY <2>6, <4>2, Zenon DEF Full
        <5>2. IsFiniteSet(DOMAIN y) BY <2>4, <3>2, Zenon DEF Indexed
        <5>3. Cardinality(DOMAIN y) \in Nat BY <5>2, FS_CardinalityType, Zenon
        <5> QED BY <1>1, <4>2, <5>1, <5>3
      <4> QED BY <1>1, <3>2, <4>1, <4>2, Zenon
    <3>3. new.exp = exp OBVIOUS
    <3> HIDE DEF new, y, a
    <3>4. presence'[a] = new /\ \A b \in Accounts \ {a} : presence'[b] = presence[b]
      BY <2>1, <3>1, Zenon DEF KeyTypes
    <3>5. Indexed(Put(y, a, exp), presence') BY <1>1, <2>1, <2>2, <2>4, <3>2, <3>3, <3>4, IndexGrows
    <3>6. Put(y, a, exp) \in Maps(Accounts, Nat) BY <2>1, <2>2, PutMap, Zenon
    <3>7. Indexed(refresh_expiring_index(Put(y, a, exp)), presence')
      BY <1>1, <1>4, <2>1, <3>5, <3>6, IndexRefreshes, Zenon
    <3> QED BY <3>1, <3>7, Zenon
  <2> QED BY <2>5, <2>6, Zenon
<1>13. ASSUME NEW f \in issued, CLEAR_PRESENCE(Account(f), f) PROVE Indexed(index', presence')
  <2>1. Account(f) \in Accounts BY FenceFacts, Zenon DEF KeyTypes
  <2>2. /\ presence'[Account(f)] = NoKey /\ \A b \in Accounts \ {Account(f)} : presence'[b] = presence[b]
        /\ index' = refresh_expiring_index(Without(index, {Account(f)})) /\ now' = now
    BY <1>13, <2>1, Zenon DEF CLEAR_PRESENCE, KeyTypes
  <2> QED BY <1>6, <2>1, <2>2, Zenon
<1>14. ASSUME NEW f \in issued, SET_PREFERENCE(f) PROVE Indexed(index', presence')
  BY <1>5, <1>14, Zenon DEF SET_PREFERENCE
<1>15. CASE Tick
  <2>1. /\ now' = now + 1 /\ presence' = [a \in Accounts |-> Expire(presence[a], now + 1)]
        /\ index' = ExpireMap(index, now + 1)
    BY <1>15, Zenon DEF Tick
  <2>2. \A b \in Accounts : presence'[b] # NoKey => presence'[b] = presence[b] BY <2>1, Zenon DEF Expire
  <2>3. CASE index' = index
    <3>1. \A b \in Accounts : presence'[b] # NoKey => b \in DOMAIN index' BY <1>2, <2>2, <2>3, Zenon DEF Indexed
    <3> QED BY <1>1, <1>2, <1>3, <2>2, <2>3, <3>1, IndexShrinks
  <2>4. CASE index' # index
    <3>1. index' = Empty /\ \A x \in DOMAIN index : ~(index[x] > now + 1) BY <2>1, <2>4, Zenon DEF ExpireMap
    <3>2. \A b \in Accounts : presence'[b] = NoKey
      <4> SUFFICES ASSUME NEW b \in Accounts, presence'[b] # NoKey PROVE FALSE BY Zenon
      <4>1. b \in DOMAIN index /\ index[b] = presence[b].exp /\ now + 1 < presence[b].exp
        BY <1>2, <1>4, <2>1, <2>2, Zenon DEF Indexed
      <4> QED BY <3>1, <4>1, Zenon
    <3>3. DOMAIN Empty = {} BY Zenon DEF Empty
    <3>4. Indexed(Empty, presence') BY <1>1, <3>2, <3>3, FS_EmptySet DEF Indexed
    <3> QED BY <3>1, <3>4, Zenon
  <2> QED BY <2>3, <2>4, Zenon
<1>16. ~Listing BY Zenon DEF Listing
<1>17. SessionProgram \/ PresenceProgram \/ Tick \/ UNCHANGED <<index, presence>>
  BY <1>16, ProgramFrames, Zenon DEF StepKinds, redisKeys, presenceKeys
<1>18. SessionProgram => Indexed(index', presence') BY <1>8, <1>9, <1>11, Zenon DEF SessionProgram
<1>19. PresenceProgram => Indexed(index', presence') BY <1>12, <1>13, <1>14, Zenon DEF PresenceProgram
<1> QED BY <1>5, <1>15, <1>17, <1>18, <1>19, Zenon

-----------------------------------------------------------------------------
(* The invariant and what follows from it.                                 *)

\* Absent keys have the shape of their keys.
LEMMA EmptyKeys == NoChannels \in ChannelsKey /\ NoFrames \in FramesKey
BY Limits DEF NoChannels, ChannelsKey, NoFrames, FramesKey, Time

\* Redis starts empty.
LEMMA RealtimeStarts ==
    ASSUME Init
    PROVE  RealtimeInv
<1>1. KeyTypes
  <2>1. NoChannels \in ChannelsKey /\ NoFrames \in FramesKey BY EmptyKeys, Zenon
  <2>2. Empty \in Maps(Accounts, Nat) /\ Empty \in Maps(Accounts, Expiring) BY EmptyMap, Zenon
  <2>3. 0 \in 0 .. MaxTime BY Limits
  <2>4. \A R : NoKey \in Keys(R) BY Zenon DEF Keys
  <2> QED BY <2>1, <2>2, <2>3, <2>4, Zenon DEF KeyTypes, Init, RedisInit
<1> USE DEF Init, RedisInit
<1>2. LoginInv BY Limits, Zenon DEF LoginInv, OneSessionPerAccount
<1>3. CounterInv BY Zenon DEF CounterInv
<1>4. \A h \in Accounts : frames[h].items = {} BY DEF NoFrames
<1>5. HistoryInv BY <1>4, Zenon DEF HistoryInv, HistoryOfCurrentLogin
<1>6. PresenceInv BY DEF PresenceInv, UnfencedReadsCurrent
<1>7. DOMAIN Empty = {} BY Zenon DEF Empty
<1>8. IsFiniteSet({}) /\ Cardinality({}) = 0 BY FS_EmptySet
<1>9. IndexInv
  <2>1. Capacity > 0 => Cardinality({}) <= Capacity
    <3> HIDE DEF Init, RedisInit
    <3>1. Capacity \in Nat BY <1>1, StateAssumption, Zenon DEF KeyTypes, Capacity
    <3> QED BY <1>8, <3>1
  <2> QED BY <1>7, <1>8, <2>1, Zenon DEF IndexInv
<1>10. MembersInv
  <2>1. \A s \in Sessions : ChannelsOf(channels[s], session[s]) BY NoChannelsFine
  <2> QED BY <1>7, <2>1, Zenon DEF MembersInv, ChannelsOf
<1>11. RelationInv BY Zenon DEF RelationInv
<1>12. ViewersInv BY <1>7, <1>8, Limits DEF ViewersInv
<1>13. WindowInv
  <2>1. \A h \in Accounts : Window(frames[h].items, frameState[h]) BY <1>4, WindowEmpty, Zenon
  <2> QED BY <2>1, WindowPointwise, Zenon
<1> QED BY <1>1, <1>2, <1>3, <1>5, <1>6, <1>9, <1>10, <1>11, <1>12, <1>13, Zenon DEF RealtimeInv

\* Every step preserves every part of the invariant.
LEMMA RealtimeSteps ==
    ASSUME RealtimeInv, [Next]_vars
    PROVE  RealtimeInv'
<1>1. /\ KeyTypes /\ LoginInv /\ CounterInv /\ HistoryInv /\ PresenceInv
      /\ IndexInv /\ MembersInv /\ RelationInv /\ ViewersInv /\ WindowInv
  BY Zenon DEF RealtimeInv
<1>2. HistoryOfCurrentLogin BY <1>1 DEF HistoryInv
<1>3. StepKinds /\ setup' = setup BY <1>1, StepCases, Zenon
<1>4. KeyTypes' BY <1>1, <1>2, TypesNext, Zenon
<1>5. LoginInv' BY <1>1, <1>3, LoginNext, Zenon
<1>6. CounterInv' BY <1>1, <1>3, CounterNext, Zenon
<1>7. PresenceInv' BY <1>1, <1>3, <1>4, PresenceNext, Zenon
<1>8. HistoryInv' BY <1>1, <1>3, <1>4, HistoryNext, Zenon
<1>9. IndexInv' BY <1>1, <1>3, <1>4, <1>7, IndexNext, Zenon
<1>10. MembersInv' BY <1>1, <1>3, <1>4, MembersNext, Zenon
<1>11. RelationInv' BY <1>1, <1>3, RelationNext, Zenon
<1>12. ViewersInv' BY <1>1, <1>3, ViewersNext, Zenon
<1>13. WindowInv' BY <1>1, <1>2, <1>3, <1>4, WindowNext, Zenon
<1> QED BY <1>4, <1>5, <1>6, <1>7, <1>8, <1>9, <1>10, <1>11, <1>12, <1>13, Zenon DEF RealtimeInv

\* The invariant gives every part of IndexesSound.
LEMMA IndexesFromInv ==
    ASSUME RealtimeInv
    PROVE  IndexesSound
<1>1. /\ KeyTypes /\ LoginInv /\ IndexInv /\ MembersInv /\ RelationInv /\ ViewersInv /\ WindowInv
  BY Zenon DEF RealtimeInv
<1>2. TypeOK
  <2>1. \A s \in Sessions : /\ session[s] \in Keys([rev : 1 .. MaxRevision, exp : Time])
                            /\ revision[s] \in Keys([n : 1 .. MaxRevision, exp : Nat])
                            /\ channels[s].ids \subseteq Channels /\ channels[s].exp \in Time
    <3> SUFFICES ASSUME NEW s \in Sessions
                 PROVE  /\ session[s] \in Keys([rev : 1 .. MaxRevision, exp : Time])
                        /\ revision[s] \in Keys([n : 1 .. MaxRevision, exp : Nat])
                        /\ channels[s].ids \subseteq Channels /\ channels[s].exp \in Time
      BY Zenon
    <3>1. session[s] \in Keys(SessionKey) /\ revision[s] \in Keys(CounterKey) /\ channels[s] \in ChannelsKey
      BY <1>1, Zenon DEF KeyTypes
    <3> QED BY <3>1, Zenon DEF SessionKey, CounterKey, ChannelsKey
  <2>2. \A a \in Accounts : /\ epoch[a] \in Keys(Expiring) /\ presence[a] \in Keys(Expiring)
                            /\ preference[a] \in Keys(Expiring)
    BY <1>1, Zenon DEF KeyTypes
  <2>3. ASSUME NEW a \in Accounts PROVE DOMAIN viewers[a] \subseteq Accounts /\ frames[a].exp \in Time
    <3>1. viewers[a] \in Maps(Accounts, Nat) /\ frames[a] \in FramesKey BY <1>1, Zenon DEF KeyTypes
    <3> QED BY <3>1, MapFacts, Zenon DEF FramesKey
  <2>4. ASSUME NEW c \in Channels, NEW a \in DOMAIN members[c] PROVE members[c][a] \in Expiring
    BY <1>1, MemberFacts, Zenon
  <2>5. DOMAIN index \subseteq Accounts
    <3>1. index \in Maps(Accounts, Nat) BY <1>1, Zenon DEF KeyTypes
    <3> QED BY <3>1, MapFacts, Zenon
  <2> QED BY <1>1, <2>1, <2>2, <2>3, <2>4, <2>5, Zenon DEF TypeOK, KeyTypes
<1>3. ASSUME NEW c \in Channels, NEW a \in ChannelMembers(c)
      PROVE  c \in channels[FenceOf(members[c][a]).sid].ids /\ FenceOf(members[c][a]).sid = members[c][a].sid
  <2> DEFINE g == FenceOf(members[c][a])
  <2>1. a \in DOMAIN members[c] /\ Live(g) BY DEF ChannelMembers
  <2>2. /\ g \in Fence /\ Account(g) = a /\ members[c][a] \in Expiring
        /\ Owned(epoch[a], g) => c \in channels[g.sid].ids
    BY <1>1, <2>1, MemberFacts, Zenon DEF Account
  <2>3. Owned(epoch[a], g) BY <1>1, <2>1, <2>2, LiveFacts, Zenon
  <2> QED BY <2>2, <2>3, ExpiringFacts, Zenon
<1>4. MembershipIndexed BY <1>3, Zenon DEF MembershipIndexed
<1>5. OnlineListed BY <1>1 DEF IndexInv, OnlineListed
<1>6. LiveRelationReached
  <2> SUFFICES ASSUME NEW a \in Accounts, relation[a] # NoKey, Live(relation[a].fence)
               PROVE  a \in Recipients(relation[a].hostFence)
    BY DEF LiveRelationReached
  <2>1. Joins(a, relation[a], now, epoch, viewers) BY <1>1, RelationFacts, Zenon
  <2>2. /\ a \in DOMAIN viewers[Account(relation[a].hostFence)] /\ relation[a].exp > now
    BY <2>1, Zenon DEF Joins
  <2> QED BY <2>2, Zenon DEF Recipients, Watching
<1>7. ASSUME NEW f \in issued
      PROVE  Cardinality({c \in Channels : Account(f) \in ChannelMembers(c)
                                           /\ FenceOf(members[c][Account(f)]) = f}) <= MaxChannels
  <2> DEFINE joined == {c \in Channels : Account(f) \in ChannelMembers(c)
                                         /\ FenceOf(members[c][Account(f)]) = f}
  <2>1. f.sid \in Sessions BY <1>1, FenceFacts, Zenon DEF KeyTypes
  <2>2. joined \subseteq channels[f.sid].ids BY <1>3, Zenon
  <2>3. IsFiniteSet(channels[f.sid].ids) /\ Cardinality(channels[f.sid].ids) <= MaxChannels
    BY <1>1, <2>1, Zenon DEF MembersInv
  <2> HIDE DEF joined
  <2>4. /\ Cardinality(joined) <= Cardinality(channels[f.sid].ids) /\ IsFiniteSet(joined)
        /\ Cardinality(channels[f.sid].ids) \in Nat
    BY <2>2, <2>3, FS_Subset, FS_CardinalityType, Zenon
  <2>5. Cardinality(joined) \in Nat BY <2>4, FS_CardinalityType, Zenon
  <2>6. Cardinality(joined) <= MaxChannels BY <2>3, <2>4, <2>5, Limits
  <2> QED BY <2>6, Zenon DEF joined
<1>8. CapacityHeld
  <2> SUFFICES ASSUME Readers = {}, Capacity > 0
               PROVE  Cardinality({a \in DOMAIN index : index[a] > now}) <= Capacity
    BY DEF CapacityHeld
  <2> DEFINE online == {a \in DOMAIN index : index[a] > now}
  <2>1. online \subseteq DOMAIN index BY Zenon
  <2>2. IsFiniteSet(DOMAIN index) /\ Cardinality(DOMAIN index) <= Capacity BY <1>1, Zenon DEF IndexInv
  <2> HIDE DEF online
  <2>3. /\ Cardinality(online) <= Cardinality(DOMAIN index) /\ IsFiniteSet(online)
        /\ Cardinality(DOMAIN index) \in Nat
    BY <2>1, <2>2, FS_Subset, FS_CardinalityType, Zenon
  <2>4. Cardinality(online) \in Nat /\ Capacity \in Nat
    BY <1>1, <2>3, FS_CardinalityType, StateAssumption, Zenon DEF KeyTypes, Capacity
  <2>5. Cardinality(online) <= Capacity BY <2>2, <2>3, <2>4
  <2> QED BY <2>5, Zenon DEF online
<1>9. ViewerLimit /\ FrameWindow BY <1>1, Zenon DEF ViewersInv, WindowInv, ViewerLimit
<1> QED BY <1>2, <1>4, <1>5, <1>6, <1>7, <1>8, <1>9, Zenon DEF IndexesSound, ChannelLimit

\* Only an open gives a session a revision it did not have, and that one is new.
LEMMA FencesFresh ==
    ASSUME KeyTypes, LoginInv, CounterInv, StepKinds, NEW s \in Sessions, session'[s] # NoKey,
           session[s] # NoKey => session'[s].rev # session[s].rev
    PROVE  [sid |-> s, rev |-> session'[s].rev] \notin issued
<1>1. ASSUME NEW t \in Sessions, NEW requested \in Nat, OPEN_SESSION(t, requested)
      PROVE  [sid |-> s, rev |-> session'[s].rev] \notin issued
  <2> DEFINE a == Owner[t]
  <2>1. PICK rev \in 1 .. MaxRevision, exp \in Time :
            /\ a \in Accounts /\ rev = NextRevision(t) /\ now < Durable[t]
            /\ session'[t] = [rev |-> rev, exp |-> exp]
            /\ \A u \in Sessions \ {t} : session'[u] = IF Owner[u] = a THEN NoKey ELSE session[u]
            /\ issued' = issued \cup {[sid |-> t, rev |-> rev]}
    BY <1>1, OpenFacts, Zenon
  <2>2. s = t BY <2>1, Zenon
  <2>3. session'[s].rev = rev BY <2>1, <2>2
  <2> QED BY <2>1, <2>2, <2>3, OpenIsFresh, Zenon
<1>2. ASSUME NEW f \in issued, FENCE_SESSION(f) PROVE FALSE
  BY <1>2, LogoutFacts, Zenon DEF KeyTypes
<1>3. ASSUME NEW f \in issued, NEW requested \in Nat, HEARTBEAT_SESSION(f, requested) PROVE FALSE
  <2>1. PICK exp \in Time : session[f.sid].exp <= exp /\ Heartbeat(f, exp) BY <1>3, HeartbeatFacts, Zenon
  <2>2. /\ f \in Fence /\ \A t \in Sessions \ {f.sid} : session'[t] = session[t]
        /\ session'[f.sid].rev = f.rev
    BY <2>1, BeatFacts, Zenon
  <2>3. session[f.sid] # NoKey /\ session[f.sid].rev = f.rev BY <2>1, <2>2, LiveFacts, Zenon DEF Heartbeat
  <2> QED BY <2>2, <2>3, Zenon
<1>4. CASE Tick BY <1>4, Zenon DEF Tick, Expire
<1>5. CASE UNCHANGED <<now, session, epoch, revision, issued>>
  <2>1. session' = session BY <1>5, Zenon
  <2> QED BY <2>1
<1>6. CASE SessionProgram BY <1>1, <1>2, <1>3, <1>6, Zenon DEF SessionProgram
<1> QED BY <1>4, <1>5, <1>6, LoginSteps, Zenon

\* Whatever was interleaved, what can be read of an account's session,
\* presence, preferences and frames was written by its current login.
THEOREM OnlyCurrentLoginAlways == Spec => []OnlyCurrentLogin
<1>1. Init => RealtimeInv BY RealtimeStarts
<1>2. RealtimeInv /\ [Next]_vars => RealtimeInv' BY RealtimeSteps, Zenon
<1>3. RealtimeInv => OnlyCurrentLogin
  BY Zenon DEF RealtimeInv, LoginInv, PresenceInv, HistoryInv, OnlyCurrentLogin
<1> QED BY <1>1, <1>2, <1>3, PTL DEF Spec

\* The indexes of memberships, presences and viewers list whoever is live and
\* stay within the limits the scripts enforce, and so does the frame window.
THEOREM IndexesAlwaysSound == Spec => []IndexesSound
<1>1. Init => RealtimeInv BY RealtimeStarts
<1>2. RealtimeInv /\ [Next]_vars => RealtimeInv' BY RealtimeSteps
<1>3. RealtimeInv => IndexesSound BY IndexesFromInv, Zenon
<1> QED BY <1>1, <1>2, <1>3, PTL DEF Spec

\* open_session never returns a fence it returned before: the counter of a
\* session outlives every realtime session opened under it.
THEOREM FencesNeverReused == Spec => NoFenceReuse
<1> DEFINE Fresh == \A s \in Sessions :
                        LET opened == session'[s] # NoKey /\
                                      (session[s] # NoKey => session'[s].rev # session[s].rev)
                        IN opened => [sid |-> s, rev |-> session'[s].rev] \notin issued
<1>1. Init => RealtimeInv BY RealtimeStarts, Zenon
<1>2. RealtimeInv /\ [Next]_vars => RealtimeInv' BY RealtimeSteps
<1>3. RealtimeInv /\ [Next]_vars => [Fresh]_vars
  <2> SUFFICES ASSUME RealtimeInv, [Next]_vars PROVE Fresh OBVIOUS
  <2>1. KeyTypes /\ LoginInv /\ CounterInv BY DEF RealtimeInv
  <2>2. StepKinds BY <2>1, StepCases
  <2> QED BY <2>1, <2>2, FencesFresh, Zenon
<1> QED BY <1>1, <1>2, <1>3, PTL DEF Spec, NoFenceReuse

=============================================================================
