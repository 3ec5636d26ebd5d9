-------------------------- MODULE MultiplayerRooms --------------------------
(***************************************************************************)
(* Multiplayer rooms: the durable room in PostgreSQL, its projection in    *)
(* Redis, and the handlers of Stable packets and SignalR calls that change *)
(* the first and then repair or update the second                          *)
(* (modules/multiplayer/services.py, infra/db/repositories/multiplayer.py, *)
(* infra/redis/multiplayer.py, api/stable/dispatcher/multiplayer.py,       *)
(* api/signalr/hubs.py).                                                   *)
(*                                                                         *)
(* Every durable command starts by locking the room and session rows FOR   *)
(* UPDATE, so its transaction is one step.  Redis is read and written by   *)
(* separate calls: a handler computes from a state it read earlier and the *)
(* script decides whether the write still applies.                         *)
(***************************************************************************)
EXTENDS RoomProjection

CONSTANTS
    Clients,   \* connections: the handlers of one are sequential
    Setups     \* who takes part in a behaviour and what may happen in it

\* account of each connection; which of them are SignalR hub connections, the
\* others are Stable; public_id_limit; the connections in room 1 at the start,
\* in join order; the commands, and the faults: "redis" if any Redis call may
\* fail, "expiry" if blobs expire; cas_attempts; bounds on rooms and on the
\* commands of a connection.
ASSUME RoomsAssumption ==
    /\ Capacity > 0
    /\ \A s \in Setups :
         /\ DOMAIN s.account = Clients /\ Range(s.account) \subseteq Accounts /\ s.hubs \subseteq Clients
         /\ Range(s.seats) \subseteq Clients /\ Len(s.seats) <= Capacity
         /\ s.faults \subseteq {"redis", "expiry"} /\ {s.pids, s.rooms, s.commands, s.attempts} \subseteq Nat \ {0}

VARIABLES
    setup,    \* an element of Setups, never changed
    room,     \* durable rooms by number, with their current session
    created,  \* MultiplayerEvent: room of each connection's create command
    proj,     \* room blobs by public id
    index,    \* account keys
    h,        \* handler of each connection
    issued,   \* commands issued by each connection
    finished  \* players of the running round that stopped playing

vars == <<setup, room, created, proj, index, h, issued, finished>>
Durable == <<room, created, finished>>
Redis == <<proj, index>>

Hubs == setup.hubs
PublicIds == 1..setup.pids
Epochs == 1..setup.rooms
NoRoom == [e |-> 0, pid |-> 0, open |-> FALSE, host |-> None, ver |-> 0, members |-> <<>>,
           conn |-> <<>>, round |-> None, players |-> <<>>]

\* ver is expected_version, seen the durable version it was read with, next
\* the second service call of a packet that makes two.  quiet is a ghost: nothing else
\* runs or fails while this handler does; cur and live are what it returns.
Idle == [pc |-> "idle", kind |-> "none", pid |-> 0, target |-> None, next |-> None, ver |-> 0, seen |-> 0,
         own |-> None, cur |-> None, snap |-> None, after |-> "done", tries |-> 0, broken |-> FALSE,
         live |-> FALSE, quiet |-> FALSE]

Acc(c) == setup.account[c]
At(c, pc) == h[c].pc = pc
Kind(c) == h[c].kind
Set(c, r) == h' = [h EXCEPT ![c] = r]
Go(c, pc) == Set(c, [h[c] EXCEPT !.pc = pc])
Done(c) == Set(c, Idle)
Raise(c) == Set(c, [Idle EXCEPT !.broken = TRUE])

-----------------------------------------------------------------------------
(* Durable reads.                                                          *)

Open == {e \in Epochs : room[e].open}

\* get_room: the active room with a public id.
get_room(pid) ==
    IF \E e \in Open : room[e].pid = pid THEN room[CHOOSE e \in Open : room[e].pid = pid] ELSE None

\* find_room_for_account
RoomOf(a) ==
    IF \E e \in Open : a \in Present(room[e]) THEN room[CHOOSE e \in Open : a \in Present(room[e])] ELSE None

\* _room_for_command: the event's room gives a public id, the active room
\* with that id is returned.  Stable derives the key of create from the
\* packet, so the connection repeats it; the other keys carry the version of
\* the room and a hub call a new identifier, and are never met again.
find_command_room(c) ==
    IF c \in Hubs \/ created[c] = 0 THEN None ELSE get_room(room[created[c]].pid)

\* The connection recorded with a presence: the Stable session, or what the
\* hub passes, a new identifier for every call.
ConnectionOf(c) == IF c \in Hubs THEN <<c, issued[c]>> ELSE <<c, 0>>

\* expected_version: Stable sends the room's version, the hub the revision
\* of the projection.
ExpectedVersion(c, p) == IF c \in Hubs THEN p.rev ELSE p.ver

-----------------------------------------------------------------------------
(* Durable transactions of the repository.                                 *)

Commit(r) == room' = [room EXCEPT ![r.e] = r] /\ UNCHANGED created

\* create_room: lowest free public id, host present, version 1; _append_event
\* leaves an event that exists.
create_room(c) ==
    LET a == Acc(c)
        free == {p \in PublicIds : get_room(p) = None}
        e == Cardinality({x \in Epochs : room[x] # NoRoom}) + 1
        r == [e |-> e, pid |-> CHOOSE p \in free : \A q \in free : p <= q, open |-> TRUE, host |-> a,
              ver |-> 1, members |-> <<a>>, conn |-> (a :> ConnectionOf(c)), round |-> None, players |-> <<>>]
    IN  /\ RoomOf(a) = None /\ free # {}
        /\ e <= setup.rooms
        /\ room' = [room EXCEPT ![e] = r]
        /\ created' = IF created[c] = 0 THEN [created EXCEPT ![c] = e] ELSE created
        /\ Set(c, [h[c] EXCEPT !.snap = r, !.pid = r.pid, !.pc = "publish_get"])

Joined(r, c) ==
    [r EXCEPT !.ver = @ + 1, !.members = Append(@, Acc(c)),
              !.conn = [b \in DOMAIN @ \cup {Acc(c)} |-> IF b = Acc(c) THEN ConnectionOf(c) ELSE @[b]]]

\* Mutant: the presence is closed whichever connection it belongs to.
OwnsAnyPresence(r, a, conn) == a \in Present(r)

\* leave_room closes the account's presence of this connection.
OwnsPresence(r, a, conn) == a \in Present(r) /\ r.conn[a] = conn

Without(r, a) ==
    [r EXCEPT !.ver = @ + 1, !.members = SelectSeq(@, LAMBDA b : b # a),
              !.conn = [b \in DOMAIN @ \ {a} |-> @[b]]]

\* Mutant: the host keeps the room it has left.
LeftKeepsHost(r, a) ==
    LET left == Without(r, a)
    IN  IF left.members = <<>>
        THEN [left EXCEPT !.open = FALSE, !.host = None, !.round = None, !.players = <<>>]
        ELSE left

\* The oldest remaining presence becomes host; the last leave closes.
Left(r, a) ==
    LET left == Without(r, a)
    IN  IF left.members = <<>>
        THEN [left EXCEPT !.open = FALSE, !.host = None, !.round = None, !.players = <<>>]
        ELSE IF r.host = a THEN [left EXCEPT !.host = left.members[1]] ELSE left

-----------------------------------------------------------------------------
(* find_room_for_account and the account index.                            *)

\* What follows once the cached room of the account is known, or not.
Cached(c, p) ==
    LET x == [h[c] EXCEPT !.cur = p, !.own = None]
    IN  IF Kind(c) # "join" THEN Set(c, [x EXCEPT !.pc = "read"])
        ELSE IF p # None /\ p.pid # h[c].pid THEN Done(c)
        ELSE Set(c, [x EXCEPT !.pc = "tx"])

FindIndex(c) ==
    /\ At(c, "find")
    /\ IF index[Acc(c)] = None THEN Cached(c, None)
       ELSE Set(c, [h[c] EXCEPT !.pc = "find_room", !.own = index[Acc(c)]])
    /\ UNCHANGED <<Durable, Redis, issued>>

FindRoom(c) ==
    /\ At(c, "find_room")
    /\ LET p == proj[h[c].own.pid]
       IN  IF p # None /\ p.e = h[c].own.e /\ Acc(c) \in Occupants(p) THEN Cached(c, p) ELSE Go(c, "find_delete")
    /\ UNCHANGED <<Durable, Redis, issued>>

\* The key read earlier did not lead to a room: whatever it is now, it goes.
FindDelete(c) ==
    /\ At(c, "find_delete")
    /\ index' = [index EXCEPT ![Acc(c)] = None]
    /\ Cached(c, None)
    /\ UNCHANGED <<Durable, proj, issued>>

\* find_room_for_account returns None: room packets are ignored.
NotFound(c) ==
    CASE Kind(c) = "look" -> Set(c, [h[c] EXCEPT !.pc = "looked", !.cur = None, !.live = FALSE])
      [] Kind(c) = "logout" -> Go(c, "cleanup")
      [] OTHER -> Done(c)

\* The durable read of find_room_for_account.
ReadRoom(c) ==
    /\ At(c, "read")
    /\ LET p == h[c].cur
           r == IF p # None THEN get_room(p.pid) ELSE RoomOf(Acc(c))
       IN  IF r # None
           THEN Set(c, [h[c] EXCEPT !.snap = r, !.after = "found", !.pid = r.pid, !.seen = r.ver,
                                    !.pc = IF p = None THEN "publish_get" ELSE "reconcile"])
           ELSE IF p # None THEN Go(c, "remove_stale") ELSE NotFound(c)
    /\ UNCHANGED <<Durable, Redis, issued>>

\* _REMOVE_SCRIPT with the revision and session of the state read before.
RunRemove(pid, p) ==
    IF RemoveStatus(proj[pid], p.rev, p.e) = "OK"
    THEN proj' = [proj EXCEPT ![pid] = None] /\ index' = IndexRemoved(proj[pid], index)
    ELSE UNCHANGED Redis

RemoveStale(c) ==
    /\ At(c, "remove_stale")
    /\ RunRemove(h[c].cur.pid, h[c].cur)
    /\ NotFound(c)
    /\ UNCHANGED <<Durable, issued>>

-----------------------------------------------------------------------------
(* _require_state, _publish_snapshot, _reconcile_snapshot.                 *)

\* The dispatcher goes on with the state find_room_for_account returned.
\* MATCH_LOCK on an occupied slot is a kick first; MATCH_CHANGE_MODS of the
\* host changes the settings first, in Free Mod the slot as well.
Call(k, t) == [kind |-> k, target |-> t]
Dispatch(c, p, live) ==
    LET x == [h[c] EXCEPT !.ver = ExpectedVersion(c, p), !.pid = p.pid, !.pc = "get"]
        t == h[c].target
        host == p.host = Acc(c)
    IN  CASE Kind(c) = "logout" -> Go(c, "cleanup")
          [] Acc(c) \notin Occupants(p) -> NotFound(c)
          [] Kind(c) = "look" -> Set(c, [h[c] EXCEPT !.pc = "looked", !.cur = p, !.live = live])
          [] Kind(c) = "part" -> Set(c, [x EXCEPT !.pc = "tx"])
          [] Kind(c) = "lock" /\ p.slots[t].who # None ->
               Set(c, [x EXCEPT !.kind = "kick", !.target = p.slots[t].who, !.next = Call("lock", t)])
          [] Kind(c) = "mods" /\ host ->
               Set(c, [x EXCEPT !.kind = "settings", !.next = IF t = "free" THEN Call("mods", t) ELSE None])
          [] Kind(c) = "mods" /\ ~host /\ t # "free" -> Done(c)
          [] OTHER -> Set(c, x)

\* The service goes on with the state _require_state returned; a change of
\* the projection alone needs a live one.
Commands == {"host", "kick", "settings", "password", "start", "abort", "finish"}
Required(c, p, live) ==
    LET x == [h[c] EXCEPT !.cur = p, !.tries = 0]
    IN  CASE Kind(c) \in Commands -> Set(c, [x EXCEPT !.pc = "tx"])
          [] ~live -> Done(c)
          [] Kind(c) = "lock" /\ p.host # Acc(c) -> Done(c)
          [] Kind(c) = "mods" /\ p.round # None -> Done(c)
          [] Kind(c) \in {"ready", "no_beatmap", "complete"} /\ p.round # None /\ Acc(c) \notin p.players -> Done(c)
          [] OTHER -> Set(c, [x EXCEPT !.pc = "mutate"])

\* The state is returned to whoever asked for it.
Resume(c, p, live) ==
    CASE h[c].after = "done" -> Done(c)
      [] h[c].after = "found" -> Dispatch(c, p, live)
      [] h[c].after = "required" -> Required(c, p, live)

\* _require_state reads Redis, then the durable room.
RequireGet(c) ==
    /\ At(c, "get")
    /\ Set(c, [h[c] EXCEPT !.cur = proj[h[c].pid], !.pc = "require_read"])
    /\ UNCHANGED <<Durable, Redis, issued>>

RequireRead(c) ==
    /\ At(c, "require_read")
    /\ LET r == get_room(h[c].pid)
       IN  IF r = None THEN Done(c)
           ELSE Set(c, [h[c] EXCEPT !.snap = r, !.after = "required",
                                    !.pc = IF h[c].cur = None THEN "publish_get" ELSE "reconcile"])
    /\ UNCHANGED <<Durable, Redis, issued>>

PublishGet(c) ==
    /\ At(c, "publish_get")
    /\ LET p == proj[h[c].pid]
       IN  Set(c, [h[c] EXCEPT !.cur = p, !.pc = IF p = None THEN "publish_create" ELSE "reconcile"])
    /\ UNCHANGED <<Durable, Redis, issued>>

PublishCreate(c) ==
    /\ At(c, "publish_create")
    /\ LET p == StateFromSnapshot(h[c].snap)
           current == proj[p.pid]
           status == CreateStatus(current, p, index)
       IN  /\ proj' = IF status = "OK" THEN [proj EXCEPT ![p.pid] = p] ELSE proj
           /\ index' = CASE status = "OK" -> IndexAfter(current, p, IndexBeforeCreate(current, p, index))
                         [] status = "ACCOUNT_CONFLICT" -> IndexBeforeCreate(current, p, index)
                         [] OTHER -> index
           /\ Resume(c, p, status = "OK")
    /\ UNCHANGED <<Durable, issued>>

\* The new state is constructed before the guarded call: an invalid one
\* raises out of the handler.
Reconcile(c) ==
    /\ At(c, "reconcile")
    /\ LET p == h[c].cur
           r == h[c].snap
           new == Reconciled(p, r)
           ok == ReplaceStatus(proj[new.pid], new, p.rev, p.e, index) = "OK"
       IN  IF Current(p, r) THEN UNCHANGED Redis /\ Resume(c, p, TRUE)
           ELSE IF ~Valid(new) THEN UNCHANGED Redis /\ Raise(c)
           ELSE /\ IF ok THEN proj' = [proj EXCEPT ![new.pid] = new] /\ index' = IndexAfter(proj[new.pid], new, index)
                   ELSE UNCHANGED Redis
                /\ IF ok THEN Resume(c, new, TRUE) ELSE Resume(c, StateFromSnapshot(r), FALSE)
    /\ UNCHANGED <<Durable, issued>>

-----------------------------------------------------------------------------
(* The transactions of the commands.                                       *)

CreateTx(c) ==
    /\ At(c, "tx") /\ Kind(c) = "create"
    /\ LET r == find_command_room(c)
           refused == RoomOf(Acc(c)) # None \/ \A p \in PublicIds : get_room(p) # None
       IN  IF r # None
           THEN Set(c, [h[c] EXCEPT !.snap = r, !.pid = r.pid, !.pc = "publish_get"]) /\ UNCHANGED <<room, created>>
           ELSE IF refused THEN Done(c) /\ UNCHANGED <<room, created>>
           ELSE create_room(c)
    /\ UNCHANGED <<Redis, issued, finished>>

HasPlace(r) == Cardinality(Present(r)) < Capacity

\* find_room_for_account, backed by uq_session_presence_account_current.
Elsewhere(c, r) == RoomOf(Acc(c)) # None /\ RoomOf(Acc(c)).e # r.e

JoinTx(c) ==
    /\ At(c, "tx") /\ Kind(c) = "join"
    /\ LET r == get_room(h[c].pid)
           again == [h[c] EXCEPT !.pc = "join_get"]
       IN  IF r = None \/ Elsewhere(c, r) THEN Done(c) /\ UNCHANGED Durable
           ELSE IF Acc(c) \in Present(r) THEN Set(c, [again EXCEPT !.snap = r]) /\ UNCHANGED Durable
           ELSE IF ~HasPlace(r) THEN Done(c) /\ UNCHANGED Durable
           ELSE /\ Commit(Joined(r, c))
                /\ Set(c, [again EXCEPT !.snap = Joined(r, c)])
                /\ UNCHANGED finished
    /\ UNCHANGED <<Redis, issued>>

\* cleanup_presence finds the room before it locks the one with its public id.
CleanupFind(c) ==
    /\ At(c, "cleanup")
    /\ LET r == RoomOf(Acc(c))
       IN  IF r = None THEN Done(c) ELSE Set(c, [h[c] EXCEPT !.pid = r.pid, !.pc = "tx"])
    /\ UNCHANGED <<Durable, Redis, issued>>

\* leave_room, cleanup_presence: without a presence of this connection the
\* room is returned unchanged and the projection is left all the same.
LeaveTx(c) ==
    /\ At(c, "tx") /\ Kind(c) \in {"part", "logout"}
    /\ LET a == Acc(c)
           r == get_room(h[c].pid)
           after == [h[c] EXCEPT !.pc = "leave_get", !.target = a]
       IN  IF r = None THEN Done(c) /\ UNCHANGED Durable
           ELSE IF OwnsPresence(r, a, ConnectionOf(c))
           THEN /\ Commit(Left(r, a))
                /\ finished' = finished \cup {a}
                /\ Set(c, [after EXCEPT !.snap = Left(r, a)])
           ELSE Set(c, [after EXCEPT !.snap = r]) /\ UNCHANGED Durable
    /\ UNCHANGED <<Redis, issued>>

\* _locked_host_room, _locked_room: the aggregate version decides.
VersionUnchanged(c, r) == r.ver = h[c].ver

\* The durable effect of each command.
HostChanged(r, t) == [r EXCEPT !.ver = @ + 1, !.host = t]
SettingsUpdated(r) == [r EXCEPT !.ver = @ + 1]
PasswordChanged(r) == [r EXCEPT !.ver = @ + 1]
RoundStarted(r, p) == [r EXCEPT !.ver = @ + 1, !.round = r.ver, !.players = [a \in Starters(p) |-> SlotOf(p, a)]]
RoundCompleted(r) == [r EXCEPT !.ver = @ + 1, !.round = None, !.players = <<>>]

\* A command of the host: its transaction commits new or changes nothing.
HostCommand(c, r, applies, new, pc) ==
    IF r # None /\ r.host = Acc(c) /\ VersionUnchanged(c, r) /\ applies
    THEN Commit(new) /\ Set(c, [h[c] EXCEPT !.snap = new, !.pc = pc])
    ELSE Done(c) /\ UNCHANGED <<room, created>>
HostTx(c, k) == At(c, "tx") /\ Kind(c) = k /\ UNCHANGED <<Redis, issued>>

ChangeHostTx(c) ==
    /\ HostTx(c, "host")
    /\ LET r == get_room(h[c].pid)
           t == h[c].target
       IN  HostCommand(c, r, t \in Occupants(h[c].cur) /\ t \in Present(r), HostChanged(r, t), "replace")
    /\ UNCHANGED finished

KickTx(c) ==
    /\ HostTx(c, "kick")
    /\ LET r == get_room(h[c].pid)
           p == h[c].cur
           t == h[c].target
       IN  HostCommand(c, r, t \in Occupants(p) /\ t # p.host /\ t # Acc(c) /\ t \in Present(r), Without(r, t), "leave_get")
    /\ finished' = IF room' # room THEN finished \cup {h[c].target} ELSE finished

SettingsTx(c) ==
    /\ HostTx(c, "settings")
    /\ LET r == get_room(h[c].pid)
       IN  HostCommand(c, r, r.round = None, SettingsUpdated(r), "replace")
    /\ UNCHANGED finished

PasswordTx(c) ==
    /\ HostTx(c, "password")
    /\ LET r == get_room(h[c].pid)
       IN  HostCommand(c, r, TRUE, PasswordChanged(r), "replace")
    /\ UNCHANGED finished

StartTx(c) ==
    /\ HostTx(c, "start")
    /\ LET r == get_room(h[c].pid)
           p == h[c].cur
       IN  HostCommand(c, r, p.round = None /\ Starters(p) # {} /\ r.round = None, RoundStarted(r, p), "replace")
    /\ finished' = IF room' # room THEN {} ELSE finished

\* complete_round, by any participant, or aborted by the host.
CompleteTx(c) ==
    /\ At(c, "tx") /\ Kind(c) \in {"finish", "abort"}
    /\ LET r == get_room(h[c].pid)
           p == h[c].cur
           new == RoundCompleted(r)
       IN  IF /\ r # None /\ VersionUnchanged(c, r)
              /\ p.round # None /\ Acc(c) \in Occupants(p) /\ r.round = p.round
              /\ Kind(c) = "abort" => p.host = Acc(c)
           THEN /\ Commit(new)
                /\ Set(c, [h[c] EXCEPT !.snap = new, !.pc = "replace"])
                /\ UNCHANGED finished
           ELSE Done(c) /\ UNCHANGED Durable
    /\ UNCHANGED <<Redis, issued>>

-----------------------------------------------------------------------------
(* Updating the projection after the commit.                               *)

\* The end of a service call; the packet may have another one to make.
Return(c) ==
    IF h[c].next = None THEN Done(c)
    ELSE Set(c, [h[c] EXCEPT !.kind = h[c].next.kind, !.target = h[c].next.target, !.next = None, !.pc = "get"])

\* _replace_after_commit with the state the command started from.
ReplaceAfterCommit(c) ==
    /\ At(c, "replace")
    /\ LET p == h[c].cur
           r == h[c].snap
           new == CASE Kind(c) \in {"host", "password"} -> HostState(p, r)
                    [] Kind(c) = "settings" -> SettingsState(p, r)
                    [] Kind(c) = "start" -> StartedState(p, r)
                    [] OTHER -> CompletedState(p, r)
       IN  IF ~Valid(new) THEN UNCHANGED Redis /\ Raise(c)
           ELSE /\ IF ReplaceStatus(proj[new.pid], new, p.rev, p.e, index) = "OK"
                   THEN proj' = [proj EXCEPT ![new.pid] = new] /\ index' = IndexAfter(proj[new.pid], new, index)
                   ELSE UNCHANGED Redis
                /\ Return(c)
    /\ UNCHANGED <<Durable, issued>>

\* join_room: reconcile a state that already had the account, else join the
\* projection, else publish.
JoinGet(c) ==
    /\ At(c, "join_get")
    /\ LET p == proj[h[c].pid]
       IN  IF h[c].cur # None THEN Go(c, "reconcile")
           ELSE IF p # None /\ Acc(c) \notin Occupants(p)
           THEN Set(c, [h[c] EXCEPT !.pc = "mutate", !.tries = 0])
           ELSE Go(c, "publish_get")
    /\ UNCHANGED <<Durable, Redis, issued>>

\* state.leave: nothing without a projection, removal with the last member.
LeaveGet(c) ==
    /\ At(c, "leave_get")
    /\ LET p == proj[h[c].pid]
       IN  IF p = None THEN Return(c)
           ELSE IF h[c].snap.open THEN Set(c, [h[c] EXCEPT !.pc = "mutate", !.tries = 0])
           ELSE Set(c, [h[c] EXCEPT !.cur = p, !.pc = "remove"])
    /\ UNCHANGED <<Durable, Redis, issued>>

RemoveClosed(c) ==
    /\ At(c, "remove")
    /\ RunRemove(h[c].pid, h[c].cur)
    /\ Done(c)
    /\ UNCHANGED <<Durable, issued>>

\* _mutate: read, compute, compare and set, up to cas_attempts times.
\* A join that fails falls back to publishing, a kick has been committed.
Failed(c) == IF Kind(c) = "join" THEN Go(c, "publish_get") ELSE Return(c)

MutateGet(c) ==
    /\ At(c, "mutate")
    /\ LET p == proj[h[c].pid]
       IN  IF p = None \/ h[c].tries = setup.attempts THEN Failed(c)
           ELSE Set(c, [h[c] EXCEPT !.cur = p, !.pc = "write", !.tries = @ + 1])
    /\ UNCHANGED <<Durable, Redis, issued>>

Applies(c, p) ==
    CASE Kind(c) = "join" -> JoinApplies(p, Acc(c))
      [] Kind(c) = "move" -> MoveApplies(p, Acc(c), h[c].target)
      [] Kind(c) = "lock" -> LockApplies(p, Acc(c), h[c].target)
      [] Kind(c) \in {"loaded", "skipped", "failed"} -> MarkApplies(p, Acc(c))
      [] Kind(c) \in {"ready", "no_beatmap", "complete", "team", "mods"} -> Acc(c) \in Occupants(p)
      [] OTHER -> TRUE

Mutated(c, p) ==
    CASE Kind(c) = "join" -> JoinMutation(p, h[c].snap, Acc(c))
      [] Kind(c) \in {"part", "logout", "kick"} -> LeaveMutation(p, h[c].snap, h[c].target)
      [] Kind(c) = "move" -> MoveMutation(p, Acc(c), h[c].target)
      [] Kind(c) = "lock" -> LockMutation(p, h[c].target)
      [] Kind(c) \in {"loaded", "skipped", "failed"} -> MarkMutation(p, Acc(c), Kind(c))
      [] Kind(c) \in {"team", "mods"} -> SlotMutation(p)
      [] OTHER -> StatusMutation(p, Acc(c), Kind(c))

\* A completed slot that leaves nobody playing completes the round.
Written(c, new) ==
    IF Kind(c) = "complete" /\ Playing(new) = {}
    THEN Set(c, [h[c] EXCEPT !.kind = "finish", !.pc = "get", !.ver = ExpectedVersion(c, new)])
    ELSE Return(c)

MutateWrite(c) ==
    /\ At(c, "write")
    /\ LET p == h[c].cur
           new == Mutated(c, p)
           status == ReplaceStatus(proj[p.pid], new, p.rev, p.e, index)
       IN  IF ~Applies(c, p) THEN Failed(c) /\ UNCHANGED Redis
           ELSE IF ~Valid(new) THEN Failed(c) /\ UNCHANGED Redis
           ELSE IF status = "OK"
           THEN proj' = [proj EXCEPT ![p.pid] = new] /\ index' = IndexAfter(proj[p.pid], new, index) /\ Written(c, new)
           ELSE UNCHANGED Redis /\ IF status \in {"FENCED", "EPOCH_FENCED"} THEN Go(c, "mutate") ELSE Failed(c)
    /\ finished' = IF Kind(c) \in {"complete", "ready", "no_beatmap", "failed"} /\ proj' # proj
                      /\ h[c].cur.round = room[h[c].cur.e].round
                   THEN finished \cup {Acc(c)} ELSE finished
    /\ UNCHANGED <<room, created, issued>>

-----------------------------------------------------------------------------

\* A call to Redis fails; what the service makes of it.
RedisFails(c) ==
    /\ "redis" \in setup.faults /\ ~h[c].quiet
    /\ \/ h[c].pc \in {"find", "find_room", "find_delete"} /\ Cached(c, None)
       \/ At(c, "get") /\ Set(c, [h[c] EXCEPT !.cur = None, !.pc = "require_read"])
       \/ h[c].pc \in {"publish_get", "publish_create", "reconcile"} /\ Resume(c, StateFromSnapshot(h[c].snap), FALSE)
       \/ h[c].pc \in {"join_get", "leave_get", "mutate", "write"} /\ Failed(c)
       \/ h[c].pc \in {"replace", "remove"} /\ Return(c)
       \/ At(c, "remove_stale") /\ NotFound(c)
    /\ UNCHANGED <<Durable, Redis, issued>>

\* The blob and the account keys set with it expire together.
Expire(pid) ==
    /\ "expiry" \in setup.faults /\ proj[pid] # None /\ \A c \in Clients : ~h[c].quiet
    /\ proj' = [proj EXCEPT ![pid] = None]
    /\ index' = IndexRemoved(proj[pid], index)
    /\ UNCHANGED <<Durable, h, issued>>

\* A room number is left to create with.
RoomLeft == room[setup.rooms] = NoRoom

\* The packets and calls of a connection.
Receive(c, k, x) ==
    /\ k \in setup.kinds /\ At(c, "idle") /\ issued[c] < setup.commands
    /\ \A d \in Clients : ~h[d].quiet
    /\ issued' = [issued EXCEPT ![c] = IF k = "logout" THEN setup.commands ELSE @ + 1]
    /\ Set(c, [x EXCEPT !.kind = k])
    /\ UNCHANGED <<Durable, Redis>>
Find == [Idle EXCEPT !.pc = "find"]

CreateMatch(c) == RoomLeft /\ Receive(c, "create", [Idle EXCEPT !.pc = "tx"])
JoinMatch(c) == \E pid \in PublicIds : Receive(c, "join", [Find EXCEPT !.pid = pid])
PartMatch(c) == Receive(c, "part", Find)
Logout(c) == c \notin Hubs /\ Receive(c, "logout", Find)
ChangeSlot(c) ==
    \/ \E i \in Positions : Receive(c, "move", [Find EXCEPT !.target = i])
    \/ Receive(c, "team", Find)
    \/ Receive(c, "ready", Find)
LockSlot(c) == c \notin Hubs /\ \E i \in Positions : Receive(c, "lock", [Find EXCEPT !.target = i])
ChangeSettings(c) == Receive(c, "settings", Find)
ChangePassword(c) == Receive(c, "password", Find)
ChangeMods(c) == \E mode \in {"free", "room"} : Receive(c, "mods", [Find EXCEPT !.target = mode])
RoundPacket(c) == \E k \in {"loaded", "no_beatmap"} : Receive(c, k, Find)
StartRound(c) == Receive(c, "start", Find)
CompleteRound(c) == Receive(c, "complete", Find)
FailRound(c) == Receive(c, "failed", Find)
SkipRound(c) == Receive(c, "skipped", Find)
TransferHost(c) == \E a \in Accounts : Receive(c, "host", [Find EXCEPT !.target = a])

\* Room commands of the bot and calls of the hub.
Command(c) ==
    \/ Receive(c, "abort", Find)
    \/ \E a \in Accounts : Receive(c, "kick", [Find EXCEPT !.target = a])

\* A chat message to #multiplayer looks for the room while all else is quiet.
Look(c) == (\A d \in Clients : At(d, "idle")) /\ Receive(c, "look", [Find EXCEPT !.quiet = TRUE])

Begin(c) ==
    \/ CreateMatch(c) \/ JoinMatch(c) \/ PartMatch(c) \/ Logout(c) \/ ChangeSlot(c) \/ LockSlot(c)
    \/ ChangeSettings(c) \/ ChangePassword(c) \/ ChangeMods(c) \/ RoundPacket(c) \/ StartRound(c)
    \/ CompleteRound(c) \/ FailRound(c) \/ SkipRound(c) \/ TransferHost(c) \/ Command(c) \/ Look(c)

Looked(c) == At(c, "looked") /\ Done(c) /\ UNCHANGED <<Durable, Redis, issued>>

\* Nothing, or the state after the seated connections created and joined room 1 undisturbed.
SeatedRoom ==
    LET seats == setup.seats
        members == [i \in DOMAIN seats |-> Acc(seats[i])]
    IN  [NoRoom EXCEPT !.e = 1, !.pid = 1, !.open = TRUE, !.host = members[1], !.ver = Len(seats), !.members = members,
                       !.conn = [a \in Range(members) |-> <<CHOOSE c \in Range(seats) : Acc(c) = a, 0>>]]
Seated == setup.seats # <<>>

Init ==
    /\ setup \in Setups
    /\ room = [e \in Epochs |-> IF Seated /\ e = 1 THEN SeatedRoom ELSE NoRoom]
    /\ created = [c \in Clients |-> IF Seated /\ c = setup.seats[1] THEN 1 ELSE 0]
    /\ proj = [p \in PublicIds |-> IF Seated /\ p = 1 THEN StateFromSnapshot(SeatedRoom) ELSE None]
    /\ index = [a \in Accounts |-> IF Seated /\ a \in Present(SeatedRoom) THEN [pid |-> 1, e |-> 1] ELSE None]
    /\ h = [c \in Clients |-> Idle]
    /\ issued = [c \in Clients |-> 0]
    /\ finished = {}

Step(c) ==
    \/ FindIndex(c) \/ FindRoom(c) \/ FindDelete(c) \/ ReadRoom(c) \/ RemoveStale(c) \/ Looked(c)
    \/ RequireGet(c) \/ RequireRead(c) \/ PublishGet(c) \/ PublishCreate(c) \/ Reconcile(c)
    \/ CreateTx(c) \/ JoinTx(c) \/ CleanupFind(c) \/ LeaveTx(c)
    \/ ChangeHostTx(c) \/ KickTx(c) \/ SettingsTx(c) \/ PasswordTx(c) \/ StartTx(c) \/ CompleteTx(c)
    \/ ReplaceAfterCommit(c) \/ JoinGet(c) \/ LeaveGet(c) \/ RemoveClosed(c)
    \/ MutateGet(c) \/ MutateWrite(c)

Next ==
    /\ \/ \E c \in Clients : Begin(c) \/ Step(c) \/ RedisFails(c)
       \/ \E pid \in PublicIds : Expire(pid)
    /\ UNCHANGED setup

Spec == Init /\ [][Next]_vars

-----------------------------------------------------------------------------
(* Properties.                                                             *)

\* Types of the tables and of the Redis keys.
TypeOK ==
    /\ \A e \in Epochs : room[e] # NoRoom =>
         /\ room[e].e = e /\ room[e].pid \in PublicIds /\ room[e].open \in BOOLEAN
         /\ room[e].ver > 0 /\ DOMAIN room[e].conn = Present(room[e]) /\ DOMAIN room[e].players \subseteq Accounts
    /\ created \in [Clients -> 0..setup.rooms]
    /\ \A p \in PublicIds : proj[p] # None =>
         proj[p].pid = p /\ proj[p].e \in Epochs /\ proj[p].rev > 0 /\ Valid(proj[p])
    /\ \A a \in Accounts : index[a] # None => index[a].pid \in PublicIds /\ index[a].e \in Epochs

\* However creates, joins, leaves, kicks and cleanups interleave, an open
\* room has a host that is present and no more members than places, no two
\* open rooms share a public id, and an account is in one room at most.
RoomsConsistent ==
    /\ TypeOK
    /\ \A e \in Open :
        /\ room[e].host \in Present(room[e])
        /\ Len(room[e].members) <= Capacity
        /\ Len(room[e].members) = Cardinality(Present(room[e]))
        /\ \A f \in Open \ {e} : room[e].pid # room[f].pid /\ Present(room[e]) \cap Present(room[f]) = {}

\* The projection under a public id never goes back to an earlier room, nor
\* to an earlier revision of the same one, and a revision names one seating,
\* whatever a handler computed from a state it read before: no update of a
\* slot is lost.  A blob that expired and was rebuilt counts its revisions
\* anew, and then this does not hold.
ProjectionNeverGoesBack ==
    [][\A p \in PublicIds :
         "expiry" \notin setup.faults /\ proj[p] # None /\ proj'[p] # None =>
           \/ proj'[p].e > proj[p].e
           \/ proj'[p].e = proj[p].e /\ proj'[p].rev > proj[p].rev
           \/ proj'[p].e = proj[p].e /\ proj'[p].rev = proj[p].rev /\ proj'[p].slots = proj[p].slots]_vars

OwnPresenceOnly ==
    \A e \in Epochs : \A a \in Present(room[e]) \ Present(room'[e]) :
        \E c \in Clients : At(c, "tx") /\ (Kind(c) = "kick" \/ room[e].conn[a] = ConnectionOf(c))

RoundNotCutShort ==
    \A e \in Open : \A c \in Clients :
        room[e].round # None /\ room'[e].round = None /\ At(c, "tx") /\ Kind(c) = "finish" /\ h'[c].pc = "replace" =>
            RoundPlayers(room[e]) \subseteq finished

\* Nobody ends what is another's: a presence ends by a leave or cleanup of the
\* connection that holds it or by a kick, never by the late cleanup of an
\* earlier connection, and a round ends as completed only when each of its
\* players who is still in the room has completed, failed or given up.
EndedByItsOwn == [][OwnPresenceOnly /\ RoundNotCutShort]_vars

\* A command of a Stable host is refused for its version only when the room
\* changed after find_room_for_account read it for this command.
NoFalseConflict ==
    \A c \in Clients \ Hubs :
        At(c, "tx") /\ Kind(c) \in {"host", "kick", "settings", "start", "abort"} =>
            \A e \in Open : room[e].pid = h[c].pid /\ room[e].ver = h[c].seen /\ h[c].cur.e = e => VersionUnchanged(c, room[e])

\* A state that a quiet caller gets as live is what Redis holds and agrees
\* with the durable room in version, members and round.
LookupIsCurrent ==
    \A c \in Clients :
        At(c, "looked") /\ h[c].quiet /\ h[c].live =>
            LET r == room[h[c].cur.e]
            IN  r.open /\ proj[r.pid] = h[c].cur /\ h[c].cur.ver = r.ver
                /\ Occupants(h[c].cur) = Present(r) /\ h[c].cur.round = r.round

\* A projection is worth trusting: a lookup that answers live shows the durable
\* room, and a command decided on it meets no conflict it did not have to meet.
LiveIsCurrent == LookupIsCurrent /\ NoFalseConflict

\* _reconcile_snapshot: "Repair stale Redis state and enforce its durable
\* room/session epoch."; no handler raises while it does.
RepairNeverFails == \A c \in Clients : ~h[c].broken

=============================================================================
