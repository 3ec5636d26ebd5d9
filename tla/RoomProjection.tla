--------------------------- MODULE RoomProjection ---------------------------
(***************************************************************************)
(* The Redis projection of a multiplayer room as values and operators: the *)
(* room blob, the rules its constructor enforces, the rebuilding from a    *)
(* durable snapshot, the mutations, and the two Lua scripts of             *)
(* infra/redis/multiplayer.py.                                             *)
(*                                                                         *)
(* A durable room is a record of MultiplayerRooms; its number e stands for *)
(* room_id, session_id and public_id_epoch, which are created together.    *)
(* Names, mods, teams and beatmaps are left out; so is the lobby index,    *)
(* which the scripts keep in step with the blob.                           *)
(***************************************************************************)
EXTENDS Integers, Sequences, FiniteSets, SequencesExt

CONSTANTS
    Accounts,    \* account ids
    Capacity,    \* slots of a room
    None         \* Python's None, a missing key

Positions == 1..Capacity

\* SlotStatus; flags collects loaded, skipped and failed.
Statuses == {"open", "locked", "not_ready", "ready", "no_beatmap", "playing", "complete"}
Slot(status, account) == [who |-> account, status |-> status, flags |-> {}]
Empty == Slot("open", None)

Occupants(p) == {p.slots[i].who : i \in Positions} \ {None}
SlotOf(p, a) == CHOOSE i \in Positions : p.slots[i].who = a
Playing(p) == {i \in Positions : p.slots[i].status = "playing"}

\* RoomState.__post_init__: every construction of a state checks this and
\* raises ValueError otherwise.
Valid(p) ==
    /\ \A a \in Occupants(p) : \E i \in Positions : \A j \in Positions : p.slots[j].who = a => j = i
    /\ p.host \in Occupants(p)
    /\ p.players \subseteq Occupants(p)

-----------------------------------------------------------------------------
(* Durable snapshots and rebuilding.                                       *)

\* list_participant_account_ids: join order, the host first.
HostFirst(r) == <<r.host>> \o SelectSeq(r.members, LAMBDA a : a # r.host)
Present(r) == Range(r.members)

\* load_snapshot: players of the running round that are still present.
RoundPlayers(r) == DOMAIN r.players \cap Present(r)

\* The k-th account of order takes the k-th position without an occupant;
\* the positions that remain are open.
Fill(slots, order, status) ==
    LET free == SetToSortSeq({i \in Positions : slots[i].who = None}, <)
    IN  [i \in Positions |->
           IF slots[i].who # None THEN slots[i]
           ELSE LET k == CHOOSE n \in 1..Len(free) : free[n] = i
                IN  IF k <= Len(order) THEN Slot(status, order[k]) ELSE Empty]

\* _state_from_snapshot
StateFromSnapshot(r) ==
    LET seated == [i \in Positions |->
                     IF \E a \in RoundPlayers(r) : r.players[a] = i
                     THEN Slot("playing", CHOOSE a \in RoundPlayers(r) : r.players[a] = i)
                     ELSE Empty]
    IN  [e |-> r.e, pid |-> r.pid, ver |-> r.ver, host |-> r.host, rev |-> r.ver, round |-> r.round,
         players |-> RoundPlayers(r),
         slots |-> Fill(seated, SelectSeq(HostFirst(r), LAMBDA a : a \notin RoundPlayers(r)),
                        IF r.round # None THEN "no_beatmap" ELSE "not_ready")]

\* Mutant: the version is not compared.
CurrentMembers(p, r) == p.e = r.e /\ Occupants(p) = Present(r) /\ p.round = r.round

\* _reconcile_snapshot: is the cached state current, can its slots be kept?
Current(p, r) ==
    p.e = r.e /\ p.ver = r.ver /\ Occupants(p) = Present(r) /\ p.round = r.round
SlotsKept(p, r) == p.e = r.e /\ p.round = r.round

Reconciled(p, r) ==
    IF SlotsKept(p, r)
    THEN LET kept == [i \in Positions |-> IF p.slots[i].who \in Present(r) THEN p.slots[i] ELSE Empty]
         IN  [p EXCEPT !.ver = r.ver, !.host = r.host, !.rev = @ + 1,
                       !.slots = Fill(kept, SelectSeq(HostFirst(r), LAMBDA a : a \notin Occupants(p)), "not_ready")]
    ELSE [StateFromSnapshot(r) EXCEPT !.rev = IF p.rev + 1 > @ THEN p.rev + 1 ELSE @]

-----------------------------------------------------------------------------
(* Mutations of the cached state; r is the durable room the caller holds.  *)

InRoom(p, r) == [p EXCEPT !.ver = r.ver, !.host = r.host]

OpenPositions(p) == {i \in Positions : p.slots[i].status = "open"}

\* join: nothing to do for an account that has a slot, else the first open one.
JoinApplies(p, a) == a \in Occupants(p) \/ OpenPositions(p) # {}
JoinMutation(p, r, a) ==
    IF a \in Occupants(p) THEN InRoom(p, r)
    ELSE LET i == CHOOSE i \in OpenPositions(p) : \A j \in OpenPositions(p) : i <= j
         IN  [InRoom(p, r) EXCEPT !.rev = @ + 1, !.slots[i] = Slot("not_ready", a)]

\* leave: the slot is opened; round_participant_account_ids is not touched.
LeaveMutation(p, r, a) ==
    IF a \notin Occupants(p) THEN InRoom(p, r)
    ELSE [InRoom(p, r) EXCEPT !.rev = @ + 1, !.slots[SlotOf(p, a)] = Empty]

MoveApplies(p, a, i) == a \in Occupants(p) /\ p.slots[i].status = "open"
MoveMutation(p, a, i) ==
    [p EXCEPT !.rev = @ + 1, !.slots = [@ EXCEPT ![i] = p.slots[SlotOf(p, a)], ![SlotOf(p, a)] = Empty]]

LockApplies(p, a, i) == p.host = a /\ p.slots[i].who = None
LockMutation(p, i) ==
    [p EXCEPT !.rev = @ + 1, !.slots[i].status = IF @ = "open" THEN "locked" ELSE "open"]

\* _update_slot with set_slot_status
StatusMutation(p, a, status) == [p EXCEPT !.rev = @ + 1, !.slots[SlotOf(p, a)].status = status]

\* _update_slot with set_slot_team, set_slot_mods
SlotMutation(p) == [p EXCEPT !.rev = @ + 1]

\* mark_loaded, mark_skipped, mark_failed: playing participants only.
MarkApplies(p, a) == a \in Occupants(p) /\ p.slots[SlotOf(p, a)].status = "playing"
MarkMutation(p, a, flag) ==
    [p EXCEPT !.rev = @ + 1,
              !.slots[SlotOf(p, a)] = [@ EXCEPT !.flags = @ \cup {flag},
                                                !.status = IF flag = "failed" THEN "complete" ELSE @]]

\* What a committed host command makes of the state it started from.
Reset(slot, status) == IF slot.who = None THEN slot ELSE Slot(status, slot.who)
SettingsState(p, r) ==
    [InRoom(p, r) EXCEPT !.rev = @ + 1, !.round = None, !.players = {},
                         !.slots = [i \in Positions |-> Reset(p.slots[i], "not_ready")]]
HostState(p, r) == [InRoom(p, r) EXCEPT !.rev = @ + 1]
Starters(p) == {a \in Occupants(p) : p.slots[SlotOf(p, a)].status # "no_beatmap"}
StartedState(p, r) ==
    [InRoom(p, r) EXCEPT !.rev = @ + 1, !.round = r.round, !.players = Starters(p),
       !.slots = [i \in Positions |-> IF p.slots[i].who \in Starters(p) THEN Reset(p.slots[i], "playing") ELSE p.slots[i]]]
CompletedState(p, r) ==
    [InRoom(p, r) EXCEPT !.rev = @ + 1, !.round = None, !.players = {},
       !.slots = [i \in Positions |-> IF p.slots[i].who \in p.players THEN Reset(p.slots[i], "not_ready") ELSE p.slots[i]]]

-----------------------------------------------------------------------------
(* _CAS_SCRIPT and _REMOVE_SCRIPT; index[a] is the account's index key.    *)

Owner(p) == [pid |-> p.pid, e |-> p.e]

\* An account key that belongs to another room, or to a later room with the
\* same public id.
Conflict(p, index) ==
    \E a \in Occupants(p) :
        index[a] # None /\ index[a] # Owner(p) /\ (index[a].pid # p.pid \/ index[a].e >= p.e)

IndexRemoved(current, index) ==
    [a \in Accounts |->
       IF current # None /\ a \in Occupants(current) /\ index[a] = Owner(current) THEN None ELSE index[a]]

\* Creation (expected == -1): the keys of an earlier room with this public id
\* are deleted before the accounts are looked at.
IndexBeforeCreate(current, p, index) ==
    IF current # None /\ current.e < p.e THEN IndexRemoved(current, index) ELSE index
CreateStatus(current, p, index) ==
    CASE current # None /\ current.e = p.e -> "EXISTS"
      [] current # None /\ current.e > p.e -> "EPOCH_FENCED"
      [] Conflict(p, IndexBeforeCreate(current, p, index)) -> "ACCOUNT_CONFLICT"
      [] OTHER -> "OK"

\* Mutant: only the revision is compared.
ReplaceStatusRevision(current, p, revision, session, index) ==
    CASE current = None -> "NOT_FOUND"
      [] current.rev # revision -> "FENCED"
      [] OTHER -> "OK"

\* Status for a replacement at an expected revision of an expected session.
ReplaceStatus(current, p, revision, session, index) ==
    CASE current = None -> "NOT_FOUND"
      [] current.e # session \/ current.e > p.e -> "EPOCH_FENCED"
      [] current.rev # revision -> "FENCED"
      [] Conflict(p, index) -> "ACCOUNT_CONFLICT"
      [] OTHER -> "OK"

\* Index keys after a write: the previous owner's are deleted, the new set.
IndexAfter(current, p, index) ==
    [a \in Accounts |->
       IF a \in Occupants(p) THEN Owner(p)
       ELSE IF current # None /\ a \in Occupants(current) /\ index[a] = Owner(current) THEN None
       ELSE index[a]]

RemoveStatus(current, revision, session) ==
    IF current # None /\ (current.e # session \/ current.rev # revision) THEN "FENCED" ELSE "OK"

=============================================================================
