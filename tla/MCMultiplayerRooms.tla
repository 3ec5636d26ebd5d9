------------------------- MODULE MCMultiplayerRooms -------------------------
(* Setups of MultiplayerRooms: one connection per account, or two of one   *)
(* account (a Stable login that replaced another), or a hub connection.    *)
EXTENDS MultiplayerRooms

CONSTANTS c1, c2, a1, a2

Setup(account, seats, kinds, faults, pids, rooms, commands, attempts) ==
    [account |-> account, hubs |-> {}, seats |-> seats, kinds |-> kinds, faults |-> faults,
     pids |-> pids, rooms |-> rooms, commands |-> commands, attempts |-> attempts]
Two == (c1 :> a1) @@ (c2 :> a2)
Relogin == (c1 :> a1) @@ (c2 :> a1)
Both == <<c1, c2>>

Membership == Setup(Two, <<>>, {"create", "join", "part", "look"}, {}, 2, 2, 3, 2)
Failing == Setup(Two, Both, {"join", "part", "settings", "look"}, {"redis", "expiry"}, 1, 2, 2, 1)
Presence == Setup(Relogin, <<c1>>, {"create", "join", "part", "logout"}, {}, 1, 2, 3, 1)
Hosting == Setup(Two, Both, {"host", "kick", "settings", "join"}, {}, 1, 1, 2, 1)
Modding == Setup(Two, Both, {"mods", "password", "team", "host"}, {}, 1, 1, 2, 2)
Slots == Setup(Two, Both, {"lock", "move", "ready", "no_beatmap", "start"}, {}, 1, 1, 2, 2)
Loading == Setup(Two, Both, {"start", "abort", "loaded", "skipped"}, {}, 1, 1, 2, 2)
Rounds == Setup(Two, Both, {"start", "complete", "failed", "part"}, {}, 1, 1, 2, 1)

Hub == [Setup(Two, Both, {"settings", "ready", "part", "join"}, {}, 1, 1, 2, 1) EXCEPT !.hubs = {c2}]

AllSetups == {Hub, Membership, Failing, Presence, Hosting, Modding, Slots, Loading, Rounds}

\* A player leaves the running round, and a lookup follows.
RepairSetups == {Setup(Two, Both, {"start", "part", "look"}, {}, 1, 1, 2, 1)}

=============================================================================
