----------------------------- MODULE MCRealtime ------------------------------
(* Setups of RealtimeState: two logins of a host, one of a viewer, one of   *)
(* somebody else.                                                           *)
EXTENDS RealtimeState

CONSTANTS host, viewer, other, h1, h2, v1, o1, c1, c2, away, r1, r2, p1

OwnerOf == [s \in Sessions |-> CASE s = v1 -> viewer [] s = o1 -> other [] OTHER -> host]
Ends == [s \in Sessions |-> IF s = h1 THEN 3 ELSE 5]

None == [sessions |-> {h1, h2, v1}, channels |-> {}, preferences |-> {}, relations |-> {}, sizes |-> {},
         readers |-> {}, capacity |-> 2, skew |-> 0, logins |-> 3, frames |-> 0, time |-> 3]

Logins == [None EXCEPT !.preferences = {away}, !.capacity = 1, !.skew = 1, !.logins = 5]
ChannelUse == [None EXCEPT !.channels = {c1, c2}, !.logins = 4]
Spectating == [None EXCEPT !.relations = {r1, r2}]
Crowd == [None EXCEPT !.sessions = {h1, v1, o1}, !.relations = {r1, r2}, !.time = 1]
Frames == [None EXCEPT !.sessions = {h1, h2}, !.sizes = {1, 2}, !.frames = 3, !.logins = 2, !.readers = {p1}]

AllSetups == {Logins, ChannelUse, Spectating, Crowd, Frames}
=============================================================================
