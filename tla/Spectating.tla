----------------------------- MODULE Spectating -----------------------------
(***************************************************************************)
(* Watching a play over Stable: the packets START_SPECTATING,              *)
(* STOP_SPECTATING, CANT_SPECTATE and SPECTATE_FRAMES as the dispatcher    *)
(* handles them, one Redis call at a time, and what the clients make of    *)
(* the bubbles they are sent.                                              *)
(*                                                                         *)
(* A client has one poll at a time.  A poll handles the packets of its     *)
(* body, then drains the account's stream; local bubbles are rendered      *)
(* before the drained ones.  The relation and the frame history live in    *)
(* Redis and are changed by single scripts.  A host that logs in again has *)
(* a new fence, and the relations to its old login are gone.               *)
(***************************************************************************)
EXTENDS Naturals, Sequences, FiniteSets
LOCAL INSTANCE SequencesExt

CONSTANTS
    Viewers, Hosts,
    SpectateSetups,  \* [packets, plays, logins, limit]: the packets of every
                     \* viewer, for each frame of a host whether it starts a
                     \* play, who may log in again, and viewers per host
    HistoryLimit,
    None

VARIABLES
    watch,     \* the setup
    fence,     \* per host, its login
    relation,  \* per viewer: None or [host, fence]
    history,   \* per host, the retained frames of its current play
    frames,    \* per host, how many frames it published
    stream,    \* per account, the bubbles not yet drained
    poll,      \* per viewer: [pc, next, host, fence, cur, listed, out, local, then]
    send,      \* per host: None, or the recipients of the frame just recorded
    shown,     \* per viewer, the frames it was shown since it attached
    from,      \* and the frame the history it was given starts with
    fellows,   \* per viewer, the fellow viewers its client lists
    watchers,  \* per host, the viewers its client lists
    crossed,   \* viewers that attached while frames were still on their way
    blurred    \* pairs whose requests overlapped, or met an undrained bubble

Accounts == Viewers \cup Hosts

Frame(h, n) == [kind |-> "frame", of |-> h, n |-> n]
Lifecycle(kind, v) == [kind |-> kind, of |-> v, n |-> 0]
To(account, bubble) == [account |-> account, bubble |-> bubble]
IsFrame(b) == b.kind = "frame"

Waiting(pc, next) ==
    [pc |-> pc, next |-> next, host |-> None, fence |-> 0, cur |-> None, listed |-> {},
     out |-> <<>>, local |-> <<>>, then |-> "packet"]

Init ==
    /\ watch \in SpectateSetups
    /\ fence = [h \in Hosts |-> 1]
    /\ relation = [v \in Viewers |-> None]
    /\ history = [h \in Hosts |-> <<>>]
    /\ frames = [h \in Hosts |-> 0]
    /\ stream = [a \in Accounts |-> <<>>]
    /\ poll = [v \in Viewers |-> Waiting("packet", 1)]
    /\ send = [h \in Hosts |-> None]
    /\ shown = [v \in Viewers |-> <<>>] /\ from = [v \in Viewers |-> 1]
    /\ fellows = [v \in Viewers |-> {}]
    /\ watchers = [h \in Hosts |-> {}]
    /\ crossed = {} /\ blurred = {}

-----------------------------------------------------------------------------
\* The realtime repository.

Live(v) == relation[v] # None /\ relation[v].fence = fence[relation[v].host]
list_spectators(h) == {v \in Viewers : Live(v) /\ relation[v].host = h}
Latest(h) == SubSeq(history[h], IF Len(history[h]) > HistoryLimit
                                THEN Len(history[h]) - HistoryLimit + 1 ELSE 1, Len(history[h]))

Packet(v) == watch.packets[v][poll[v].next]
Busy(v) == poll[v].pc # "packet"

\* Requests of others that run while this one starts.
Overlaps(v) == {{v, u} : u \in {w \in Viewers \ {v} : Busy(w)}}

Fetch(v) == poll[v].pc = "packet" /\ poll[v].next <= Len(watch.packets[v])

\* The next packet of the body, keeping what the earlier ones left to render.
NextPacket(v) == [Waiting("packet", poll[v].next + 1) EXCEPT !.local = poll[v].local]

\* After leaving another host a START goes on, everything else is done.
Proceed(v) == IF poll[v].then = "packet" THEN NextPacket(v)
              ELSE [poll[v] EXCEPT !.pc = poll[v].then, !.then = "packet", !.listed = {}]

-----------------------------------------------------------------------------

\* START_SPECTATING: the host's presence and the viewer's relation are read.
start_spectating(v) ==
    /\ Fetch(v) /\ Packet(v) \in Hosts
    /\ LET h == Packet(v)
           begun == [poll[v] EXCEPT !.host = h, !.fence = fence[h]]
       IN poll' = [poll EXCEPT ![v] =
            CASE Live(v) /\ relation[v].host = h -> NextPacket(v)
              [] Live(v) /\ relation[v].host # h ->
                   [begun EXCEPT !.pc = "leave", !.cur = relation[v], !.then = "list"]
              [] ~Live(v) -> [begun EXCEPT !.pc = "list"]]
    /\ relation' = IF Live(v) THEN relation ELSE [relation EXCEPT ![v] = None]
    /\ blurred' = blurred \cup Overlaps(v)
    /\ UNCHANGED <<watch, fence, history, frames, stream, send, shown, from, fellows, watchers, crossed>>

\* STOP_SPECTATING, and _stop_spectating of a logout.
stop_spectating(v) ==
    /\ Fetch(v) /\ Packet(v) = "stop"
    /\ poll' = [poll EXCEPT ![v] = IF Live(v) THEN [@ EXCEPT !.pc = "leave", !.cur = relation[v]]
                                   ELSE NextPacket(v)]
    /\ relation' = IF Live(v) THEN relation ELSE [relation EXCEPT ![v] = None]
    /\ blurred' = blurred \cup Overlaps(v)
    /\ UNCHANGED <<watch, fence, history, frames, stream, send, shown, from, fellows, watchers, crossed>>

\* _detach_spectator lists the fellows, none if the host's login has ended.
ListFellows(v) ==
    /\ poll[v].pc = "leave"
    /\ poll' = [poll EXCEPT ![v].pc = "detach",
                            ![v].listed = IF poll[v].cur.fence = fence[poll[v].cur.host]
                                          THEN list_spectators(poll[v].cur.host) \ {v} ELSE {}]
    /\ UNCHANGED <<watch, fence, relation, history, frames, stream, send, shown, from, fellows,
                   watchers, crossed, blurred>>

\* The bubbles of a request, published one by one: the host's first.
Bubbles(h, listed, toHost, toFellow, v) ==
    <<To(h, Lifecycle(toHost, v))>> \o
    [k \in 1..Cardinality(listed) |-> To(SetToSeq(listed)[k], Lifecycle(toFellow, v))]

\* detach_spectator: nothing is announced for a relation that is gone.
detach_spectator(v) ==
    /\ poll[v].pc = "detach"
    /\ IF relation[v] = poll[v].cur
       THEN /\ relation' = [relation EXCEPT ![v] = None]
            /\ poll' = [poll EXCEPT ![v].pc = "publish",
                          ![v].out = Bubbles(poll[v].cur.host, poll[v].listed, "left", "fellow left", v)]
       ELSE /\ poll' = [poll EXCEPT ![v] = Proceed(v)]
            /\ UNCHANGED relation
    /\ UNCHANGED <<watch, fence, history, frames, stream, send, shown, from, fellows, watchers,
                   crossed, blurred>>

\* _publish_spectator_bubble, for the next bubble.
publish_spectator_bubble(v) ==
    /\ poll[v].pc = "publish"
    /\ LET b == Head(poll[v].out) IN stream' = [stream EXCEPT ![b.account] = Append(@, b.bubble)]
    /\ poll' = [poll EXCEPT ![v] = IF Len(poll[v].out) = 1 THEN Proceed(v) ELSE [@ EXCEPT !.out = Tail(@)]]
    /\ UNCHANGED <<watch, fence, relation, history, frames, send, shown, from, fellows, watchers,
                   crossed, blurred>>

\* The viewers the host has already; a host that logged in again ends it.
ListExisting(v) ==
    /\ poll[v].pc = "list"
    /\ LET h == poll[v].host IN
       poll' = [poll EXCEPT ![v] = IF poll[v].fence = fence[h]
                                   THEN [@ EXCEPT !.pc = "attach", !.listed = list_spectators(h) \ {v}]
                                   ELSE NextPacket(v)]
    /\ UNCHANGED <<watch, fence, relation, history, frames, stream, send, shown, from, fellows,
                   watchers, crossed, blurred>>

\* What a client has still to be shown.
Unseen(v) == poll[v].local \o stream[v]

\* Frames that reach a viewer although an earlier relation sent them.
OnTheirWay(v) ==
    \/ \E k \in DOMAIN Unseen(v) : IsFrame(Unseen(v)[k])
    \/ \E h \in Hosts : send[h] # None /\ v \in send[h]
Undrained(v) == {{v, Unseen(v)[k].of} : k \in {j \in DOMAIN Unseen(v) : Unseen(v)[j].kind \in {"fellow", "fellow left"}}}

\* attach_spectator binds both logins and returns the history, in one script.
\* A full host makes the whole request fail.
attach_spectator(v) ==
    /\ poll[v].pc = "attach"
    /\ LET h == poll[v].host
           given == Latest(h)
           listed == SetToSeq(poll[v].listed)
           local == [k \in DOMAIN listed |-> Lifecycle("fellow", listed[k])]
                    \o [k \in DOMAIN given |-> Frame(h, given[k])]
       IN IF poll[v].fence # fence[h]
          THEN /\ poll' = [poll EXCEPT ![v] = NextPacket(v)]
               /\ UNCHANGED <<relation, shown, from, fellows, crossed, blurred>>
          ELSE IF Cardinality(list_spectators(h)) >= watch.limit
          THEN /\ poll' = [poll EXCEPT ![v] = Waiting("packet", poll[v].next + 1)]
               /\ UNCHANGED <<relation, shown, from, fellows, crossed, blurred>>
          ELSE /\ relation' = [relation EXCEPT ![v] = [host |-> h, fence |-> fence[h]]]
               /\ poll' = [poll EXCEPT ![v].pc = "publish", ![v].local = @ \o local,
                             ![v].out = Bubbles(h, poll[v].listed, "joined", "fellow", v)]
               /\ shown' = [shown EXCEPT ![v] = <<>>]
               /\ fellows' = [fellows EXCEPT ![v] = {}]
               /\ from' = [from EXCEPT ![v] = IF given = <<>> THEN frames[h] + 1 ELSE given[1]]
               /\ crossed' = IF OnTheirWay(v) THEN crossed \cup {v} ELSE crossed \ {v}
               /\ blurred' = blurred \cup Undrained(v)
    /\ UNCHANGED <<watch, fence, history, frames, stream, send, watchers>>

\* CANT_SPECTATE: the host and every viewer are told, in one publication.
cant_spectate(v) ==
    /\ Fetch(v) /\ Packet(v) = "cant"
    /\ poll' = [poll EXCEPT ![v] = NextPacket(v)]
    /\ relation' = IF Live(v) THEN relation ELSE [relation EXCEPT ![v] = None]
    /\ stream' = IF ~Live(v) THEN stream
                 ELSE LET told == {relation[v].host} \cup list_spectators(relation[v].host) IN
                      [a \in Accounts |-> IF a \in told THEN Append(stream[a], Lifecycle("cant", v)) ELSE stream[a]]
    /\ UNCHANGED <<watch, fence, history, frames, send, shown, from, fellows, watchers, crossed, blurred>>

-----------------------------------------------------------------------------
\* SPECTATE_FRAMES: one script records the frame and names its recipients,
\* who are sent it afterwards.
publish_spectator_frame(h) ==
    /\ send[h] = None /\ frames[h] < Len(watch.plays[h])
    /\ LET n == frames[h] + 1 IN
       /\ frames' = [frames EXCEPT ![h] = n]
       /\ history' = [history EXCEPT ![h] = IF watch.plays[h][n] = "new" THEN <<n>> ELSE Append(@, n)]
    /\ send' = [send EXCEPT ![h] = list_spectators(h)]
    /\ UNCHANGED <<watch, fence, relation, stream, poll, shown, from, fellows, watchers, crossed, blurred>>

\* Mutant: the recipients are listed when the frame is sent.
SendToCurrent(h) ==
    /\ send[h] # None
    /\ stream' = [a \in Accounts |-> IF a \in list_spectators(h) THEN Append(stream[a], Frame(h, frames[h]))
                                     ELSE stream[a]]
    /\ send' = [send EXCEPT ![h] = None]
    /\ UNCHANGED <<watch, fence, relation, history, frames, poll, shown, from, fellows, watchers,
                   crossed, blurred>>

publish_spectator_many(h) ==
    /\ send[h] # None
    /\ stream' = [a \in Accounts |-> IF a \in send[h] THEN Append(stream[a], Frame(h, frames[h])) ELSE stream[a]]
    /\ send' = [send EXCEPT ![h] = None]
    /\ UNCHANGED <<watch, fence, relation, history, frames, poll, shown, from, fellows, watchers,
                   crossed, blurred>>

\* A new login of the host, up to its presence: OPEN_SESSION drops the
\* relations to the old login and the history.
LoginAgain(h) ==
    /\ h \in watch.logins /\ fence[h] = 1
    /\ fence' = [fence EXCEPT ![h] = 2]
    /\ relation' = [v \in Viewers |-> IF v \in list_spectators(h) THEN None ELSE relation[v]]
    /\ history' = [history EXCEPT ![h] = <<>>]
    /\ watchers' = [watchers EXCEPT ![h] = {}]
    /\ UNCHANGED <<watch, frames, stream, poll, send, shown, from, fellows, crossed, blurred>>

-----------------------------------------------------------------------------
\* The clients, as their polls are answered.

\* The list a client keeps, after bubbles that add to it and take from it.
Listed(old, bubbles, adds, takes) ==
    FoldLeft(LAMBDA acc, b : CASE b.kind = adds -> acc \cup {b.of}
                               [] b.kind = takes -> acc \ {b.of}
                               [] OTHER -> acc, old, bubbles)

\* Local bubbles, then the drained ones.
PollSubscribed(v) ==
    /\ poll[v].pc = "packet" /\ Unseen(v) # <<>>
    /\ LET got == Unseen(v) IN
       /\ shown' = [shown EXCEPT ![v] = @ \o SelectSeq(got, IsFrame)]
       /\ fellows' = [fellows EXCEPT ![v] = Listed(@, got, "fellow", "fellow left")]
    /\ poll' = [poll EXCEPT ![v].local = <<>>]
    /\ stream' = [stream EXCEPT ![v] = <<>>]
    /\ UNCHANGED <<watch, fence, relation, history, frames, send, from, watchers, crossed, blurred>>

HostPolls(h) ==
    /\ stream[h] # <<>>
    /\ watchers' = [watchers EXCEPT ![h] = Listed(@, stream[h], "joined", "left")]
    /\ stream' = [stream EXCEPT ![h] = <<>>]
    /\ UNCHANGED <<watch, fence, relation, history, frames, poll, send, shown, from, fellows, crossed, blurred>>

Next ==
    \/ \E v \in Viewers : start_spectating(v) \/ stop_spectating(v) \/ cant_spectate(v)
         \/ ListFellows(v) \/ detach_spectator(v) \/ publish_spectator_bubble(v)
         \/ ListExisting(v) \/ attach_spectator(v) \/ PollSubscribed(v)
    \/ \E h \in Hosts : publish_spectator_frame(h) \/ publish_spectator_many(h) \/ LoginAgain(h) \/ HostPolls(h)

Quiet ==
    /\ \A v \in Viewers : poll[v].pc = "packet" /\ poll[v].local = <<>>
    /\ \A h \in Hosts : send[h] = None
    /\ \A a \in Accounts : stream[a] = <<>>

-----------------------------------------------------------------------------
\* What a viewer is shown of a play is the history it was given and every
\* later frame, each once and in order, unless frames of an earlier relation
\* were on their way when it attached.
FramesWhole ==
    \A v \in Viewers \ crossed : Live(v) =>
      /\ \A k \in DOMAIN shown[v] : shown[v][k] = Frame(relation[v].host, from[v] + k - 1)
      /\ Quiet => from[v] + Len(shown[v]) = frames[relation[v].host] + 1

\* Once every bubble is drained a host lists exactly the viewers that watch
\* it, however they came and went, if it did not log in again.
WatchersConverge ==
    Quiet => \A h \in Hosts : fence[h] = 1 => watchers[h] = list_spectators(h)

\* Two viewers list each other as fellows exactly if they watch the same host,
\* unless their requests overlapped.
FellowsConverge ==
    Quiet => \A v, u \in Viewers : v # u /\ Live(v) /\ {v, u} \notin blurred =>
      (u \in fellows[v] <=> Live(u) /\ relation[u].host = relation[v].host)
=============================================================================
