------------------------------ MODULE MCCatalog ------------------------------
(* The beatmap catalog, the projections of accepted scores, the import of a  *)
(* legacy database, and chat and spectating over Stable, checked as the      *)
(* parts of one state space.                                                 *)
EXTENDS MCParts

CONSTANT Clashing  \* whether the target of the import has an official set of
                   \* the id of a private one

VARIABLES
  up, row, maps, sched, holder, job, ask, staff, hist, closing, published, failures,
  scoring, accepted, perfQ, rankQ, statQ, perfs, elig, best, rankTx, statTx, playStat,
  beatmapStat, statHolder, mapOk, flips, views, day, snaps, snapper, snapHolder, counted, writes,
  legacy, db, ckpt, target_lock, inv, runs, ideal, faults,
  watch, relation, frames, send, from, fellows, watchers, crossed, blurred,
  chat, online, logins, said, lastRead, inside, due, excused, window

beatmapVars == <<up, row, maps, sched, holder, job, ask, staff, hist, closing, published, failures>>
projectionVars ==
  <<scoring, accepted, perfQ, rankQ, statQ, perfs, elig, best, rankTx, statTx, playStat,
    beatmapStat, statHolder, mapOk, flips, views, day, snaps, snapper, snapHolder, counted, writes>>
migrationVars == <<legacy, db, ckpt, target_lock, inv, runs, ideal>>
watchVars == <<watch, relation, frames, send, from, fellows, watchers, crossed, blurred>>
chatVars == <<chat, online, logins, said, lastRead, inside, due, excused, window>>
catalogVars == <<beatmapVars, projectionVars, migrationVars, faults, watchVars, chatVars>>

-----------------------------------------------------------------------------
\* A set upstream changes, and that two processes synchronise.

Snapshot(v, st, f) == [ver |-> v, status |-> st, files |-> f]
Want(p, w) == [proc |-> p, want |-> w]
File(m, d) == [map |-> m, digest |-> d]
Upstream(versions, asks, commands, until, closes) ==
  [snaps |-> versions, asks |-> asks, commands |-> commands, until |-> until, closes |-> closes]

CatalogSetups == {
  \* Two processes synchronise while upstream moves on and staff overrides.
  Upstream(<<Snapshot(1, "pending", [m1 |-> "d1", m2 |-> "d2"]), Snapshot(2, "graveyard", [m1 |-> "d3"]),
             Snapshot(3, "qualified", [m1 |-> "d1", m2 |-> "d4"])>>,
    ("r1" :> Want("web", File("m1", "d1"))) @@ ("r2" :> Want("worker", File("m1", "d3"))),
    ("t1" :> "qualify") @@ ("t2" :> "revert"), 0, FALSE),
  \* Equal versions that extend and that contradict each other.
  Upstream(<<Snapshot(1, "pending", [m1 |-> "d1"]), Snapshot(1, "pending", [m1 |-> "d1", m2 |-> "d2"]),
             Snapshot(1, "pending", [m1 |-> "d3"])>>,
    ("r1" :> Want("web", File("m1", "d1"))) @@ ("r2" :> Want("worker", File("m2", "d2"))) @@ ("r3" :> Want("web", File("m1", "d3"))),
    "t1" :> "abandon", 0, FALSE),
  \* Failing refreshes of a known set, and processes that shut down.
  Upstream(<<Snapshot(1, "ranked", [m1 |-> "d1", m2 |-> "d2"]), Snapshot(2, "ranked", [m1 |-> "d2", m2 |-> "d1"])>>,
    ("r1" :> Want("web", File("m1", "d1"))) @@ ("r2" :> Want("worker", None)) @@ ("r3" :> Want("web", None)),
    << >>, 6, TRUE) }

K == INSTANCE Catalog WITH
  Procs <- {"web", "worker"}, Setups <- CatalogSetups, Lease <- 2, Retry <- 1, CheckAfter <- 3

-----------------------------------------------------------------------------
\* Scores of two lanes whose projections run beside each other.

Play(l, m, pp, total, o) == [lane |-> l, map |-> m, pp |-> pp, total |-> total, outcome |-> o]
Plays(consumers, metric, released, scores) ==
  [runs |-> consumers, metric |-> metric, released |-> released, scores |-> scores]
ScoreSetups == {
  Plays({"ranking"}, "pp", TRUE,
    <<Play("l1", "m1", 2, 1, "passed"), Play("l1", "m1", 3, 0, "passed"), Play("l1", "m2", 1, 1, "passed"), Play("l2", "m1", 1, 1, "failed")>>),
  Plays({"ranking"}, "total_score", FALSE,
    <<Play("l1", "m1", 2, 1, "passed"), Play("l1", "m1", 2, 1, "passed"), Play("l2", "m1", 2, 1, "passed")>>),
  Plays({"ranking", "snapshot"}, "pp", TRUE,
    <<Play("l1", "m1", 2, 1, "passed"), Play("l1", "m1", 3, 1, "passed"), Play("l2", "m1", 1, 1, "passed")>>),
  Plays({"statistics"}, "pp", TRUE,
    <<Play("l1", "m1", 2, 1, "passed"), Play("l2", "m1", 3, 1, "failed"), Play("l1", "m1", 1, 1, "passed"), Play("l2", "m2", 1, 1, "passed")>>) }

J == INSTANCE ScoreProjections WITH Schedulers <- {p1, p2}, MaxDay <- 2, MaxFlips <- 1, MaxViews <- 1

-----------------------------------------------------------------------------
\* Legacy databases, and the targets they are imported into.

User(id, name, email, clan, owner) ==
  [id |-> id, name |-> name, email |-> email, clan |-> clan, owner |-> owner, override |-> None,
   skip |-> FALSE, roles |-> {"user"}, restricted |-> id = 1, devices |-> {"pc"}]
EmptyTarget ==
  [accounts |-> {}, names |-> <<>>, emails |-> <<>>, grants |-> {}, sanctions |-> {}, devices |-> {},
   sequence |-> 0, attempts |-> <<>>, audits |-> <<>>, teams |-> <<>>, teamSequence |-> 0,
   members |-> <<>>, follows |-> {}, blocks |-> {}, achievements |-> <<>>, unlocks |-> {},
   channels |-> <<>>, channelSequence |-> 0, mail |-> <<>>, reads |-> <<>>,
   sources |-> {"osu"}, sets |-> <<>>, maps |-> <<>>, setOf |-> <<>>, revs |-> <<>>,
   current |-> <<>>, assets |-> {}, favourites |-> {}, ratings |-> {}, comments |-> <<>>]
EmptyLegacy ==
  [users |-> <<>>, logins |-> <<>>, logs |-> <<>>, clans |-> <<>>, relations |-> {},
   achievements |-> <<>>, unlocks |-> {}, channels |-> <<>>, mail |-> <<>>, mapsets |-> <<>>,
   maps |-> <<>>, favourites |-> {}, ratings |-> {}, comments |-> <<>>, late |-> <<>>,
   target |-> EmptyTarget]

\* Every table, into a target whose account 2 is someone else and whose account
\* 5 has the name of the third user.
Whole ==
  [EmptyLegacy EXCEPT
    !.users = <<User(1, "n1", "e1", 7, TRUE), User(2, "n2", "e2", 7, TRUE), User(3, "n3", "e3", 8, FALSE)>>,
    !.logins = <<[id |-> 1, user |-> 2]>>,
    !.logs = <<[id |-> 1, from |-> 9, to |-> 2], [id |-> 2, from |-> 2, to |-> 9]>>,
    !.clans = <<[id |-> 7, name |-> "c7", tag |-> "t7"], [id |-> 8, name |-> "c8", tag |-> "t7"]>>,
    !.relations = {[from |-> 1, to |-> 2, kind |-> "follow"], [from |-> 2, to |-> 1, kind |-> "block"]},
    !.achievements = <<[id |-> 1, slug |-> "a"], [id |-> 2, slug |-> "b"]>>,
    !.unlocks = {[user |-> 2, achievement |-> 1], [user |-> 2, achievement |-> 2]},
    !.channels = <<[id |-> 1, slug |-> "osu"]>>,
    !.mail = <<[id |-> 1, from |-> 1, to |-> 2, read |-> TRUE], [id |-> 2, from |-> 2, to |-> 1, read |-> FALSE]>>,
    !.mapsets = <<[id |-> 1, server |-> "private"], [id |-> 2, server |-> "osu"]>>,
    !.maps = <<[id |-> 1, set |-> 1, server |-> "private", md5 |-> "m1", file |-> TRUE],
               [id |-> 2, set |-> 1, server |-> "private", md5 |-> "m2", file |-> FALSE]>>,
    !.favourites = {[user |-> 2, set |-> 1]},
    !.ratings = {[user |-> 2, md5 |-> "m1"]},
    !.comments = <<[id |-> 1, user |-> 2, on |-> "map", target |-> 1],
                   [id |-> 2, user |-> 2, on |-> "song", target |-> 1],
                   [id |-> 3, user |-> 2, on |-> "replay", target |-> 1]>>,
    !.target.accounts = {2, 5}, !.target.names = ("other" :> 2) @@ ("n3" :> 5), !.target.emails = "o" :> 2,
    !.target.achievements = "b" :> 1, !.target.channels = "osu" :> 4]

\* Two users that point at one target account, an override, a skipped user, a
\* map whose bytes the target knows under another map, and a late writer.
Collisions ==
  [EmptyLegacy EXCEPT
    !.users = <<User(1, "n1", "e1", None, FALSE), User(2, "n2", "e2", None, FALSE),
                [User(3, "n1", "e3", None, FALSE) EXCEPT !.skip = TRUE],
                [User(4, "n4", "e4", None, FALSE) EXCEPT !.override = 6]>>,
    !.logs = <<[id |-> 1, from |-> 1, to |-> 2], [id |-> 2, from |-> 4, to |-> 1]>>,
    !.mapsets = <<[id |-> 1, server |-> "osu"]>>,
    !.maps = <<[id |-> 1, set |-> 1, server |-> "osu", md5 |-> "m1", file |-> TRUE]>>,
    !.late = <<[id |-> 4, user |-> 1, on |-> "song", target |-> 1]>>,
    !.target.accounts = {5, 6}, !.target.names = ("n1" :> 5), !.target.emails = ("e2" :> 5),
    !.target.sets = <<"osu", 9>> :> 3, !.target.maps = <<"osu", 9>> :> 2, !.target.revs = "m1" :> 2]

Late == [Collisions EXCEPT !.target.revs = <<>>,
           !.comments = <<[id |-> 1, user |-> 1, on |-> "map", target |-> 1]>>]

Twice == [Whole EXCEPT !.target.sets = <<"osu", 1>> :> 3]

I == INSTANCE Migration WITH
  Invocations <- {s1, s2}, BatchSize <- 2, MaxRuns <- 3, MaxFaults <- 2,
  MigrationSetups <- {Whole, Collisions, Late} \cup (IF Clashing THEN {Twice} ELSE {})

-----------------------------------------------------------------------------
\* Two viewers of two hosts.

Watch(one, two, first, second, again, limit) ==
  [packets |-> [v1 |-> one, v2 |-> two], plays |-> [h1 |-> first, h2 |-> second],
   logins |-> again, limit |-> limit]

SpectateSetups == {
  Watch(<<"h1", "stop", "h1">>, <<>>, <<"new", "go", "go", "new">>, <<>>, {}, 2),
  Watch(<<"h1", "stop", "h1">>, <<"h1">>, <<>>, <<>>, {}, 2),
  Watch(<<"h1", "h2">>, <<"h2">>, <<"new">>, <<"new">>, {}, 2),
  Watch(<<"h1", "cant", "h2">>, <<"h1">>, <<>>, <<>>, {"h2"}, 2),
  Watch(<<"h1", "stop", "h1">>, <<>>, <<"new", "go">>, <<>>, {"h1"}, 1),
  Watch(<<"h1", "stop">>, <<"h1", "stop">>, <<>>, <<>>, {}, 1) }

W == INSTANCE Spectating WITH Viewers <- {"v1", "v2"}, Hosts <- {"h1", "h2"}, HistoryLimit <- 2

-----------------------------------------------------------------------------
\* Messages to a user that logs in and out, and to a channel people leave.

Ask(what, to, text) == [do |-> what, to |-> to, text |-> text]
Login == Ask("login", None, None)
Logout == Ask("logout", None, None)
Public == Ask("public", None, "x")
Part == Ask("part", None, None)
Join == Ask("join", None, None)
Direct(to, text) == Ask("direct", to, text)
Read(peer) == Ask("read", peer, None)
Chat(first, second, third, blocking, failing, windows) ==
  [script |-> [u1 |-> first, u2 |-> second, u3 |-> third], blocks |-> blocking,
   faults |-> failing, window |-> windows]

ChatSetups == {
  Chat(<<Login, Direct("u2", "x"), Direct("u2", "x"), Direct("u2", "y")>>,
       <<Login, Logout, Login>>, <<>>, {}, 1, 1),
  Chat(<<Login, Direct("u2", "x"), Direct("u2", "y")>>,
       <<Login, Read("u1"), Logout, Login>>, <<Login, Direct("u2", "x")>>, {}, 0, 0),
  Chat(<<Login, Public, Public>>, <<Login, Part, Join>>, <<Login, Logout>>,
       {<<"u1", "u2">>, <<"u3", "u1">>}, 1, 0) }

X == INSTANCE StableChat WITH Users <- {"u1", "u2", "u3"}, Page <- 2

-----------------------------------------------------------------------------
NoBeatmaps ==
  /\ up = None /\ row = None /\ maps = None /\ sched = None /\ holder = None /\ job = None
  /\ ask = None /\ staff = None /\ hist = None /\ closing = None /\ published = None /\ failures = None
NoProjections ==
  /\ scoring = None /\ accepted = None /\ perfQ = None /\ rankQ = None /\ statQ = None
  /\ perfs = None /\ elig = None /\ best = None /\ rankTx = None /\ statTx = None
  /\ playStat = None /\ beatmapStat = None /\ statHolder = None /\ mapOk = None /\ flips = None
  /\ views = None /\ day = None /\ snaps = None /\ snapper = None /\ snapHolder = None
  /\ counted = None /\ writes = None
NoMigration ==
  /\ legacy = None /\ db = None /\ ckpt = None /\ target_lock = None /\ inv = None /\ runs = None
  /\ ideal = None
NoWatching ==
  /\ watch = None /\ relation = None /\ frames = None /\ send = None /\ from = None
  /\ fellows = None /\ watchers = None /\ crossed = None /\ blurred = None
NoChat ==
  /\ chat = None /\ online = None /\ logins = None /\ said = None /\ lastRead = None
  /\ inside = None /\ due = None /\ excused = None /\ window = None
NoCatalog == NoBeatmaps /\ NoProjections /\ NoMigration /\ faults = None /\ NoWatching /\ NoChat

NoSetup == setup = None /\ log = None /\ now = None
NoWire == stream = None /\ poll = None /\ fence = None /\ history = None

CatalogInit ==
  /\ cache = None
  /\ \/ /\ part = "catalog" /\ K!Init /\ NoWire /\ req = None /\ shown = None /\ faults = None
        /\ NoProjections /\ NoMigration /\ NoWatching /\ NoChat
     \/ /\ part = "projections" /\ J!Init /\ NoSetup /\ NoWire /\ req = None /\ shown = None
        /\ faults = None /\ NoBeatmaps /\ NoMigration /\ NoWatching /\ NoChat
     \/ /\ part = "migration" /\ I!Init /\ NoSetup /\ NoWire /\ req = None /\ shown = None
        /\ NoBeatmaps /\ NoProjections /\ NoWatching /\ NoChat
     \/ /\ part = "spectating" /\ W!Init /\ NoSetup /\ req = None /\ faults = None
        /\ NoBeatmaps /\ NoProjections /\ NoMigration /\ NoChat
     \/ /\ part = "chat" /\ X!Init /\ NoSetup /\ poll = None /\ fence = None /\ history = None
        /\ NoBeatmaps /\ NoProjections /\ NoMigration /\ NoWatching

\* The bounded clients have nothing left to do.
CatalogRest ==
  /\ CASE part = "catalog" -> K!Quiet
       [] part = "projections" -> J!Drained
       [] part = "migration" -> I!Over
       [] part = "spectating" -> W!Quiet
       [] part = "chat" -> X!Quiet
       [] OTHER -> FALSE
  /\ UNCHANGED <<partVars, catalogVars>>

CatalogNext ==
  /\ UNCHANGED <<part, cache>>
  /\ \/ /\ part = "catalog" /\ K!Next
        /\ UNCHANGED <<req, history, stream, poll, fence, shown, faults,
                       projectionVars, migrationVars, watchVars, chatVars>>
     \/ /\ part = "projections" /\ J!Next
        /\ UNCHANGED <<setup, log, now, req, history, stream, poll, fence, shown, faults,
                       beatmapVars, migrationVars, watchVars, chatVars>>
     \/ /\ part = "migration" /\ I!Next
        /\ UNCHANGED <<setup, log, now, req, history, stream, poll, fence, shown,
                       beatmapVars, projectionVars, watchVars, chatVars>>
     \/ /\ part = "spectating" /\ W!Next
        /\ UNCHANGED <<setup, log, now, req, faults, beatmapVars, projectionVars, migrationVars, chatVars>>
     \/ /\ part = "chat" /\ X!Next
        /\ UNCHANGED <<setup, log, now, history, poll, fence,
                       beatmapVars, projectionVars, migrationVars, watchVars>>
     \/ CatalogRest

CatalogSpec == CatalogInit /\ [][CatalogNext]_<<partVars, catalogVars>>

-----------------------------------------------------------------------------
\* The docstring of revert_status: it restores the source status.
RevertRestores == part = "catalog" => K!RevertRestores

\* An import that was stopped and resumed, between or within batches, holds
\* after each phase what one uninterrupted pass would hold.
ResumedAsOnePass == part = "migration" => I!ResumedAsOnePass
=============================================================================
