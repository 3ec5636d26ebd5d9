----------------------------- MODULE MCServices -----------------------------
(* Administrative commands, the cache of their readers, relations between   *)
(* accounts with their messages, registrations and channels, checked with   *)
(* the parts of MCSessions and MCCatalog in one state space.                *)
EXTENDS MCSessions, MCCatalog

CONSTANTS a1, a2, a3

VARIABLES receipts, sends, nextId,
  grants, cases, sanctions, locks, tries,
  fact, tasks, slot, rd, wr, unclean,
  follows, blocks, policy, chats, msgs, cursor, tx, mail, reads,
  accounts, events, rq, held, answers,
  members, sent, nextPos, op, ops, at, hd, proj, late

managementVars == <<grants, cases, sanctions, locks, tries>>
cacheVars == <<fact, tasks, slot, rd, wr, unclean>>
relationVars == <<follows, blocks, policy, chats, msgs, cursor, tx, mail, reads>>
registerVars == <<accounts, events, rq, held, answers>>
channelVars == <<members, sent, nextPos, op, ops, at, hd, proj, late>>
serviceVars == <<receipts, sends, nextId,
                 managementVars, cacheVars, relationVars, registerVars, channelVars>>
vars == <<partVars, serviceVars, sessionVars, catalogVars>>

-----------------------------------------------------------------------------
\* Two administrators a1 and a2 grant, revoke and sanction, also each other.

Command(o, key, actor, subject, kind, code, start, end, target) ==
  [op |-> o, key |-> key, actor |-> actor, subject |-> subject, kind |-> kind, code |-> code,
   allow |-> TRUE, start |-> start, end |-> end, target |-> target]
Grant(subject, kind, code, allow) ==
  [subject |-> subject, kind |-> kind, code |-> code, allow |-> allow, start |-> 0,
   end |-> 1000, revoked |-> FALSE]
Admins == <<Grant(a1, "role", "admin", TRUE), Grant(a2, "role", "admin", TRUE)>>
Case(subject) == [subject |-> subject, entries |-> 0]
Silence(subject, end) ==
  [subject |-> subject, kind |-> "silence", start |-> 0, end |-> end, revoked |-> FALSE]
Instance(grs, css, scs, cmds) ==
  [grants |-> grs, cases |-> css, sanctions |-> scs, commands |-> cmds]

ManagementSetups == {
  Instance(Admins, <<>>, <<>>, {
    Command("grant", 1, a1, a3, "role", "mod", 0, 2, 0),
    Command("grant", 2, a2, a3, "role", "mod", 1, 1000, 0),
    Command("revoke", 3, a1, a2, "role", "admin", 0, 0, 2),
    Command("revoke", 4, a2, a1, "role", "admin", 0, 0, 1)}),
  Instance(Admins \o <<Grant(a2, "permission", "admin.access", FALSE)>>, <<>>, <<>>, {
    Command("revoke", 1, a1, a2, "permission", "admin.access", 0, 0, 3),
    Command("grant", 2, a2, a1, "entitlement", "supporter", 0, 1, 0),
    Command("grant", 2, a1, a2, "entitlement", "supporter", 0, 1, 0),
    [Command("grant", 3, a1, a2, "permission", "admin.access", 1, 2, 0) EXCEPT !.allow = FALSE]}),
  Instance(Admins, <<Case(a3), Case(a3)>>, <<>>, {
    Command("impose", 1, a1, a3, "silence", None, 0, 2, 1),
    Command("impose", 2, a2, a3, "silence", None, 1, 3, 2),
    Command("extend", 3, a1, a3, "silence", None, 0, 4, 1),
    Command("lift", 4, a2, a3, "silence", None, 0, 0, 1)}),
  Instance(Admins, <<Case(a1), Case(a2)>>, <<Silence(a1, 1)>>, {
    Command("impose", 1, a1, a2, "silence", None, 0, 2, 2),
    Command("impose", 2, a2, a1, "silence", None, 1, 3, 1),
    Command("entry", 3, a2, a2, None, None, 0, 0, 2),
    Command("open", 4, a1, a2, None, None, 0, 0, 0),
    Command("extend", 5, a2, a1, None, None, 0, 4, 1)}) }

RolePermissions ==
  [r \in {"admin", "mod"} |->
     IF r = "admin" THEN {"admin.access", "moderation.enforce"} ELSE {"moderation.enforce"}]

M == INSTANCE Management WITH
  Procs <- {p1, p2}, Setups <- ManagementSetups, Perms <- RolePermissions,
  MaxTime <- 2, MaxTries <- 3, ReceiptTtl <- 1

\* Two readers and two writers of one cached answer.
Q == INSTANCE QueryCache WITH Readers <- {p1, p2}, Writers <- {s1, s2}, MaxTasks <- 3

-----------------------------------------------------------------------------
\* Follows and blocks of a pair, a message racing a block, and mail of a
\* recipient with two devices.

Relate(o, by, to, uuid) == [op |-> o, by |-> by, to |-> to, uuid |-> uuid]
Open == [x \in {a1, a2, a3} |-> "all"]

RelationSetups == {
  [commands |-> {Relate("follow", a1, a2, 0), Relate("follow", a2, a1, 0), Relate("block", a1, a2, 0),
                 Relate("block", a2, a1, 0), Relate("unblock", a1, a2, 0), Relate("unfollow", a2, a1, 0)},
   follows |-> {<<a2, a1>>}, blocks |-> {}, policy |-> Open, movers |-> {}, readers |-> {}],
  [commands |-> {Relate("send", a1, a2, 1), Relate("block", a2, a1, 0), Relate("unblock", a2, a1, 0),
                 Relate("follow", a2, a1, 0), Relate("open", a2, a1, 0)},
   follows |-> {}, blocks |-> {}, policy |-> Open, movers |-> {a2}, readers |-> {}],
  [commands |-> {Relate("send", a1, a2, 1), Relate("send", a1, a2, 2), Relate("send", a3, a2, 1),
                 Relate("send", a1, a3, 1)},
   follows |-> {}, blocks |-> {}, policy |-> Open, movers |-> {}, readers |-> {a2}] }

R == INSTANCE Relationships WITH
  Accounts <- {a1, a2, a3}, Procs <- {p1, p2}, Devices <- {s1, s2}, Setups <- RelationSetups,
  MaxSends <- 4, MaxReads <- 3, PageLimit <- 2

\* Four registrations over two names and two emails, some of them repeated.
G == INSTANCE Registration WITH
  Procs <- {s1, s2, s3}, MaxSends <- 4,
  Requests <- {[key |-> 1, name |-> "n1", email |-> "e1"], [key |-> 2, name |-> "n1", email |-> "e2"],
               [key |-> 3, name |-> "n2", email |-> "e2"], [key |-> 4, name |-> "n1", email |-> "e1"]},
  Rank <- [x \in {"n1", "n2", "e1", "e2"} |->
             CASE x = "e1" -> 1 [] x = "n1" -> 2 [] x = "e2" -> 3 [] OTHER -> 4]

\* Two accounts join, leave and write to one channel.
F == INSTANCE ChannelFeed WITH Accounts <- {a1, a2}, Procs <- {p1, p2}, MaxOps <- 3

-----------------------------------------------------------------------------
NoManagement ==
  grants = None /\ cases = None /\ sanctions = None /\ locks = None /\ tries = None
NoCache ==
  fact = None /\ tasks = None /\ slot = None /\ rd = None /\ wr = None /\ unclean = None
NoRelations ==
  /\ follows = None /\ blocks = None /\ policy = None /\ chats = None /\ msgs = None
  /\ cursor = None /\ tx = None /\ mail = None /\ reads = None
NoRegistration ==
  accounts = None /\ events = None /\ rq = None /\ held = None /\ answers = None
NoChannel ==
  /\ members = None /\ sent = None /\ nextPos = None /\ op = None /\ ops = None /\ at = None
  /\ hd = None /\ proj = None /\ late = None
NoServices ==
  /\ receipts = None /\ sends = None /\ nextId = None
  /\ NoManagement /\ NoCache /\ NoRelations /\ NoRegistration /\ NoChannel

ServicesInit ==
  /\ stream = None /\ poll = None /\ fence = None
  /\ \/ /\ part = "management" /\ M!Init /\ sends = None /\ nextId = None /\ cache = None /\ shown = None
        /\ NoCache /\ NoRelations /\ NoRegistration /\ NoChannel
     \/ /\ part = "cache" /\ Q!Init /\ receipts = None /\ sends = None /\ nextId = None
        /\ NoSetup /\ req = None /\ history = None /\ shown = None
        /\ NoManagement /\ NoRelations /\ NoRegistration /\ NoChannel
     \/ /\ part = "relations" /\ R!Init /\ receipts = None
        /\ now = None /\ NoRequest /\ history = None
        /\ NoManagement /\ NoCache /\ NoRegistration /\ NoChannel
     \/ /\ part = "register" /\ G!Init /\ nextId = None
        /\ NoSetup /\ NoRequest /\ history = None /\ shown = None
        /\ NoManagement /\ NoCache /\ NoRelations /\ NoChannel
     \/ /\ part = "channel" /\ F!Init /\ receipts = None /\ sends = None
        /\ setup = None /\ now = None /\ NoRequest /\ history = None /\ shown = None
        /\ NoManagement /\ NoCache /\ NoRelations /\ NoRegistration

\* The bounded clients have nothing left to do.
ServicesRest ==
  /\ CASE part = "management" -> \A p \in {p1, p2} : ~M!Running(p)
       [] part = "cache" -> \A p \in {p1, p2} : rd[p].pc \in {"idle", "join"}
       [] part = "relations" -> \A p \in {p1, p2} : tx[p].pc = "idle"
       [] part = "register" -> \A p \in {s1, s2, s3} : rq[p].pc = "idle"
       [] part = "channel" -> F!Quiet /\ \A p \in {p1, p2} : op[p].pc = "idle"
       [] OTHER -> FALSE
  /\ UNCHANGED <<partVars, serviceVars>>

ServicesNext ==
  /\ UNCHANGED <<part, stream, poll, fence>>
  /\ \/ /\ part = "management" /\ M!Next
        /\ UNCHANGED <<cache, shown, sends, nextId, cacheVars, relationVars, registerVars, channelVars>>
     \/ /\ part = "cache" /\ Q!Next
        /\ UNCHANGED <<setup, log, now, req, history, shown, receipts, sends, nextId,
                       managementVars, relationVars, registerVars, channelVars>>
     \/ /\ part = "relations" /\ R!Next
        /\ UNCHANGED <<now, req, cache, history, receipts,
                       managementVars, cacheVars, registerVars, channelVars>>
     \/ /\ part = "register" /\ G!Next
        /\ UNCHANGED <<setup, log, now, req, cache, history, shown, nextId,
                       managementVars, cacheVars, relationVars, channelVars>>
     \/ /\ part = "channel" /\ F!Next
        /\ UNCHANGED <<setup, now, req, cache, history, shown, receipts, sends,
                       managementVars, cacheVars, relationVars, registerVars>>
     \/ ServicesRest

Init ==
  \/ ServicesInit /\ NoSessions /\ NoCatalog
  \/ SessionsInit /\ NoServices /\ NoCatalog
  \/ CatalogInit /\ NoServices /\ NoSessions

Next ==
  \/ ServicesNext /\ UNCHANGED <<sessionVars, catalogVars>>
  \/ SessionsNext /\ UNCHANGED <<serviceVars, catalogVars>>
  \/ CatalogNext /\ UNCHANGED <<serviceVars, sessionVars>>

Spec == Init /\ [][Next]_vars

-----------------------------------------------------------------------------
\* Sessions of game clients. An account has at most one open session, so that
\* the INSERT of create_client_session never meets its unique index; every change
\* is reported by its event once, a device counts exactly the logins made from
\* it, and only a right password yields a principal, through the proof cache or
\* not.
ClientSessionsSound ==
  /\ part = "client" => /\ C!TypeOK /\ C!OneOpenSession
                        /\ C!EventsMatchRows /\ C!DeviceUsesCountLogins
  /\ part = "verify" => V!TypeOK /\ V!PrincipalKnowsPassword

\* Concurrent exchanges of one refresh token never fork its family, and once a
\* replay revoked the family no token of the session is usable, also not one a
\* concurrent exchange inserted meanwhile.
TokenFamilySound ==
  part = "oauth" => O!TypeOK /\ O!LineageIsAChain /\ O!CompromiseIsComplete

\* A Stable login that failed at any of its calls leaves no session and no
\* presence, and a client told to reconnect is not refused for its own lost
\* session.
StableLoginsSound ==
  part = "stable" => T!TypeOK /\ T!FailedLoginLeavesNothing /\ T!ReconnectNotBlocked

\* A bubble is returned by at most one poll and handled at most once by a bridge,
\* in the order of publication; two polls hold the gate together only after a
\* lease has run out; a failed receive never fails the consumer's attempt.
BubblesOnceInOrder ==
  /\ part = "polls" => P!TypeOK /\ P!PolledAtMostOnce /\ P!GateExcludes
  /\ part = "bridge" => B!TypeOK /\ B!BridgeInOrder /\ B!DeliveryFailureNeverBlocks

\* Administrators who act on each other leave what the tables promise: live
\* grants of one code never overlap, live sanctions only where one was extended,
\* the history explains every sanction, a key takes effect once while its receipt
\* lives, and a circle of waiting commands holds nothing but account rows.
ManagementSound ==
  part = "management" =>
    /\ M!TypeOK /\ M!GrantsDisjoint /\ M!OverlapNeedsExtension
    /\ M!HistoryExplainsSanction /\ M!OncePerReceipt /\ M!OnlyAccountsDeadlock

\* A process runs at most one load of a key at a time, and a stale cached answer
\* has one of the three causes the decorator leaves.
StaleHasCause == part = "cache" => Q!SingleFlight /\ Q!StaleHasCause

\* Nobody follows across a block of either direction, the social events replay to
\* the relation the tables hold, messages are announced once, and a read cursor
\* passes only messages its account was shown. A channel announces a join or a
\* leave exactly when it changes the open row, and its projection converges
\* unless an event committed late.
CommunityConsistent ==
  /\ part = "relations" => /\ R!NoFollowAcrossBlock /\ R!EventsExplainRelation
                           /\ R!AnnouncedOnce /\ R!NothingReadUnseen
  /\ part = "channel" => F!ProjectionConverges /\ F!MovesAlternate

\* Two registrations past their checks never share a name or an email, a repeated
\* one is never told that its own name is taken, and none wait for each other in
\* a circle.
RegistrationSound ==
  part = "register" => G!ChecksDecide /\ G!OwnNameNeverTaken /\ G!NoWaitCycle

\* The published set is one upstream snapshot with its files, a failure is
\* recorded only by the refresh that holds the lease, and a process that closed
\* has no synchronisation left.
CatalogSound == part = "catalog" => K!CatalogIsSnapshot /\ K!FailuresOwned /\ K!ClosedIsDrained

\* Drained lanes leave the ranking and the play counts that the scores justify, a
\* ranking counts no score without its performance, and a day has one snapshot,
\* which holds every score accepted before it.
ProjectionsConverge ==
  part = "projections" =>
    /\ J!RankingConverges /\ J!NothingUncalculated /\ J!NoPlayLost
    /\ J!SnapshotOnce /\ J!SnapshotCaughtUp

\* An import that was stopped and resumed holds after each phase what one pass
\* would hold, from the source it was started with; no two legacy users become
\* one account and none takes over an unrelated one.
ImportSound ==
  part = "migration" =>
    I!ResumedAsOnePass /\ I!SourceFixed /\ I!OneAccountEach /\ I!NoTakeover

\* A viewer is shown the history it was given and every later frame, once and in
\* order, unless frames of an earlier relation were on their way; in the end a
\* host lists exactly its viewers, and viewers list each other exactly if they
\* watch one host.
SpectatorsSound ==
  part = "spectating" => W!FramesWhole /\ W!WatchersConverge /\ W!FellowsConverge

\* A user that is online was shown every direct message, by its login or live;
\* who stays in a channel is shown every message of it; a message repeated in its
\* window is published once.
ChatSound == part = "chat" => X!DirectMailSeen /\ X!PublicHeard /\ X!PublishedOnce

\* Late writers never move anything back: neither the activity or the end of a
\* session, nor a read cursor, nor a published snapshot, nor the checkpoint of
\* the import.
NothingGoesBack ==
  [][/\ part = "client" => C!SessionMonotone
     /\ part = "relations" => R!CursorForward
     /\ part = "catalog" => K!NeverBack
     /\ part = "migration" => I!CheckpointForward]_vars

\* Nothing is committed on a decision that was overtaken: no login on a password
\* verified before a revocation, no replacement of a session that is not silent,
\* no end of a newer login by an older one's compensation, no message across a
\* block, no status change from a status that is gone.
NoStaleDecision ==
  [][/\ part = "client" => C!NoLoginAcrossRevoke /\ C!StaleOnlyWhenSilent
     /\ part = "stable" => T!EndsOwnOnly
     /\ part = "relations" => R!BlockStopsMessages
     /\ part = "catalog" => K!StatusExplained]_vars
=============================================================================
