------------------------------ MODULE Migration ------------------------------
(***************************************************************************)
(* The bancho.py import (tools/migration): invocations that take the       *)
(* target lock, load the checkpoint, and copy the legacy tables phase by   *)
(* phase, each batch in one transaction with the cursor that records it.   *)
(* An invocation may stop anywhere; the next one resumes, and rebuilds the *)
(* mappings from legacy ids to target ids out of the target's own rows.    *)
(*                                                                         *)
(* The last step is migrate_scoring, which raises: no invocation gets past *)
(* it, so multiplayer, reconcile and mark_completed are never reached.     *)
(* Ids a sequence hands out are opaque: the model numbers them from the    *)
(* rows present.  Legacy writers are offline while a batch is copied, as   *)
(* --confirm-offline demands, and may write before that.                   *)
(***************************************************************************)
EXTENDS Integers, Sequences, FiniteSets
LOCAL INSTANCE TLC
LOCAL INSTANCE SequencesExt

CONSTANTS
    Invocations,      \* processes that may run the apply command
    MigrationSetups,  \* legacy databases and the targets they meet
    None,
    BatchSize,
    MaxRuns,          \* invocations started
    MaxFaults         \* invocations stopped half way

VARIABLES
    legacy,   \* the legacy tables, and the target they met
    db,       \* the target's tables
    ckpt,     \* MigrationState: None or [source, phase, cursor, done]
    target_lock,
    inv,      \* per invocation: [pc, seen, step, open, cursor, ck, map]
    runs, faults,
    ideal     \* the steps finished so far, as an import that nothing stops leaves them

-----------------------------------------------------------------------------
\* Rows.

Get(f, k) == IF k \in DOMAIN f THEN f[k] ELSE None
Put(f, k, v) == (k :> v) @@ f

\* INSERT ... ON CONFLICT DO NOTHING, and dict.setdefault.
Insert(f, k, v) == f @@ (k :> v)
Values(f) == {f[k] : k \in DOMAIN f}
MaxOf(S) == CHOOSE x \in S : \A y \in S : y <= x
NextVal(f) == 1 + MaxOf({0} \cup Values(f))

MigrationMappings ==
    [accounts |-> <<>>, ids |-> {}, teams |-> <<>>, channels |-> <<>>,
     achievements |-> <<>>, sets |-> <<>>, maps |-> <<>>, revs |-> <<>>]

\* The runtime a handler works on: the target's rows and the mappings.
Runtime(d, m) == [db |-> d, map |-> m]

\* Row counts stand for the fingerprint of the legacy schema.
inspect_schema(l) == <<Len(l.users), Len(l.logs), Len(l.comments)>>

-----------------------------------------------------------------------------
\* Accounts.

next_account_id(d, reserved) == 1 + MaxOf({0} \cup d.accounts \cup reserved)

AccountTarget(d, m, u, create) ==
    LET byName == Get(d.names, u.name)
        byEmail == Get(d.emails, u.email)
        natural == {byName, byEmail} \ {None}
        taken == u.id \in d.accounts
    IN CASE u.override # None -> IF u.override \in d.accounts THEN u.override ELSE None
         [] Cardinality(natural) > 1 -> None
         [] Cardinality(natural) = 1 ->
              IF taken /\ u.id \notin natural /\ byName # byEmail
              THEN None ELSE CHOOSE t \in natural : TRUE
         [] OTHER ->
              IF ~create THEN None
              ELSE IF taken THEN next_account_id(d, m.ids \cup Values(m.accounts)) ELSE u.id

\* A second legacy account on one target is refused.
ResolveAccount(d, m, u, create) ==
    LET t == AccountTarget(d, m, u, create)
    IN IF u.skip \/ t = None \/ \E v \in DOMAIN m.accounts \ {u.id} : m.accounts[v] = t
       THEN m ELSE [m EXCEPT !.accounts = Put(@, u.id, t)]

\* Names, emails and ids are read once, before the batch is resolved.
resolve_accounts(d, m, users, create) ==
    FoldLeft(LAMBDA acc, u : ResolveAccount(d, acc, u, create),
             [m EXCEPT !.ids = @ \cup {users[k].id : k \in DOMAIN users}], users)

\* The users of a batch that resolved, with their targets.
Resolved(m, users) == {k \in DOMAIN users : users[k].id \in DOMAIN m.accounts /\ ~users[k].skip}

\* An account keeps the name and the primary email it has.
insert_account_graph(d, m, users) ==
    LET At(k) == m.accounts[users[k].id]
        named == {k \in Resolved(m, users) : At(k) \notin Values(d.names)}
        mailed == {k \in Resolved(m, users) : At(k) \notin Values(d.emails)}
    IN [d EXCEPT
         !.accounts = @ \cup {At(k) : k \in Resolved(m, users)},
         !.names = @ @@ [n \in {users[k].name : k \in named} |->
                           At(CHOOSE k \in named : users[k].name = n)],
         !.emails = @ @@ [e \in {users[k].email : k \in mailed} |->
                           At(CHOOSE k \in mailed : users[k].email = e)]]

\* Role, permission and entitlement grants the account does not hold yet.
insert_access_facts(d, m, users) ==
    [d EXCEPT !.grants = @ \cup UNION {{<<m.accounts[users[k].id], r>> : r \in users[k].roles} :
                                        k \in Resolved(m, users)}]

\* A case and a sanction for a restricted account that is under none.
insert_moderation_facts(d, m, users) ==
    [d EXCEPT !.sanctions = @ \cup {m.accounts[users[k].id] :
                                      k \in {j \in Resolved(m, users) : users[j].restricted}}]

migrate_client_hashes(d, m, users) ==
    [d EXCEPT !.devices = @ \cup UNION {{<<m.accounts[users[k].id], f>> : f \in users[k].devices} :
                                        k \in Resolved(m, users)}]

migrate_user_batch(s, users) ==
    LET m == resolve_accounts(s.db, s.map, users, TRUE)
        graph == insert_account_graph(s.db, m, users)
        access == insert_access_facts(graph, m, users)
        cases == insert_moderation_facts(access, m, users)
    IN Runtime(migrate_client_hashes(cases, m, users), m)

\* What an earlier invocation imported is found by name, email or override.
reconstruct_account_mappings(s) ==
    Runtime(s.db, resolve_accounts(s.db, s.map, legacy.users, FALSE))

account_sequence(s) == [s EXCEPT !.db.sequence = MaxOf({2} \cup s.db.accounts)]

\* The legacy login's id gives the attempt's: a second import meets it.
migrate_auth_attempt_batch(s, rows) ==
    FoldLeft(LAMBDA acc, r :
               IF r.user \in DOMAIN s.map.accounts
               THEN [acc EXCEPT !.db.attempts = Insert(@, r.id, s.map.accounts[r.user])] ELSE acc,
             s, rows)

\* Plain inserts: nothing in the target would refuse a second one.
migrate_audit_batch(s, rows) ==
    FoldLeft(LAMBDA acc, r :
               IF r.to \in DOMAIN s.map.accounts
               THEN [acc EXCEPT !.db.audits = Append(@, <<r.id, Get(s.map.accounts, r.from), s.map.accounts[r.to]>>)]
               ELSE acc,
             s, rows)

-----------------------------------------------------------------------------
\* Teams, relationships, achievements.

TeamCandidates(d, t) ==
    {k \in DOMAIN d.teams : k = t.id \/ d.teams[k].name = t.name \/ d.teams[k].tag = t.tag}

\* The rows read before the batch decide who exists; whoever is left is
\* inserted, unless an earlier clan of the batch took the name or the tag.
resolve_teams(s, clans, create) ==
    LET Known(acc, t) ==
          LET c == TeamCandidates(s.db, t)
          IN IF Cardinality(c) # 1 \/ \E v \in DOMAIN acc.map.teams \ {t.id} : acc.map.teams[v] \in c
             THEN acc ELSE [acc EXCEPT !.map.teams = Put(@, t.id, CHOOSE k \in c : TRUE)]
        Pending(acc, t) ==
          IF ~create \/ TeamCandidates(s.db, t) # {} \/ TeamCandidates(acc.db, t) # {}
          THEN acc
          ELSE [acc EXCEPT !.db.teams = Put(@, t.id, [name |-> t.name, tag |-> t.tag]),
                           !.map.teams = Put(@, t.id, t.id)]
    IN FoldLeft(Pending, FoldLeft(Known, s, clans), clans)

migrate_team_batch(s, clans) == resolve_teams(s, clans, TRUE)
reconstruct_team_mappings(s) == resolve_teams(s, legacy.clans, FALSE)

team_sequence(s) == [s EXCEPT !.db.teamSequence = MaxOf({1} \cup DOMAIN s.db.teams)]

\* One current membership per account, one owner per team: the target's wins.
migrate_membership_batch(s, users) ==
    LET Join(acc, u) ==
          LET a == Get(s.map.accounts, u.id)
              t == Get(s.map.teams, u.clan)
          IN IF \/ a = None \/ t = None \/ a \in DOMAIN acc.db.members
                \/ u.owner /\ \E b \in DOMAIN acc.db.members :
                                 acc.db.members[b].team = t /\ acc.db.members[b].owner
             THEN acc
             ELSE [acc EXCEPT !.db.members = Put(@, a, [team |-> t, owner |-> u.owner])]
    IN FoldLeft(Join, s, users)

\* A follow or a block, unless the target already relates the two this way.
migrate_relationship_batch(s, users) ==
    LET M == s.map.accounts
        rows == {r \in legacy.relations : /\ r.from \in {users[k].id : k \in DOMAIN users}
                                          /\ {r.from, r.to} \subseteq DOMAIN M /\ M[r.from] # M[r.to]}
        new == {r \in rows : <<M[r.from], M[r.to]>> \notin s.db.follows \cup s.db.blocks}
        Of(kind) == {<<M[r.from], M[r.to]>> : r \in {x \in new : x.kind = kind}}
    IN [s EXCEPT !.db.follows = @ \cup Of("follow"), !.db.blocks = @ \cup Of("block")]

migrate_achievement_batch(s, rows) ==
    LET Merge(acc, r) ==
          LET d == [acc.db EXCEPT !.achievements = Insert(@, r.slug, NextVal(@))]
          IN Runtime(d, [acc.map EXCEPT !.achievements = Put(@, r.id, d.achievements[r.slug])])
    IN FoldLeft(Merge, s, rows)

\* The mapping, or else the slug of the legacy definition.
achievement_target_id(s, id) ==
    IF id \in DOMAIN s.map.achievements THEN s.map.achievements[id]
    ELSE LET named == {k \in DOMAIN legacy.achievements : legacy.achievements[k].id = id}
         IN IF named = {} THEN None
            ELSE Get(s.db.achievements, legacy.achievements[CHOOSE k \in named : TRUE].slug)

migrate_unlock_batch(s, users) ==
    LET rows == {r \in legacy.unlocks : /\ r.user \in {users[k].id : k \in DOMAIN users}
                                        /\ r.user \in DOMAIN s.map.accounts
                                        /\ achievement_target_id(s, r.achievement) # None}
    IN [s EXCEPT !.db.unlocks = @ \cup
          {<<s.map.accounts[r.user], achievement_target_id(s, r.achievement)>> : r \in rows}]

-----------------------------------------------------------------------------
\* Channels and mail.

migrate_channel_batch(s, rows) ==
    LET Merge(acc, r) ==
          LET d == [acc.db EXCEPT !.channels = Insert(@, r.slug, NextVal(@))]
          IN Runtime(d, [acc.map EXCEPT !.channels = Put(@, r.id, d.channels[r.slug])])
    IN FoldLeft(Merge, s, rows)

reconstruct_channel_mappings(s) ==
    [s EXCEPT !.map.channels =
       [i \in {legacy.channels[k].id : k \in {j \in DOMAIN legacy.channels :
                                                legacy.channels[j].slug \in DOMAIN s.db.channels}} |->
          s.db.channels[(CHOOSE r \in {legacy.channels[k] : k \in DOMAIN legacy.channels} : r.id = i).slug]] @@ @]

channel_sequence(s) == [s EXCEPT !.db.channelSequence = MaxOf({1} \cup Values(s.db.channels))]

\* Imported messages lie below every live one.
mail_message_id(id) == id - 1000

\* greatest of what was read, where NULL is nothing.
advance_state(f, k, cursor) ==
    LET seen == Get(f, k)
    IN Put(f, k, CASE seen = None -> cursor [] cursor = None -> seen
                   [] OTHER -> MaxOf({seen, cursor}))

\* The conversation is the pair of accounts; the sender has read its own mail.
migrate_mail_batch(s, rows) ==
    LET Deliver(acc, r) ==
          LET a == Get(s.map.accounts, r.from)
              b == Get(s.map.accounts, r.to)
              read == advance_state(acc.db.reads, <<{a, b}, a>>, mail_message_id(r.id))
          IN IF a = None \/ b = None \/ a = b THEN acc
             ELSE [acc EXCEPT
                    !.db.mail = Insert(@, mail_message_id(r.id), <<{a, b}, a>>),
                    !.db.reads = advance_state(read, <<{a, b}, b>>,
                                   IF r.read THEN mail_message_id(r.id) ELSE None)]
    IN FoldLeft(Deliver, s, rows)

-----------------------------------------------------------------------------
\* Content.

migrate_sources(s) == [s EXCEPT !.db.sources = @ \cup {"private"}]

\* By legacy id alone; a set of the official source comes first.
populate_content_mappings(s) ==
    LET First(table, ext) ==
          IF <<"osu", ext>> \in DOMAIN table THEN table[<<"osu", ext>>] ELSE table[<<"private", ext>>]
        ById(table) == [e \in {k[2] : k \in DOMAIN table} |-> First(table, e)]
    IN [s EXCEPT !.map.sets = @ @@ ById(s.db.sets),
                 !.map.maps = @ @@ ById(s.db.maps),
                 !.map.revs = @ @@ s.db.revs]

persist_mapset(d, r) == [d EXCEPT !.sets = Insert(@, <<r.server, r.id>>, NextVal(@))]

\* A set without maps has no metadata and is passed over.
migrate_mapsets(s, rows) ==
    LET Merge(acc, r) ==
          IF ~\E k \in DOMAIN legacy.maps : legacy.maps[k].set = r.id /\ legacy.maps[k].server = r.server
          THEN acc
          ELSE LET d == persist_mapset(acc.db, r)
               IN Runtime(d, [acc.map EXCEPT !.sets = Put(@, r.id, d.sets[<<r.server, r.id>>])])
    IN FoldLeft(Merge, s, rows)

ensure_media_asset(d, r) == [d EXCEPT !.assets = @ \cup {r.md5}]

\* The map, its file's asset, and a revision that is current if it is the first.
persist_map(d, r, set) ==
    LET maps == Insert(d.maps, <<r.server, r.id>>, NextVal(d.maps))
        m == maps[<<r.server, r.id>>]
    IN [ensure_media_asset(d, r) EXCEPT !.maps = maps,
                 !.setOf = Insert(@, m, set),
                 !.revs = Insert(@, r.md5, m),
                 !.current = Insert(@, m, r.md5)]

\* A revision of these bytes that belongs to another map: _persist_map raises
\* ValueError, which nothing in the phase catches.
Poisoned(s, r) ==
    /\ r.md5 \in DOMAIN s.db.revs
    /\ s.db.revs[r.md5] # Get(s.db.maps, <<r.server, r.id>>)

\* The maps of a batch that have their set and a readable file.
Staged(s, r) == r.set \in DOMAIN s.map.sets /\ r.file

migrate_maps(s, rows) ==
    LET Merge(acc, r) ==
          IF ~Staged(s, r) THEN acc
          ELSE LET d == persist_map(acc.db, r, s.map.sets[r.set])
               IN Runtime(d, [acc.map EXCEPT !.maps = Put(@, r.id, d.maps[<<r.server, r.id>>]),
                                             !.revs = Put(@, r.md5, d.revs[r.md5])])
    IN FoldLeft(Merge, s, rows)

\* The first row of a batch that raises takes the batch with it.
MapBatchRaises(s, rows) ==
    \E k \in DOMAIN rows : /\ Staged(s, rows[k])
                           /\ Poisoned(migrate_maps(s, SubSeq(rows, 1, k - 1)), rows[k])

RowsOf(table, users) == {r \in table : r.user \in {users[k].id : k \in DOMAIN users}}

migrate_favourites(s, users) ==
    [s EXCEPT !.db.favourites = @ \cup
       {<<s.map.accounts[r.user], s.map.sets[r.set]>> :
          r \in {x \in RowsOf(legacy.favourites, users) :
                   x.user \in DOMAIN s.map.accounts /\ x.set \in DOMAIN s.map.sets}}]

migrate_ratings(s, users) ==
    [s EXCEPT !.db.ratings = @ \cup
       {<<s.map.accounts[r.user], s.map.revs[r.md5]>> :
          r \in {x \in RowsOf(legacy.ratings, users) :
                   x.user \in DOMAIN s.map.accounts /\ x.md5 \in DOMAIN s.map.revs}}]

\* Plain inserts again.  A comment on a replay is left to scoring.
migrate_comments(s, rows) ==
    LET Place(r) == CASE r.on = "map" -> Get(s.map.maps, r.target)
                      [] r.on = "song" -> Get(s.map.sets, r.target)
                      [] OTHER -> None
        Say(acc, r) == IF r.user \notin DOMAIN s.map.accounts \/ Place(r) = None THEN acc
                       ELSE [acc EXCEPT !.db.comments =
                               Append(@, <<r.id, s.map.accounts[r.user], r.on, Place(r)>>)]
    IN FoldLeft(Say, s, rows)

-----------------------------------------------------------------------------
\* The phases, in the order the domains run them.

Single == {"identity.account_sequence", "social.team_sequence", "community.channel_sequence", "content.sources"}

migrate_identity == <<"reconstruct accounts", "identity.users", "identity.account_sequence",
                      "identity.auth_attempts", "identity.audit_logs">>
migrate_social == <<"reconstruct teams", "social.teams", "social.team_sequence", "social.team_memberships",
                    "social.relationships", "social.achievements", "social.achievement_unlocks">>
migrate_community == <<"reconstruct channels", "community.channel_sequence", "community.channels",
                       "community.mail">>
migrate_content == <<"content.sources", "populate", "content.mapsets", "content.maps", "populate",
                     "content.favourites", "content.ratings", "content.comments">>

Steps == migrate_identity \o migrate_social \o migrate_community \o migrate_content \o <<"scoring">>

Rebuild == {"reconstruct accounts", "reconstruct teams", "reconstruct channels", "populate"}

RebuildMappings(step, s) ==
    CASE step = "reconstruct accounts" -> reconstruct_account_mappings(s)
      [] step = "reconstruct teams" -> reconstruct_team_mappings(s)
      [] step = "reconstruct channels" -> reconstruct_channel_mappings(s)
      [] step = "populate" -> populate_content_mappings(s)

RunSingle(phase, s) ==
    CASE phase = "identity.account_sequence" -> account_sequence(s)
      [] phase = "social.team_sequence" -> team_sequence(s)
      [] phase = "community.channel_sequence" -> channel_sequence(s)
      [] phase = "content.sources" -> migrate_sources(s)

\* The legacy table a phase walks in key order; phases over tables with
\* composite keys walk the users.
Table(phase) ==
    CASE phase = "identity.auth_attempts" -> legacy.logins
      [] phase = "identity.audit_logs" -> legacy.logs
      [] phase = "social.teams" -> legacy.clans
      [] phase = "social.achievements" -> legacy.achievements
      [] phase = "community.channels" -> legacy.channels
      [] phase = "community.mail" -> legacy.mail
      [] phase = "content.mapsets" -> legacy.mapsets
      [] phase = "content.maps" -> legacy.maps
      [] phase = "content.comments" -> legacy.comments
      [] OTHER -> legacy.users

Handle(phase, s, rows) ==
    CASE phase = "identity.users" -> migrate_user_batch(s, rows)
      [] phase = "identity.auth_attempts" -> migrate_auth_attempt_batch(s, rows)
      [] phase = "identity.audit_logs" -> migrate_audit_batch(s, rows)
      [] phase = "social.teams" -> migrate_team_batch(s, rows)
      [] phase = "social.team_memberships" -> migrate_membership_batch(s, rows)
      [] phase = "social.relationships" -> migrate_relationship_batch(s, rows)
      [] phase = "social.achievements" -> migrate_achievement_batch(s, rows)
      [] phase = "social.achievement_unlocks" -> migrate_unlock_batch(s, rows)
      [] phase = "community.channels" -> migrate_channel_batch(s, rows)
      [] phase = "community.mail" -> migrate_mail_batch(s, rows)
      [] phase = "content.mapsets" -> migrate_mapsets(s, rows)
      [] phase = "content.maps" -> migrate_maps(s, rows)
      [] phase = "content.favourites" -> migrate_favourites(s, rows)
      [] phase = "content.ratings" -> migrate_ratings(s, rows)
      [] phase = "content.comments" -> migrate_comments(s, rows)

\* The next rows by key.
iter_batches(table, cursor) ==
    LET after == SelectSeq(table, LAMBDA r : r.id > cursor)
    IN SubSeq(after, 1, IF Len(after) < BatchSize THEN Len(after) ELSE BatchSize)

\* A phase from its first row to its last, and a step of an import that
\* nothing stops.
WholePhase(phase, s) ==
    LET rows == Table(phase)
        after[n \in 0..Len(rows)] ==
          IF n = 0 THEN [s |-> s, cursor |-> 0]
          ELSE LET b == iter_batches(rows, after[n - 1].cursor)
               IN IF b = <<>> THEN after[n - 1]
                  ELSE [s |-> Handle(phase, after[n - 1].s, b), cursor |-> b[Len(b)].id]
    IN after[Len(rows)].s

WholeStep(step, s) ==
    CASE step \in Rebuild -> RebuildMappings(step, s)
      [] step \in Single -> RunSingle(step, s)
      [] OTHER -> WholePhase(step, s)

\* When a step is finished for the first time.
Finished(n) ==
    ideal' = IF ideal.step = n - 1 THEN [step |-> n, s |-> WholeStep(Steps[n], ideal.s)] ELSE ideal

-----------------------------------------------------------------------------
\* The invocation.

Checkpoint(source, phase, cursor, done) ==
    [source |-> source, phase |-> phase, cursor |-> cursor, done |-> done]

next_checkpoint(c, phase, cursor, completed) ==
    Checkpoint(c.source, phase, cursor, IF completed THEN c.done \cup {phase} ELSE c.done)

Idle == [pc |-> "idle", seen |-> None, step |-> 0, ck |-> None, map |-> MigrationMappings]

Init ==
    /\ legacy \in MigrationSetups /\ db = legacy.target
    /\ ckpt = None
    /\ target_lock = None
    /\ inv = [i \in Invocations |-> Idle]
    /\ runs = 0 /\ faults = 0
    /\ ideal = [step |-> 0, s |-> Runtime(db, MigrationMappings)]

\* Errors that reject the whole import before a row is written.
account_preflight(l, d) ==
    LET active == {k \in DOMAIN l.users : ~l.users[k].skip}
    IN /\ \A j, k \in active : j # k => /\ l.users[j].name # l.users[k].name
                                        /\ l.users[j].email # l.users[k].email
       /\ \A k \in active :
            LET u == l.users[k]
                byName == Get(d.names, u.name)
                byEmail == Get(d.emails, u.email)
            IN IF u.override # None THEN u.override \in d.accounts
               ELSE /\ byName = None \/ byEmail = None \/ byName = byEmail
                    /\ \/ u.id \notin d.accounts \/ {byName, byEmail} = {None}
                       \/ u.id \in {byName, byEmail} \/ byName = byEmail

\* The same legacy id under two servers.
content_identity_preflight(l) ==
    \A j, k \in DOMAIN l.mapsets : l.mapsets[j].id = l.mapsets[k].id => j = k

preflight(i) ==
    /\ inv[i].pc = "idle" /\ runs < MaxRuns
    /\ runs' = runs + 1
    /\ inv' = [inv EXCEPT ![i] =
         IF account_preflight(legacy, db) /\ content_identity_preflight(legacy)
         THEN [@ EXCEPT !.pc = "checked", !.seen = inspect_schema(legacy)] ELSE Idle]
    /\ UNCHANGED <<legacy, db, ckpt, target_lock, faults, ideal>>

\* pg_try_advisory_lock: an invocation that finds it taken gives up.
target_migration_lock(i) ==
    /\ inv[i].pc = "checked"
    /\ target_lock' = IF target_lock = None THEN i ELSE target_lock
    /\ inv' = [inv EXCEPT ![i] = IF target_lock = None THEN [@ EXCEPT !.pc = "locked"] ELSE Idle]
    /\ UNCHANGED <<legacy, db, ckpt, runs, faults, ideal>>

\* The lock goes with the connection, and the mappings with the process.
Release(i) ==
    /\ target_lock' = IF target_lock = i THEN None ELSE target_lock
    /\ inv' = [inv EXCEPT ![i] = Idle]

\* Creates the checkpoint or accepts one of the same source.
initialize(i) ==
    /\ inv[i].pc = "locked"
    /\ IF ckpt # None /\ ckpt.source # inv[i].seen
       THEN Release(i) /\ UNCHANGED ckpt
       ELSE /\ ckpt' = IF ckpt = None THEN Checkpoint(inv[i].seen, "pending", 0, {}) ELSE ckpt
            /\ inv' = [inv EXCEPT ![i].pc = "initialized"]
            /\ UNCHANGED target_lock
    /\ UNCHANGED <<legacy, db, runs, faults, ideal>>

\* The source is inspected again under the lock.
run_migration(i) ==
    /\ inv[i].pc = "initialized"
    /\ IF inspect_schema(legacy) # inv[i].seen
       THEN Release(i)
       ELSE inv' = [inv EXCEPT ![i].pc = "step", ![i].step = 1] /\ UNCHANGED target_lock
    /\ UNCHANGED <<legacy, db, ckpt, runs, faults, ideal>>

Step(i) == Steps[inv[i].step]
Running(i) == inv[i].pc \in {"step", "phase"}
State(i) == Runtime(db, inv[i].map)

\* The mappings are read outside any transaction.
Reconstruct(i) ==
    /\ inv[i].pc = "step" /\ Step(i) \in Rebuild
    /\ inv' = [inv EXCEPT ![i].map = RebuildMappings(Step(i), State(i)).map, ![i].step = @ + 1]
    /\ Finished(inv[i].step)
    /\ UNCHANGED <<legacy, db, ckpt, target_lock, runs, faults>>

\* A phase loads the checkpoint, and is skipped if it is complete.
LoadCheckpoint(i) ==
    /\ inv[i].pc = "step" /\ Step(i) \notin Rebuild \cup {"scoring"}
    /\ inv' = [inv EXCEPT ![i] =
         IF Step(i) \in ckpt.done THEN [@ EXCEPT !.step = @ + 1]
         ELSE [@ EXCEPT !.pc = "phase",
                 !.ck = IF ckpt.phase = Step(i) THEN ckpt ELSE [ckpt EXCEPT !.cursor = 0]]]
    /\ UNCHANGED <<legacy, db, ckpt, target_lock, runs, faults, ideal>>

Save(i, s, ck) ==
    /\ db' = s.db
    /\ ckpt' = ck
    /\ inv' = [inv EXCEPT ![i].ck = ck, ![i].map = s.map]

run_single_phase(i) ==
    /\ inv[i].pc = "phase" /\ Step(i) \in Single
    /\ db' = RunSingle(Step(i), State(i)).db
    /\ ckpt' = next_checkpoint(inv[i].ck, Step(i), 0, TRUE)
    /\ inv' = [inv EXCEPT ![i].pc = "step", ![i].step = @ + 1]
    /\ Finished(inv[i].step)
    /\ UNCHANGED <<legacy, target_lock, runs, faults>>

Batch(i) == iter_batches(Table(Step(i)), inv[i].ck.cursor)
Raises(i) == Step(i) = "content.maps" /\ MapBatchRaises(State(i), Batch(i))

\* Mutant: the cursor is saved with the phase, not with the batch.
BatchWithoutCursor(i) ==
    /\ inv[i].pc = "phase" /\ Step(i) \notin Single
    /\ Batch(i) # <<>> /\ ~Raises(i)
    /\ LET s == Handle(Step(i), State(i), Batch(i))
           ck == next_checkpoint(inv[i].ck, Step(i), Batch(i)[Len(Batch(i))].id, FALSE)
       IN db' = s.db /\ inv' = [inv EXCEPT ![i].ck = ck, ![i].map = s.map]
    /\ UNCHANGED <<ckpt, legacy, target_lock, runs, faults, ideal>>

\* One transaction: the rows of the batch, and the cursor past them.
run_batched_phase(i) ==
    /\ inv[i].pc = "phase" /\ Step(i) \notin Single
    /\ Batch(i) # <<>> /\ ~Raises(i)
    /\ LET s == Handle(Step(i), State(i), Batch(i))
           ck == next_checkpoint(inv[i].ck, Step(i), Batch(i)[Len(Batch(i))].id, FALSE)
       IN Save(i, s, ck)
    /\ UNCHANGED <<legacy, target_lock, runs, faults, ideal>>

complete_phase(i) ==
    /\ inv[i].pc = "phase" /\ Step(i) \notin Single /\ Batch(i) = <<>>
    /\ ckpt' = next_checkpoint(inv[i].ck, Step(i), 0, TRUE)
    /\ inv' = [inv EXCEPT ![i].pc = "step", ![i].step = @ + 1]
    /\ Finished(inv[i].step)
    /\ UNCHANGED <<legacy, db, target_lock, runs, faults>>

\* migrate_scoring raises, and so does a batch with a poisoned map.
Raise(i) ==
    /\ \/ inv[i].pc = "step" /\ Step(i) = "scoring"
       \/ inv[i].pc = "phase" /\ Step(i) \notin Single /\ Raises(i)
    /\ Release(i)
    /\ UNCHANGED <<legacy, db, ckpt, runs, faults, ideal>>

\* An interrupt, a crash, a lost connection, an object that cannot be stored.
Stop(i) ==
    /\ inv[i].pc # "idle" /\ faults < MaxFaults
    /\ faults' = faults + 1
    /\ Release(i)
    /\ UNCHANGED <<legacy, db, ckpt, runs, ideal>>

\* A legacy writer that was not stopped in time adds a comment.
LegacyWrite ==
    /\ legacy.late # <<>> /\ \A i \in Invocations : ~Running(i)
    /\ legacy' = [legacy EXCEPT !.comments = @ \o legacy.late, !.late = <<>>]
    /\ UNCHANGED <<db, ckpt, target_lock, inv, runs, faults, ideal>>

Next ==
    \/ LegacyWrite
    \/ \E i \in Invocations :
         \/ preflight(i) \/ target_migration_lock(i) \/ initialize(i) \/ run_migration(i)
         \/ Reconstruct(i) \/ LoadCheckpoint(i)
         \/ run_single_phase(i) \/ run_batched_phase(i) \/ complete_phase(i)
         \/ Raise(i) \/ Stop(i)

\* Nothing is left to start.
Over == runs = MaxRuns /\ \A i \in Invocations : inv[i].pc = "idle"

-----------------------------------------------------------------------------
\* However often the import was stopped and resumed, the target between two
\* steps is the one a single pass leaves: no comment or audit row twice, no row lost
\* for want of a rebuilt mapping.
ResumedAsOnePass ==
    \A i \in Invocations :
      inv[i].pc = "step" /\ inv[i].step = ideal.step + 1 /\ ckpt.phase # Step(i) => db = ideal.s.db

\* Invocations that overlap or resume never take a completed phase back, nor a
\* cursor, nor the source the checkpoint was made for.
CheckpointForward ==
    ckpt # None =>
      /\ ckpt'.source = ckpt.source
      /\ ckpt.done \subseteq ckpt'.done
      /\ ckpt'.phase = ckpt.phase /\ ckpt.phase \notin ckpt'.done => ckpt'.cursor >= ckpt.cursor

\* Rows are copied only while the legacy database is the one the checkpoint
\* names, although it is inspected before the lock and again after it.
SourceFixed ==
    \A i \in Invocations : Running(i) => inspect_schema(legacy) = ckpt.source

\* No two legacy accounts share a target account, whatever names, emails and
\* overrides point at it, in the first invocation or in a later one.
OneAccountEach ==
    \A i \in Invocations : \A u, v \in DOMAIN inv[i].map.accounts :
      inv[i].map.accounts[u] = inv[i].map.accounts[v] => u = v

\* An account the target had before is given to a legacy account only by its
\* name, its email or an override, never because the ids collide.
NoTakeover ==
    \A i \in Invocations : \A k \in DOMAIN legacy.users :
      LET u == legacy.users[k]
          t == Get(inv[i].map.accounts, u.id)
      IN t \in legacy.target.accounts =>
           t \in {u.override, Get(legacy.target.names, u.name), Get(legacy.target.emails, u.email)}

=============================================================================
