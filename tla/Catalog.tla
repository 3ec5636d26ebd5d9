------------------------------- MODULE Catalog -------------------------------
(***************************************************************************)
(* One official beatmapset in the content catalog: its synchronisation     *)
(* from the upstream API (ContentSyncService), the refresh lease of        *)
(* BeatmapsetSyncState, and the ranking status commands of ContentService. *)
(*                                                                         *)
(* A snapshot is a source version, a status and the digest of every        *)
(* difficulty's file.  A process runs one synchronisation of the set at a  *)
(* time.  The upstream API and the file server are read by separate        *)
(* requests, between which upstream may move on.                           *)
(***************************************************************************)
EXTENDS Naturals, Sequences, FiniteSets

CONSTANTS
    Procs,       \* server processes, each with its inflight table
    Setups,      \* upstream snapshots, requests, status commands, and until
                 \* when the clock runs
    None,
    Lease, Retry, CheckAfter   \* ticks: 30 minutes, 5 minutes, hours

VARIABLES
    setup, log, now,
    up,       \* upstream's snapshot, an index of setup.snaps
    row,      \* Beatmapset: None or [ver, status, source]
    maps,     \* Beatmap and BeatmapRevision rows: None or [live, cur, revs]
    sched,    \* BeatmapsetSyncState: None or [next, errors]
    holder,   \* who holds the row lock of the set
    job,      \* per process: None or [pc, snap, files, cancel]
    ask,      \* [pc, lease, ans]
    staff,    \* [pc, seen]
    hist,     \* BeatmapsetStatusEvent rows
    closing,  \* "open", "closing", "closed"
    published,\* snapshot last published
    failures  \* refreshes that failed since then

catVars == <<up, row, maps, sched, holder, job, ask, staff, hist, closing, published, failures>>

\* The requests (resolve_revision, or refresh_if_due where nothing is wanted)
\* and the status commands, each run once.
Asks == DOMAIN setup.asks
Staff == DOMAIN setup.commands

Snap(i) == setup.snaps[i]
Maps == UNION {DOMAIN Snap(i).files : i \in DOMAIN setup.snaps}
ProcOf(r) == setup.asks[r].proc
Wanted(r) == setup.asks[r].want

\* Beatmapset, BeatmapRevision, sync state and history rows.
SetRow(ver, status, source) == [ver |-> ver, status |-> status, source |-> source]
MapRow(cur, revs) == [live |-> TRUE, cur |-> cur, revs |-> revs]
SyncState(next, errors) == [next |-> next, errors |-> errors]
StatusEvent(prev, to, source) == [prev |-> prev, to |-> to, source |-> source]

\* The outbox events of a publication and of a status command.
Synchronized(s) == [type |-> "synchronized", ver |-> s.ver]
StatusChanged(prev, to) == [type |-> "status", prev |-> prev, to |-> to]

Init ==
    /\ setup \in Setups
    /\ log = <<>> /\ now = 0
    /\ up = 1
    /\ row = None
    /\ maps = [m \in Maps |-> None]
    /\ sched = None
    /\ holder = None
    /\ job = [p \in Procs |-> None]
    /\ ask = [r \in Asks |-> [pc |-> "start", lease |-> None, ans |-> None]]
    /\ staff = [t \in Staff |-> [pc |-> "start", seen |-> None]]
    /\ hist = <<>>
    /\ closing = [p \in Procs |-> "open"]
    /\ published = None
    /\ failures = 0

-----------------------------------------------------------------------------
\* The catalog's readers.

lookup_md5(d) == \E m \in Maps : maps[m] # None /\ d \in maps[m].revs

\* By file name, whichever revision is current: removed maps keep theirs.
get_beatmapset(m) == maps[m] # None

-----------------------------------------------------------------------------
\* Requests.

\* resolve_revision: answer from the catalog, or synchronise first.
Resolve(r) ==
    /\ ask[r].pc = "start" /\ Wanted(r) # None
    /\ ask' = [ask EXCEPT ![r] = IF lookup_md5(Wanted(r).digest)
                                 THEN [@ EXCEPT !.pc = "done", !.ans = "exact"]
                                 ELSE [@ EXCEPT !.pc = "join"]]
    /\ UNCHANGED <<setup, log, now, up, row, maps, sched, holder, job, staff, hist, closing, published, failures>>

Answer(r) ==
    /\ ask[r].pc = "after"
    /\ ask' = [ask EXCEPT ![r].pc = "done",
                          ![r].ans = IF Wanted(r) = None THEN None
                                     ELSE IF lookup_md5(Wanted(r).digest) THEN "exact"
                                     ELSE IF get_beatmapset(Wanted(r).map) THEN "name" ELSE "none"]
    /\ UNCHANGED <<setup, log, now, up, row, maps, sched, holder, job, staff, hist, closing, published, failures>>

\* claim_beatmapset_refresh: a due set is leased to one caller.
Due == sched = None \/ sched.next <= now

claim_beatmapset_refresh(lease) ==
    sched' = IF sched = None THEN SyncState(lease, 0) ELSE [sched EXCEPT !.next = lease]

\* refresh_if_due, up to the claim's commit.
Refresh(r) ==
    /\ ask[r].pc = "start" /\ Wanted(r) = None /\ row # None
    /\ IF Due
       THEN /\ claim_beatmapset_refresh(now + Lease)
            /\ ask' = [ask EXCEPT ![r].pc = "join", ![r].lease = now + Lease]
       ELSE ask' = [ask EXCEPT ![r].pc = "done"] /\ UNCHANGED sched
    /\ UNCHANGED <<setup, log, now, up, row, maps, holder, job, staff, hist, closing, published, failures>>

\* A failed refresh is recorded where its own lease still stands.
record_beatmapset_refresh_failure(r) ==
    /\ ask[r].pc = "failed"
    /\ IF sched.next = ask[r].lease
       THEN sched' = [sched EXCEPT !.next = now + Retry, !.errors = @ + 1] /\ failures' = failures + 1
       ELSE UNCHANGED <<sched, failures>>
    /\ ask' = [ask EXCEPT ![r].pc = "done"]
    /\ UNCHANGED <<setup, log, now, up, row, maps, holder, job, staff, hist, closing, published>>

\* What a request does when its synchronisation fails.
AfterFailure(r) == IF ask[r].lease = None THEN "done" ELSE "failed"

\* synchronize_once: start a task of the process, or share the running one.
NewJob == [pc |-> "fetch", snap |-> None, files |-> None, cancel |-> FALSE]

synchronize_once(r) ==
    /\ ask[r].pc = "join"
    /\ IF closing[ProcOf(r)] # "open"
       THEN ask' = [ask EXCEPT ![r].pc = AfterFailure(r)] /\ UNCHANGED job
       ELSE /\ ask' = [ask EXCEPT ![r].pc = "wait"]
            /\ job' = IF job[ProcOf(r)] = None THEN [job EXCEPT ![ProcOf(r)] = NewJob] ELSE job
    /\ UNCHANGED <<setup, log, now, up, row, maps, sched, holder, staff, hist, closing, published, failures>>

-----------------------------------------------------------------------------
\* The synchronisation task.

\* The end of the task: out of the inflight table, its waiters resumed.
run_synchronize(p, outcome) ==
    /\ job' = [job EXCEPT ![p] = None]
    /\ ask' = [r \in Asks |->
                 IF ask[r].pc = "wait" /\ ProcOf(r) = p
                 THEN [ask[r] EXCEPT !.pc = CASE outcome = "ok" -> "after"
                                              [] outcome = "failed" -> AfterFailure(r)
                                              [] OTHER -> "done"]
                 ELSE ask[r]]

\* The request for the set and its files may fail.
Fail(p) ==
    /\ job[p] # None /\ job[p].pc \in {"fetch", "files"} /\ ~job[p].cancel
    /\ run_synchronize(p, "failed")
    /\ UNCHANGED <<setup, log, now, up, row, maps, sched, holder, staff, hist, closing, published, failures>>

fetch_beatmapset(p) ==
    /\ job[p] # None /\ job[p].pc = "fetch" /\ ~job[p].cancel
    /\ job' = [job EXCEPT ![p] = [@ EXCEPT !.pc = "files", !.snap = up]]
    /\ UNCHANGED <<setup, log, now, up, row, maps, sched, holder, ask, staff, hist, closing, published, failures>>

\* Mutant: a file is stored whatever its checksum.
StoreUnverified(p) ==
    /\ job[p] # None /\ job[p].pc = "files" /\ ~job[p].cancel
    /\ LET got == Snap(up).files
           wanted == Snap(job[p].snap).files
       IN IF DOMAIN wanted \subseteq DOMAIN got
          THEN /\ job' = [job EXCEPT ![p] = [@ EXCEPT !.pc = "lock",
                                                     !.files = [m \in DOMAIN wanted |-> got[m]]]]
               /\ UNCHANGED ask
          ELSE run_synchronize(p, "failed")
    /\ UNCHANGED <<setup, log, now, up, row, maps, sched, holder, staff, hist, closing, published, failures>>

\* Each file is verified against the metadata and stored.
fetch_and_store_file(p) ==
    /\ job[p] # None /\ job[p].pc = "files" /\ ~job[p].cancel
    /\ LET got == Snap(up).files
           wanted == Snap(job[p].snap).files
       IN IF \A m \in DOMAIN wanted : m \in DOMAIN got /\ got[m] = wanted[m]
          THEN job' = [job EXCEPT ![p] = [@ EXCEPT !.pc = "lock", !.files = wanted]] /\ UNCHANGED ask
          ELSE run_synchronize(p, "failed")
    /\ UNCHANGED <<setup, log, now, up, row, maps, sched, holder, staff, hist, closing, published, failures>>

\* The set's row is locked, or inserted and thereby locked.
LockSet(p) ==
    /\ job[p] # None /\ job[p].pc = "lock" /\ ~job[p].cancel /\ holder = None
    /\ holder' = p
    /\ job' = [job EXCEPT ![p].pc = "publish"]
    /\ UNCHANGED <<setup, log, now, up, row, maps, sched, ask, staff, hist, closing, published, failures>>

\* An equal version is taken only if it keeps every live map as it is and
\* brings no removed one back.
Extends(s) ==
    /\ row.source = s.status
    /\ \A m \in Maps : maps[m] # None =>
          IF maps[m].live THEN m \in DOMAIN s.files /\ s.files[m] = maps[m].cur
                          ELSE m \notin DOMAIN s.files

\* Mutant: an equally old snapshot is taken.
RejectedIfOlder(s) == row # None /\ row.ver > s.ver

Rejected(s) ==
    /\ row # None
    /\ row.ver > s.ver \/ (row.ver = s.ver /\ ~Extends(s))

\* A file that another map has or had breaks the unique MD5 of revisions.
Clash(files) ==
    \E m \in DOMAIN files : \E n \in Maps \ {m} : maps[n] # None /\ files[m] \in maps[n].revs

\* The status follows upstream unless it was set locally.
SyncedRow(s) ==
    IF row = None THEN SetRow(s.ver, s.status, s.status)
    ELSE SetRow(s.ver, IF row.status # row.source THEN row.status ELSE s.status, s.status)

\* The history row of a synchronisation, written against the updated row.
SyncedHistory(s) ==
    IF SyncedRow(s).status # s.status
    THEN Append(hist, StatusEvent(SyncedRow(s).status, s.status, "sync")) ELSE hist

\* New and restored revisions become current; maps out of the snapshot are
\* marked deleted.
PublishRevisions(files) ==
    [m \in Maps |->
       IF m \in DOMAIN files
       THEN MapRow(files[m], (IF maps[m] = None THEN {} ELSE maps[m].revs) \cup {files[m]})
       ELSE IF maps[m] = None THEN None ELSE [maps[m] EXCEPT !.live = FALSE]]

\* synchronize_beatmapset past the lock, and its commit.  A cancellation that
\* meets the commit loses the answer, not the transaction.
Publish(p) ==
    /\ job[p] # None /\ job[p].pc = "publish"
    /\ holder' = None
    /\ LET s == Snap(job[p].snap) IN
       IF Rejected(s) \/ Clash(job[p].files)
       THEN /\ run_synchronize(p, IF job[p].cancel THEN "cancelled" ELSE IF Rejected(s) THEN "ok" ELSE "failed")
            /\ UNCHANGED <<log, row, maps, sched, hist, published, failures>>
       ELSE /\ row' = SyncedRow(s)
            /\ hist' = SyncedHistory(s)
            /\ maps' = PublishRevisions(job[p].files)
            /\ sched' = SyncState(now + CheckAfter, 0)
            /\ log' = Append(log, Synchronized(s))
            /\ published' = job[p].snap
            /\ failures' = 0
            /\ run_synchronize(p, IF job[p].cancel THEN "cancelled" ELSE "ok")
    /\ UNCHANGED <<setup, now, up, staff, closing>>

\* aclose: no task starts any more, the running one is cancelled and awaited.
Close(p) ==
    /\ closing[p] = "open" /\ setup.closes
    /\ closing' = [closing EXCEPT ![p] = "closing"]
    /\ job' = IF job[p] = None THEN job ELSE [job EXCEPT ![p].cancel = TRUE]
    /\ UNCHANGED <<setup, log, now, up, row, maps, sched, holder, ask, staff, hist, published, failures>>

Cancelled(p) ==
    /\ job[p] # None /\ job[p].cancel
    /\ holder' = IF holder = p THEN None ELSE holder
    /\ run_synchronize(p, "cancelled")
    /\ UNCHANGED <<setup, log, now, up, row, maps, sched, staff, hist, closing, published, failures>>

Closed(p) ==
    /\ closing[p] = "closing" /\ job[p] = None
    /\ closing' = [closing EXCEPT ![p] = "closed"]
    /\ UNCHANGED <<setup, log, now, up, row, maps, sched, holder, job, ask, staff, hist, published, failures>>

-----------------------------------------------------------------------------
\* Status commands.

TRANSITIONS ==
    [s \in {"graveyard", "wip", "pending", "qualified", "ranked", "loved", "approved"} |->
        CASE s = "graveyard" -> {"pending", "wip"}
          [] s = "wip" -> {"pending", "graveyard"}
          [] s = "pending" -> {"wip", "qualified", "graveyard"}
          [] s = "qualified" -> {"ranked", "pending"}
          [] s = "ranked" -> {"loved", "graveyard"}
          [] s = "loved" -> {"ranked"}
          [] s = "approved" -> {}]

is_valid_transition(from, to) == to \in TRANSITIONS[from]

\* The status each command asks for.
Target(c) ==
    CASE c = "qualify" -> "qualified"
      [] c \in {"disqualify", "restore_pending"} -> "pending"
      [] c \in {"rank", "unlove"} -> "ranked"
      [] c = "love" -> "loved"
      [] c \in {"unrank", "abandon"} -> "graveyard"
      [] c = "withdraw" -> "wip"

\* get_status_state reads the row under its lock.
get_status_state(t) ==
    /\ staff[t].pc = "start" /\ row # None /\ holder = None
    /\ holder' = t
    /\ staff' = [staff EXCEPT ![t] = [pc |-> "decide", seen |-> row]]
    /\ UNCHANGED <<setup, log, now, up, row, maps, sched, job, ask, hist, closing, published, failures>>

apply_status_transition(prev, to, source) ==
    /\ row' = [row EXCEPT !.status = to]
    /\ hist' = Append(hist, StatusEvent(prev, to, source))

Ends(t, pc) ==
    /\ staff' = [staff EXCEPT ![t].pc = pc]
    /\ holder' = IF holder = t THEN None ELSE holder

transition(t) ==
    /\ staff[t].pc = "decide" /\ setup.commands[t] # "revert"
    /\ LET to == Target(setup.commands[t])
           state == staff[t].seen
       IN IF state.status = to THEN Ends(t, "done") /\ UNCHANGED <<log, row, hist>>
          ELSE IF ~is_valid_transition(state.status, to)
          THEN Ends(t, "refused") /\ UNCHANGED <<log, row, hist>>
          ELSE /\ apply_status_transition(state.status, to, "command")
               /\ log' = Append(log, StatusChanged(state.status, to))
               /\ Ends(t, "done")
    /\ UNCHANGED <<setup, now, up, maps, sched, job, ask, closing, published, failures>>

\* revert_status of an overridden set: the repository unpacks one status as a
\* pair and raises, and the transaction rolls back.
revert_status(t) ==
    /\ staff[t].pc = "decide" /\ setup.commands[t] = "revert"
    /\ Ends(t, IF staff[t].seen.status = staff[t].seen.source THEN "done" ELSE "failed")
    /\ UNCHANGED <<setup, log, now, up, row, maps, sched, job, ask, hist, closing, published, failures>>

-----------------------------------------------------------------------------
Advance ==
    /\ up < Len(setup.snaps) /\ up' = up + 1
    /\ UNCHANGED <<setup, log, now, row, maps, sched, holder, job, ask, staff, hist, closing, published, failures>>

Tick ==
    /\ now < setup.until /\ now' = now + 1
    /\ UNCHANGED <<setup, log, catVars>>

Next ==
    \/ Advance \/ Tick
    \/ \E r \in Asks : Resolve(r) \/ Answer(r) \/ Refresh(r) \/ synchronize_once(r)
                       \/ record_beatmapset_refresh_failure(r)
    \/ \E p \in Procs : fetch_beatmapset(p) \/ fetch_and_store_file(p) \/ Fail(p) \/ LockSet(p)
                        \/ Publish(p) \/ Close(p) \/ Cancelled(p) \/ Closed(p)
    \/ \E t \in Staff : get_status_state(t) \/ transition(t) \/ revert_status(t)

-----------------------------------------------------------------------------
Quiet ==
    /\ \A r \in Asks : ask[r].pc \in {"start", "done"}
    /\ \A p \in Procs : job[p] = None /\ closing[p] # "closing"
    /\ \A t \in Staff : staff[t].pc # "decide"

\* The live maps and their current files are those of the snapshot last
\* published, whole: never its metadata with the files of another one.
CatalogIsSnapshot ==
    row # None =>
      /\ row.ver = Snap(published).ver /\ row.source = Snap(published).status
      /\ \A m \in Maps : IF m \in DOMAIN Snap(published).files
                         THEN /\ maps[m] # None /\ maps[m].live
                              /\ maps[m].cur = Snap(published).files[m]
                         ELSE maps[m] = None \/ ~maps[m].live

\* A slow synchronisation never takes the catalog back: the source version
\* does not decrease, and at an equal version no live map changes.
NeverBack ==
    row # None =>
      /\ row'.ver >= row.ver
      /\ row'.ver = row.ver => \A m \in Maps :
            maps[m] # None => maps'[m].cur = maps[m].cur /\ maps'[m].live = maps[m].live

\* Every change of the status is one legal transition announced with the
\* status it started from, or follows upstream where nothing overrode it.
StatusExplained ==
    row # None /\ row'.status # row.status =>
      \/ /\ is_valid_transition(row.status, row'.status)
         /\ log' = Append(log, StatusChanged(row.status, row'.status))
      \/ row.status = row.source /\ row'.status = row'.source

\* The error count is the number of refreshes that failed since the last
\* publication and still owned the lease: a late failure does not count, nor
\* move the next check.
FailuresOwned == sched # None => sched.errors = failures

\* Once a process is closed none of its synchronisations runs or commits.
ClosedIsDrained == \A p \in Procs : closing[p] = "closed" => job[p] = None /\ holder # p

\* A command that restores the upstream status never fails.
RevertRestores == \A t \in Staff : staff[t].pc # "failed"
=============================================================================
