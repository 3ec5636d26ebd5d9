------------------------- MODULE MultiplayerResults -------------------------
(***************************************************************************)
(* The result projections of one multiplayer session.  Room commands start *)
(* and finish rounds, submissions bind scores to them, and the consumer    *)
(* "multiplayer-results" rebuilds, for every event of a finished round, the *)
(* round's results, the session's standings and the summaries of the       *)
(* playlist item and of the room.                                          *)
(*                                                                         *)
(* Events of one lane are applied once, in order and one at a time: that   *)
(* is what the outbox promises (OrderedDelivery).  Events of different     *)
(* lanes are handled concurrently, each by a READ COMMITTED transaction    *)
(* whose statements read what was committed when they started and wait,    *)
(* before they write, for the row locks of others.                         *)
(*                                                                         *)
(* The scores a summary counts are kept as the set of their rounds, which  *)
(* determines the counts, totals and bests of the table.  attempt_count    *)
(* also counts rounds in progress, is promised by nobody between two       *)
(* events and is left out.  A statement locks its rows in one step.        *)
(***************************************************************************)
EXTENDS Integers, Sequences, FiniteSets, FiniteSetsExt

CONSTANTS
  Accounts,   \* account ids, numbers: ties are broken by them
  Rounds,     \* 1 .. n, the rounds of the session
  Setups,     \* who plays, which rounds, in which modes (TRUE for team play), and
              \* whether processes crash
  Team,       \* the team of each account when teams play
  Metric      \* Metric[r][a]: what the win condition compares

ASSUME RoundsAssumption == IsFiniteSet(Rounds) /\ Rounds = 1 .. Cardinality(Rounds)
ASSUME AccountsAssumption == Accounts \subseteq Nat /\ IsFiniteSet(Accounts)
ASSUME SetupsAssumption ==
  \A s \in Setups : s.accounts \subseteq Accounts /\ s.rounds \subseteq Rounds /\ s.modes \in (SUBSET BOOLEAN) \ {{}}
ASSUME TeamAssumption == Team \in [Accounts -> 1 .. 2]
ASSUME MetricAssumption == Metric \in [Rounds -> [Accounts -> Nat]]

VARIABLES
  setup,     \* an element of Setups, never changed
  teamMode,  \* the session's current mode
  round,     \* Round rows: status, players with their teams, mode when frozen
  scored,    \* accounts whose attempt in the round is bound to a score
  log,       \* the events each lane has still to apply, as round ids
  result,    \* RoundResult: the points of each subject of a round
  tables,    \* standings and summaries
  tx,        \* the transaction each process is running
  locks      \* the row locks it holds

vars == <<setup, teamMode, round, scored, log, result, tables, tx, locks>>

-----------------------------------------------------------------------------
(* Processes, subjects and rows. *)

RoundLane(r) == <<"round", r>>
AccountLane(a) == <<"account", a>>
Lanes == {RoundLane(r) : r \in Rounds} \cup {AccountLane(a) : a \in Accounts}

\* One room command at a time: every one starts by locking the room's row.
Command == <<"command", 0>>
Submission(a) == <<"submission", a>>
Procs == Lanes \cup {Command} \cup {Submission(a) : a \in Accounts}

Subject(team, id) == <<IF team THEN "team" ELSE "account", id>>
Subjects(team) == {Subject(team, id) : id \in IF team THEN 1 .. 2 ELSE Accounts}
AllSubjects == Subjects(TRUE) \cup Subjects(FALSE)

RoomRow == <<"room", "row", 0>>
SessionRow == <<"session", "row", 0>>
RoundRow(r) == <<"round", "row", r>>
TableRow(table, s) == <<table, s[1], s[2]>>

Idle == [pc |-> "idle"]
Empty == [s \in {} |-> 0]
NoRound == [status |-> "absent", players |-> Empty, mode |-> FALSE]
Finished(r) == round[r].status \in {"completed", "aborted"}
Active == {r \in Rounds : round[r].status = "in_progress"}
Players(r) == DOMAIN round[r].players

\* The statements of a handler after the round's results, in their order: the
\* standings of the other subject type are deleted, then three tables upserted.
Statements == <<"delete", "standing", "playlist", "summary">>
Table(t) == IF t = "delete" THEN "standing" ELSE t
Statement(l) == Statements[tx[l].at]

\* The row a new row of the table refers to, when others lock it FOR UPDATE.
Parent == [standing |-> {SessionRow}, summary |-> {RoomRow}, playlist |-> {}, delete |-> {}]

\* The locks p asks for next, as <<row, mode>>.
Want(p) ==
  CASE tx[p].pc = "session" -> {<<SessionRow, "update">>}
    [] tx[p].pc = "round" -> {<<RoundRow(r), "update">> : r \in Active}
    [] tx[p].pc = "lock" -> {<<RoundRow(tx[p].round), "update">>}
    [] tx[p].pc = "write" -> {<<TableRow(Table(Statement(p)), s), "update">> : s \in DOMAIN tx[p].rows}
    [] tx[p].pc = "parent" -> {<<row, "share">> : row \in Parent[Statement(p)]}
    [] OTHER -> {}

\* The others whose locks conflict with the wanted ones.
Blockers(p, wanted) ==
  {q \in Procs \ {p} : \E w \in wanted, h \in locks[q] :
      w[1] = h[1] /\ "update" \in {w[2], h[2]}}
WaitsFor(p) == Blockers(p, Want(p))

\* p obtains the locks it asks for and goes on as next.
Obtain(p, next) ==
  /\ WaitsFor(p) = {}
  /\ locks' = [locks EXCEPT ![p] = @ \cup Want(p)]
  /\ tx' = [tx EXCEPT ![p] = next]

\* p's transaction ends: committed with the effects of the action, or rolled back.
EndTx(p) ==
  /\ tx' = [tx EXCEPT ![p] = Idle]
  /\ locks' = [locks EXCEPT ![p] = {}]

-----------------------------------------------------------------------------
(* Room commands.  get_room and _entities lock the room, then the session. *)

LockRoom ==
  /\ tx[Command].pc = "idle"
  /\ Blockers(Command, {<<RoomRow, "update">>}) = {}
  /\ locks' = [locks EXCEPT ![Command] = {<<RoomRow, "update">>}]
  /\ tx' = [tx EXCEPT ![Command] = [pc |-> "session"]]
  /\ UNCHANGED <<teamMode, round, scored, log, result, tables>>

HasSession == tx[Command].pc = "session" /\ WaitsFor(Command) = {}

\* Freeze the next round for the players who have the beatmap.
StartRound(r, players) ==
  /\ HasSession
  /\ Active = {}
  /\ round[r].status = "absent"
  /\ \A earlier \in 1 .. r - 1 : Finished(earlier)
  /\ round' = [round EXCEPT ![r] =
        [status |-> "in_progress", mode |-> teamMode,
         players |-> [a \in players |-> IF teamMode THEN Team[a] ELSE 0]]]
  /\ EndTx(Command)
  /\ UNCHANGED <<teamMode, scored, log, result, tables>>

\* The host switches between individual and team play.
UpdateSettings(mode) ==
  /\ HasSession
  /\ Active = {}
  /\ mode # teamMode
  /\ teamMode' = mode
  /\ EndTx(Command)
  /\ UNCHANGED <<round, scored, log, result, tables>>

\* The command goes on to finish the active round, whose row it locks next.
FindActiveRound ==
  /\ tx[Command].pc = "session"
  /\ Active # {}
  /\ Obtain(Command, [pc |-> "round"])
  /\ UNCHANGED <<teamMode, round, scored, log, result, tables>>

\* Mutant: the end of the round is not announced.
CompleteRoundUnannounced(r, status) ==
  /\ tx[Command].pc = "round"
  /\ r \in Active
  /\ WaitsFor(Command) = {}
  /\ round' = [round EXCEPT ![r].status = status]
  /\ EndTx(Command)
  /\ UNCHANGED <<teamMode, scored, log, result, tables>>

\* complete_round: completed or aborted, and announced in the round's lane.
CompleteRound(r, status) ==
  /\ tx[Command].pc = "round"
  /\ r \in Active
  /\ WaitsFor(Command) = {}
  /\ round' = [round EXCEPT ![r].status = status]
  /\ log' = [log EXCEPT ![RoundLane(r)] = Append(@, r)]
  /\ EndTx(Command)
  /\ UNCHANGED <<teamMode, scored, result, tables>>

\* leave_room by the last participant aborts the round and announces nothing
\* to the projections; the room is closed, so no later round can start.
CloseRoom(r) ==
  /\ tx[Command].pc = "round"
  /\ r \in Active
  /\ WaitsFor(Command) = {}
  /\ round' = [round EXCEPT ![r].status = "aborted"]
  /\ tx' = [tx EXCEPT ![Command] = [pc |-> "closed"]]
  /\ locks' = [locks EXCEPT ![Command] = {}]
  /\ UNCHANGED <<teamMode, scored, log, result, tables>>

\* The same when no round is running.
CloseIdleRoom ==
  /\ HasSession
  /\ Active = {}
  /\ tx' = [tx EXCEPT ![Command] = [pc |-> "closed"]]
  /\ locks' = [locks EXCEPT ![Command] = {}]
  /\ UNCHANGED <<teamMode, round, scored, log, result, tables>>

-----------------------------------------------------------------------------
(* Submissions, as the round sees them: the validator locks the round, then *)
(* the session; the score is accepted while the round runs and, within the  *)
(* grace period, after it finished.                                         *)

\* Mutant: the session is locked before the round.
LockForScoreSessionFirst(a, r) ==
  /\ tx[Submission(a)].pc = "idle"
  /\ a \in Players(r) \ scored[r]
  /\ Blockers(Submission(a), {<<SessionRow, "update">>}) = {}
  /\ locks' = [locks EXCEPT ![Submission(a)] = {<<SessionRow, "update">>}]
  /\ tx' = [tx EXCEPT ![Submission(a)] = [pc |-> "lock", round |-> r]]
  /\ UNCHANGED <<teamMode, round, scored, log, result, tables>>

LockForScore(a, r) ==
  /\ tx[Submission(a)].pc = "idle"
  /\ a \in Players(r) \ scored[r]
  /\ Blockers(Submission(a), {<<RoundRow(r), "update">>}) = {}
  /\ locks' = [locks EXCEPT ![Submission(a)] = {<<RoundRow(r), "update">>}]
  /\ tx' = [tx EXCEPT ![Submission(a)] = [pc |-> "session", round |-> r]]
  /\ UNCHANGED <<teamMode, round, scored, log, result, tables>>

\* bind_score and the commit of the submission with its score.accepted event.
BindScore(a) ==
  /\ tx[Submission(a)].pc # "idle"
  /\ WaitsFor(Submission(a)) = {}
  /\ scored' = [scored EXCEPT ![tx[Submission(a)].round] = @ \cup {a}]
  /\ log' = [log EXCEPT ![AccountLane(a)] = Append(@, tx[Submission(a)].round)]
  /\ EndTx(Submission(a))
  /\ UNCHANGED <<teamMode, round, result, tables>>

-----------------------------------------------------------------------------
(* What a handler computes. *)

\* The subjects of a finished round that have a score, and what each scored.
Scorers(r, team, s) ==
  {a \in scored[r] : s = IF team THEN Subject(TRUE, round[r].players[a]) ELSE Subject(FALSE, a)}
ScoreSum(r, S) == MapThenSumSet(LAMBDA a : Metric[r][a], S)
SubjectMetric(r, team, s) == ScoreSum(r, Scorers(r, team, s))

\* The subjects with a score in a completed round, and s with those of them that
\* are ranked below it, ties broken by id.
Present(r, team) ==
  {s \in Subjects(team) : round[r].status = "completed" /\ Scorers(r, team, s) # {}}
UpTo(r, team, s) ==
  {o \in Present(r, team) :
     \/ SubjectMetric(r, team, o) < SubjectMetric(r, team, s)
     \/ SubjectMetric(r, team, o) = SubjectMetric(r, team, s) /\ o[2] >= s[2]}

\* Of n ranked subjects the one at rank k earns n - k + 1 points.
Ranking(r, team) == [s \in Present(r, team) |-> Cardinality(UpTo(r, team, s))]

\* The points of s over all rounds, where res holds the results: the sum, counted
\* as the pairs of a round and one of its points.
Total(res, s) ==
  Cardinality({x \in Rounds \X (1 .. Cardinality(AllSubjects)) :
                 s \in DOMAIN res[x[1]] /\ x[2] <= res[x[1]][s]})

\* Subjects that took part in some round, and players with an attempt.
Participants(team) ==
  {s \in Subjects(team) : \E r \in Rounds : \E a \in Players(r) :
      s[2] = IF team THEN round[r].players[a] ELSE a}

\* The completed rounds in which the account has a score.
Completions(s) == {r \in Rounds : round[r].status = "completed" /\ s[2] \in scored[r]}

\* A statement sees the committed results of other rounds and the handler's own.
StandingRows(l) ==
  [s \in Participants(tx[l].mode) |-> Total([result EXCEPT ![tx[l].round] = tx[l].points], s)]

SummaryRows(l) == [s \in Participants(FALSE) |-> Completions(s)]

ObsoleteStandings(l) ==
  [s \in DOMAIN tables.standing \cap Subjects(~tx[l].mode) |-> 0]

-----------------------------------------------------------------------------
(* The handler of a lane. *)

\* The statement that locks the round starts: the session's mode it returns is
\* the one committed now, even if it has to wait for the round.
BeginHandler(l) ==
  /\ tx[l].pc = "idle"
  /\ log[l] # <<>>
  /\ tx' = [tx EXCEPT ![l] = [pc |-> "lock", round |-> Head(log[l]), mode |-> teamMode]]
  /\ UNCHANGED <<teamMode, round, scored, log, result, tables, locks>>

\* A finished round: its results are replaced by those of the bound scores.
ApplyRound(l) ==
  /\ tx[l].pc = "lock"
  /\ Finished(tx[l].round)
  /\ LET h == tx[l] IN
     Obtain(l, [pc |-> "select", at |-> 1, round |-> h.round, mode |-> h.mode,
                points |-> Ranking(h.round, h.mode), rows |-> Empty, wrote |-> [at \in 1 .. 4 |-> Empty]])
  /\ UNCHANGED <<teamMode, round, scored, log, result, tables>>

\* Mutant: the event is left to a retry.
SkipRoundByRetry(l) ==
  /\ tx[l].pc = "lock"
  /\ WaitsFor(l) = {}
  /\ ~Finished(tx[l].round)
  /\ EndTx(l)
  /\ UNCHANGED <<teamMode, round, scored, log, result, tables>>

\* A score of a round in progress changes nothing yet; the event is consumed.
SkipRound(l) ==
  /\ tx[l].pc = "lock"
  /\ WaitsFor(l) = {}
  /\ ~Finished(tx[l].round)
  /\ log' = [log EXCEPT ![l] = Tail(@)]
  /\ EndTx(l)
  /\ UNCHANGED <<teamMode, round, scored, result, tables>>

\* The rows the next statement of the handler is about.
StatementRows(l) ==
  CASE Statement(l) = "delete" -> ObsoleteStandings(l)
    [] Statement(l) = "standing" -> StandingRows(l)
    [] OTHER -> SummaryRows(l)

\* What follows the statement that wrote rows.
Continue(h, rows) ==
  [pc |-> IF h.at = Len(Statements) THEN "commit" ELSE "select",
   at |-> h.at + 1, round |-> h.round, mode |-> h.mode, points |-> h.points,
   rows |-> Empty, wrote |-> [h.wrote EXCEPT ![h.at] = rows]]

\* The statement starts and reads its rows from what is committed now; one that
\* finds none is over.
Select(l) ==
  /\ tx[l].pc = "select"
  /\ LET rows == StatementRows(l) IN
     tx' = [tx EXCEPT ![l] = IF DOMAIN rows = {} THEN Continue(@, rows)
                             ELSE [@ EXCEPT !.pc = "write", !.rows = rows]]
  /\ UNCHANGED <<teamMode, round, scored, log, result, tables, locks>>

\* The statement has its row locks and writes.  A row that is new refers to a
\* session or room, whose row the foreign key then locks FOR KEY SHARE.
Write(l) ==
  /\ tx[l].pc = "write"
  /\ LET inserts == DOMAIN tx[l].rows \ DOMAIN tables[Table(Statement(l))] IN
     Obtain(l, IF inserts # {} /\ Parent[Statement(l)] # {}
               THEN [tx[l] EXCEPT !.pc = "parent"]
               ELSE Continue(tx[l], tx[l].rows))
  /\ UNCHANGED <<teamMode, round, scored, log, result, tables>>

LockParent(l) ==
  /\ tx[l].pc = "parent"
  /\ Obtain(l, Continue(tx[l], tx[l].rows))
  /\ UNCHANGED <<teamMode, round, scored, log, result, tables>>

\* Upserted rows replace what others committed before.
Upsert(rows, table) ==
  [s \in DOMAIN rows \cup DOMAIN table |-> IF s \in DOMAIN rows THEN rows[s] ELSE table[s]]

\* The tables are as the statements left them; deleted rows are gone.
CommitHandler(l) ==
  /\ tx[l].pc = "commit"
  /\ LET h == tx[l]
         kept == DOMAIN tables.standing \ DOMAIN h.wrote[1]
     IN  /\ result' = [result EXCEPT ![h.round] = h.points]
         /\ tables' = [standing |-> Upsert(h.wrote[2], [s \in kept |-> tables.standing[s]]),
                       playlist |-> Upsert(h.wrote[3], tables.playlist),
                       summary  |-> Upsert(h.wrote[4], tables.summary)]
  /\ log' = [log EXCEPT ![l] = Tail(@)]
  /\ EndTx(l)
  /\ UNCHANGED <<teamMode, round, scored>>

HandlerStep(l) ==
  \/ BeginHandler(l)
  \/ ApplyRound(l)
  \/ SkipRound(l)
  \/ Select(l)
  \/ Write(l)
  \/ LockParent(l)
  \/ CommitHandler(l)

\* A refused command or submission, a failed handler, whose event is retried,
\* and the victim of the deadlock detector roll back; a command about seats or
\* passwords ends the same way as far as this state goes.
Abort(p) ==
  /\ tx[p].pc \notin {"idle", "closed"}
  /\ EndTx(p)
  /\ UNCHANGED <<teamMode, round, scored, log, result, tables>>

-----------------------------------------------------------------------------
Init ==
  /\ setup \in Setups
  /\ teamMode \in setup.modes
  /\ round = [r \in Rounds |-> NoRound]
  /\ scored = [r \in Rounds |-> {}]
  /\ log = [l \in Lanes |-> <<>>]
  /\ result = [r \in Rounds |-> Empty]
  /\ tables = [standing |-> Empty, playlist |-> Empty, summary |-> Empty]
  /\ tx = [p \in Procs |-> Idle]
  /\ locks = [p \in Procs |-> {}]

CommandStep ==
  \/ LockRoom
  \/ \E r \in setup.rounds, players \in (SUBSET setup.accounts) \ {{}} : StartRound(r, players)
  \/ \E mode \in setup.modes : UpdateSettings(mode)
  \/ FindActiveRound
  \/ \E r \in Rounds, status \in {"completed", "aborted"} : CompleteRound(r, status)
  \/ \E r \in Rounds : CloseRoom(r)
  \/ CloseIdleRoom

SubmissionStep(a) ==
  \/ \E r \in Rounds : LockForScore(a, r)
  \/ BindScore(a)

Deadlocked(S) == S # {} /\ \A p \in S : WaitsFor(p) \cap S # {}

\* The database breaks a circular wait by rolling back one of its members.
AbortVictim ==
  \E S \in SUBSET {p \in Procs : WaitsFor(p) # {}} :
    Deadlocked(S) /\ \E p \in S : Abort(p)

\* Commands may be refused, and any transaction is lost in a crash.
Next ==
  /\ \/ CommandStep
     \/ \E a \in Accounts : SubmissionStep(a)
     \/ \E l \in Lanes : HandlerStep(l)
     \/ Abort(Command)
     \/ AbortVictim
     \/ setup.crashes /\ \E p \in Procs : Abort(p)
  /\ UNCHANGED setup

\* Workers take up due events, and the database runs transactions that are not
\* blocked and detects circular waits, as long as nothing crashes.
Steady == ~setup.crashes /\ UNCHANGED setup
Fairness ==
  /\ \A l \in Lanes : WF_vars(Steady /\ HandlerStep(l))
  /\ \A a \in Accounts : WF_vars(Steady /\ BindScore(a))
  /\ WF_vars(Steady /\ AbortVictim)

Spec == Init /\ [][Next]_vars
FairSpec == Spec /\ Fairness

-----------------------------------------------------------------------------
(* Properties. *)

Rows(keys, values) == UNION {[d -> values] : d \in SUBSET keys}
MaxTotal == Cardinality(Rounds) * Cardinality(AllSubjects)

\* The stored rows of consumers/multiplayer.py have their types: points are
\* positive, a subject is an account or a team, and a standing is a sum of points.
TypeOK ==
  /\ teamMode \in setup.modes
  /\ \A r \in Rounds :
       /\ round[r].status \in {"absent", "in_progress", "completed", "aborted"}
       /\ Players(r) \subseteq Accounts
       /\ scored[r] \subseteq Players(r)
       /\ DOMAIN result[r] \subseteq AllSubjects
       /\ \A s \in DOMAIN result[r] : result[r][s] \in 1 .. Cardinality(AllSubjects)
  /\ \A l \in Lanes : \A i \in DOMAIN log[l] : log[l][i] \in Rounds
  /\ DOMAIN tables.standing \subseteq AllSubjects
  /\ \A s \in DOMAIN tables.standing : tables.standing[s] \in 0 .. MaxTotal
  /\ \A t \in {"playlist", "summary"} :
       /\ DOMAIN tables[t] \subseteq Subjects(FALSE)
       /\ \A s \in DOMAIN tables[t] : tables[t][s] \subseteq Rounds

\* Nothing of the round, or of the session, is waiting to be projected.
QuietRound(r) == \A l \in Lanes : \A i \in DOMAIN log[l] : log[l][i] # r
Quiet == \A r \in Rounds : QuietRound(r)

\* Once the events of a round are applied, its results rank exactly the scores
\* bound to it, late ones included, whatever the order in which completion and
\* score events were handled (_apply_round and its lock on the round).
ResultsComplete ==
  \A r \in Rounds : Finished(r) /\ QuietRound(r) =>
    \E team \in setup.modes : result[r] = Ranking(r, team)

\* Once all events are applied, every standing is the sum of the subject's
\* points in the session (_rebuild_session_standings).
StandingsCurrent ==
  Quiet => \A s \in DOMAIN tables.standing : tables.standing[s] = Total(result, s)

OneRound == Cardinality(setup.rounds) = 1

\* Once all events are applied, both summaries count exactly the scores of
\* completed rounds (_rebuild_playlist_summaries, _rebuild_room_summaries), as
\* long as the handlers are those of one round.
SummariesCurrent ==
  Quiet /\ OneRound => \A t \in {"playlist", "summary"} : \A s \in DOMAIN tables[t] :
             tables[t][s] = Completions(s)

\* The stored rows have their types, and once its events are applied a round has
\* its results and its scores are in both summaries.
ProjectionsComplete == TypeOK /\ ResultsComplete /\ SummariesCurrent

\* A circular wait involves a room command, or handlers that read different
\* modes: submissions, which lock the round before the session, and handlers,
\* which lock the round before the rows they write and the rows those refer to,
\* do not otherwise block each other for good.
CircularWaitNeedsCommand ==
  \A S \in SUBSET {p \in Procs \ {Command} : WaitsFor(p) # {}} :
    S # {} /\ (\A l, k \in S \cap Lanes : tx[l].mode = tx[k].mode) =>
      \E p \in S : WaitsFor(p) \cap S = {}

\* Once no more room commands run and nothing crashes, every event of a round is
\* applied by its handler, also a score of a round that nobody ever finishes
\* (consume_multiplayer_results).  While commands keep coming, a handler may be
\* the victim each time it meets one.
EventsApplied ==
  <>[](tx[Command].pc \in {"idle", "closed"} /\ ~setup.crashes) =>
    \A l \in Lanes : (log[l] # <<>>) ~> (log[l] = <<>>)
=============================================================================
