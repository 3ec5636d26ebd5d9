---------------------- MODULE MultiplayerResultsProofs -----------------------
(***************************************************************************)
(* Proofs about MultiplayerResults, for every number of accounts and       *)
(* rounds, every metric and every setup.  LocksInv says what each          *)
(* transaction holds and gives the order in which locks are waited for;    *)
(* ResultsInv adds what a handler has read and why it is still so when the *)
(* handler commits.                                                        *)
(***************************************************************************)
EXTENDS MultiplayerResults, TLAPS

-----------------------------------------------------------------------------
(* Processes and rows. *)

\* Lanes, submissions and the command are different processes.
LEMMA ProcFacts ==
  /\ Lanes \subseteq Procs /\ Command \in Procs /\ Command \notin Lanes
  /\ \A a \in Accounts : /\ Submission(a) \in Procs /\ Submission(a) \notin Lanes
                         /\ Submission(a) # Command
  /\ \A a, b \in Accounts : Submission(a) = Submission(b) => a = b
  /\ \A p \in Procs : \/ p = Command
                      \/ p \in Lanes
                      \/ \E a \in Accounts : p = Submission(a)
  BY DEF Procs, Lanes, Command, Submission, RoundLane, AccountLane

\* The locks a process asks for in each of its states.
LEMMA WantFacts ==
  \A p : /\ tx[p].pc = "session" => Want(p) = {<<SessionRow, "update">>}
         /\ tx[p].pc = "lock" => Want(p) = {<<RoundRow(tx[p].round), "update">>}
         /\ tx[p].pc = "write" =>
              Want(p) = {<<TableRow(Table(Statement(p)), s), "update">> : s \in DOMAIN tx[p].rows}
         /\ tx[p].pc = "parent" => Want(p) = {<<row, "share">> : row \in Parent[Statement(p)]}
         /\ tx[p].pc \in {"idle", "select", "commit", "closed"} => Want(p) = {}
  BY Zenon DEF Want

\* The statements of a handler.
LEMMA StatementFacts ==
  \A l : /\ tx[l].at = 1 => Statement(l) = "delete"
         /\ tx[l].at = 2 => Statement(l) = "standing"
         /\ tx[l].at = 3 => Statement(l) = "playlist"
         /\ tx[l].at = 4 => Statement(l) = "summary"
  BY DEF Statement, Statements

\* The table and the parents of each statement.
LEMMA StatementTables ==
  /\ Table("delete") = "standing" /\ Table("standing") = "standing"
  /\ Table("playlist") = "playlist" /\ Table("summary") = "summary"
  /\ Parent["delete"] = {} /\ Parent["standing"] = {SessionRow}
  /\ Parent["playlist"] = {} /\ Parent["summary"] = {RoomRow}
  /\ Len(Statements) = 4
  BY DEF Table, Parent, Statements

-----------------------------------------------------------------------------
(* Who holds which locks. *)

\* A handler that has locked its round has results to write.
Applying(l) == tx[l].pc \in {"select", "write", "parent", "commit"}

\* The locks k a handler h may hold: those of the statements it has executed.
MayHold(h, k) ==
  \/ k = <<RoundRow(h.round), "update">>
  \/ h.at > 1 /\ \E s \in Subjects(~h.mode) : k = <<TableRow("standing", s), "update">>
  \/ /\ h.at > 2 \/ (h.at = 2 /\ h.pc = "parent")
     /\ \E s \in Subjects(h.mode) : k = <<TableRow("standing", s), "update">>
  \/ h.at > 3 /\ \E s \in Subjects(FALSE) : k = <<TableRow("playlist", s), "update">>
  \/ /\ h.at > 4 \/ (h.at = 4 /\ h.pc = "parent")
     /\ \E s \in Subjects(FALSE) : k = <<TableRow("summary", s), "update">>
  \/ h.at > 2 /\ k = <<SessionRow, "share">>
  \/ h.at > 4 /\ k = <<RoomRow, "share">>

\* The rows a statement may be about.
Scope(h) == IF h.at = 1 THEN Subjects(~h.mode) ELSE IF h.at = 2 THEN Subjects(h.mode) ELSE Subjects(FALSE)

HandlerFields == {"pc", "at", "round", "mode", "points", "rows", "wrote"}

\* A handler that applies its round holds the round's lock, and no locks but
\* those of the statements it has executed.
HandlerLocks(l) ==
  \/ tx[l] = Idle /\ locks[l] = {}
  \/ tx[l].pc = "lock" /\ tx[l].mode \in BOOLEAN /\ locks[l] = {}
  \/ /\ Applying(l)
     /\ DOMAIN tx[l] = HandlerFields
     /\ tx[l].mode \in BOOLEAN
     /\ tx[l].at \in 1 .. 5
     /\ tx[l].pc = "commit" <=> tx[l].at = 5
     /\ tx[l].pc = "parent" => tx[l].at \in {2, 4}
     /\ tx[l].pc \in {"write", "parent"} => DOMAIN tx[l].rows \subseteq Scope(tx[l])
     /\ <<RoundRow(tx[l].round), "update">> \in locks[l]
     /\ \A k \in locks[l] : MayHold(tx[l], k)

\* A submission that has locked its round holds nothing else.
SubmissionLocks(a) ==
  LET p == Submission(a) IN
  \/ tx[p] = Idle /\ locks[p] = {}
  \/ /\ tx[p].pc = "session" /\ tx[p].round \in Rounds
     /\ locks[p] = {<<RoundRow(tx[p].round), "update">>}

LocksInv ==
  /\ DOMAIN tx = Procs /\ DOMAIN locks = Procs
  /\ setup \in Setups /\ teamMode \in setup.modes
  /\ \A l \in Lanes : HandlerLocks(l)
  /\ \A a \in Accounts : SubmissionLocks(a)

\* A subject is a team or an account, and the rows of a table are told apart.
LEMMA SubjectFacts ==
  /\ \A team \in BOOLEAN : \A s \in Subjects(team) :
       /\ team => s[1] = "team" /\ s[2] \in 1 .. 2
       /\ ~team => s[1] = "account" /\ s[2] \in Accounts
       /\ s = <<s[1], s[2]>> /\ s \in AllSubjects
  /\ \A table, s : TableRow(table, s) = <<table, s[1], s[2]>>
  BY DEF Subjects, Subject, AllSubjects, TableRow

\* How far a handler h that holds the lock k has come.
Progress(h, k) ==
  /\ \A s \in Subjects(~h.mode) : k[1] = TableRow("standing", s) => h.at > 1
  /\ \A s \in Subjects(h.mode) : k[1] = TableRow("standing", s) =>
       h.at > 2 \/ (h.at = 2 /\ h.pc = "parent")
  /\ \A s \in Subjects(FALSE) : k[1] = TableRow("playlist", s) => h.at > 3
  /\ \A s \in Subjects(FALSE) : k[1] = TableRow("summary", s) =>
       h.at > 4 \/ (h.at = 4 /\ h.pc = "parent")
  /\ k[1] = SessionRow \/ k[1] = RoomRow => k[2] = "share"

\* What holding a lock says of a handler.
LEMMA AcquiredFacts ==
  ASSUME NEW h, h.mode \in BOOLEAN, NEW k, MayHold(h, k)
  PROVE  Progress(h, k)
<1>1. \/ k = <<RoundRow(h.round), "update">>
      \/ h.at > 1 /\ \E s \in Subjects(~h.mode) : k = <<TableRow("standing", s), "update">>
      \/ /\ h.at > 2 \/ (h.at = 2 /\ h.pc = "parent")
         /\ \E s \in Subjects(h.mode) : k = <<TableRow("standing", s), "update">>
      \/ h.at > 3 /\ \E s \in Subjects(FALSE) : k = <<TableRow("playlist", s), "update">>
      \/ /\ h.at > 4 \/ (h.at = 4 /\ h.pc = "parent")
         /\ \E s \in Subjects(FALSE) : k = <<TableRow("summary", s), "update">>
      \/ h.at > 2 /\ k = <<SessionRow, "share">>
      \/ h.at > 4 /\ k = <<RoomRow, "share">>
  BY Zenon DEF MayHold
<1>2. /\ \A s, v : /\ TableRow("standing", s) # TableRow("playlist", v)
                   /\ TableRow("standing", s) # TableRow("summary", v)
                   /\ TableRow("playlist", s) # TableRow("summary", v)
      /\ \A s \in Subjects(h.mode), v \in Subjects(~h.mode) : TableRow("standing", s) # TableRow("standing", v)
  <2>1. \A s \in Subjects(TRUE), v \in Subjects(FALSE) : s[1] # v[1]
    BY SubjectFacts, Zenon
  <2>2. \A s \in Subjects(h.mode), v \in Subjects(~h.mode) : s[1] # v[1]
    BY <2>1, Zenon
  <2> QED BY <2>2 DEF TableRow
<1>3. \A t \in {"standing", "playlist", "summary"} : \A s :
        /\ TableRow(t, s) # SessionRow /\ TableRow(t, s) # RoomRow
        /\ \A r : TableRow(t, s) # RoundRow(r)
  BY DEF SessionRow, RoomRow, RoundRow, TableRow
<1>4. SessionRow # RoomRow /\ \A r : RoundRow(r) # RoomRow /\ RoundRow(r) # SessionRow
  BY DEF SessionRow, RoomRow, RoundRow
<1>5. CASE k = <<RoundRow(h.round), "update">>
  BY <1>3, <1>4, <1>5, Zenon DEF Progress
<1>6. CASE h.at > 1 /\ \E s \in Subjects(~h.mode) : k = <<TableRow("standing", s), "update">>
  <2>1. PICK v \in Subjects(~h.mode) : k = <<TableRow("standing", v), "update">>
    BY <1>6, Zenon
  <2>2. k[1] = TableRow("standing", v)
    BY <2>1
  <2>3. k[1] # SessionRow /\ k[1] # RoomRow
    BY <1>3, <2>2
  <2> QED BY <1>2, <1>6, <2>2, <2>3, Zenon DEF Progress
<1>7. CASE /\ h.at > 2 \/ (h.at = 2 /\ h.pc = "parent")
           /\ \E s \in Subjects(h.mode) : k = <<TableRow("standing", s), "update">>
  <2>1. PICK v \in Subjects(h.mode) : k = <<TableRow("standing", v), "update">>
    BY <1>7, Zenon
  <2>2. k[1] = TableRow("standing", v)
    BY <2>1
  <2>3. k[1] # SessionRow /\ k[1] # RoomRow
    BY <1>3, <2>2
  <2> QED BY <1>2, <1>7, <2>2, <2>3, Zenon DEF Progress
<1>8. CASE h.at > 3 /\ \E s \in Subjects(FALSE) : k = <<TableRow("playlist", s), "update">>
  <2>1. PICK v \in Subjects(FALSE) : k = <<TableRow("playlist", v), "update">>
    BY <1>8, Zenon
  <2>2. k[1] = TableRow("playlist", v)
    BY <2>1
  <2>3. k[1] # SessionRow /\ k[1] # RoomRow
    BY <1>3, <2>2
  <2> QED BY <1>2, <1>8, <2>2, <2>3, Zenon DEF Progress
<1>9. CASE /\ h.at > 4 \/ (h.at = 4 /\ h.pc = "parent")
           /\ \E s \in Subjects(FALSE) : k = <<TableRow("summary", s), "update">>
  <2>1. PICK v \in Subjects(FALSE) : k = <<TableRow("summary", v), "update">>
    BY <1>9, Zenon
  <2>2. k[1] = TableRow("summary", v)
    BY <2>1
  <2>3. k[1] # SessionRow /\ k[1] # RoomRow
    BY <1>3, <2>2
  <2> QED BY <1>2, <1>9, <2>2, <2>3, Zenon DEF Progress
<1>10. CASE h.at > 2 /\ k = <<SessionRow, "share">>
  BY <1>3, <1>4, <1>10, Zenon DEF Progress
<1>11. CASE h.at > 4 /\ k = <<RoomRow, "share">>
  BY <1>3, <1>4, <1>11, Zenon DEF Progress
<1> QED BY <1>1, <1>5, <1>6, <1>7, <1>8, <1>9, <1>10, <1>11, Zenon

\* How far a transaction has come in the order in which rows are locked.
Rank(p) ==
  IF p \notin Lanes THEN 1
  ELSE IF tx[p].pc = "lock" THEN 0
  ELSE 2 * tx[p].at + (IF tx[p].pc = "parent" THEN 1 ELSE 0)

\* A transaction that holds locks applies a round or binds a score.
LEMMA HolderFacts ==
  ASSUME LocksInv, NEW q \in Procs \ {Command}, NEW k \in locks[q]
  PROVE  \/ /\ q \in Lanes /\ Applying(q) /\ tx[q].at \in 1 .. 5 /\ tx[q].mode \in BOOLEAN
            /\ MayHold(tx[q], k) /\ Rank(q) >= 2 /\ Rank(q) \in 0 .. 11
         \/ /\ q \notin Lanes /\ Rank(q) = 1
            /\ \E r \in Rounds : k = <<RoundRow(r), "update">>
<1>1. CASE q \in Lanes
  <2>1. HandlerLocks(q)
    BY <1>1, Zenon DEF LocksInv
  <2>2. /\ Applying(q) /\ tx[q].at \in 1 .. 5 /\ tx[q].mode \in BOOLEAN
        /\ MayHold(tx[q], k)
    BY <2>1, Zenon DEF HandlerLocks
  <2>3. tx[q].pc # "lock"
    BY <2>2, Zenon DEF Applying
  <2> QED BY <1>1, <2>2, <2>3 DEF Rank
<1>2. CASE q \notin Lanes
  <2>1. PICK a \in Accounts : q = Submission(a)
    BY <1>2, ProcFacts, Zenon
  <2>2. SubmissionLocks(a)
    BY Zenon DEF LocksInv
  <2>3. tx[q].round \in Rounds /\ k = <<RoundRow(tx[q].round), "update">>
    BY <2>1, <2>2, Zenon DEF SubmissionLocks
  <2> QED BY <1>2, <2>3, Zenon DEF Rank
<1> QED BY <1>1, <1>2

\* What makes q wait for p's locks.
LEMMA ConflictFacts ==
  ASSUME NEW p, NEW q \in WaitsFor(p)
  PROVE  /\ q \in Procs /\ q # p
         /\ \E w \in Want(p), k \in locks[q] : w[1] = k[1] /\ "update" \in {w[2], k[2]}
  BY Zenon DEF WaitsFor, Blockers

\* A transaction other than a room command waits only for those that are ahead
\* of it in the order of the locks, if they read the same mode.
LEMMA WaitsForLater ==
  ASSUME LocksInv, NEW p \in Procs \ {Command}, NEW q \in Procs \ {Command}, q \in WaitsFor(p),
         p \in Lanes /\ q \in Lanes => tx[p].mode = tx[q].mode
  PROVE  Rank(p) < Rank(q) /\ Rank(p) \in 0 .. 11 /\ Rank(q) \in 0 .. 11
<1>1. PICK w \in Want(p), k \in locks[q] : w[1] = k[1] /\ "update" \in {w[2], k[2]}
  BY ConflictFacts, Zenon
<1>2. \/ /\ q \in Lanes /\ Applying(q) /\ tx[q].at \in 1 .. 5 /\ tx[q].mode \in BOOLEAN
         /\ MayHold(tx[q], k) /\ Rank(q) >= 2 /\ Rank(q) \in 0 .. 11
      \/ /\ q \notin Lanes /\ Rank(q) = 1
         /\ \E r \in Rounds : k = <<RoundRow(r), "update">>
  BY HolderFacts, Zenon
<1>3. q \in Lanes => Progress(tx[q], k)
  <2> SUFFICES ASSUME q \in Lanes PROVE Progress(tx[q], k)
    OBVIOUS
  <2>1. tx[q].mode \in BOOLEAN /\ MayHold(tx[q], k)
    BY <1>2, Zenon
  <2> QED BY <2>1, AcquiredFacts
<1>4. q \notin Lanes => \E r : k[1] = RoundRow(r)
  BY <1>2
<1>5. \A r : /\ RoundRow(r) # SessionRow /\ RoundRow(r) # RoomRow
             /\ \A t \in {"standing", "playlist", "summary"} : \A s : RoundRow(r) # TableRow(t, s)
  BY DEF RoundRow, SessionRow, RoomRow, TableRow
<1>6. CASE p \notin Lanes
  <2>1. PICK a \in Accounts : p = Submission(a)
    BY <1>6, ProcFacts, Zenon
  <2>2. SubmissionLocks(a)
    BY Zenon DEF LocksInv
  <2>3. tx[p].pc = "session" \/ tx[p].pc = "idle"
    BY <2>1, <2>2 DEF SubmissionLocks, Idle
  <2>4. w[1] = SessionRow
    BY <2>3, WantFacts
  <2>5. q \in Lanes
    BY <1>1, <1>4, <1>5, <2>4, Zenon
  <2>6. Rank(q) >= 2 /\ Rank(q) \in 0 .. 11
    BY <1>2, <2>5
  <2> QED BY <1>6, <2>6 DEF Rank
<1>7. CASE p \in Lanes /\ tx[p].pc = "lock"
  BY <1>2, <1>7 DEF Rank
<1>8. CASE p \in Lanes /\ tx[p].pc # "lock"
  <2>1. HandlerLocks(p)
    BY <1>8, Zenon DEF LocksInv
  <2>2. tx[p].pc # "idle" /\ tx[p].pc # "select" /\ tx[p].pc # "commit"
    BY WantFacts, Zenon
  <2>3. /\ Applying(p) /\ tx[p].mode \in BOOLEAN /\ tx[p].at \in 1 .. 5
        /\ tx[p].pc = "parent" => tx[p].at \in {2, 4}
        /\ DOMAIN tx[p].rows \subseteq Scope(tx[p])
        /\ tx[p].pc # "commit" /\ tx[p].at # 5
    <3>1. tx[p] # Idle
      BY <2>2 DEF Idle
    <3> QED BY <1>8, <2>1, <2>2, <3>1, Zenon DEF HandlerLocks, Applying
  <2>4. CASE tx[p].pc = "write"
    <3>1. PICK s \in Scope(tx[p]) : w[1] = TableRow(Table(Statement(p)), s)
      BY <2>3, <2>4, WantFacts
    <3>2. Table(Statement(p)) \in {"standing", "playlist", "summary"}
      BY <2>3, StatementFacts, StatementTables
    <3>3. q \in Lanes
      BY <1>1, <1>4, <1>5, <3>1, <3>2, Zenon
    <3>4. MayHold(tx[q], k) /\ tx[q].mode = tx[p].mode /\ tx[q].at \in 1 .. 5
      BY <1>2, <1>8, <3>3, Zenon
    <3>5. tx[q].at > tx[p].at \/ (tx[q].at = tx[p].at /\ tx[q].pc = "parent")
      <4>1. CASE tx[p].at = 1
        <5>1. s \in Subjects(~tx[q].mode) /\ k[1] = TableRow("standing", s)
          BY <1>1, <3>1, <3>4, <4>1, StatementFacts, StatementTables DEF Scope
        <5>2. tx[q].at > 1
          BY <1>3, <3>3, <5>1, Zenon DEF Progress
        <5> QED BY <3>4, <4>1, <5>2
      <4>2. CASE tx[p].at = 2
        <5>1. s \in Subjects(tx[q].mode) /\ k[1] = TableRow("standing", s)
          BY <1>1, <3>1, <3>4, <4>2, StatementFacts, StatementTables DEF Scope
        <5>2. tx[q].at > 2 \/ (tx[q].at = 2 /\ tx[q].pc = "parent")
          BY <1>3, <3>3, <5>1, Zenon DEF Progress
        <5> QED BY <3>4, <4>2, <5>2
      <4>3. CASE tx[p].at = 3
        <5>1. s \in Subjects(FALSE) /\ k[1] = TableRow("playlist", s)
          BY <1>1, <3>1, <4>3, StatementFacts, StatementTables, Zenon DEF Scope
        <5>2. tx[q].at > 3
          BY <1>3, <3>3, <5>1, Zenon DEF Progress
        <5> QED BY <3>4, <4>3, <5>2
      <4>4. CASE tx[p].at = 4
        <5>1. s \in Subjects(FALSE) /\ k[1] = TableRow("summary", s)
          BY <1>1, <3>1, <4>4, StatementFacts, StatementTables, Zenon DEF Scope
        <5>2. tx[q].at > 4 \/ (tx[q].at = 4 /\ tx[q].pc = "parent")
          BY <1>3, <3>3, <5>1, Zenon DEF Progress
        <5> QED BY <3>4, <4>4, <5>2
      <4> QED BY <2>3, <4>1, <4>2, <4>3, <4>4
    <3>6. tx[q].pc # "lock"
      BY <1>2, <3>3, Zenon DEF Applying
    <3> QED BY <1>8, <2>3, <2>4, <3>3, <3>4, <3>5, <3>6 DEF Rank
  <2>5. CASE tx[p].pc = "parent"
    <3>1. w[2] = "share" /\ w[1] \in {SessionRow, RoomRow}
      BY <2>3, <2>5, WantFacts, StatementFacts, StatementTables
    <3>2. k[2] = "update"
      BY <1>1, <3>1
    <3>3. q \in Lanes
      BY <1>1, <1>4, <1>5, <3>1, Zenon
    <3>4. MayHold(tx[q], k) /\ tx[q].mode \in BOOLEAN
      BY <1>2, <3>3, Zenon
    <3>5. k[2] = "share"
      BY <1>1, <1>3, <3>1, <3>3, Zenon DEF Progress
    <3> QED BY <3>2, <3>5
  <2> QED BY <2>2, <2>3, <2>4, <2>5, Zenon DEF Applying
<1> QED BY <1>6, <1>7, <1>8

-----------------------------------------------------------------------------
(* The locks of a step. *)

\* Only p steps: it goes on as next and holds held.
Moves(p, next, held) ==
  /\ DOMAIN tx' = Procs /\ DOMAIN locks' = Procs
  /\ tx'[p] = next /\ locks'[p] = held
  /\ \A q \in Procs \ {p} : tx'[q] = tx[q] /\ locks'[q] = locks[q]

\* The two ways a transaction steps.
LEMMA ObtainMoves ==
  ASSUME LocksInv, NEW p \in Procs, NEW next, Obtain(p, next)
  PROVE  Moves(p, next, locks[p] \cup Want(p)) /\ WaitsFor(p) = {}
  BY DEF LocksInv, Obtain, Moves

\* A transaction that ends holds nothing.
LEMMA EndMoves ==
  ASSUME LocksInv, NEW p \in Procs, EndTx(p)
  PROVE  Moves(p, Idle, {})
  BY DEF LocksInv, EndTx, Moves

\* The locks of the others are still theirs.
LEMMA LocksStep ==
  ASSUME LocksInv, setup' = setup, teamMode' \in setup.modes,
         NEW p \in Procs, NEW next, NEW held, Moves(p, next, held),
         p \in Lanes => HandlerLocks(p)',
         \A a \in Accounts : p = Submission(a) => SubmissionLocks(a)'
  PROVE  LocksInv'
<1>1. ASSUME NEW l \in Lanes PROVE HandlerLocks(l)'
  <2>1. CASE l = p
    BY <2>1
  <2>2. CASE l # p
    <3>1. tx'[l] = tx[l] /\ locks'[l] = locks[l]
      BY <2>2, ProcFacts, Zenon DEF Moves
    <3>2. HandlerLocks(l)
      BY Zenon DEF LocksInv
    <3> QED BY <3>1, <3>2, Zenon DEF HandlerLocks, Applying
  <2> QED BY <2>1, <2>2
<1>2. ASSUME NEW a \in Accounts PROVE SubmissionLocks(a)'
  <2>1. CASE p = Submission(a)
    BY <2>1
  <2>2. CASE p # Submission(a)
    <3>1. tx'[Submission(a)] = tx[Submission(a)] /\ locks'[Submission(a)] = locks[Submission(a)]
      BY <2>2, ProcFacts, Zenon DEF Moves
    <3>2. SubmissionLocks(a)
      BY Zenon DEF LocksInv
    <3> QED BY <3>1, <3>2, Zenon DEF SubmissionLocks
  <2> QED BY <2>1, <2>2
<1> QED BY <1>1, <1>2, Zenon DEF LocksInv, Moves

\* A transaction that ended holds nothing, whoever ran it.
LEMMA EndLocks ==
  ASSUME LocksInv, setup' = setup, teamMode' \in setup.modes, NEW p \in Procs, EndTx(p)
  PROVE  LocksInv'
<1>1. Moves(p, Idle, {})
  BY EndMoves
<1>2. p \in Lanes => HandlerLocks(p)'
  BY <1>1, Zenon DEF Moves, HandlerLocks
<1>3. \A a \in Accounts : p = Submission(a) => SubmissionLocks(a)'
  BY <1>1, Zenon DEF Moves, SubmissionLocks
<1> QED BY <1>1, <1>2, <1>3, LocksStep

\* A handler holds more the further it is.
LEMMA AcquiredGrows ==
  ASSUME NEW g, NEW h, g.at \in 1 .. 4, h.round = g.round, h.mode = g.mode,
         h.at = g.at + 1 \/ (h.at = g.at /\ g.pc # "parent")
  PROVE  \A k : MayHold(g, k) => MayHold(h, k)
<1>1. /\ g.at > 1 => h.at > 1
      /\ g.at > 2 \/ (g.at = 2 /\ g.pc = "parent") => h.at > 2 \/ (h.at = 2 /\ h.pc = "parent")
      /\ g.at > 3 => h.at > 3
      /\ g.at > 4 \/ (g.at = 4 /\ g.pc = "parent") => h.at > 4 \/ (h.at = 4 /\ h.pc = "parent")
      /\ g.at > 2 => h.at > 2
      /\ g.at > 4 => h.at > 4
  OBVIOUS
<1> QED BY <1>1, Zenon DEF MayHold

\* A handler between two statements, and what the next one is about.
LEMMA HandlerFacts ==
  ASSUME LocksInv, NEW l \in Lanes, Applying(l)
  PROVE  /\ DOMAIN tx[l] = HandlerFields /\ tx[l].mode \in BOOLEAN /\ tx[l].at \in 1 .. 5
         /\ tx[l].pc = "commit" <=> tx[l].at = 5
         /\ tx[l].pc = "parent" => tx[l].at \in {2, 4}
         /\ tx[l].pc \in {"write", "parent"} => DOMAIN tx[l].rows \subseteq Scope(tx[l])
         /\ <<RoundRow(tx[l].round), "update">> \in locks[l]
         /\ \A k \in locks[l] : MayHold(tx[l], k)
<1>1. HandlerLocks(l)
  BY Zenon DEF LocksInv
<1>2. tx[l] # Idle
  BY DEF Applying, Idle
<1>3. tx[l].pc # "lock"
  BY Zenon DEF Applying
<1> QED BY <1>1, <1>2, <1>3, Zenon DEF HandlerLocks

\* What a handler h does after the statement that wrote rows.
Follows(c, h, rows) ==
  /\ DOMAIN c = HandlerFields /\ c.mode = h.mode /\ c.round = h.round
  /\ c.at = h.at + 1 /\ c.at \in 1 .. 5 /\ c.pc \in {"select", "commit"}
  /\ c.pc = "commit" <=> c.at = 5
  /\ c.points = h.points /\ c.rows = Empty
  /\ c.wrote = [h.wrote EXCEPT ![h.at] = rows]

\* The fields of a handler that goes on to its next statement.
LEMMA ContinueFacts ==
  ASSUME NEW h, NEW rows, h.at \in 1 .. 4
  PROVE  Follows(Continue(h, rows), h, rows)
  BY StatementTables DEF Continue, HandlerFields, Follows

\* After a statement a handler may hold what it held and the locks of the statement.
LEMMA ContinueLocks ==
  ASSUME LocksInv, NEW l \in Lanes, Applying(l), tx[l].at \in 1 .. 4, NEW rows,
         tx'[l] = Continue(tx[l], rows), <<RoundRow(tx[l].round), "update">> \in locks'[l],
         \A k \in locks'[l] : MayHold(tx[l], k) \/ MayHold(Continue(tx[l], rows), k)
  PROVE  HandlerLocks(l)'
<1> DEFINE g == tx[l] c == Continue(g, rows)
<1>7. g.at \in 1 .. 4
  OBVIOUS
<1> HIDE DEF g
<1>1. /\ DOMAIN c = HandlerFields /\ c.mode = g.mode /\ c.round = g.round
      /\ c.at = g.at + 1 /\ c.at \in 1 .. 5 /\ c.pc \in {"select", "commit"}
      /\ c.pc = "commit" <=> c.at = 5
  <2>1. Follows(c, g, rows)
    BY <1>7, ContinueFacts
  <2> QED BY <2>1, Zenon DEF Follows
<1>2. g.mode \in BOOLEAN /\ \A k \in locks[l] : MayHold(g, k)
  BY HandlerFacts, Zenon DEF g
<1> HIDE DEF c
<1>3. \A k : MayHold(g, k) => MayHold(c, k)
  BY <1>1, <1>7, AcquiredGrows
<1>4. \A k \in locks'[l] : MayHold(c, k)
  BY <1>3, Zenon DEF c, g
<1>5. tx'[l] = c /\ <<RoundRow(c.round), "update">> \in locks'[l]
  BY <1>1, Zenon DEF c, g
<1>6. c.pc # "parent" /\ c.pc # "write" /\ c.pc \in {"select", "write", "parent", "commit"}
  BY <1>1
<1> QED BY <1>1, <1>2, <1>4, <1>5, <1>6, Zenon DEF HandlerLocks, Applying

\* A handler that waits for its round, or for an event, holds nothing.
LEMMA WaitingFacts ==
  ASSUME LocksInv, NEW l \in Lanes, ~Applying(l)
  PROVE  /\ locks[l] = {}
         /\ tx[l] = Idle \/ (tx[l].pc = "lock" /\ tx[l].mode \in BOOLEAN)
<1>1. HandlerLocks(l)
  BY Zenon DEF LocksInv
<1> QED BY <1>1, Zenon DEF HandlerLocks

\* The current mode is a mode.
LEMMA ModeFacts ==
  ASSUME LocksInv
  PROVE  setup.modes \subseteq BOOLEAN /\ setup.modes # {} /\ teamMode \in BOOLEAN
  BY SetupsAssumption DEF LocksInv

\* A handler takes up an event before it locks anything (BeginHandler).
LEMMA BeginLocks ==
  ASSUME LocksInv, NEW l \in Lanes, BeginHandler(l), setup' = setup
  PROVE  LocksInv'
<1> DEFINE next == [pc |-> "lock", round |-> Head(log[l]), mode |-> teamMode]
<1>1. tx[l].pc = "idle" /\ tx' = [tx EXCEPT ![l] = next] /\ locks' = locks /\ teamMode' = teamMode
  BY Zenon DEF BeginHandler
<1>2. next.pc = "lock" /\ next.mode = teamMode
  OBVIOUS
<1> HIDE DEF next
<1>3. l \in Procs /\ Moves(l, next, locks[l])
  BY <1>1, ProcFacts DEF Moves, LocksInv
<1>4. ~Applying(l)
  BY <1>1 DEF Applying
<1>5. locks'[l] = {} /\ tx'[l] = next
  BY <1>1, <1>3, <1>4, WaitingFacts, Zenon DEF Moves
<1>6. HandlerLocks(l)'
  BY <1>2, <1>5, ModeFacts, Zenon DEF HandlerLocks
<1>7. \A a \in Accounts : l # Submission(a)
  BY ProcFacts, Zenon
<1> QED BY <1>1, <1>3, <1>6, <1>7, LocksStep, Zenon DEF LocksInv

\* A handler obtains the lock of its finished round first (_apply_round).
LEMMA ApplyLocks ==
  ASSUME LocksInv, NEW l \in Lanes, ApplyRound(l), setup' = setup
  PROVE  LocksInv'
<1> DEFINE h == tx[l]
           next == [pc |-> "select", at |-> 1, round |-> h.round, mode |-> h.mode,
                    points |-> Ranking(h.round, h.mode), rows |-> Empty,
                    wrote |-> [at \in 1 .. 4 |-> Empty]]
<1>1. h.pc = "lock" /\ Obtain(l, next) /\ teamMode' = teamMode
  BY Zenon DEF ApplyRound
<1>2. /\ next.pc = "select" /\ next.at = 1 /\ next.round = h.round /\ next.mode = h.mode
      /\ DOMAIN next = HandlerFields
  BY DEF HandlerFields
<1> HIDE DEF next
<1>3. l \in Procs
  BY ProcFacts, Zenon
<1>4. ~Applying(l) /\ h # Idle
  BY <1>1 DEF Applying, Idle
<1>5. locks[l] = {} /\ h.mode \in BOOLEAN
  BY <1>4, WaitingFacts, Zenon
<1>6. Moves(l, next, locks[l] \cup Want(l))
  BY <1>1, <1>3, ObtainMoves, Zenon
<1>7. tx'[l] = next /\ locks'[l] = {<<RoundRow(next.round), "update">>}
  BY <1>1, <1>2, <1>5, <1>6, WantFacts DEF Moves
<1>8. HandlerLocks(l)'
  <2>1. /\ Applying(l)' /\ next.at \in 1 .. 5 /\ next.pc # "commit" /\ next.at # 5
        /\ next.pc # "parent" /\ next.pc # "write"
    BY <1>2, <1>7 DEF Applying
  <2>2. \A k \in locks'[l] : MayHold(next, k)
    BY <1>7, Zenon DEF MayHold
  <2> QED BY <1>2, <1>5, <1>7, <2>1, <2>2, Zenon DEF HandlerLocks
<1>9. \A a \in Accounts : l # Submission(a)
  BY ProcFacts, Zenon
<1> QED BY <1>1, <1>3, <1>6, <1>8, <1>9, LocksStep, Zenon DEF LocksInv

\* The locks of the rows of a statement are those of a handler that has them.
LEMMA RowLocks ==
  ASSUME LocksInv, NEW l \in Lanes, tx[l].pc = "write", NEW c, c.mode = tx[l].mode,
         c.at = tx[l].at + 1 \/ (c.at = tx[l].at /\ tx[l].at \in {2, 4} /\ c.pc = "parent"),
         NEW k \in Want(l)
  PROVE  MayHold(c, k)
<1> DEFINE h == tx[l]
<1>1. Applying(l)
  BY DEF Applying
<1>2. h.at \in 1 .. 5 /\ h.at # 5 /\ DOMAIN h.rows \subseteq Scope(h)
  <2>1. h.pc # "commit"
    OBVIOUS
  <2> QED BY <1>1, <2>1, HandlerFacts, Zenon
<1>3. PICK s \in Scope(h) : k = <<TableRow(Table(Statement(l)), s), "update">>
  BY <1>2, WantFacts
<1>4. CASE h.at = 1
  <2>1. Table(Statement(l)) = "standing"
    BY <1>4, StatementFacts, StatementTables
  <2>2. s \in Subjects(~c.mode) /\ c.at > 1
    BY <1>3, <1>4 DEF Scope
  <2> QED BY <1>3, <2>1, <2>2, Zenon DEF MayHold
<1>5. CASE h.at = 2
  <2>1. Table(Statement(l)) = "standing"
    BY <1>5, StatementFacts, StatementTables
  <2>2. s \in Subjects(c.mode)
    BY <1>3, <1>5 DEF Scope
  <2>3. c.at > 2 \/ (c.at = 2 /\ c.pc = "parent")
    BY <1>5
  <2> QED BY <1>3, <2>1, <2>2, <2>3, Zenon DEF MayHold
<1>6. CASE h.at = 3
  <2>1. Table(Statement(l)) = "playlist"
    BY <1>6, StatementFacts, StatementTables
  <2>2. h.at # 1 /\ h.at # 2 /\ c.at > 3
    BY <1>6
  <2>3. s \in Subjects(FALSE)
    BY <1>3, <2>2, Zenon DEF Scope
  <2> QED BY <1>3, <2>1, <2>2, <2>3, Zenon DEF MayHold
<1>7. CASE h.at = 4
  <2>1. Table(Statement(l)) = "summary"
    BY <1>7, StatementFacts, StatementTables
  <2>4. h.at # 1 /\ h.at # 2
    BY <1>7
  <2>2. s \in Subjects(FALSE)
    BY <1>3, <2>4, Zenon DEF Scope
  <2>3. c.at > 4 \/ (c.at = 4 /\ c.pc = "parent")
    BY <1>7
  <2> QED BY <1>3, <2>1, <2>2, <2>3, Zenon DEF MayHold
<1> QED BY <1>2, <1>4, <1>5, <1>6, <1>7

\* The rows of a statement are in its scope.
LEMMA RowsInScope ==
  ASSUME NEW l, tx[l].at \in 1 .. 4
  PROVE  DOMAIN StatementRows(l) \subseteq Scope(tx[l])
<1>1. /\ DOMAIN ObsoleteStandings(l) \subseteq Subjects(~tx[l].mode)
      /\ DOMAIN StandingRows(l) \subseteq Subjects(tx[l].mode)
      /\ DOMAIN SummaryRows(l) \subseteq Subjects(FALSE)
  BY Zenon DEF ObsoleteStandings, StandingRows, SummaryRows, Participants
<1>2. /\ tx[l].at = 1 => StatementRows(l) = ObsoleteStandings(l)
      /\ tx[l].at = 2 => StatementRows(l) = StandingRows(l)
      /\ tx[l].at \in {3, 4} => StatementRows(l) = SummaryRows(l)
  BY StatementFacts DEF StatementRows
<1>3. tx[l].at = 1 \/ tx[l].at = 2 \/ (tx[l].at \in {3, 4} /\ tx[l].at # 1 /\ tx[l].at # 2)
  OBVIOUS
<1>4. tx[l].at = 2 => tx[l].at # 1
  OBVIOUS
<1> QED BY <1>1, <1>2, <1>3, <1>4, Zenon DEF Scope

\* A statement that starts locks nothing yet.
LEMMA SelectLocks ==
  ASSUME LocksInv, NEW l \in Lanes, Select(l), setup' = setup
  PROVE  LocksInv'
<1> DEFINE h == tx[l] rows == StatementRows(l)
           on == [h EXCEPT !.pc = "write", !.rows = rows]
           next == IF DOMAIN rows = {} THEN Continue(h, rows) ELSE on
<1>1. h.pc = "select" /\ tx' = [tx EXCEPT ![l] = next] /\ locks' = locks /\ teamMode' = teamMode
  BY Zenon DEF Select
<1>2. l \in Procs /\ (\A a \in Accounts : l # Submission(a)) /\ Applying(l)
  BY <1>1, ProcFacts, Zenon DEF Applying
<1>3. /\ DOMAIN h = HandlerFields /\ h.mode \in BOOLEAN /\ h.at \in 1 .. 5 /\ h.at # 5
      /\ <<RoundRow(h.round), "update">> \in locks[l]
      /\ \A k \in locks[l] : MayHold(h, k)
  <2>1. h.pc # "commit"
    BY <1>1
  <2> QED BY <1>2, <2>1, HandlerFacts, Zenon
<1>4. h.at \in 1 .. 4
  BY <1>3
<1>5. DOMAIN rows \subseteq Scope(h)
  BY <1>4, RowsInScope, Zenon
<1> HIDE DEF rows
<1>6. DOMAIN on = HandlerFields /\ on.pc = "write" /\ on.rows = rows /\ on.at = h.at
      /\ on.mode = h.mode /\ on.round = h.round
  BY <1>3 DEF HandlerFields
<1> HIDE DEF next, on
<1>7. Moves(l, next, locks[l])
  BY <1>1, <1>2 DEF Moves, LocksInv
<1>8. tx'[l] = next /\ locks'[l] = locks[l]
  BY <1>7, Zenon DEF Moves
<1>9. HandlerLocks(l)'
  <2>1. CASE DOMAIN rows = {}
    <3>1. tx'[l] = Continue(h, rows)
      BY <1>8, <2>1, Zenon DEF next
    <3> QED BY <1>2, <1>3, <1>4, <1>8, <3>1, ContinueLocks, Zenon
  <2>2. CASE DOMAIN rows # {}
    <3>1. tx'[l] = on
      BY <1>8, <2>2, Zenon DEF next
    <3>2. Scope(on) = Scope(h)
      BY <1>6, Zenon DEF Scope
    <3>3. \A k : MayHold(h, k) => MayHold(on, k)
      BY <1>4, <1>1, <1>6, AcquiredGrows
    <3>4. on.pc # "commit" /\ on.pc # "parent" /\ on.pc \in {"select", "write", "parent", "commit"}
      BY <1>6
    <3> QED BY <1>3, <1>5, <1>6, <1>8, <3>1, <3>2, <3>3, <3>4, Zenon DEF HandlerLocks, Applying
  <2> QED BY <2>1, <2>2, Zenon
<1> QED BY <1>1, <1>2, <1>7, <1>9, LocksStep, Zenon DEF LocksInv

\* A statement that writes holds the rows it is about, and those alone.
LEMMA WriteLocks ==
  ASSUME LocksInv, NEW l \in Lanes, Write(l), setup' = setup
  PROVE  LocksInv'
<1> DEFINE h == tx[l]
           on == [h EXCEPT !.pc = "parent"]
           inserts == DOMAIN tx[l].rows \ DOMAIN tables[Table(Statement(l))]
           next == IF inserts # {} /\ Parent[Statement(l)] # {} THEN on ELSE Continue(h, h.rows)
<1>1. h.pc = "write" /\ Obtain(l, next) /\ teamMode' = teamMode
  BY Zenon DEF Write
<1>2. l \in Procs /\ (\A a \in Accounts : l # Submission(a)) /\ Applying(l)
  BY <1>1, ProcFacts, Zenon DEF Applying
<1>3. /\ DOMAIN h = HandlerFields /\ h.mode \in BOOLEAN /\ h.at \in 1 .. 5 /\ h.at # 5
      /\ DOMAIN h.rows \subseteq Scope(h)
      /\ <<RoundRow(h.round), "update">> \in locks[l]
      /\ \A k \in locks[l] : MayHold(h, k)
  <2>1. h.pc # "commit"
    BY <1>1
  <2> QED BY <1>1, <1>2, <2>1, HandlerFacts, Zenon
<1>4. h.at \in 1 .. 4
  BY <1>3
<1>5. /\ DOMAIN on = HandlerFields /\ on.pc = "parent" /\ on.rows = h.rows /\ on.at = h.at
      /\ on.mode = h.mode /\ on.round = h.round
  BY <1>3 DEF HandlerFields
<1>6. Parent[Statement(l)] # {} => h.at \in {2, 4}
  BY <1>4, StatementFacts, StatementTables
<1> HIDE DEF next, on, inserts
<1>7. Moves(l, next, locks[l] \cup Want(l))
  BY <1>1, <1>2, ObtainMoves, Zenon
<1>8. tx'[l] = next /\ locks'[l] = locks[l] \cup Want(l)
  BY <1>7, Zenon DEF Moves
<1>9. HandlerLocks(l)'
  <2>1. CASE next = Continue(h, h.rows)
    <3> DEFINE c == Continue(h, h.rows)
    <3>1. c.mode = h.mode /\ c.at = h.at + 1
      BY <1>4, ContinueFacts, Zenon DEF Follows
    <3> HIDE DEF c
    <3>2. \A k \in Want(l) : MayHold(c, k)
      BY <1>1, <3>1, RowLocks
    <3>3. \A k \in locks'[l] : MayHold(h, k) \/ MayHold(c, k)
      BY <1>3, <1>8, <3>2, Zenon
    <3>4. tx'[l] = c /\ <<RoundRow(h.round), "update">> \in locks'[l]
      BY <1>3, <1>8, <2>1, Zenon DEF c
    <3> QED BY <1>2, <1>4, <3>3, <3>4, ContinueLocks, Zenon DEF c
  <2>2. CASE next = on /\ h.at \in {2, 4}
    <3>1. tx'[l] = on
      BY <1>8, <2>2, Zenon
    <3>2. Scope(on) = Scope(h)
      BY <1>5, Zenon DEF Scope
    <3>3. \A k : MayHold(h, k) => MayHold(on, k)
      BY <1>4, <1>1, <1>5, AcquiredGrows
    <3>4. \A k \in Want(l) : MayHold(on, k)
      BY <1>1, <1>5, <2>2, RowLocks
    <3>5. \A k \in locks'[l] : MayHold(on, k)
      BY <1>3, <1>8, <3>3, <3>4, Zenon
    <3>6. on.pc # "commit" /\ on.pc \in {"select", "write", "parent", "commit"}
      BY <1>5
    <3>7. <<RoundRow(on.round), "update">> \in locks'[l]
      BY <1>3, <1>5, <1>8, Zenon
    <3> QED BY <1>3, <1>5, <2>2, <3>1, <3>2, <3>5, <3>6, <3>7, Zenon DEF HandlerLocks, Applying
  <2> QED BY <1>6, <2>1, <2>2, Zenon DEF next
<1> QED BY <1>1, <1>2, <1>7, <1>9, LocksStep, Zenon DEF LocksInv

\* A statement that inserted shares the row its new rows refer to.
LEMMA ParentLocks ==
  ASSUME LocksInv, NEW l \in Lanes, LockParent(l), setup' = setup
  PROVE  LocksInv'
<1> DEFINE h == tx[l] c == Continue(h, h.rows)
<1>1. h.pc = "parent" /\ Obtain(l, c) /\ teamMode' = teamMode
  BY Zenon DEF LockParent
<1>2. l \in Procs /\ (\A a \in Accounts : l # Submission(a)) /\ Applying(l)
  BY <1>1, ProcFacts, Zenon DEF Applying
<1>3. /\ h.at \in {2, 4} /\ <<RoundRow(h.round), "update">> \in locks[l]
      /\ \A k \in locks[l] : MayHold(h, k)
  BY <1>1, <1>2, HandlerFacts, Zenon
<1>4. h.at \in 1 .. 4
  BY <1>3
<1>5. c.at = h.at + 1
  BY <1>4, ContinueFacts, Zenon DEF Follows
<1>6. Moves(l, c, locks[l] \cup Want(l))
  BY <1>1, <1>2, ObtainMoves, Zenon
<1> HIDE DEF c
<1>7. tx'[l] = c /\ locks'[l] = locks[l] \cup Want(l)
  BY <1>6, Zenon DEF Moves
<1>8. \A k \in Want(l) : MayHold(c, k)
  <2>1. CASE h.at = 2
    <3>1. Want(l) = {<<SessionRow, "share">>} /\ c.at > 2
      BY <1>1, <1>5, <2>1, WantFacts, StatementFacts, StatementTables
    <3> QED BY <3>1, Zenon DEF MayHold
  <2>2. CASE h.at = 4
    <3>1. Want(l) = {<<RoomRow, "share">>} /\ c.at > 4
      BY <1>1, <1>5, <2>2, WantFacts, StatementFacts, StatementTables
    <3> QED BY <3>1, Zenon DEF MayHold
  <2> QED BY <1>3, <2>1, <2>2
<1>9. HandlerLocks(l)'
  <2>1. \A k \in locks'[l] : MayHold(h, k) \/ MayHold(c, k)
    BY <1>3, <1>7, <1>8, Zenon
  <2>2. tx'[l] = c /\ <<RoundRow(h.round), "update">> \in locks'[l]
    BY <1>3, <1>7, Zenon
  <2> QED BY <1>2, <1>4, <2>1, <2>2, ContinueLocks, Zenon DEF c
<1> QED BY <1>1, <1>2, <1>6, <1>9, LocksStep, Zenon DEF LocksInv

-----------------------------------------------------------------------------
(* The locks stay as the order of the statements gives them. *)

\* The setup is a setup at the start, and nothing is locked.
LEMMA LocksStart == Init => LocksInv
<1> SUFFICES ASSUME Init PROVE LocksInv
  OBVIOUS
<1>1. \A p \in Procs : tx[p] = Idle /\ locks[p] = {}
  BY DEF Init
<1>2. \A l \in Lanes : HandlerLocks(l)
  BY <1>1, ProcFacts, Zenon DEF HandlerLocks
<1>3. \A a \in Accounts : SubmissionLocks(a)
  BY <1>1, ProcFacts, Zenon DEF SubmissionLocks
<1>4. DOMAIN tx = Procs /\ DOMAIN locks = Procs /\ setup \in Setups /\ teamMode \in setup.modes
  BY DEF Init
<1> QED BY <1>2, <1>3, <1>4, Zenon DEF LocksInv

\* The steps of a room command leave the other transactions alone.
LEMMA CommandLocks ==
  ASSUME LocksInv, CommandStep, setup' = setup
  PROVE  LocksInv'
<1>1. Command \in Procs /\ Command \notin Lanes /\ \A a \in Accounts : Command # Submission(a)
  BY ProcFacts, Zenon
<1>2. ASSUME NEW next, NEW held, Moves(Command, next, held), teamMode' \in setup.modes
      PROVE  LocksInv'
  BY <1>1, <1>2, LocksStep, Zenon
<1>3. ASSUME NEW next, Obtain(Command, next), teamMode' \in setup.modes
      PROVE  LocksInv'
  BY <1>1, <1>2, <1>3, ObtainMoves, Zenon
<1>4. ASSUME EndTx(Command), teamMode' \in setup.modes
      PROVE  LocksInv'
  BY <1>1, <1>4, EndLocks, Zenon
<1>5. ASSUME NEW next, NEW held, tx' = [tx EXCEPT ![Command] = next],
             locks' = [locks EXCEPT ![Command] = held], teamMode' \in setup.modes
      PROVE  LocksInv'
  <2>1. Moves(Command, next, held)
    BY <1>1, <1>5 DEF Moves, LocksInv
  <2> QED BY <1>2, <1>5, <2>1, Zenon
<1>6. teamMode \in setup.modes
  BY Zenon DEF LocksInv
<1>7. CASE LockRoom
  BY <1>5, <1>6, <1>7, Zenon DEF LockRoom
<1>8. CASE \E r \in setup.rounds, players \in (SUBSET setup.accounts) \ {{}} : StartRound(r, players)
  BY <1>4, <1>6, <1>8, Zenon DEF StartRound
<1>9. CASE \E mode \in setup.modes : UpdateSettings(mode)
  BY <1>4, <1>9, Zenon DEF UpdateSettings
<1>10. CASE FindActiveRound
  BY <1>3, <1>6, <1>10, Zenon DEF FindActiveRound
<1>11. CASE \E r \in Rounds, status \in {"completed", "aborted"} : CompleteRound(r, status)
  BY <1>4, <1>6, <1>11, Zenon DEF CompleteRound
<1>12. CASE \E r \in Rounds : CloseRoom(r)
  BY <1>5, <1>6, <1>12, Zenon DEF CloseRoom
<1>13. CASE CloseIdleRoom
  BY <1>5, <1>6, <1>13, Zenon DEF CloseIdleRoom
<1> QED BY <1>7, <1>8, <1>9, <1>10, <1>11, <1>12, <1>13, Zenon DEF CommandStep

\* A submission locks its round and then, as it commits, nothing more.
LEMMA SubmissionStepLocks ==
  ASSUME LocksInv, NEW a \in Accounts, SubmissionStep(a), setup' = setup
  PROVE  LocksInv'
<1>1. Submission(a) \in Procs /\ Submission(a) \notin Lanes
  BY ProcFacts, Zenon
<1>2. teamMode \in setup.modes
  BY Zenon DEF LocksInv
<1>3. CASE BindScore(a)
  BY <1>1, <1>2, <1>3, EndLocks, Zenon DEF BindScore
<1>4. ASSUME NEW r \in Rounds, LockForScore(a, r) PROVE LocksInv'
  <2> DEFINE next == [pc |-> "session", round |-> r] held == {<<RoundRow(r), "update">>}
  <2>1. /\ tx' = [tx EXCEPT ![Submission(a)] = next] /\ locks' = [locks EXCEPT ![Submission(a)] = held]
        /\ teamMode' = teamMode
    BY <1>4, Zenon DEF LockForScore
  <2>2. next.pc = "session" /\ next.round = r
    OBVIOUS
  <2> HIDE DEF next
  <2>3. Moves(Submission(a), next, held)
    BY <1>1, <2>1 DEF Moves, LocksInv
  <2>4. SubmissionLocks(a)'
    BY <2>2, <2>3, Zenon DEF SubmissionLocks, Moves
  <2>5. \A b \in Accounts : Submission(a) = Submission(b) => SubmissionLocks(b)'
    BY <2>4, ProcFacts, Zenon
  <2> QED BY <1>1, <1>2, <2>1, <2>3, <2>5, LocksStep, Zenon
<1> QED BY <1>3, <1>4, Zenon DEF SubmissionStep

\* Every step keeps them.
LEMMA LocksNext == LocksInv /\ [Next]_vars => LocksInv'
<1> SUFFICES ASSUME LocksInv, [Next]_vars PROVE LocksInv'
  OBVIOUS
<1>1. CASE UNCHANGED vars
  BY <1>1, Zenon DEF vars, LocksInv, HandlerLocks, SubmissionLocks, Applying
<1>2. CASE Next
  <2>1. setup' = setup /\ teamMode \in setup.modes
    BY <1>2, Zenon DEF Next, LocksInv
  <2>2. CASE CommandStep
    BY <2>1, <2>2, CommandLocks, Zenon
  <2>3. CASE \E a \in Accounts : SubmissionStep(a)
    BY <2>1, <2>3, SubmissionStepLocks, Zenon
  <2>4. ASSUME NEW l \in Lanes, HandlerStep(l) PROVE LocksInv'
    <3>1. l \in Procs
      BY ProcFacts, Zenon
    <3>2. CASE SkipRound(l) \/ CommitHandler(l)
      BY <2>1, <3>1, <3>2, EndLocks, Zenon DEF SkipRound, CommitHandler
    <3> QED BY <2>1, <2>4, <3>2, BeginLocks, ApplyLocks, SelectLocks, WriteLocks, ParentLocks, Zenon
            DEF HandlerStep
  <2>5. ASSUME NEW p \in Procs, Abort(p) PROVE LocksInv'
    BY <2>1, <2>5, EndLocks, Zenon DEF Abort
  <2>6. CASE Abort(Command)
    BY <2>5, <2>6, ProcFacts, Zenon
  <2>7. CASE AbortVictim
    <3>1. \E p \in Procs : Abort(p)
      BY <2>7 DEF AbortVictim
    <3> QED BY <2>5, <3>1, Zenon
  <2> QED BY <1>2, <2>2, <2>3, <2>4, <2>5, <2>6, <2>7, Zenon DEF Next
<1> QED BY <1>1, <1>2

-----------------------------------------------------------------------------
(* Circular waits. *)

INSTANCE FiniteSetTheorems

\* A bounded set of numbers with a member has a largest one.
LEMMA Furthest ==
  ASSUME NEW X \in SUBSET Nat, NEW b \in Nat, \A x \in X : x <= b, NEW y \in X
  PROVE  \E t \in X : \A u \in X : u <= t
<1> DEFINE gaps == {b - x : x \in X}
<1>6. b - y \in gaps
  OBVIOUS
<1>7. gaps \subseteq Nat
  OBVIOUS
<1>1. gaps \subseteq Nat /\ gaps # {}
  <2> HIDE DEF gaps
  <2> QED BY <1>6, <1>7, Zenon
<1>2. PICK R : IsWellFoundedOn(R, Nat) /\ \A m, n \in Nat : m < n => <<m, n>> \in R
  <2>1. \A m, n \in Nat : m < n => <<m, n>> \in OpToRel(<, Nat)
    BY DEF OpToRel
  <2>2. \E R : IsWellFoundedOn(R, Nat) /\ \A m, n \in Nat : m < n => <<m, n>> \in R
    BY <2>1, NatLessThanWellFounded, Zenon
  <2> QED BY <2>2
<1>3. PICK g \in gaps : \A d \in gaps : ~(<<d, g>> \in R)
  <2>1. IsWellFoundedOn(R, Nat)
    BY <1>2
  <2> HIDE DEF gaps
  <2> QED BY <1>1, <2>1, WFMin, Zenon
<1>4. PICK t \in X : g = b - t
  OBVIOUS
<1>5. ASSUME NEW u \in X PROVE u <= t
  <2>1. b - u \in gaps /\ b - u \in Nat /\ g \in Nat
    OBVIOUS
  <2>2. ~(b - u < g)
    BY <1>2, <1>3, <2>1, Zenon
  <2> QED BY <1>4, <2>1, <2>2
<1> QED BY <1>5, Zenon

\* Without a command and with one mode, the transaction that is furthest in the
\* order of the locks waits for no other.
LEMMA NoCircle ==
  ASSUME LocksInv
  PROVE  CircularWaitNeedsCommand
<1> SUFFICES ASSUME NEW S \in SUBSET {p \in Procs \ {Command} : WaitsFor(p) # {}}, S # {},
                    \A l, k \in S \cap Lanes : tx[l].mode = tx[k].mode,
                    \A p \in S : WaitsFor(p) \cap S # {}
             PROVE  FALSE
  BY Zenon DEF CircularWaitNeedsCommand
<1>1. ASSUME NEW p \in S
      PROVE  /\ \E q \in S : Rank(p) < Rank(q)
             /\ Rank(p) \in 0 .. 11
  <2>1. PICK q \in S : q \in WaitsFor(p)
    BY Zenon
  <2>2. p \in Procs \ {Command} /\ q \in Procs \ {Command}
    BY Zenon
  <2>3. p \in Lanes /\ q \in Lanes => tx[p].mode = tx[q].mode
    BY Zenon
  <2>4. Rank(p) < Rank(q) /\ Rank(p) \in 0 .. 11
    BY <2>1, <2>2, <2>3, WaitsForLater, Zenon
  <2> QED BY <2>4, Zenon
<1> DEFINE ranks == {Rank(p) : p \in S}
<1>7. PICK r : r \in ranks
  <2>1. PICK p : p \in S
    BY Zenon
  <2>2. Rank(p) \in ranks
    BY <2>1
  <2> QED BY <2>2
<1>2. ranks \in SUBSET Nat /\ \A x \in ranks : x <= 11
  <2>1. \A p \in S : Rank(p) \in 0 .. 11
    BY <1>1, Zenon
  <2> HIDE DEF Rank
  <2>2. \A p \in S : Rank(p) \in Nat /\ Rank(p) <= 11
    BY <2>1
  <2> QED BY <2>2, Zenon
<1> HIDE DEF ranks
<1>3. PICK t \in ranks : \A u \in ranks : u <= t
  BY <1>2, <1>7, Furthest
<1>4. PICK p \in S : t = Rank(p)
  BY DEF ranks
<1>5. PICK q \in S : Rank(p) < Rank(q)
  BY <1>1, Zenon
<1>6. Rank(q) <= Rank(p) /\ Rank(p) \in Nat /\ Rank(q) \in Nat
  BY <1>1, <1>3, <1>4 DEF ranks
<1> QED BY <1>5, <1>6

\* In every reachable state, for any number of accounts and rounds and whatever
\* scores are bound: a circular wait between transactions involves a room
\* command, or handlers that read different modes (the lock order of
\* lock_round, _apply_round and the statements of consumers/multiplayer.py).
THEOREM NoCircularWaits == Spec => []CircularWaitNeedsCommand
<1>1. LocksInv => CircularWaitNeedsCommand
  BY NoCircle
<1> QED BY <1>1, LocksStart, LocksNext, PTL DEF Spec

-----------------------------------------------------------------------------
(* What the projections rest on. *)

\* All rounds of the session are one.
Alone == \A r, q \in setup.rounds : r = q

\* Every row of rows belongs to keys and holds one of values.
Within(rows, keys, values) ==
  DOMAIN rows \subseteq keys /\ \A s \in DOMAIN rows : rows[s] \in values

Started(r) == round[r].status # "absent"

RoundFields == {"status", "players", "mode"}

\* A round has the players it started with, and scores of theirs only.
RoundInv(r) ==
  /\ DOMAIN round[r] = RoundFields
  /\ round[r].status \in {"absent", "in_progress", "completed", "aborted"}
  /\ Players(r) \subseteq Accounts /\ scored[r] \subseteq Players(r)
  /\ ~Started(r) => Players(r) = {}
  /\ r \notin setup.rounds => ~Started(r)

\* Events and submissions are about rounds that started.
RoundsInv ==
  /\ DOMAIN round = Rounds /\ DOMAIN scored = Rounds /\ DOMAIN result = Rounds /\ DOMAIN log = Lanes
  /\ \A r \in Rounds : RoundInv(r)
  /\ \A l \in Lanes : log[l] \in Seq(Rounds) /\ \A i \in DOMAIN log[l] : Started(log[l][i])
  /\ \A a \in Accounts : tx[Submission(a)].pc # "idle" => a \in Players(tx[Submission(a)].round)

\* Two transactions never hold the row of one round.
ExclusionInv ==
  \A r \in Rounds : \A p, q \in Procs :
    <<RoundRow(r), "update">> \in locks[p] /\ <<RoundRow(r), "update">> \in locks[q] => p = q

Summary(rows) == Within(rows, Subjects(FALSE), SUBSET Rounds)
Standings(rows) == Within(rows, AllSubjects, 0 .. MaxTotal)
Points(rows) == Within(rows, AllSubjects, 1 .. Cardinality(AllSubjects))
Counted == [s \in Participants(FALSE) |-> Completions(s)]

\* The rows a handler has read: of a session of one round they are current.
ReadRows(at, rows) ==
  /\ at = 2 => Standings(rows)
  /\ at \in {3, 4} => Summary(rows) /\ (Alone => rows = Counted)

\* A handler works on the first event of its lane and on a finished round, and
\* what it has read of that round is still so.
HandlerInv(l) ==
  /\ tx[l].pc # "idle" => log[l] # <<>> /\ tx[l].round = Head(log[l]) /\ tx[l].mode \in setup.modes
  /\ Applying(l) =>
       /\ Finished(tx[l].round) /\ tx[l].points = Ranking(tx[l].round, tx[l].mode)
       /\ DOMAIN tx[l].wrote = 1 .. 4
       /\ \A at \in 1 .. 4 : at < tx[l].at => ReadRows(at, tx[l].wrote[at])
       /\ tx[l].pc \in {"write", "parent"} => ReadRows(tx[l].at, tx[l].rows)

\* The tables hold rows of their kinds.
TablesInv ==
  /\ DOMAIN tables = {"standing", "playlist", "summary"}
  /\ Standings(tables.standing) /\ Summary(tables.playlist) /\ Summary(tables.summary)
  /\ \A r \in Rounds : Points(result[r])

\* A summary counts what is known of the only round.
SummaryInv(rows) ==
  /\ DOMAIN rows \subseteq Participants(FALSE)
  /\ (\A r \in Rounds : ~Finished(r)) => DOMAIN rows = {}
  /\ Quiet => \A s \in DOMAIN rows : rows[s] = Completions(s)

\* What is not current is still announced.
CurrentInv ==
  /\ \A r \in Rounds :
       /\ ~Finished(r) => result[r] = Empty
       /\ Finished(r) /\ QuietRound(r) => \E team \in setup.modes : result[r] = Ranking(r, team)
  /\ Alone => SummaryInv(tables.playlist) /\ SummaryInv(tables.summary)

ResultsInv ==
  /\ LocksInv /\ RoundsInv /\ ExclusionInv /\ TablesInv /\ CurrentInv
  /\ \A l \in Lanes : HandlerInv(l)

\* A ranking depends on nothing but the round and its scores.
LEMMA RankingKept ==
  ASSUME NEW r, round'[r] = round[r], scored'[r] = scored[r]
  PROVE  \A team : Ranking(r, team)' = Ranking(r, team)
<1> SUFFICES ASSUME NEW team PROVE Ranking(r, team)' = Ranking(r, team)
  OBVIOUS
<1>1. \A s : Scorers(r, team, s)' = Scorers(r, team, s)
  BY Zenon DEF Scorers
<1>2. \A s : SubjectMetric(r, team, s)' = SubjectMetric(r, team, s)
  BY <1>1, Zenon DEF SubjectMetric
<1>3. Present(r, team)' = Present(r, team)
  BY <1>1 DEF Present
<1>4. \A s : UpTo(r, team, s)' = UpTo(r, team, s)
  BY <1>2, <1>3 DEF UpTo
<1> QED BY <1>3, <1>4, Zenon DEF Ranking

\* Nobody is ranked in a round that was not completed.
LEMMA NoRanking ==
  ASSUME NEW r, round'[r].status # "completed"
  PROVE  \A team : Ranking(r, team)' = Empty
<1>1. \A team : Present(r, team)' = {}
  BY DEF Present
<1> QED BY <1>1 DEF Ranking, Empty

\* The subjects are finitely many.
LEMMA SubjectsFinite == IsFiniteSet(AllSubjects) /\ Cardinality(AllSubjects) \in Nat
<1>1. \A team \in BOOLEAN : IsFiniteSet(Subjects(team))
  <2> SUFFICES ASSUME NEW team \in BOOLEAN PROVE IsFiniteSet(Subjects(team))
    OBVIOUS
  <2> DEFINE ids == IF team THEN 1 .. 2 ELSE Accounts
             kind == IF team THEN "team" ELSE "account"
  <2>1. IsFiniteSet(ids)
    <3>1. 1 \in Int /\ 2 \in Int
      OBVIOUS
    <3>2. IsFiniteSet(1 .. 2)
      BY <3>1, FS_Interval, Zenon
    <3> QED BY <3>2, AccountsAssumption, Zenon
  <2>2. Subjects(team) \subseteq {kind} \X ids
    BY DEF Subjects, Subject
  <2> HIDE DEF ids, kind
  <2>3. IsFiniteSet({kind} \X ids)
    BY <2>1, FS_Singleton, FS_Product, Zenon
  <2> QED BY <2>2, <2>3, FS_Subset, Zenon
<1>2. IsFiniteSet(AllSubjects)
  BY <1>1, FS_Union, Zenon DEF AllSubjects
<1> QED BY <1>2, FS_CardinalityType

\* Points are positive, and at most the number of subjects.
LEMMA RankingPoints ==
  ASSUME NEW r, NEW team \in BOOLEAN
  PROVE  Points(Ranking(r, team))
<1>1. Subjects(team) \subseteq AllSubjects
  BY Zenon DEF AllSubjects
<1>2. ASSUME NEW s \in Present(r, team)
      PROVE  Cardinality(UpTo(r, team, s)) \in 1 .. Cardinality(AllSubjects)
  <2> DEFINE up == UpTo(r, team, s)
  <2>1. up \subseteq AllSubjects
    BY <1>1 DEF UpTo, Present
  <2>2. s \in up
    <3>1. s[2] \in Nat
      BY AccountsAssumption DEF Present, Subjects, Subject
    <3>2. s[2] >= s[2]
      BY <3>1
    <3> QED BY <3>2, Zenon DEF UpTo
  <2> HIDE DEF up
  <2>3. IsFiniteSet(up) /\ Cardinality(up) <= Cardinality(AllSubjects) /\ Cardinality(up) \in Nat
    BY <2>1, SubjectsFinite, FS_Subset, FS_CardinalityType, Zenon
  <2>4. Cardinality(up) # 0
    BY <2>2, <2>3, FS_EmptySet, Zenon
  <2>5. Cardinality(up) \in 1 .. Cardinality(AllSubjects)
    BY <2>3, <2>4, SubjectsFinite
  <2> QED BY <2>5 DEF up
<1>3. DOMAIN Ranking(r, team) = Present(r, team)
      /\ \A s \in Present(r, team) : Ranking(r, team)[s] = Cardinality(UpTo(r, team, s))
  BY DEF Ranking
<1>4. Present(r, team) \subseteq Subjects(team)
  BY DEF Present
<1> QED BY <1>1, <1>2, <1>3, <1>4, Zenon DEF Points, Within

\* A total is at most what all rounds can give.
LEMMA TotalBounds ==
  ASSUME NEW res, NEW s
  PROVE  Total(res, s) \in 0 .. MaxTotal
<1> DEFINE all == Rounds \X (1 .. Cardinality(AllSubjects))
           some == {x \in all : s \in DOMAIN res[x[1]] /\ x[2] <= res[x[1]][s]}
<1>1. /\ IsFiniteSet(1 .. Cardinality(AllSubjects))
      /\ Cardinality(1 .. Cardinality(AllSubjects)) = Cardinality(AllSubjects)
  BY SubjectsFinite, FS_Interval
<1>2. IsFiniteSet(all) /\ Cardinality(all) = MaxTotal
  BY <1>1, RoundsAssumption, FS_Product, Zenon DEF MaxTotal
<1>3. some \subseteq all
  BY Zenon
<1>4. Total(res, s) = Cardinality(some)
  BY Zenon DEF Total
<1> HIDE DEF all, some
<1>5. Cardinality(some) <= Cardinality(all) /\ Cardinality(some) \in Nat /\ Cardinality(all) \in Nat
  BY <1>2, <1>3, FS_Subset, FS_CardinalityType
<1> QED BY <1>2, <1>4, <1>5

\* What a handler finds to write has the types of its tables.
LEMMA RowTypes ==
  ASSUME RoundsInv, NEW l
  PROVE  Summary(Counted) /\ (tx[l].mode \in BOOLEAN => Standings(StandingRows(l)))
<1>1. \A team \in BOOLEAN : Participants(team) \subseteq AllSubjects
  BY Zenon DEF Participants, AllSubjects
<1>2. Participants(FALSE) \subseteq Subjects(FALSE) /\ \A s : Completions(s) \subseteq Rounds
  BY Zenon DEF Participants, Completions
<1>3. Summary(Counted)
  BY <1>2, Zenon DEF Summary, Within, Counted
<1>4. ASSUME tx[l].mode \in BOOLEAN PROVE Standings(StandingRows(l))
  BY <1>1, <1>4, TotalBounds, Zenon DEF Standings, Within, StandingRows
<1> QED BY <1>3, <1>4, Zenon

-----------------------------------------------------------------------------
(* Rounds, events and the locks on rounds. *)

\* Two transactions do not come to hold one round.
LEMMA ExclusionStep ==
  ASSUME ExclusionInv, NEW p \in Procs, NEW next, NEW held, Moves(p, next, held),
         \A r \in Rounds : <<RoundRow(r), "update">> \in held =>
           \A q \in Procs \ {p} : <<RoundRow(r), "update">> \notin locks[q]
  PROVE  ExclusionInv'
<1> SUFFICES ASSUME NEW r \in Rounds, NEW u \in Procs, NEW v \in Procs,
                    <<RoundRow(r), "update">> \in locks'[u], <<RoundRow(r), "update">> \in locks'[v]
             PROVE  u = v
  BY Zenon DEF ExclusionInv, RoundRow
<1>1. CASE u = p /\ v # p
  BY <1>1, Zenon DEF Moves
<1>2. CASE u # p /\ v = p
  BY <1>2, Zenon DEF Moves
<1>3. CASE u # p /\ v # p
  BY <1>3, Zenon DEF Moves, ExclusionInv
<1> QED BY <1>1, <1>2, <1>3

\* A lock on a round that was asked for, and not waited for, is held by nobody.
LEMMA NoBlockers ==
  ASSUME NEW p, NEW wanted, Blockers(p, wanted) = {}, NEW r, <<RoundRow(r), "update">> \in wanted,
         NEW q \in Procs \ {p}
  PROVE  <<RoundRow(r), "update">> \notin locks[q]
<1> DEFINE k == <<RoundRow(r), "update">>
<1>1. "update" \in {k[2], k[2]}
  OBVIOUS
<1> HIDE DEF k
<1>2. k \notin locks[q]
  BY <1>1, Zenon DEF Blockers, k
<1> QED BY <1>2, Zenon DEF k

\* A transaction that obtains its locks, or ends.
LEMMA ExclusionObtain ==
  ASSUME LocksInv, ExclusionInv, NEW p \in Procs, NEW next, Obtain(p, next)
  PROVE  ExclusionInv'
<1>1. Moves(p, next, locks[p] \cup Want(p)) /\ Blockers(p, Want(p)) = {}
  BY ObtainMoves, Zenon DEF WaitsFor
<1>2. ASSUME NEW r \in Rounds, <<RoundRow(r), "update">> \in locks[p] \cup Want(p), NEW q \in Procs \ {p}
      PROVE  <<RoundRow(r), "update">> \notin locks[q]
  <2>1. CASE <<RoundRow(r), "update">> \in locks[p]
    BY <1>2, <2>1, Zenon DEF ExclusionInv
  <2>2. CASE <<RoundRow(r), "update">> \in Want(p)
    BY <1>1, <1>2, <2>2, NoBlockers, Zenon
  <2> QED BY <1>2, <2>1, <2>2, Zenon
<1> QED BY <1>1, <1>2, ExclusionStep, Zenon

\* A transaction that ends leaves no round locked twice.
LEMMA ExclusionEnd ==
  ASSUME LocksInv, ExclusionInv, NEW p \in Procs, EndTx(p)
  PROVE  ExclusionInv'
<1> DEFINE none == {}
<1>1. Moves(p, Idle, none)
  BY EndMoves
<1>2. \A r \in Rounds : <<RoundRow(r), "update">> \notin none
  OBVIOUS
<1> HIDE DEF none
<1> QED BY <1>1, <1>2, ExclusionStep, Zenon

-----------------------------------------------------------------------------
(* Steps that change no row of a table. *)

Frozen == UNCHANGED <<round, scored, log, result, tables>>

\* What is counted depends on nothing but the rounds and their scores.
LEMMA CountsKept ==
  ASSUME round' = round, scored' = scored
  PROVE  /\ \A team : Participants(team)' = Participants(team)
         /\ \A s : Completions(s)' = Completions(s)
         /\ Counted' = Counted
<1>1. \A team : Participants(team)' = Participants(team)
  BY Zenon DEF Participants, Players
<1>2. \A s : Completions(s)' = Completions(s)
  BY Zenon DEF Completions
<1> QED BY <1>1, <1>2, Zenon DEF Counted

\* What a summary says stays true.
LEMMA SummaryKept ==
  ASSUME Frozen
  PROVE  \A rows : SummaryInv(rows) => SummaryInv(rows)'
<1>1. round' = round /\ scored' = scored /\ log' = log
  BY Zenon DEF Frozen
<1>2. (\A r : Finished(r)' <=> Finished(r)) /\ (Quiet' <=> Quiet)
  BY <1>1, Zenon DEF Finished, Quiet, QuietRound
<1> QED BY <1>1, <1>2, CountsKept, Zenon DEF SummaryInv

\* Projections that nobody writes stay current while nothing is announced.
LEMMA FrozenCurrent ==
  ASSUME Frozen, setup' = setup, TablesInv, CurrentInv
  PROVE  TablesInv' /\ CurrentInv'
<1>1. /\ round' = round /\ scored' = scored /\ log' = log /\ result' = result /\ tables' = tables
  BY Zenon DEF Frozen
<1>2. TablesInv'
  BY <1>1, Zenon DEF TablesInv
<1>3. Alone' <=> Alone
  BY Zenon DEF Alone
<1>4. Alone => SummaryInv(tables.playlist)' /\ SummaryInv(tables.summary)'
  BY <1>1, SummaryKept, Zenon DEF CurrentInv
<1>5. \A r : \A team : Ranking(r, team)' = Ranking(r, team)
  BY <1>1, RankingKept, Zenon
<1>6. ASSUME NEW r \in Rounds
      PROVE  /\ ~Finished(r)' => result'[r] = Empty
             /\ Finished(r)' /\ QuietRound(r)' => \E team \in setup.modes : result'[r] = Ranking(r, team)'
  <2>1. (Finished(r)' <=> Finished(r)) /\ (QuietRound(r)' <=> QuietRound(r))
    BY <1>1, Zenon DEF Finished, QuietRound
  <2> QED BY <1>1, <1>5, <2>1, Zenon DEF CurrentInv
<1> QED BY <1>2, <1>3, <1>4, <1>6, Zenon DEF CurrentInv

\* Rounds and events that nobody writes stay as they are, if submissions have players.
LEMMA FrozenRounds ==
  ASSUME RoundsInv, Frozen, setup' = setup,
         \A a \in Accounts : tx'[Submission(a)].pc # "idle" => a \in Players(tx'[Submission(a)].round)
  PROVE  RoundsInv'
<1>1. /\ round' = round /\ scored' = scored /\ log' = log /\ result' = result
  BY Zenon DEF Frozen
<1>2. \A r : (RoundInv(r)' <=> RoundInv(r)) /\ (Started(r)' <=> Started(r)) /\ Players(r)' = Players(r)
  BY <1>1, Zenon DEF RoundInv, Started, Players
<1> QED BY <1>1, <1>2, Zenon DEF RoundsInv, Players, Started

\* What a handler of round r has read of it stays so.
Steadfast(r) ==
  /\ round'[r] = round[r] /\ scored'[r] = scored[r]
  /\ Alone => round' = round /\ scored' = scored

\* Rows read of a steadfast round are still those that would be read.
LEMMA ReadsKept ==
  ASSUME setup' = setup, NEW r, Steadfast(r)
  PROVE  \A at, rows : ReadRows(at, rows) => ReadRows(at, rows)'
<1>1. Alone' <=> Alone
  BY Zenon DEF Alone
<1>2. Alone => Counted' = Counted
  BY CountsKept, Zenon DEF Steadfast
<1> QED BY <1>1, <1>2, Zenon DEF ReadRows

\* A handler that does not step still works on what it has read.
LEMMA HandlerKept ==
  ASSUME NEW l \in Lanes, HandlerInv(l), setup' = setup, tx'[l] = tx[l],
         tx[l].pc # "idle" => log'[l] # <<>> /\ Head(log'[l]) = Head(log[l]),
         Applying(l) => Steadfast(tx[l].round)
  PROVE  HandlerInv(l)'
<1>1. Applying(l)' <=> Applying(l)
  BY Zenon DEF Applying
<1>2. CASE ~Applying(l)
  BY <1>1, <1>2, Zenon DEF HandlerInv
<1>3. CASE Applying(l)
  <2>1. \A at, rows : ReadRows(at, rows) => ReadRows(at, rows)'
    BY <1>3, ReadsKept, Zenon
  <2>2. \A team : Ranking(tx[l].round, team)' = Ranking(tx[l].round, team)
    BY <1>3, RankingKept DEF Steadfast
  <2>3. Finished(tx[l].round) /\ round'[tx[l].round] = round[tx[l].round]
    BY <1>3, Zenon DEF HandlerInv, Steadfast
  <2> QED BY <1>1, <1>3, <2>1, <2>2, <2>3, Zenon DEF HandlerInv, Finished
<1> QED BY <1>2, <1>3, Zenon

\* A step that changes no row of a table, if its own process goes on well.
LEMMA FrozenStep ==
  ASSUME ResultsInv, LocksInv', ExclusionInv', setup' = setup, Frozen,
         NEW p \in Procs, NEW next, NEW held, Moves(p, next, held),
         p \in Lanes => HandlerInv(p)',
         \A a \in Accounts : p = Submission(a) /\ next.pc # "idle" => a \in Players(next.round)
  PROVE  ResultsInv'
<1>1. TablesInv' /\ CurrentInv'
  BY FrozenCurrent, Zenon DEF ResultsInv
<1>2. RoundsInv'
  <2>1. ASSUME NEW a \in Accounts, tx'[Submission(a)].pc # "idle"
        PROVE  a \in Players(tx'[Submission(a)].round)
    <3>1. CASE p = Submission(a)
      BY <2>1, <3>1, Zenon DEF Moves
    <3>2. CASE p # Submission(a)
      <4>1. tx'[Submission(a)] = tx[Submission(a)]
        BY <3>2, ProcFacts, Zenon DEF Moves
      <4> QED BY <2>1, <4>1, Zenon DEF ResultsInv, RoundsInv
    <3> QED BY <3>1, <3>2
  <2> QED BY <2>1, FrozenRounds, Zenon DEF ResultsInv
<1>3. ASSUME NEW l \in Lanes PROVE HandlerInv(l)'
  <2>1. CASE l = p
    BY <2>1, Zenon
  <2>2. CASE l # p
    <3>1. tx'[l] = tx[l] /\ log' = log
      BY <2>2, ProcFacts, Zenon DEF Moves, Frozen
    <3>2. HandlerInv(l) /\ Steadfast(tx[l].round)
      BY Zenon DEF ResultsInv, Steadfast, Frozen
    <3>3. tx[l].pc # "idle" => log'[l] # <<>> /\ Head(log'[l]) = Head(log[l])
      BY <3>1, <3>2, Zenon DEF HandlerInv
    <3> QED BY <3>1, <3>2, <3>3, HandlerKept, Zenon
  <2> QED BY <2>1, <2>2
<1> QED BY <1>1, <1>2, <1>3, Zenon DEF ResultsInv

\* A transaction that is rolled back leaves its event to a retry.
LEMMA AbortResults ==
  ASSUME ResultsInv, LocksInv', setup' = setup, NEW p \in Procs, EndTx(p), Frozen
  PROVE  ResultsInv'
<1>1. Moves(p, Idle, {}) /\ Idle.pc = "idle"
  BY EndMoves DEF ResultsInv, Idle
<1>2. ExclusionInv'
  BY ExclusionEnd, Zenon DEF ResultsInv
<1>3. p \in Lanes => HandlerInv(p)'
  <2>1. tx'[p].pc = "idle"
    BY <1>1, Zenon DEF Moves
  <2>2. ~Applying(p)'
    BY <2>1 DEF Applying
  <2> QED BY <2>1, <2>2, Zenon DEF HandlerInv
<1> QED BY <1>1, <1>2, <1>3, FrozenStep, Zenon

\* The commands that change no row of a table, and a submission that locks its round.
LEMMA CommandResults ==
  ASSUME ResultsInv, LocksInv', setup' = setup,
         LockRoom \/ FindActiveRound \/ CloseIdleRoom \/ (\E mode \in setup.modes : UpdateSettings(mode))
  PROVE  ResultsInv'
<1>1. Command \in Procs /\ Command \notin Lanes /\ \A a \in Accounts : Command # Submission(a)
  BY ProcFacts, Zenon
<1>2. ASSUME Frozen, NEW next, NEW held, Moves(Command, next, held),
             \A r : <<RoundRow(r), "update">> \notin held
      PROVE  ResultsInv'
  <2>1. ExclusionInv'
    BY <1>1, <1>2, ExclusionStep, Zenon DEF ResultsInv
  <2> QED BY <1>1, <1>2, <2>1, FrozenStep, Zenon
<1>3. ASSUME Frozen, NEW next, NEW held, tx' = [tx EXCEPT ![Command] = next],
             locks' = [locks EXCEPT ![Command] = held], \A r : <<RoundRow(r), "update">> \notin held
      PROVE  ResultsInv'
  <2>1. Moves(Command, next, held)
    BY <1>1, <1>3 DEF Moves, LocksInv, ResultsInv
  <2> QED BY <1>2, <1>3, <2>1, Zenon
<1>4. CASE LockRoom
  <2>1. \A r : <<RoundRow(r), "update">> \notin {<<RoomRow, "update">>}
    BY DEF RoundRow, RoomRow
  <2> QED BY <1>3, <1>4, <2>1, Zenon DEF LockRoom, Frozen
<1>5. CASE FindActiveRound
  <2>1. Obtain(Command, [pc |-> "round"]) /\ Frozen
    BY <1>5, Zenon DEF FindActiveRound, Frozen
  <2>2. LocksInv /\ ExclusionInv
    BY Zenon DEF ResultsInv
  <2>3. ExclusionInv'
    BY <1>1, <2>1, <2>2, ExclusionObtain, Zenon
  <2>4. Moves(Command, [pc |-> "round"], locks[Command] \cup Want(Command))
    BY <1>1, <2>1, <2>2, ObtainMoves, Zenon
  <2> QED BY <1>1, <2>1, <2>3, <2>4, FrozenStep, Zenon
<1>6. CASE CloseIdleRoom
  <2>1. \A r : <<RoundRow(r), "update">> \notin {}
    OBVIOUS
  <2> QED BY <1>3, <1>6, <2>1, Zenon DEF CloseIdleRoom, Frozen
<1>7. CASE \E mode \in setup.modes : UpdateSettings(mode)
  <2>1. EndTx(Command) /\ Frozen
    BY <1>7, Zenon DEF UpdateSettings, Frozen
  <2> QED BY <1>1, <2>1, AbortResults, Zenon
<1> QED BY <1>4, <1>5, <1>6, <1>7, Zenon

\* A submission that locks its round changes no row of a table.
LEMMA LockForScoreResults ==
  ASSUME ResultsInv, LocksInv', setup' = setup, NEW a \in Accounts, NEW r \in Rounds, LockForScore(a, r)
  PROVE  ResultsInv'
<1> DEFINE p == Submission(a) next == [pc |-> "session", round |-> r] held == {<<RoundRow(r), "update">>}
<1>1. p \in Procs /\ p \notin Lanes /\ \A b \in Accounts : p = Submission(b) => b = a
  BY ProcFacts, Zenon
<1>2. /\ tx' = [tx EXCEPT ![p] = next] /\ locks' = [locks EXCEPT ![p] = held]
      /\ Blockers(p, held) = {} /\ a \in Players(r) /\ Frozen
  BY Zenon DEF LockForScore, Frozen
<1>3. next.round = r
  BY Zenon
<1> HIDE DEF next, p
<1>4. Moves(p, next, held)
  BY <1>1, <1>2, Zenon DEF Moves, LocksInv, ResultsInv
<1>5. ASSUME NEW o \in Rounds, <<RoundRow(o), "update">> \in held, NEW q \in Procs \ {p}
      PROVE  <<RoundRow(o), "update">> \notin locks[q]
  <2> HIDE DEF held
  <2> QED BY <1>2, <1>5, NoBlockers, Zenon
<1>6. ExclusionInv'
  BY <1>1, <1>4, <1>5, ExclusionStep, Zenon DEF ResultsInv
<1> QED BY <1>1, <1>2, <1>3, <1>4, <1>6, FrozenStep, Zenon

-----------------------------------------------------------------------------
(* The steps of a handler before its commit. *)

\* A handler that took note of the rows its statement is about.
LEMMA ContinueResults ==
  ASSUME NEW l \in Lanes, HandlerInv(l), Applying(l), tx[l].at \in 1 .. 4, setup' = setup, Frozen,
         NEW rows, ReadRows(tx[l].at, rows), tx'[l] = Continue(tx[l], rows)
  PROVE  HandlerInv(l)'
<1>12. PICK h : h = tx[l]
  BY Zenon
<1>13. PICK c : c = Continue(h, rows)
  OBVIOUS
<1>1. Follows(c, h, rows)
  BY <1>12, <1>13, ContinueFacts, Zenon
<1>2. tx'[l] = c
  BY <1>12, <1>13, Zenon
<1>3. /\ c.round = h.round /\ c.mode = h.mode /\ c.points = h.points /\ c.at = h.at + 1
      /\ c.pc \in {"select", "commit"} /\ c.wrote = [h.wrote EXCEPT ![h.at] = rows]
  BY <1>1, Zenon DEF Follows
<1>4. /\ log[l] # <<>> /\ h.round = Head(log[l]) /\ h.mode \in setup.modes
      /\ Finished(h.round) /\ h.points = Ranking(h.round, h.mode) /\ DOMAIN h.wrote = 1 .. 4
      /\ \A at \in 1 .. 4 : at < h.at => ReadRows(at, h.wrote[at])
  <2>1. h.pc # "idle"
    BY <1>12 DEF Applying
  <2> QED BY <1>12, <2>1, Zenon DEF HandlerInv
<1>5. Steadfast(h.round) /\ log' = log /\ round' = round
  BY Zenon DEF Steadfast, Frozen
<1>6. \A at, y : ReadRows(at, y) => ReadRows(at, y)'
  BY <1>5, ReadsKept, Zenon
<1>7. \A team : Ranking(h.round, team)' = Ranking(h.round, team)
  BY <1>5, RankingKept, Zenon DEF Steadfast
<1>8. DOMAIN c.wrote = 1 .. 4 /\ c.wrote[h.at] = rows /\ \A at \in 1 .. 4 : at # h.at => c.wrote[at] = h.wrote[at]
  BY <1>3, <1>4, <1>12, Zenon
<1>9. ASSUME NEW at \in 1 .. 4, at < c.at PROVE ReadRows(at, c.wrote[at])'
  <2>1. at = h.at \/ (at < h.at /\ at # h.at)
    BY <1>3, <1>9, <1>12
  <2>2. ReadRows(at, c.wrote[at])
    BY <1>4, <1>8, <1>12, <2>1, Zenon
  <2> QED BY <1>6, <2>2, Zenon
<1>10. c.pc # "write" /\ c.pc # "parent"
  BY <1>3
<1>11. Finished(h.round)'
  BY <1>4, <1>5, Zenon DEF Finished
<1>14. log'[l] # <<>> /\ c.round = Head(log'[l]) /\ c.mode \in setup'.modes
  BY <1>3, <1>4, <1>5, Zenon
<1>15. Finished(c.round)' /\ c.points = Ranking(c.round, c.mode)'
  BY <1>3, <1>4, <1>7, <1>11, Zenon
<1> QED BY <1>2, <1>8, <1>9, <1>10, <1>14, <1>15, Zenon DEF HandlerInv

\* A handler that goes on with the same statement.
LEMMA OnwardResults ==
  ASSUME NEW l \in Lanes, HandlerInv(l), Applying(l), setup' = setup, Frozen,
         NEW on, tx'[l] = on, on.pc \in {"write", "parent"},
         on.at = tx[l].at, on.round = tx[l].round, on.mode = tx[l].mode,
         on.points = tx[l].points, on.wrote = tx[l].wrote, ReadRows(on.at, on.rows)
  PROVE  HandlerInv(l)'
<1> DEFINE h == tx[l]
<1>4. /\ log[l] # <<>> /\ h.round = Head(log[l]) /\ h.mode \in setup.modes
      /\ Finished(h.round) /\ h.points = Ranking(h.round, h.mode) /\ DOMAIN h.wrote = 1 .. 4
      /\ \A at \in 1 .. 4 : at < h.at => ReadRows(at, h.wrote[at])
  <2>1. h.pc # "idle"
    BY DEF Applying
  <2> QED BY <2>1, Zenon DEF HandlerInv
<1>5. Steadfast(h.round) /\ log' = log /\ round' = round
  BY Zenon DEF Steadfast, Frozen
<1>6. \A at, y : ReadRows(at, y) => ReadRows(at, y)'
  BY <1>5, ReadsKept, Zenon
<1>7. \A team : Ranking(h.round, team)' = Ranking(h.round, team)
  BY <1>5, RankingKept DEF Steadfast
<1>11. Finished(h.round)'
  BY <1>4, <1>5, Zenon DEF Finished
<1> QED BY <1>4, <1>5, <1>6, <1>7, <1>11, Zenon DEF HandlerInv

\* What a statement reads has the types of its table and is current.
LEMMA StatementReads ==
  ASSUME RoundsInv, NEW l, tx[l].at \in 1 .. 4, tx[l].mode \in BOOLEAN
  PROVE  ReadRows(tx[l].at, StatementRows(l))
<1>1. /\ tx[l].at = 2 => StatementRows(l) = StandingRows(l)
      /\ tx[l].at \in {3, 4} => StatementRows(l) = SummaryRows(l)
  BY StatementFacts DEF StatementRows
<1>2. SummaryRows(l) = Counted
  BY Zenon DEF SummaryRows, Counted
<1>3. Summary(Counted) /\ Standings(StandingRows(l))
  BY RowTypes, Zenon
<1> QED BY <1>1, <1>2, <1>3, Zenon DEF ReadRows

\* A handler takes up the first event of its lane, and locks a finished round.
LEMMA BeginResults ==
  ASSUME ResultsInv, LocksInv', setup' = setup, NEW l \in Lanes, BeginHandler(l)
  PROVE  ResultsInv'
<1>1. PICK next : next = [pc |-> "lock", round |-> Head(log[l]), mode |-> teamMode]
  BY Zenon
<1>2. log[l] # <<>> /\ tx' = [tx EXCEPT ![l] = next] /\ locks' = locks /\ Frozen
  BY <1>1, Zenon DEF BeginHandler, Frozen
<1>3. next.pc = "lock" /\ next.round = Head(log[l]) /\ next.mode = teamMode
  BY <1>1
<1>4. l \in Procs /\ \A a \in Accounts : l # Submission(a)
  BY ProcFacts, Zenon
<1>5. Moves(l, next, locks[l])
  BY <1>2, <1>4 DEF Moves, LocksInv, ResultsInv
<1>6. ExclusionInv'
  BY <1>2, Zenon DEF ExclusionInv, ResultsInv, RoundRow
<1>7. HandlerInv(l)'
  <2>1. tx'[l] = next /\ log' = log /\ teamMode \in setup.modes
    BY <1>2, <1>5, Zenon DEF Moves, Frozen, ResultsInv, LocksInv
  <2>2. ~Applying(l)'
    BY <1>3, <2>1 DEF Applying
  <2> QED BY <1>2, <1>3, <2>1, <2>2, Zenon DEF HandlerInv
<1> QED BY <1>2, <1>4, <1>5, <1>6, <1>7, FrozenStep, Zenon

\* The handler of a finished round ranks the scores that are bound to it now.
LEMMA ApplyResults ==
  ASSUME ResultsInv, LocksInv', setup' = setup, NEW l \in Lanes, ApplyRound(l)
  PROVE  ResultsInv'
<1>1. PICK h : h = tx[l]
  OBVIOUS
<1>2. PICK next : next = [pc |-> "select", at |-> 1, round |-> h.round, mode |-> h.mode,
                          points |-> Ranking(h.round, h.mode), rows |-> Empty,
                          wrote |-> [at \in 1 .. 4 |-> Empty]]
  BY Zenon
<1>3. h.pc = "lock" /\ Finished(h.round) /\ Obtain(l, next) /\ Frozen
  BY <1>1, <1>2, Zenon DEF ApplyRound, Frozen
<1>4. /\ next.pc = "select" /\ next.at = 1 /\ next.round = h.round /\ next.mode = h.mode
      /\ next.points = Ranking(h.round, h.mode) /\ DOMAIN next.wrote = 1 .. 4
  BY <1>2
<1>5. l \in Procs /\ \A a \in Accounts : l # Submission(a)
  BY ProcFacts, Zenon
<1>6. LocksInv /\ ExclusionInv /\ HandlerInv(l)
  BY Zenon DEF ResultsInv
<1>7. ExclusionInv' /\ Moves(l, next, locks[l] \cup Want(l))
  BY <1>3, <1>5, <1>6, ExclusionObtain, ObtainMoves, Zenon
<1>8. HandlerInv(l)'
  <2>1. tx'[l] = next /\ log' = log /\ round' = round /\ scored' = scored
    BY <1>3, <1>7, Zenon DEF Moves, Frozen
  <2>2. h.pc # "idle" /\ next.pc # "write" /\ next.pc # "parent" /\ \A at \in 1 .. 4 : ~(at < next.at)
    BY <1>3, <1>4
  <2>3. log[l] # <<>> /\ h.round = Head(log[l]) /\ h.mode \in setup.modes
    BY <1>1, <1>6, <2>2, Zenon DEF HandlerInv
  <2>4. next.points = Ranking(h.round, h.mode)'
    BY <1>4, <2>1, RankingKept, Zenon
  <2>5. Finished(h.round)'
    BY <1>3, <2>1, Zenon DEF Finished
  <2> QED BY <1>4, <2>1, <2>2, <2>3, <2>4, <2>5, Zenon DEF HandlerInv
<1> QED BY <1>3, <1>5, <1>7, <1>8, FrozenStep, Zenon

\* A statement starts.
LEMMA SelectResults ==
  ASSUME ResultsInv, LocksInv', setup' = setup, NEW l \in Lanes, Select(l)
  PROVE  ResultsInv'
<1>1. PICK rows : rows = StatementRows(l)
  OBVIOUS
<1>2. PICK on : on = [tx[l] EXCEPT !.pc = "write", !.rows = rows]
  OBVIOUS
<1>3. PICK next : next = IF DOMAIN rows = {} THEN Continue(tx[l], rows) ELSE on
  OBVIOUS
<1>4. tx[l].pc = "select" /\ tx' = [tx EXCEPT ![l] = next] /\ locks' = locks /\ Frozen
  BY <1>1, <1>2, <1>3, Zenon DEF Select, Frozen
<1>5. l \in Procs /\ Applying(l) /\ \A a \in Accounts : l # Submission(a)
  BY <1>4, ProcFacts, Zenon DEF Applying
<1>6. LocksInv /\ RoundsInv /\ HandlerInv(l)
  BY Zenon DEF ResultsInv
<1>7. DOMAIN tx[l] = HandlerFields /\ tx[l].mode \in BOOLEAN /\ tx[l].at \in 1 .. 4
  <2>1. tx[l].pc # "commit"
    BY <1>4
  <2>2. DOMAIN tx[l] = HandlerFields /\ tx[l].mode \in BOOLEAN /\ tx[l].at \in 1 .. 5 /\ tx[l].at # 5
    BY <1>5, <1>6, <2>1, HandlerFacts, Zenon
  <2> QED BY <2>2
<1>8. ReadRows(tx[l].at, rows)
  BY <1>1, <1>6, <1>7, StatementReads, Zenon
<1>9. /\ on.pc = "write" /\ on.rows = rows /\ on.at = tx[l].at /\ on.mode = tx[l].mode
      /\ on.round = tx[l].round /\ on.points = tx[l].points /\ on.wrote = tx[l].wrote
  BY <1>2, <1>7, Zenon DEF HandlerFields
<1>10. Moves(l, next, locks[l])
  BY <1>4, <1>5, <1>6, Zenon DEF Moves, LocksInv
<1>11. ExclusionInv'
  BY <1>4, Zenon DEF ExclusionInv, ResultsInv, RoundRow
<1>12. HandlerInv(l)'
  <2>1. tx'[l] = next
    BY <1>10, Zenon DEF Moves
  <2>2. CASE DOMAIN rows = {}
    <3>1. tx'[l] = Continue(tx[l], rows)
      BY <1>3, <2>1, <2>2, Zenon
    <3> QED BY <1>4, <1>5, <1>6, <1>7, <1>8, <3>1, ContinueResults, Zenon
  <2>3. CASE DOMAIN rows # {}
    <3>1. tx'[l] = on /\ on.pc \in {"write", "parent"} /\ ReadRows(on.at, on.rows)
      BY <1>3, <1>8, <1>9, <2>1, <2>3, Zenon
    <3> QED BY <1>4, <1>5, <1>6, <1>9, <3>1, OnwardResults, Zenon
  <2> QED BY <2>2, <2>3, Zenon
<1> QED BY <1>4, <1>5, <1>10, <1>11, <1>12, FrozenStep, Zenon

\* It has its row locks, or those of the parents.
LEMMA WriteResults ==
  ASSUME ResultsInv, LocksInv', setup' = setup, NEW l \in Lanes, Write(l) \/ LockParent(l)
  PROVE  ResultsInv'
<1>1. PICK on : on = [tx[l] EXCEPT !.pc = "parent"]
  BY Zenon
<1>2. PICK next : Obtain(l, next) /\ (next = on \/ next = Continue(tx[l], tx[l].rows))
  <2>1. CASE Write(l)
    BY <1>1, <2>1, Zenon DEF Write
  <2>2. CASE LockParent(l)
    BY <2>2, Zenon DEF LockParent
  <2> QED BY <2>1, <2>2, Zenon
<1>3. tx[l].pc \in {"write", "parent"} /\ Frozen
  BY Zenon DEF Write, LockParent, Frozen
<1>4. l \in Procs /\ Applying(l) /\ \A a \in Accounts : l # Submission(a)
  BY <1>3, ProcFacts, Zenon DEF Applying
<1>5. LocksInv /\ ExclusionInv /\ HandlerInv(l)
  BY Zenon DEF ResultsInv
<1>6. DOMAIN tx[l] = HandlerFields /\ tx[l].at \in 1 .. 4
  <2>1. tx[l].pc # "commit"
    BY <1>3
  <2>2. DOMAIN tx[l] = HandlerFields /\ tx[l].at \in 1 .. 5 /\ tx[l].at # 5
    BY <1>4, <1>5, <2>1, HandlerFacts, Zenon
  <2> QED BY <2>2
<1>7. ReadRows(tx[l].at, tx[l].rows)
  BY <1>3, <1>4, <1>5, Zenon DEF HandlerInv
<1>8. /\ on.pc = "parent" /\ on.rows = tx[l].rows /\ on.at = tx[l].at /\ on.mode = tx[l].mode
      /\ on.round = tx[l].round /\ on.points = tx[l].points /\ on.wrote = tx[l].wrote
  BY <1>1, <1>6 DEF HandlerFields
<1>9. ExclusionInv' /\ Moves(l, next, locks[l] \cup Want(l))
  BY <1>2, <1>4, <1>5, ExclusionObtain, ObtainMoves, Zenon
<1>10. tx'[l] = next
  BY <1>9, Zenon DEF Moves
<1>11. HandlerInv(l)'
  <2>1. CASE next = Continue(tx[l], tx[l].rows)
    <3>1. PICK rows : rows = tx[l].rows
      OBVIOUS
    <3>2. tx'[l] = Continue(tx[l], rows) /\ ReadRows(tx[l].at, rows)
      BY <1>7, <1>10, <2>1, <3>1, Zenon
    <3> QED BY <1>3, <1>4, <1>5, <1>6, <3>2, ContinueResults, Zenon
  <2>2. CASE next = on
    <3>1. tx'[l] = on /\ on.pc \in {"write", "parent"} /\ ReadRows(on.at, on.rows)
      BY <1>7, <1>8, <1>10, <2>2, Zenon
    <3> QED BY <1>3, <1>4, <1>5, <1>8, <3>1, OnwardResults, Zenon
  <2> QED BY <1>2, <2>1, <2>2
<1> QED BY <1>3, <1>4, <1>9, <1>11, FrozenStep, Zenon

-----------------------------------------------------------------------------
(* The events of a step. *)

\* The events b of a lane are some of a and those about new.
From(b, a, new) ==
  /\ b \in Seq(Rounds)
  /\ \A i \in DOMAIN b : b[i] = new \/ \E j \in DOMAIN a : b[i] = a[j]

\* The events as a step leaves them: old ones, and those about new.
Events(new) ==
  DOMAIN log' = Lanes /\ \A l \in Lanes : From(log'[l], log[l], new)

\* Events that stay.
LEMMA SameEvents == \A a \in Seq(Rounds) : \A new : From(a, a, new)
  BY Zenon DEF From

\* An event is appended.
LEMMA AppendEvents ==
  ASSUME RoundsInv, NEW k \in Lanes, NEW r \in Rounds, log' = [log EXCEPT ![k] = Append(@, r)]
  PROVE  /\ Events(r) /\ ~QuietRound(r)'
         /\ \A q : QuietRound(q)' => QuietRound(q)
         /\ \A l \in Lanes : log[l] # <<>> => log'[l] # <<>> /\ Head(log'[l]) = Head(log[l])
<1>1. DOMAIN log = Lanes /\ \A l \in Lanes : log[l] \in Seq(Rounds)
  BY Zenon DEF RoundsInv
<1>2. log'[k] = Append(log[k], r) /\ DOMAIN log' = Lanes /\ \A l \in Lanes \ {k} : log'[l] = log[l]
  BY <1>1
<1>3. PICK a : a = log[k]
  OBVIOUS
<1>4. PICK b : b = log'[k]
  OBVIOUS
<1>5. /\ a \in Seq(Rounds) /\ b = Append(a, r)
  BY <1>1, <1>2, <1>3, <1>4, Zenon
<1>6. /\ b \in Seq(Rounds) /\ Len(b) = Len(a) + 1 /\ b[Len(b)] = r /\ b # <<>>
      /\ DOMAIN b = 1 .. Len(b) /\ DOMAIN a = 1 .. Len(a) /\ Len(a) \in Nat
      /\ \A i \in 1 .. Len(a) : b[i] = a[i]
  BY <1>5
<1>7. a # <<>> => Head(b) = Head(a)
  BY <1>5
<1>8. \A i \in DOMAIN b : b[i] = r \/ \E j \in DOMAIN a : b[i] = a[j]
  <2> SUFFICES ASSUME NEW i \in DOMAIN b, i # Len(b) PROVE i \in DOMAIN a /\ b[i] = a[i]
    BY <1>6, Zenon
  <2> QED BY <1>6
<1>9. \A i \in DOMAIN a : i \in DOMAIN b /\ b[i] = a[i]
  BY <1>6
<1>10. Len(b) \in DOMAIN b
  BY <1>6
<1>11. Events(r)
  <2>2. From(b, a, r)
    BY <1>6, <1>8, Zenon DEF From
  <2>1. ASSUME NEW l \in Lanes PROVE From(log'[l], log[l], r)
    <3>1. CASE l = k
      <4>1. log'[l] = b /\ log[l] = a
        BY <1>3, <1>4, <3>1, Zenon
      <4> QED BY <2>2, <4>1, Zenon
    <3>2. CASE l # k
      <4>1. log'[l] = log[l] /\ log[l] \in Seq(Rounds)
        BY <1>1, <1>2, <3>2, Zenon
      <4> QED BY <4>1, SameEvents
    <3> QED BY <3>1, <3>2, Zenon
  <2> QED BY <1>2, <2>1, Zenon DEF Events
<1>12. ~QuietRound(r)'
  BY <1>4, <1>6, <1>10, Zenon DEF QuietRound
<1>13. ASSUME NEW q, QuietRound(q)' PROVE QuietRound(q)
  <2>1. \A l \in Lanes : \A i \in DOMAIN log'[l] : log'[l][i] # q
    BY <1>13, Zenon DEF QuietRound
  <2>2. \A i \in DOMAIN a : a[i] # q
    BY <1>4, <1>9, <2>1, Zenon
  <2>3. ASSUME NEW l \in Lanes PROVE \A i \in DOMAIN log[l] : log[l][i] # q
    <3>1. CASE l = k
      BY <1>3, <2>2, <3>1, Zenon
    <3>2. CASE l # k
      BY <1>2, <2>1, <3>2, Zenon
    <3> QED BY <3>1, <3>2
  <2> QED BY <2>3, Zenon DEF QuietRound
<1>14. ASSUME NEW l \in Lanes, log[l] # <<>> PROVE log'[l] # <<>> /\ Head(log'[l]) = Head(log[l])
  <2>1. CASE l = k
    BY <1>3, <1>4, <1>6, <1>7, <1>14, <2>1, Zenon
  <2>2. CASE l # k
    BY <1>2, <1>14, <2>2, Zenon
  <2> QED BY <2>1, <2>2, Zenon
<1> QED BY <1>11, <1>12, <1>13, <1>14, Zenon

\* The first event of a lane is consumed.
LEMMA TailEvents ==
  ASSUME RoundsInv, NEW k \in Lanes, log[k] # <<>>, log' = [log EXCEPT ![k] = Tail(@)], NEW new
  PROVE  /\ Events(new)
         /\ \A l \in Lanes \ {k} : log'[l] = log[l]
         /\ \A q : q # Head(log[k]) /\ QuietRound(q)' => QuietRound(q)
<1>1. DOMAIN log = Lanes /\ \A l \in Lanes : log[l] \in Seq(Rounds)
  BY Zenon DEF RoundsInv
<1>2. log'[k] = Tail(log[k]) /\ DOMAIN log' = Lanes /\ \A l \in Lanes \ {k} : log'[l] = log[l]
  BY <1>1
<1>3. PICK a : a = log[k]
  OBVIOUS
<1>4. PICK b : b = log'[k]
  OBVIOUS
<1>5. a \in Seq(Rounds) /\ a # <<>> /\ b = Tail(a)
  BY <1>1, <1>2, <1>3, <1>4, Zenon
<1>6. /\ b \in Seq(Rounds) /\ Len(b) = Len(a) - 1 /\ Head(a) = a[1]
      /\ DOMAIN b = 1 .. Len(b) /\ DOMAIN a = 1 .. Len(a) /\ Len(a) \in Nat
      /\ \A i \in 1 .. Len(b) : b[i] = a[i + 1]
  BY <1>5
<1>7. \A i \in DOMAIN b : \E j \in DOMAIN a : b[i] = a[j]
  <2> SUFFICES ASSUME NEW i \in DOMAIN b PROVE i + 1 \in DOMAIN a /\ b[i] = a[i + 1]
    BY Zenon
  <2> QED BY <1>6
<1>8. \A i \in DOMAIN a : a[i] = Head(a) \/ \E j \in DOMAIN b : b[j] = a[i]
  <2> SUFFICES ASSUME NEW i \in DOMAIN a, i # 1 PROVE i - 1 \in DOMAIN b /\ b[i - 1] = a[i]
    BY <1>6, Zenon
  <2> QED BY <1>6
<1>9. Events(new)
  <2>2. From(b, a, new)
    BY <1>6, <1>7, Zenon DEF From
  <2>1. ASSUME NEW l \in Lanes PROVE From(log'[l], log[l], new)
    <3>1. CASE l = k
      <4>1. log'[l] = b /\ log[l] = a
        BY <1>3, <1>4, <3>1, Zenon
      <4> QED BY <2>2, <4>1, Zenon
    <3>2. CASE l # k
      <4>1. log'[l] = log[l] /\ log[l] \in Seq(Rounds)
        BY <1>1, <1>2, <3>2, Zenon
      <4> QED BY <4>1, SameEvents
    <3> QED BY <3>1, <3>2
  <2> QED BY <1>2, <2>1, Zenon DEF Events
<1>10. ASSUME NEW q, q # Head(log[k]), QuietRound(q)' PROVE QuietRound(q)
  <2>1. \A l \in Lanes : \A i \in DOMAIN log'[l] : log'[l][i] # q
    BY <1>10, Zenon DEF QuietRound
  <2>4. (\A j \in DOMAIN b : b[j] # q) /\ q # Head(a)
    BY <1>3, <1>4, <1>10, <2>1, Zenon
  <2>2. \A i \in DOMAIN a : a[i] # q
    <3> SUFFICES ASSUME NEW i \in DOMAIN a, a[i] = q PROVE FALSE
      BY Zenon
    <3>1. CASE a[i] = Head(a)
      BY <2>4, <3>1, Zenon
    <3>2. CASE \E j \in DOMAIN b : b[j] = a[i]
      BY <2>4, <3>2, Zenon
    <3> QED BY <1>8, <3>1, <3>2, Zenon
  <2>3. ASSUME NEW l \in Lanes PROVE \A i \in DOMAIN log[l] : log[l][i] # q
    <3>1. CASE l = k
      BY <1>3, <2>2, <3>1, Zenon
    <3>2. CASE l # k
      BY <1>2, <2>1, <3>2, Zenon
    <3> QED BY <3>1, <3>2
  <2> QED BY <2>3, Zenon DEF QuietRound
<1> QED BY <1>2, <1>9, <1>10, Zenon

-----------------------------------------------------------------------------
(* Steps that change a round, a score or a table. *)

\* The invariants of the rounds after a step of p that takes no players away.
LEMMA RoundsStep ==
  ASSUME LocksInv, RoundsInv, setup' = setup, NEW new, Events(new),
         DOMAIN round' = Rounds, DOMAIN scored' = Rounds, DOMAIN result' = Rounds,
         \A r \in Rounds : RoundInv(r)' /\ Players(r) \subseteq Players(r)' /\ (Started(r) => Started(r)'),
         Started(new)', NEW p \in Procs, NEW next, NEW held, Moves(p, next, held),
         \A a \in Accounts : p = Submission(a) => next.pc = "idle"
  PROVE  RoundsInv'
<1>1. ASSUME NEW a \in Accounts, tx'[Submission(a)].pc # "idle"
      PROVE  a \in Players(tx[Submission(a)].round)'
  <2>1. p # Submission(a)
    BY <1>1, Zenon DEF Moves
  <2>2. tx'[Submission(a)] = tx[Submission(a)]
    BY <2>1, ProcFacts, Zenon DEF Moves
  <2>3. SubmissionLocks(a) /\ tx[Submission(a)] # Idle
    BY <1>1, <2>2 DEF LocksInv, Idle
  <2>4. tx[Submission(a)].round \in Rounds
    BY <2>3, Zenon DEF SubmissionLocks
  <2>5. a \in Players(tx[Submission(a)].round)
    BY <1>1, <2>2, Zenon DEF RoundsInv
  <2>6. PICK q : q = tx[Submission(a)].round
    OBVIOUS
  <2>7. a \in Players(q)' /\ q = tx'[Submission(a)].round
    BY <2>2, <2>4, <2>5, <2>6, Zenon
  <2> QED BY <2>7
<1>2. ASSUME NEW l \in Lanes, NEW i \in DOMAIN log'[l] PROVE Started(log[l][i])'
  <2>3. PICK q : q = log'[l][i]
    OBVIOUS
  <2>4. Started(q)' => Started(log[l][i])'
    BY <2>3, Zenon DEF Started
  <2>1. CASE log'[l][i] = new
    BY <2>1, <2>3, <2>4, Zenon
  <2>2. CASE \E j \in DOMAIN log[l] : log'[l][i] = log[l][j]
    <3>1. PICK j \in DOMAIN log[l] : log'[l][i] = log[l][j]
      BY <2>2, Zenon
    <3>2. log[l] \in Seq(Rounds) /\ Started(log[l][j])
      BY Zenon DEF RoundsInv
    <3>3. log[l][j] \in Rounds
      BY <3>2
    <3>4. q \in Rounds /\ Started(q)
      BY <2>3, <3>1, <3>2, <3>3, Zenon
    <3> QED BY <2>4, <3>4, Zenon
  <2> QED BY <2>1, <2>2, Zenon DEF Events, From
<1>3. DOMAIN log' = Lanes /\ \A l \in Lanes : log'[l] \in Seq(Rounds)
  BY Zenon DEF Events, From
<1> QED BY <1>1, <1>2, <1>3, Zenon DEF RoundsInv

\* The round of a handler at work has started.
LEMMA HandlerRound ==
  ASSUME RoundsInv, NEW l \in Lanes, HandlerInv(l), tx[l].pc # "idle"
  PROVE  /\ tx[l].round \in Rounds /\ Started(tx[l].round) /\ tx[l].round \in setup.rounds
         /\ log[l] # <<>> /\ tx[l].round = Head(log[l])
<1>1. log[l] # <<>> /\ tx[l].round = Head(log[l])
  BY Zenon DEF HandlerInv
<1>2. log[l] \in Seq(Rounds) /\ \A i \in DOMAIN log[l] : Started(log[l][i])
  BY Zenon DEF RoundsInv
<1>3. 1 \in DOMAIN log[l] /\ Head(log[l]) = log[l][1] /\ Head(log[l]) \in Rounds
  BY <1>1, <1>2
<1>4. Started(tx[l].round) /\ tx[l].round \in Rounds
  BY <1>1, <1>2, <1>3, Zenon
<1> QED BY <1>1, <1>4, Zenon DEF RoundsInv, RoundInv

\* A finished round is one of the session.
LEMMA FinishedRound ==
  ASSUME RoundsInv, NEW r \in Rounds, Finished(r)
  PROVE  Started(r) /\ r \in setup.rounds
<1>1. Started(r)
  BY DEF Started, Finished
<1> QED BY <1>1, Zenon DEF RoundsInv, RoundInv

\* The command starts or finishes a round: the end of a completed round is announced.
LEMMA RoundResults ==
  ASSUME ResultsInv, LocksInv', setup' = setup, NEW r \in setup.rounds, ~Finished(r),
         NEW new, round' = [round EXCEPT ![r] = new], DOMAIN new = RoundFields,
         new.status \in {"in_progress", "completed", "aborted"},
         DOMAIN new.players \subseteq Accounts, Players(r) \subseteq DOMAIN new.players,
         UNCHANGED <<scored, result, tables>>, NEW next, Moves(Command, next, {}), ExclusionInv',
         \/ log' = log /\ new.status # "completed"
         \/ log' = [log EXCEPT ![RoundLane(r)] = Append(@, r)]
  PROVE  ResultsInv'
<1>1. r \in Rounds /\ RoundLane(r) \in Lanes
  BY SetupsAssumption DEF ResultsInv, LocksInv, Lanes
<1>2. LocksInv /\ RoundsInv /\ TablesInv /\ CurrentInv
  BY Zenon DEF ResultsInv
<1>3. /\ round'[r] = new /\ DOMAIN round' = Rounds /\ \A q \in Rounds \ {r} : round'[q] = round[q]
  BY <1>1, <1>2, Zenon DEF RoundsInv
<1>4. /\ Events(r) /\ (\A q : QuietRound(q)' => QuietRound(q))
      /\ \A l \in Lanes : log[l] # <<>> => log'[l] # <<>> /\ Head(log'[l]) = Head(log[l])
      /\ new.status = "completed" => ~QuietRound(r)'
  <2>1. CASE log' = log /\ new.status # "completed"
    <3>1. Events(r)
      BY <1>2, <2>1, SameEvents, Zenon DEF Events, RoundsInv
    <3> QED BY <2>1, <3>1, Zenon DEF QuietRound
  <2>2. CASE log' = [log EXCEPT ![RoundLane(r)] = Append(@, r)]
    BY <1>1, <1>2, <2>2, AppendEvents, Zenon
  <2> QED BY <2>1, <2>2
<1>5. Started(r)' /\ Players(r)' = DOMAIN new.players
  BY <1>3, Zenon DEF Started, Players
<1>6. ASSUME NEW q \in Rounds
      PROVE  RoundInv(q)' /\ Players(q) \subseteq Players(q)' /\ (Started(q) => Started(q)')
  <2>1. RoundInv(q) /\ scored'[q] = scored[q]
    BY <1>2, Zenon DEF RoundsInv
  <2>2. CASE q = r
    <3>1. round'[r].status \in {"absent", "in_progress", "completed", "aborted"} /\ DOMAIN round'[r] = RoundFields
      BY <1>3
    <3>2. scored'[r] \subseteq Players(r)'
      BY <1>5, <2>1, <2>2, Zenon DEF RoundInv
    <3> QED BY <1>5, <2>2, <3>1, <3>2, Zenon DEF RoundInv
  <2>3. CASE q # r
    <3>1. round'[q] = round[q]
      BY <1>3, <2>3, Zenon
    <3> QED BY <2>1, <3>1, Zenon DEF RoundInv, Started, Players
  <2> QED BY <2>2, <2>3
<1>7. RoundsInv'
  <2>1. DOMAIN scored' = Rounds /\ DOMAIN result' = Rounds
    BY <1>2, Zenon DEF RoundsInv
  <2>2. Command \in Procs /\ \A a \in Accounts : Command # Submission(a)
    BY ProcFacts, Zenon
  <2> HIDE DEF Moves
  <2> QED BY <1>2, <1>3, <1>4, <1>5, <1>6, <2>1, <2>2, RoundsStep, Zenon
<1>8. ASSUME NEW l \in Lanes PROVE HandlerInv(l)'
  <2>1. HandlerInv(l) /\ tx'[l] = tx[l]
    BY ProcFacts, Zenon DEF ResultsInv, Moves
  <2>2. tx[l].pc # "idle" => log'[l] # <<>> /\ Head(log'[l]) = Head(log[l])
    BY <1>4, <2>1, Zenon DEF HandlerInv
  <2>3. ASSUME Applying(l) PROVE Steadfast(tx[l].round)
    <3>1. tx[l].pc # "idle" /\ Finished(tx[l].round)
      BY <2>1, <2>3 DEF Applying, HandlerInv
    <3>2. tx[l].round \in Rounds /\ tx[l].round \in setup.rounds
      BY <1>2, <2>1, <3>1, HandlerRound, Zenon
    <3>3. ~Alone /\ tx[l].round # r
      BY <3>1, <3>2, Zenon DEF Alone
    <3> QED BY <1>3, <3>2, <3>3, Zenon DEF Steadfast
  <2> QED BY <2>1, <2>2, <2>3, HandlerKept, Zenon
<1>9. TablesInv'
  BY <1>2, Zenon DEF TablesInv
<1>10. CurrentInv'
  <2>1. ASSUME NEW q \in Rounds
        PROVE  /\ ~Finished(q)' => result'[q] = Empty
               /\ Finished(q)' /\ QuietRound(q)' => \E team \in setup.modes : result'[q] = Ranking(q, team)'
    <3>1. CASE q = r
      <4>1. result'[q] = Empty
        BY <1>2, <3>1, Zenon DEF CurrentInv
      <4>2. ASSUME Finished(q)', QuietRound(q)'
            PROVE  \E team \in setup.modes : result'[q] = Ranking(q, team)'
        <5>1. round'[q].status # "completed"
          BY <1>3, <1>4, <3>1, <4>2, Zenon
        <5>2. \A team : Ranking(q, team)' = Empty
          BY <5>1, NoRanking, Zenon
        <5>3. teamMode \in setup.modes
          BY <1>2, Zenon DEF LocksInv
        <5> QED BY <4>1, <5>2, <5>3, Zenon
      <4> QED BY <4>1, <4>2, Zenon
    <3>2. CASE q # r
      <4>1. round'[q] = round[q] /\ scored'[q] = scored[q] /\ result'[q] = result[q]
        BY <1>3, <3>2, Zenon
      <4>2. (Finished(q)' <=> Finished(q)) /\ (QuietRound(q)' => QuietRound(q))
        BY <1>4, <4>1, Zenon DEF Finished
      <4>3. \A team : Ranking(q, team)' = Ranking(q, team)
        BY <4>1, RankingKept, Zenon
      <4> QED BY <1>2, <4>1, <4>2, <4>3, Zenon DEF CurrentInv
    <3> QED BY <3>1, <3>2, Zenon
  <2>2. ASSUME Alone', NEW rows, Alone => SummaryInv(rows) PROVE SummaryInv(rows)'
    <3>1. Alone
      BY <2>2, Zenon DEF Alone
    <3>2. \A q \in Rounds : ~Finished(q)
      BY <1>2, <3>1, FinishedRound, Zenon DEF Alone
    <3>3. DOMAIN rows = {}
      BY <2>2, <3>1, <3>2, Zenon DEF SummaryInv
    <3> QED BY <3>3, Zenon DEF SummaryInv
  <2> QED BY <1>2, <2>1, <2>2, Zenon DEF CurrentInv
<1> QED BY <1>7, <1>8, <1>9, <1>10, Zenon DEF ResultsInv

\* The other handlers of a step of p that leaves rounds and scores alone.
LEMMA OtherHandlers ==
  ASSUME ResultsInv, setup' = setup, NEW p \in Lanes, NEW next, NEW held, Moves(p, next, held),
         round' = round, scored' = scored, \A l \in Lanes \ {p} : log'[l] = log[l], HandlerInv(p)'
  PROVE  \A l \in Lanes : HandlerInv(l)'
<1> SUFFICES ASSUME NEW l \in Lanes PROVE HandlerInv(l)'
  OBVIOUS
<1>1. CASE l = p
  BY <1>1, Zenon
<1>2. CASE l # p
  <2>1. HandlerInv(l) /\ tx'[l] = tx[l] /\ log'[l] = log[l]
    BY <1>2, ProcFacts, Zenon DEF ResultsInv, Moves
  <2>2. Steadfast(tx[l].round)
    BY Zenon DEF Steadfast
  <2>3. tx[l].pc # "idle" => log'[l] # <<>> /\ Head(log'[l]) = Head(log[l])
    BY <2>1, Zenon DEF HandlerInv
  <2> QED BY <2>1, <2>2, <2>3, HandlerKept, Zenon
<1> QED BY <1>1, <1>2, Zenon

\* A handler whose transaction ended works on nothing.
LEMMA EndedHandler ==
  ASSUME LocksInv, NEW l \in Lanes, EndTx(l)
  PROVE  HandlerInv(l)' /\ Moves(l, Idle, {})
<1>1. l \in Procs
  BY ProcFacts, Zenon
<1>2. Moves(l, Idle, {})
  BY <1>1, EndMoves, Zenon
<1>3. tx'[l].pc = "idle"
  BY <1>2 DEF Moves, Idle
<1>4. ~Applying(l)'
  BY <1>3 DEF Applying
<1> QED BY <1>2, <1>3, <1>4, Zenon DEF HandlerInv

\* An event that the head of its lane announced is consumed; rounds and scores stay.
LEMMA ConsumedRounds ==
  ASSUME ResultsInv, setup' = setup, NEW l \in Lanes, tx[l].pc # "idle", EndTx(l),
         log' = [log EXCEPT ![l] = Tail(@)], round' = round, scored' = scored, DOMAIN result' = Rounds
  PROVE  /\ RoundsInv' /\ ExclusionInv' /\ \A k \in Lanes : HandlerInv(k)'
         /\ \A q : q # tx[l].round /\ QuietRound(q)' => QuietRound(q)
<1>1. LocksInv /\ RoundsInv /\ ExclusionInv /\ HandlerInv(l)
  BY Zenon DEF ResultsInv
<1>2. l \in Procs /\ \A a \in Accounts : l # Submission(a)
  BY ProcFacts, Zenon
<1>3. /\ tx[l].round \in Rounds /\ Started(tx[l].round)
      /\ log[l] # <<>> /\ tx[l].round = Head(log[l])
  BY <1>1, HandlerRound, Zenon
<1>4. PICK r : r = tx[l].round
  OBVIOUS
<1>5. /\ Events(r) /\ (\A k \in Lanes \ {l} : log'[k] = log[k])
      /\ \A q : q # r /\ QuietRound(q)' => QuietRound(q)
  BY <1>1, <1>3, <1>4, TailEvents, Zenon
<1>6. HandlerInv(l)' /\ Moves(l, Idle, {})
  BY <1>1, EndedHandler, Zenon
<1>7. \A k \in Lanes : HandlerInv(k)'
  BY <1>5, <1>6, OtherHandlers, Zenon
<1>8. \A q : (RoundInv(q)' <=> RoundInv(q)) /\ (Started(q)' <=> Started(q)) /\ Players(q)' = Players(q)
  BY Zenon DEF RoundInv, Started, Players
<1>9. RoundsInv'
  <2>1. DOMAIN round' = Rounds /\ DOMAIN scored' = Rounds /\ \A q \in Rounds : RoundInv(q)
    BY <1>1, Zenon DEF RoundsInv
  <2>2. Started(r)' /\ \A q \in Rounds : RoundInv(q)' /\ Players(q) \subseteq Players(q)' /\ (Started(q) => Started(q)')
    BY <1>3, <1>4, <1>8, <2>1, Zenon
  <2> QED BY <1>1, <1>2, <1>5, <1>6, <2>1, <2>2, RoundsStep, Zenon
<1>10. ExclusionInv'
  BY <1>1, <1>2, ExclusionEnd, Zenon
<1> QED BY <1>4, <1>5, <1>7, <1>9, <1>10, Zenon

\* An event of a round in progress is consumed: no summary counts anything yet.
LEMMA SkipResults ==
  ASSUME ResultsInv, LocksInv', setup' = setup, NEW l \in Lanes, SkipRound(l)
  PROVE  ResultsInv'
<1>1. /\ tx[l].pc = "lock" /\ ~Finished(tx[l].round) /\ EndTx(l)
      /\ log' = [log EXCEPT ![l] = Tail(@)] /\ round' = round /\ scored' = scored
      /\ result' = result /\ tables' = tables
  BY Zenon DEF SkipRound
<1>2. tx[l].pc # "idle"
  BY <1>1
<1>3. LocksInv /\ RoundsInv /\ TablesInv /\ CurrentInv /\ HandlerInv(l)
  BY Zenon DEF ResultsInv
<1>4. DOMAIN result' = Rounds
  BY <1>1, <1>3, Zenon DEF RoundsInv
<1>5. /\ RoundsInv' /\ ExclusionInv' /\ (\A k \in Lanes : HandlerInv(k)')
      /\ \A q : q # tx[l].round /\ QuietRound(q)' => QuietRound(q)
  BY <1>1, <1>2, <1>4, ConsumedRounds, Zenon
<1>6. TablesInv'
  BY <1>1, <1>3, Zenon DEF TablesInv
<1>7. tx[l].round \in setup.rounds
  BY <1>2, <1>3, HandlerRound, Zenon
<1>8. CurrentInv'
  <2>1. ASSUME NEW q \in Rounds
        PROVE  /\ ~Finished(q)' => result'[q] = Empty
               /\ Finished(q)' /\ QuietRound(q)' => \E team \in setup.modes : result'[q] = Ranking(q, team)'
    <3>1. (Finished(q)' <=> Finished(q)) /\ \A team : Ranking(q, team)' = Ranking(q, team)
      BY <1>1, RankingKept, Zenon DEF Finished
    <3>2. Finished(q)' /\ QuietRound(q)' => QuietRound(q)
      BY <1>1, <1>5, <3>1, Zenon
    <3> QED BY <1>1, <1>3, <3>1, <3>2, Zenon DEF CurrentInv
  <2>2. ASSUME Alone', NEW rows, Alone => SummaryInv(rows) PROVE SummaryInv(rows)'
    <3>1. Alone
      BY <2>2, Zenon DEF Alone
    <3>2. \A q \in Rounds : ~Finished(q)
      BY <1>1, <1>3, <1>7, <3>1, FinishedRound, Zenon DEF Alone
    <3>3. DOMAIN rows = {}
      BY <2>2, <3>1, <3>2, Zenon DEF SummaryInv
    <3> QED BY <3>3, Zenon DEF SummaryInv
  <2> QED BY <1>1, <1>3, <2>1, <2>2, Zenon DEF CurrentInv
<1> QED BY <1>5, <1>6, <1>8, Zenon DEF ResultsInv

\* The commands that start or finish a round.
LEMMA RoundCommandResults ==
  ASSUME ResultsInv, LocksInv', setup' = setup,
         \/ \E r \in setup.rounds, players \in (SUBSET setup.accounts) \ {{}} : StartRound(r, players)
         \/ \E r \in Rounds, status \in {"completed", "aborted"} : CompleteRound(r, status)
         \/ \E r \in Rounds : CloseRoom(r)
  PROVE  ResultsInv'
<1>1. Command \in Procs
  BY ProcFacts, Zenon
<1>2. LocksInv /\ RoundsInv /\ ExclusionInv /\ setup.accounts \subseteq Accounts /\ setup.rounds \subseteq Rounds
  BY SetupsAssumption, Zenon DEF ResultsInv, LocksInv
<1>3. ASSUME EndTx(Command) PROVE Moves(Command, Idle, {}) /\ ExclusionInv'
  BY <1>1, <1>2, <1>3, EndMoves, ExclusionEnd, Zenon
<1>4. ASSUME NEW r \in setup.rounds, NEW players \in SUBSET setup.accounts, StartRound(r, players)
      PROVE  ResultsInv'
  <2> DEFINE ps == [a \in players |-> IF teamMode THEN Team[a] ELSE 0]
             new == [status |-> "in_progress", mode |-> teamMode, players |-> ps]
  <2>1. /\ round[r].status = "absent" /\ round' = [round EXCEPT ![r] = new]
        /\ EndTx(Command) /\ UNCHANGED <<scored, result, tables>> /\ log' = log
    BY <1>4, Zenon DEF StartRound
  <2>2. /\ DOMAIN new = RoundFields /\ new.status = "in_progress" /\ DOMAIN new.players = players
    BY Zenon DEF RoundFields
  <2>3. PICK n : n = new
    BY Zenon
  <2> HIDE DEF new
  <2>4. ~Started(r) /\ ~Finished(r)
    BY <2>1, Zenon DEF Finished, Started
  <2>5. Players(r) = {}
    BY <1>2, <2>4, Zenon DEF RoundsInv, RoundInv
  <2>6. /\ DOMAIN n.players \subseteq Accounts /\ Players(r) \subseteq DOMAIN n.players
    BY <1>2, <2>2, <2>3, <2>5, Zenon
  <2>7. n.status \in {"in_progress", "completed", "aborted"} /\ n.status # "completed" /\ DOMAIN n = RoundFields
    BY <2>2, <2>3, Zenon
  <2>8. round' = [round EXCEPT ![r] = n]
    BY <2>1, <2>3, Zenon
  <2> QED BY <1>3, <2>1, <2>4, <2>6, <2>7, <2>8, RoundResults, Zenon
<1>5. ASSUME NEW r \in Rounds, r \in Active, NEW status \in {"completed", "aborted"},
             round' = [round EXCEPT ![r].status = status], UNCHANGED <<scored, result, tables>>,
             NEW next, Moves(Command, next, {}), ExclusionInv',
             \/ log' = log /\ status # "completed"
             \/ log' = [log EXCEPT ![RoundLane(r)] = Append(@, r)]
      PROVE  ResultsInv'
  <2>1. RoundInv(r) /\ DOMAIN round = Rounds
    BY <1>2, Zenon DEF RoundsInv
  <2>2. DOMAIN round[r] = RoundFields /\ round[r].status = "in_progress"
    BY <1>5, <2>1, Zenon DEF RoundInv, Active
  <2>3. PICK n : n = [round[r] EXCEPT !.status = status]
    BY Zenon
  <2>4. /\ round' = [round EXCEPT ![r] = n]
    BY <1>5, <2>1, <2>3
  <2>5. /\ DOMAIN n = RoundFields /\ n.status = status /\ n.players = round[r].players
    BY <2>2, <2>3, Zenon DEF RoundFields
  <2>6. Started(r) /\ ~Finished(r)
    BY <2>2 DEF Finished, Started
  <2>7. r \in setup.rounds /\ Players(r) \subseteq Accounts
    BY <2>1, <2>6, Zenon DEF RoundInv
  <2>8. DOMAIN n.players \subseteq Accounts /\ Players(r) \subseteq DOMAIN n.players
    BY <2>5, <2>7, Zenon DEF Players
  <2>9. n.status \in {"in_progress", "completed", "aborted"}
    BY <2>5
  <2>10. \/ log' = log /\ n.status # "completed"
         \/ log' = [log EXCEPT ![RoundLane(r)] = Append(@, r)]
    BY <1>5, <2>5, Zenon
  <2> QED BY <1>5, <2>4, <2>5, <2>6, <2>7, <2>8, <2>9, <2>10, RoundResults, Zenon
<1>6. ASSUME NEW r \in Rounds, NEW status \in {"completed", "aborted"}, CompleteRound(r, status)
      PROVE  ResultsInv'
  <2>1. /\ r \in Active /\ round' = [round EXCEPT ![r].status = status] /\ EndTx(Command)
        /\ log' = [log EXCEPT ![RoundLane(r)] = Append(@, r)] /\ UNCHANGED <<scored, result, tables>>
    BY <1>6, Zenon DEF CompleteRound
  <2> QED BY <1>3, <1>5, <2>1, Zenon
<1>7. ASSUME NEW r \in Rounds, CloseRoom(r) PROVE ResultsInv'
  <2> DEFINE next == [pc |-> "closed"]
             none == {}
             status == "aborted"
  <2>1. /\ r \in Active /\ round' = [round EXCEPT ![r].status = status] /\ log' = log
        /\ tx' = [tx EXCEPT ![Command] = next] /\ locks' = [locks EXCEPT ![Command] = none]
        /\ UNCHANGED <<scored, result, tables>>
    BY <1>7, Zenon DEF CloseRoom
  <2>2. status \in {"completed", "aborted"} /\ status # "completed"
    OBVIOUS
  <2>3. \A q : <<RoundRow(q), "update">> \notin none
    OBVIOUS
  <2> HIDE DEF next, status
  <2>4. Moves(Command, next, none)
    BY <1>1, <1>2, <2>1, Zenon DEF Moves, LocksInv
  <2>5. Moves(Command, next, {})
    BY <2>4, Zenon
  <2>6. ExclusionInv'
    <3> HIDE DEF none
    <3> QED BY <1>1, <1>2, <2>3, <2>4, ExclusionStep, Zenon
  <2> QED BY <1>5, <2>1, <2>2, <2>5, <2>6, Zenon
<1> QED BY <1>4, <1>6, <1>7, Zenon

\* A score is bound while no handler applies the round, and announced.
LEMMA BindResults ==
  ASSUME ResultsInv, LocksInv', setup' = setup, NEW a \in Accounts, BindScore(a)
  PROVE  ResultsInv'
<1> DEFINE p == Submission(a)
<1>1. p \in Procs /\ p \notin Lanes /\ AccountLane(a) \in Lanes
  BY ProcFacts, Zenon DEF Lanes
<1>2. LocksInv /\ RoundsInv /\ ExclusionInv /\ TablesInv /\ CurrentInv
  BY Zenon DEF ResultsInv
<1>3. PICK r : r = tx[p].round
  OBVIOUS
<1>4. /\ tx[p].pc # "idle" /\ scored' = [scored EXCEPT ![r] = @ \cup {a}] /\ EndTx(p)
      /\ log' = [log EXCEPT ![AccountLane(a)] = Append(@, r)] /\ round' = round
      /\ result' = result /\ tables' = tables
  BY <1>3, Zenon DEF BindScore
<1>5. tx[p] # Idle
  BY <1>4 DEF Idle
<1>6. r \in Rounds /\ locks[p] = {<<RoundRow(r), "update">>}
  BY <1>2, <1>3, <1>5, Zenon DEF LocksInv, SubmissionLocks
<1>7. a \in Players(r) /\ RoundInv(r)
  BY <1>2, <1>3, <1>4, <1>6, Zenon DEF RoundsInv
<1>8. Started(r) /\ r \in setup.rounds
  BY <1>7, Zenon DEF RoundInv
<1>9. DOMAIN scored' = Rounds /\ scored'[r] = scored[r] \cup {a} /\ \A q \in Rounds \ {r} : scored'[q] = scored[q]
  BY <1>2, <1>4, <1>6, Zenon DEF RoundsInv
<1>10. /\ Events(r) /\ ~QuietRound(r)' /\ (\A q : QuietRound(q)' => QuietRound(q))
       /\ \A l \in Lanes : log[l] # <<>> => log'[l] # <<>> /\ Head(log'[l]) = Head(log[l])
  BY <1>1, <1>2, <1>4, <1>6, AppendEvents, Zenon
<1>11. Moves(p, Idle, {}) /\ Idle.pc = "idle" /\ ExclusionInv'
  <2>1. Moves(p, Idle, {}) /\ ExclusionInv'
    BY <1>1, <1>2, <1>4, EndMoves, ExclusionEnd, Zenon
  <2> QED BY <2>1 DEF Idle
<1>12. \A q : Players(q)' = Players(q) /\ (Started(q)' <=> Started(q)) /\ (Finished(q)' <=> Finished(q))
  BY <1>4, Zenon DEF Players, Started, Finished
<1>13. ASSUME NEW q \in Rounds
       PROVE  RoundInv(q)' /\ Players(q) \subseteq Players(q)' /\ (Started(q) => Started(q)')
  <2>1. RoundInv(q)
    BY <1>2, Zenon DEF RoundsInv
  <2>2. scored'[q] \subseteq Players(q)
    <3>1. CASE q = r
      BY <1>7, <1>9, <2>1, <3>1, Zenon DEF RoundInv
    <3>2. CASE q # r
      BY <1>9, <2>1, <3>2, Zenon DEF RoundInv
    <3> QED BY <3>1, <3>2, Zenon
  <2> QED BY <1>4, <1>12, <2>1, <2>2, Zenon DEF RoundInv
<1>14. RoundsInv'
  <2>1. DOMAIN round' = Rounds /\ DOMAIN result' = Rounds /\ Started(r)'
    BY <1>2, <1>4, <1>8, <1>12, Zenon DEF RoundsInv
  <2> HIDE DEF p
  <2> QED BY <1>1, <1>2, <1>9, <1>10, <1>11, <1>13, <2>1, RoundsStep, Zenon
<1>15. ASSUME NEW l \in Lanes PROVE HandlerInv(l)'
  <2>1. HandlerInv(l) /\ tx'[l] = tx[l]
    BY <1>1, <1>11, ProcFacts, Zenon DEF ResultsInv, Moves
  <2>2. tx[l].pc # "idle" => log'[l] # <<>> /\ Head(log'[l]) = Head(log[l])
    BY <1>10, <2>1, Zenon DEF HandlerInv
  <2>3. ASSUME Applying(l) PROVE Steadfast(tx[l].round)
    <3>1. tx[l].pc \notin {"idle", "lock"}
      BY <2>3, Zenon DEF Applying
    <3>2. tx[l].pc # "idle" /\ tx[l].pc # "lock" /\ tx[l] # Idle
      BY <3>1 DEF Idle
    <3>3. tx[l].round \in Rounds /\ tx[l].round \in setup.rounds
      BY <1>2, <2>1, <3>2, HandlerRound, Zenon
    <3>4. <<RoundRow(tx[l].round), "update">> \in locks[l]
      BY <1>2, <3>2, Zenon DEF LocksInv, HandlerLocks
    <3>5. tx[l].round # r
      BY <1>1, <1>2, <1>6, <3>4, ProcFacts, Zenon DEF ExclusionInv
    <3>6. ~Alone
      BY <1>8, <3>3, <3>5, Zenon DEF Alone
    <3> QED BY <1>4, <1>9, <3>3, <3>5, <3>6, Zenon DEF Steadfast
  <2> QED BY <2>1, <2>2, <2>3, HandlerKept, Zenon
<1>16. TablesInv'
  BY <1>2, <1>4, Zenon DEF TablesInv
<1>17. CurrentInv'
  <2>1. ASSUME NEW q \in Rounds
        PROVE  /\ ~Finished(q)' => result'[q] = Empty
               /\ Finished(q)' /\ QuietRound(q)' => \E team \in setup.modes : result'[q] = Ranking(q, team)'
    <3>1. ~Finished(q)' => result'[q] = Empty
      BY <1>2, <1>4, <1>12, Zenon DEF CurrentInv
    <3>2. ASSUME Finished(q)', QuietRound(q)' PROVE \E team \in setup.modes : result'[q] = Ranking(q, team)'
      <4>1. q # r /\ QuietRound(q) /\ Finished(q)
        BY <1>10, <1>12, <3>2, Zenon
      <4>2. round'[q] = round[q] /\ scored'[q] = scored[q]
        BY <1>4, <1>9, <4>1, Zenon
      <4>3. \A team : Ranking(q, team)' = Ranking(q, team)
        BY <4>2, RankingKept, Zenon
      <4> QED BY <1>2, <1>4, <4>1, <4>3, Zenon DEF CurrentInv
    <3> QED BY <3>1, <3>2, Zenon
  <2>2. ASSUME NEW rows, SummaryInv(rows) PROVE SummaryInv(rows)'
    <3>1. ~Quiet'
      BY <1>6, <1>10, Zenon DEF Quiet
    <3>2. Participants(FALSE)' = Participants(FALSE)
      BY <1>4, <1>12, Zenon DEF Participants
    <3> QED BY <1>12, <2>2, <3>1, <3>2, Zenon DEF SummaryInv
  <2>3. Alone' <=> Alone
    BY Zenon DEF Alone
  <2> QED BY <1>2, <1>4, <2>1, <2>2, <2>3, Zenon DEF CurrentInv
<1> QED BY <1>11, <1>14, <1>15, <1>16, <1>17, Zenon DEF ResultsInv

\* Rows of a kind, upserted into a table of the kind.
LEMMA UpsertWithin ==
  ASSUME NEW rows, NEW table, NEW keys, NEW values, Within(rows, keys, values), Within(table, keys, values)
  PROVE  Within(Upsert(rows, table), keys, values)
<1>1. /\ DOMAIN Upsert(rows, table) = DOMAIN rows \cup DOMAIN table
      /\ \A s \in DOMAIN rows : Upsert(rows, table)[s] = rows[s]
      /\ \A s \in DOMAIN table \ DOMAIN rows : Upsert(rows, table)[s] = table[s]
  BY DEF Upsert
<1> QED BY <1>1, Zenon DEF Within

\* Rows for all participants replace the table.
LEMMA UpsertCounted ==
  ASSUME NEW table, DOMAIN table \subseteq Participants(FALSE)
  PROVE  Upsert(Counted, table) = Counted
<1>1. DOMAIN Counted = Participants(FALSE) /\ Counted = [s \in Participants(FALSE) |-> Counted[s]]
  BY Zenon DEF Counted
<1>2. DOMAIN Counted \cup DOMAIN table = Participants(FALSE)
  BY <1>1, Zenon
<1>3. PICK c : c = Counted
  BY Zenon
<1>4. Upsert(c, table) = [s \in Participants(FALSE) |-> c[s]]
  BY <1>1, <1>2, <1>3, Zenon DEF Upsert
<1> QED BY <1>1, <1>3, <1>4, Zenon

\* A handler at its commit has read all it writes.
LEMMA CommitFacts ==
  ASSUME LocksInv, NEW l \in Lanes, HandlerInv(l), tx[l].pc = "commit"
  PROVE  /\ Finished(tx[l].round) /\ tx[l].points = Ranking(tx[l].round, tx[l].mode)
         /\ tx[l].mode \in setup.modes /\ tx[l].mode \in BOOLEAN /\ tx[l].pc # "idle"
         /\ Standings(tx[l].wrote[2]) /\ Summary(tx[l].wrote[3]) /\ Summary(tx[l].wrote[4])
         /\ Alone => tx[l].wrote[3] = Counted /\ tx[l].wrote[4] = Counted
<1>1. Applying(l) /\ tx[l].pc # "idle" /\ tx[l].pc # "lock" /\ tx[l] # Idle
  BY DEF Applying, Idle
<1>2. tx[l].at = 5 /\ tx[l].mode \in BOOLEAN
  BY <1>1, Zenon DEF LocksInv, HandlerLocks
<1>3. /\ 2 \in 1 .. 4 /\ 3 \in 1 .. 4 /\ 4 \in 1 .. 4 /\ 2 < tx[l].at /\ 3 < tx[l].at /\ 4 < tx[l].at
      /\ 3 \in {3, 4} /\ 4 \in {3, 4}
  BY <1>2
<1>4. ReadRows(2, tx[l].wrote[2]) /\ ReadRows(3, tx[l].wrote[3]) /\ ReadRows(4, tx[l].wrote[4])
  BY <1>1, <1>3, Zenon DEF HandlerInv
<1> QED BY <1>1, <1>2, <1>3, <1>4, Zenon DEF HandlerInv, ReadRows

\* The commit of a handler leaves what it has read, which is still so.
LEMMA CommitResults ==
  ASSUME ResultsInv, LocksInv', setup' = setup, NEW l \in Lanes, CommitHandler(l)
  PROVE  ResultsInv'
<1>1. LocksInv /\ RoundsInv /\ TablesInv /\ CurrentInv /\ HandlerInv(l)
  BY Zenon DEF ResultsInv
<1>2. PICK h : h = tx[l]
  OBVIOUS
<1>3. PICK kept : kept = [s \in DOMAIN tables.standing \ DOMAIN h.wrote[1] |-> tables.standing[s]]
  BY Zenon
<1>4. /\ tx[l].pc = "commit" /\ result' = [result EXCEPT ![h.round] = h.points]
      /\ tables' = [standing |-> Upsert(h.wrote[2], kept), playlist |-> Upsert(h.wrote[3], tables.playlist),
                    summary |-> Upsert(h.wrote[4], tables.summary)]
      /\ log' = [log EXCEPT ![l] = Tail(@)] /\ EndTx(l) /\ round' = round /\ scored' = scored
  BY <1>2, <1>3, Zenon DEF CommitHandler
<1>5. /\ Finished(h.round) /\ h.points = Ranking(h.round, h.mode)
      /\ h.mode \in setup.modes /\ h.mode \in BOOLEAN /\ tx[l].pc # "idle"
      /\ Standings(h.wrote[2]) /\ Summary(h.wrote[3]) /\ Summary(h.wrote[4])
      /\ Alone => h.wrote[3] = Counted /\ h.wrote[4] = Counted
  BY <1>1, <1>2, <1>4, CommitFacts, Zenon
<1>6. h.round \in Rounds
  BY <1>1, <1>2, <1>5, HandlerRound, Zenon
<1>7. DOMAIN result' = Rounds /\ result'[h.round] = h.points /\ \A q \in Rounds \ {h.round} : result'[q] = result[q]
  BY <1>1, <1>4, <1>6 DEF RoundsInv
<1>8. /\ RoundsInv' /\ ExclusionInv' /\ (\A k \in Lanes : HandlerInv(k)')
      /\ \A q : q # tx[l].round /\ QuietRound(q)' => QuietRound(q)
  BY <1>4, <1>5, <1>7, ConsumedRounds, Zenon
<1>9. /\ DOMAIN tables' = {"standing", "playlist", "summary"}
      /\ tables'.standing = Upsert(h.wrote[2], kept) /\ tables'.playlist = Upsert(h.wrote[3], tables.playlist)
      /\ tables'.summary = Upsert(h.wrote[4], tables.summary)
  BY <1>4
<1>10. TablesInv'
  <2>1. Standings(tables.standing) /\ Summary(tables.playlist) /\ Summary(tables.summary)
    BY <1>1, Zenon DEF TablesInv
  <2>2. Standings(kept)
    <3>1. DOMAIN kept \subseteq DOMAIN tables.standing /\ \A s \in DOMAIN kept : kept[s] = tables.standing[s]
      BY <1>3
    <3> QED BY <2>1, <3>1, Zenon DEF Standings, Within
  <2>3. /\ Standings(Upsert(h.wrote[2], kept))
    BY <1>5, <2>2, UpsertWithin, Zenon DEF Standings
  <2>4. Summary(Upsert(h.wrote[3], tables.playlist)) /\ Summary(Upsert(h.wrote[4], tables.summary))
    BY <1>5, <2>1, UpsertWithin, Zenon DEF Summary
  <2>5. ASSUME NEW q \in Rounds PROVE Points(result'[q])
    <3>1. CASE q = h.round
      BY <1>5, <1>7, <3>1, RankingPoints, Zenon
    <3>2. CASE q # h.round
      BY <1>1, <1>7, <3>2, Zenon DEF TablesInv
    <3> QED BY <3>1, <3>2, Zenon
  <2> QED BY <1>9, <2>3, <2>4, <2>5, Zenon DEF TablesInv
<1>11. CurrentInv'
  <2>1. (\A q : Finished(q)' <=> Finished(q)) /\ \A q, team : Ranking(q, team)' = Ranking(q, team)
    BY <1>4, RankingKept, Zenon DEF Finished
  <2>2. ASSUME NEW q \in Rounds
        PROVE  /\ ~Finished(q)' => result'[q] = Empty
               /\ Finished(q)' /\ QuietRound(q)' => \E team \in setup.modes : result'[q] = Ranking(q, team)'
    <3>1. CASE q = h.round
      BY <1>5, <1>7, <2>1, <3>1, Zenon
    <3>2. CASE q # h.round
      BY <1>1, <1>2, <1>7, <1>8, <2>1, <3>2, Zenon DEF CurrentInv
    <3> QED BY <3>1, <3>2, Zenon
  <2>3. Alone' <=> Alone
    BY Zenon DEF Alone
  <2>4. ASSUME Alone PROVE tables'.playlist = Counted /\ tables'.summary = Counted
    <3>1. DOMAIN tables.playlist \subseteq Participants(FALSE) /\ DOMAIN tables.summary \subseteq Participants(FALSE)
      BY <1>1, <2>4, Zenon DEF CurrentInv, SummaryInv
    <3>2. h.wrote[3] = Counted /\ h.wrote[4] = Counted
      BY <1>5, <2>4, Zenon
    <3> QED BY <1>9, <3>1, <3>2, UpsertCounted, Zenon
  <2>5. SummaryInv(Counted)'
    <3>1. DOMAIN Counted' = Participants(FALSE)' /\ \A s \in DOMAIN Counted' : Counted'[s] = Completions(s)'
      BY DEF Counted
    <3>2. Finished(h.round)'
      BY <1>5, <2>1, Zenon
    <3> QED BY <1>6, <3>1, <3>2, Zenon DEF SummaryInv
  <2>6. Alone => tables'.playlist = Counted' /\ tables'.summary = Counted'
    BY <1>4, <2>4, CountsKept, Zenon
  <2>7. Alone => SummaryInv(tables.playlist)' /\ SummaryInv(tables.summary)'
    BY <2>5, <2>6, Zenon DEF SummaryInv
  <2> QED BY <2>2, <2>3, <2>7, Zenon DEF CurrentInv
<1> QED BY <1>8, <1>10, <1>11, Zenon DEF ResultsInv

-----------------------------------------------------------------------------
(* The projections. *)

\* Nothing has started, and nothing is stored.
LEMMA ResultsStart == Init => ResultsInv
<1> SUFFICES ASSUME Init PROVE ResultsInv
  OBVIOUS
<1>1. LocksInv
  BY LocksStart, Zenon
<1>2. /\ DOMAIN round = Rounds /\ DOMAIN scored = Rounds /\ DOMAIN result = Rounds /\ DOMAIN log = Lanes
      /\ \A r \in Rounds : round[r] = NoRound /\ scored[r] = {} /\ result[r] = Empty
      /\ \A l \in Lanes : log[l] = <<>>
      /\ \A p \in Procs : tx[p] = Idle /\ locks[p] = {}
      /\ tables = [standing |-> Empty, playlist |-> Empty, summary |-> Empty]
  BY Zenon DEF Init
<1>3. /\ DOMAIN NoRound = RoundFields /\ NoRound.status = "absent" /\ DOMAIN NoRound.players = {}
      /\ DOMAIN Empty = {} /\ Idle.pc = "idle" /\ <<>> \in Seq(Rounds) /\ DOMAIN <<>> = {}
  BY DEF NoRound, RoundFields, Empty, Idle
<1>4. /\ DOMAIN tables = {"standing", "playlist", "summary"}
      /\ tables.standing = Empty /\ tables.playlist = Empty /\ tables.summary = Empty
  BY <1>2, Zenon
<1>5. \A r \in Rounds : Players(r) = {} /\ ~Started(r) /\ ~Finished(r)
  BY <1>2, <1>3 DEF Players, Started, Finished
<1>6. RoundsInv
  <2>1. \A r \in Rounds : RoundInv(r)
    <3>1. "absent" \in {"absent", "in_progress", "completed", "aborted"}
      OBVIOUS
    <3> QED BY <1>2, <1>3, <1>5, <3>1, Zenon DEF RoundInv
  <2>2. \A a \in Accounts : tx[Submission(a)].pc = "idle"
    BY <1>2, <1>3, ProcFacts, Zenon
  <2> QED BY <1>2, <1>3, <2>1, <2>2, Zenon DEF RoundsInv
<1>7. ExclusionInv
  BY <1>2, Zenon DEF ExclusionInv
<1>8. TablesInv
  BY <1>2, <1>3, <1>4, Zenon DEF TablesInv, Standings, Summary, Points, Within
<1>9. CurrentInv
  <2>1. SummaryInv(Empty)
    BY <1>3, Zenon DEF SummaryInv
  <2> QED BY <1>2, <1>4, <1>5, <2>1, Zenon DEF CurrentInv
<1>10. ASSUME NEW l \in Lanes PROVE HandlerInv(l)
  <2>1. tx[l].pc = "idle"
    BY <1>2, <1>3, ProcFacts, Zenon
  <2>2. ~Applying(l)
    BY <2>1 DEF Applying
  <2> QED BY <2>1, <2>2, Zenon DEF HandlerInv
<1> QED BY <1>1, <1>6, <1>7, <1>8, <1>9, <1>10, Zenon DEF ResultsInv

\* Every step keeps what the projections rest on.
LEMMA ResultsNext == ResultsInv /\ [Next]_vars => ResultsInv'
<1> SUFFICES ASSUME ResultsInv, [Next]_vars PROVE ResultsInv'
  OBVIOUS
<1>1. LocksInv'
  BY LocksNext, Zenon DEF ResultsInv
<1>2. CASE UNCHANGED vars
  <2>1. Frozen /\ setup' = setup /\ tx' = tx /\ locks' = locks
    BY <1>2, Zenon DEF vars, Frozen
  <2>2. DOMAIN tx = Procs /\ DOMAIN locks = Procs
    BY Zenon DEF ResultsInv, LocksInv
  <2>3. Moves(Command, tx[Command], locks[Command])
    BY <2>1, <2>2, Zenon DEF Moves
  <2>4. ExclusionInv'
    BY <2>1, Zenon DEF ResultsInv, ExclusionInv
  <2>5. Command \in Procs /\ Command \notin Lanes /\ \A a \in Accounts : Command # Submission(a)
    BY ProcFacts, Zenon
  <2> QED BY <1>1, <2>1, <2>3, <2>4, <2>5, FrozenStep, Zenon
<1>3. CASE Next
  <2>1. setup' = setup
    BY <1>3, Zenon DEF Next
  <2>2. CASE CommandStep
    BY <1>1, <2>1, <2>2, CommandResults, RoundCommandResults, Zenon DEF CommandStep
  <2>3. CASE \E a \in Accounts : SubmissionStep(a)
    BY <1>1, <2>1, <2>3, LockForScoreResults, BindResults, Zenon DEF SubmissionStep
  <2>4. CASE \E l \in Lanes : HandlerStep(l)
    BY <1>1, <2>1, <2>4, BeginResults, ApplyResults, SkipResults, SelectResults, WriteResults, CommitResults, Zenon
       DEF HandlerStep
  <2>5. ASSUME NEW p \in Procs, Abort(p) PROVE ResultsInv'
    <3>1. EndTx(p) /\ Frozen
      BY <2>5, Zenon DEF Abort, Frozen
    <3> QED BY <1>1, <2>1, <3>1, AbortResults, Zenon
  <2>6. CASE Abort(Command)
    BY <2>5, <2>6, ProcFacts, Zenon
  <2>7. CASE AbortVictim
    <3>1. \E p \in Procs : Abort(p)
      BY <2>7 DEF AbortVictim
    <3> QED BY <2>5, <3>1, Zenon
  <2> QED BY <1>3, <2>2, <2>3, <2>4, <2>5, <2>6, <2>7, Zenon DEF Next
<1> QED BY <1>2, <1>3

\* A session of one round has no two.
LEMMA OneIsAlone ==
  ASSUME ResultsInv, OneRound
  PROVE  Alone
<1>1. setup.rounds \subseteq Rounds
  BY SetupsAssumption, Zenon DEF ResultsInv, LocksInv
<1>2. IsFiniteSet(setup.rounds)
  BY <1>1, RoundsAssumption, FS_Subset, Zenon
<1>3. \E x : setup.rounds = {x}
  BY <1>2, FS_Singleton, Zenon DEF OneRound
<1> QED BY <1>3, Zenon DEF Alone

\* What the projections rest on makes them complete.
LEMMA InvComplete == ResultsInv => ProjectionsComplete
<1> SUFFICES ASSUME ResultsInv PROVE ProjectionsComplete
  BY Zenon
<1>1. LocksInv /\ RoundsInv /\ TablesInv /\ CurrentInv
  BY Zenon DEF ResultsInv
<1>2. TypeOK
  <2>1. \A l \in Lanes : \A i \in DOMAIN log[l] : log[l][i] \in Rounds
    BY <1>1 DEF RoundsInv
  <2>2. \A r \in Rounds : RoundInv(r) /\ Points(result[r])
    BY <1>1, Zenon DEF RoundsInv, TablesInv
  <2>3. \A t \in {"playlist", "summary"} : Summary(tables[t])
    BY <1>1, Zenon DEF TablesInv
  <2>4. \A rows, s : Summary(rows) /\ s \in DOMAIN rows => rows[s] \subseteq Rounds
    BY Zenon DEF Summary, Within
  <2>5. \A rows : Summary(rows) => DOMAIN rows \subseteq Subjects(FALSE)
    BY Zenon DEF Summary, Within
  <2> QED BY <1>1, <2>1, <2>2, <2>3, <2>4, <2>5, Zenon
          DEF TypeOK, LocksInv, TablesInv, RoundInv, Points, Standings, Within
<1>3. ResultsComplete
  BY <1>1, Zenon DEF CurrentInv, ResultsComplete
<1>4. SummariesCurrent
  <2> SUFFICES ASSUME Quiet, OneRound
               PROVE  \A t \in {"playlist", "summary"} : \A s \in DOMAIN tables[t] : tables[t][s] = Completions(s)
    BY Zenon DEF SummariesCurrent
  <2>1. SummaryInv(tables.playlist) /\ SummaryInv(tables.summary)
    BY <1>1, OneIsAlone, Zenon DEF CurrentInv
  <2>2. /\ \A s \in DOMAIN tables.playlist : tables.playlist[s] = Completions(s)
        /\ \A s \in DOMAIN tables.summary : tables.summary[s] = Completions(s)
    BY <2>1, Zenon DEF SummaryInv
  <2> QED BY <2>2
<1> QED BY <1>2, <1>3, <1>4, Zenon DEF ProjectionsComplete

\* The rows of the projections keep their types, and once the events of a round
\* are applied its results rank exactly the scores bound to it and, in a session
\* of one round, both summaries count them, whatever interleaving, retry, crash
\* or deadlock came before (_apply_round and the rebuilds it calls).
THEOREM ProjectionsStayComplete == Spec => []ProjectionsComplete
  BY ResultsStart, ResultsNext, InvComplete, PTL DEF Spec

=============================================================================
