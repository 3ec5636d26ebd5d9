--------------------------- MODULE ScoreAcceptance ---------------------------
(***************************************************************************)
(* ScoringService.accept: one transaction turns a submitted play into a    *)
(* score, its unlocks and its events. A play is submitted again whenever   *)
(* its answer is lost, so three layers recognise it: the command receipt,  *)
(* the solo token (Lazer) and the play attempt.                            *)
(*                                                                         *)
(* The plays are those of one account on one beatmap. Submissions of other *)
(* accounts meet them only in the rows of a common multiplayer round, for  *)
(* which they wait once; the opportunities here are of different sessions. *)
(* Postgres runs at READ COMMITTED; a transaction's writes are kept in its *)
(* request record until it commits, its locks follow from how far it is.   *)
(***************************************************************************)
EXTENDS Naturals, FiniteSets

CONSTANTS
  Requests,       \* submissions being processed concurrently
  FactsOf(_),     \* the attempt facts a Stable body carries
  ReceiptTtl,     \* receipt_ttl
  TokenLifetime,  \* solo_token_lifetime
  Setups          \* what the account plays and what may happen meanwhile

\* The plays, each with its own idempotency keys, and those of them started
\* with a solo token, the others are Stable; the request digests; the score
\* achievements by definition id; the multiplayer attempts issued to the
\* account and their expires_at; bounds on the clock, the Score identity
\* column, the revisions of the beatmap and the restrictions imposed.
ASSUME ScoreAcceptanceAssumption ==
  /\ ReceiptTtl \in Nat \ {0}
  /\ TokenLifetime \in Nat \ {0}
  /\ \A s \in Setups :
       /\ s.lazer \subseteq s.plays
       /\ s.achievements \subseteq Nat \ {0}
       /\ {s.end, s.time, s.scores, s.revisions, s.sanctions} \subseteq Nat

VARIABLES
  setup,         \* an element of Setups, never changed
  now,           \* clock of the application
  revision,      \* current revision of the beatmap
  restrictions,  \* committed restriction sanctions of the account
  started,       \* plays begun by a client: token row, or chart of a Stable client
  receipt,       \* committed command receipts
  attempt,       \* committed PlayAttempt rows
  score,         \* committed Score rows
  opportunity,   \* Score.id bound to a multiplayer attempt
  unlock,        \* Score.id that unlocked an achievement
  event,         \* committed score.accepted.v1 events per score
  unlock_event,  \* committed social.achievement-unlocked.v1 events
  next_score,    \* next value of the Score identity column
  request,       \* open transactions
  answers        \* scores the clients were told of

rows == <<receipt, attempt, score, opportunity, unlock, event, unlock_event>>
world == <<now, revision, restrictions>>
vars == <<setup, world, started, rows, next_score, request, answers>>

-----------------------------------------------------------------------------
(* Rows and transactions; 0 is SQL NULL *)

Plays == setup.plays
LazerPlays == setup.lazer
Achievements == setup.achievements
Opportunities == setup.opportunities
OpportunityEnd == setup.end
ScoreIds == 1 .. setup.scores

NoReceipt == [claimed |-> FALSE, body |-> 0, score |-> 0, expires_at |-> 0]
NotStarted == [begun |-> FALSE, revision |-> 0, expires_at |-> 0, score |-> 0]
NoAttempt == [made |-> FALSE, facts |-> 0]

Idle ==
  [pc |-> "idle", play |-> 0, body |-> 0, at |-> 0, context |-> {}, score |-> 0,
   earned |-> {}, unlocked |-> {}, lane |-> FALSE]

\* Steps at which the transaction has done more than the one named.
Claimed == {"validate", "token", "resolve", "attempt", "multiplayer", "insert",
            "award", "publish", "append", "commit"}
Validated == Claimed \ {"validate"}
Bound == {"insert", "award", "publish", "append", "commit"}
Attempting == Bound \cup {"multiplayer"}

\* ended_at of a Lazer attempt is the clock at the request, so that every
\* request carries facts of its own; a Stable body brings its facts.
Facts(r) == IF r.play \in LazerPlays THEN <<r.body, r.at>> ELSE <<FactsOf(r.body)>>

Restricted(at) ==
  \E s \in restrictions : s.starts_at <= at /\ at < s.ends_at /\ ~s.revoked

ScoreOf(p) == {s \in score : s.play = p}

-----------------------------------------------------------------------------
(* Locks *)

Others(q) == Requests \ {q}

\* CommandReceipt, by its unique key or FOR UPDATE.
ReceiptHolders(p) == {q \in Requests : request[q].pc \in Claimed /\ request[q].play = p}

\* PlayAttemptToken FOR UPDATE.
TokenHolders(p) ==
  {q \in Requests : request[q].pc \in Attempting \cup {"resolve", "attempt"}
                    /\ request[q].play = p}

\* PlayAttempt inserted but not committed.
AttemptHolders(p) == {q \in Requests : request[q].pc \in Attempting /\ request[q].play = p}

\* Mutant: the account is read without FOR SHARE.
PlainAccountReaders == {}

\* Account FOR SHARE.
AccountReaders == {q \in Requests : request[q].pc \in Validated}

\* MultiplayerAttempt FOR UPDATE.
OpportunityHolders(m) == {q \in Requests : request[q].pc \in Bound /\ m \in request[q].context}

\* AchievementUnlock inserted but not committed.
UnlockHolders(a) == {q \in Requests : a \in request[q].unlocked}

\* Advisory lock of the achievement consumer's lane "account:<id>".
AccountLaneHolders == {q \in Requests : request[q].lane}

\* Mutant: the event is appended before the achievements are awarded.
EarlyScoreLaneHolders == {q \in Requests : request[q].pc \in Bound}

\* Advisory locks of the score consumers' lanes "account:<id>:ruleset:<ruleset>".
ScoreLaneHolders == {q \in Requests : request[q].pc = "commit"}

Smallest(S) == CHOOSE n \in S : \A m \in S : n <= m

\* The transactions the next statement of q waits for.
WaitsFor(q) ==
  LET r == request[q]
      holders == CASE r.pc = "claim"       -> ReceiptHolders(r.play)
                   [] r.pc = "token"       -> TokenHolders(r.play)
                   [] r.pc = "attempt"     -> AttemptHolders(r.play)
                   [] r.pc = "multiplayer" -> UNION {OpportunityHolders(m) : m \in r.context}
                   [] r.pc = "award"       -> IF r.earned = {} THEN {}
                                              ELSE UnlockHolders(Smallest(r.earned))
                   [] r.pc = "publish"     -> AccountLaneHolders
                   [] r.pc = "append"      -> ScoreLaneHolders
                   [] OTHER                -> {}
  IN  holders \cap Others(q)

Free(q) == WaitsFor(q) = {}

Deadlocked(S) == S # {} /\ \A q \in S : WaitsFor(q) \cap S # {}

-----------------------------------------------------------------------------
(* Clients *)

\* issue_solo_token: the token binds the revision that is current.
IssueSoloToken(p) ==
  /\ p \in LazerPlays
  /\ ~started[p].begun
  /\ ~Restricted(now)
  /\ started' = [started EXCEPT ![p] = [begun |-> TRUE, revision |-> revision,
                                        expires_at |-> now + TokenLifetime, score |-> 0]]
  /\ UNCHANGED <<world, rows, next_score, request, answers>>

\* A Stable client starts a play on the chart it has; its MD5 names the revision.
StartStable(p) ==
  /\ p \in Plays \ LazerPlays
  /\ ~started[p].begun
  /\ started' = [started EXCEPT ![p] = [begun |-> TRUE, revision |-> revision,
                                        expires_at |-> 0, score |-> 0]]
  /\ UNCHANGED <<world, rows, next_score, request, answers>>

\* resolve_submission_context, read before the transaction: an opportunity that
\* looks open, if there is one. Lazer solo submissions have no context.
Context(p) ==
  LET open == {m \in Opportunities : opportunity[m] = 0 /\ now < OpportunityEnd}
  IN  IF p \in LazerPlays \/ open = {} THEN {{}} ELSE {{m} : m \in open} \cup {{}}

\* A client submits a play, for the first time or again. accept reads the clock
\* once, before the transaction.
Submit(q, p, b, context) ==
  /\ request[q].pc = "idle"
  /\ started[p].begun
  /\ context \in Context(p)
  /\ request' = [request EXCEPT ![q] =
       [Idle EXCEPT !.pc = "claim", !.play = p, !.body = b, !.at = now, !.context = context]]
  /\ UNCHANGED <<world, started, rows, next_score, answers>>

\* The answer reaches the client, or is lost after the commit.
Answer(p, s) == answers' \in {answers, answers \cup {<<p, s>>}}

-----------------------------------------------------------------------------
(* accept *)

Goto(q, pc) == request' = [request EXCEPT ![q].pc = pc]

\* Mutant: advisory locks belong to the session and outlive the transaction.
FinishKeepingLane(q) ==
  request' = [request EXCEPT ![q] = [Idle EXCEPT !.lane = request[q].lane]]

\* The transaction ends: its session is closed and its locks are released.
Finish(q) == request' = [request EXCEPT ![q] = Idle]

\* A crash, a lost connection, a deadlock victim or a failed validate_score: the
\* unit of work rolls back and the locks are released.
Rollback(q) ==
  /\ request[q].pc # "idle"
  /\ Finish(q)
  /\ UNCHANGED <<world, started, rows, next_score, answers>>

\* claim_acceptance: a missing or expired receipt is claimed.
ClaimReceipt(q) ==
  LET r == request[q]
      found == receipt[r.play]
  IN  /\ r.pc = "claim"
      /\ Free(q)
      /\ ~found.claimed \/ found.expires_at <= r.at
      /\ Goto(q, "validate")
      /\ UNCHANGED <<world, started, rows, next_score, answers>>

\* The exceptions of accept and the repository; __aexit__ rolls back.
Refused(q) ==
  LET r == request[q]
      p == r.play
  IN  CASE r.pc = "claim"       -> /\ Free(q) /\ receipt[p].claimed
                                   /\ r.at < receipt[p].expires_at
                                   /\ receipt[p].body # r.body
        [] r.pc = "validate"    -> Restricted(r.at)
        [] r.pc = "token"       -> /\ Free(q) /\ started[p].score = 0
                                   /\ started[p].expires_at <= r.at
        [] r.pc = "resolve"     -> started[p].revision # revision
        [] r.pc = "attempt"     -> /\ Free(q) /\ attempt[p].made
                                   /\ attempt[p].facts # Facts(r)
        [] r.pc = "multiplayer" -> /\ Free(q)
                                   /\ \/ OpportunityEnd <= r.at
                                      \/ \E m \in r.context : opportunity[m] # 0
        [] OTHER                -> FALSE

Reject(q) ==
  /\ Refused(q)
  /\ Finish(q)
  /\ UNCHANGED <<world, started, rows, next_score, answers>>

\* claim_acceptance: a live receipt answers an exact replay.
ReplayReceipt(q) ==
  LET r == request[q]
      found == receipt[r.play]
  IN  /\ r.pc = "claim"
      /\ Free(q)
      /\ found.claimed /\ r.at < found.expires_at
      /\ found.body = r.body
      /\ Answer(r.play, found.score)
      /\ Finish(q)
      /\ UNCHANGED <<world, started, rows, next_score>>

\* The account validator takes Account FOR SHARE, then looks for restrictions.
ValidateAccount(q) ==
  /\ request[q].pc = "validate"
  /\ ~Restricted(request[q].at)
  /\ Goto(q, IF request[q].play \in LazerPlays THEN "token" ELSE "resolve")
  /\ UNCHANGED <<world, started, rows, next_score, answers>>

\* complete_acceptance and commit with the result of an earlier request.
CompleteWithPrior(q, s) ==
  LET r == request[q]
  IN  /\ receipt' = [receipt EXCEPT ![r.play] =
           [claimed |-> TRUE, body |-> r.body, score |-> s, expires_at |-> r.at + ReceiptTtl]]
      /\ Answer(r.play, s)
      /\ Finish(q)
      /\ UNCHANGED <<world, started, attempt, score, opportunity, unlock, event,
                     unlock_event, next_score>>

\* claim_solo_token: an unused token must be unexpired.
ClaimToken(q) ==
  LET token == started[request[q].play]
  IN  /\ request[q].pc = "token"
      /\ Free(q)
      /\ token.score = 0
      /\ request[q].at < token.expires_at
      /\ Goto(q, "resolve")
      /\ UNCHANGED <<world, started, rows, next_score, answers>>

\* claim_solo_token: a used token answers with its score, expired or not.
ReplayToken(q) ==
  LET token == started[request[q].play]
  IN  /\ request[q].pc = "token"
      /\ Free(q)
      /\ token.score # 0
      /\ \E s \in score : s.id = token.score
      /\ CompleteWithPrior(q, token.score)

\* resolve_current_revision: the token's revision, or the one the MD5 names,
\* must still be current. The revision is read without a lock.
ResolveRevision(q) ==
  /\ request[q].pc = "resolve"
  /\ started[request[q].play].revision = revision
  /\ Goto(q, "attempt")
  /\ UNCHANGED <<world, started, rows, next_score, answers>>

\* Mutant: an attempt that exists is taken as claimed by this submission.
ClaimAnyAttempt(q) ==
  /\ request[q].pc = "attempt"
  /\ Free(q)
  /\ Goto(q, IF request[q].context = {} THEN "insert" ELSE "multiplayer")
  /\ UNCHANGED <<world, started, rows, next_score, answers>>

\* claim_attempt inserts the attempt, or finds an attempt without a score.
ClaimAttempt(q) ==
  LET r == request[q]
      found == attempt[r.play]
  IN  /\ r.pc = "attempt"
      /\ Free(q)
      /\ found.made => found.facts = Facts(r) /\ ScoreOf(r.play) = {}
      /\ Goto(q, IF r.context = {} THEN "insert" ELSE "multiplayer")
      /\ UNCHANGED <<world, started, rows, next_score, answers>>

\* claim_attempt finds the attempt with its score.
ReplayAttempt(q) ==
  LET r == request[q]
  IN  /\ r.pc = "attempt"
      /\ Free(q)
      /\ attempt[r.play].made
      /\ attempt[r.play].facts = Facts(r)
      /\ \E s \in ScoreOf(r.play) : CompleteWithPrior(q, s.id)

\* The multiplayer validator locks the opportunity and looks at it again.
ValidateMultiplayer(q) ==
  LET r == request[q]
  IN  /\ r.pc = "multiplayer"
      /\ Free(q)
      /\ \A m \in r.context : opportunity[m] = 0 /\ r.at < OpportunityEnd
      /\ Goto(q, "insert")
      /\ UNCHANGED <<world, started, rows, next_score, answers>>

\* insert_score draws an id; the achievements the score earns are chosen among
\* those not unlocked by a committed transaction.
InsertScore(q, earned) ==
  /\ request[q].pc = "insert"
  /\ next_score \in ScoreIds
  /\ earned \subseteq {a \in Achievements : unlock[a] = 0}
  /\ next_score' = next_score + 1
  /\ request' = [request EXCEPT ![q].pc = "award", ![q].score = next_score,
                                ![q].earned = earned]
  /\ UNCHANGED <<world, started, rows, answers>>

\* unlock_achievement, in definition order: the first transaction to insert
\* wins, one that waited finds the row and goes on to the next definition.
UnlockAchievement(q) ==
  LET a == Smallest(request[q].earned)
  IN  /\ request[q].pc = "award"
      /\ request[q].earned # {}
      /\ Free(q)
      /\ IF unlock[a] = 0
         THEN request' = [request EXCEPT ![q].pc = "publish",
                                         ![q].unlocked = request[q].unlocked \cup {a}]
         ELSE request' = [request EXCEPT ![q].earned = request[q].earned \ {a}]
      /\ UNCHANGED <<world, started, rows, next_score, answers>>

\* The event of a new unlock is appended under the lane's advisory lock.
PublishUnlock(q) ==
  /\ request[q].pc = "publish"
  /\ Free(q)
  /\ request' = [request EXCEPT ![q].pc = "award", ![q].lane = TRUE,
                                ![q].earned = request[q].earned \ {Smallest(request[q].earned)}]
  /\ UNCHANGED <<world, started, rows, next_score, answers>>

\* bind_score and complete_solo_token change rows the transaction has locked.
BindScore(q) ==
  /\ request[q].pc = "award"
  /\ request[q].earned = {}
  /\ Goto(q, "append")
  /\ UNCHANGED <<world, started, rows, next_score, answers>>

\* The score.accepted.v1 event is appended under its lanes' advisory locks.
AppendEvent(q) ==
  /\ request[q].pc = "append"
  /\ Free(q)
  /\ Goto(q, "commit")
  /\ UNCHANGED <<world, started, rows, next_score, answers>>

\* Mutant: the token is not marked as used.
LeaveToken(r) == started

\* complete_solo_token binds the token to the score.
UseToken(r) ==
  IF r.play \in LazerPlays THEN [started EXCEPT ![r.play].score = r.score] ELSE started

\* complete_acceptance and commit of a new score.
Commit(q) ==
  LET r == request[q]
      p == r.play
      s == [id |-> r.score, play |-> p, at |-> r.at, context |-> r.context]
  IN  /\ r.pc = "commit"
      /\ receipt' = [receipt EXCEPT ![p] = [claimed |-> TRUE, body |-> r.body,
                                            score |-> s.id, expires_at |-> r.at + ReceiptTtl]]
      /\ attempt' = [attempt EXCEPT ![p] = [made |-> TRUE, facts |-> Facts(r)]]
      /\ score' = score \cup {s}
      /\ started' = UseToken(r)
      /\ opportunity' = [m \in Opportunities |->
                           IF m \in r.context THEN s.id ELSE opportunity[m]]
      /\ unlock' = [a \in Achievements |-> IF a \in r.unlocked THEN s.id ELSE unlock[a]]
      /\ event' = [event EXCEPT ![s.id] = event[s.id] + 1]
      /\ unlock_event' = [a \in Achievements |->
                            IF a \in r.unlocked THEN unlock_event[a] + 1 ELSE unlock_event[a]]
      /\ Answer(p, s.id)
      /\ Finish(q)
      /\ UNCHANGED <<world, next_score>>

-----------------------------------------------------------------------------
(* The rest of the system *)

\* impose_sanction holds Account FOR UPDATE, so that it waits for every
\* submission that has validated the account, and refuses to overlap.
ImposeRestriction(starts_at, ends_at) ==
  /\ Cardinality(restrictions) < setup.sanctions
  /\ AccountReaders = {}
  /\ starts_at < ends_at
  /\ ~ \E s \in restrictions : ~s.revoked /\ starts_at < s.ends_at /\ s.starts_at < ends_at
  /\ restrictions' = restrictions \cup
       {[starts_at |-> starts_at, ends_at |-> ends_at, imposed_until |-> ends_at,
         revoked |-> FALSE]}
  /\ UNCHANGED <<now, revision, started, rows, next_score, request, answers>>

\* extend_sanction locks the sanction, not its subject.
ExtendRestriction(s, ends_at) ==
  /\ ~s.revoked
  /\ s.ends_at < ends_at
  /\ restrictions' = (restrictions \ {s}) \cup {[s EXCEPT !.ends_at = ends_at]}
  /\ UNCHANGED <<now, revision, started, rows, next_score, request, answers>>

RevokeRestriction(s) ==
  /\ ~s.revoked
  /\ restrictions' = (restrictions \ {s}) \cup {[s EXCEPT !.revoked = TRUE]}
  /\ UNCHANGED <<now, revision, started, rows, next_score, request, answers>>

\* Content synchronisation makes a new revision current.
PublishRevision ==
  /\ revision < setup.revisions
  /\ revision' = revision + 1
  /\ UNCHANGED <<now, restrictions, started, rows, next_score, request, answers>>

Tick ==
  /\ now < setup.time
  /\ now' = now + 1
  /\ UNCHANGED <<revision, restrictions, started, rows, next_score, request, answers>>

-----------------------------------------------------------------------------

Init ==
  /\ setup \in Setups
  /\ now = 0
  /\ revision = 0
  /\ restrictions = {}
  /\ started = [p \in Plays |-> NotStarted]
  /\ receipt = [p \in Plays |-> NoReceipt]
  /\ attempt = [p \in Plays |-> NoAttempt]
  /\ score = {}
  /\ opportunity = [m \in Opportunities |-> 0]
  /\ unlock = [a \in Achievements |-> 0]
  /\ event = [s \in ScoreIds |-> 0]
  /\ unlock_event = [a \in Achievements |-> 0]
  /\ next_score = 1
  /\ request = [q \in Requests |-> Idle]
  /\ answers = {}

\* A step of accept; each ends the transaction or brings it further.
AcceptStep(q) ==
  \/ Reject(q)
  \/ ClaimReceipt(q)
  \/ ReplayReceipt(q)
  \/ ValidateAccount(q)
  \/ ClaimToken(q)
  \/ ReplayToken(q)
  \/ ResolveRevision(q)
  \/ ClaimAttempt(q)
  \/ ReplayAttempt(q)
  \/ ValidateMultiplayer(q)
  \/ \E earned \in SUBSET Achievements : InsertScore(q, earned)
  \/ UnlockAchievement(q)
  \/ PublishUnlock(q)
  \/ BindScore(q)
  \/ AppendEvent(q)
  \/ Commit(q)

ClientStep ==
  \/ \E p \in Plays : IssueSoloToken(p) \/ StartStable(p)
  \/ \E q \in Requests, p \in Plays, b \in setup.bodies, c \in SUBSET Opportunities :
       Submit(q, p, b, c)

ModeratorStep ==
  \/ \E from, until \in 0 .. setup.time + 1 : ImposeRestriction(from, until)
  \/ \E s \in restrictions, until \in 0 .. setup.time + 1 : ExtendRestriction(s, until)
  \/ \E s \in restrictions : RevokeRestriction(s)

Next ==
  /\ \/ ClientStep
     \/ \E q \in Requests : AcceptStep(q) \/ Rollback(q)
     \/ ModeratorStep
     \/ PublishRevision
     \/ Tick
  /\ UNCHANGED setup

Spec == Init /\ [][Next]_vars

-----------------------------------------------------------------------------
(* Properties *)

\* An open transaction of accept.
Submission ==
  [pc : {"idle", "claim"} \cup Claimed, play : Plays \cup {0}, body : setup.bodies \cup {0},
   at : Nat, context : SUBSET Opportunities, score : Nat,
   earned : SUBSET Achievements, unlocked : SUBSET Achievements, lane : BOOLEAN]

\* Every row, transaction and answer of accept has its type.
TypeOK ==
  /\ now \in Nat
  /\ revision \in Nat
  /\ restrictions \subseteq [starts_at : Nat, ends_at : Nat, imposed_until : Nat,
                             revoked : BOOLEAN]
  /\ started \in [Plays -> [begun : BOOLEAN, revision : Nat, expires_at : Nat, score : Nat]]
  /\ receipt \in [Plays -> [claimed : BOOLEAN, body : setup.bodies \cup {0}, score : Nat,
                            expires_at : Nat]]
  /\ DOMAIN attempt = Plays
  /\ score \subseteq [id : ScoreIds, play : Plays, at : Nat, context : SUBSET Opportunities]
  /\ opportunity \in [Opportunities -> Nat]
  /\ unlock \in [Achievements -> Nat]
  /\ event \in [ScoreIds -> Nat]
  /\ unlock_event \in [Achievements -> Nat]
  /\ next_score \in Nat \ {0}
  /\ request \in [Requests -> Submission]
  /\ answers \subseteq Plays \X Nat

\* However often a play is submitted, with whatever body, and however often its
\* receipt expires, it becomes at most one score.
OneScorePerPlay ==
  \A s, t \in score : s.play = t.play => s = t

\* Receipt, token, attempt and score of a play agree: a committed receipt is
\* complete and names the score of its play, an attempt is committed exactly with
\* its score, and a Lazer score has used its token. So _result_from_receipt never
\* meets an incomplete snapshot, claim_attempt never finds an attempt without a
\* score, and accept never finds a token whose score is unavailable.
LayersAgree ==
  /\ TypeOK
  /\ \A p \in Plays :
       /\ receipt[p].claimed => \E s \in ScoreOf(p) : s.id = receipt[p].score
       /\ attempt[p].made <=> ScoreOf(p) # {}
       /\ p \in LazerPlays => (started[p].score # 0 <=> ScoreOf(p) # {})
       /\ \A s \in ScoreOf(p) : p \in LazerPlays => started[p].score = s.id

\* Every score has exactly one score.accepted.v1 event, and an event has a score.
AcceptedOncePerScore ==
  \A id \in ScoreIds : event[id] = Cardinality({s \in score : s.id = id})

\* Whatever layer answers, every answer to a play names the same score.
SameAnswer ==
  \A x, y \in answers : x[1] = y[1] => x = y

\* A multiplayer attempt is bound to exactly the score that was accepted for it,
\* although its context is resolved before the transaction.
OpportunityUsedOnce ==
  \A m \in Opportunities :
    {s.id : s \in {t \in score : m \in t.context}} =
      IF opportunity[m] = 0 THEN {} ELSE {opportunity[m]}

\* An achievement is unlocked once, by a committed score, and announced once.
UnlockedOnce ==
  \A a \in Achievements :
    /\ unlock_event[a] = IF unlock[a] = 0 THEN 0 ELSE 1
    /\ unlock[a] # 0 => \E s \in score : s.id = unlock[a]

\* Retries, expiries, lost answers and rivals notwithstanding, what accept grants
\* is granted once: one score and one event per play, one answer to all its
\* requests, one score per multiplayer attempt, one unlock per achievement.
GrantedOnce ==
  OneScorePerPlay /\ AcceptedOncePerScore /\ SameAnswer /\ OpportunityUsedOnce /\ UnlockedOnce

\* Transactions wait for each other in a circle only inside award_for_score, where
\* one holds the lane of the account and wants an unlock that another, waiting for
\* the lane, has inserted. All other locks of accept are taken in one order.
CircularWaitOnlyInAwards ==
  \A S \in SUBSET Requests : Deadlocked(S) =>
    \E q, r \in S : request[q].pc = "award" /\ request[r].pc = "publish"

\* While a restriction is in force no score is committed that was received within
\* the term it was imposed for: imposing waits for the submissions that validated
\* the account before it. (An extension does not wait, so that the extended part
\* of a term is not promised.)
NoScoreUnderRestriction ==
  [][\A s \in score' \ score : ~ \E r \in restrictions :
       ~r.revoked /\ r.starts_at <= s.at /\ s.at < r.imposed_until]_vars
=============================================================================
