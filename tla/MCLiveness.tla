----------------------------- MODULE MCLiveness -----------------------------
(* What must eventually happen, in the outbox, in score acceptance and in    *)
(* the sessions, checked as the parts of one state space.                    *)
EXTENDS OutboxLiveness

CONSTANT None

VARIABLES part,
  setup, revision, restrictions, started, receipt, attempt, score, opportunity,
  unlock, event, unlock_event, next_score, request, answers,
  cred, sess, uses, opened, closed, cache, advisory, rowLock, req, polled,
  dur, idle, rt, lease, presence, tok, h, failed, lost

outboxVars ==
  <<position, writer, delivery, relay, stream, worker, applied, checkpoint, faults>>
scoreVars ==
  <<setup, revision, restrictions, started, receipt, attempt, score, opportunity,
    unlock, event, unlock_event, next_score, request, answers>>
clientVars == <<cred, sess, uses, opened, closed, cache, advisory, rowLock, req, polled>>
stableVars == <<dur, idle, rt, lease, presence, tok, h, failed, lost>>

allVars == <<part, now, outboxVars, scoreVars, clientVars, stableVars>>

MCLockKey(c, p) == 1
MCFactsOf(b) == b

Submitters == {"q1", "q2"}
Handlers == {"p1", "p2"}

\* Two plays that compete for one multiplayer attempt and two achievements.
Contention ==
  [plays |-> {"first", "second"}, lazer |-> {}, bodies |-> {1}, achievements |-> {1, 2},
   opportunities |-> {"m1"}, end |-> 1, time |-> 1, scores |-> 3, revisions |-> 0,
   sanctions |-> 0]

S == INSTANCE ScoreAcceptanceLiveness WITH
  Requests <- Submitters, FactsOf <- MCFactsOf, ReceiptTtl <- 1, TokenLifetime <- 1,
  Setups <- {Contention}

\* Logins, polls and logouts wait for the advisory lock and the session row.
C == INSTANCE ClientSessions WITH
  Procs <- Handlers, Sessions <- {"s1", "s2"}, StaleGrace <- 2, TouchInterval <- 1,
  Lifetime <- 3, Algorithms <- {"argon2id"}, MaxTime <- 2, MaxVersion <- 2,
  Kinds <- {"login", "touch", "close"}

\* Stable logins that fail at any call and clients that crash.
T == INSTANCE StableSessions WITH
  Clients <- Handlers, Sessions <- {"s1", "s2"}, Grace <- 1, RtTtl <- 2,
  Failing <- {"list", "open", "join", "presence", "answer", "fence", "close", "crash"}

NoOutbox ==
  /\ position = None /\ writer = None /\ delivery = None /\ relay = None /\ stream = None
  /\ worker = None /\ applied = None /\ checkpoint = None /\ faults = None
NoScore ==
  /\ setup = None /\ revision = None /\ restrictions = None /\ started = None
  /\ receipt = None /\ attempt = None /\ score = None /\ opportunity = None
  /\ unlock = None /\ event = None /\ unlock_event = None /\ next_score = None
  /\ request = None /\ answers = None
NoClients ==
  /\ cred = None /\ sess = None /\ uses = None /\ opened = None /\ closed = None
  /\ cache = None /\ advisory = None /\ rowLock = None /\ req = None /\ polled = None
NoStable ==
  /\ dur = None /\ idle = None /\ rt = None /\ lease = None /\ presence = None
  /\ tok = None /\ h = None /\ failed = None /\ lost = None

PartsInit ==
  \/ part = "outbox" /\ Init /\ NoScore /\ NoClients /\ NoStable
  \/ part = "score" /\ S!Init /\ NoOutbox /\ NoClients /\ NoStable
  \/ part = "client" /\ C!Init /\ NoOutbox /\ NoScore /\ NoStable
  \/ part = "stable" /\ now = 0 /\ T!Init /\ NoOutbox /\ NoScore /\ NoClients

InOutbox(A) ==
  part = "outbox" /\ A /\ UNCHANGED <<part, scoreVars, clientVars, stableVars>>
InScore(A) ==
  part = "score" /\ A /\ UNCHANGED <<part, outboxVars, clientVars, stableVars>>
InClient(A) ==
  part = "client" /\ A /\ UNCHANGED <<part, outboxVars, scoreVars, stableVars>>
InStable(A) ==
  part = "stable" /\ A /\ UNCHANGED <<part, now, outboxVars, scoreVars, clientVars>>

PartsNext ==
  InOutbox(TimelyNext) \/ InScore(S!SteadyNext) \/ InClient(C!Next) \/ InStable(T!Next)

\* The fairness each part states for itself.
PartsFairness ==
  /\ \A r \in Relays : WF_allVars(InOutbox(RelayProgress(r)))
  /\ \A k \in Workers : WF_allVars(InOutbox(WorkerProgress(k)))
  /\ WF_allVars(InOutbox(TimelyTick))
  /\ \A q \in Submitters : WF_allVars(InScore(S!Progress(q)))
  /\ \A p \in Handlers : SF_allVars(InClient(C!Step(p)))
  /\ \A c \in Handlers : WF_allVars(InStable(T!Step(c)))
  /\ WF_allVars(InStable(T!Tick))

PartsSpec == PartsInit /\ [][PartsNext]_allVars /\ PartsFairness

\* Submitters, handlers and sessions are interchangeable in their modules, so
\* the properties below speak of one of each.

\* Every committed delivery is eventually applied, dead-lettered or stuck
\* behind a dead letter, whatever was lost, crashed or failed to enqueue: what
\* is settled stays so, and the outbox always drains again.
EventuallySettled ==
  (part = "outbox") ~> (part = "outbox" /\ \A d \in DeliveryIds : Visible(d) => Settled(d))

\* Every submission ends, although submissions wait for receipts, multiplayer
\* attempts, unlocks and lanes of each other.
EverySubmissionEnds ==
  (part = "score" /\ request["q1"].pc # "idle") ~> (part = "score" /\ request["q1"].pc = "idle")

\* No login, poll or logout waits for a lock forever.
RequestsAnswered ==
  (part = "client" /\ ~C!Fresh("p1")) ~> (part = "client" /\ C!Fresh("p1"))

\* A presence whose durable session has ended disappears, although the two
\* stores are never changed together and a handler may die in between.
GhostsVanish ==
  (part = "stable" /\ presence = "s1" /\ "s1" \notin T!Open)
    ~> (part = "stable" /\ presence # "s1")
=============================================================================
