----------------------- MODULE ScoreAcceptanceLiveness -----------------------
(***************************************************************************)
(* Submissions end: the locks of accept delay a transaction, never forever.*)
(***************************************************************************)
EXTENDS ScoreAcceptance

\* Postgres aborts a transaction of every circle of waiting transactions.
AbortVictim(q) ==
  /\ \E S \in SUBSET Requests : q \in S /\ Deadlocked(S)
  /\ Rollback(q)

\* Bound: clients submit while an id is left for every open submission.
IdsLeft ==
  next_score + Cardinality({q \in Requests : request[q].pc # "idle"}) <= setup.scores

\* Nothing crashes: a rollback is a refusal or the choice of a victim.
SteadyNext ==
  /\ \/ IdsLeft /\ ClientStep
     \/ \E q \in Requests : AcceptStep(q) \/ AbortVictim(q)
     \/ Tick
  /\ UNCHANGED setup

Progress(q) == (AcceptStep(q) \/ AbortVictim(q)) /\ UNCHANGED setup

\* Event loops and Postgres run every transaction that does not wait, and the
\* deadlock detector runs.
SteadySpec ==
  /\ Init
  /\ [][SteadyNext]_vars
  /\ \A q \in Requests : WF_vars(Progress(q))
=============================================================================
