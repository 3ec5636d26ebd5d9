-------------------------- MODULE ScoreProjections --------------------------
(***************************************************************************)
(* What the consumers make of accepted scores: the performance consumer's  *)
(* ScorePerformance rows, the ranking consumer's ScoreEligibility and      *)
(* UserRanking rows, the statistics of accounts and beatmaps, and the      *)
(* daily UserRankingSnapshot of the scheduler.                             *)
(*                                                                         *)
(* A lane is the partition of one account and ruleset.  The deliveries of  *)
(* a consumer's lane are a queue: a handler's writes and the completion of *)
(* its delivery commit together, in order.  Lanes and consumers run        *)
(* concurrently.                                                           *)
(***************************************************************************)
EXTENDS Naturals, Sequences, FiniteSets

CONSTANTS
    Schedulers,  \* processes that run the snapshot task
    ScoreSetups, \* the scores, the policy's metric, whether a release is active,
                 \* and which tasks run: "ranking", "statistics", "snapshot"
    None,
    MaxDay, MaxFlips, MaxViews

VARIABLES
    scoring,     \* the setup
    accepted,    \* scores whose transaction committed
    perfQ, rankQ, statQ,  \* per lane, the deliveries not yet succeeded
    perfs,       \* scores with a ScorePerformance row
    elig,        \* ScoreEligibility: None or [state, reason]
    best,        \* UserRanking per lane: the scores it sums
    rankTx,      \* per lane, the eligibility the ranking handler decided, or None
    statTx,      \* per lane, the BeatmapActivity row the handler read
    playStat,    \* UserPlayStat: [plays, views] per lane
    beatmapStat, \* BeatmapActivity: None or [attempts, passes] per map
    statHolder,  \* per map, the lane whose handler locked its row
    mapOk,       \* maps whose status the policy admits
    flips, views,
    day, snaps, snapper, snapHolder, counted, writes

Runs(task) == task \in scoring.runs
Scores == DOMAIN scoring.scores
Lanes == {scoring.scores[s].lane : s \in Scores}
BeatmapsOf == {scoring.scores[s].map : s \in Scores}
LaneOf(s) == scoring.scores[s].lane
MapOf(s) == scoring.scores[s].map
Passed(s) == scoring.scores[s].outcome = "passed"

\* Rows and events.
Delivery(type, s) == [type |-> type, score |-> s]
ScoreEligibility(state, reason) == [state |-> state, reason |-> reason]
BeatmapActivity(attempts, passes) == [attempts |-> attempts, passes |-> passes]
UserPlayStat(plays, v) == [plays |-> plays, views |-> v]

Init ==
    /\ scoring \in ScoreSetups
    /\ accepted = {}
    /\ perfQ = [l \in Lanes |-> <<>>] /\ rankQ = perfQ /\ statQ = perfQ
    /\ perfs = {}
    /\ elig = [s \in Scores |-> None]
    /\ best = [l \in Lanes |-> {}]
    /\ rankTx = [l \in Lanes |-> None] /\ statTx = [l \in Lanes |-> [open |-> FALSE, read |-> None]]
    /\ playStat = [l \in Lanes |-> UserPlayStat(0, 0)]
    /\ beatmapStat = [m \in BeatmapsOf |-> None]
    /\ statHolder = [m \in BeatmapsOf |-> None]
    /\ mapOk = BeatmapsOf
    /\ flips = 0 /\ views = 0
    /\ day = 1
    /\ snaps = [d \in 1..MaxDay |-> None]
    /\ snapper = [p \in Schedulers |-> [pc |-> "idle", today |-> 0, completed |-> 0]]
    /\ snapHolder = None
    /\ counted = {}
    /\ writes = [d \in 1..MaxDay |-> 0]

-----------------------------------------------------------------------------
\* score.accepted.v1 for the three consumers, with the score's commit.
Accept(s) ==
    /\ s \notin accepted
    /\ \A t \in Scores : t < s /\ LaneOf(t) = LaneOf(s) => t \in accepted
    /\ accepted' = accepted \cup {s}
    /\ LET e == Delivery("accepted", s) IN
       /\ perfQ' = [perfQ EXCEPT ![LaneOf(s)] = Append(@, e)]
       /\ rankQ' = [rankQ EXCEPT ![LaneOf(s)] = Append(@, e)]
       /\ statQ' = [statQ EXCEPT ![LaneOf(s)] = Append(@, e)]
    /\ UNCHANGED <<scoring, perfs, elig, best, rankTx, statTx, playStat, beatmapStat, statHolder,
                   mapOk, flips, views, day, snaps, snapper, snapHolder, counted, writes>>

\* score.replay-viewed.v1, in the lane of the score's account.
ViewReplay(s) ==
    /\ s \in accepted /\ views < MaxViews /\ Runs("statistics")
    /\ views' = views + 1
    /\ statQ' = [statQ EXCEPT ![LaneOf(s)] = Append(@, Delivery("viewed", s))]
    /\ UNCHANGED <<scoring, accepted, perfQ, rankQ, perfs, elig, best, rankTx, statTx, playStat,
                   beatmapStat, statHolder, mapOk, flips, day, snaps, snapper, snapHolder, counted, writes>>

\* A beatmapset's status changes; nothing is projected again for it.
ChangeStatus(m) ==
    /\ flips < MaxFlips /\ Runs("ranking") /\ ~Runs("snapshot")
    /\ flips' = flips + 1
    /\ mapOk' = IF m \in mapOk THEN mapOk \ {m} ELSE mapOk \cup {m}
    /\ UNCHANGED <<scoring, accepted, perfQ, rankQ, statQ, perfs, elig, best, rankTx, statTx, playStat,
                   beatmapStat, statHolder, views, day, snaps, snapper, snapHolder, counted, writes>>

-----------------------------------------------------------------------------
\* The performance consumer.  A calculation that fails leaves the delivery.

materialize(s) == IF scoring.released THEN {s} ELSE {}

complete(s) == perfs' = perfs \cup materialize(s)

\* The calculated score goes back to the ranking consumer, in the same lane.
Calculate(l) ==
    /\ perfQ[l] # <<>> /\ Runs("ranking")
    /\ LET s == Head(perfQ[l]).score IN
       /\ complete(s)
       /\ rankQ' = IF materialize(s) = {} THEN rankQ
                   ELSE [rankQ EXCEPT ![l] = Append(@, Delivery("calculated", s))]
    /\ perfQ' = [perfQ EXCEPT ![l] = Tail(@)]
    /\ UNCHANGED <<scoring, accepted, statQ, elig, best, rankTx, statTx, playStat, beatmapStat,
                   statHolder, mapOk, flips, views, day, snaps, snapper, snapHolder, counted, writes>>

-----------------------------------------------------------------------------
\* The ranking consumer.

score_performance(s) == s \in perfs

PolicyEligible(s) == Passed(s) /\ MapOf(s) \in mapOk

\* apply_policy: a pp policy waits for the calculation.
apply_policy(s) ==
    CASE PolicyEligible(s) /\ scoring.metric = "pp" /\ ~score_performance(s) ->
            ScoreEligibility("ineligible", "performance_pending")
      [] PolicyEligible(s) /\ (scoring.metric # "pp" \/ score_performance(s)) ->
            ScoreEligibility("eligible", None)
      [] ~PolicyEligible(s) -> ScoreEligibility("ineligible", "policy_requirements")

metric_expression(s) ==
    IF scoring.metric = "pp" THEN scoring.scores[s].pp ELSE scoring.scores[s].total

Better(s, t) ==
    \/ metric_expression(s) > metric_expression(t)
    \/ metric_expression(s) = metric_expression(t) /\ s < t

\* apply_user_ranking: the best eligible score of every map.
Bests(l, e) ==
    LET candidates == {s \in Scores : LaneOf(s) = l /\ e[s] # None /\ e[s].state = "eligible"}
    IN {s \in candidates : \A t \in candidates \ {s} : MapOf(t) = MapOf(s) => Better(s, t)}

\* The first statements of the handler read the score, the status and the
\* performance row.
DecideEligibility(l) ==
    /\ rankQ[l] # <<>> /\ rankTx[l] = None /\ Runs("ranking")
    /\ rankTx' = [rankTx EXCEPT ![l] = apply_policy(Head(rankQ[l]).score)]
    /\ UNCHANGED <<scoring, accepted, perfQ, rankQ, statQ, perfs, elig, best, statTx, playStat, beatmapStat,
                   statHolder, mapOk, flips, views, day, snaps, snapper, snapHolder, counted, writes>>

\* The rebuilt ranking commits with the eligibility.
RebuildRanking(l) ==
    /\ rankTx[l] # None
    /\ elig' = [elig EXCEPT ![Head(rankQ[l]).score] = rankTx[l]]
    /\ best' = [best EXCEPT ![l] = Bests(l, elig')]
    /\ rankQ' = [rankQ EXCEPT ![l] = Tail(@)]
    /\ rankTx' = [rankTx EXCEPT ![l] = None]
    /\ UNCHANGED <<scoring, accepted, perfQ, statQ, perfs, statTx, playStat, beatmapStat, statHolder,
                   mapOk, flips, views, day, snaps, snapper, snapHolder, counted, writes>>

\* A failed handler rolls back; the delivery is retried.
RetryRanking(l) ==
    /\ rankTx[l] # None
    /\ rankTx' = [rankTx EXCEPT ![l] = None]
    /\ UNCHANGED <<scoring, accepted, perfQ, rankQ, statQ, perfs, elig, best, statTx, playStat, beatmapStat,
                   statHolder, mapOk, flips, views, day, snaps, snapper, snapHolder, counted, writes>>

-----------------------------------------------------------------------------
\* The statistics consumer.  BeatmapActivity is shared by all lanes: its row
\* is read FOR UPDATE, or absent and then inserted.

\* Mutant: the counters are read without their lock.
ReadActivityUnlocked(l) ==
    /\ statQ[l] # <<>> /\ ~statTx[l].open /\ Head(statQ[l]).type = "accepted"
    /\ Runs("statistics")
    /\ statTx' = [statTx EXCEPT ![l] = [open |-> TRUE, read |-> beatmapStat[MapOf(Head(statQ[l]).score)]]]
    /\ UNCHANGED <<scoring, accepted, perfQ, rankQ, statQ, perfs, elig, best, rankTx, playStat, beatmapStat,
                   statHolder, mapOk, flips, views, day, snaps, snapper, snapHolder, counted, writes>>

ReadActivity(l) ==
    /\ statQ[l] # <<>> /\ ~statTx[l].open /\ Head(statQ[l]).type = "accepted"
    /\ Runs("statistics")
    /\ LET m == MapOf(Head(statQ[l]).score) IN
       /\ statHolder[m] = None
       /\ statHolder' = IF beatmapStat[m] = None THEN statHolder ELSE [statHolder EXCEPT ![m] = l]
       /\ statTx' = [statTx EXCEPT ![l] = [open |-> TRUE, read |-> beatmapStat[m]]]
    /\ UNCHANGED <<scoring, accepted, perfQ, rankQ, statQ, perfs, elig, best, rankTx, playStat, beatmapStat,
                   mapOk, flips, views, day, snaps, snapper, snapHolder, counted, writes>>

\* _apply_score's additions and commit; inserting a row that exists by now
\* fails, and the delivery is retried.
ApplyScore(l) ==
    /\ statTx[l].open
    /\ LET s == Head(statQ[l]).score
           m == MapOf(s)
           read == IF statTx[l].read = None THEN BeatmapActivity(0, 0) ELSE statTx[l].read
       IN /\ statHolder' = IF statHolder[m] = l THEN [statHolder EXCEPT ![m] = None] ELSE statHolder
          /\ IF statTx[l].read = None /\ beatmapStat[m] # None
             THEN UNCHANGED <<statQ, playStat, beatmapStat>>
             ELSE /\ beatmapStat' = [beatmapStat EXCEPT ![m] =
                        BeatmapActivity(read.attempts + 1, read.passes + (IF Passed(s) THEN 1 ELSE 0))]
                  /\ playStat' = [playStat EXCEPT ![l].plays = @ + 1]
                  /\ statQ' = [statQ EXCEPT ![l] = Tail(@)]
    /\ statTx' = [statTx EXCEPT ![l] = [open |-> FALSE, read |-> None]]
    /\ UNCHANGED <<scoring, accepted, perfQ, rankQ, perfs, elig, best, rankTx, mapOk, flips, views,
                   day, snaps, snapper, snapHolder, counted, writes>>

\* _apply_replay_view touches only rows of its own lane.
ApplyReplayView(l) ==
    /\ statQ[l] # <<>> /\ ~statTx[l].open /\ Head(statQ[l]).type = "viewed"
    /\ playStat' = [playStat EXCEPT ![l].views = @ + 1]
    /\ statQ' = [statQ EXCEPT ![l] = Tail(@)]
    /\ UNCHANGED <<scoring, accepted, perfQ, rankQ, perfs, elig, best, rankTx, statTx, beatmapStat,
                   statHolder, mapOk, flips, views, day, snaps, snapper, snapHolder, counted, writes>>

-----------------------------------------------------------------------------
\* The daily snapshot.

Unfinished == \E l \in Lanes : rankQ[l] # <<>>

EndRun(p) ==
    /\ snapper' = [snapper EXCEPT ![p].pc = "idle"]
    /\ snapHolder' = IF snapHolder = p THEN None ELSE snapHolder

\* The advisory lock is tried; a date already written ends the run.
TryLock(p) ==
    /\ snapper[p].pc = "idle" /\ Runs("snapshot") /\ snapper[p].completed # day /\ snapHolder = None
    /\ IF snaps[day] # None
       THEN /\ snapper' = [snapper EXCEPT ![p].completed = day]
            /\ UNCHANGED snapHolder
       ELSE /\ snapper' = [snapper EXCEPT ![p].pc = "count", ![p].today = day]
            /\ snapHolder' = p
    /\ UNCHANGED <<scoring, accepted, perfQ, rankQ, statQ, perfs, elig, best, rankTx, statTx, playStat,
                   beatmapStat, statHolder, mapOk, flips, views, day, snaps, counted, writes>>

\* Nothing is written while a ranking delivery has not succeeded.
CountUnfinished(p) ==
    /\ snapper[p].pc = "count"
    /\ IF Unfinished THEN EndRun(p) /\ UNCHANGED counted
       ELSE snapper' = [snapper EXCEPT ![p].pc = "write"] /\ counted' = perfs /\ UNCHANGED snapHolder
    /\ UNCHANGED <<scoring, accepted, perfQ, rankQ, statQ, perfs, elig, best, rankTx, statTx, playStat,
                   beatmapStat, statHolder, mapOk, flips, views, day, snaps, writes>>

write_user_ranking_snapshots(p) ==
    /\ snapper[p].pc = "write"
    /\ snaps' = [snaps EXCEPT ![snapper[p].today] = best]
    /\ writes' = [writes EXCEPT ![snapper[p].today] = @ + 1]
    /\ snapper' = [snapper EXCEPT ![p].pc = "idle", ![p].completed = snapper[p].today]
    /\ snapHolder' = IF snapHolder = p THEN None ELSE snapHolder
    /\ UNCHANGED <<scoring, accepted, perfQ, rankQ, statQ, perfs, elig, best, rankTx, statTx, playStat,
                   beatmapStat, statHolder, mapOk, flips, views, day, counted>>

\* A transaction of the task fails and is run again later.
SnapshotFails(p) ==
    /\ snapper[p].pc # "idle"
    /\ EndRun(p)
    /\ UNCHANGED <<scoring, accepted, perfQ, rankQ, statQ, perfs, elig, best, rankTx, statTx, playStat,
                   beatmapStat, statHolder, mapOk, flips, views, day, snaps, counted, writes>>

Midnight ==
    /\ day < MaxDay /\ Runs("snapshot") /\ day' = day + 1
    /\ UNCHANGED <<scoring, accepted, perfQ, rankQ, statQ, perfs, elig, best, rankTx, statTx, playStat,
                   beatmapStat, statHolder, mapOk, flips, views, snaps, snapper, snapHolder, counted, writes>>

Next ==
    \/ \E s \in Scores : Accept(s) \/ ViewReplay(s)
    \/ \E m \in BeatmapsOf : ChangeStatus(m)
    \/ \E l \in Lanes : Calculate(l) \/ DecideEligibility(l) \/ RebuildRanking(l) \/ RetryRanking(l)
                        \/ ReadActivity(l) \/ ApplyScore(l) \/ ApplyReplayView(l)
    \/ \E p \in Schedulers : TryLock(p) \/ CountUnfinished(p) \/ write_user_ranking_snapshots(p)
                             \/ SnapshotFails(p)
    \/ Midnight

-----------------------------------------------------------------------------
Drained ==
    \A l \in Lanes : /\ Runs("ranking") => perfQ[l] = <<>> /\ rankQ[l] = <<>>
                     /\ Runs("statistics") => statQ[l] = <<>>

\* Once the lanes are drained the rankings are the best eligible scores of
\* everything accepted, calculated before or after the ranking consumer saw
\* the score, unless a map changed its status meanwhile.
RankingConverges ==
    (flips = 0 /\ \A l \in Lanes : perfQ[l] = <<>> /\ rankQ[l] = <<>>) =>
      LET counts == {s \in accepted : Passed(s) /\ (scoring.metric # "pp" \/ scoring.released)}
      IN \A l \in Lanes :
           best[l] = {s \in counts : LaneOf(s) = l /\ \A t \in counts \ {s} :
                         LaneOf(t) = l /\ MapOf(t) = MapOf(s) => Better(s, t)}

\* A pp ranking never counts a score that has no performance yet.
NothingUncalculated == scoring.metric = "pp" => \A l \in Lanes : best[l] \subseteq perfs

\* Concurrent lanes lose no play of a beatmap: its counters are those of the
\* deliveries that succeeded.
NoPlayLost ==
    \A m \in BeatmapsOf :
      LET done == {s \in accepted : MapOf(s) = m /\
                     ~\E i \in DOMAIN statQ[LaneOf(s)] : statQ[LaneOf(s)][i] = Delivery("accepted", s)}
      IN IF done = {} THEN beatmapStat[m] = None
         ELSE beatmapStat[m] = BeatmapActivity(Cardinality(done), Cardinality({s \in done : Passed(s)}))

\* However many processes run the task, a date is written once.
SnapshotOnce == \A d \in 1..MaxDay : writes[d] <= 1

\* The snapshot of a date holds every score calculated before its check: a
\* later, better score of the same map may stand for it.
SnapshotCaughtUp ==
    \A p \in Schedulers : snapper[p].pc = "write" /\ flips = 0 /\ scoring.metric = "pp" =>
      \A s \in counted : Passed(s) =>
        \E t \in best[LaneOf(s)] : MapOf(t) = MapOf(s) /\ (t = s \/ Better(t, s))
=============================================================================
