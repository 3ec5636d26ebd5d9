--------------------------- MODULE MCScore ----------------------------------
(* Two plays of one account, submitted again and again and at the same time. *)
EXTENDS ScoreAcceptance, TLC

CONSTANTS lazer, stable, other, m1

\* The second body of a Stable play carries other facts than the first.
MCFactsOf(b) == IF b = 1 THEN 1 ELSE 2

\* A Lazer and a Stable play whose answers get lost; two Stable plays that
\* compete for one multiplayer attempt and two achievements.
Retries == [plays |-> {lazer, stable}, lazer |-> {lazer}, bodies |-> {1, 2}, achievements |-> {}, opportunities |-> {},
            end |-> 0, time |-> 2, scores |-> 2, revisions |-> 1, sanctions |-> 0]
Contention == [plays |-> {stable, other}, lazer |-> {}, bodies |-> {1}, achievements |-> {1, 2}, opportunities |-> {m1},
               end |-> 1, time |-> 1, scores |-> 2, revisions |-> 0, sanctions |-> 1]
AllSetups == {Retries, Contention}

RequestSymmetry == Permutations(Requests)
=============================================================================
