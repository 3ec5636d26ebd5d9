------------------------------ MODULE MCResults ------------------------------
(* One round of two accounts in opposite teams, or two rounds of one account; *)
(* in every round the second account wins.                                   *)
EXTENDS MultiplayerResults

MCTeam == [a \in Accounts |-> a]
MCMetric == [r \in Rounds |-> [a \in Accounts |-> a]]

RoundSetup == [accounts |-> {1, 2}, rounds |-> {1}, modes |-> BOOLEAN, crashes |-> TRUE]
SessionSetup == [accounts |-> {1}, rounds |-> {1, 2}, modes |-> {FALSE}, crashes |-> FALSE]
AllSetups == {RoundSetup, SessionSetup}
SessionSetups == {SessionSetup}
=============================================================================
