--------------------------- MODULE OrderedDelivery ---------------------------
(***************************************************************************)
(* What the outbox promises a consumer: each lane, a (consumer, partition) *)
(* pair, is a log that only grows at its end, whose events take effect     *)
(* once and in order, until one of them is dead-lettered and blocks the    *)
(* lane.                                                                   *)
(***************************************************************************)
EXTENDS Naturals, Sequences

CONSTANTS Lanes, Positions

VARIABLES
  log,      \* positions published to each lane
  applied,  \* positions whose effects were committed, in commit order
  dead      \* lanes blocked by a dead letter

vars == <<log, applied, dead>>

AppliedSet(lane) == {applied[lane][i] : i \in 1 .. Len(applied[lane])}

\* pos is the first published event of the lane that has not taken effect.
IsNext(lane, pos) ==
  /\ pos \in log[lane] \ AppliedSet(lane)
  /\ \A other \in log[lane] \ AppliedSet(lane) : pos <= other

Init ==
  /\ log = [lane \in Lanes |-> {}]
  /\ applied = [lane \in Lanes |-> <<>>]
  /\ dead = {}

\* One transaction may publish several events, each to several lanes.
Publish ==
  /\ log' \in [Lanes -> SUBSET Positions]
  /\ \A lane \in Lanes :
       /\ log[lane] \subseteq log'[lane]
       /\ \A new \in log'[lane] \ log[lane], old \in log[lane] : old < new
  /\ UNCHANGED <<applied, dead>>

Apply(lane) ==
  /\ lane \notin dead
  /\ \E pos \in log[lane] :
       /\ IsNext(lane, pos)
       /\ applied' = [applied EXCEPT ![lane] = Append(@, pos)]
  /\ UNCHANGED <<log, dead>>

DeadLetter ==
  /\ dead' \in SUBSET Lanes
  /\ dead \subseteq dead'
  /\ \A lane \in dead' \ dead : log[lane] \ AppliedSet(lane) # {}
  /\ UNCHANGED <<log, applied>>

Next == Publish \/ (\E lane \in Lanes : Apply(lane)) \/ DeadLetter

Spec == Init /\ [][Next]_vars
=============================================================================
