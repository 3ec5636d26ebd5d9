---------------------------- MODULE ScoreProofs -----------------------------
(***************************************************************************)
(* What accept grants is granted once, its layers agree, no score passes a *)
(* restriction, and its transactions wait in a circle only while they      *)
(* award achievements: for every number of requests, plays, achievements   *)
(* and multiplayer attempts.                                               *)
(*                                                                         *)
(* The inductive invariant has three parts: what the locks exclude between *)
(* two open transactions, what an open transaction may rely on, and how    *)
(* the committed rows fit together.                                        *)
(***************************************************************************)
EXTENDS ScoreAcceptance, TLAPS

\* Steps at which the transaction has drawn the id of its score.
Drawn == {"award", "publish", "append", "commit"}

\* What the locks exclude between two open transactions: one play, one
\* multiplayer attempt, one unlock and the lane of the account belong to one of
\* them, and no two draw the same score id.
Apart(x, y) ==
  /\ x.pc \in Claimed /\ y.pc \in Claimed => x.play # y.play
  /\ x.pc \in Bound /\ y.pc \in Bound => x.context \cap y.context = {}
  /\ x.pc \in Drawn /\ y.pc \in Drawn => x.score # y.score
  /\ x.unlocked \cap y.unlocked = {}
  /\ ~(x.lane /\ y.lane)

\* What is true of an open transaction by itself, given the next score id.
Shape(r, next) ==
  /\ r.pc # "idle" => r.play \in Plays /\ r.body \in setup.bodies
  /\ r.pc = "token" => r.play \in LazerPlays
  /\ r.unlocked # {} \/ r.lane => r.pc \in Drawn
  /\ r.pc = "publish" => r.earned # {}
  /\ r.unlocked # {} /\ r.pc # "publish" => r.lane
  /\ r.pc \in Drawn => r.score \in ScoreIds /\ r.score < next

\* A restriction in force at a time within the term it was imposed for.
InForce(at) == \E s \in restrictions : ~s.revoked /\ s.starts_at <= at /\ at < s.imposed_until

\* What an open transaction may rely on in the committed rows until it ends.
Relies(r) ==
  /\ r.pc # "idle" => started[r.play].begun
  /\ r.pc \in Attempting => ScoreOf(r.play) = {}
  /\ r.pc \in Drawn => \A s \in score : s.id # r.score
  /\ r.pc \in Bound => \A m \in r.context : opportunity[m] = 0
  /\ \A a \in r.unlocked : unlock[a] = 0
  /\ r.pc \in Validated => ~InForce(r.at)

TransactionsInv ==
  /\ \A q, r \in Requests : q # r => Apart(request[q], request[r])
  /\ \A q \in Requests : Shape(request[q], next_score) /\ Relies(request[q])

\* The committed rows: ids are drawn and unique, every answer names a score of
\* its play, and a restriction lasts at least for the term it was imposed for.
RowsInv ==
  /\ \A s \in score : s.id < next_score /\ started[s.play].begun
  /\ \A s, t \in score : s.id = t.id => s = t
  /\ \A id \in ScoreIds : event[id] = IF \E s \in score : s.id = id THEN 1 ELSE 0
  /\ \A x \in answers : \E s \in score : x = <<s.play, s.id>>
  /\ \A m \in Opportunities : opportunity[m] # 0 =>
       \E s \in score : s.id = opportunity[m] /\ m \in s.context
  /\ \A s \in score : \A m \in s.context : opportunity[m] = s.id
  /\ \A s \in restrictions : s.imposed_until <= s.ends_at

Inv ==
  /\ setup \in Setups
  /\ LayersAgree /\ OneScorePerPlay /\ UnlockedOnce
  /\ RowsInv
  /\ TransactionsInv

-----------------------------------------------------------------------------
(* Operators *)

\* The steps of accept.
Steps == {"idle", "claim"} \cup Claimed

\* A transaction that runs alone: the others keep their state.
Alone(q) ==
  /\ request' \in [Requests -> Submission]
  /\ \A r \in Requests \ {q} : request'[r] = request[r]

\* Going to another step changes nothing else of the transaction.
LEMMA GotoStep ==
  ASSUME request \in [Requests -> Submission], NEW q \in Requests, NEW pc \in Steps, Goto(q, pc)
  PROVE  /\ Alone(q)
         /\ request'[q].pc = pc
         /\ request'[q].play = request[q].play
         /\ request'[q].body = request[q].body
         /\ request'[q].at = request[q].at
         /\ request'[q].context = request[q].context
         /\ request'[q].score = request[q].score
         /\ request'[q].earned = request[q].earned
         /\ request'[q].unlocked = request[q].unlocked
         /\ request'[q].lane = request[q].lane
<1>1. request[q] \in Submission
  OBVIOUS
<1> DEFINE t == [request[q] EXCEPT !.pc = pc]
<1>2. request' = [request EXCEPT ![q] = t]
  BY DEF Goto
<1>3. t \in Submission
  BY <1>1 DEF Submission, Steps
<1>4. /\ t.pc = pc
      /\ t.play = request[q].play
      /\ t.body = request[q].body
      /\ t.at = request[q].at
      /\ t.context = request[q].context
      /\ t.score = request[q].score
      /\ t.earned = request[q].earned
      /\ t.unlocked = request[q].unlocked
      /\ t.lane = request[q].lane
  BY <1>1 DEF Submission
<1> HIDE DEF t
<1>5. request'[q] = t /\ Alone(q)
  BY <1>2, <1>3 DEF Alone
<1> QED BY <1>4, <1>5

\* A transaction that ends leaves an idle request.
LEMMA FinishStep ==
  ASSUME request \in [Requests -> Submission], NEW q \in Requests, Finish(q)
  PROVE  Alone(q) /\ request'[q] = Idle
<1>1. Idle \in Submission
  BY DEF Idle, Submission
<1> QED BY <1>1 DEF Finish, Alone

\* An idle request excludes nothing and relies on nothing.
LEMMA IdleRequest ==
  ASSUME NEW next, NEW y
  PROVE  Shape(Idle, next) /\ Relies(Idle) /\ Apart(Idle, y) /\ Apart(y, Idle)
  BY DEF Shape, Relies, Apart, Idle, Claimed, Bound, Attempting, Validated, Drawn

\* Numbers already drawn stay drawn when none is drawn.
LEMMA SameCount ==
  ASSUME NEW m, NEW n \in Nat, m = n
  PROVE  m \in Nat /\ m >= n
  OBVIOUS

\* What RowsInv says of the tables carries over when they do not change.
LEMMA SameRows ==
  ASSUME RowsInv, UNCHANGED <<setup, started, score, opportunity, event, next_score, answers>>,
         \A s \in restrictions' : s.imposed_until <= s.ends_at
  PROVE  RowsInv'
  BY Zenon DEF RowsInv, ScoreIds, Opportunities

-----------------------------------------------------------------------------
(* Steps that change no committed row *)

\* Transactions stay apart, keep their shape and may rely on the same rows when
\* one of them steps and those rows do not change.
LEMMA TransactionsStep ==
  ASSUME Inv, NEW q \in Requests, Alone(q),
         UNCHANGED <<setup, restrictions, started, score, opportunity, unlock>>,
         next_score' \in Nat, next_score' >= next_score,
         Shape(request'[q], next_score'), Relies(request'[q]),
         \A r \in Requests \ {q} : Apart(request'[q], request[r])
  PROVE  TransactionsInv'
<1>1. ASSUME NEW r \in Requests PROVE Shape(request[r], next_score)' /\ Relies(request[r])'
  <2>1. Shape(request'[r], next_score') /\ Relies(request'[r])
    <3>1. CASE r = q
      BY <3>1
    <3>2. CASE r # q
      <4>1. request'[r] = request[r]
        BY <3>2 DEF Alone
      <4>2. Shape(request[r], next_score) /\ Relies(request[r])
        BY DEF Inv, TransactionsInv
      <4>3. Shape(request[r], next_score')
        <5>1. request[r].score \in Nat /\ next_score \in Nat
          BY DEF Inv, LayersAgree, TypeOK, Submission
        <5> QED BY <4>2, <5>1 DEF Shape
      <4> QED BY <4>1, <4>2, <4>3
    <3> QED BY <3>1, <3>2
  <2> QED BY <2>1 DEF Shape, Relies, InForce, ScoreOf, Plays, LazerPlays, ScoreIds
<1>2. ASSUME NEW x \in Requests, NEW y \in Requests, x # y
      PROVE  Apart(request'[x], request'[y])
  <2>1. \A r, t \in Requests : r # t => Apart(request[r], request[t])
    BY DEF Inv, TransactionsInv
  <2>2. CASE x = q
    BY <1>2, <2>2 DEF Alone
  <2>3. CASE y = q
    <3>1. Apart(request'[y], request[x])
      BY <1>2, <2>3
    <3> QED BY <1>2, <2>3, <3>1 DEF Alone, Apart
  <2>4. CASE x # q /\ y # q
    BY <1>2, <2>1, <2>4 DEF Alone
  <2> QED BY <2>2, <2>3, <2>4
<1> QED BY <1>1, <1>2 DEF TransactionsInv, Apart

\* The sets the instance defines do not change with it.
LEMMA SameSets ==
  ASSUME UNCHANGED setup
  PROVE  /\ Plays' = Plays /\ LazerPlays' = LazerPlays /\ Achievements' = Achievements
         /\ Opportunities' = Opportunities /\ ScoreIds' = ScoreIds
         /\ Submission' = Submission
  BY DEF Plays, LazerPlays, Achievements, Opportunities, ScoreIds, Submission

\* The invariant survives a step of one transaction that changes no row if that
\* transaction still has its shape, relies on what the rows say and stays apart
\* from the others.
LEMMA QuietStep ==
  ASSUME Inv, NEW q \in Requests, Alone(q),
         UNCHANGED <<setup, world, started, rows, answers>>,
         next_score' \in Nat, next_score' >= next_score,
         Shape(request'[q], next_score'), Relies(request'[q]),
         \A r \in Requests \ {q} : Apart(request'[q], request[r])
  PROVE  Inv'
<1>1. UNCHANGED <<setup, now, revision, restrictions, started, receipt, attempt, score,
                  opportunity, unlock, event, unlock_event, answers>>
  BY DEF world, rows
<1>2. next_score \in Nat \ {0} /\ next_score' \in Nat \ {0}
  BY DEF Inv, LayersAgree, TypeOK
<1>3. LayersAgree'
  <2>1. \A p : ScoreOf(p)' = ScoreOf(p)
    BY <1>1 DEF ScoreOf
  <2>2. TypeOK'
    BY <1>1, <1>2, SameSets DEF Inv, LayersAgree, TypeOK, Alone
  <2> QED BY <1>1, <2>1, <2>2, SameSets DEF Inv, LayersAgree
<1>4. OneScorePerPlay' /\ UnlockedOnce'
  BY <1>1 DEF Inv, OneScorePerPlay, UnlockedOnce, Achievements
<1>5. RowsInv'
  <2>1. \A s \in score : s.id \in Nat
    BY DEF Inv, LayersAgree, TypeOK, ScoreIds
  <2> QED BY <1>1, <1>2, <2>1 DEF Inv, RowsInv, ScoreIds, Opportunities
<1>6. TransactionsInv'
  BY <1>1, TransactionsStep
<1> QED BY <1>1, <1>3, <1>4, <1>5, <1>6 DEF Inv

\* What the invariant says of one transaction.
LEMMA OpenTransaction ==
  ASSUME Inv, NEW q \in Requests
  PROVE  /\ request \in [Requests -> Submission]
         /\ request[q] \in Submission
         /\ next_score \in Nat \ {0}
         /\ Shape(request[q], next_score)
         /\ Relies(request[q])
         /\ \A r \in Requests \ {q} : Apart(request[q], request[r])
  BY DEF Inv, LayersAgree, TypeOK, TransactionsInv

\* A step to another point of accept keeps the invariant if the transaction may
\* be there: what it relies on there holds, and no other is there with its play,
\* or with its multiplayer attempt.
LEMMA GotoPreserves ==
  ASSUME Inv, NEW q \in Requests, NEW pc \in Claimed \ {"publish"}, Goto(q, pc),
         request[q].pc # "idle",
         UNCHANGED <<setup, world, started, rows, next_score, answers>>,
         pc = "token" => request[q].play \in LazerPlays,
         pc \in Drawn <=> request[q].pc \in Drawn,
         request[q].pc = "publish" => request[q].lane,
         pc \in Attempting => ScoreOf(request[q].play) = {},
         pc \in Bound => \A m \in request[q].context : opportunity[m] = 0,
         pc \in Validated => ~InForce(request[q].at),
         \A r \in Requests \ {q} :
           /\ request[r].pc \in Claimed => request[r].play # request[q].play
           /\ pc \in Bound /\ request[r].pc \in Bound
                => request[q].context \cap request[r].context = {}
  PROVE  Inv'
<1> DEFINE t == request'[q]
<1>1. /\ Alone(q)
      /\ t.pc = pc
      /\ t.play = request[q].play
      /\ t.body = request[q].body
      /\ t.at = request[q].at
      /\ t.context = request[q].context
      /\ t.score = request[q].score
      /\ t.unlocked = request[q].unlocked
      /\ t.lane = request[q].lane
  BY OpenTransaction, GotoStep, Zenon DEF Steps
<1>2. /\ next_score \in Nat \ {0}
      /\ Shape(request[q], next_score)
      /\ Relies(request[q])
      /\ \A r \in Requests \ {q} : Apart(request[q], request[r])
  BY OpenTransaction
<1> HIDE DEF t
<1>3. Shape(t, next_score)
  BY <1>1, <1>2 DEF Shape
<1>4. Relies(t)
  BY <1>1, <1>2 DEF Relies
<1>5. \A r \in Requests \ {q} : Apart(t, request[r])
  BY <1>1, <1>2 DEF Apart, Drawn
<1>6. next_score' \in Nat /\ next_score' >= next_score /\ next_score' = next_score
  BY <1>2
<1> QED BY <1>1, <1>3, <1>4, <1>5, <1>6, QuietStep DEF t

\* An aborted or refused transaction leaves the rows as they are.
LEMMA EndPreserves ==
  ASSUME Inv, NEW q \in Requests, Finish(q),
         UNCHANGED <<setup, world, started, rows, next_score, answers>>
  PROVE  Inv'
<1>1. Alone(q) /\ request'[q] = Idle
  BY OpenTransaction, FinishStep
<1>2. next_score \in Nat
  BY OpenTransaction
<1>3. next_score' \in Nat /\ next_score' >= next_score
  BY <1>2
<1> QED BY <1>1, <1>3, IdleRequest, QuietStep

\* A submission starts with nothing claimed.
LEMMA SubmitPreserves ==
  ASSUME Inv, NEW q \in Requests, NEW p \in Plays, NEW b \in setup.bodies,
         NEW c \in SUBSET Opportunities, Submit(q, p, b, c), UNCHANGED setup
  PROVE  Inv'
<1> DEFINE t == [Idle EXCEPT !.pc = "claim", !.play = p, !.body = b, !.at = now, !.context = c]
<1>0. Idle \in Submission /\ Idle.unlocked = {} /\ ~Idle.lane
  BY DEF Idle, Submission
<1>1. /\ t.pc = "claim" /\ t.play = p /\ t.body = b /\ t.at = now /\ t.context = c
      /\ t.unlocked = {} /\ ~t.lane
  BY <1>0 DEF Submission
<1>2. request \in [Requests -> Submission] /\ next_score \in Nat /\ now \in Nat
  BY DEF Inv, LayersAgree, TypeOK
<1>3. t \in Submission
  BY <1>0, <1>2, Zenon DEF Submission
<1>4. request' = [request EXCEPT ![q] = t]
  BY Zenon DEF Submit
<1> HIDE DEF t
<1>5. Shape(t, next_score) /\ \A r \in Requests \ {q} : Apart(t, request[r])
  BY <1>1 DEF Shape, Apart, Claimed, Bound, Drawn
<1>6. Relies(t)
  BY <1>1 DEF Relies, Submit, Attempting, Bound, Claimed, Validated, Drawn
<1>7. request'[q] = t /\ Alone(q)
  BY <1>2, <1>3, <1>4 DEF Alone
<1>8. next_score' \in Nat /\ next_score' >= next_score /\ next_score' = next_score
  BY <1>2 DEF Submit
<1> QED BY <1>5, <1>6, <1>7, <1>8, QuietStep DEF Submit

\* Claiming the receipt excludes every other transaction of the play.
LEMMA ClaimReceiptPreserves ==
  ASSUME Inv, NEW q \in Requests, ClaimReceipt(q), UNCHANGED setup
  PROVE  Inv'
<1>1. \A r \in Requests \ {q} : request[r].pc \in Claimed => request[r].play # request[q].play
  BY DEF ClaimReceipt, Free, WaitsFor, ReceiptHolders, Others
<1>2. request[q].pc = "claim" /\ Goto(q, "validate")
  BY DEF ClaimReceipt
<1>3. UNCHANGED <<setup, world, started, rows, next_score, answers>>
  BY DEF ClaimReceipt
<1> QED BY <1>1, <1>2, <1>3, GotoPreserves
         DEF Claimed, Validated, Drawn, Attempting, Bound

\* From here on a transaction holds the receipt of its play, and goes from one
\* step to the next.
LEMMA HeldReceipt ==
  ASSUME Inv, NEW q \in Requests, request[q].pc \in Claimed
  PROVE  \A r \in Requests \ {q} : request[r].pc \in Claimed => request[r].play # request[q].play
  BY OpenTransaction DEF Apart

\* A validated account has no restriction in force at the time of the request.
LEMMA ValidateAccountPreserves ==
  ASSUME Inv, NEW q \in Requests, ValidateAccount(q), UNCHANGED setup
  PROVE  Inv'
<1> DEFINE pc == IF request[q].play \in LazerPlays THEN "token" ELSE "resolve"
<1>1. request[q].pc = "validate" /\ Goto(q, pc)
  BY DEF ValidateAccount
<1>2. UNCHANGED <<setup, world, started, rows, next_score, answers>>
  BY DEF ValidateAccount
<1>3. ~InForce(request[q].at)
  <2>1. ~Restricted(request[q].at)
    BY DEF ValidateAccount
  <2>2. request[q].at \in Nat
    BY OpenTransaction DEF Submission
  <2>3. \A s \in restrictions : /\ s.imposed_until \in Nat /\ s.ends_at \in Nat
                                /\ s.imposed_until <= s.ends_at
    BY DEF Inv, RowsInv, LayersAgree, TypeOK
  <2> QED BY <2>1, <2>2, <2>3 DEF Restricted, InForce
<1>4. pc \in {"token", "resolve"} /\ (pc = "token" => request[q].play \in LazerPlays)
  OBVIOUS
<1>5. \A r \in Requests \ {q} : request[r].pc \in Claimed => request[r].play # request[q].play
  BY <1>1, HeldReceipt DEF Claimed
<1> HIDE DEF pc
<1> QED BY <1>1, <1>2, <1>3, <1>4, <1>5, GotoPreserves DEF Claimed, Drawn, Attempting, Bound

\* An unused token and a current revision change nothing but the step.
LEMMA CheckPreserves ==
  ASSUME Inv, NEW q \in Requests, ClaimToken(q) \/ ResolveRevision(q), UNCHANGED setup
  PROVE  Inv'
<1>1. PICK pc \in {"resolve", "attempt"} : Goto(q, pc)
  BY DEF ClaimToken, ResolveRevision
<1>2. request[q].pc \in {"token", "resolve"}
  BY DEF ClaimToken, ResolveRevision
<1>3. UNCHANGED <<setup, world, started, rows, next_score, answers>>
  BY DEF ClaimToken, ResolveRevision
<1>4. ~InForce(request[q].at)
  BY <1>2, OpenTransaction DEF Relies, Validated, Claimed
<1>5. \A r \in Requests \ {q} : request[r].pc \in Claimed => request[r].play # request[q].play
  BY <1>2, HeldReceipt DEF Claimed
<1> QED BY <1>1, <1>2, <1>3, <1>4, <1>5, GotoPreserves DEF Claimed, Drawn, Attempting, Bound

\* An attempt that is claimed has no score, and the receipt keeps it so.
LEMMA ClaimAttemptPreserves ==
  ASSUME Inv, NEW q \in Requests, ClaimAttempt(q), UNCHANGED setup
  PROVE  Inv'
<1> DEFINE pc == IF request[q].context = {} THEN "insert" ELSE "multiplayer"
<1>1. request[q].pc = "attempt" /\ Goto(q, pc)
  BY DEF ClaimAttempt
<1>2. UNCHANGED <<setup, world, started, rows, next_score, answers>>
  BY DEF ClaimAttempt
<1>3. /\ ~InForce(request[q].at) /\ request[q].play \in Plays
  BY <1>1, OpenTransaction DEF Relies, Shape, Validated, Claimed
<1>4. ScoreOf(request[q].play) = {}
  <2>1. attempt[request[q].play].made => ScoreOf(request[q].play) = {}
    BY DEF ClaimAttempt
  <2> QED BY <1>3, <2>1 DEF Inv, LayersAgree
<1>5. \A r \in Requests \ {q} : request[r].pc \in Claimed => request[r].play # request[q].play
  BY <1>1, HeldReceipt DEF Claimed
<1>6. /\ pc \in {"insert", "multiplayer"}
      /\ pc \in Bound => request[q].context = {}
  BY DEF Bound
<1> HIDE DEF pc
<1> QED BY <1>1, <1>2, <1>3, <1>4, <1>5, <1>6, GotoPreserves DEF Claimed, Drawn

\* Locking the multiplayer attempts excludes every other submission for them.
LEMMA ValidateMultiplayerPreserves ==
  ASSUME Inv, NEW q \in Requests, ValidateMultiplayer(q), UNCHANGED setup
  PROVE  Inv'
<1>1. request[q].pc = "multiplayer" /\ Goto(q, "insert")
  BY DEF ValidateMultiplayer
<1>2. UNCHANGED <<setup, world, started, rows, next_score, answers>>
  BY DEF ValidateMultiplayer
<1>3. ~InForce(request[q].at) /\ ScoreOf(request[q].play) = {}
  BY <1>1, OpenTransaction DEF Relies, Attempting, Validated, Claimed
<1>4. \A m \in request[q].context : opportunity[m] = 0
  BY DEF ValidateMultiplayer
<1>5. \A r \in Requests \ {q} : request[r].pc \in Bound =>
        request[q].context \cap request[r].context = {}
  BY DEF ValidateMultiplayer, Free, WaitsFor, OpportunityHolders, Others
<1>6. \A r \in Requests \ {q} : request[r].pc \in Claimed => request[r].play # request[q].play
  BY <1>1, HeldReceipt DEF Claimed
<1> QED BY <1>1, <1>2, <1>3, <1>4, <1>5, <1>6, GotoPreserves DEF Claimed, Drawn

\* Binding the score and appending the event keep what the transaction holds.
LEMMA AppendPreserves ==
  ASSUME Inv, NEW q \in Requests, BindScore(q) \/ AppendEvent(q), UNCHANGED setup
  PROVE  Inv'
<1>1. PICK pc \in {"append", "commit"} : Goto(q, pc)
  BY DEF BindScore, AppendEvent
<1>2. request[q].pc \in {"award", "append"}
  BY DEF BindScore, AppendEvent
<1>3. UNCHANGED <<setup, world, started, rows, next_score, answers>>
  BY DEF BindScore, AppendEvent
<1>4. /\ ~InForce(request[q].at) /\ ScoreOf(request[q].play) = {}
      /\ \A m \in request[q].context : opportunity[m] = 0
  BY <1>2, OpenTransaction DEF Relies, Attempting, Bound, Validated, Claimed
<1>5. \A r \in Requests \ {q} :
        /\ request[r].pc \in Claimed => request[r].play # request[q].play
        /\ request[r].pc \in Bound => request[q].context \cap request[r].context = {}
  BY <1>2, OpenTransaction DEF Apart, Claimed, Bound
<1> QED BY <1>1, <1>2, <1>3, <1>4, <1>5, GotoPreserves DEF Claimed, Drawn

\* The drawn id is new: every other transaction and every score has a smaller one.
LEMMA InsertScorePreserves ==
  ASSUME Inv, NEW q \in Requests, NEW earned \in SUBSET Achievements,
         InsertScore(q, earned), UNCHANGED setup
  PROVE  Inv'
<1> DEFINE t == [request[q] EXCEPT !.pc = "award", !.score = next_score, !.earned = earned]
<1>1. /\ request \in [Requests -> Submission] /\ request[q] \in Submission
      /\ next_score \in Nat \ {0}
      /\ Shape(request[q], next_score)
      /\ Relies(request[q])
      /\ \A r \in Requests \ {q} : Apart(request[q], request[r])
  BY OpenTransaction
<1>2. request[q].pc = "insert" /\ next_score \in ScoreIds /\ next_score' = next_score + 1
  BY DEF InsertScore
<1>3. request' = [request EXCEPT ![q] = t]
  BY Zenon DEF InsertScore
<1>4. /\ t.pc = "award" /\ t.play = request[q].play /\ t.body = request[q].body
      /\ t.at = request[q].at /\ t.context = request[q].context
      /\ t.score = next_score /\ t.earned = earned
      /\ t.unlocked = request[q].unlocked /\ t.lane = request[q].lane
  BY <1>1 DEF Submission
<1>5. t \in Submission
  BY <1>1, Zenon DEF Submission, Claimed
<1> HIDE DEF t
<1>6. request'[q] = t /\ Alone(q)
  BY <1>1, <1>3, <1>5 DEF Alone
<1>7. request[q].unlocked = {} /\ ~request[q].lane
  BY <1>1, <1>2 DEF Shape, Drawn
<1>8. Shape(t, next_score')
  BY <1>1, <1>2, <1>4, <1>7 DEF Shape, Drawn
<1>9. Relies(t)
  <2>1. \A s \in score : s.id # next_score
    BY <1>1 DEF Inv, RowsInv, LayersAgree, TypeOK, ScoreIds
  <2> QED BY <1>1, <1>2, <1>4, <2>1 DEF Relies, Attempting, Bound, Validated, Claimed
<1>10. \A r \in Requests \ {q} : Apart(t, request[r])
  <2> SUFFICES ASSUME NEW r \in Requests \ {q} PROVE Apart(t, request[r])
    OBVIOUS
  <2>1. request[r].pc \in Drawn => request[r].score < next_score /\ request[r].score \in Nat
    BY OpenTransaction DEF Shape, Submission
  <2> QED BY <1>1, <1>2, <1>4, <1>7, <2>1 DEF Apart, Claimed, Bound
<1>11. UNCHANGED <<setup, world, started, rows, answers>>
  BY DEF InsertScore
<1>12. next_score' \in Nat /\ next_score' >= next_score
  BY <1>1, <1>2
<1> QED BY <1>6, <1>8, <1>9, <1>10, <1>11, <1>12, QuietStep

\* The lane of the account is taken while nobody else holds it.
LEMMA PublishUnlockPreserves ==
  ASSUME Inv, NEW q \in Requests, PublishUnlock(q), UNCHANGED setup
  PROVE  Inv'
<1> DEFINE left == request[q].earned \ {Smallest(request[q].earned)}
           t == [request[q] EXCEPT !.pc = "award", !.lane = TRUE, !.earned = left]
<1>1. /\ request \in [Requests -> Submission] /\ request[q] \in Submission
      /\ next_score \in Nat \ {0}
      /\ Shape(request[q], next_score)
      /\ Relies(request[q])
      /\ \A r \in Requests \ {q} : Apart(request[q], request[r])
  BY OpenTransaction
<1>2. request[q].pc = "publish"
  BY DEF PublishUnlock
<1>3. \A r \in Requests \ {q} : ~request[r].lane
  BY <1>2, Zenon DEF PublishUnlock, Free, WaitsFor, AccountLaneHolders, Others
<1>4. request' = [request EXCEPT ![q] = t]
  BY Zenon DEF PublishUnlock
<1>5. left \subseteq request[q].earned
  OBVIOUS
<1> HIDE DEF left
<1>6. /\ t.pc = "award" /\ t.play = request[q].play /\ t.body = request[q].body
      /\ t.at = request[q].at /\ t.context = request[q].context
      /\ t.score = request[q].score /\ t.unlocked = request[q].unlocked /\ t.lane
  BY <1>1 DEF Submission
<1>7. t \in Submission
  BY <1>1, <1>5, Zenon DEF Submission, Claimed
<1> HIDE DEF t
<1>8. request'[q] = t /\ Alone(q)
  BY <1>1, <1>4, <1>7 DEF Alone
<1>9. Shape(t, next_score) /\ \A r \in Requests \ {q} : Apart(t, request[r])
  BY <1>1, <1>2, <1>3, <1>6 DEF Shape, Apart, Drawn, Claimed, Bound
<1>10. Relies(t)
  BY <1>1, <1>2, <1>6 DEF Relies, Attempting, Drawn, Bound, Validated, Claimed
<1>11. UNCHANGED <<setup, world, started, rows, next_score, answers>>
  BY DEF PublishUnlock
<1>12. next_score' \in Nat /\ next_score' >= next_score /\ next_score' = next_score
  BY <1>1, <1>11
<1> QED BY <1>8, <1>9, <1>10, <1>11, <1>12, QuietStep

-----------------------------------------------------------------------------
(* Answers from earlier results *)

\* A request answered with the score of its play, be it from the receipt, the
\* token or the attempt, leaves the layers in agreement.
LEMMA PriorPreserves ==
  ASSUME Inv, NEW q \in Requests, request[q].pc # "idle",
         NEW s \in score, s.play = request[q].play,
         \/ receipt' = receipt
         \/ receipt' = [receipt EXCEPT ![request[q].play] =
              [claimed |-> TRUE, body |-> request[q].body, score |-> s.id,
               expires_at |-> request[q].at + ReceiptTtl]],
         Answer(request[q].play, s.id), Finish(q),
         UNCHANGED <<setup, world, started, attempt, score, opportunity, unlock, event,
                     unlock_event, next_score>>
  PROVE  Inv'
<1> DEFINE p == request[q].play
           row == [claimed |-> TRUE, body |-> request[q].body, score |-> s.id,
                   expires_at |-> request[q].at + ReceiptTtl]
<1>1. UNCHANGED <<setup, now, revision, restrictions, started, attempt, score, opportunity,
                  unlock, event, unlock_event, next_score>>
  BY DEF world
<1>2. /\ request \in [Requests -> Submission] /\ request[q] \in Submission
      /\ next_score \in Nat \ {0}
      /\ p \in Plays /\ request[q].body \in setup.bodies /\ request[q].at \in Nat
  BY OpenTransaction, Zenon DEF Shape, Submission
<1>3. Alone(q) /\ request'[q] = Idle
  BY <1>2, FinishStep, Zenon
<1>4. s.id \in Nat /\ TypeOK
  <2>1. TypeOK
    BY DEF Inv, LayersAgree
  <2>2. s.id \in ScoreIds
    BY <2>1, Zenon DEF TypeOK
  <2>3. ScoreIds \subseteq Nat
    BY DEF ScoreIds
  <2> QED BY <2>1, <2>2, <2>3, Zenon
<1>5. row \in [claimed : BOOLEAN, body : setup.bodies \cup {0}, score : Nat, expires_at : Nat]
  BY <1>2, <1>4, ScoreAcceptanceAssumption
<1>6. /\ receipt' \in [Plays -> [claimed : BOOLEAN, body : setup.bodies \cup {0}, score : Nat,
                                 expires_at : Nat]]
      /\ receipt'[p].score = s.id \/ receipt'[p] = receipt[p]
      /\ \A o \in Plays \ {p} : receipt'[o] = receipt[o]
  <2>1. row.score = s.id
    OBVIOUS
  <2> HIDE DEF row
  <2>2. receipt' = receipt \/ receipt' = [receipt EXCEPT ![p] = row]
    BY DEF row
  <2> QED BY <1>2, <1>4, <1>5, <2>1, <2>2 DEF TypeOK
<1> HIDE DEF row
<1>7. answers' \subseteq answers \cup {<<p, s.id>>}
  BY DEF Answer
<1>8. \A o : ScoreOf(o)' = ScoreOf(o)
  BY <1>1 DEF ScoreOf
<1>9. LayersAgree'
  <2>1. TypeOK'
    BY <1>1, <1>2, <1>3, <1>4, <1>6, <1>7, SameSets DEF TypeOK, Alone
  <2>2. s \in ScoreOf(p)
    BY DEF ScoreOf
  <2>3. \A o \in Plays : receipt'[o].claimed => \E x \in ScoreOf(o) : x.id = receipt'[o].score
    BY <1>2, <1>6, <2>2 DEF Inv, LayersAgree
  <2> QED BY <1>1, <1>8, <2>1, <2>3, SameSets DEF Inv, LayersAgree
<1>10. OneScorePerPlay' /\ UnlockedOnce'
  BY <1>1 DEF Inv, OneScorePerPlay, UnlockedOnce, Achievements
<1>11. RowsInv'
  <2>1. \A x \in answers' : \E t \in score : x = <<t.play, t.id>>
    <3>1. \A x \in answers : \E t \in score : x = <<t.play, t.id>>
      BY Zenon DEF Inv, RowsInv
    <3> QED BY <1>7, <3>1, Zenon
  <2> QED BY <1>1, <2>1 DEF Inv, RowsInv, ScoreIds, Opportunities
<1>12. TransactionsInv'
  <2>1. next_score' \in Nat /\ next_score' >= next_score /\ next_score' = next_score
    BY <1>1, <1>2, SameCount, Zenon
  <2> QED BY <1>1, <1>3, <2>1, IdleRequest, TransactionsStep, Zenon
<1> QED BY <1>1, <1>9, <1>10, <1>11, <1>12 DEF Inv

\* The receipt, the token and the attempt all name the score of the play.
LEMMA ReplayPreserves ==
  ASSUME Inv, NEW q \in Requests, ReplayReceipt(q) \/ ReplayToken(q) \/ ReplayAttempt(q),
         UNCHANGED setup
  PROVE  Inv'
<1> DEFINE p == request[q].play
<1>1. request[q].pc \in {"claim", "token", "attempt"}
  BY DEF ReplayReceipt, ReplayToken, ReplayAttempt
<1>2. /\ p \in Plays
      /\ request[q].pc = "token" => p \in LazerPlays
  BY <1>1, OpenTransaction DEF Shape
<1>3. CASE ReplayReceipt(q)
  <2>1. PICK s \in score : s.play = p /\ s.id = receipt[p].score
    BY <1>2, <1>3 DEF ReplayReceipt, Inv, LayersAgree, ScoreOf
  <2>2. /\ Answer(p, s.id) /\ Finish(q) /\ receipt' = receipt
        /\ UNCHANGED <<setup, world, started, attempt, score, opportunity, unlock, event,
                       unlock_event, next_score>>
    BY <1>3, <2>1 DEF ReplayReceipt, rows
  <2> QED BY <1>1, <2>1, <2>2, PriorPreserves
<1>4. CASE ReplayToken(q)
  <2>1. /\ request[q].pc = "token" /\ started[p].score # 0
        /\ CompleteWithPrior(q, started[p].score)
    BY <1>4 DEF ReplayToken
  <2>2. PICK s \in score : s.play = p /\ s.id = started[p].score
    BY <1>2, <2>1 DEF Inv, LayersAgree, ScoreOf
  <2> QED BY <2>1, <2>2, PriorPreserves, Zenon DEF CompleteWithPrior
<1>5. CASE ReplayAttempt(q)
  <2>1. PICK s \in ScoreOf(p) : CompleteWithPrior(q, s.id)
    BY <1>5 DEF ReplayAttempt
  <2>2. s \in score /\ s.play = p
    BY <2>1 DEF ScoreOf
  <2> QED BY <1>1, <2>1, <2>2, PriorPreserves, Zenon DEF CompleteWithPrior
<1> QED BY <1>3, <1>4, <1>5

-----------------------------------------------------------------------------
(* Commit of a new score *)

\* What a transaction that commits brings: the first score of its play, with an
\* id of its own, for multiplayer attempts and achievements nobody has.
LEMMA Committing ==
  ASSUME Inv, NEW q \in Requests, Commit(q)
  PROVE  LET r == request[q] IN
         /\ r \in Submission /\ r.play \in Plays /\ r.body \in setup.bodies
         /\ r.score \in ScoreIds /\ r.score \in Nat \ {0} /\ r.score < next_score
         /\ ScoreOf(r.play) = {}
         /\ started[r.play].begun
         /\ \A s \in score : s.id # r.score /\ s.play # r.play
         /\ \A m \in r.context : opportunity[m] = 0
         /\ \A a \in r.unlocked : unlock[a] = 0
         /\ ~InForce(r.at)
<1> DEFINE r == request[q]
<1>1. /\ r.pc = "commit" /\ r \in Submission
      /\ Shape(r, next_score) /\ Relies(r)
  BY OpenTransaction, Zenon DEF Commit
<1>2. r.pc \in Attempting /\ r.pc \in Bound /\ r.pc \in Drawn /\ r.pc \in Validated
  BY <1>1 DEF Attempting, Bound, Drawn, Validated, Claimed
<1> HIDE DEF r
<1>3. /\ r.play \in Plays /\ r.body \in setup.bodies
      /\ r.score \in ScoreIds /\ r.score < next_score
  BY <1>1, <1>2 DEF Shape
<1>4. r.score \in Nat \ {0}
  BY <1>3, ScoreAcceptanceAssumption DEF ScoreIds, Inv
<1>5. /\ ScoreOf(r.play) = {}
      /\ \A s \in score : s.id # r.score
      /\ \A m \in r.context : opportunity[m] = 0
      /\ \A a \in r.unlocked : unlock[a] = 0
      /\ ~InForce(r.at)
      /\ started[r.play].begun
  BY <1>1, <1>2 DEF Relies
<1>6. \A s \in score : s.play # r.play
  BY <1>5 DEF ScoreOf
<1> QED BY <1>1, <1>3, <1>4, <1>5, <1>6 DEF r

\* The rows a commit writes.
NewScore(r) == [id |-> r.score, play |-> r.play, at |-> r.at, context |-> r.context]
NewReceipt(r) ==
  [claimed |-> TRUE, body |-> r.body, score |-> r.score, expires_at |-> r.at + ReceiptTtl]

\* A committed score is a score row, and the rest of the rows keep their types.
LEMMA CommitTypes ==
  ASSUME Inv, NEW q \in Requests, Commit(q), UNCHANGED setup
  PROVE  TypeOK'
<1> DEFINE r == request[q]
<1>1. /\ r \in Submission /\ r.play \in Plays /\ r.body \in setup.bodies
      /\ r.score \in ScoreIds /\ r.score \in Nat
  BY Committing
<1>2. r.at \in Nat /\ r.context \in SUBSET Opportunities
  BY <1>1 DEF Submission
<1>3. TypeOK
  BY DEF Inv, LayersAgree
<1>4. Alone(q)
  BY <1>3, FinishStep, Zenon DEF TypeOK, Commit
<1>5. NewScore(r) \in [id : ScoreIds, play : Plays, at : Nat, context : SUBSET Opportunities]
  BY <1>1, <1>2, Zenon DEF NewScore
<1>6. NewReceipt(r) \in [claimed : BOOLEAN, body : setup.bodies \cup {0}, score : Nat,
                         expires_at : Nat]
  BY <1>1, <1>2, ScoreAcceptanceAssumption DEF NewReceipt
<1>7. /\ score' = score \cup {NewScore(r)}
      /\ receipt' = [receipt EXCEPT ![r.play] = NewReceipt(r)]
      /\ DOMAIN attempt' = DOMAIN attempt
      /\ event' = [event EXCEPT ![r.score] = event[r.score] + 1]
      /\ opportunity' = [m \in Opportunities |-> IF m \in r.context THEN r.score
                                                                    ELSE opportunity[m]]
      /\ unlock' = [a \in Achievements |-> IF a \in r.unlocked THEN r.score ELSE unlock[a]]
      /\ unlock_event' = [a \in Achievements |-> IF a \in r.unlocked THEN unlock_event[a] + 1
                                                                     ELSE unlock_event[a]]
      /\ answers' \subseteq answers \cup {<<r.play, r.score>>}
      /\ UNCHANGED <<now, revision, restrictions, next_score>>
  BY Zenon DEF Commit, Answer, world, NewScore, NewReceipt
<1>8. started' \in [Plays -> [begun : BOOLEAN, revision : Nat, expires_at : Nat, score : Nat]]
  <2> DEFINE token == [started[r.play] EXCEPT !.score = r.score]
  <2>1. started[r.play] \in [begun : BOOLEAN, revision : Nat, expires_at : Nat, score : Nat]
    BY <1>1, <1>3 DEF TypeOK
  <2>2. token \in [begun : BOOLEAN, revision : Nat, expires_at : Nat, score : Nat]
    BY <1>1, <2>1
  <2>3. started' = started \/ started' = [started EXCEPT ![r.play] = token]
    BY DEF Commit, UseToken
  <2> HIDE DEF token
  <2> QED BY <1>1, <1>3, <2>2, <2>3, Zenon DEF TypeOK
<1> HIDE DEF r
<1>9. receipt' \in [Plays -> [claimed : BOOLEAN, body : setup.bodies \cup {0}, score : Nat,
                              expires_at : Nat]]
  BY <1>1, <1>3, <1>6, <1>7 DEF TypeOK
<1>10. event' \in [ScoreIds -> Nat]
  BY <1>1, <1>3, <1>7 DEF TypeOK
<1>11. /\ opportunity' \in [Opportunities -> Nat]
       /\ unlock' \in [Achievements -> Nat]
       /\ unlock_event' \in [Achievements -> Nat]
  BY <1>1, <1>3, <1>7 DEF TypeOK
<1>12. /\ score' \subseteq [id : ScoreIds, play : Plays, at : Nat, context : SUBSET Opportunities]
       /\ answers' \subseteq Plays \X Nat
       /\ DOMAIN attempt' = Plays
  BY <1>1, <1>3, <1>5, <1>7 DEF TypeOK
<1> QED BY <1>3, <1>4, <1>7, <1>8, <1>9, <1>10, <1>11, <1>12, SameSets DEF TypeOK, Alone

\* After a commit receipt, token, attempt and score of the play name one score,
\* and those of the other plays are as before.
LEMMA CommitLayers ==
  ASSUME Inv, NEW q \in Requests, Commit(q), UNCHANGED setup
  PROVE  LayersAgree' /\ OneScorePerPlay'
<1> DEFINE r == request[q]
           s == NewScore(r)
<1>1. /\ r.play \in Plays /\ r.score # 0
      /\ \A x \in score : x.play # r.play
      /\ TypeOK
  BY Committing DEF Inv, LayersAgree
<1>2. s.id = r.score /\ s.play = r.play
  BY DEF NewScore
<1>3. /\ score' = score \cup {s}
      /\ receipt' = [receipt EXCEPT ![r.play] = NewReceipt(r)]
      /\ attempt' = [attempt EXCEPT ![r.play] = [made |-> TRUE, facts |-> Facts(r)]]
      /\ started' = UseToken(r)
  BY Zenon DEF Commit, NewScore, NewReceipt
<1>4. NewReceipt(r).score = r.score /\ NewReceipt(r).claimed
  BY DEF NewReceipt
<1> HIDE DEF s
<1>5. /\ receipt'[r.play].score = r.score
      /\ attempt'[r.play].made
      /\ \A p \in Plays \ {r.play} : receipt'[p] = receipt[p] /\ attempt'[p] = attempt[p]
  BY <1>1, <1>3, <1>4 DEF TypeOK
<1>6. /\ r.play \in LazerPlays => started'[r.play].score = r.score
      /\ \A p \in Plays \ {r.play} : started'[p] = started[p]
  <2> DEFINE token == [started[r.play] EXCEPT !.score = r.score]
  <2>1. started[r.play] \in [begun : BOOLEAN, revision : Nat, expires_at : Nat, score : Nat]
    BY <1>1 DEF TypeOK
  <2>2. token.score = r.score
    BY <2>1
  <2>3. started' = IF r.play \in LazerPlays THEN [started EXCEPT ![r.play] = token] ELSE started
    BY <1>3 DEF UseToken
  <2> HIDE DEF token
  <2> QED BY <1>1, <2>2, <2>3 DEF TypeOK
<1>7. ASSUME NEW p \in Plays
      PROVE  ScoreOf(p)' = IF p = r.play THEN {s} ELSE ScoreOf(p)
  <2>1. ScoreOf(p)' = {x \in score' : x.play = p}
    BY DEF ScoreOf
  <2> QED BY <1>1, <1>2, <1>3, <2>1 DEF ScoreOf
<1> HIDE DEF r
<1>8. ASSUME NEW p \in Plays
      PROVE  /\ receipt'[p].claimed => \E x \in ScoreOf(p)' : x.id = receipt'[p].score
             /\ attempt'[p].made <=> ScoreOf(p)' # {}
             /\ p \in LazerPlays => (started'[p].score # 0 <=> ScoreOf(p)' # {})
             /\ \A x \in ScoreOf(p)' : p \in LazerPlays => started'[p].score = x.id
  <2>1. CASE p = r.play
    BY <1>1, <1>2, <1>5, <1>6, <1>7, <2>1
  <2>2. CASE p # r.play
    <3>1. /\ receipt'[p] = receipt[p] /\ attempt'[p] = attempt[p] /\ started'[p] = started[p]
          /\ ScoreOf(p)' = ScoreOf(p)
      BY <1>5, <1>6, <1>7, <2>2
    <3> QED BY <3>1 DEF Inv, LayersAgree
  <2> QED BY <2>1, <2>2
<1>9. TypeOK'
  BY CommitTypes
<1>10. LayersAgree'
  BY <1>8, <1>9, SameSets DEF LayersAgree
<1>11. OneScorePerPlay'
  BY <1>1, <1>2, <1>3 DEF Inv, OneScorePerPlay
<1> QED BY <1>10, <1>11

\* A commit binds its multiplayer attempts and unlocks its achievements once,
\* under an id no other row has.
LEMMA CommitRows ==
  ASSUME Inv, NEW q \in Requests, Commit(q), UNCHANGED setup
  PROVE  RowsInv' /\ UnlockedOnce'
<1> DEFINE r == request[q]
           s == NewScore(r)
<1>1. /\ r.play \in Plays /\ r.score \in ScoreIds /\ r.score # 0 /\ r.score < next_score
      /\ \A x \in score : x.id # r.score
      /\ \A m \in r.context : opportunity[m] = 0
      /\ \A a \in r.unlocked : unlock[a] = 0
      /\ started[r.play].begun
      /\ TypeOK
  BY Committing DEF Inv, LayersAgree
<1>2. s.id = r.score /\ s.play = r.play /\ s.context = r.context
  BY DEF NewScore
<1>3. /\ score' = score \cup {s}
      /\ event' = [event EXCEPT ![r.score] = event[r.score] + 1]
      /\ opportunity' = [m \in Opportunities |-> IF m \in r.context THEN r.score
                                                                    ELSE opportunity[m]]
      /\ unlock' = [a \in Achievements |-> IF a \in r.unlocked THEN r.score ELSE unlock[a]]
      /\ unlock_event' = [a \in Achievements |-> IF a \in r.unlocked THEN unlock_event[a] + 1
                                                                     ELSE unlock_event[a]]
      /\ answers' \subseteq answers \cup {<<r.play, r.score>>}
      /\ UNCHANGED <<setup, restrictions, next_score>>
  BY Zenon DEF Commit, Answer, world, NewScore
<1>4. r.context \subseteq Opportunities
  BY Committing, Zenon DEF Submission
<1>5. \A p \in Plays : started[p].begun => started'[p].begun
  <2> DEFINE token == [started[r.play] EXCEPT !.score = r.score]
  <2>1. started[r.play] \in [begun : BOOLEAN, revision : Nat, expires_at : Nat, score : Nat]
    BY <1>1 DEF TypeOK
  <2>2. token.begun = started[r.play].begun
    BY <2>1
  <2>3. started' = started \/ started' = [started EXCEPT ![r.play] = token]
    BY DEF Commit, UseToken
  <2> HIDE DEF token
  <2> QED BY <1>1, <2>2, <2>3, Zenon DEF TypeOK
<1> HIDE DEF r, s
<1>6. UnlockedOnce'
  <2>1. \A a \in Achievements : unlock_event[a] = IF unlock[a] = 0 THEN 0 ELSE 1
    BY DEF Inv, UnlockedOnce
  <2>2. \A a \in Achievements : unlock[a] # 0 => \E x \in score : x.id = unlock[a]
    BY DEF Inv, UnlockedOnce
  <2>3. \A a \in Achievements : unlock_event'[a] = IF unlock'[a] = 0 THEN 0 ELSE 1
    BY <1>1, <1>3, <2>1
  <2>4. \A a \in Achievements : unlock'[a] # 0 => \E x \in score' : x.id = unlock'[a]
    BY <1>2, <1>3, <2>2
  <2> QED BY <1>3, <2>3, <2>4, Zenon DEF UnlockedOnce, Achievements
<1>7. \A x \in score' : x.id < next_score' /\ started'[x.play].begun
  <2>1. \A x \in score : x.play \in Plays /\ x.id < next_score /\ started[x.play].begun
    BY <1>1 DEF Inv, RowsInv, TypeOK
  <2> QED BY <1>1, <1>2, <1>3, <1>5, <2>1
<1>8. \A x, y \in score' : x.id = y.id => x = y
  BY <1>1, <1>2, <1>3 DEF Inv, RowsInv
<1>9. \A id \in ScoreIds : event'[id] = IF \E x \in score' : x.id = id THEN 1 ELSE 0
  <2>1. \A id \in ScoreIds : event[id] = IF \E x \in score : x.id = id THEN 1 ELSE 0
    BY DEF Inv, RowsInv
  <2>2. event'[r.score] = 1
    BY <1>1, <1>3, <2>1 DEF TypeOK
  <2>3. \A id \in ScoreIds \ {r.score} : event'[id] = event[id]
    BY <1>1, <1>3 DEF TypeOK
  <2> QED BY <1>2, <1>3, <2>1, <2>2, <2>3
<1>10. \A x \in answers' : \E y \in score' : x = <<y.play, y.id>>
  BY <1>2, <1>3 DEF Inv, RowsInv
<1>11. \A m \in Opportunities : opportunity'[m] # 0 =>
         \E x \in score' : x.id = opportunity'[m] /\ m \in x.context
  BY <1>1, <1>2, <1>3, Zenon DEF Inv, RowsInv
<1>12. \A x \in score' : \A m \in x.context : opportunity'[m] = x.id
  <2>1. ASSUME NEW x \in score, NEW m \in x.context PROVE opportunity'[m] = x.id
    <3>1. m \in Opportunities /\ opportunity[m] = x.id /\ x.id \in ScoreIds
      BY <1>1, <2>1 DEF Inv, RowsInv, TypeOK
    <3>2. x.id # 0
      BY <3>1, ScoreAcceptanceAssumption DEF ScoreIds, Inv
    <3> QED BY <1>1, <1>3, <3>1, <3>2
  <2>2. \A m \in r.context : opportunity'[m] = r.score
    BY <1>3, <1>4
  <2> QED BY <1>2, <1>3, <2>1, <2>2
<1>13. \A x \in restrictions' : x.imposed_until <= x.ends_at
  BY <1>3 DEF Inv, RowsInv
<1> QED BY <1>3, <1>6, <1>7, <1>8, <1>9, <1>10, <1>11, <1>12, <1>13, Zenon
         DEF RowsInv, ScoreIds, Opportunities

\* What other transactions rely on, a commit leaves alone: they are apart.
LEMMA CommitTransactions ==
  ASSUME Inv, NEW q \in Requests, Commit(q), UNCHANGED setup
  PROVE  TransactionsInv'
<1> DEFINE r == request[q]
           s == NewScore(r)
<1>1. TypeOK /\ r.pc = "commit" /\ r.play \in Plays
  BY Committing, Zenon DEF Commit, Inv, LayersAgree
<1>2. Alone(q) /\ request'[q] = Idle
  BY <1>1, FinishStep, Zenon DEF TypeOK, Commit
<1>3. s.id = r.score /\ s.play = r.play
  BY DEF NewScore
<1>4. /\ score' = score \cup {s}
      /\ opportunity' = [m \in Opportunities |-> IF m \in r.context THEN r.score
                                                                    ELSE opportunity[m]]
      /\ unlock' = [a \in Achievements |-> IF a \in r.unlocked THEN r.score ELSE unlock[a]]
      /\ UNCHANGED <<setup, restrictions, next_score>>
  BY Zenon DEF Commit, world, NewScore
<1>5. \A p \in Plays : started[p].begun => started'[p].begun
  <2> DEFINE token == [started[r.play] EXCEPT !.score = r.score]
  <2>1. started[r.play] \in [begun : BOOLEAN, revision : Nat, expires_at : Nat, score : Nat]
    BY <1>1 DEF TypeOK
  <2>2. token.begun = started[r.play].begun
    BY <2>1
  <2>3. started' = started \/ started' = [started EXCEPT ![r.play] = token]
    BY DEF Commit, UseToken
  <2> HIDE DEF token
  <2> QED BY <1>1, <2>2, <2>3, Zenon DEF TypeOK
<1> HIDE DEF s
<1>6. ASSUME NEW x \in Requests \ {q}
      PROVE  Shape(request[x], next_score)' /\ Relies(request[x])'
  <2> DEFINE t == request[x]
  <2>1. /\ t \in Submission /\ Shape(t, next_score) /\ Relies(t) /\ Apart(r, t)
        /\ request'[x] = t
    BY <1>2, OpenTransaction DEF Alone
  <2>2. t.context \subseteq Opportunities /\ t.unlocked \subseteq Achievements
    BY <2>1 DEF Submission
  <2>3. r.pc \in Claimed /\ r.pc \in Bound /\ r.pc \in Drawn
    BY <1>1 DEF Claimed, Bound, Drawn
  <2>4. t.pc \in Attempting => t.pc \in Claimed
    BY DEF Attempting, Bound, Claimed
  <2> HIDE DEF t, r
  <2>5. t.pc \in Attempting => \A y \in score' : y.play # t.play
    BY <1>3, <1>4, <2>1, <2>3, <2>4 DEF Relies, Apart, ScoreOf
  <2>6. t.pc \in Drawn => \A y \in score' : y.id # t.score
    BY <1>3, <1>4, <2>1, <2>3 DEF Relies, Apart
  <2>7. t.pc \in Bound => \A m \in t.context : opportunity'[m] = 0
    BY <1>4, <2>1, <2>2, <2>3 DEF Relies, Apart
  <2>8. \A a \in t.unlocked : unlock'[a] = 0
    BY <1>4, <2>1, <2>2 DEF Relies, Apart
  <2>9. t.pc \in Validated => ~InForce(t.at)
    BY <2>1 DEF Relies
  <2>10. t.pc # "idle" => started'[t.play].begun
    BY <1>5, <2>1, Zenon DEF Relies, Shape
  <2>11. Relies(request[x])'
    BY <1>4, <2>1, <2>5, <2>6, <2>7, <2>8, <2>9, <2>10, Zenon DEF Relies, ScoreOf, InForce
  <2>12. Shape(request[x], next_score)'
    BY <1>4, <2>1, Zenon DEF Shape, Plays, LazerPlays, ScoreIds
  <2> QED BY <2>11, <2>12
<1>7. Shape(request[q], next_score)' /\ Relies(request[q])'
  <2>1. request'[q].pc = "idle" /\ request'[q] = Idle
    <3>1. Idle.pc = "idle"
      BY DEF Idle
    <3> QED BY <1>2, <3>1, Zenon
  <2>2. Shape(request'[q], next_score')
    BY <2>1, IdleRequest, Zenon
  <2> QED BY <2>1, <2>2, Zenon DEF Shape, Relies, Claimed, Bound, Attempting, Validated, Drawn
<1>8. ASSUME NEW x \in Requests, NEW y \in Requests, x # y
      PROVE  Apart(request[x], request[y])'
  <2>1. CASE x = q \/ y = q
    BY <1>2, <1>8, <2>1, IdleRequest DEF Apart
  <2>2. CASE x # q /\ y # q
    BY <1>2, <1>8, <2>2 DEF Alone, Inv, TransactionsInv, Apart
  <2> QED BY <2>1, <2>2
<1> QED BY <1>6, <1>7, <1>8 DEF TransactionsInv

\* Committing a new score keeps the invariant.
LEMMA CommitPreserves ==
  ASSUME Inv, NEW q \in Requests, Commit(q), UNCHANGED setup
  PROVE  Inv'
  BY CommitLayers, CommitRows, CommitTransactions DEF Inv

-----------------------------------------------------------------------------
(* Clients, moderators, content and time *)

\* A play that begins has no score, no receipt in use and no open transaction.
LEMMA StartPreserves ==
  ASSUME Inv, NEW p \in Plays, IssueSoloToken(p) \/ StartStable(p), UNCHANGED setup
  PROVE  Inv'
<1>0. PICK end \in {0, now + TokenLifetime} :
        started' = [started EXCEPT ![p] = [begun |-> TRUE, revision |-> revision,
                                           expires_at |-> end, score |-> 0]]
  BY DEF IssueSoloToken, StartStable
<1> DEFINE row == [begun |-> TRUE, revision |-> revision, expires_at |-> end, score |-> 0]
<1>1. started' = [started EXCEPT ![p] = row] /\ row.begun /\ row.score = 0
  BY <1>0
<1>2. /\ ~started[p].begun
      /\ UNCHANGED <<setup, now, revision, restrictions, receipt, attempt, score, opportunity,
                     unlock, event, unlock_event, next_score, request, answers>>
  BY DEF IssueSoloToken, StartStable, world, rows
<1>3. TypeOK
  BY DEF Inv, LayersAgree
<1> HIDE DEF row
<1>4. /\ started'[p].begun /\ started'[p].score = 0
      /\ \A o \in Plays \ {p} : started'[o] = started[o]
  BY <1>1, <1>3 DEF TypeOK
<1>5. \A s \in score : s.play \in Plays /\ s.play # p
  BY <1>2, <1>3 DEF Inv, RowsInv, TypeOK
<1>6. \A o : ScoreOf(o)' = ScoreOf(o)
  BY <1>2 DEF ScoreOf
<1>7. TypeOK'
  <2>1. row \in [begun : BOOLEAN, revision : Nat, expires_at : Nat, score : Nat]
    <3>1. revision \in Nat /\ end \in Nat
      BY <1>3, ScoreAcceptanceAssumption DEF TypeOK
    <3> QED BY <3>1 DEF row
  <2>2. started' \in [Plays -> [begun : BOOLEAN, revision : Nat, expires_at : Nat, score : Nat]]
    BY <1>1, <1>3, <2>1 DEF TypeOK
  <2> QED BY <1>2, <1>3, <2>2, SameSets DEF TypeOK
<1>8. LayersAgree'
  <2>1. ScoreOf(p) = {}
    BY <1>5 DEF ScoreOf
  <2>2. \A o \in Plays :
          /\ o \in LazerPlays => (started'[o].score # 0 <=> ScoreOf(o) # {})
          /\ \A s \in ScoreOf(o) : o \in LazerPlays => started'[o].score = s.id
    BY <1>4, <2>1, Zenon DEF Inv, LayersAgree
  <2> QED BY <1>2, <1>6, <1>7, <2>2, SameSets DEF Inv, LayersAgree
<1>9. OneScorePerPlay' /\ UnlockedOnce'
  BY <1>2, Zenon DEF Inv, OneScorePerPlay, UnlockedOnce, Achievements
<1>10. RowsInv'
  <2>1. \A s \in score : started'[s.play].begun
    BY <1>4, <1>5, Zenon DEF Inv, RowsInv
  <2> QED BY <1>2, <2>1, Zenon DEF Inv, RowsInv, ScoreIds, Opportunities
<1>11. TransactionsInv'
  <2>1. ASSUME NEW q \in Requests PROVE Shape(request[q], next_score)' /\ Relies(request[q])'
    <3>1. Shape(request[q], next_score) /\ Relies(request[q])
      BY DEF Inv, TransactionsInv
    <3>2. request[q].pc # "idle" => started'[request[q].play].begun
      BY <1>4, <3>1, Zenon DEF Shape, Relies
    <3>3. Shape(request[q], next_score)'
      BY <1>2, <3>1 DEF Shape, Plays, LazerPlays, ScoreIds
    <3> QED BY <1>2, <3>1, <3>2, <3>3 DEF Relies, ScoreOf, InForce
  <2> QED BY <1>2, <2>1, Zenon DEF Inv, TransactionsInv, Apart
<1> QED BY <1>2, <1>8, <1>9, <1>10, <1>11 DEF Inv

\* The rest of the system changes no row of accept, and takes no restriction to
\* an account that a transaction has validated.
LEMMA WorldPreserves ==
  ASSUME Inv, UNCHANGED <<setup, started, rows, next_score, request, answers>>,
         now' \in Nat, revision' \in Nat,
         restrictions' \subseteq [starts_at : Nat, ends_at : Nat, imposed_until : Nat,
                                  revoked : BOOLEAN],
         \A s \in restrictions' : s.imposed_until <= s.ends_at,
         \A q \in Requests : request[q].pc \in Validated =>
           ~ \E s \in restrictions' : /\ ~s.revoked /\ s.starts_at <= request[q].at
                                      /\ request[q].at < s.imposed_until
  PROVE  Inv'
<1>1. UNCHANGED <<setup, started, receipt, attempt, score, opportunity, unlock, event,
                  unlock_event, next_score, request, answers>>
  BY Zenon DEF rows
<1>2. \A o : ScoreOf(o)' = ScoreOf(o)
  BY <1>1, Zenon DEF ScoreOf
<1>3. LayersAgree'
  <2>1. TypeOK'
    BY <1>1, SameSets DEF Inv, LayersAgree, TypeOK
  <2> QED BY <1>1, <1>2, <2>1, SameSets, Zenon DEF Inv, LayersAgree
<1>4. OneScorePerPlay' /\ UnlockedOnce'
  BY <1>1, Zenon DEF Inv, OneScorePerPlay, UnlockedOnce, Achievements
<1>5. RowsInv'
  <2>1. RowsInv
    BY Zenon DEF Inv
  <2> QED BY <1>1, <2>1, SameRows, Zenon
<1>6. TransactionsInv'
  <2>1. ASSUME NEW q \in Requests PROVE Shape(request[q], next_score)' /\ Relies(request[q])'
    <3>1. Shape(request[q], next_score) /\ Relies(request[q])
      BY DEF Inv, TransactionsInv
    <3>2. Shape(request[q], next_score)'
      BY <1>1, <3>1 DEF Shape, Plays, LazerPlays, ScoreIds
    <3> QED BY <1>1, <1>2, <3>1, <3>2, Zenon DEF Relies, InForce
  <2> QED BY <1>1, <2>1, Zenon DEF Inv, TransactionsInv, Apart
<1> QED BY <1>1, <1>3, <1>4, <1>5, <1>6, Zenon DEF Inv

\* Imposing waits for the submissions that validated the account; extending and
\* revoking move no term that was imposed.
LEMMA ModeratorPreserves ==
  ASSUME Inv, ModeratorStep, UNCHANGED setup
  PROVE  Inv'
<1> DEFINE Sanction == [starts_at : Nat, ends_at : Nat, imposed_until : Nat, revoked : BOOLEAN]
<1>1. /\ restrictions \subseteq Sanction /\ now \in Nat /\ revision \in Nat
      /\ \A s \in restrictions : s.imposed_until <= s.ends_at
      /\ \A q \in Requests : request[q].pc \in Validated => ~InForce(request[q].at)
  BY DEF Inv, LayersAgree, TypeOK, RowsInv, TransactionsInv, Relies
<1>2. \A n \in 0 .. setup.time + 1 : n \in Nat
  BY ScoreAcceptanceAssumption DEF Inv
<1>3. UNCHANGED <<setup, now, revision, started, rows, next_score, request, answers>>
  BY DEF ModeratorStep, ImposeRestriction, ExtendRestriction, RevokeRestriction
<1>4. ASSUME NEW from \in 0 .. setup.time + 1, NEW until \in 0 .. setup.time + 1,
             ImposeRestriction(from, until)
      PROVE  Inv'
  <2> DEFINE new == [starts_at |-> from, ends_at |-> until, imposed_until |-> until,
                     revoked |-> FALSE]
  <2>1. restrictions' = restrictions \cup {new}
    BY <1>4 DEF ImposeRestriction
  <2>2. new \in Sanction /\ new.imposed_until <= new.ends_at
    BY <1>2
  <2> HIDE DEF new
  <2>3. \A q \in Requests : request[q].pc \notin Validated
    BY <1>4 DEF ImposeRestriction, AccountReaders
  <2>4. /\ restrictions' \subseteq Sanction
        /\ \A s \in restrictions' : s.imposed_until <= s.ends_at
    BY <1>1, <2>1, <2>2
  <2> QED BY <1>1, <1>3, <2>3, <2>4, WorldPreserves
<1>5. ASSUME NEW s \in restrictions, NEW t \in Sanction,
             restrictions' = (restrictions \ {s}) \cup {t},
             t.starts_at = s.starts_at, t.imposed_until = s.imposed_until,
             t.imposed_until <= t.ends_at, ~t.revoked => ~s.revoked
      PROVE  Inv'
  <2>1. /\ restrictions' \subseteq Sanction
        /\ \A x \in restrictions' : x.imposed_until <= x.ends_at
    BY <1>1, <1>5
  <2>2. \A q \in Requests : request[q].pc \in Validated =>
          ~ \E x \in restrictions' : /\ ~x.revoked /\ x.starts_at <= request[q].at
                                     /\ request[q].at < x.imposed_until
    BY <1>1, <1>5 DEF InForce
  <2> QED BY <1>1, <1>3, <2>1, <2>2, WorldPreserves
<1>6. ASSUME NEW s \in restrictions, NEW until \in 0 .. setup.time + 1,
             ExtendRestriction(s, until)
      PROVE  Inv'
  <2> DEFINE t == [s EXCEPT !.ends_at = until]
  <2>1. s \in Sanction /\ ~s.revoked /\ s.ends_at < until /\ s.imposed_until <= s.ends_at
    BY <1>1, <1>6 DEF ExtendRestriction
  <2>2. restrictions' = (restrictions \ {s}) \cup {t}
    BY <1>6 DEF ExtendRestriction
  <2>3. /\ t \in Sanction
        /\ t.starts_at = s.starts_at /\ t.imposed_until = s.imposed_until
        /\ t.ends_at = until
    BY <1>2, <2>1
  <2> HIDE DEF t
  <2>4. t.imposed_until <= t.ends_at
    BY <1>2, <2>1, <2>3
  <2> QED BY <1>5, <2>1, <2>2, <2>3, <2>4
<1>7. ASSUME NEW s \in restrictions, RevokeRestriction(s)
      PROVE  Inv'
  <2> DEFINE t == [s EXCEPT !.revoked = TRUE]
  <2>1. s \in Sanction /\ s.imposed_until <= s.ends_at
    BY <1>1
  <2>2. restrictions' = (restrictions \ {s}) \cup {t}
    BY <1>7 DEF RevokeRestriction
  <2>3. /\ t \in Sanction
        /\ t.starts_at = s.starts_at /\ t.imposed_until = s.imposed_until
        /\ t.ends_at = s.ends_at /\ t.revoked
    BY <2>1, Zenon
  <2> HIDE DEF t
  <2> QED BY <1>5, <2>1, <2>2, <2>3
<1> QED BY <1>4, <1>6, <1>7 DEF ModeratorStep

\* A new revision and the passing of time change nothing accept relies on.
LEMMA TimePreserves ==
  ASSUME Inv, PublishRevision \/ Tick, UNCHANGED setup
  PROVE  Inv'
<1>1. /\ now \in Nat /\ revision \in Nat
      /\ restrictions \subseteq [starts_at : Nat, ends_at : Nat, imposed_until : Nat,
                                 revoked : BOOLEAN]
      /\ \A s \in restrictions : s.imposed_until <= s.ends_at
      /\ \A q \in Requests : request[q].pc \in Validated => ~InForce(request[q].at)
  BY Zenon DEF Inv, LayersAgree, TypeOK, RowsInv, TransactionsInv, Relies
<1>2. /\ UNCHANGED <<setup, restrictions, started, rows, next_score, request, answers>>
      /\ now' \in Nat /\ revision' \in Nat
  BY <1>1 DEF PublishRevision, Tick
<1>3. restrictions' = restrictions
  BY <1>2
<1> QED BY <1>1, <1>2, <1>3, WorldPreserves DEF InForce

-----------------------------------------------------------------------------
(* Awards *)

INSTANCE FiniteSetTheorems

\* The achievement awarded next is one of those still to be awarded.
LEMMA SmallestIsIn ==
  ASSUME NEW S \in SUBSET Nat, S # {}
  PROVE  Smallest(S) \in S
<1>1. \E R : IsWellFoundedOn(R, Nat) /\ \A m, n \in Nat : m < n => <<m, n>> \in R
  <2>1. \A m, n \in Nat : m < n => <<m, n>> \in OpToRel(<, Nat)
    BY DEF OpToRel
  <2> QED BY <2>1, NatLessThanWellFounded, Zenon
<1>2. PICK R : IsWellFoundedOn(R, Nat) /\ \A m, n \in Nat : m < n => <<m, n>> \in R
  BY <1>1
<1>3. S \subseteq Nat /\ S # {}
  OBVIOUS
<1>4. PICK n \in S : \A m \in S : ~(<<m, n>> \in R)
  <2>1. IsWellFoundedOn(R, Nat)
    BY <1>2
  <2> QED BY <1>3, <2>1, WFMin, Zenon
<1>5. \A m \in S : n \in Nat /\ m \in Nat /\ ~(m < n)
  BY <1>2, <1>3, <1>4, Zenon
<1>6. \A m \in S : n <= m
  BY <1>5
<1> QED BY <1>6, Zenon DEF Smallest

\* An unlock is inserted where no committed and no open transaction has one, or
\* the definition is passed over.
LEMMA UnlockAchievementPreserves ==
  ASSUME Inv, NEW q \in Requests, UnlockAchievement(q), UNCHANGED setup
  PROVE  Inv'
<1> DEFINE a == Smallest(request[q].earned)
           won == [request[q] EXCEPT !.pc = "publish", !.unlocked = request[q].unlocked \cup {a}]
           lost == [request[q] EXCEPT !.earned = request[q].earned \ {a}]
<1>1. /\ request \in [Requests -> Submission] /\ request[q] \in Submission
      /\ next_score \in Nat \ {0}
      /\ Shape(request[q], next_score)
      /\ Relies(request[q])
      /\ \A r \in Requests \ {q} : Apart(request[q], request[r])
  BY OpenTransaction
<1>2. request[q].pc = "award" /\ request[q].earned # {}
  BY DEF UnlockAchievement
<1>3. a \in request[q].earned /\ a \in Achievements
  <2>1. request[q].earned \in SUBSET Achievements /\ Achievements \subseteq Nat
    BY <1>1, ScoreAcceptanceAssumption DEF Submission, Achievements, Inv
  <2> QED BY <1>2, <2>1, SmallestIsIn, Zenon
<1>4. \A r \in Requests \ {q} : a \notin request[r].unlocked
  BY <1>2, Zenon DEF UnlockAchievement, Free, WaitsFor, UnlockHolders, Others
<1>5. \/ unlock[a] = 0 /\ request' = [request EXCEPT ![q] = won]
      \/ request' = [request EXCEPT ![q] = lost]
  BY Zenon DEF UnlockAchievement
<1>6. /\ won.pc = "publish" /\ won.play = request[q].play /\ won.body = request[q].body
      /\ won.at = request[q].at /\ won.context = request[q].context
      /\ won.score = request[q].score /\ won.earned = request[q].earned
      /\ won.unlocked = request[q].unlocked \cup {a} /\ won.lane = request[q].lane
  BY <1>1 DEF Submission
<1>7. /\ lost.pc = "award" /\ lost.play = request[q].play /\ lost.body = request[q].body
      /\ lost.at = request[q].at /\ lost.context = request[q].context
      /\ lost.score = request[q].score
      /\ lost.unlocked = request[q].unlocked /\ lost.lane = request[q].lane
  BY <1>1, <1>2 DEF Submission
<1>8. won \in Submission /\ lost \in Submission
  BY <1>1, <1>3, Zenon DEF Submission, Claimed
<1> HIDE DEF a, won, lost
<1>9. UNCHANGED <<setup, world, started, rows, next_score, answers>>
  BY DEF UnlockAchievement
<1>10. next_score' \in Nat /\ next_score' >= next_score /\ next_score' = next_score
  BY <1>1, <1>9, SameCount, Zenon
<1>11. CASE unlock[a] = 0 /\ request' = [request EXCEPT ![q] = won]
  <2>1. request'[q] = won /\ Alone(q)
    BY <1>1, <1>8, <1>11 DEF Alone
  <2>2. Shape(won, next_score) /\ \A r \in Requests \ {q} : Apart(won, request[r])
    BY <1>1, <1>2, <1>4, <1>6, Zenon DEF Shape, Apart, Drawn, Claimed, Bound
  <2>3. Relies(won)
    BY <1>1, <1>2, <1>6, <1>11, Zenon DEF Relies, Attempting, Drawn, Bound, Validated, Claimed
  <2> QED BY <1>9, <1>10, <2>1, <2>2, <2>3, QuietStep
<1>12. CASE request' = [request EXCEPT ![q] = lost]
  <2>1. request'[q] = lost /\ Alone(q)
    BY <1>1, <1>8, <1>12 DEF Alone
  <2>2. Shape(lost, next_score) /\ \A r \in Requests \ {q} : Apart(lost, request[r])
    BY <1>1, <1>2, <1>7, Zenon DEF Shape, Apart
  <2>3. Relies(lost)
    BY <1>1, <1>2, <1>7, Zenon DEF Relies
  <2> QED BY <1>9, <1>10, <2>1, <2>2, <2>3, QuietStep
<1> QED BY <1>5, <1>11, <1>12

-----------------------------------------------------------------------------
(* The theorems *)

\* Before the first submission there is nothing to agree on.
LEMMA InitInv == Init => Inv
<1> SUFFICES ASSUME Init PROVE Inv
  OBVIOUS
<1>1. Idle \in Submission
  BY DEF Idle, Submission
<1>2. TypeOK
  <2>1. /\ NotStarted \in [begun : BOOLEAN, revision : Nat, expires_at : Nat, score : Nat]
        /\ NoReceipt \in [claimed : BOOLEAN, body : setup.bodies \cup {0}, score : Nat,
                          expires_at : Nat]
    BY DEF NotStarted, NoReceipt
  <2> QED BY <1>1, <2>1 DEF Init, TypeOK
<1>3. LayersAgree
  BY <1>2 DEF Init, LayersAgree, ScoreOf, NoReceipt, NoAttempt, NotStarted,
     ScoreAcceptanceAssumption, LazerPlays, Plays
<1>4. OneScorePerPlay /\ UnlockedOnce
  BY DEF Init, OneScorePerPlay, UnlockedOnce
<1>5. RowsInv
  BY DEF Init, RowsInv
<1>6. TransactionsInv
  BY IdleRequest DEF Init, TransactionsInv
<1> QED BY <1>3, <1>4, <1>5, <1>6 DEF Init, Inv

\* Every step of accept, of its clients and of the rest of the system keeps the
\* invariant.
LEMMA NextInv == Inv /\ [Next]_vars => Inv'
<1> SUFFICES ASSUME Inv, [Next]_vars PROVE Inv'
  OBVIOUS
<1>1. CASE UNCHANGED vars
  <2>1. UNCHANGED <<setup, world, started, rows, next_score, request, answers>>
    BY <1>1 DEF vars
  <2>2. /\ now' = now /\ revision' = revision /\ restrictions' = restrictions
    BY <2>1 DEF world
  <2>3. /\ now \in Nat /\ revision \in Nat
        /\ restrictions \subseteq [starts_at : Nat, ends_at : Nat, imposed_until : Nat,
                                   revoked : BOOLEAN]
        /\ \A s \in restrictions : s.imposed_until <= s.ends_at
        /\ \A q \in Requests : request[q].pc \in Validated => ~InForce(request[q].at)
    BY Zenon DEF Inv, LayersAgree, TypeOK, RowsInv, TransactionsInv, Relies
  <2> QED BY <2>1, <2>2, <2>3, WorldPreserves DEF InForce
<1>2. CASE Next
  <2>1. UNCHANGED setup
    BY <1>2 DEF Next
  <2>2. ASSUME NEW q \in Requests, AcceptStep(q) PROVE Inv'
    <3>1. CASE Reject(q)
      BY <2>1, <3>1, EndPreserves DEF Reject
    <3>2. CASE ReplayReceipt(q) \/ ReplayToken(q) \/ ReplayAttempt(q)
      BY <2>1, <3>2, ReplayPreserves
    <3>3. CASE ClaimReceipt(q)
      BY <2>1, <3>3, ClaimReceiptPreserves
    <3>4. CASE ValidateAccount(q)
      BY <2>1, <3>4, ValidateAccountPreserves
    <3>5. CASE ClaimToken(q) \/ ResolveRevision(q)
      BY <2>1, <3>5, CheckPreserves
    <3>6. CASE ClaimAttempt(q)
      BY <2>1, <3>6, ClaimAttemptPreserves
    <3>7. CASE ValidateMultiplayer(q)
      BY <2>1, <3>7, ValidateMultiplayerPreserves
    <3>8. CASE \E earned \in SUBSET Achievements : InsertScore(q, earned)
      BY <2>1, <3>8, InsertScorePreserves
    <3>9. CASE UnlockAchievement(q)
      BY <2>1, <3>9, UnlockAchievementPreserves
    <3>10. CASE PublishUnlock(q)
      BY <2>1, <3>10, PublishUnlockPreserves
    <3>11. CASE BindScore(q) \/ AppendEvent(q)
      BY <2>1, <3>11, AppendPreserves
    <3>12. CASE Commit(q)
      BY <2>1, <3>12, CommitPreserves
    <3> QED BY <2>2, <3>1, <3>2, <3>3, <3>4, <3>5, <3>6, <3>7, <3>8, <3>9, <3>10, <3>11,
               <3>12 DEF AcceptStep
  <2>3. ASSUME NEW q \in Requests, Rollback(q) PROVE Inv'
    BY <2>1, <2>3, EndPreserves DEF Rollback
  <2>4. CASE ClientStep
    BY <2>1, <2>4, StartPreserves, SubmitPreserves DEF ClientStep
  <2>5. CASE ModeratorStep
    BY <2>1, <2>5, ModeratorPreserves
  <2>6. CASE PublishRevision \/ Tick
    BY <2>1, <2>6, TimePreserves
  <2> QED BY <1>2, <2>2, <2>3, <2>4, <2>5, <2>6 DEF Next
<1> QED BY <1>1, <1>2

\* The inductive invariant holds in every reachable state.
LEMMA Invariance == Spec => []Inv
  BY InitInv, NextInv, PTL DEF Spec

\* Receipt, solo token, attempt and score of every play agree at every moment, so
\* that whichever layer of accept meets a repeated submission gives the same
\* answer and none of them ever finds half of a result.
THEOREM LayersAlwaysAgree == Spec => []LayersAgree
<1>1. Inv => LayersAgree
  BY DEF Inv
<1> QED BY <1>1, Invariance, PTL

\* A set of score rows with one id has as many elements as events were appended.
LEMMA EventsCount ==
  ASSUME Inv, NEW id \in ScoreIds
  PROVE  event[id] = Cardinality({s \in score : s.id = id})
<1>1. event[id] = IF \E s \in score : s.id = id THEN 1 ELSE 0
  BY DEF Inv, RowsInv
<1>2. CASE \E s \in score : s.id = id
  <2>1. PICK s \in score : s.id = id
    BY <1>2
  <2>2. {x \in score : x.id = id} = {s}
    BY <2>1 DEF Inv, RowsInv
  <2> QED BY <1>1, <1>2, <2>2, FS_Singleton, Zenon
<1>3. CASE ~ \E s \in score : s.id = id
  <2>1. {x \in score : x.id = id} = {}
    BY <1>3
  <2> QED BY <1>1, <1>3, <2>1, FS_EmptySet
<1> QED BY <1>2, <1>3

\* However often a play is submitted, with whatever body, whatever expires, is
\* rolled back or gets lost in between: one score and one event per play, one
\* answer to all its requests, one score per multiplayer attempt, one unlock per
\* achievement.
THEOREM GrantsOnce == Spec => []GrantedOnce
<1>1. Inv => GrantedOnce
  <2> SUFFICES ASSUME Inv PROVE GrantedOnce
    OBVIOUS
  <2>1. AcceptedOncePerScore
    BY EventsCount DEF AcceptedOncePerScore
  <2>2. SameAnswer
    <3> SUFFICES ASSUME NEW x \in answers, NEW y \in answers, x[1] = y[1] PROVE x = y
      BY DEF SameAnswer
    <3>1. PICK s \in score : x = <<s.play, s.id>>
      BY DEF Inv, RowsInv
    <3>2. PICK t \in score : y = <<t.play, t.id>>
      BY DEF Inv, RowsInv
    <3>3. s = t
      BY <3>1, <3>2 DEF Inv, OneScorePerPlay
    <3> QED BY <3>1, <3>2, <3>3
  <2>3. OpportunityUsedOnce
    <3> SUFFICES ASSUME NEW m \in Opportunities
                 PROVE  {s.id : s \in {t \in score : m \in t.context}} =
                          IF opportunity[m] = 0 THEN {} ELSE {opportunity[m]}
      BY DEF OpportunityUsedOnce
    <3>1. \A s \in score : m \in s.context => opportunity[m] = s.id /\ s.id # 0
      <4>1. \A s \in score : s.id \in ScoreIds
        BY DEF Inv, LayersAgree, TypeOK
      <4>2. 0 \notin ScoreIds
        BY ScoreAcceptanceAssumption DEF ScoreIds, Inv
      <4> QED BY <4>1, <4>2 DEF Inv, RowsInv
    <3>2. opportunity[m] # 0 => \E s \in score : s.id = opportunity[m] /\ m \in s.context
      BY DEF Inv, RowsInv
    <3> QED BY <3>1, <3>2
  <2> QED BY <2>1, <2>2, <2>3 DEF Inv, GrantedOnce
<1> QED BY <1>1, Invariance, PTL

\* No score is committed for a play received within the term of a restriction in
\* force: the account lock of accept and of impose_sanction orders the two.
THEOREM RestrictionsHold == Spec => NoScoreUnderRestriction
<1>1. Inv /\ [Next]_vars =>
        [\A s \in score' \ score : ~ \E r \in restrictions :
           ~r.revoked /\ r.starts_at <= s.at /\ s.at < r.imposed_until]_vars
  <2> SUFFICES ASSUME Inv, Next, NEW s \in score' \ score
               PROVE  ~InForce(s.at)
    BY DEF InForce
  <2>1. PICK q \in Requests : Commit(q)
    BY Zenon DEF Next, ClientStep, AcceptStep, ModeratorStep, IssueSoloToken, StartStable, Submit,
       Reject, Rollback, ClaimReceipt, ReplayReceipt, ValidateAccount, ClaimToken, ReplayToken,
       ResolveRevision, ClaimAttempt, ReplayAttempt, ValidateMultiplayer, InsertScore,
       UnlockAchievement, PublishUnlock, BindScore, AppendEvent, CompleteWithPrior,
       ImposeRestriction, ExtendRestriction, RevokeRestriction, PublishRevision, Tick, rows
  <2>2. s.at = request[q].at
    <3>1. score' = score \cup {[id |-> request[q].score, play |-> request[q].play,
                                at |-> request[q].at, context |-> request[q].context]}
      BY <2>1, Zenon DEF Commit
    <3>2. s = [id |-> request[q].score, play |-> request[q].play,
               at |-> request[q].at, context |-> request[q].context]
      BY <3>1, Zenon
    <3> QED BY <3>2
  <2> QED BY <2>1, <2>2, Committing
<1> QED BY <1>1, Invariance, PTL DEF Spec, NoScoreUnderRestriction

-----------------------------------------------------------------------------
(* Circular waiting *)

\* The steps at which a transaction can wait.
Waiting == {"claim", "token", "attempt", "multiplayer", "award", "publish", "append"}

\* For whom a transaction waits depends on its step alone: the holders of what
\* that step locks.
LEMMA WhoHolds ==
  ASSUME NEW q \in Requests, NEW h \in WaitsFor(q)
  PROVE  /\ h \in Requests /\ h # q
         /\ request[q].pc \in Waiting
         /\ request[q].pc = "claim" => request[h].pc \in Claimed
         /\ request[q].pc = "token" => request[h].pc \in Attempting \cup {"resolve", "attempt"}
         /\ request[q].pc = "attempt" => request[h].pc \in Attempting
         /\ request[q].pc = "multiplayer" => request[h].pc \in Bound
         /\ request[q].pc = "award" => request[h].unlocked # {}
         /\ request[q].pc = "publish" => request[h].lane
         /\ request[q].pc = "append" => request[h].pc = "commit"
<1> DEFINE r == request[q]
           holders == CASE r.pc = "claim"       -> ReceiptHolders(r.play)
                        [] r.pc = "token"       -> TokenHolders(r.play)
                        [] r.pc = "attempt"     -> AttemptHolders(r.play)
                        [] r.pc = "multiplayer" -> UNION {OpportunityHolders(m) : m \in r.context}
                        [] r.pc = "award"       -> IF r.earned = {} THEN {}
                                                   ELSE UnlockHolders(Smallest(r.earned))
                        [] r.pc = "publish"     -> AccountLaneHolders
                        [] r.pc = "append"      -> ScoreLaneHolders
                        [] OTHER                -> {}
<1>1. WaitsFor(q) = holders \cap Others(q)
  BY Zenon DEF WaitsFor
<1>2. h \in holders /\ h \in Requests /\ h # q
  BY <1>1, Zenon DEF Others
<1>3. r.pc \in Waiting
  <2> SUFFICES ASSUME r.pc \notin Waiting PROVE FALSE
    OBVIOUS
  <2>1. /\ r.pc # "claim" /\ r.pc # "token" /\ r.pc # "attempt" /\ r.pc # "multiplayer"
        /\ r.pc # "award" /\ r.pc # "publish" /\ r.pc # "append"
    BY Zenon DEF Waiting
  <2> HIDE DEF r
  <2>2. holders = {}
    BY <2>1
  <2> QED BY <1>2, <2>2
<1>4. CASE r.pc = "claim"
  BY <1>2, <1>3, <1>4 DEF ReceiptHolders
<1>5. CASE r.pc = "token"
  BY <1>2, <1>3, <1>5 DEF TokenHolders
<1>6. CASE r.pc = "attempt"
  BY <1>2, <1>3, <1>6 DEF AttemptHolders
<1>7. CASE r.pc = "multiplayer"
  BY <1>2, <1>3, <1>7 DEF OpportunityHolders
<1>8. CASE r.pc = "award"
  BY <1>2, <1>3, <1>8 DEF UnlockHolders
<1>9. CASE r.pc = "publish"
  BY <1>2, <1>3, <1>9 DEF AccountLaneHolders
<1>10. CASE r.pc = "append"
  BY <1>2, <1>3, <1>10 DEF ScoreLaneHolders
<1> QED BY <1>2, <1>3, <1>4, <1>5, <1>6, <1>7, <1>8, <1>9, <1>10 DEF Waiting

\* Circular waiting needs a transaction that waits for an unlock and one that
\* waits for the lane of the account. Of the transactions in a circle none
\* commits, so none waits to append. One that waits for the lane waits for the
\* only holder of it, who waits for an unlock; one that waits for an unlock waits
\* for one that waits for the lane, since whoever goes on awarding holds the lane
\* alone. Without these two nobody in the circle holds a multiplayer attempt, so
\* none waits for one, and in the same way down to the receipt.
THEOREM CircularWaits == Spec => []CircularWaitOnlyInAwards
<1>1. ASSUME Inv, NEW S \in SUBSET Requests, Deadlocked(S)
      PROVE  \E q, r \in S : request[q].pc = "award" /\ request[r].pc = "publish"
  <2>1. S # {} /\ \A q \in S : \E h \in S : h \in WaitsFor(q)
    BY <1>1 DEF Deadlocked
  <2>2. \A q \in S : request[q].pc \in Waiting
    BY <2>1, WhoHolds
  <2>3. \A q \in S : request[q].pc # "append"
    BY <2>1, <2>2, WhoHolds DEF Waiting
  <2>4. \A q \in S : Shape(request[q], next_score)
    BY OpenTransaction, <1>1
  <2>5. \A q, r \in S : q # r => ~(request[q].lane /\ request[r].lane)
    BY <1>1 DEF Inv, TransactionsInv, Apart
  <2>6. ASSUME NEW q \in S, request[q].pc = "publish"
        PROVE  \E r \in S : request[r].pc = "award"
    <3>1. PICK h \in S : h \in WaitsFor(q)
      BY <2>1
    <3>2. request[h].lane
      BY <2>6, <3>1, WhoHolds
    <3>3. request[h].pc \in Drawn
      BY <2>4, <3>2 DEF Shape
    <3>4. request[h].pc \in {"award", "publish"}
      BY <2>2, <2>3, <3>3 DEF Drawn, Waiting
    <3>5. request[h].pc # "publish"
      <4>1. PICK g \in S : g \in WaitsFor(h)
        BY <2>1
      <4> QED BY <2>5, <3>2, <4>1, WhoHolds
    <3> QED BY <3>4, <3>5
  <2>7. ASSUME NEW q \in S, request[q].pc = "award"
        PROVE  \E r \in S : request[r].pc = "publish"
    <3> SUFFICES ASSUME \A r \in S : request[r].pc # "publish" PROVE FALSE
      OBVIOUS
    <3>1. \A r \in S : request[r].unlocked # {} => request[r].pc = "award" /\ request[r].lane
      BY <2>2, <2>3, <2>4 DEF Shape, Drawn, Waiting
    <3>2. PICK h \in S : h \in WaitsFor(q)
      BY <2>1
    <3>3. request[h].unlocked # {}
      BY <2>7, <3>2, WhoHolds
    <3>4. PICK g \in S : g \in WaitsFor(h)
      BY <2>1
    <3>5. request[g].unlocked # {} /\ g # h
      BY <3>1, <3>3, <3>4, WhoHolds
    <3> QED BY <2>5, <3>1, <3>3, <3>5
  <2>8. \E q \in S : request[q].pc \in {"award", "publish"}
    <3> SUFFICES ASSUME \A q \in S : request[q].pc \notin {"award", "publish"} PROVE FALSE
      OBVIOUS
    <3>1. \A q \in S : request[q].pc \in {"claim", "token", "attempt", "multiplayer"}
      BY <2>2, <2>3 DEF Waiting
    <3>2. \A q \in S : request[q].pc # "multiplayer"
      BY <2>1, <3>1, WhoHolds DEF Bound
    <3>3. \A q \in S : request[q].pc # "attempt"
      BY <2>1, <3>1, <3>2, WhoHolds DEF Bound, Attempting
    <3>4. \A q \in S : request[q].pc # "token"
      BY <2>1, <3>1, <3>2, <3>3, WhoHolds DEF Bound, Attempting
    <3>5. \A q \in S : request[q].pc = "claim"
      BY <3>1, <3>2, <3>3, <3>4
    <3> QED BY <2>1, <3>5, WhoHolds DEF Claimed
  <2> QED BY <2>6, <2>7, <2>8
<1>2. Inv => CircularWaitOnlyInAwards
  BY <1>1 DEF CircularWaitOnlyInAwards
<1> QED BY <1>2, Invariance, PTL
=============================================================================
