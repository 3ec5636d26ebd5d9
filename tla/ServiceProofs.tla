---------------------------- MODULE ServiceProofs ----------------------------
(***************************************************************************)
(* Proofs about identity and its neighbours, for every number of requests: *)
(* the client sessions of an account (ClientSessions), whose logins are    *)
(* protected by an advisory lock and a row lock that polls do not take;    *)
(* the refresh-token family of a session (OAuthTokens, as O); and the      *)
(* single flight of the query cache (QueryCache, as Q).                    *)
(***************************************************************************)
EXTENDS ClientSessions, Sequences, FiniteSetTheorems, TLAPS

\* What the cache may hold.
Proof == [s : Sessions \cup {None}, pw : Passwords, snap : Credential \cup {None}]

\* The constants: times in whole units, a lifetime, a first auth_version; None
\* is no session, no handler, no cached proof.
SessionAssumption ==
    /\ StaleGrace \in Nat /\ TouchInterval \in Nat /\ IntervalAssumption /\ LifetimeAssumption
    /\ MaxVersion \in Nat \ {0} /\ Algorithms \subseteq {"bcrypt_md5", "argon2id_old", "argon2id"}
    /\ None \notin Sessions /\ None \notin Procs /\ None \notin Proof /\ IsFiniteSet(Sessions)

-----------------------------------------------------------------------------
(* The invariant.                                                          *)

Fields == {"pc", "pw", "snap", "at", "s"}
HoldingPcs == {"login_find", "login_write"}

\* The states a request may be in, whatever the others do.
Shape(r) ==
    /\ DOMAIN r = Fields
    /\ r.pw \in Passwords /\ r.at \in 0..MaxTime
    /\ r.s \in Sessions \cup {None} /\ r.snap \in Credential \cup {None}
    /\ r.pc \in {"login_verify", "login_lock", "login_find"} => r.s = None
    /\ r.pc \in {"login_verify", "login_lock"} \cup HoldingPcs => r.snap \in Credential
    /\ r.pc \in {"touch_write", "close_lock", "revoke_lock"} => r.s \in Sessions
    /\ r.pc \in {"verify_current", "verify_store", "principal"} => r.pw = "right"

\* What a request relies on: a login that holds the account's lock on the
\* version it verified and on the open session it found, which is silent or
\* expired and stays so under its row lock; a poll on an inserted session.
Relies(p, r) ==
    /\ r.pc \in HoldingPcs <=> advisory = p
    /\ r.pc \in HoldingPcs => r.snap.version = cred.version
    /\ r.pc = "login_write" => \A s \in Sessions : sess[s].st = "open" => s = r.s
    /\ r.pc = "login_write" /\ r.s # None =>
         rowLock = p /\ sess[r.s].st = "open" /\ Replaceable(r.s, r.at)
    /\ r.pc = "touch_write" => sess[r.s].st # "none"

\* The rows: one open session, events that report every change once, and no
\* answered poll that is TouchInterval or more ahead of the stored activity.
RowsInv ==
    /\ now \in 0..MaxTime /\ cred \in Credential /\ sess \in [Sessions -> SessionRow]
    /\ opened \in [Sessions -> Nat] /\ closed \in [Sessions -> Nat] /\ polled \in [Sessions -> Nat]
    /\ \A s, t \in Sessions : sess[s].st = "open" /\ sess[t].st = "open" => s = t
    /\ EventsMatchRows /\ DeviceUsesCountLogins
    /\ \A s \in Sessions : sess[s].st = "none" => sess[s].activity = 0 /\ polled[s] = 0
    /\ \A s \in Sessions : sess[s].st = "open" => polled[s] < sess[s].activity + TouchInterval

CacheInv == cache = None \/ (cache \in Proof /\ cache.pw = "right")

LocksInv == advisory \in Procs \cup {None} /\ rowLock \in Procs \cup {None}

SessionInv ==
    /\ RowsInv /\ CacheInv /\ LocksInv
    /\ DOMAIN req = Procs /\ \A p \in Procs : Shape(req[p]) /\ Relies(p, req[p])

-----------------------------------------------------------------------------
(* Steps of one request.                                                   *)

\* p goes on as r, and the others stay.
Moves(p, r) ==
    DOMAIN req' = Procs /\ req'[p] = r /\ \A q \in Procs \ {p} : req'[q] = req[q]

\* A step sets the request that takes it and no other.
LEMMA MovesTo ==
    ASSUME NEW p \in Procs, NEW r, DOMAIN req = Procs, To(p, r)
    PROVE  Moves(p, r)
BY DEF To, Moves

\* A request that has answered.
LEMMA DoneShape ==
    ASSUME NEW c, MaxTime \in Nat,
           c \in {"ok", "refused", "touched", "granted", "aborted"}
    PROVE  /\ Shape(Done(c)) /\ Done(c).pc = c
           /\ c \notin HoldingPcs /\ c # "login_write" /\ c # "touch_write"
<1>1. PICK r : r = Done(c)
  OBVIOUS
<1>2. /\ DOMAIN r = Fields /\ r.pc = c /\ r.pw = "wrong" /\ r.snap = None /\ r.at = 0 /\ r.s = None
  BY <1>1 DEF Done, Idle, Fields
<1>3. Shape(r)
  BY <1>2 DEF Shape, Passwords, HoldingPcs
<1> QED
  BY <1>1, <1>2, <1>3 DEF HoldingPcs

\* What is left to show of the other requests.
LEMMA OthersRely ==
    ASSUME NEW q \in Procs, NEW r, Shape(r), Relies(q, r),
           advisory' = q <=> advisory = q, rowLock = q => rowLock' = q,
           advisory = q => /\ cred'.version = cred.version
                           /\ \A s \in Sessions : sess'[s].st = "open" => sess[s].st = "open",
           \A s \in Sessions : sess[s].st # "none" => sess'[s].st # "none",
           rowLock = q /\ advisory = q => sess'[r.s] = sess[r.s]
    PROVE  Relies(q, r)'
<1>1. r.pc = "login_write" => r.pc \in HoldingPcs
  BY DEF HoldingPcs
<1>2. r.pc = "login_write" /\ r.s # None => sess'[r.s] = sess[r.s]
  BY <1>1, Zenon DEF Relies
<1>3. r.pc = "login_write" /\ r.s # None => Replaceable(r.s, r.at)'
  BY <1>2, Zenon DEF Relies, Replaceable, Stale
<1>4. r.pc = "touch_write" => r.s \in Sessions
  BY DEF Shape
<1> QED
  BY <1>1, <1>2, <1>3, <1>4, Zenon DEF Relies

\* A step of p leaves what q relies on.
Undisturbed(q) ==
    /\ advisory' = q <=> advisory = q
    /\ rowLock = q => rowLock' = q
    /\ advisory = q => /\ cred'.version = cred.version
                       /\ \A s \in Sessions : sess'[s].st = "open" => sess[s].st = "open"
    /\ \A s \in Sessions : sess[s].st # "none" => sess'[s].st # "none"
    /\ rowLock = q /\ advisory = q => sess' = sess

\* The invariant after a step of p, part by part.
LEMMA StepKeeps ==
    ASSUME NEW p \in Procs, NEW r, SessionInv, Moves(p, r), Shape(r), Relies(p, r)',
           RowsInv', CacheInv', LocksInv', \A q \in Procs \ {p} : Undisturbed(q)
    PROVE  SessionInv'
<1>1. ASSUME NEW q \in Procs PROVE (Shape(req[q]) /\ Relies(q, req[q]))'
  <2>1. PICK x : x = req'[q]
    OBVIOUS
  <2>2. Shape(x) /\ Relies(q, x)'
    <3>1. CASE q = p
      <4>1. x = r
        BY <3>1, <2>1, Zenon DEF Moves
      <4> QED
        BY <3>1, <4>1, Zenon
    <3>2. CASE q # p
      <4>1. x = req[q]
        BY <3>2, <2>1, Zenon DEF Moves
      <4>2. Shape(x) /\ Relies(q, x) /\ Undisturbed(q)
        BY <3>2, <4>1, Zenon DEF SessionInv
      <4> QED
        BY <4>2, OthersRely, Zenon DEF Undisturbed
    <3> QED
      BY <3>1, <3>2, Zenon
  <2> QED
    BY <2>1, <2>2, Zenon DEF Shape, Relies, Replaceable, Stale
<1> QED
  BY <1>1, Zenon DEF SessionInv, Moves

\* The rows that a step does not write.
LEMMA RowsSame ==
    ASSUME RowsInv, UNCHANGED <<now, cred, sess, uses, opened, closed, polled>>
    PROVE  RowsInv'
<1>1. /\ now' = now /\ cred' = cred /\ sess' = sess /\ uses' = uses
      /\ opened' = opened /\ closed' = closed /\ polled' = polled
  OBVIOUS
<1> QED
  BY <1>1, Zenon DEF RowsInv, EventsMatchRows, DeviceUsesCountLogins

\* A request that does not hold the account's lock, before or after its step.
LEMMA OutsideRelies ==
    ASSUME NEW p \in Procs, NEW r, r.pc \notin HoldingPcs, advisory # p,
           r.pc = "touch_write" => sess[r.s].st # "none"
    PROVE  Relies(p, r)
<1>1. r.pc # "login_write"
  BY DEF HoldingPcs
<1> QED
  BY <1>1, Zenon DEF Relies

\* A step that writes no row and takes no lock.
LEMMA QuietKeeps ==
    ASSUME NEW p \in Procs, NEW r, SessionInv, Moves(p, r), Shape(r), CacheInv',
           UNCHANGED <<now, Rows, Locks, polled>>,
           req[p].pc \notin HoldingPcs, r.pc \notin HoldingPcs,
           r.pc = "touch_write" => sess[r.s].st # "none"
    PROVE  SessionInv'
<1>1. /\ now' = now /\ cred' = cred /\ sess' = sess /\ uses' = uses /\ opened' = opened
      /\ closed' = closed /\ polled' = polled /\ advisory' = advisory /\ rowLock' = rowLock
  BY DEF Rows, Locks
<1>2. advisory # p
  BY Zenon DEF SessionInv, Relies
<1>3. Relies(p, r)
  BY <1>2, OutsideRelies, Zenon
<1>4. Relies(p, r)'
  BY <1>1, <1>3, Zenon DEF Relies, Replaceable, Stale
<1>5. RowsInv'
  BY <1>1, RowsSame, Zenon DEF SessionInv
<1>6. LocksInv'
  BY <1>1, Zenon DEF SessionInv, LocksInv
<1>7. \A q \in Procs \ {p} : Undisturbed(q)
  BY <1>1, Zenon DEF Undisturbed
<1> QED
  BY <1>4, <1>5, <1>6, <1>7, StepKeeps, Zenon

\* The locks after the end of p's transaction.
LEMMA Released ==
    ASSUME NEW p \in Procs, None \notin Procs, LocksInv, Release(p)
    PROVE  /\ LocksInv' /\ advisory' # p
           /\ \A q \in Procs \ {p} : (advisory' = q <=> advisory = q) /\ (rowLock = q => rowLock' = q)
<1>1. advisory' = (IF advisory = p THEN None ELSE advisory) /\ rowLock' = (IF rowLock = p THEN None ELSE rowLock)
  BY DEF Release
<1> QED
  BY <1>1 DEF LocksInv

\* A transaction that ends without a write: refused, or rolled back.
LEMMA ReleaseKeeps ==
    ASSUME NEW p \in Procs, NEW r, SessionInv, None \notin Procs, Release(p), Moves(p, r), Shape(r),
           r.pc \notin HoldingPcs, r.pc # "touch_write", UNCHANGED <<now, Rows, cache, polled>>
    PROVE  SessionInv'
<1>1. /\ now' = now /\ cred' = cred /\ sess' = sess /\ uses' = uses /\ opened' = opened
      /\ closed' = closed /\ polled' = polled /\ cache' = cache
  BY DEF Rows
<1>2. /\ LocksInv' /\ advisory' # p
      /\ \A q \in Procs \ {p} : (advisory' = q <=> advisory = q) /\ (rowLock = q => rowLock' = q)
  BY Released, Zenon DEF SessionInv
<1>3. r.pc # "login_write"
  BY DEF HoldingPcs
<1>4. Relies(p, r)'
  BY <1>2, <1>3, Zenon DEF Relies
<1>5. RowsInv' /\ CacheInv'
  BY <1>1, RowsSame, Zenon DEF SessionInv, CacheInv
<1>6. \A q \in Procs \ {p} : Undisturbed(q)
  BY <1>1, <1>2, Zenon DEF Undisturbed
<1> QED
  BY <1>2, <1>4, <1>5, <1>6, StepKeeps, Zenon

-----------------------------------------------------------------------------
(* The steps that only read.                                               *)

\* A request that starts anew holds no lock.
LEMMA FreshHoldsNot ==
    ASSUME NEW p \in Procs, Fresh(p)
    PROVE  req[p].pc \notin HoldingPcs
BY DEF Fresh, HoldingPcs

\* A step that only answers.
LEMMA AnswerKeeps ==
    ASSUME NEW p \in Procs, NEW c \in {"ok", "refused", "touched", "granted", "aborted"},
           SessionInv, MaxTime \in Nat, To(p, Done(c)), req[p].pc \notin HoldingPcs,
           UNCHANGED <<now, Rows, cache, Locks, polled>>
    PROVE  SessionInv'
<1>1. PICK r : r = Done(c)
  OBVIOUS
<1>2. Shape(r) /\ r.pc = c /\ r.pc \notin HoldingPcs /\ r.pc # "touch_write"
  BY <1>1, DoneShape, Zenon
<1>3. Moves(p, r)
  BY <1>1, MovesTo, Zenon DEF SessionInv
<1>4. CacheInv'
  BY Zenon DEF SessionInv, CacheInv
<1>5. UNCHANGED <<now, Rows, Locks, polled>>
  OBVIOUS
<1> QED
  BY <1>2, <1>3, <1>4, <1>5, QuietKeeps, Zenon

\* A step that goes on with the request r.
LEMMA GoOnKeeps ==
    ASSUME NEW p \in Procs, NEW r, SessionInv, To(p, r), Shape(r), req[p].pc \notin HoldingPcs,
           r.pc \notin HoldingPcs, r.pc = "touch_write" => sess[r.s].st # "none",
           UNCHANGED <<now, Rows, cache, Locks, polled>>
    PROVE  SessionInv'
<1>1. Moves(p, r)
  BY MovesTo, Zenon DEF SessionInv
<1>2. CacheInv'
  BY Zenon DEF SessionInv, CacheInv
<1>3. UNCHANGED <<now, Rows, Locks, polled>>
  OBVIOUS
<1> QED
  BY <1>1, <1>2, <1>3, QuietKeeps, Zenon

\* A password login, and a password grant, read the credential.
LEMMA CredentialReadKeeps ==
    ASSUME NEW p \in Procs, NEW pw \in Passwords, SessionInv, MaxTime \in Nat,
           LoginRead(p, pw) \/ GrantRead(p, pw)
    PROVE  SessionInv'
<1>1. PICK c \in {"login_verify", "grant_verify"} :
        To(p, [Idle EXCEPT !.pc = c, !.pw = pw, !.snap = cred])
  BY DEF LoginRead, GrantRead
<1>2. Fresh(p) /\ UNCHANGED <<now, Rows, cache, Locks, polled>>
  BY DEF LoginRead, GrantRead
<1>3. PICK r : r = [Idle EXCEPT !.pc = c, !.pw = pw, !.snap = cred]
  OBVIOUS
<1>4. DOMAIN r = Fields /\ r.pc = c /\ r.pw = pw /\ r.snap = cred /\ r.at = 0 /\ r.s = None
  BY <1>3 DEF Idle, Fields
<1>5. cred \in Credential
  BY Zenon DEF SessionInv, RowsInv
<1>6. Shape(r) /\ r.pc \notin HoldingPcs /\ r.pc # "touch_write"
  BY <1>4, <1>5 DEF Shape, HoldingPcs
<1>7. To(p, r) /\ req[p].pc \notin HoldingPcs
  BY <1>1, <1>2, <1>3, FreshHoldsNot, Zenon
<1> QED
  BY <1>2, <1>6, <1>7, GoOnKeeps, Zenon

\* The login's password is verified outside any transaction.
LEMMA LoginVerifyKeeps ==
    ASSUME NEW p \in Procs, SessionInv, MaxTime \in Nat, LoginVerify(p)
    PROVE  SessionInv'
<1>1. PICK x : x = req[p]
  OBVIOUS
<1>2. x.pc = "login_verify" /\ Shape(x) /\ req[p].pc \notin HoldingPcs
  <2>1. x.pc = "login_verify"
    BY <1>1 DEF LoginVerify
  <2> QED
    BY <1>1, <2>1 DEF SessionInv, HoldingPcs
<1>3. UNCHANGED <<now, Rows, cache, Locks, polled>>
  BY DEF LoginVerify
<1>4. CASE x.pw = "right"
  <2>1. PICK r : r = [x EXCEPT !.pc = "login_lock", !.at = now]
    OBVIOUS
  <2>2. DOMAIN r = Fields /\ r.pc = "login_lock" /\ r.pw = x.pw /\ r.snap = x.snap /\ r.at = now /\ r.s = x.s
    BY <1>2, <2>1 DEF Shape, Fields
  <2>3. now \in 0..MaxTime
    BY Zenon DEF SessionInv, RowsInv
  <2>4. Shape(r) /\ r.pc \notin HoldingPcs /\ r.pc # "touch_write"
    BY <1>2, <2>2, <2>3 DEF Shape, HoldingPcs
  <2>5. To(p, r)
    BY <1>1, <1>4, <2>1 DEF LoginVerify
  <2> QED
    BY <1>2, <1>3, <2>4, <2>5, GoOnKeeps, Zenon
<1>5. CASE x.pw # "right"
  <2>1. To(p, Done("refused"))
    BY <1>1, <1>5 DEF LoginVerify
  <2> QED
    BY <1>2, <1>3, <2>1, AnswerKeeps, Zenon
<1> QED
  BY <1>4, <1>5, Zenon

\* The grant's password is verified.
LEMMA GrantVerifyKeeps ==
    ASSUME NEW p \in Procs, SessionInv, MaxTime \in Nat, GrantVerify(p)
    PROVE  SessionInv'
<1>1. PICK x : x = req[p]
  OBVIOUS
<1>2. x.pc = "grant_verify" /\ Shape(x) /\ req[p].pc \notin HoldingPcs
  <2>1. x.pc = "grant_verify"
    BY <1>1 DEF GrantVerify
  <2> QED
    BY <1>1, <2>1 DEF SessionInv, HoldingPcs
<1>3. UNCHANGED <<now, Rows, cache, Locks, polled>>
  BY DEF GrantVerify
<1>4. CASE x.pw = "right"
  <2>1. PICK r : r = [x EXCEPT !.pc = "grant_write"]
    BY Zenon
  <2>2. DOMAIN r = Fields /\ r.pc = "grant_write" /\ r.pw = x.pw /\ r.snap = x.snap /\ r.at = x.at /\ r.s = x.s
    BY <1>2, <2>1 DEF Shape, Fields
  <2>3. Shape(r) /\ r.pc \notin HoldingPcs /\ r.pc # "touch_write"
    BY <1>2, <2>2 DEF Shape, HoldingPcs
  <2>4. To(p, r)
    BY <1>1, <1>4, <2>1 DEF GrantVerify
  <2> QED
    BY <1>2, <1>3, <2>3, <2>4, GoOnKeeps, Zenon
<1>5. CASE x.pw # "right"
  <2>1. To(p, Done("refused"))
    BY <1>1, <1>5 DEF GrantVerify
  <2> QED
    BY <1>2, <1>3, <2>1, AnswerKeeps, Zenon
<1> QED
  BY <1>4, <1>5, Zenon

\* A logout and a revocation read the session they end.
LEMMA EndReadKeeps ==
    ASSUME NEW p \in Procs, NEW s \in Sessions, SessionInv, MaxTime \in Nat,
           CloseRead(p, s) \/ RevokeRead(p, s)
    PROVE  SessionInv'
<1>1. /\ Fresh(p) /\ UNCHANGED <<now, Rows, cache, Locks, polled>>
      /\ \/ To(p, Done("refused"))
         \/ \E c \in {"close_lock", "revoke_lock"} : To(p, [Idle EXCEPT !.pc = c, !.s = s])
  BY DEF CloseRead, RevokeRead
<1>2. req[p].pc \notin HoldingPcs
  BY <1>1, FreshHoldsNot, Zenon
<1>3. CASE To(p, Done("refused"))
  BY <1>1, <1>2, <1>3, AnswerKeeps, Zenon
<1>4. ASSUME NEW c \in {"close_lock", "revoke_lock"}, To(p, [Idle EXCEPT !.pc = c, !.s = s])
      PROVE  SessionInv'
  <2>1. PICK r : r = [Idle EXCEPT !.pc = c, !.s = s]
    OBVIOUS
  <2>2. DOMAIN r = Fields /\ r.pc = c /\ r.pw = "wrong" /\ r.snap = None /\ r.at = 0 /\ r.s = s
    BY <2>1 DEF Idle, Fields
  <2>3. Shape(r) /\ r.pc \notin HoldingPcs /\ r.pc # "touch_write"
    BY <2>2 DEF Shape, HoldingPcs, Passwords
  <2>4. To(p, r)
    BY <1>4, <2>1, Zenon
  <2> QED
    BY <1>1, <1>2, <2>3, <2>4, GoOnKeeps, Zenon
<1> QED
  BY <1>1, <1>3, <1>4, Zenon

\* A web request reads the credential and its session.
LEMMA VerifyReadKeeps ==
    ASSUME NEW p \in Procs, NEW pw \in Passwords, SessionInv, MaxTime \in Nat, VerifyRead(p, pw)
    PROVE  SessionInv'
<1>1. /\ Fresh(p) /\ UNCHANGED <<now, Rows, cache, Locks, polled>>
      /\ \/ To(p, Done("refused"))
         \/ \E s \in Sessions :
              To(p, [Idle EXCEPT !.pc = "verify_cache", !.pw = pw, !.snap = cred, !.s = s])
  BY Zenon DEF VerifyRead, OnlineCandidates, Open
<1>2. req[p].pc \notin HoldingPcs
  BY <1>1, FreshHoldsNot, Zenon
<1>3. CASE To(p, Done("refused"))
  BY <1>1, <1>2, <1>3, AnswerKeeps, Zenon
<1>4. ASSUME NEW s \in Sessions,
             To(p, [Idle EXCEPT !.pc = "verify_cache", !.pw = pw, !.snap = cred, !.s = s])
      PROVE  SessionInv'
  <2>1. PICK r : r = [Idle EXCEPT !.pc = "verify_cache", !.pw = pw, !.snap = cred, !.s = s]
    OBVIOUS
  <2>2. DOMAIN r = Fields /\ r.pc = "verify_cache" /\ r.pw = pw /\ r.snap = cred /\ r.at = 0 /\ r.s = s
    BY <2>1 DEF Idle, Fields
  <2>3. cred \in Credential
    BY Zenon DEF SessionInv, RowsInv
  <2>4. Shape(r) /\ r.pc \notin HoldingPcs /\ r.pc # "touch_write"
    BY <2>2, <2>3 DEF Shape, HoldingPcs
  <2>5. To(p, r)
    BY <1>4, <2>1, Zenon
  <2> QED
    BY <1>1, <1>2, <2>4, <2>5, GoOnKeeps, Zenon
<1> QED
  BY <1>1, <1>3, <1>4, Zenon

\* The request of an accepted password.
LEMMA PrincipalShape ==
    ASSUME MaxTime \in Nat
    PROVE  Shape(Principal("right")) /\ Principal("right").pc = "principal"
<1>1. PICK r : r = Principal("right")
  OBVIOUS
<1>2. /\ DOMAIN r = Fields /\ r.pc = "principal" /\ r.pw = "right" /\ r.snap = None
      /\ r.at = 0 /\ r.s = None
  BY <1>1 DEF Principal, Done, Idle, Fields
<1>3. Shape(r)
  BY <1>2 DEF Shape, Passwords, HoldingPcs
<1> QED
  BY <1>1, <1>2, <1>3

\* A proof the cache holds was a right password's, so a match is one too.
LEMMA MatchIsRight ==
    ASSUME NEW x, CacheInv, Shape(x), None \notin Proof, CacheMatches(x)
    PROVE  x.pw = "right"
<1>1. PICK y : y = [s |-> x.s, pw |-> x.pw, snap |-> x.snap]
  BY Zenon
<1>2. y \in Proof /\ y.pw = x.pw
  BY <1>1 DEF Shape, Proof
<1>3. cache = y
  BY <1>1 DEF CacheMatches
<1> QED
  BY <1>2, <1>3, Zenon DEF CacheInv

\* A cached proof answers, or the password is verified.
LEMMA VerifyCacheKeeps ==
    ASSUME NEW p \in Procs, SessionInv, MaxTime \in Nat, None \notin Proof, VerifyCache(p)
    PROVE  SessionInv'
<1>1. PICK x : x = req[p]
  OBVIOUS
<1>2. x.pc = "verify_cache" /\ Shape(x) /\ req[p].pc \notin HoldingPcs
  <2>1. x.pc = "verify_cache"
    BY <1>1 DEF VerifyCache
  <2> QED
    BY <1>1, <2>1 DEF SessionInv, HoldingPcs
<1>3. UNCHANGED <<now, Rows, cache, Locks, polled>>
  BY DEF VerifyCache
<1>4. CASE CacheMatches(x) /\ To(p, Principal(x.pw))
  <2>1. x.pw = "right"
    BY <1>2, <1>4, MatchIsRight, Zenon DEF SessionInv
  <2>2. PICK r : r = Principal("right")
    OBVIOUS
  <2>3. Shape(r) /\ r.pc = "principal" /\ To(p, r)
    BY <1>4, <2>1, <2>2, PrincipalShape, Zenon
  <2>4. r.pc \notin HoldingPcs /\ r.pc # "touch_write"
    BY <2>3 DEF HoldingPcs
  <2> QED
    BY <1>2, <1>3, <2>3, <2>4, GoOnKeeps, Zenon
<1>5. CASE x.pw = "right" /\ To(p, [x EXCEPT !.pc = "verify_current"])
  <2>1. PICK r : r = [x EXCEPT !.pc = "verify_current"]
    BY Zenon
  <2>2. DOMAIN r = Fields /\ r.pc = "verify_current" /\ r.pw = x.pw /\ r.snap = x.snap /\ r.at = x.at /\ r.s = x.s
    BY <1>2, <2>1 DEF Shape, Fields
  <2>3. Shape(r) /\ r.pc \notin HoldingPcs /\ r.pc # "touch_write"
    BY <1>2, <1>5, <2>2 DEF Shape, HoldingPcs
  <2>4. To(p, r)
    BY <1>5, <2>1, Zenon
  <2> QED
    BY <1>2, <1>3, <2>3, <2>4, GoOnKeeps, Zenon
<1>6. CASE To(p, Done("refused"))
  BY <1>2, <1>3, <1>6, AnswerKeeps, Zenon
<1>7. \/ CacheMatches(x) /\ To(p, Principal(x.pw))
      \/ x.pw = "right" /\ To(p, [x EXCEPT !.pc = "verify_current"])
      \/ To(p, Done("refused"))
  BY <1>1 DEF VerifyCache
<1> QED
  BY <1>4, <1>5, <1>6, <1>7, Zenon

\* The verified request reads credential and session again.
LEMMA VerifyCurrentKeeps ==
    ASSUME NEW p \in Procs, SessionInv, MaxTime \in Nat, VerifyCurrent(p)
    PROVE  SessionInv'
<1>1. PICK x : x = req[p]
  OBVIOUS
<1>2. x.pc = "verify_current" /\ Shape(x) /\ req[p].pc \notin HoldingPcs
  <2>1. x.pc = "verify_current"
    BY <1>1 DEF VerifyCurrent
  <2> QED
    BY <1>1, <2>1 DEF SessionInv, HoldingPcs
<1>3. UNCHANGED <<now, Rows, cache, Locks, polled>>
  BY DEF VerifyCurrent
<1>4. To(p, [x EXCEPT !.pc = "verify_store"]) \/ To(p, Done("refused"))
  BY <1>1 DEF VerifyCurrent
<1>5. CASE To(p, [x EXCEPT !.pc = "verify_store"])
  <2>1. PICK r : r = [x EXCEPT !.pc = "verify_store"]
    BY Zenon
  <2>2. DOMAIN r = Fields /\ r.pc = "verify_store" /\ r.pw = x.pw /\ r.snap = x.snap /\ r.at = x.at /\ r.s = x.s
    BY <1>2, <2>1 DEF Shape, Fields
  <2>3. Shape(r) /\ r.pc \notin HoldingPcs /\ r.pc # "touch_write"
    BY <1>2, <2>2 DEF Shape, HoldingPcs
  <2>4. To(p, r)
    BY <1>5, <2>1, Zenon
  <2> QED
    BY <1>2, <1>3, <2>3, <2>4, GoOnKeeps, Zenon
<1>6. CASE To(p, Done("refused"))
  BY <1>2, <1>3, <1>6, AnswerKeeps, Zenon
<1> QED
  BY <1>4, <1>5, <1>6, Zenon

\* The verified request's proof is stored, or the store fails.
LEMMA VerifyStoreKeeps ==
    ASSUME NEW p \in Procs, SessionInv, MaxTime \in Nat, VerifyStore(p)
    PROVE  SessionInv'
<1>1. PICK x : x = req[p]
  OBVIOUS
<1>2. x.pc = "verify_store" /\ Shape(x) /\ req[p].pc \notin HoldingPcs
  <2>1. x.pc = "verify_store"
    BY <1>1 DEF VerifyStore
  <2> QED
    BY <1>1, <2>1 DEF SessionInv, HoldingPcs
<1>3. UNCHANGED <<now, Rows, Locks, polled>> /\ To(p, Principal(x.pw))
  BY <1>1 DEF VerifyStore
<1>4. x.pw = "right"
  BY <1>2 DEF Shape
<1>5. CacheInv'
  <2>1. PICK y : y = [s |-> x.s, pw |-> x.pw, snap |-> x.snap]
    BY Zenon
  <2>2. y \in Proof /\ y.pw = "right"
    BY <1>2, <1>4, <2>1 DEF Shape, Proof
  <2>3. cache' = y \/ cache' = cache
    BY <1>1, <2>1 DEF VerifyStore, CacheStore
  <2> QED
    BY <2>2, <2>3, Zenon DEF SessionInv, CacheInv
<1>6. PICK r : r = Principal("right")
  OBVIOUS
<1>7. Shape(r) /\ r.pc = "principal" /\ To(p, r)
  BY <1>3, <1>4, <1>6, PrincipalShape, Zenon
<1>8. r.pc \notin HoldingPcs /\ r.pc # "touch_write"
  BY <1>7 DEF HoldingPcs
<1>9. Moves(p, r)
  BY <1>7, MovesTo, Zenon DEF SessionInv
<1> QED
  BY <1>2, <1>3, <1>5, <1>7, <1>8, <1>9, QuietKeeps, Zenon

-----------------------------------------------------------------------------
(* The steps that write rows.                                              *)

\* One session's row is written.
LEMMA SetRow ==
    ASSUME sess \in [Sessions -> SessionRow], NEW s \in Sessions, NEW row \in SessionRow,
           sess' = [sess EXCEPT ![s] = row]
    PROVE  /\ sess' \in [Sessions -> SessionRow] /\ sess'[s] = row
           /\ \A t \in Sessions \ {s} : sess'[t] = sess[t]
OBVIOUS

\* The inserted sessions stay the inserted ones.
LEMMA DeviceSame ==
    ASSUME DeviceUsesCountLogins, uses' = uses,
           \A s \in Sessions : sess'[s].st = "none" <=> sess[s].st = "none"
    PROVE  DeviceUsesCountLogins'
<1>1. {s \in Sessions : sess'[s].st # "none"} = {s \in Sessions : sess[s].st # "none"}
  BY Zenon
<1> QED
  BY <1>1, Zenon DEF DeviceUsesCountLogins

\* A poll answered from the stored activity.
LEMMA PolledRows ==
    ASSUME RowsInv, SessionAssumption, NEW s \in Sessions, sess[s].st = "open",
           now - sess[s].activity < TouchInterval, polled' = [polled EXCEPT ![s] = now],
           UNCHANGED <<now, cred, sess, uses, opened, closed>>
    PROVE  RowsInv'
<1>1. /\ now' = now /\ cred' = cred /\ sess' = sess /\ uses' = uses
      /\ opened' = opened /\ closed' = closed
  OBVIOUS
<1>2. /\ polled' \in [Sessions -> Nat] /\ polled'[s] = now
      /\ \A t \in Sessions \ {s} : polled'[t] = polled[t]
  BY DEF RowsInv, SessionAssumption, LifetimeAssumption
<1>3. sess[s].activity \in Nat /\ now \in Nat /\ TouchInterval \in Nat
  BY DEF RowsInv, SessionRow, SessionAssumption, LifetimeAssumption
<1>4. polled'[s] < sess[s].activity + TouchInterval
  BY <1>2, <1>3
<1>5. \A t \in Sessions : sess[t].st = "open" => polled'[t] < sess[t].activity + TouchInterval
  BY <1>2, <1>4 DEF RowsInv
<1>6. \A t \in Sessions : sess[t].st = "none" => sess[t].activity = 0 /\ polled'[t] = 0
  BY <1>2 DEF RowsInv
<1>7. EventsMatchRows' /\ DeviceUsesCountLogins'
  BY <1>1, Zenon DEF RowsInv, EventsMatchRows, DeviceUsesCountLogins
<1>8. \A t, u \in Sessions : sess'[t].st = "open" /\ sess'[u].st = "open" => t = u
  BY <1>1, Zenon DEF RowsInv
<1>9. now' \in 0..MaxTime /\ cred' \in Credential /\ sess' \in [Sessions -> SessionRow]
  BY <1>1, Zenon DEF RowsInv
<1>10. opened' \in [Sessions -> Nat] /\ closed' \in [Sessions -> Nat]
  BY <1>1, Zenon DEF RowsInv
<1> QED
  BY <1>1, <1>2, <1>5, <1>6, <1>7, <1>8, <1>9, <1>10, Zenon DEF RowsInv

\* A poll that writes the activity, late or early.
LEMMA TouchedRows ==
    ASSUME RowsInv, SessionAssumption, NEW s \in Sessions, NEW at \in 0..MaxTime,
           sess[s].st # "none", sess' = TouchRow(s, at),
           polled' = [polled EXCEPT ![s] = IF @ < at THEN at ELSE @],
           UNCHANGED <<now, cred, uses, opened, closed>>
    PROVE  /\ RowsInv' /\ \A t \in Sessions : sess'[t].st = sess[t].st
           /\ \A t \in Sessions : /\ sess'[t].activity >= sess[t].activity
                                  /\ sess[t].st \in {"closed", "revoked"} => sess'[t] = sess[t]
<1>1. now' = now /\ cred' = cred /\ uses' = uses /\ opened' = opened /\ closed' = closed
  OBVIOUS
<1>2. PICK x : x = sess[s]
  OBVIOUS
<1>3. x \in SessionRow /\ sess \in [Sessions -> SessionRow] /\ polled \in [Sessions -> Nat]
  BY <1>2 DEF RowsInv
<1>4. PICK row : row = IF x.st = "open" /\ x.activity < at THEN [x EXCEPT !.activity = at] ELSE x
  BY Zenon
<1>5. /\ row \in SessionRow /\ row.st = x.st
      /\ x.st = "open" => row.activity >= at
      /\ row.activity >= x.activity /\ (x.st # "open" => row = x)
  BY <1>3, <1>4, SessionAssumption DEF SessionAssumption, SessionRow, LifetimeAssumption
<1>6. sess' = [sess EXCEPT ![s] = row]
  BY <1>2, <1>3, <1>4, Zenon DEF TouchRow
<1>7. /\ sess' \in [Sessions -> SessionRow] /\ sess'[s] = row
      /\ \A t \in Sessions \ {s} : sess'[t] = sess[t]
  BY <1>3, <1>5, <1>6, SetRow, Zenon
<1>8. \A t \in Sessions : sess'[t].st = sess[t].st
  BY <1>2, <1>5, <1>7, Zenon
<1>9. /\ polled' \in [Sessions -> Nat] /\ \A t \in Sessions \ {s} : polled'[t] = polled[t]
      /\ polled'[s] = (IF polled[s] < at THEN at ELSE polled[s])
  BY <1>3 DEF SessionAssumption, LifetimeAssumption
<1>10. sess[s].st = "open" => polled'[s] < row.activity + TouchInterval
  <2>1. /\ row.activity \in Nat /\ x.activity \in Nat /\ at \in Nat /\ polled[s] \in Nat
        /\ TouchInterval \in Nat /\ 0 < TouchInterval
    BY <1>3, <1>5 DEF SessionAssumption, IntervalAssumption, LifetimeAssumption, SessionRow
  <2>2. sess[s].st = "open" => polled[s] < x.activity + TouchInterval /\ row.activity >= at
    BY <1>2, <1>5 DEF RowsInv
  <2> QED
    BY <1>5, <1>9, <2>1, <2>2
<1>11. \A t \in Sessions : sess'[t].st = "open" => polled'[t] < sess'[t].activity + TouchInterval
  BY <1>7, <1>8, <1>9, <1>10 DEF RowsInv
<1>12. \A t \in Sessions : sess'[t].st = "none" => sess'[t].activity = 0 /\ polled'[t] = 0
  BY <1>7, <1>8, <1>9 DEF RowsInv
<1>13. DeviceUsesCountLogins'
  BY <1>1, <1>8, DeviceSame, Zenon DEF RowsInv
<1>14. EventsMatchRows'
  BY <1>1, <1>8, Zenon DEF RowsInv, EventsMatchRows
<1>15. RowsInv'
  <2>1. \A t, u \in Sessions : sess'[t].st = "open" /\ sess'[u].st = "open" => t = u
    BY <1>8, Zenon DEF RowsInv
  <2>2. now' \in 0..MaxTime /\ cred' \in Credential
    BY <1>1, Zenon DEF RowsInv
  <2>3. opened' \in [Sessions -> Nat] /\ closed' \in [Sessions -> Nat]
    BY <1>1, Zenon DEF RowsInv
  <2>4. sess' \in [Sessions -> SessionRow] /\ polled' \in [Sessions -> Nat]
    BY <1>7, <1>9, Zenon
  <2> QED
    BY <1>11, <1>12, <1>13, <1>14, <2>1, <2>2, <2>3, <2>4, Zenon DEF RowsInv
<1>16. \A t \in Sessions : sess'[t].activity >= sess[t].activity
  <2>1. \A t \in Sessions : sess[t].activity \in Nat
    BY <1>3 DEF SessionRow, SessionAssumption, LifetimeAssumption
  <2> QED
    BY <1>2, <1>5, <1>7, <2>1
<1>17. \A t \in Sessions : sess[t].st \in {"closed", "revoked"} => sess'[t] = sess[t]
  BY <1>2, <1>5, <1>7
<1> QED
  BY <1>8, <1>15, <1>16, <1>17, Zenon

\* The open session is closed, or revoked, and one event says so.
LEMMA EndedRows ==
    ASSUME RowsInv, NEW s \in Sessions, NEW st \in {"closed", "revoked"}, StillOpen(s),
           sess' = CloseRow(sess, s, st), AppendClosed(s), cred' \in Credential,
           UNCHANGED <<now, uses, opened, polled>>
    PROVE  /\ RowsInv' /\ \A t \in Sessions : sess[t].st # "none" => sess'[t].st # "none"
           /\ \A t \in Sessions : /\ sess'[t].activity = sess[t].activity
                                  /\ sess[t].st \in {"closed", "revoked"} => sess'[t] = sess[t]
<1>1. now' = now /\ uses' = uses /\ opened' = opened /\ polled' = polled
  OBVIOUS
<1>2. PICK x : x = sess[s]
  OBVIOUS
<1>3. x \in SessionRow /\ sess \in [Sessions -> SessionRow] /\ x.st = "open"
  BY <1>2 DEF RowsInv, StillOpen
<1>4. PICK row : row = [x EXCEPT !.st = st]
  BY Zenon
<1>5. row \in SessionRow /\ row.st = st /\ row.activity = x.activity
  BY <1>3, <1>4 DEF SessionRow
<1>6. sess' = [sess EXCEPT ![s] = row]
  BY <1>2, <1>3, <1>4 DEF CloseRow
<1>7. /\ sess' \in [Sessions -> SessionRow] /\ sess'[s] = row
      /\ \A t \in Sessions \ {s} : sess'[t] = sess[t]
  BY <1>3, <1>5, <1>6, SetRow, Zenon
<1>8. /\ closed' \in [Sessions -> Nat] /\ closed'[s] = closed[s] + 1
      /\ \A t \in Sessions \ {s} : closed'[t] = closed[t]
  BY DEF RowsInv, AppendClosed
<1>9. \A t \in Sessions : sess'[t].st = "none" <=> sess[t].st = "none"
  BY <1>2, <1>3, <1>5, <1>7
<1>10. DeviceUsesCountLogins'
  BY <1>1, <1>9, DeviceSame, Zenon DEF RowsInv
<1>11. EventsMatchRows'
  <2>1. closed[s] = 0 /\ opened[s] = 1
    BY <1>2, <1>3 DEF RowsInv, EventsMatchRows
  <2>2. SUFFICES ASSUME NEW t \in Sessions
                 PROVE  /\ opened'[t] = IF sess'[t].st = "none" THEN 0 ELSE 1
                        /\ closed'[t] = IF sess'[t].st \in {"closed", "revoked"} THEN 1 ELSE 0
    BY Zenon DEF EventsMatchRows
  <2>3. CASE t = s
    BY <1>1, <1>5, <1>7, <1>8, <2>1, <2>3
  <2>4. CASE t # s
    BY <1>1, <1>7, <1>8, <2>4 DEF RowsInv, EventsMatchRows
  <2> QED
    BY <2>3, <2>4, Zenon
<1>12. \A t \in Sessions : sess'[t].st = "open" => t # s /\ sess[t].st = "open" /\ sess'[t] = sess[t]
  BY <1>5, <1>7
<1>13. \A t \in Sessions : sess'[t].st = "none" => sess'[t].activity = 0 /\ polled'[t] = 0
  BY <1>1, <1>2, <1>5, <1>7, <1>9 DEF RowsInv
<1>14. RowsInv'
  BY <1>1, <1>7, <1>8, <1>10, <1>11, <1>12, <1>13, Zenon DEF RowsInv
<1>15. \A t \in Sessions : /\ sess'[t].activity = sess[t].activity
                           /\ sess[t].st \in {"closed", "revoked"} => sess'[t] = sess[t]
  BY <1>2, <1>3, <1>5, <1>7
<1> QED
  BY <1>9, <1>14, <1>15, Zenon

\* A login closes the session it replaces, if any, and inserts its own.
LEMMA LoggedInRows ==
    ASSUME RowsInv, SessionAssumption, NEW old \in Sessions \cup {None}, NEW new \in Sessions,
           NEW at \in 0..MaxTime, sess[new].st = "none",
           \A s \in Sessions : sess[s].st = "open" => s = old,
           old # None => sess[old].st = "open",
           sess' = CreateRow(IF old # None THEN CloseRow(sess, old, "closed") ELSE sess, new, at),
           IF old # None THEN AppendClosed(old) ELSE UNCHANGED closed,
           AppendOpened(new), CountDevice, cred' \in Credential, UNCHANGED <<now, polled>>
    PROVE  /\ RowsInv' /\ \A t \in Sessions : sess[t].st # "none" => sess'[t].st # "none"
           /\ \A t \in Sessions : /\ sess'[t].activity >= sess[t].activity
                                  /\ sess[t].st \in {"closed", "revoked"} => sess'[t] = sess[t]
           /\ \A t \in Sessions : sess[t].st = "open" /\ sess'[t].st = "closed" => t = old
<1>1. now' = now /\ polled' = polled
  OBVIOUS
<1>2. sess \in [Sessions -> SessionRow] /\ closed \in [Sessions -> Nat] /\ opened \in [Sessions -> Nat]
  BY DEF RowsInv
<1>3. old # None => old \in Sessions /\ old # new
  BY <1>2
<1>4. PICK row : row = [st |-> "open", activity |-> at, expires |-> at + Lifetime]
  BY Zenon
<1>5. row \in SessionRow /\ row.st = "open" /\ row.activity = at
  BY <1>4 DEF SessionRow, SessionAssumption, LifetimeAssumption
<1>6. PICK end : end = [sess[old] EXCEPT !.st = "closed"]
  BY Zenon
<1>7. old # None => end \in SessionRow /\ end.st = "closed" /\ end.activity = sess[old].activity
  <2>1. ASSUME old # None PROVE sess[old] \in SessionRow
    BY <1>2, <1>3, <2>1
  <2> QED
    BY <1>6, <2>1 DEF SessionRow
<1>8. /\ sess' \in [Sessions -> SessionRow] /\ sess'[new] = row
      /\ old # None => sess'[old] = end
      /\ \A t \in Sessions \ {new} : t # old => sess'[t] = sess[t]
  <2>1. CASE old = None
    BY <1>2, <1>4, <1>5, <2>1 DEF CreateRow, SessionAssumption
  <2>2. CASE old # None
    <3>1. PICK mid : mid = [sess EXCEPT ![old] = end]
      BY Zenon
    <3>2. mid \in [Sessions -> SessionRow] /\ mid[old] = end /\ \A t \in Sessions \ {old} : mid[t] = sess[t]
      BY <1>2, <1>3, <1>7, <2>2, <3>1
    <3>3. sess' = [mid EXCEPT ![new] = row]
      BY <1>2, <1>3, <1>4, <1>6, <2>2, <3>1 DEF CreateRow, CloseRow
    <3> QED
      BY <1>3, <1>5, <2>2, <3>2, <3>3
  <2> QED
    BY <2>1, <2>2, Zenon
<1>9. /\ opened' \in [Sessions -> Nat] /\ opened'[new] = opened[new] + 1
      /\ \A t \in Sessions \ {new} : opened'[t] = opened[t]
  BY <1>2 DEF AppendOpened
<1>10. /\ closed' \in [Sessions -> Nat] /\ (old # None => closed'[old] = closed[old] + 1)
       /\ \A t \in Sessions : t # old => closed'[t] = closed[t]
  <2>1. CASE old = None
    BY <1>2, <2>1
  <2>2. CASE old # None
    BY <1>2, <1>3, <2>2 DEF AppendClosed
  <2> QED
    BY <2>1, <2>2, Zenon
<1>11. None \notin Sessions
  BY DEF SessionAssumption
<1>12. \A t \in Sessions : sess'[t].st = "none" <=> sess[t].st = "none" /\ t # new
  BY <1>3, <1>5, <1>7, <1>8, <1>11
<1>13. \A t \in Sessions : sess'[t].st = "open" => t = new
  BY <1>7, <1>8, <1>11
<1>14. EventsMatchRows'
  <2>1. SUFFICES ASSUME NEW t \in Sessions
                 PROVE  /\ opened'[t] = IF sess'[t].st = "none" THEN 0 ELSE 1
                        /\ closed'[t] = IF sess'[t].st \in {"closed", "revoked"} THEN 1 ELSE 0
    BY Zenon DEF EventsMatchRows
  <2>2. /\ opened[t] = IF sess[t].st = "none" THEN 0 ELSE 1
        /\ closed[t] = IF sess[t].st \in {"closed", "revoked"} THEN 1 ELSE 0
    BY Zenon DEF RowsInv, EventsMatchRows
  <2>3. CASE t = new
    BY <1>3, <1>5, <1>8, <1>9, <1>10, <1>11, <2>2, <2>3
  <2>4. CASE t = old
    BY <1>3, <1>7, <1>8, <1>9, <1>10, <1>11, <2>2, <2>4
  <2>5. CASE t # new /\ t # old
    BY <1>8, <1>9, <1>10, <2>2, <2>5
  <2> QED
    BY <2>3, <2>4, <2>5, Zenon
<1>15. DeviceUsesCountLogins'
  <2>1. PICK I : I = {s \in Sessions : sess[s].st # "none"}
    BY Zenon
  <2>2. new \notin I /\ I \subseteq Sessions /\ uses = Cardinality(I)
    BY <2>1 DEF RowsInv, DeviceUsesCountLogins
  <2>3. {s \in Sessions : sess'[s].st # "none"} = I \cup {new}
    BY <1>12, <2>1
  <2>4. IsFiniteSet(I)
    BY <2>2, FS_Subset, Zenon DEF SessionAssumption
  <2>5. Cardinality(I \cup {new}) = Cardinality(I) + 1
    BY <2>2, <2>4, FS_AddElement, Zenon
  <2> QED
    BY <2>2, <2>3, <2>5, Zenon DEF DeviceUsesCountLogins, CountDevice
<1>16. /\ polled[new] = 0 /\ sess[new].activity = 0 /\ at \in Nat
       /\ TouchInterval \in Nat /\ 0 < TouchInterval
  BY DEF RowsInv, SessionAssumption, IntervalAssumption, LifetimeAssumption
<1>17. polled'[new] < sess'[new].activity + TouchInterval
  BY <1>1, <1>5, <1>8, <1>16
<1>18. \A t \in Sessions : sess'[t].st = "none" => sess'[t].activity = 0 /\ polled'[t] = 0
  <2>1. ASSUME NEW t \in Sessions, sess'[t].st = "none" PROVE sess'[t] = sess[t] /\ sess[t].st = "none"
    BY <1>7, <1>8, <1>11, <1>12, <2>1
  <2> QED
    BY <1>1, <2>1, Zenon DEF RowsInv
<1>19. RowsInv'
  <2>1. now' \in 0..MaxTime /\ polled' \in [Sessions -> Nat]
    BY <1>1, Zenon DEF RowsInv
  <2>2. \A t, u \in Sessions : sess'[t].st = "open" /\ sess'[u].st = "open" => t = u
    BY <1>13, Zenon
  <2>3. \A t \in Sessions : sess'[t].st = "open" => polled'[t] < sess'[t].activity + TouchInterval
    BY <1>13, <1>17, Zenon
  <2> QED
    BY <1>8, <1>9, <1>10, <1>14, <1>15, <1>18, <2>1, <2>2, <2>3, Zenon DEF RowsInv
<1>20. \A t \in Sessions : sess[t].activity \in Nat
  BY <1>2 DEF SessionRow, SessionAssumption, LifetimeAssumption
<1>21. \A t \in Sessions : sess'[t].activity >= sess[t].activity
  BY <1>3, <1>5, <1>7, <1>8, <1>11, <1>16, <1>20
<1>22. \A t \in Sessions : sess[t].st \in {"closed", "revoked"} => sess'[t] = sess[t]
  BY <1>3, <1>8, <1>11
<1>23. \A t \in Sessions : sess[t].st = "open" /\ sess'[t].st = "closed" => t = old
  BY Zenon
<1>24. \A t \in Sessions : sess[t].st # "none" => sess'[t].st # "none"
  BY <1>12, Zenon
<1> QED
  BY <1>19, <1>21, <1>22, <1>23, <1>24, Zenon

-----------------------------------------------------------------------------
(* Every step keeps the invariant.                                         *)

\* A step that ends with an answer and changes rows without holding a lock.
LEMMA AnswerWrites ==
    ASSUME NEW p \in Procs, NEW c \in {"ok", "refused", "touched", "granted", "aborted"},
           SessionInv, MaxTime \in Nat, To(p, Done(c)), req[p].pc \notin HoldingPcs,
           RowsInv', UNCHANGED <<cache, Locks>>,
           \A q \in Procs \ {p} : Undisturbed(q)
    PROVE  SessionInv'
<1>1. PICK r : r = Done(c)
  OBVIOUS
<1>2. Shape(r) /\ r.pc \notin HoldingPcs /\ r.pc # "login_write" /\ r.pc # "touch_write"
  BY <1>1, DoneShape, Zenon
<1>3. Moves(p, r)
  BY <1>1, MovesTo, Zenon DEF SessionInv
<1>4. advisory' = advisory /\ rowLock' = rowLock /\ cache' = cache
  BY DEF Locks
<1>5. advisory' # p
  BY <1>4, Zenon DEF SessionInv, Relies
<1>6. Relies(p, r)'
  BY <1>2, <1>5, Zenon DEF Relies
<1>7. CacheInv' /\ LocksInv'
  BY <1>4, Zenon DEF SessionInv, CacheInv, LocksInv
<1> QED
  BY <1>2, <1>3, <1>6, <1>7, StepKeeps, Zenon

\* A poll reads the session.
LEMMA TouchReadKeeps ==
    ASSUME NEW p \in Procs, NEW s \in Sessions, SessionInv, SessionAssumption, TouchRead(p, s)
    PROVE  SessionInv'
<1>1. Fresh(p) /\ sess[s].st # "none" /\ UNCHANGED <<now, Rows, cache, Locks>>
  BY DEF TouchRead
<1>2. req[p].pc \notin HoldingPcs /\ MaxTime \in Nat
  BY <1>1, FreshHoldsNot, Zenon DEF SessionAssumption, LifetimeAssumption
<1>3. CASE To(p, Done("refused")) /\ UNCHANGED polled
  <2>1. UNCHANGED <<now, Rows, cache, Locks, polled>>
    BY <1>1, <1>3
  <2> QED
    BY <1>2, <1>3, <2>1, AnswerKeeps, Zenon
<1>4. CASE /\ sess[s].st = "open" /\ now - sess[s].activity < TouchInterval
           /\ To(p, Done("touched")) /\ polled' = [polled EXCEPT ![s] = now]
  <2>1. UNCHANGED <<now, cred, sess, uses, opened, closed>>
    BY <1>1 DEF Rows
  <2>2. RowsInv'
    BY <1>4, <2>1, PolledRows, Zenon DEF SessionInv
  <2>3. UNCHANGED <<cache, Locks>>
    BY <1>1
  <2>4. sess' = sess /\ cred' = cred /\ advisory' = advisory /\ rowLock' = rowLock
    BY <2>1, <2>3 DEF Locks
  <2>5. \A q \in Procs \ {p} : Undisturbed(q)
    BY <2>4, Zenon DEF Undisturbed
  <2> QED
    BY <1>2, <1>4, <2>2, <2>3, <2>5, AnswerWrites, Zenon
<1>5. CASE /\ To(p, [Idle EXCEPT !.pc = "touch_write", !.at = now, !.s = s])
           /\ UNCHANGED polled
  <2>1. PICK r : r = [Idle EXCEPT !.pc = "touch_write", !.at = now, !.s = s]
    OBVIOUS
  <2>2. DOMAIN r = Fields /\ r.pc = "touch_write" /\ r.pw = "wrong" /\ r.snap = None /\ r.at = now /\ r.s = s
    BY <2>1 DEF Idle, Fields
  <2>3. now \in 0..MaxTime
    BY Zenon DEF SessionInv, RowsInv
  <2>4. Shape(r) /\ r.pc \notin HoldingPcs
    BY <2>2, <2>3 DEF Shape, HoldingPcs, Passwords
  <2>5. To(p, r) /\ sess[r.s].st # "none"
    BY <1>1, <1>5, <2>1, <2>2, Zenon
  <2>6. UNCHANGED <<now, Rows, cache, Locks, polled>>
    BY <1>1, <1>5
  <2> QED
    BY <1>2, <2>4, <2>5, <2>6, GoOnKeeps, Zenon
<1> QED
  BY <1>3, <1>4, <1>5 DEF TouchRead, ActiveSession

\* A poll's UPDATE.
LEMMA TouchWriteKeeps ==
    ASSUME NEW p \in Procs, SessionInv, SessionAssumption, TouchWrite(p)
    PROVE  SessionInv'
<1>1. PICK x : x = req[p]
  OBVIOUS
<1>2. x.pc = "touch_write" /\ Shape(x) /\ Relies(p, x) /\ req[p].pc \notin HoldingPcs
  <2>1. x.pc = "touch_write"
    BY <1>1 DEF TouchWrite
  <2> QED
    BY <1>1, <2>1 DEF SessionInv, HoldingPcs
<1>3. x.s \in Sessions /\ x.at \in 0..MaxTime /\ sess[x.s].st # "none"
  BY <1>2 DEF Shape, Relies
<1>4. /\ rowLock = None /\ To(p, Done("touched")) /\ sess' = TouchRow(x.s, x.at)
      /\ polled' = [polled EXCEPT ![x.s] = IF @ < x.at THEN x.at ELSE @]
      /\ UNCHANGED <<now, cred, uses, opened, closed>> /\ UNCHANGED <<cache, Locks>>
  BY <1>1 DEF TouchWrite
<1>5. RowsInv' /\ \A t \in Sessions : sess'[t].st = sess[t].st
  BY <1>3, <1>4, TouchedRows, Zenon DEF SessionInv
<1>6. cred' = cred /\ advisory' = advisory /\ rowLock' = rowLock
  BY <1>4 DEF Locks
<1>7. MaxTime \in Nat /\ None \notin Procs
  BY Zenon DEF SessionAssumption, LifetimeAssumption
<1>8. \A q \in Procs \ {p} : Undisturbed(q)
  BY <1>4, <1>5, <1>6, <1>7, Zenon DEF Undisturbed
<1> QED
  BY <1>2, <1>4, <1>5, <1>7, <1>8, AnswerWrites, Zenon

\* A logout and a revocation end the session that is still open.
LEMMA EndWriteKeeps ==
    ASSUME NEW p \in Procs, SessionInv, SessionAssumption, CloseWrite(p) \/ RevokeWrite(p)
    PROVE  SessionInv'
<1>1. PICK x : x = req[p]
  OBVIOUS
<1>2. x.pc \in {"close_lock", "revoke_lock"} /\ Shape(x) /\ req[p].pc \notin HoldingPcs
  <2>1. x.pc \in {"close_lock", "revoke_lock"}
    BY <1>1 DEF CloseWrite, RevokeWrite
  <2> QED
    BY <1>1, <2>1 DEF SessionInv, HoldingPcs
<1>3. x.s \in Sessions
  BY <1>2 DEF Shape
<1>4. /\ advisory = None /\ rowLock = None /\ UNCHANGED <<cache, Locks>>
      /\ UNCHANGED <<now, uses, opened, polled>>
  BY DEF CloseWrite, RevokeWrite
<1>5. \/ /\ StillOpen(x.s) /\ AppendClosed(x.s) /\ To(p, Done("ok"))
         /\ \E st \in {"closed", "revoked"} : sess' = CloseRow(sess, x.s, st)
         /\ cred' = cred \/ (cred.version < MaxVersion /\ cred' = [cred EXCEPT !.version = @ + 1])
      \/ To(p, Done("refused")) /\ UNCHANGED <<sess, closed, cred>>
  BY <1>1 DEF CloseWrite, RevokeWrite
<1>6. MaxTime \in Nat /\ None \notin Procs
  BY Zenon DEF SessionAssumption, LifetimeAssumption
<1>7. CASE To(p, Done("refused")) /\ UNCHANGED <<sess, closed, cred>>
  <2>1. UNCHANGED <<now, Rows, cache, Locks, polled>>
    BY <1>4, <1>7 DEF Rows
  <2> QED
    BY <1>2, <1>6, <1>7, <2>1, AnswerKeeps, Zenon
<1>8. ASSUME NEW st \in {"closed", "revoked"}, StillOpen(x.s), AppendClosed(x.s), To(p, Done("ok")),
             sess' = CloseRow(sess, x.s, st),
             cred' = cred \/ (cred.version < MaxVersion /\ cred' = [cred EXCEPT !.version = @ + 1])
      PROVE  SessionInv'
  <2>1. cred' \in Credential
    BY <1>8 DEF SessionInv, RowsInv, Credential, SessionAssumption
  <2>2. RowsInv' /\ \A t \in Sessions : sess[t].st # "none" => sess'[t].st # "none"
    BY <1>3, <1>4, <1>8, <2>1, EndedRows, Zenon DEF SessionInv
  <2>3. advisory' = advisory /\ rowLock' = rowLock
    BY <1>4 DEF Locks
  <2>4. \A q \in Procs \ {p} : Undisturbed(q)
    BY <1>4, <1>6, <2>2, <2>3, Zenon DEF Undisturbed
  <2> QED
    BY <1>2, <1>4, <1>6, <1>8, <2>2, <2>4, AnswerWrites, Zenon
<1> QED
  BY <1>5, <1>7, <1>8, Zenon

\* A password grant replaces an old verifier and leaves the version.
LEMMA GrantWriteKeeps ==
    ASSUME NEW p \in Procs, SessionInv, SessionAssumption, GrantWrite(p)
    PROVE  SessionInv'
<1>1. req[p].pc \notin HoldingPcs
  BY DEF GrantWrite, HoldingPcs
<1>2. UNCHANGED <<now, sess, uses, opened, closed, cache, Locks, polled>>
  BY DEF GrantWrite
<1>3. MaxTime \in Nat
  BY Zenon DEF SessionAssumption, LifetimeAssumption
<1>4. \/ cred' = [cred EXCEPT !.alg = "argon2id"] /\ To(p, Done("granted"))
      \/ UNCHANGED cred /\ To(p, Done("refused"))
  BY DEF GrantWrite
<1>5. CASE UNCHANGED cred /\ To(p, Done("refused"))
  <2>1. UNCHANGED <<now, Rows, cache, Locks, polled>>
    BY <1>2, <1>5 DEF Rows
  <2> QED
    BY <1>1, <1>3, <1>5, <2>1, AnswerKeeps, Zenon
<1>6. CASE cred' = [cred EXCEPT !.alg = "argon2id"] /\ To(p, Done("granted"))
  <2>1. cred' \in Credential /\ cred'.version = cred.version
    BY <1>6 DEF SessionInv, RowsInv, Credential
  <2>2. /\ now' = now /\ sess' = sess /\ uses' = uses /\ opened' = opened /\ closed' = closed
        /\ polled' = polled /\ advisory' = advisory /\ rowLock' = rowLock
    BY <1>2 DEF Locks
  <2>3. RowsInv'
    BY <2>1, <2>2, Zenon DEF SessionInv, RowsInv, EventsMatchRows, DeviceUsesCountLogins
  <2>4. \A q \in Procs \ {p} : Undisturbed(q)
    BY <2>1, <2>2, Zenon DEF Undisturbed
  <2>5. UNCHANGED <<cache, Locks>>
    BY <1>2
  <2> QED
    BY <1>1, <1>3, <1>6, <2>3, <2>4, <2>5, AnswerWrites, Zenon
<1> QED
  BY <1>4, <1>5, <1>6, Zenon

\* A login takes the account's lock when its credential is still the current one.
LEMMA LoginLockKeeps ==
    ASSUME NEW p \in Procs, SessionInv, SessionAssumption, LoginLock(p)
    PROVE  SessionInv'
<1>1. PICK x : x = req[p]
  OBVIOUS
<1>2. x.pc = "login_lock" /\ Shape(x) /\ req[p].pc \notin HoldingPcs
  <2>1. x.pc = "login_lock"
    BY <1>1 DEF LoginLock
  <2> QED
    BY <1>1, <2>1 DEF SessionInv, HoldingPcs
<1>3. advisory = None /\ UNCHANGED <<now, Rows, cache, rowLock, polled>>
  BY DEF LoginLock
<1>4. MaxTime \in Nat /\ None \notin Procs
  BY Zenon DEF SessionAssumption, LifetimeAssumption
<1>5. \/ x.snap = cred /\ advisory' = p /\ To(p, [x EXCEPT !.pc = "login_find"])
      \/ UNCHANGED advisory /\ To(p, Done("refused"))
  BY <1>1 DEF LoginLock, CredentialIsCurrent
<1>6. CASE UNCHANGED advisory /\ To(p, Done("refused"))
  <2>1. UNCHANGED <<now, Rows, cache, Locks, polled>>
    BY <1>3, <1>6 DEF Locks
  <2> QED
    BY <1>2, <1>4, <1>6, <2>1, AnswerKeeps, Zenon
<1>7. CASE x.snap = cred /\ advisory' = p /\ To(p, [x EXCEPT !.pc = "login_find"])
  <2>1. PICK r : r = [x EXCEPT !.pc = "login_find"]
    BY Zenon
  <2>2. DOMAIN r = Fields /\ r.pc = "login_find" /\ r.pw = x.pw /\ r.snap = x.snap /\ r.at = x.at /\ r.s = x.s
    BY <1>2, <2>1 DEF Shape, Fields
  <2>3. Shape(r) /\ r.pc \in HoldingPcs /\ r.pc # "touch_write" /\ r.pc # "login_write"
    BY <1>2, <2>2 DEF Shape, HoldingPcs
  <2>4. Moves(p, r)
    BY <1>7, <2>1, MovesTo, Zenon DEF SessionInv
  <2>5. /\ now' = now /\ cred' = cred /\ sess' = sess /\ uses' = uses /\ opened' = opened
        /\ closed' = closed /\ polled' = polled /\ rowLock' = rowLock /\ cache' = cache
    BY <1>3 DEF Rows
  <2>6. Relies(p, r)'
    BY <1>7, <2>2, <2>3, <2>5, Zenon DEF Relies
  <2>7. RowsInv' /\ CacheInv' /\ LocksInv'
    BY <1>7, <2>5, RowsSame, Zenon DEF SessionInv, CacheInv, LocksInv
  <2>8. \A q \in Procs \ {p} : Undisturbed(q)
    BY <1>3, <1>4, <1>7, <2>5, Zenon DEF Undisturbed
  <2> QED
    BY <2>3, <2>4, <2>6, <2>7, <2>8, StepKeeps, Zenon
<1> QED
  BY <1>5, <1>6, <1>7, Zenon

\* A login that holds the account's lock goes on to write, with the row lock of
\* the session it replaces, if there is one.
LEMMA FoundKeeps ==
    ASSUME NEW p \in Procs, NEW s \in Sessions \cup {None}, SessionInv, SessionAssumption,
           req[p].pc = "login_find", \A t \in Sessions : sess[t].st = "open" => t = s,
           s # None => rowLock' = p /\ sess[s].st = "open" /\ Replaceable(s, req[p].at),
           rowLock = None, s = None => rowLock' = rowLock, advisory' = advisory,
           To(p, [req[p] EXCEPT !.pc = "login_write", !.s = s]),
           UNCHANGED <<now, Rows, cache, polled>>
    PROVE  SessionInv'
<1>1. PICK x : x = req[p]
  OBVIOUS
<1>2. Shape(x) /\ Relies(p, x) /\ x.pc = "login_find"
  BY <1>1, Zenon DEF SessionInv
<1>3. PICK r : r = [x EXCEPT !.pc = "login_write", !.s = s]
  OBVIOUS
<1>4. DOMAIN r = Fields /\ r.pc = "login_write" /\ r.pw = x.pw /\ r.snap = x.snap /\ r.at = x.at /\ r.s = s
  BY <1>2, <1>3 DEF Shape, Fields
<1>5. Shape(r) /\ r.pc \in HoldingPcs /\ x.pc \in HoldingPcs /\ r.pc # "touch_write"
  BY <1>2, <1>4 DEF Shape, HoldingPcs
<1>6. Moves(p, r)
  BY <1>1, <1>3, MovesTo, Zenon DEF SessionInv
<1>7. /\ now' = now /\ cred' = cred /\ sess' = sess /\ uses' = uses /\ opened' = opened
      /\ closed' = closed /\ polled' = polled /\ cache' = cache
  BY DEF Rows
<1>8. s # None => Replaceable(s, r.at)'
  BY <1>1, <1>4, <1>7, Zenon DEF Replaceable, Stale
<1>9. advisory' = p /\ r.snap.version = cred'.version
  BY <1>2, <1>4, <1>5, <1>7, Zenon DEF Relies
<1>10. Relies(p, r)'
  BY <1>4, <1>5, <1>7, <1>8, <1>9, Zenon DEF Relies
<1>11. None \notin Procs
  BY Zenon DEF SessionAssumption
<1>12. rowLock' \in Procs \cup {None}
  BY Zenon
<1>13. RowsInv' /\ CacheInv' /\ LocksInv'
  BY <1>7, <1>12, RowsSame, Zenon DEF SessionInv, CacheInv, LocksInv
<1>14. \A q \in Procs \ {p} : Undisturbed(q)
  BY <1>7, <1>11, Zenon DEF Undisturbed
<1> QED
  BY <1>5, <1>6, <1>10, <1>13, <1>14, StepKeeps, Zenon

\* A login looks for the open session.
LEMMA LoginFindKeeps ==
    ASSUME NEW p \in Procs, SessionInv, SessionAssumption, LoginFind(p)
    PROVE  SessionInv'
<1>1. /\ req[p].pc = "login_find" /\ rowLock = None /\ UNCHANGED <<now, Rows, cache, polled>>
      /\ MaxTime \in Nat /\ None \notin Procs /\ None \notin Sessions
  BY Zenon DEF LoginFind, SessionAssumption, LifetimeAssumption
<1>2. CASE Open = {} /\ To(p, [req[p] EXCEPT !.pc = "login_write"]) /\ UNCHANGED Locks
  <2>1. PICK x : x = req[p]
    OBVIOUS
  <2>2. Shape(x) /\ x.pc = "login_find"
    BY <1>1, <2>1, Zenon DEF SessionInv
  <2>3. [x EXCEPT !.pc = "login_write"] = [x EXCEPT !.pc = "login_write", !.s = None]
    BY <2>2, Zenon DEF Shape, Fields
  <2>4. To(p, [req[p] EXCEPT !.pc = "login_write", !.s = None])
    BY <1>2, <2>1, <2>3, Zenon
  <2>5. \A t \in Sessions : sess[t].st # "open"
    BY <1>2 DEF Open
  <2>6. advisory' = advisory /\ rowLock' = rowLock
    BY <1>2 DEF Locks
  <2> QED
    BY <1>1, <2>4, <2>5, <2>6, FoundKeeps, Zenon
<1>3. ASSUME NEW s \in Open, Replaceable(s, req[p].at), rowLock' = p, UNCHANGED advisory,
             To(p, [req[p] EXCEPT !.pc = "login_write", !.s = s])
      PROVE  SessionInv'
  <2>1. s \in Sessions /\ sess[s].st = "open"
    BY DEF Open
  <2>2. \A t \in Sessions : sess[t].st = "open" => t = s
    BY <2>1, Zenon DEF SessionInv, RowsInv
  <2>3. s # None /\ s \in Sessions \cup {None} /\ advisory' = advisory
    BY <1>1, <1>3, <2>1
  <2> QED
    BY <1>1, <1>3, <2>1, <2>2, <2>3, FoundKeeps, Zenon
<1>4. CASE Release(p) /\ To(p, Done("refused"))
  <2>1. PICK r : r = Done("refused")
    OBVIOUS
  <2>2. Shape(r) /\ r.pc \notin HoldingPcs /\ r.pc # "touch_write"
    BY <1>1, <2>1, DoneShape, Zenon
  <2>3. Moves(p, r)
    BY <1>4, <2>1, MovesTo, Zenon DEF SessionInv
  <2> QED
    BY <1>1, <1>4, <2>2, <2>3, ReleaseKeeps, Zenon
<1> QED
  BY <1>2, <1>3, <1>4, Zenon DEF LoginFind

\* What the commit of a login writes.
Commits(p, new) ==
    /\ sess[new].st = "none"
    /\ cred' = IF req[p].snap.alg = "bcrypt_md5" THEN [cred EXCEPT !.alg = "argon2id"] ELSE cred
    /\ sess' = CreateRow(IF req[p].s # None THEN CloseRow(sess, req[p].s, "closed") ELSE sess,
                         new, req[p].at)
    /\ IF req[p].s # None THEN AppendClosed(req[p].s) ELSE UNCHANGED closed
    /\ AppendOpened(new) /\ CountDevice /\ To(p, Done("ok")) /\ UNCHANGED <<now, cache, polled>>

\* The rows after the commit of a login.
LEMMA CommittedRows ==
    ASSUME NEW p \in Procs, NEW new \in Sessions, SessionInv, SessionAssumption,
           req[p].pc = "login_write", Commits(p, new)
    PROVE  /\ RowsInv' /\ \A t \in Sessions : sess[t].st # "none" => sess'[t].st # "none"
           /\ \A t \in Sessions : /\ sess'[t].activity >= sess[t].activity
                                  /\ sess[t].st \in {"closed", "revoked"} => sess'[t] = sess[t]
           /\ \A t \in Sessions : sess[t].st = "open" /\ sess'[t].st = "closed" => t = req[p].s
<1>1. Shape(req[p]) /\ Relies(p, req[p]) /\ RowsInv
  BY Zenon DEF SessionInv
<1>2. PICK old, at : old = req[p].s /\ at = req[p].at
  BY Zenon
<1>3. old \in Sessions \cup {None} /\ at \in 0..MaxTime
  BY <1>1, <1>2, Zenon DEF Shape
<1>4. /\ \A s \in Sessions : sess[s].st = "open" => s = old
      /\ old # None => sess[old].st = "open"
  BY <1>1, <1>2, Zenon DEF Relies
<1>5. cred' \in Credential
  BY DEF Commits, SessionInv, RowsInv, Credential
<1>6. /\ sess[new].st = "none"
      /\ sess' = CreateRow(IF old # None THEN CloseRow(sess, old, "closed") ELSE sess, new, at)
      /\ IF old # None THEN AppendClosed(old) ELSE UNCHANGED closed
      /\ AppendOpened(new) /\ CountDevice
  BY <1>2, Zenon DEF Commits
<1>7. UNCHANGED <<now, polled>>
  BY DEF Commits
<1> QED
  BY <1>1, <1>2, <1>3, <1>4, <1>5, <1>6, <1>7, LoggedInRows, Zenon

\* A login commits, or is refused because the upgrade of its verifier misses.
LEMMA LoginWriteCases ==
    ASSUME NEW p \in Procs, LoginWrite(p)
    PROVE  /\ req[p].pc = "login_write" /\ Release(p)
           /\ \/ To(p, Done("refused")) /\ UNCHANGED <<now, Rows, cache, polled>>
              \/ \E new \in Sessions : Commits(p, new)
<1>1. CASE req[p].snap.alg = "bcrypt_md5" /\ ~UpgradeMatches(req[p].snap)
  BY <1>1 DEF LoginWrite
<1>2. CASE ~(req[p].snap.alg = "bcrypt_md5" /\ ~UpgradeMatches(req[p].snap))
  BY <1>2, Zenon DEF LoginWrite, Commits
<1> QED
  BY <1>1, <1>2, Zenon

\* The commit of a login.
LEMMA LoginWriteKeeps ==
    ASSUME NEW p \in Procs, SessionInv, SessionAssumption, LoginWrite(p)
    PROVE  SessionInv'
<1>1. /\ req[p].pc = "login_write" /\ Release(p)
      /\ \/ To(p, Done("refused")) /\ UNCHANGED <<now, Rows, cache, polled>>
         \/ \E new \in Sessions : Commits(p, new)
  BY LoginWriteCases, Zenon
<1>2. MaxTime \in Nat /\ None \notin Procs
  BY Zenon DEF SessionAssumption, LifetimeAssumption
<1>3. CASE To(p, Done("refused")) /\ UNCHANGED <<now, Rows, cache, polled>>
  <2>1. PICK r : r = Done("refused")
    OBVIOUS
  <2>2. Shape(r) /\ r.pc \notin HoldingPcs /\ r.pc # "touch_write"
    BY <1>2, <2>1, DoneShape, Zenon
  <2>3. Moves(p, r)
    BY <1>3, <2>1, MovesTo, Zenon DEF SessionInv
  <2> QED
    BY <1>1, <1>2, <1>3, <2>2, <2>3, ReleaseKeeps, Zenon
<1>4. ASSUME NEW new \in Sessions, Commits(p, new) PROVE SessionInv'
  <2>1. RowsInv' /\ \A t \in Sessions : sess[t].st # "none" => sess'[t].st # "none"
    BY <1>1, <1>4, CommittedRows, Zenon
  <2>2. PICK r : r = Done("ok")
    OBVIOUS
  <2>3. Shape(r) /\ r.pc \notin HoldingPcs /\ r.pc # "touch_write" /\ r.pc # "login_write"
    BY <1>2, <2>2, DoneShape, Zenon
  <2>4. Moves(p, r) /\ cache' = cache
    BY <1>4, <2>2, MovesTo, Zenon DEF SessionInv, Commits
  <2>5. /\ LocksInv' /\ advisory' # p
        /\ \A q \in Procs \ {p} : (advisory' = q <=> advisory = q) /\ (rowLock = q => rowLock' = q)
    BY <1>1, <1>2, Released, Zenon DEF SessionInv
  <2>6. Relies(p, r)' /\ CacheInv'
    BY <2>3, <2>4, <2>5, Zenon DEF Relies, SessionInv, CacheInv
  <2>7. advisory = p
    <3>1. req[p].pc \in HoldingPcs
      BY <1>1 DEF HoldingPcs
    <3> QED
      BY <3>1, Zenon DEF SessionInv, Relies
  <2>8. \A q \in Procs \ {p} : Undisturbed(q)
    BY <2>1, <2>5, <2>7, Zenon DEF Undisturbed
  <2> QED
    BY <2>1, <2>3, <2>4, <2>5, <2>6, <2>8, StepKeeps, Zenon
<1> QED
  BY <1>1, <1>3, <1>4, Zenon

\* A cancelled request rolls back.
LEMMA AbortKeeps ==
    ASSUME NEW p \in Procs, SessionInv, SessionAssumption, Abort(p)
    PROVE  SessionInv'
<1>1. Release(p) /\ To(p, Done("aborted")) /\ UNCHANGED <<now, Rows, cache, polled>>
  BY DEF Abort
<1>2. MaxTime \in Nat /\ None \notin Procs
  BY Zenon DEF SessionAssumption, LifetimeAssumption
<1>3. PICK r : r = Done("aborted")
  OBVIOUS
<1>4. Shape(r) /\ r.pc \notin HoldingPcs /\ r.pc # "touch_write"
  BY <1>2, <1>3, DoneShape, Zenon
<1>5. Moves(p, r)
  BY <1>1, <1>3, MovesTo, Zenon DEF SessionInv
<1> QED
  BY <1>1, <1>2, <1>4, <1>5, ReleaseKeeps, Zenon

\* The clock advances, or the cache drops its entry: no request moves.
LEMMA IdleKeeps ==
    ASSUME SessionInv, SessionAssumption, DOMAIN req = Procs, UNCHANGED <<Rows, Locks, req, polled>>,
           now' \in 0..MaxTime, cache' = cache \/ cache' = None
    PROVE  SessionInv'
<1>1. /\ cred' = cred /\ sess' = sess /\ uses' = uses /\ opened' = opened /\ closed' = closed
      /\ polled' = polled /\ advisory' = advisory /\ rowLock' = rowLock /\ req' = req
  BY DEF Rows, Locks
<1>2. RowsInv'
  BY <1>1, Zenon DEF SessionInv, RowsInv, EventsMatchRows, DeviceUsesCountLogins
<1>3. CacheInv' /\ LocksInv'
  BY <1>1, Zenon DEF SessionInv, CacheInv, LocksInv
<1>4. ASSUME NEW p \in Procs PROVE Shape(req[p])' /\ Relies(p, req[p])'
  <2>1. Shape(req[p]) /\ Relies(p, req[p])
    BY Zenon DEF SessionInv
  <2> QED
    BY <1>1, <2>1, Zenon DEF Shape, Relies, Replaceable, Stale
<1> QED
  BY <1>1, <1>2, <1>3, <1>4, Zenon DEF SessionInv

\* The invariant holds initially.
LEMMA SessionInit ==
    ASSUME SessionAssumption, Init
    PROVE  SessionInv
<1>1. /\ now \in 0..MaxTime /\ cred \in Credential /\ sess \in [Sessions -> SessionRow]
      /\ opened \in [Sessions -> Nat] /\ closed \in [Sessions -> Nat] /\ polled \in [Sessions -> Nat]
  <2>1. MaxTime \in Nat /\ Lifetime \in Nat /\ MaxVersion \in Nat \ {0}
    BY DEF SessionAssumption, LifetimeAssumption
  <2>2. cred \in Credential
    <3>1. cred \in [alg : Algorithms, version : {1}]
      BY DEF Init
    <3>2. Algorithms \subseteq {"bcrypt_md5", "argon2id_old", "argon2id"}
      BY DEF SessionAssumption
    <3>3. PICK g, v : cred = [alg |-> g, version |-> v] /\ g \in Algorithms /\ v = 1
      BY <3>1
    <3>4. g \in {"bcrypt_md5", "argon2id_old", "argon2id"} /\ v \in 1..MaxVersion
      BY <2>1, <3>2, <3>3
    <3> QED
      BY <3>3, <3>4, Zenon DEF Credential
  <2>3. sess \in [Sessions -> SessionRow]
    <3>1. [st |-> "none", activity |-> 0, expires |-> 0] \in SessionRow
      BY <2>1 DEF SessionRow
    <3> QED
      BY <3>1 DEF Init
  <2> QED
    BY <2>1, <2>2, <2>3 DEF Init
<1>2. \A s \in Sessions : /\ sess[s].st = "none" /\ sess[s].activity = 0 /\ polled[s] = 0
                          /\ opened[s] = 0 /\ closed[s] = 0
  BY DEF Init
<1>3. EventsMatchRows
  BY <1>2 DEF EventsMatchRows
<1>4. DeviceUsesCountLogins
  <2>1. {s \in Sessions : sess[s].st # "none"} = {}
    BY <1>2
  <2> QED
    BY <2>1, FS_EmptySet, Zenon DEF DeviceUsesCountLogins, Init
<1>5. \A s \in Sessions : sess[s].st # "open"
  BY <1>2
<1>6. RowsInv
  BY <1>1, <1>2, <1>3, <1>4, <1>5, Zenon DEF RowsInv
<1>7. CacheInv /\ LocksInv
  BY Zenon DEF Init, CacheInv, LocksInv
<1>8. ASSUME NEW p \in Procs PROVE Shape(req[p]) /\ Relies(p, req[p])
  <2>1. PICK r : r = req[p]
    OBVIOUS
  <2>2. /\ DOMAIN r = Fields /\ r.pc = "idle" /\ r.pw = "wrong" /\ r.snap = None
        /\ r.at = 0 /\ r.s = None
    BY <2>1 DEF Init, Idle, Fields
  <2>3. MaxTime \in Nat /\ advisory # p
    BY DEF SessionAssumption, LifetimeAssumption, Init
  <2>4. Shape(r) /\ r.pc \notin HoldingPcs /\ r.pc # "touch_write"
    BY <2>2, <2>3 DEF Shape, HoldingPcs, Passwords
  <2>5. Relies(p, r)
    BY <2>3, <2>4, OutsideRelies, Zenon
  <2> QED
    BY <2>1, <2>4, <2>5, Zenon
<1>9. DOMAIN req = Procs
  BY DEF Init
<1> QED
  BY <1>6, <1>7, <1>8, <1>9, Zenon DEF SessionInv

\* Every step keeps the invariant.
LEMMA SessionNext ==
    ASSUME SessionAssumption, SessionInv, [Next]_vars
    PROVE  SessionInv'
<1>1. MaxTime \in Nat /\ None \notin Proof /\ DOMAIN req = Procs /\ now \in 0..MaxTime
  BY Zenon DEF SessionAssumption, LifetimeAssumption, SessionInv, RowsInv
<1>2. CASE UNCHANGED vars
  <2>1. UNCHANGED <<Rows, Locks, req, polled>> /\ now' = now /\ cache' = cache
    BY <1>2 DEF vars, Rows, Locks
  <2> QED
    BY <1>1, <2>1, IdleKeeps, Zenon
<1>3. CASE Tick
  <2>1. UNCHANGED <<Rows, Locks, req, polled>> /\ cache' = cache /\ now' \in 0..MaxTime
    BY <1>1, <1>3 DEF Tick
  <2> QED
    BY <1>1, <2>1, IdleKeeps, Zenon
<1>4. CASE CacheExpire
  <2>1. UNCHANGED <<Rows, Locks, req, polled>> /\ now' = now /\ cache' = None
    BY <1>4 DEF CacheExpire
  <2> QED
    BY <1>1, <2>1, IdleKeeps, Zenon
<1>5. ASSUME NEW p \in Procs, Begin(p) PROVE SessionInv'
  <2>1. ASSUME NEW pw \in Passwords, LoginRead(p, pw) \/ VerifyRead(p, pw) \/ GrantRead(p, pw)
        PROVE  SessionInv'
    BY <1>1, <2>1, CredentialReadKeeps, VerifyReadKeeps, Zenon
  <2>2. ASSUME NEW s \in Sessions, TouchRead(p, s) \/ CloseRead(p, s) \/ RevokeRead(p, s)
        PROVE  SessionInv'
    BY <1>1, <2>2, TouchReadKeeps, EndReadKeeps, Zenon
  <2> QED
    BY <1>5, <2>1, <2>2, Zenon DEF Begin
<1>6. ASSUME NEW p \in Procs, Step(p) PROVE SessionInv'
  <2>1. CASE LoginVerify(p) \/ LoginLock(p) \/ LoginFind(p) \/ LoginWrite(p)
    BY <1>1, <2>1, LoginVerifyKeeps, LoginLockKeeps, LoginFindKeeps, LoginWriteKeeps, Zenon
  <2>2. CASE TouchWrite(p) \/ CloseWrite(p) \/ RevokeWrite(p)
    BY <2>2, TouchWriteKeeps, EndWriteKeeps, Zenon
  <2>3. CASE VerifyCache(p) \/ VerifyCurrent(p) \/ VerifyStore(p)
    BY <1>1, <2>3, VerifyCacheKeeps, VerifyCurrentKeeps, VerifyStoreKeeps, Zenon
  <2>4. CASE GrantVerify(p) \/ GrantWrite(p)
    BY <1>1, <2>4, GrantVerifyKeeps, GrantWriteKeeps, Zenon
  <2> QED
    BY <1>6, <2>1, <2>2, <2>3, <2>4, Zenon DEF Step
<1>7. ASSUME NEW p \in Procs, Abort(p) PROVE SessionInv'
  BY <1>7, AbortKeeps, Zenon
<1> QED
  BY <1>2, <1>3, <1>4, <1>5, <1>6, <1>7, Zenon DEF Next

-----------------------------------------------------------------------------
(* What the invariant and the steps give.                                  *)

\* At most one session is open, also while a login is about to insert its own.
LEMMA OneOpen ==
    ASSUME SessionInv
    PROVE  OneOpenSession
<1>1. \A s, t \in Open : s = t
  BY Zenon DEF SessionInv, RowsInv, Open
<1>2. Open = {} => Cardinality(Open) <= 1
  BY FS_EmptySet
<1>3. ASSUME NEW s \in Open PROVE Cardinality(Open) <= 1
  <2>1. Open = {s}
    BY <1>1
  <2>2. Cardinality({s}) = 1
    BY FS_Singleton, Zenon
  <2> QED
    BY <2>1, <2>2
<1>4. Cardinality(Open) <= 1
  BY <1>2, <1>3, Zenon
<1>5. ASSUME NEW p \in Procs, req[p].pc = "login_write" PROVE Open \subseteq {req[p].s}
  <2>1. Relies(p, req[p])
    BY Zenon DEF SessionInv
  <2> QED
    BY <1>5, <2>1 DEF Relies, Open
<1> QED
  BY <1>4, <1>5, Zenon DEF OneOpenSession

\* A login that is about to write replaces only a silent or an expired session.
LEMMA SilentWhenReplaced ==
    ASSUME SessionInv, SessionAssumption
    PROVE  StaleOnlyWhenSilent
<1>1. SUFFICES ASSUME NEW s \in Sessions, NEW p \in Procs, req[p].pc = "login_write",
                      sess[s].st = "open", sess[s].expires > req[p].at
               PROVE  req[p].at - polled[s] > StaleGrace - TouchInterval
  BY Zenon DEF StaleOnlyWhenSilent
<1>2. PICK x : x = req[p]
  OBVIOUS
<1>3. Shape(x) /\ Relies(p, x) /\ x.pc = "login_write"
  BY <1>1, <1>2, Zenon DEF SessionInv
<1>4. s = x.s /\ x.s # None
  BY <1>1, <1>3, Zenon DEF Relies, SessionAssumption
<1>5. sess[s].expires <= x.at \/ sess[s].activity <= x.at - StaleGrace
  BY <1>3, <1>4, Zenon DEF Relies, Replaceable, Stale
<1>6. x.at \in Nat /\ sess[s].expires \in Nat /\ sess[s].activity \in Nat /\ polled[s] \in Nat
  BY <1>3 DEF Shape, SessionInv, RowsInv, SessionRow, SessionAssumption, LifetimeAssumption
<1>7. polled[s] < sess[s].activity + TouchInterval
  BY <1>1, Zenon DEF SessionInv, RowsInv
<1>8. StaleGrace \in Nat /\ TouchInterval \in Nat
  BY DEF SessionAssumption
<1> QED
  BY <1>1, <1>2, <1>5, <1>6, <1>7, <1>8

\* No step moves an activity back or changes an ended session.
LEMMA MonotoneStep ==
    ASSUME SessionInv, SessionAssumption, [Next]_vars
    PROVE  SessionMonotone
<1>1. \A s \in Sessions : sess[s].activity \in Nat
  BY DEF SessionInv, RowsInv, SessionRow, SessionAssumption, LifetimeAssumption
<1>2. ASSUME sess' = sess PROVE SessionMonotone
  BY <1>1, <1>2 DEF SessionMonotone
<1>3. ASSUME NEW p \in Procs, TouchWrite(p) PROVE SessionMonotone
  <2>1. PICK s, at : s = req[p].s /\ at = req[p].at
    BY Zenon
  <2>2. req[p].pc = "touch_write" /\ Shape(req[p]) /\ Relies(p, req[p]) /\ RowsInv
    BY <1>3, Zenon DEF TouchWrite, SessionInv
  <2>3. s \in Sessions /\ at \in 0..MaxTime /\ sess[s].st # "none"
    BY <2>1, <2>2 DEF Shape, Relies
  <2>4. /\ sess' = TouchRow(s, at) /\ polled' = [polled EXCEPT ![s] = IF @ < at THEN at ELSE @]
        /\ UNCHANGED <<now, cred, uses, opened, closed>>
    BY <1>3, <2>1 DEF TouchWrite
  <2> QED
    BY <2>2, <2>3, <2>4, TouchedRows, Zenon DEF SessionMonotone
<1>4. ASSUME NEW p \in Procs, CloseWrite(p) \/ RevokeWrite(p) PROVE SessionMonotone
  <2>1. PICK s : s = req[p].s
    OBVIOUS
  <2>2. Shape(req[p]) /\ req[p].pc \in {"close_lock", "revoke_lock"} /\ RowsInv
    BY <1>4 DEF CloseWrite, RevokeWrite, SessionInv
  <2>3. s \in Sessions
    BY <2>1, <2>2 DEF Shape
  <2>4. \/ sess' = sess
        \/ /\ StillOpen(s) /\ AppendClosed(s) /\ UNCHANGED <<now, uses, opened, polled>>
           /\ \E st \in {"closed", "revoked"} : sess' = CloseRow(sess, s, st)
           /\ cred' = cred \/ (cred.version < MaxVersion /\ cred' = [cred EXCEPT !.version = @ + 1])
    BY <1>4, <2>1 DEF CloseWrite, RevokeWrite
  <2>5. cred' = cred \/ (cred.version < MaxVersion /\ cred' = [cred EXCEPT !.version = @ + 1])
          => cred' \in Credential
    BY <2>2 DEF RowsInv, Credential, SessionAssumption
  <2>6. sess' # sess =>
          \A t \in Sessions : /\ sess'[t].activity = sess[t].activity
                              /\ sess[t].st \in {"closed", "revoked"} => sess'[t] = sess[t]
    BY <2>2, <2>3, <2>4, <2>5, EndedRows, Zenon
  <2>7. sess' # sess => SessionMonotone
    BY <1>1, <2>6 DEF SessionMonotone
  <2> QED
    BY <1>2, <2>7, Zenon
<1>5. ASSUME NEW p \in Procs, LoginWrite(p) PROVE SessionMonotone
  <2>1. ASSUME NEW new \in Sessions, Commits(p, new) PROVE SessionMonotone
    BY <1>5, <2>1, LoginWriteCases, CommittedRows, Zenon DEF SessionMonotone
  <2>2. CASE UNCHANGED Rows
    BY <1>2, <2>2 DEF Rows
  <2>3. UNCHANGED Rows \/ \E new \in Sessions : Commits(p, new)
    BY <1>5, LoginWriteCases
  <2> QED
    BY <2>1, <2>2, <2>3, Zenon
<1>6. CASE UNCHANGED vars
  BY <1>2, <1>6 DEF vars
<1>7. CASE Tick \/ CacheExpire
  BY <1>2, <1>7 DEF Tick, CacheExpire, Rows
<1>8. ASSUME NEW p \in Procs, Begin(p) \/ Abort(p) PROVE SessionMonotone
  <2>1. UNCHANGED Rows
    BY <1>8, Zenon DEF Begin, Abort, LoginRead, VerifyRead, GrantRead, TouchRead, CloseRead, RevokeRead
  <2> QED
    BY <1>2, <2>1 DEF Rows
<1>9. ASSUME NEW p \in Procs, Step(p) PROVE SessionMonotone
  <2>1. CASE \/ LoginVerify(p) \/ LoginLock(p) \/ LoginFind(p)
             \/ VerifyCache(p) \/ VerifyCurrent(p) \/ VerifyStore(p) \/ GrantVerify(p) \/ GrantWrite(p)
    <3>1. sess' = sess
      BY <2>1, Zenon DEF LoginVerify, LoginLock, LoginFind, VerifyCache, VerifyCurrent, VerifyStore,
                  GrantVerify, GrantWrite, Rows
    <3> QED
      BY <1>2, <3>1
  <2> QED
    BY <1>3, <1>4, <1>5, <1>9, <2>1, Zenon DEF Step
<1> QED
  BY <1>6, <1>7, <1>8, <1>9, Zenon DEF Next

\* Whatever logins, polls, logouts, revocations and verifications interleave,
\* an account has at most one open session and a login's insert never meets
\* another, every opened and ended session is reported once, the device counts
\* the sessions, and only a right password yields a principal.
THEOREM SessionsSound ==
    ASSUME SessionAssumption
    PROVE  Spec => [](TypeOK /\ OneOpenSession /\ EventsMatchRows /\ DeviceUsesCountLogins
                        /\ PrincipalKnowsPassword)
<1>1. Init => SessionInv
  BY SessionInit, Zenon
<1>2. SessionInv /\ [Next]_vars => SessionInv'
  BY SessionNext, Zenon
<1>3. SessionInv => /\ TypeOK /\ OneOpenSession /\ EventsMatchRows /\ DeviceUsesCountLogins
                    /\ PrincipalKnowsPassword
  <2>1. SUFFICES ASSUME SessionInv
                 PROVE  /\ TypeOK /\ OneOpenSession /\ EventsMatchRows /\ DeviceUsesCountLogins
                        /\ PrincipalKnowsPassword
    BY Zenon
  <2>2. \A p \in Procs : Shape(req[p])
    BY <2>1, Zenon DEF SessionInv
  <2>3. PrincipalKnowsPassword
    BY <2>2 DEF PrincipalKnowsPassword, Shape
  <2>4. TypeOK
    BY <2>1, <2>2, Zenon DEF SessionInv, RowsInv, LocksInv, TypeOK, Shape
  <2> QED
    BY <2>1, <2>3, <2>4, OneOpen, Zenon DEF SessionInv, RowsInv
<1> QED
  BY <1>1, <1>2, <1>3, PTL DEF Spec

\* A login replaces a session as stale only when no poll was answered within
\* StaleGrace - TouchInterval of it, commits only on the auth_version its
\* verification read, and no step moves an activity back or reopens a session.
THEOREM SessionStepsSound ==
    ASSUME SessionAssumption
    PROVE  Spec => [][StaleOnlyWhenSilent /\ NoLoginAcrossRevoke /\ SessionMonotone]_vars
<1>1. Init => SessionInv
  BY SessionInit, Zenon
<1>2. SessionInv /\ [Next]_vars => SessionInv'
  BY SessionNext, Zenon
<1>3. SessionInv /\ [Next]_vars => [StaleOnlyWhenSilent /\ NoLoginAcrossRevoke /\ SessionMonotone]_vars
  <2>1. SUFFICES ASSUME SessionInv, [Next]_vars
                 PROVE  StaleOnlyWhenSilent /\ NoLoginAcrossRevoke /\ SessionMonotone
    BY Zenon
  <2>2. ASSUME NEW p \in Procs, req[p].pc = "login_write" PROVE cred.version = req[p].snap.version
    <3>1. Relies(p, req[p]) /\ req[p].pc \in HoldingPcs
      BY <2>1, <2>2 DEF SessionInv, HoldingPcs
    <3> QED
      BY <3>1, Zenon DEF Relies
  <2>3. NoLoginAcrossRevoke
    BY <2>2, Zenon DEF NoLoginAcrossRevoke
  <2> QED
    BY <2>1, <2>3, SilentWhenReplaced, MonotoneStep, Zenon
<1> QED
  BY <1>1, <1>2, <1>3, PTL DEF Spec

-----------------------------------------------------------------------------
(* The refresh-token family.                                               *)

CONSTANTS MaxRotation
VARIABLES token, family, session, tokenLock, share, owner, sessLock, exchange

O == INSTANCE OAuthTokens WITH req <- exchange

Rotating == {"insert", "touch_session", "rotate_commit"}
Compromising == {"revoke_tokens", "compromise_commit"}

\* What a request relies on until it ends: a rotation on the token it locked
\* while it was fresh, a compromise on having reached every usable token.
ExchangeRelies(p) ==
    /\ exchange[p].pc \in Rotating \cup {"lock_token"} => token[exchange[p].t].exists /\ exchange[p].t < MaxRotation
    /\ exchange[p].pc \in Rotating =>
         tokenLock[exchange[p].t] = p /\ ~token[exchange[p].t].consumed /\ ~token[exchange[p].t].revoked
    /\ p \in share <=> exchange[p].pc \in {"touch_session", "rotate_commit"}
    /\ owner = p <=> exchange[p].pc \in Compromising
    /\ exchange[p].pc \in Compromising =>
         \A u \in O!Pairs : token[u].exists /\ ~token[u].revoked => tokenLock[u] = p \/ u \in exchange[p].todo
    /\ exchange[p].pc = "compromise_commit" => exchange[p].todo = {}

RequestTypes ==
    DOMAIN exchange = Procs /\ \A p \in Procs : DOMAIN exchange[p] = {"pc", "t", "todo"} /\ exchange[p].t \in O!Pairs

\* Inserting a pair and locking the family exclude each other.
FamilyInv ==
    /\ O!TypeOK /\ RequestTypes
    /\ owner # None => share = {}
    /\ \A t \in O!Pairs : token[t].consumed => token[t].exists
    /\ O!LineageIsAChain /\ O!CompromiseIsComplete
    /\ \A p \in Procs : ExchangeRelies(p)

\* p goes on as r, and the others stay.
Steps(p, r) ==
    DOMAIN exchange' = Procs /\ exchange'[p] = r /\ \A q \in Procs \ {p} : exchange'[q] = exchange[q]

\* A request that is not stepped on still relies on what it did.
LEMMA ReliesKept ==
    ASSUME NEW q \in Procs, ExchangeRelies(q), exchange'[q] = exchange[q],
           \A u \in O!Pairs : tokenLock[u] = q => tokenLock'[u] = q,
           exchange[q].t \in O!Pairs,
           exchange[q].pc \in Rotating \cup {"lock_token"} => token'[exchange[q].t].exists,
           exchange[q].pc \in Rotating => token'[exchange[q].t] = token[exchange[q].t],
           q \in share' <=> q \in share, owner' = q <=> owner = q,
           owner = q => \A u \in O!Pairs : token'[u].exists /\ ~token'[u].revoked => token[u].exists /\ ~token[u].revoked
    PROVE  ExchangeRelies(q)'
BY Zenon DEF ExchangeRelies

\* A step sets the request that takes it and no other.
LEMMA StepsTo ==
    ASSUME NEW p \in Procs, NEW r, DOMAIN exchange = Procs, O!To(p, r)
    PROVE  Steps(p, r)
BY DEF O!To, Steps

\* The fields of a request after a step that keeps its token.
LEMMA NewFields ==
    ASSUME NEW r, DOMAIN r = {"pc", "t", "todo"}, NEW c, NEW d
    PROVE  /\ LET s == [r EXCEPT !.pc = c] IN
              DOMAIN s = {"pc", "t", "todo"} /\ s.pc = c /\ s.t = r.t /\ s.todo = r.todo
           /\ LET s == [r EXCEPT !.todo = d] IN
              DOMAIN s = {"pc", "t", "todo"} /\ s.pc = r.pc /\ s.t = r.t /\ s.todo = d
           /\ LET s == [r EXCEPT !.pc = c, !.todo = d] IN
              DOMAIN s = {"pc", "t", "todo"} /\ s.pc = c /\ s.t = r.t /\ s.todo = d
OBVIOUS

\* The requests keep their shape.
LEMMA RequestsKept ==
    ASSUME NEW p \in Procs, NEW r, Steps(p, r), RequestTypes,
           DOMAIN r = {"pc", "t", "todo"}, r.t \in O!Pairs
    PROVE  RequestTypes'
BY Zenon DEF Steps, RequestTypes

\* The committed part of the invariant.
TokenRows ==
    /\ token \in [O!Pairs -> O!AuthToken]
    /\ family \in {"active", "compromised"} /\ session \in {"active", "revoked"}
    /\ \A t \in O!Pairs : token[t].consumed => token[t].exists
    /\ O!LineageIsAChain /\ O!CompromiseIsComplete

\* The locks.
TokenLocks ==
    /\ tokenLock \in [O!Pairs -> Procs \cup {None}]
    /\ share \subseteq Procs /\ owner \in Procs \cup {None}
    /\ owner # None => share = {}

\* The invariant is its parts.
LEMMA InvParts == FamilyInv <=> TokenRows /\ TokenLocks /\ RequestTypes /\ \A p \in Procs : ExchangeRelies(p)
BY Zenon DEF FamilyInv, O!TypeOK, TokenRows, TokenLocks

\* Rows that no step writes keep their part.
LEMMA RowsKept == TokenRows /\ UNCHANGED O!Committed => TokenRows'
<1> SUFFICES ASSUME TokenRows, UNCHANGED O!Committed PROVE TokenRows'
  OBVIOUS
<1>1. token' = token /\ family' = family /\ session' = session
  BY DEF O!Committed
<1> QED
  BY <1>1, Zenon DEF TokenRows, O!LineageIsAChain, O!CompromiseIsComplete

\* What a step that writes no row owes: its own request, its locks, and that
\* it takes no lock or share from another request.
LEMMA LockStep ==
    ASSUME FamilyInv, NEW p \in Procs, NEW r, Steps(p, r),
           DOMAIN r = {"pc", "t", "todo"}, r.t \in O!Pairs,
           UNCHANGED O!Committed, TokenLocks', ExchangeRelies(p)',
           \A q \in Procs \ {p} : /\ \A u \in O!Pairs : tokenLock[u] = q => tokenLock'[u] = q
                                  /\ q \in share' <=> q \in share
                                  /\ owner' = q <=> owner = q
    PROVE  FamilyInv'
<1>1. TokenRows' /\ RequestTypes'
  BY InvParts, RowsKept, RequestsKept, Zenon
<1>2. token' = token
  BY DEF O!Committed
<1>3. ASSUME NEW q \in Procs, q # p PROVE ExchangeRelies(q)'
  <2>1. exchange'[q] = exchange[q] /\ ExchangeRelies(q) /\ exchange[q].t \in O!Pairs
    BY <1>3, InvParts, Zenon DEF Steps, RequestTypes
  <2>2. exchange[q].pc \in Rotating \cup {"lock_token"} => token'[exchange[q].t].exists
    BY <2>1, <1>2, Zenon DEF ExchangeRelies
  <2> QED
    BY <2>1, <2>2, <1>2, <1>3, ReliesKept, Zenon
<1> QED
  BY <1>1, <1>3, Zenon DEF FamilyInv, O!TypeOK, TokenRows, TokenLocks

-----------------------------------------------------------------------------
(* The steps that only take locks.                                         *)

\* resolve_refresh_token's snapshot.
LEMMA ResolveKeeps ==
    ASSUME FamilyInv, None \notin Procs, NEW p \in Procs, NEW t \in O!Pairs, O!Resolve(p, t)
    PROVE  FamilyInv'
<1>1. UNCHANGED O!Committed /\ tokenLock' = tokenLock /\ share' = share /\ owner' = owner
  BY DEF O!Resolve, O!FamilyLocks
<1>2. token' = token /\ TokenLocks' /\ DOMAIN exchange = Procs /\ ExchangeRelies(p)
  BY <1>1, InvParts, Zenon DEF TokenLocks, O!Committed, RequestTypes
<1>3. PICK r : /\ O!To(p, r) /\ DOMAIN r = {"pc", "t", "todo"} /\ r.t = t
               /\ r.pc = "lock_token" \/ r.pc = "refused"
  <2>1. \A c : LET s == [O!Idle EXCEPT !.pc = c, !.t = t] IN
                  DOMAIN s = {"pc", "t", "todo"} /\ s.t = t /\ s.pc = c
    BY DEF O!Idle
  <2> QED
    BY <2>1, Zenon DEF O!Resolve
<1>4. Steps(p, r)
  BY <1>2, <1>3, StepsTo, Zenon
<1>5. exchange[p].pc \notin Compromising /\ exchange[p].pc \notin {"touch_session", "rotate_commit"}
  BY DEF O!Resolve, O!Ended, Compromising
<1>6. ExchangeRelies(p)'
  <2>1. r.pc \notin Rotating /\ r.pc \notin Compromising /\ r.pc # "compromise_commit"
        /\ r.pc \notin {"touch_session", "rotate_commit"}
    BY <1>3 DEF Rotating, Compromising
  <2>2. token[t].exists /\ t < MaxRotation
    BY DEF O!Resolve
  <2> QED
    BY <2>1, <2>2, <1>1, <1>2, <1>3, <1>4, <1>5, Zenon DEF ExchangeRelies, Steps
<1> QED
  BY <1>1, <1>2, <1>3, <1>4, <1>6, LockStep, Zenon

\* FOR UPDATE OF auth_token.
LEMMA LockTokenKeeps ==
    ASSUME FamilyInv, None \notin Procs, NEW p \in Procs, O!LockToken(p)
    PROVE  FamilyInv'
<1>1. UNCHANGED O!Committed /\ share' = share /\ owner' = owner
  BY DEF O!LockToken, O!FamilyLocks
<1>2. /\ token' = token /\ RequestTypes /\ DOMAIN exchange = Procs /\ ExchangeRelies(p) /\ TokenLocks
      /\ DOMAIN exchange[p] = {"pc", "t", "todo"} /\ exchange[p].t \in O!Pairs
  BY <1>1, InvParts, Zenon DEF O!Committed, RequestTypes
<1>3. PICK r, c : /\ O!To(p, r) /\ r = [exchange[p] EXCEPT !.pc = c]
                  /\ \/ c = "refused" /\ tokenLock' = tokenLock
                     \/ /\ c \in {"lock_family", "insert"} /\ ~token[exchange[p].t].revoked
                        /\ c = "insert" => ~token[exchange[p].t].consumed
                        /\ tokenLock' = [tokenLock EXCEPT ![exchange[p].t] = p]
  BY DEF O!LockToken
<1>4. Steps(p, r) /\ r.pc = c /\ r.t = exchange[p].t /\ DOMAIN r = {"pc", "t", "todo"}
  BY <1>2, <1>3, StepsTo, NewFields, Zenon
<1>5. /\ tokenLock' \in [O!Pairs -> Procs \cup {None}]
      /\ \A u \in O!Pairs : tokenLock[u] \in Procs => tokenLock'[u] = tokenLock[u]
      /\ c = "insert" => tokenLock'[exchange[p].t] = p
  <2>1. tokenLock[exchange[p].t] = None /\ tokenLock \in [O!Pairs -> Procs \cup {None}]
    BY <1>2 DEF O!LockToken, TokenLocks
  <2> QED
    BY <2>1, <1>2, <1>3
<1>6. TokenLocks'
  BY <1>1, <1>2, <1>5, Zenon DEF TokenLocks
<1>7. ExchangeRelies(p)'
  <2>1. exchange[p].pc = "lock_token"
    BY DEF O!LockToken
  <2>2. p \notin share /\ owner # p /\ token[exchange[p].t].exists /\ exchange[p].t < MaxRotation
    BY <2>1, <1>2 DEF ExchangeRelies, Compromising
  <2>3. /\ c \notin Compromising /\ c # "compromise_commit" /\ c \notin {"touch_session", "rotate_commit"}
        /\ c \in Rotating => c = "insert"
        /\ c = "insert" => ~token[exchange[p].t].consumed /\ ~token[exchange[p].t].revoked
    BY <1>3 DEF Rotating, Compromising
  <2> QED
    BY <2>2, <2>3, <1>1, <1>2, <1>4, <1>5, Zenon DEF ExchangeRelies, Steps
<1> QED
  BY <1>1, <1>2, <1>4, <1>5, <1>6, <1>7, LockStep, Zenon

\* The insert of the successor pair shares the family.
LEMMA RotateInsertKeeps ==
    ASSUME FamilyInv, None \notin Procs, NEW p \in Procs, O!RotateInsert(p)
    PROVE  FamilyInv'
<1>1. /\ UNCHANGED O!Committed /\ tokenLock' = tokenLock /\ owner' = owner /\ owner = None
      /\ share' = share \cup {p} /\ exchange[p].pc = "insert"
  BY DEF O!RotateInsert
<1>2. /\ token' = token /\ RequestTypes /\ DOMAIN exchange = Procs /\ ExchangeRelies(p) /\ TokenLocks
      /\ DOMAIN exchange[p] = {"pc", "t", "todo"} /\ exchange[p].t \in O!Pairs
  BY <1>1, InvParts, Zenon DEF O!Committed, RequestTypes
<1>3. PICK r : O!To(p, r) /\ r = [exchange[p] EXCEPT !.pc = "touch_session"]
  BY DEF O!RotateInsert
<1>4. Steps(p, r) /\ r.pc = "touch_session" /\ r.t = exchange[p].t /\ DOMAIN r = {"pc", "t", "todo"}
  BY <1>2, <1>3, StepsTo, NewFields, Zenon
<1>5. TokenLocks'
  BY <1>1, <1>2, Zenon DEF TokenLocks
<1>6. ExchangeRelies(p)'
  <2>1. /\ "insert" \in Rotating /\ "touch_session" \in Rotating
        /\ "touch_session" \notin Compromising /\ "touch_session" # "compromise_commit"
    BY DEF Rotating, Compromising
  <2> QED
    BY <2>1, <1>1, <1>2, <1>4, Zenon DEF ExchangeRelies, Steps
<1>7. ASSUME NEW q \in Procs \ {p} PROVE q \in share' <=> q \in share
  BY <1>1, Zenon
<1> QED
  BY <1>1, <1>2, <1>4, <1>5, <1>6, <1>7, LockStep, Zenon

\* The session row.
LEMMA TouchSessionKeeps ==
    ASSUME FamilyInv, None \notin Procs, NEW p \in Procs, O!TouchSession(p)
    PROVE  FamilyInv'
<1>1. /\ UNCHANGED O!Committed /\ tokenLock' = tokenLock /\ owner' = owner /\ share' = share
      /\ exchange[p].pc = "touch_session"
  BY DEF O!TouchSession, O!FamilyLocks
<1>2. /\ token' = token /\ RequestTypes /\ DOMAIN exchange = Procs /\ ExchangeRelies(p) /\ TokenLocks
      /\ DOMAIN exchange[p] = {"pc", "t", "todo"} /\ exchange[p].t \in O!Pairs
  BY <1>1, InvParts, Zenon DEF O!Committed, RequestTypes
<1>3. PICK r : O!To(p, r) /\ r = [exchange[p] EXCEPT !.pc = "rotate_commit"]
  BY DEF O!TouchSession
<1>4. Steps(p, r) /\ r.pc = "rotate_commit" /\ r.t = exchange[p].t /\ DOMAIN r = {"pc", "t", "todo"}
  BY <1>2, <1>3, StepsTo, NewFields, Zenon
<1>5. TokenLocks'
  BY <1>1, <1>2, Zenon DEF TokenLocks
<1>6. ExchangeRelies(p)'
  <2>1. /\ "rotate_commit" \in Rotating /\ "touch_session" \in Rotating
        /\ "rotate_commit" \notin Compromising /\ "touch_session" \notin Compromising
        /\ "rotate_commit" # "compromise_commit"
    BY DEF Rotating, Compromising
  <2> QED
    BY <2>1, <1>1, <1>2, <1>4, Zenon DEF ExchangeRelies, Steps
<1> QED
  BY <1>1, <1>2, <1>4, <1>5, <1>6, LockStep, Zenon

\* The family FOR UPDATE: nobody shares it any more, and the statement's
\* snapshot names every usable token.
LEMMA LockFamilyKeeps ==
    ASSUME FamilyInv, None \notin Procs, NEW p \in Procs, O!LockFamily(p)
    PROVE  FamilyInv'
<1> DEFINE usable == {t \in O!Pairs : token[t].exists /\ ~token[t].revoked}
<1>1. /\ UNCHANGED O!Committed /\ tokenLock' = tokenLock /\ share' = share /\ owner' = p
      /\ owner = None /\ share \subseteq {p} /\ exchange[p].pc = "lock_family"
  BY DEF O!LockFamily
<1>2. /\ token' = token /\ RequestTypes /\ DOMAIN exchange = Procs /\ ExchangeRelies(p) /\ TokenLocks
      /\ DOMAIN exchange[p] = {"pc", "t", "todo"} /\ exchange[p].t \in O!Pairs
  BY <1>1, InvParts, Zenon DEF O!Committed, RequestTypes
<1>3. PICK r, d : O!To(p, r) /\ r = [exchange[p] EXCEPT !.pc = "revoke_tokens", !.todo = d] /\ d = usable
  BY Zenon DEF O!LockFamily
<1>4. /\ Steps(p, r) /\ r.pc = "revoke_tokens" /\ r.t = exchange[p].t /\ r.todo = d
      /\ DOMAIN r = {"pc", "t", "todo"}
  BY <1>2, <1>3, StepsTo, NewFields, Zenon
<1>5. p \notin share /\ share = {}
  BY <1>1, <1>2 DEF ExchangeRelies
<1>6. TokenLocks'
  BY <1>1, <1>2, <1>5, Zenon DEF TokenLocks
<1>7. ExchangeRelies(p)'
  <2>1. /\ "revoke_tokens" \in Compromising /\ "revoke_tokens" \notin Rotating \cup {"lock_token"}
        /\ "revoke_tokens" # "compromise_commit" /\ "revoke_tokens" \notin Rotating
        /\ "revoke_tokens" \notin {"touch_session", "rotate_commit"}
    BY DEF Rotating, Compromising
  <2>2. \A u \in O!Pairs : token[u].exists /\ ~token[u].revoked => u \in d
    BY <1>3, Zenon
  <2> QED
    BY <2>1, <2>2, <1>1, <1>2, <1>4, <1>5, Zenon DEF ExchangeRelies, Steps
<1>8. ASSUME NEW q \in Procs \ {p} PROVE owner' = q <=> owner = q
  BY <1>1, Zenon
<1> HIDE DEF usable
<1> QED
  BY <1>1, <1>2, <1>4, <1>6, <1>7, <1>8, LockStep, Zenon

\* One row of the UPDATE.
LEMMA RevokeTokenKeeps ==
    ASSUME FamilyInv, None \notin Procs, NEW p \in Procs, O!RevokeToken(p)
    PROVE  FamilyInv'
<1>1. /\ UNCHANGED O!Committed /\ share' = share /\ owner' = owner /\ exchange[p].pc = "revoke_tokens"
  BY DEF O!RevokeToken, O!FamilyLocks
<1>2. /\ token' = token /\ RequestTypes /\ DOMAIN exchange = Procs /\ ExchangeRelies(p) /\ TokenLocks
      /\ DOMAIN exchange[p] = {"pc", "t", "todo"} /\ exchange[p].t \in O!Pairs
  BY <1>1, InvParts, Zenon DEF O!Committed, RequestTypes
<1>3. PICK t \in exchange[p].todo : /\ tokenLock[t] \in {None, p}
                                    /\ tokenLock' = [tokenLock EXCEPT ![t] = p]
                                    /\ O!To(p, [exchange[p] EXCEPT !.todo = exchange[p].todo \ {t}])
  BY <1>2, Zenon DEF O!RevokeToken
<1>4. PICK r, d : O!To(p, r) /\ r = [exchange[p] EXCEPT !.todo = d] /\ d = exchange[p].todo \ {t}
  BY <1>3, Zenon
<1>5. /\ Steps(p, r) /\ r.pc = "revoke_tokens" /\ r.t = exchange[p].t /\ r.todo = d
      /\ DOMAIN r = {"pc", "t", "todo"}
  BY <1>1, <1>2, <1>4, StepsTo, NewFields, Zenon
<1>6. /\ tokenLock' \in [O!Pairs -> Procs \cup {None}]
      /\ \A q \in Procs : \A u \in O!Pairs : tokenLock[u] = q => tokenLock'[u] = q
      /\ t \in O!Pairs => tokenLock'[t] = p
  <2>1. tokenLock \in [O!Pairs -> Procs \cup {None}]
    BY <1>2 DEF TokenLocks
  <2> QED
    BY <2>1, <1>3, Zenon
<1>7. TokenLocks'
  BY <1>1, <1>2, <1>6, Zenon DEF TokenLocks
<1>8. ExchangeRelies(p)'
  <2>1. /\ "revoke_tokens" \in Compromising /\ "revoke_tokens" \notin Rotating \cup {"lock_token"}
        /\ "revoke_tokens" # "compromise_commit" /\ "revoke_tokens" \notin Rotating
        /\ "revoke_tokens" \notin {"touch_session", "rotate_commit"}
    BY DEF Rotating, Compromising
  <2>2. ASSUME NEW u \in O!Pairs, token[u].exists /\ ~token[u].revoked
        PROVE  tokenLock'[u] = p \/ u \in d
    <3>1. tokenLock[u] = p \/ u \in exchange[p].todo
      BY <2>1, <2>2, <1>1, <1>2, Zenon DEF ExchangeRelies
    <3> QED
      BY <3>1, <1>4, <1>6, Zenon
  <2> QED
    BY <2>1, <2>2, <1>1, <1>2, <1>5, Zenon DEF ExchangeRelies, Steps
<1> QED
  BY <1>1, <1>2, <1>5, <1>6, <1>7, <1>8, LockStep, Zenon

\* The session's row, once every token was reached.
LEMMA RevokeSessionKeeps ==
    ASSUME FamilyInv, None \notin Procs, NEW p \in Procs, O!RevokeSession(p)
    PROVE  FamilyInv'
<1>1. /\ UNCHANGED O!Committed /\ tokenLock' = tokenLock /\ owner' = owner /\ share' = share
      /\ exchange[p].pc = "revoke_tokens" /\ exchange[p].todo = {}
  BY DEF O!RevokeSession, O!FamilyLocks
<1>2. /\ token' = token /\ RequestTypes /\ DOMAIN exchange = Procs /\ ExchangeRelies(p) /\ TokenLocks
      /\ DOMAIN exchange[p] = {"pc", "t", "todo"} /\ exchange[p].t \in O!Pairs
  BY <1>1, InvParts, Zenon DEF O!Committed, RequestTypes
<1>3. PICK r : O!To(p, r) /\ r = [exchange[p] EXCEPT !.pc = "compromise_commit"]
  BY DEF O!RevokeSession
<1>4. /\ Steps(p, r) /\ r.pc = "compromise_commit" /\ r.t = exchange[p].t /\ r.todo = exchange[p].todo
      /\ DOMAIN r = {"pc", "t", "todo"}
  BY <1>2, <1>3, StepsTo, NewFields, Zenon
<1>5. TokenLocks'
  BY <1>1, <1>2, Zenon DEF TokenLocks
<1>6. ExchangeRelies(p)'
  <2>1. /\ "revoke_tokens" \in Compromising /\ "compromise_commit" \in Compromising
        /\ "compromise_commit" \notin Rotating \cup {"lock_token"} /\ "compromise_commit" \notin Rotating
        /\ "compromise_commit" \notin {"touch_session", "rotate_commit"}
        /\ "revoke_tokens" \notin {"touch_session", "rotate_commit"}
    BY DEF Rotating, Compromising
  <2> QED
    BY <2>1, <1>1, <1>2, <1>4, Zenon DEF ExchangeRelies, Steps
<1> QED
  BY <1>1, <1>2, <1>4, <1>5, <1>6, LockStep, Zenon

-----------------------------------------------------------------------------
(* The ends of a transaction.                                              *)

\* What the end of a transaction frees: its own locks, and no other.
LEMMA EndTxFrees ==
    ASSUME FamilyInv, None \notin Procs, NEW p \in Procs, NEW c \in O!Ended, O!EndTx(p, c)
    PROVE  /\ TokenLocks' /\ ExchangeRelies(p)'
           /\ \E r : /\ Steps(p, r) /\ DOMAIN r = {"pc", "t", "todo"} /\ r.t = exchange[p].t
           /\ \A q \in Procs \ {p} : /\ \A u \in O!Pairs : tokenLock[u] = q => tokenLock'[u] = q
                                     /\ q \in share' <=> q \in share
                                     /\ owner' = q <=> owner = q
<1>1. /\ RequestTypes /\ DOMAIN exchange = Procs /\ TokenLocks
      /\ DOMAIN exchange[p] = {"pc", "t", "todo"} /\ exchange[p].t \in O!Pairs
  BY InvParts, Zenon DEF RequestTypes
<1>2. PICK r, d : O!To(p, r) /\ r = [exchange[p] EXCEPT !.pc = c, !.todo = d]
  BY Zenon DEF O!EndTx
<1>3. Steps(p, r) /\ r.pc = c /\ r.t = exchange[p].t /\ DOMAIN r = {"pc", "t", "todo"}
  BY <1>1, <1>2, StepsTo, NewFields, Zenon
<1>4. /\ share' = share \ {p} /\ owner' = IF owner = p THEN None ELSE owner
      /\ tokenLock' = [t \in O!Pairs |-> IF tokenLock[t] = p THEN None ELSE tokenLock[t]]
  BY DEF O!EndTx
<1>5. /\ p \notin share' /\ owner' # p /\ share' \subseteq share /\ owner' \in {None, owner}
      /\ owner' \in Procs \cup {None} /\ share' \subseteq Procs
      /\ \A q \in Procs \ {p} : (q \in share' <=> q \in share) /\ (owner' = q <=> owner = q)
  BY <1>1, <1>4 DEF TokenLocks
<1>6. /\ tokenLock' \in [O!Pairs -> Procs \cup {None}]
      /\ \A q \in Procs \ {p} : \A u \in O!Pairs : tokenLock[u] = q => tokenLock'[u] = q
  BY <1>1, <1>4 DEF TokenLocks
<1>7. TokenLocks'
  <2>1. owner' # None => share' = {}
    BY <1>1, <1>5 DEF TokenLocks
  <2> QED
    BY <2>1, <1>5, <1>6, Zenon DEF TokenLocks
<1>8. ExchangeRelies(p)'
  <2>1. /\ c \notin Rotating \cup {"lock_token"} /\ c \notin Rotating /\ c \notin Compromising
        /\ c # "compromise_commit" /\ c \notin {"touch_session", "rotate_commit"}
    BY DEF O!Ended, Rotating, Compromising
  <2> QED
    BY <2>1, <1>3, <1>5, Zenon DEF ExchangeRelies, Steps
<1> QED
  BY <1>3, <1>5, <1>6, <1>7, <1>8, Zenon

\* The victim of the deadlock detector.
LEMMA AbortVictimKeeps ==
    ASSUME FamilyInv, None \notin Procs, NEW p \in Procs, O!AbortVictim(p)
    PROVE  FamilyInv'
<1>1. UNCHANGED O!Committed /\ O!EndTx(p, "aborted") /\ "aborted" \in O!Ended
  BY DEF O!AbortVictim, O!Ended
<1>2. exchange[p].t \in O!Pairs
  BY InvParts, Zenon DEF RequestTypes
<1>3. PICK r : Steps(p, r) /\ DOMAIN r = {"pc", "t", "todo"} /\ r.t = exchange[p].t
  BY <1>1, EndTxFrees, Zenon
<1>4. /\ TokenLocks' /\ ExchangeRelies(p)'
      /\ \A q \in Procs \ {p} : /\ \A u \in O!Pairs : tokenLock[u] = q => tokenLock'[u] = q
                                /\ q \in share' <=> q \in share
                                /\ owner' = q <=> owner = q
  BY <1>1, EndTxFrees, Zenon
<1> QED
  BY <1>1, <1>2, <1>3, <1>4, LockStep, Zenon

\* What a transaction that writes the token rows owes besides: rows that are
\* sound again, and the tokens the others rely on.
LEMMA CommitStep ==
    ASSUME FamilyInv, None \notin Procs, NEW p \in Procs, NEW c \in O!Ended, O!EndTx(p, c), TokenRows',
           \A q \in Procs \ {p} :
             /\ exchange[q].pc \in Rotating \cup {"lock_token"} => token'[exchange[q].t].exists
             /\ exchange[q].pc \in Rotating => token'[exchange[q].t] = token[exchange[q].t]
             /\ owner = q => \A u \in O!Pairs : token'[u].exists /\ ~token'[u].revoked => token[u].exists /\ ~token[u].revoked
    PROVE  FamilyInv'
<1>1. exchange[p].t \in O!Pairs /\ RequestTypes
  BY InvParts, Zenon DEF RequestTypes
<1>2. PICK r : Steps(p, r) /\ DOMAIN r = {"pc", "t", "todo"} /\ r.t = exchange[p].t
  BY EndTxFrees, Zenon
<1>3. /\ TokenLocks' /\ ExchangeRelies(p)'
      /\ \A q \in Procs \ {p} : /\ \A u \in O!Pairs : tokenLock[u] = q => tokenLock'[u] = q
                                /\ q \in share' <=> q \in share
                                /\ owner' = q <=> owner = q
  BY EndTxFrees, Zenon
<1>4. RequestTypes'
  BY <1>1, <1>2, RequestsKept, Zenon
<1>5. ASSUME NEW q \in Procs, q # p PROVE ExchangeRelies(q)'
  <2>1. exchange'[q] = exchange[q] /\ ExchangeRelies(q) /\ exchange[q].t \in O!Pairs
    BY <1>1, <1>2, <1>5, InvParts, Zenon DEF Steps, RequestTypes
  <2> QED
    BY <2>1, <1>3, <1>5, ReliesKept, Zenon
<1> QED
  BY <1>3, <1>4, <1>5, Zenon DEF FamilyInv, O!TypeOK, TokenRows, TokenLocks

\* The commit of a rotation: the family still is active, because a compromise
\* would have had to pass the row lock of the token that is consumed.
LEMMA RotateCommitKeeps ==
    ASSUME FamilyInv, None \notin Procs, MaxRotation \in Nat, NEW p \in Procs, O!RotateCommit(p)
    PROVE  FamilyInv'
<1> DEFINE t == exchange[p].t
           fresh == [exists |-> TRUE, consumed |-> FALSE, revoked |-> FALSE]
<1>1. /\ exchange[p].pc = "rotate_commit" /\ token' = O!Rotated(t) /\ O!EndTx(p, "rotated")
      /\ family' = family /\ session' = session /\ "rotated" \in O!Ended
  BY DEF O!RotateCommit, O!Ended
<1>2. TokenRows /\ TokenLocks /\ RequestTypes /\ ExchangeRelies(p) /\ t \in O!Pairs
  BY InvParts, Zenon DEF RequestTypes
<1>3. /\ "rotate_commit" \in Rotating /\ "rotate_commit" \in Rotating \cup {"lock_token"}
      /\ "rotate_commit" \in {"touch_session", "rotate_commit"}
  BY DEF Rotating
<1>4. /\ token[t].exists /\ ~token[t].consumed /\ ~token[t].revoked /\ t < MaxRotation
      /\ tokenLock[t] = p /\ p \in share
  BY <1>1, <1>2, <1>3, Zenon DEF ExchangeRelies
<1>5. /\ token \in [O!Pairs -> O!AuthToken] /\ t \in Int /\ t + 1 \in O!Pairs /\ t # t + 1
      /\ \A u \in O!Pairs : u \in Int
  BY <1>2, <1>4 DEF TokenRows, O!Pairs
<1>6. ~token[t + 1].exists /\ ~token[t + 1].consumed
  BY <1>2, <1>4, <1>5, Zenon DEF TokenRows, O!LineageIsAChain
<1>7. /\ token' \in [O!Pairs -> O!AuthToken]
      /\ token'[t + 1] = fresh
      /\ token'[t].exists = token[t].exists /\ token'[t].consumed = TRUE /\ token'[t].revoked = token[t].revoked
      /\ \A u \in O!Pairs \ {t, t + 1} : token'[u] = token[u]
  BY <1>1, <1>2, <1>5, Zenon DEF O!Rotated, O!AuthToken
<1>8. fresh.exists = TRUE /\ fresh.consumed = FALSE /\ fresh.revoked = FALSE
  OBVIOUS
<1> HIDE DEF fresh
<1>9. family = "active"
  BY <1>2, <1>4, Zenon DEF TokenRows, O!CompromiseIsComplete
<1>10. owner = None
  BY <1>2, <1>4 DEF TokenLocks
<1>11. \A u \in O!Pairs : token'[u].consumed => token'[u].exists
  <2> SUFFICES ASSUME NEW u \in O!Pairs, token'[u].consumed PROVE token'[u].exists
    OBVIOUS
  <2>1. CASE u = t
    BY <2>1, <1>4, <1>7
  <2>2. CASE u = t + 1
    BY <2>2, <1>7, <1>8
  <2>3. CASE u \notin {t, t + 1}
    BY <2>3, <1>2, <1>7, Zenon DEF TokenRows
  <2> QED
    BY <2>1, <2>2, <2>3
<1>12. O!LineageIsAChain'
  <2> SUFFICES ASSUME NEW u \in O!Pairs, u < MaxRotation
               PROVE  token'[u + 1].exists <=> token'[u].consumed
    BY Zenon DEF O!LineageIsAChain
  <2>1. u + 1 \in O!Pairs /\ (token[u + 1].exists <=> token[u].consumed)
    BY <1>2 DEF TokenRows, O!LineageIsAChain, O!Pairs
  <2>2. CASE u = t
    BY <2>2, <1>7, <1>8
  <2>3. CASE u = t + 1
    <3>1. u + 1 \notin {t, t + 1} /\ token'[u + 1] = token[u + 1]
      BY <2>1, <2>3, <1>5, <1>7
    <3> QED
      BY <3>1, <2>1, <2>3, <1>6, <1>7, <1>8
  <2>4. CASE u \notin {t, t + 1}
    <3>1. token'[u] = token[u]
      BY <2>4, <1>7
    <3>2. u + 1 # t + 1
      BY <2>4, <1>5
    <3>3. token'[u + 1].exists = token[u + 1].exists
      BY <3>2, <2>1, <1>7, Zenon
    <3> QED
      BY <3>1, <3>3, <2>1
  <2> QED
    BY <2>2, <2>3, <2>4
<1>13. TokenRows'
  BY <1>1, <1>2, <1>7, <1>9, <1>11, <1>12 DEF TokenRows, O!CompromiseIsComplete
<1>14. ASSUME NEW q \in Procs \ {p}
       PROVE  /\ exchange[q].pc \in Rotating \cup {"lock_token"} => token'[exchange[q].t].exists
              /\ exchange[q].pc \in Rotating => token'[exchange[q].t] = token[exchange[q].t]
              /\ owner # q
  <2>1. ExchangeRelies(q) /\ exchange[q].t \in O!Pairs
    BY InvParts, Zenon DEF RequestTypes
  <2>2. exchange[q].pc \in Rotating => exchange[q].t # t /\ exchange[q].t # t + 1
    BY <2>1, <1>4, <1>6, Zenon DEF ExchangeRelies
  <2>3. exchange[q].pc \in Rotating \cup {"lock_token"} => exchange[q].t # t + 1 /\ token[exchange[q].t].exists
    BY <2>1, <1>6, Zenon DEF ExchangeRelies
  <2>4. exchange[q].t = t => token'[exchange[q].t].exists
    BY <1>4, <1>7, Zenon
  <2>5. exchange[q].t \notin {t, t + 1} => token'[exchange[q].t] = token[exchange[q].t]
    BY <2>1, <1>7, Zenon
  <2> HIDE DEF t
  <2> QED
    BY <2>2, <2>3, <2>4, <2>5, <1>10, Zenon
<1> QED
  BY <1>1, <1>13, <1>14, CommitStep, Zenon

\* The commit of a compromise: every usable token is locked by it, so every
\* one is revoked, and none of them is a token another request holds.
LEMMA CompromiseCommitKeeps ==
    ASSUME FamilyInv, None \notin Procs, MaxRotation \in Nat, NEW p \in Procs, O!CompromiseCommit(p)
    PROVE  FamilyInv'
<1>1. /\ exchange[p].pc = "compromise_commit" /\ token' = O!RevokedTokens(p) /\ O!EndTx(p, "refused")
      /\ family' = "compromised" /\ session' = "revoked" /\ "refused" \in O!Ended
  BY DEF O!CompromiseCommit, O!Ended
<1>2. TokenRows /\ TokenLocks /\ RequestTypes /\ ExchangeRelies(p)
  BY InvParts, Zenon
<1>3. /\ "compromise_commit" \in Compromising /\ owner = p /\ exchange[p].todo = {}
  BY <1>1, <1>2 DEF ExchangeRelies, Compromising
<1>4. \A u \in O!Pairs : token[u].exists /\ ~token[u].revoked => tokenLock[u] = p
  BY <1>1, <1>2, <1>3 DEF ExchangeRelies
<1>5. token \in [O!Pairs -> O!AuthToken]
  BY <1>2 DEF TokenRows
<1>6. /\ token' \in [O!Pairs -> O!AuthToken]
      /\ \A u \in O!Pairs : /\ token'[u].exists = token[u].exists /\ token'[u].consumed = token[u].consumed
                            /\ tokenLock[u] = p => token'[u].revoked
                            /\ tokenLock[u] # p => token'[u] = token[u]
  BY <1>1, <1>5, Zenon DEF O!RevokedTokens, O!AuthToken
<1>7. O!CompromiseIsComplete'
  <2>1. ASSUME NEW u \in O!Pairs, token'[u].exists PROVE token'[u].revoked
    BY <2>1, <1>4, <1>6, Zenon
  <2> QED
    BY <2>1, <1>1, Zenon DEF O!CompromiseIsComplete
<1>8. O!LineageIsAChain'
  <2> SUFFICES ASSUME NEW u \in O!Pairs, u < MaxRotation
               PROVE  token'[u + 1].exists <=> token'[u].consumed
    BY Zenon DEF O!LineageIsAChain
  <2>1. u + 1 \in O!Pairs
    BY DEF O!Pairs
  <2>2. token[u + 1].exists <=> token[u].consumed
    BY <1>2, Zenon DEF TokenRows, O!LineageIsAChain
  <2> QED
    BY <2>1, <2>2, <1>6, Zenon
<1>9. TokenRows'
  <2>1. \A u \in O!Pairs : token'[u].consumed => token'[u].exists
    BY <1>2, <1>6, Zenon DEF TokenRows
  <2> QED
    BY <2>1, <1>1, <1>6, <1>7, <1>8, Zenon DEF TokenRows
<1>10. ASSUME NEW q \in Procs \ {p}
       PROVE  /\ exchange[q].pc \in Rotating \cup {"lock_token"} => token'[exchange[q].t].exists
              /\ exchange[q].pc \in Rotating => token'[exchange[q].t] = token[exchange[q].t]
              /\ owner # q
  <2>1. ExchangeRelies(q) /\ exchange[q].t \in O!Pairs
    BY InvParts, Zenon DEF RequestTypes
  <2> QED
    BY <2>1, <1>3, <1>6, Zenon DEF ExchangeRelies
<1> QED
  BY <1>1, <1>9, <1>10, CommitStep, Zenon

\* For every number of concurrent refresh requests and of rotations: the
\* refresh tokens of a session form one chain, and once a replay compromised
\* the family no token of the session is usable (exchange_refresh).
THEOREM TokenFamilySound ==
    ASSUME O!RotationAssumption, None \notin Procs
    PROVE  O!Spec => [](O!TypeOK /\ O!LineageIsAChain /\ O!CompromiseIsComplete)
<1>1. O!Init => FamilyInv
  <2> SUFFICES ASSUME O!Init PROVE FamilyInv
    OBVIOUS
  <2>1. 0 \in O!Pairs /\ \A t \in O!Pairs : t \in Int /\ (t < MaxRotation => t + 1 \in O!Pairs /\ t + 1 # 0)
    BY DEF O!RotationAssumption, O!Pairs
  <2>2. /\ token \in [O!Pairs -> O!AuthToken] /\ \A t \in O!Pairs : ~token[t].consumed
        /\ \A t \in O!Pairs : token[t].exists <=> t = 0
    BY Zenon DEF O!Init, O!AuthToken
  <2>3. family = "active" /\ session = "active" /\ share = {} /\ owner = None
        /\ tokenLock \in [O!Pairs -> Procs \cup {None}]
    BY DEF O!Init
  <2>4. DOMAIN exchange = Procs /\ \A p \in Procs : exchange[p] = O!Idle
    BY DEF O!Init
  <2>5. DOMAIN O!Idle = {"pc", "t", "todo"} /\ O!Idle.t = 0 /\ O!Idle.pc = "idle"
    BY DEF O!Idle
  <2>6. TokenRows
    BY <2>1, <2>2, <2>3 DEF TokenRows, O!LineageIsAChain, O!CompromiseIsComplete
  <2>7. /\ "idle" \notin Rotating \cup {"lock_token"} /\ "idle" \notin Rotating /\ "idle" \notin Compromising
        /\ "idle" # "compromise_commit" /\ "idle" \notin {"touch_session", "rotate_commit"}
    BY DEF Rotating, Compromising
  <2>8. ASSUME NEW p \in Procs PROVE ExchangeRelies(p)
    BY <2>3, <2>4, <2>5, <2>7, Zenon DEF ExchangeRelies
  <2>9. TokenLocks
    BY <2>3 DEF TokenLocks
  <2>10. RequestTypes
    BY <2>1, <2>4, <2>5, Zenon DEF RequestTypes
  <2> QED
    BY <2>6, <2>8, <2>9, <2>10, InvParts, Zenon
<1>2. FamilyInv /\ [O!Next]_(O!vars) => FamilyInv'
  <2> SUFFICES ASSUME FamilyInv, [O!Next]_(O!vars) PROVE FamilyInv'
    OBVIOUS
  <2>1. CASE UNCHANGED O!vars
    <3>1. /\ token' = token /\ family' = family /\ session' = session /\ tokenLock' = tokenLock
          /\ share' = share /\ owner' = owner /\ exchange' = exchange
      BY <2>1 DEF O!vars
    <3> QED
      BY <3>1, Zenon DEF FamilyInv, O!TypeOK, RequestTypes, O!LineageIsAChain, O!CompromiseIsComplete, ExchangeRelies
  <2>2. CASE O!Next
    <3>1. PICK p \in Procs :
            \/ \E t \in O!Pairs : O!Resolve(p, t)
            \/ O!LockToken(p) \/ O!RotateInsert(p) \/ O!TouchSession(p) \/ O!RotateCommit(p)
            \/ O!LockFamily(p) \/ O!RevokeToken(p) \/ O!RevokeSession(p) \/ O!CompromiseCommit(p)
            \/ O!AbortVictim(p)
      BY <2>2, Zenon DEF O!Next
    <3>2. CASE O!RotateCommit(p)
      BY <3>2, RotateCommitKeeps DEF O!RotationAssumption
    <3>3. CASE O!CompromiseCommit(p)
      BY <3>3, CompromiseCommitKeeps DEF O!RotationAssumption
    <3> QED
      BY <3>1, <3>2, <3>3, ResolveKeeps, LockTokenKeeps, RotateInsertKeeps, TouchSessionKeeps, LockFamilyKeeps,
         RevokeTokenKeeps, RevokeSessionKeeps, AbortVictimKeeps, Zenon
  <2> QED
    BY <2>1, <2>2, Zenon
<1>3. FamilyInv => O!TypeOK /\ O!LineageIsAChain /\ O!CompromiseIsComplete
  BY Zenon DEF FamilyInv
<1> QED
  BY <1>1, <1>2, <1>3, PTL DEF O!Spec

-----------------------------------------------------------------------------
(* One key of the query cache.                                             *)

CONSTANTS Readers, Writers, MaxTasks
VARIABLES fact, entry, tasks, slot, rd, wr, unclean

Q == INSTANCE QueryCache WITH cache <- entry

Versions == [1..2 -> Nat]
LoaderTask == [pc : {"first", "second", "store", "done"}, val : Versions, overtaken : BOOLEAN]

\* A load that no commit overtook read what is committed.
ReadCommitted(t) ==
    ~tasks[t].overtaken =>
      /\ tasks[t].pc \in {"second", "store"} => tasks[t].val[1] = fact[1]
      /\ tasks[t].pc = "store" => tasks[t].val[2] = fact[2]

\* A reader that woke up waits for no task that still runs.
Awaits(r) ==
    /\ rd[r].pc \in {"wait", "pop"} => rd[r].task \in DOMAIN tasks
    /\ rd[r].pc = "pop" => tasks[rd[r].task].pc = "done"

\* The registered task is the only one that may be running.
EntryInv ==
    /\ tasks \in Seq(LoaderTask) /\ fact \in Versions
    /\ slot \in DOMAIN tasks \cup {None}
    /\ \A t \in DOMAIN tasks : tasks[t].pc = "done" \/ slot = t
    /\ \A t \in DOMAIN tasks : ReadCommitted(t)
    /\ DOMAIN rd = Readers /\ (\A r \in Readers : DOMAIN rd[r] = {"pc", "task"} /\ Awaits(r))
    /\ DOMAIN wr = Writers
    /\ Q!StaleHasCause

\* A set in which all are one element has at most that one.
LEMMA AtMostOne ==
    ASSUME NEW S, NEW x, \A y \in S : y = x
    PROVE  Cardinality(S) <= 1
<1>1. S \subseteq {x}
  OBVIOUS
<1>2. IsFiniteSet({x}) /\ Cardinality({x}) = 1
  BY FS_Singleton, Zenon
<1>3. IsFiniteSet(S) /\ Cardinality(S) <= Cardinality({x})
  BY <1>1, <1>2, FS_Subset, Zenon
<1> QED
  BY <1>2, <1>3

\* The invariant implies the single flight.
LEMMA CacheInvSingle == EntryInv => Q!SingleFlight
<1> SUFFICES ASSUME EntryInv PROVE Q!SingleFlight
  OBVIOUS
<1>1. PICK s, S : s = slot /\ S = {t \in DOMAIN tasks : tasks[t].pc # "done"}
  BY Zenon
<1>2. \A y \in S : y = s
  BY <1>1, Zenon DEF EntryInv
<1>3. Cardinality(S) <= 1
  BY <1>2, AtMostOne
<1>4. Q!Cardinality(S) = Cardinality(S)
  BY Zenon DEF Q!Cardinality, Cardinality, Q!IsFiniteSet, IsFiniteSet
<1> QED
  BY <1>1, <1>3, <1>4, Zenon DEF Q!SingleFlight

\* What is left to show when the loader tasks and the fact stay.
LEMMA ReaderStep ==
    ASSUME EntryInv, UNCHANGED <<fact, tasks>>, NEW r \in Readers, NEW w,
           DOMAIN rd' = Readers, rd'[r] = w, DOMAIN w = {"pc", "task"}, Awaits(r)',
           \A q \in Readers \ {r} : rd'[q] = rd[q],
           slot' \in DOMAIN tasks \cup {None},
           \A t \in DOMAIN tasks : tasks[t].pc = "done" \/ slot' = t,
           UNCHANGED <<entry, wr, unclean>>
    PROVE  EntryInv'
<1>1. fact' = fact /\ tasks' = tasks /\ entry' = entry /\ wr' = wr /\ unclean' = unclean
  OBVIOUS
<1>2. ASSUME NEW q \in Readers PROVE DOMAIN rd'[q] = {"pc", "task"} /\ Awaits(q)'
  BY <1>1, <1>2, Zenon DEF EntryInv, Awaits
<1>3. Q!StaleHasCause'
  BY <1>1 DEF EntryInv, Q!StaleHasCause
<1>4. \A t \in DOMAIN tasks' : ReadCommitted(t)'
  BY <1>1 DEF EntryInv, ReadCommitted
<1>5. tasks' \in Seq(LoaderTask) /\ fact' \in Versions /\ DOMAIN wr' = Writers
  BY <1>1, Zenon DEF EntryInv
<1>6. slot' \in DOMAIN tasks' \cup {None} /\ \A t \in DOMAIN tasks' : tasks'[t].pc = "done" \/ slot' = t
  BY <1>1, Zenon
<1> QED
  BY <1>2, <1>3, <1>4, <1>5, <1>6, Zenon DEF EntryInv

\* A miss, a wake-up and a cleanup after the load.
LEMMA GetKeeps == ASSUME EntryInv, NEW r \in Readers, Q!Get(r) PROVE EntryInv'
<1>1. PICK w : /\ w = [rd[r] EXCEPT !.pc = "join"] /\ DOMAIN rd' = Readers /\ rd'[r] = w
               /\ \A q \in Readers \ {r} : rd'[q] = rd[q]
  BY DEF Q!Get, EntryInv
<1>2. DOMAIN w = {"pc", "task"} /\ w.pc = "join"
  BY <1>1 DEF EntryInv
<1>3. Awaits(r)'
  BY <1>1, <1>2 DEF Awaits
<1>4. UNCHANGED <<fact, tasks>> /\ UNCHANGED <<entry, wr, unclean>> /\ slot' = slot
  BY DEF Q!Get
<1>5. slot' \in DOMAIN tasks \cup {None} /\ \A t \in DOMAIN tasks : tasks[t].pc = "done" \/ slot' = t
  BY <1>4, Zenon DEF EntryInv
<1> QED
  BY <1>1, <1>2, <1>3, <1>4, <1>5, ReaderStep, Zenon

\* A waiter whose task has ended.
LEMMA WakeKeeps == ASSUME EntryInv, NEW r \in Readers, Q!Wake(r) PROVE EntryInv'
<1>1. PICK w : /\ w = [rd[r] EXCEPT !.pc = "pop"] /\ DOMAIN rd' = Readers /\ rd'[r] = w
               /\ \A q \in Readers \ {r} : rd'[q] = rd[q]
  BY DEF Q!Wake, EntryInv
<1>2. DOMAIN w = {"pc", "task"} /\ w.pc = "pop" /\ w.task = rd[r].task
  BY <1>1 DEF EntryInv
<1>3. UNCHANGED <<fact, tasks>> /\ UNCHANGED <<entry, wr, unclean>> /\ slot' = slot
  BY DEF Q!Wake
<1>4. Awaits(r)'
  BY <1>1, <1>2, <1>3 DEF Awaits, EntryInv, Q!Wake
<1>5. slot' \in DOMAIN tasks \cup {None} /\ \A t \in DOMAIN tasks : tasks[t].pc = "done" \/ slot' = t
  BY <1>3, Zenon DEF EntryInv
<1> QED
  BY <1>1, <1>2, <1>3, <1>4, <1>5, ReaderStep, Zenon

\* A waiter unregisters its task, which has ended, and no other.
LEMMA PopKeeps == ASSUME EntryInv, NEW r \in Readers, Q!Pop(r) PROVE EntryInv'
<1>1. PICK w : /\ w = [pc |-> "idle", task |-> None] /\ DOMAIN rd' = Readers /\ rd'[r] = w
               /\ \A q \in Readers \ {r} : rd'[q] = rd[q]
  BY DEF Q!Pop, EntryInv
<1>2. DOMAIN w = {"pc", "task"} /\ w.pc = "idle"
  BY <1>1
<1>3. UNCHANGED <<fact, tasks>> /\ UNCHANGED <<entry, wr, unclean>>
  BY DEF Q!Pop
<1>4. Awaits(r)'
  BY <1>1, <1>2, <1>3 DEF Awaits
<1>5. tasks[rd[r].task].pc = "done"
  BY DEF EntryInv, Awaits, Q!Pop
<1>6. slot' = IF slot = rd[r].task THEN None ELSE slot
  BY DEF Q!Pop
<1>7. slot' \in DOMAIN tasks \cup {None} /\ \A t \in DOMAIN tasks : tasks[t].pc = "done" \/ slot' = t
  <2>1. CASE slot = rd[r].task
    BY <2>1, <1>5, <1>6 DEF EntryInv
  <2>2. CASE slot # rd[r].task
    BY <2>2, <1>6 DEF EntryInv
  <2> QED
    BY <2>1, <2>2
<1> QED
  BY <1>1, <1>2, <1>3, <1>4, <1>7, ReaderStep, Zenon

\* load_once starts a task only when none is registered.
LEMMA JoinKeeps == ASSUME EntryInv, None \notin Nat, NEW r \in Readers, Q!Join(r) PROVE EntryInv'
<1>1. PICK w : /\ w = [pc |-> "wait", task |-> slot'] /\ DOMAIN rd' = Readers /\ rd'[r] = w
               /\ \A q \in Readers \ {r} : rd'[q] = rd[q]
  BY DEF Q!Join, EntryInv
<1>2. DOMAIN w = {"pc", "task"} /\ w.pc = "wait" /\ w.task = slot'
  BY <1>1
<1>3. fact' = fact /\ UNCHANGED <<entry, wr, unclean>>
  BY DEF Q!Join
<1>4. CASE slot # None
  <2>1. tasks' = tasks /\ slot' = slot /\ slot \in DOMAIN tasks
    BY <1>4 DEF Q!Join, EntryInv
  <2>2. Awaits(r)'
    BY <1>1, <1>2, <2>1 DEF Awaits
  <2>3. slot' \in DOMAIN tasks \cup {None} /\ \A t \in DOMAIN tasks : tasks[t].pc = "done" \/ slot' = t
    BY <2>1, Zenon DEF EntryInv
  <2>4. UNCHANGED <<fact, tasks>>
    BY <1>3, <2>1
  <2> QED
    BY <1>1, <1>2, <1>3, <2>2, <2>3, <2>4, ReaderStep, Zenon
<1>5. CASE slot = None
  <2> DEFINE new == [pc |-> "first", val |-> <<0, 0>>, overtaken |-> FALSE]
  <2>1. tasks' = Append(tasks, new) /\ slot' = Len(tasks) + 1 /\ tasks \in Seq(LoaderTask)
    BY <1>5 DEF Q!Join, EntryInv
  <2>2. new \in LoaderTask /\ new.pc = "first"
    BY DEF LoaderTask, Versions
  <2> HIDE DEF new
  <2>3. /\ tasks' \in Seq(LoaderTask) /\ DOMAIN tasks' = DOMAIN tasks \cup {slot'} /\ slot' \notin DOMAIN tasks
        /\ (\A t \in DOMAIN tasks : tasks'[t] = tasks[t]) /\ tasks'[slot'] = new
    BY <2>1, <2>2
  <2>4. \A t \in DOMAIN tasks : tasks[t].pc = "done"
    <3>1. None \notin DOMAIN tasks
      BY <2>1
    <3> QED
      BY <3>1, <1>5, Zenon DEF EntryInv
  <2>5. \A t \in DOMAIN tasks' : tasks'[t].pc = "done" \/ slot' = t
    BY <2>3, <2>4, Zenon
  <2>6. ASSUME NEW t \in DOMAIN tasks' PROVE ReadCommitted(t)'
    <3>1. CASE t = slot'
      BY <3>1, <2>2, <2>3 DEF ReadCommitted
    <3>2. CASE t \in DOMAIN tasks
      BY <3>2, <2>3, <1>3, Zenon DEF ReadCommitted, EntryInv
    <3> QED
      BY <3>1, <3>2, <2>3
  <2>7. ASSUME NEW q \in Readers PROVE DOMAIN rd'[q] = {"pc", "task"} /\ Awaits(q)'
    <3>1. CASE q = r
      BY <3>1, <1>1, <1>2, <2>3 DEF Awaits
    <3>2. CASE q # r
      BY <3>2, <1>1, <2>3, Zenon DEF EntryInv, Awaits
    <3> QED
      BY <3>1, <3>2
  <2>8. entry' = entry /\ wr' = wr /\ unclean' = unclean
    BY <1>3
  <2>9. Q!StaleHasCause'
    BY <1>3, <2>8 DEF EntryInv, Q!StaleHasCause
  <2>10. fact' \in Versions /\ DOMAIN wr' = Writers /\ slot' \in DOMAIN tasks' \cup {None}
    BY <1>3, <2>3, <2>8, Zenon DEF EntryInv
  <2> QED
    BY <1>1, <2>3, <2>5, <2>6, <2>7, <2>9, <2>10, Zenon DEF EntryInv
<1> QED
  BY <1>4, <1>5

\* What is left to show when one running task t becomes v and nobody else moves.
LEMMA TaskStep ==
    ASSUME EntryInv, NEW t \in DOMAIN tasks, NEW v \in LoaderTask,
           tasks' = [tasks EXCEPT ![t] = v], tasks[t].pc # "done",
           UNCHANGED <<fact, slot, rd, wr>>, ReadCommitted(t)', Q!StaleHasCause'
    PROVE  EntryInv'
<1>1. fact' = fact /\ slot' = slot /\ rd' = rd /\ wr' = wr
  OBVIOUS
<1>2. tasks \in Seq(LoaderTask) /\ slot = t
  BY Zenon DEF EntryInv
<1>3. /\ tasks' \in Seq(LoaderTask) /\ DOMAIN tasks' = DOMAIN tasks
      /\ \A u \in DOMAIN tasks \ {t} : tasks'[u] = tasks[u]
  BY <1>2
<1>4. ASSUME NEW u \in DOMAIN tasks' PROVE (tasks'[u].pc = "done" \/ slot' = u) /\ ReadCommitted(u)'
  <2>1. CASE u = t
    BY <2>1, <1>1, <1>2
  <2>2. CASE u # t
    <3>1. tasks'[u] = tasks[u] /\ ReadCommitted(u) /\ (tasks[u].pc = "done" \/ slot = u)
      BY <2>2, <1>3, <1>4, Zenon DEF EntryInv
    <3> QED
      BY <3>1, <1>1, Zenon DEF ReadCommitted
  <2> QED
    BY <2>1, <2>2
<1>5. ASSUME NEW q \in Readers PROVE DOMAIN rd'[q] = {"pc", "task"} /\ Awaits(q)'
  <2>1. DOMAIN rd[q] = {"pc", "task"} /\ Awaits(q)
    BY <1>5, Zenon DEF EntryInv
  <2>2. rd[q].pc = "pop" => rd[q].task # t /\ rd[q].task \in DOMAIN tasks
    BY <2>1 DEF Awaits
  <2>3. rd[q].pc = "pop" => tasks'[rd[q].task] = tasks[rd[q].task]
    BY <2>2, <1>3, Zenon
  <2> QED
    BY <2>1, <2>3, <1>1, <1>3, Zenon DEF Awaits
<1>6. slot' \in DOMAIN tasks' \cup {None} /\ fact' \in Versions /\ DOMAIN wr' = Writers /\ DOMAIN rd' = Readers
  BY <1>1, <1>3, Zenon DEF EntryInv
<1> QED
  BY <1>3, <1>4, <1>5, <1>6, Zenon DEF EntryInv

\* One statement of a load.
LEMMA LoadKeeps == ASSUME EntryInv, NEW t \in DOMAIN tasks, Q!Load(t) PROVE EntryInv'
<1>1. tasks \in Seq(LoaderTask) /\ tasks[t] \in LoaderTask /\ fact \in Versions /\ ReadCommitted(t)
  <2>1. tasks \in Seq(LoaderTask) /\ fact \in Versions /\ ReadCommitted(t)
    BY Zenon DEF EntryInv
  <2> QED
    BY <2>1
<1>2. fact' = fact /\ UNCHANGED <<fact, slot, rd, wr>> /\ entry' = entry /\ unclean' = unclean /\ wr' = wr
  BY DEF Q!Load
<1>3. Q!StaleHasCause'
  BY <1>2 DEF EntryInv, Q!StaleHasCause
<1>4. PICK v :
        /\ tasks' = [tasks EXCEPT ![t] = v]
        /\ \/ /\ tasks[t].pc = "first"
              /\ v = [pc |-> "second", val |-> [tasks[t].val EXCEPT ![1] = fact[1]], overtaken |-> tasks[t].overtaken]
           \/ /\ tasks[t].pc = "second"
              /\ v = [pc |-> "store", val |-> [tasks[t].val EXCEPT ![2] = fact[2]], overtaken |-> tasks[t].overtaken]
  <2>1. CASE tasks[t].pc = "first"
    <3>1. tasks' = [tasks EXCEPT ![t] = [pc |-> "second", val |-> [tasks[t].val EXCEPT ![1] = fact[1]],
                                         overtaken |-> tasks[t].overtaken]]
      BY <2>1, <1>1, Zenon DEF Q!Load, LoaderTask
    <3> QED
      BY <2>1, <3>1, Zenon
  <2>2. CASE tasks[t].pc = "second"
    <3>1. tasks' = [tasks EXCEPT ![t] = [pc |-> "store", val |-> [tasks[t].val EXCEPT ![2] = fact[2]],
                                         overtaken |-> tasks[t].overtaken]]
      BY <2>2, <1>1, Zenon DEF Q!Load, LoaderTask
    <3> QED
      BY <2>2, <3>1, Zenon
  <2> QED
    BY <2>1, <2>2 DEF Q!Load
<1>5. v \in LoaderTask /\ tasks'[t] = v
  BY <1>1, <1>4 DEF LoaderTask, Versions
<1>6. ReadCommitted(t)'
  <2>1. tasks[t].val \in Versions
    BY <1>1 DEF LoaderTask
  <2>2. /\ v.overtaken = tasks[t].overtaken
        /\ \/ v.pc = "second" /\ v.val[1] = fact[1]
           \/ tasks[t].pc = "second" /\ v.pc = "store" /\ v.val[1] = tasks[t].val[1] /\ v.val[2] = fact[2]
    BY <2>1, <1>4 DEF Versions
  <2>3. ~v.overtaken => (v.pc \in {"second", "store"} => v.val[1] = fact[1]) /\ (v.pc = "store" => v.val[2] = fact[2])
    BY <2>2, <1>1 DEF ReadCommitted
  <2> QED
    BY <2>3, <1>2, <1>5, Zenon DEF ReadCommitted
<1>7. tasks[t].pc # "done"
  BY <1>4
<1> QED
  BY <1>2, <1>3, <1>4, <1>5, <1>6, <1>7, TaskStep, Zenon

\* The store: what an overtaken load stores is marked, any other is the fact.
LEMMA StoreKeeps == ASSUME EntryInv, NEW t \in DOMAIN tasks, Q!Store(t) PROVE EntryInv'
<1>1. tasks \in Seq(LoaderTask) /\ tasks[t] \in LoaderTask /\ fact \in Versions /\ ReadCommitted(t)
  <2>1. tasks \in Seq(LoaderTask) /\ fact \in Versions /\ ReadCommitted(t)
    BY Zenon DEF EntryInv
  <2> QED
    BY <2>1
<1>2. fact' = fact /\ UNCHANGED <<fact, slot, rd, wr>> /\ wr' = wr /\ tasks[t].pc = "store" /\ tasks[t].pc # "done"
  BY DEF Q!Store
<1>3. Q!StaleHasCause'
  <2>1. ~tasks[t].overtaken => tasks[t].val = fact
    BY <1>1, <1>2 DEF ReadCommitted, LoaderTask, Versions
  <2> QED
    BY <2>1, <1>2 DEF EntryInv, Q!Store, Q!StaleHasCause
<1>4. PICK v : v = [tasks[t] EXCEPT !.pc = "done"] /\ tasks' = [tasks EXCEPT ![t] = v]
  BY <1>1, Zenon DEF Q!Store
<1>5. v \in LoaderTask /\ tasks'[t] = v /\ v.pc = "done"
  BY <1>1, <1>4 DEF LoaderTask
<1>6. ReadCommitted(t)'
  BY <1>5 DEF ReadCommitted
<1> QED
  BY <1>2, <1>3, <1>4, <1>5, <1>6, TaskStep, Zenon

\* A cancelled waiter ends the task it awaits.
LEMMA CancelKeeps == ASSUME EntryInv, NEW r \in Readers, Q!Cancel(r) PROVE EntryInv'
<1>1. PICK t : t = rd[r].task
  OBVIOUS
<1>2. t \in DOMAIN tasks /\ tasks[t].pc # "done" /\ UNCHANGED <<fact, slot, rd, wr>>
  BY <1>1 DEF Q!Cancel, EntryInv, Awaits
<1>3. tasks \in Seq(LoaderTask) /\ tasks[t] \in LoaderTask
  <2>1. tasks \in Seq(LoaderTask)
    BY Zenon DEF EntryInv
  <2> QED
    BY <2>1, <1>2
<1>4. PICK v : v = [tasks[t] EXCEPT !.pc = "done"] /\ tasks' = [tasks EXCEPT ![t] = v]
  BY <1>1, <1>2, <1>3, Zenon DEF Q!Cancel
<1>5. v \in LoaderTask /\ tasks'[t] = v /\ v.pc = "done"
  BY <1>2, <1>3, <1>4 DEF LoaderTask
<1>6. ReadCommitted(t)'
  BY <1>5 DEF ReadCommitted
<1>7. Q!StaleHasCause'
  BY DEF EntryInv, Q!Cancel, Q!StaleHasCause
<1> QED
  BY <1>2, <1>4, <1>5, <1>6, <1>7, TaskStep, Zenon

\* A commit overtakes every load under way, and its deletion is still to come.
LEMMA CommitKeeps == ASSUME EntryInv, NEW w \in Writers, Q!Commit(w) PROVE EntryInv'
<1>1. /\ entry' = entry /\ slot' = slot /\ rd' = rd /\ unclean' = unclean
      /\ DOMAIN wr' = Writers /\ wr'[w] = "delete"
  BY DEF Q!Commit, EntryInv
<1>2. tasks \in Seq(LoaderTask) /\ \A t \in DOMAIN tasks : tasks[t] \in LoaderTask
  <2>1. tasks \in Seq(LoaderTask)
    BY Zenon DEF EntryInv
  <2> QED
    BY <2>1
<1>3. fact' \in Versions
  BY DEF Q!Commit, EntryInv, Versions
<1>4. tasks' = [t \in DOMAIN tasks |-> [tasks[t] EXCEPT !.overtaken = tasks[t].overtaken \/ tasks[t].pc # "done"]]
  BY <1>2 DEF Q!Commit, LoaderTask
<1>5. ASSUME NEW t \in DOMAIN tasks
      PROVE  tasks'[t] \in LoaderTask /\ tasks'[t].pc = tasks[t].pc /\ (tasks[t].pc = "done" \/ tasks'[t].overtaken)
  BY <1>2, <1>4, Zenon DEF LoaderTask
<1>6. DOMAIN tasks' = DOMAIN tasks
  BY <1>4
<1>7. tasks' \in Seq(LoaderTask)
  <2>1. PICK n \in Nat : DOMAIN tasks = 1..n
    BY <1>2
  <2>2. tasks' \in [1..n -> LoaderTask]
    BY <1>4, <1>5, <2>1, Zenon
  <2> QED
    BY <2>2
<1>8. ASSUME NEW t \in DOMAIN tasks' PROVE (tasks'[t].pc = "done" \/ slot' = t) /\ ReadCommitted(t)'
  <2>1. tasks[t].pc = "done" \/ slot = t
    BY <1>6, <1>8, Zenon DEF EntryInv
  <2> QED
    BY <2>1, <1>1, <1>5, <1>6, <1>8 DEF ReadCommitted
<1>9. ASSUME NEW q \in Readers PROVE DOMAIN rd'[q] = {"pc", "task"} /\ Awaits(q)'
  <2>1. DOMAIN rd[q] = {"pc", "task"} /\ Awaits(q)
    BY <1>9, Zenon DEF EntryInv
  <2> QED
    BY <2>1, <1>1, <1>5, <1>6, Zenon DEF Awaits
<1>10. Q!StaleHasCause'
  BY <1>1, Zenon DEF Q!StaleHasCause
<1>11. slot' \in DOMAIN tasks' \cup {None} /\ DOMAIN rd' = Readers
  BY <1>1, <1>6, Zenon DEF EntryInv
<1> QED
  BY <1>1, <1>3, <1>7, <1>8, <1>9, <1>10, <1>11, Zenon DEF EntryInv

\* A deletion, done or refused, and an expiry.
LEMMA EntryStep ==
    ASSUME EntryInv, UNCHANGED <<fact, tasks, slot, rd>>, DOMAIN wr' = Writers, Q!StaleHasCause'
    PROVE  EntryInv'
<1>1. fact' = fact /\ tasks' = tasks /\ slot' = slot /\ rd' = rd
  OBVIOUS
<1>2. \A t \in DOMAIN tasks' : ReadCommitted(t)'
  BY <1>1 DEF EntryInv, ReadCommitted
<1>3. \A q \in Readers : Awaits(q)'
  BY <1>1, Zenon DEF EntryInv, Awaits
<1> QED
  BY <1>1, <1>2, <1>3, Zenon DEF EntryInv

\* The deletion that follows a commit.
LEMMA DeleteKeeps == ASSUME EntryInv, NEW w \in Writers, Q!Delete(w) PROVE EntryInv'
<1>1. UNCHANGED <<fact, tasks, slot, rd>> /\ DOMAIN wr' = Writers
  BY DEF Q!Delete, EntryInv
<1>2. Q!StaleHasCause'
  BY Zenon DEF Q!Delete, Q!StaleHasCause
<1> QED
  BY <1>1, <1>2, EntryStep, Zenon

\* The entry's time to live.
LEMMA ExpireKeeps == ASSUME EntryInv, Q!Expire PROVE EntryInv'
<1>1. UNCHANGED <<fact, tasks, slot, rd>> /\ DOMAIN wr' = Writers
  BY DEF Q!Expire, EntryInv
<1>2. Q!StaleHasCause'
  BY DEF Q!Expire, Q!StaleHasCause
<1> QED
  BY <1>1, <1>2, EntryStep, Zenon

\* For every number of readers and of commands: a process runs at most one
\* load of a key at a time, and a cached answer that differs from the
\* committed fact has one of the three causes the decorator leaves.
THEOREM CacheSound ==
    ASSUME None \notin Nat
    PROVE  Q!Spec => [](Q!SingleFlight /\ Q!StaleHasCause)
<1>1. Q!Init => EntryInv
  <2> SUFFICES ASSUME Q!Init PROVE EntryInv
    OBVIOUS
  <2>1. tasks = <<>> /\ fact = <<0, 0>> /\ slot = None /\ entry = None
    BY DEF Q!Init
  <2>2. tasks \in Seq(LoaderTask) /\ DOMAIN tasks = {} /\ fact \in Versions
    BY <2>1 DEF Versions
  <2>3. DOMAIN rd = Readers /\ DOMAIN wr = Writers
    BY DEF Q!Init
  <2>4. \A r \in Readers : DOMAIN rd[r] = {"pc", "task"} /\ rd[r].pc = "idle"
    BY DEF Q!Init
  <2>5. \A r \in Readers : DOMAIN rd[r] = {"pc", "task"} /\ Awaits(r)
    BY <2>4 DEF Awaits
  <2>6. Q!StaleHasCause
    BY <2>1 DEF Q!StaleHasCause
  <2> QED
    BY <2>1, <2>2, <2>3, <2>5, <2>6, Zenon DEF EntryInv
<1>2. EntryInv /\ [Q!Next]_Q!qcVars => EntryInv'
  <2> SUFFICES ASSUME EntryInv, [Q!Next]_Q!qcVars PROVE EntryInv'
    OBVIOUS
  <2>1. CASE UNCHANGED Q!qcVars
    <3>1. UNCHANGED <<fact, tasks, slot, rd>> /\ fact' = fact /\ wr' = wr /\ entry' = entry /\ unclean' = unclean
      BY <2>1 DEF Q!qcVars
    <3>2. Q!StaleHasCause' /\ DOMAIN wr' = Writers
      BY <3>1 DEF EntryInv, Q!StaleHasCause
    <3> QED
      BY <3>1, <3>2, EntryStep, Zenon
  <2>2. CASE Q!Next
    <3>1. CASE Q!Expire
      BY <3>1, ExpireKeeps, Zenon
    <3>2. CASE \E r \in Readers : Q!Get(r) \/ Q!Join(r) \/ Q!Wake(r) \/ Q!Pop(r) \/ Q!Cancel(r)
      BY <3>2, GetKeeps, JoinKeeps, WakeKeeps, PopKeeps, CancelKeeps, Zenon
    <3>3. CASE \E t \in DOMAIN tasks : Q!Load(t) \/ Q!Store(t)
      BY <3>3, LoadKeeps, StoreKeeps, Zenon
    <3>4. CASE \E w \in Writers : Q!Commit(w) \/ Q!Delete(w)
      BY <3>4, CommitKeeps, DeleteKeeps, Zenon
    <3> QED
      BY <2>2, <3>1, <3>2, <3>3, <3>4, Zenon DEF Q!Next
  <2> QED
    BY <2>1, <2>2, Zenon
<1>3. EntryInv => Q!SingleFlight /\ Q!StaleHasCause
  BY CacheInvSingle, Zenon DEF EntryInv
<1> QED
  BY <1>1, <1>2, <1>3, PTL DEF Q!Spec

=============================================================================
