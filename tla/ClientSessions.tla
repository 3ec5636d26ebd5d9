--------------------------- MODULE ClientSessions ---------------------------
(***************************************************************************)
(* Direct client sessions of one account: modules/identity/services.py     *)
(* over infra/db/repositories/identity.py, with the online-verification    *)
(* proof cache of infra/redis/identity.py.                                 *)
(*                                                                         *)
(* Every request is a handler task.  Passwords are verified between two    *)
(* transactions, so a login spans: read the credential, verify, take the   *)
(* account's advisory lock and re-read, lock the open session row, write   *)
(* and commit.  Logins, closes and revocations take the advisory lock;     *)
(* polls (touch) and password grants do not.  The statements between two   *)
(* lock waits of one transaction are one step.                             *)
(***************************************************************************)
EXTENDS Integers, FiniteSets

CONSTANTS
    Procs,          \* concurrent request handlers
    Sessions,       \* identifiers the id generator may hand out
    StaleGrace,     \* client_session_stale_grace
    TouchInterval,  \* client_session_touch_interval
    Lifetime,       \* session_lifetime of a login command
    Algorithms,     \* stored verifiers an account may start with
    Kinds,          \* the requests of this instance
    MaxTime,        \* bound on the clock
    MaxVersion,     \* bound on Account.auth_version
    None            \* no session, no holder, no cached proof

IntervalAssumption == 0 < TouchInterval /\ TouchInterval < StaleGrace
LifetimeAssumption == Lifetime \in Nat \ {0} /\ MaxTime \in Nat

Passwords == {"right", "wrong"}

\* AuthSession: "none" is an identifier not inserted yet.
SessionRow ==
    [st : {"none", "open", "closed", "revoked"}, activity : 0..MaxTime,
     expires : 0..(MaxTime + Lifetime)]

\* PasswordCredential with the account's auth_version.  "argon2id_old" is an
\* argon2id verifier for which check_needs_rehash holds.
Credential ==
    [alg : {"bcrypt_md5", "argon2id_old", "argon2id"}, version : 1..MaxVersion]

VARIABLES
    now,        \* the API hosts' clock
    cred,       \* the account's credential row
    sess,       \* auth_session rows of the account
    uses,       \* AccountDevice.use_count
    opened,     \* session-opened events appended per session
    closed,     \* session-closed events appended per session
    cache,      \* the Redis verification proof, or None
    advisory,   \* holder of the "identity-client-session" lock, or None
    rowLock,    \* holder of FOR UPDATE on the open session's row, or None
    req,        \* the handlers
    polled      \* history: latest time of a poll that was answered, per session

vars == <<now, cred, sess, uses, opened, closed, cache, advisory, rowLock, req, polled>>

Idle == [pc |-> "idle", pw |-> "wrong", snap |-> None, at |-> 0, s |-> None]

\* A handler that has answered: the outcome stays readable until the next
\* request of the same handler.
Done(pc) == [Idle EXCEPT !.pc = pc]
Principal(pw) == [Done("principal") EXCEPT !.pw = pw]

\* find_open_client_session, expired ones included.
Open == {s \in Sessions : sess[s].st = "open"}

\* _active_client_session_statement: the token, session and account filters.
ActiveSession(s, at) == sess[s].st = "open" /\ sess[s].expires > at

\* _session_is_stale
Stale(s, at) == sess[s].activity <= at - StaleGrace

\* Mutant: auth_version is left out of the comparison.
CredentialVerifierIsCurrent(snap) == snap.alg = cred.alg

\* _credential_is_current: every compared column is a function of the row.
CredentialIsCurrent(snap) == snap = cred

Fresh(p) == req[p].pc \in {"idle", "ok", "refused", "touched", "principal", "granted", "aborted"}

To(p, r) == req' = [req EXCEPT ![p] = r]

\* Mutant: a session-level advisory lock survives the transaction.
ReleaseRowOnly(p) ==
    /\ UNCHANGED advisory
    /\ rowLock' = IF rowLock = p THEN None ELSE rowLock

Release(p) ==
    /\ advisory' = IF advisory = p THEN None ELSE advisory
    /\ rowLock' = IF rowLock = p THEN None ELSE rowLock

Locks == <<advisory, rowLock>>
Rows == <<cred, sess, uses, opened, closed>>

-----------------------------------------------------------------------------
(* Repository writes.                                                      *)

\* upgrade_legacy_credential matches only the bcrypt_md5 row the caller saw.
UpgradeMatches(snap) == cred = snap /\ cred.alg = "bcrypt_md5"

\* close_client_session: the row is closed (or revoked), its tokens with it.
CloseRow(rows, s, st) == [rows EXCEPT ![s].st = st]

\* create_client_session at the time the login read before its lock.
CreateRow(rows, s, at) ==
    [rows EXCEPT ![s] = [st |-> "open", activity |-> at, expires |-> at + Lifetime]]

\* get_or_create_device: ON CONFLICT DO UPDATE use_count + 1.
CountDevice == uses' = uses + 1

\* touch_client_session's UPDATE ... WHERE open AND last_activity_at < at.
TouchRow(s, at) ==
    IF sess[s].st = "open" /\ sess[s].activity < at
    THEN [sess EXCEPT ![s].activity = at] ELSE sess

\* _session_opened_event and _session_closed_event, appended to the outbox in
\* the same transaction.
AppendOpened(s) == opened' = [opened EXCEPT ![s] = @ + 1]
AppendClosed(s) == closed' = [closed EXCEPT ![s] = @ + 1]

-----------------------------------------------------------------------------
(* authenticate_client_session                                             *)

\* Bound: a login starts only while an identifier is left for it.
IdentifierLeft ==
    Cardinality({q \in Procs : req[q].pc \in {"login_verify", "login_lock", "login_find",
                                            "login_write"}})
        < Cardinality({s \in Sessions : sess[s].st = "none"})

LoginRead(p, pw) ==
    /\ "login" \in Kinds /\ Fresh(p) /\ IdentifierLeft
    /\ To(p, [Idle EXCEPT !.pc = "login_verify", !.pw = pw, !.snap = cred])
    /\ UNCHANGED <<now, Rows, cache, Locks, polled>>

\* Verification runs in a worker thread; `now` is read after it.
LoginVerify(p) ==
    /\ req[p].pc = "login_verify"
    /\ To(p, IF req[p].pw = "right"
             THEN [req[p] EXCEPT !.pc = "login_lock", !.at = now] ELSE Done("refused"))
    /\ UNCHANGED <<now, Rows, cache, Locks, polled>>

\* Mutant: the login does not take the account's lock.
LoginWithoutLock(p) ==
    /\ req[p].pc = "login_lock"
    /\ To(p, IF CredentialIsCurrent(req[p].snap)
             THEN [req[p] EXCEPT !.pc = "login_find"] ELSE Done("refused"))
    /\ UNCHANGED <<now, Rows, cache, Locks, polled>>

LoginLock(p) ==
    /\ req[p].pc = "login_lock"
    /\ advisory = None
    /\ IF CredentialIsCurrent(req[p].snap)
       THEN advisory' = p /\ To(p, [req[p] EXCEPT !.pc = "login_find"])
       ELSE UNCHANGED advisory /\ To(p, Done("refused"))
    /\ UNCHANGED <<now, Rows, cache, rowLock, polled>>

Replaceable(s, at) == sess[s].expires <= at \/ Stale(s, at)

LoginFind(p) ==
    /\ req[p].pc = "login_find"
    /\ rowLock = None
    /\ \/ Open = {} /\ To(p, [req[p] EXCEPT !.pc = "login_write"]) /\ UNCHANGED Locks
       \/ \E s \in Open :
            IF Replaceable(s, req[p].at)
            THEN /\ rowLock' = p
                 /\ To(p, [req[p] EXCEPT !.pc = "login_write", !.s = s])
                 /\ UNCHANGED advisory
            ELSE Release(p) /\ To(p, Done("refused"))
    /\ UNCHANGED <<now, Rows, cache, polled>>

\* The rest of the transaction: upgrade, close the replaced session, device,
\* session and token rows, attempt, events, commit.
LoginWrite(p) ==
    /\ req[p].pc = "login_write"
    /\ Release(p)
    /\ LET r == req[p] IN
       IF r.snap.alg = "bcrypt_md5" /\ ~UpgradeMatches(r.snap)
       THEN To(p, Done("refused")) /\ UNCHANGED Rows
       ELSE \E new \in {s \in Sessions : sess[s].st = "none"} :
              /\ cred' = IF r.snap.alg = "bcrypt_md5"
                         THEN [cred EXCEPT !.alg = "argon2id"] ELSE cred
              /\ sess' = CreateRow(IF r.s # None THEN CloseRow(sess, r.s, "closed") ELSE sess,
                                   new, r.at)
              /\ IF r.s # None THEN AppendClosed(r.s) ELSE UNCHANGED closed
              /\ AppendOpened(new)
              /\ CountDevice
              /\ To(p, Done("ok"))
    /\ UNCHANGED <<now, cache, polled>>

-----------------------------------------------------------------------------
(* touch_client_session: a poll's heartbeat.                               *)

TouchRead(p, s) ==
    /\ "touch" \in Kinds /\ Fresh(p)
    /\ sess[s].st # "none"
    /\ \/ ~ActiveSession(s, now) /\ To(p, Done("refused")) /\ UNCHANGED polled
       \/ /\ ActiveSession(s, now)
          /\ now - sess[s].activity < TouchInterval
          /\ To(p, Done("touched"))
          /\ polled' = [polled EXCEPT ![s] = now]
       \/ /\ ActiveSession(s, now)
          /\ now - sess[s].activity >= TouchInterval
          /\ To(p, [Idle EXCEPT !.pc = "touch_write", !.at = now, !.s = s])
          /\ UNCHANGED polled
    /\ UNCHANGED <<now, Rows, cache, Locks>>

\* The UPDATE waits for the row's holder, re-evaluates its WHERE clause and
\* commits; the answer was fixed by the read.
TouchWrite(p) ==
    /\ req[p].pc = "touch_write"
    /\ rowLock = None
    /\ LET s == req[p].s IN
       /\ sess' = TouchRow(s, req[p].at)
       /\ polled' = [polled EXCEPT ![s] = IF @ < req[p].at THEN req[p].at ELSE @]
       /\ To(p, Done("touched"))
    /\ UNCHANGED <<now, cred, uses, opened, closed, cache, Locks>>

-----------------------------------------------------------------------------
(* close_client_session and revoke_client_session.                         *)

CloseRead(p, s) ==
    /\ "close" \in Kinds /\ Fresh(p)
    /\ sess[s].st # "none"
    /\ To(p, IF ActiveSession(s, now)
             THEN [Idle EXCEPT !.pc = "close_lock", !.s = s] ELSE Done("refused"))
    /\ UNCHANGED <<now, Rows, cache, Locks, polled>>

\* The repository re-reads the row FOR UPDATE and skips a closed one.
StillOpen(s) == sess[s].st = "open"

CloseWrite(p) ==
    /\ req[p].pc = "close_lock"
    /\ advisory = None /\ rowLock = None
    /\ LET s == req[p].s IN
       IF StillOpen(s)
       THEN /\ sess' = CloseRow(sess, s, "closed")
            /\ AppendClosed(s)
            /\ To(p, Done("ok"))
       ELSE To(p, Done("refused")) /\ UNCHANGED <<sess, closed>>
    /\ UNCHANGED <<now, cred, uses, opened, cache, Locks, polled>>

RevokeRead(p, s) ==
    /\ "revoke" \in Kinds /\ Fresh(p)
    /\ sess[s].st # "none" /\ cred.version < MaxVersion
    /\ To(p, [Idle EXCEPT !.pc = "revoke_lock", !.s = s])
    /\ UNCHANGED <<now, Rows, cache, Locks, polled>>

\* A revocation also advances the account's auth_version.
RevokeWrite(p) ==
    /\ req[p].pc = "revoke_lock"
    /\ advisory = None /\ rowLock = None
    /\ LET s == req[p].s IN
       IF StillOpen(s) /\ cred.version < MaxVersion
       THEN /\ sess' = CloseRow(sess, s, "revoked")
            /\ AppendClosed(s)
            /\ cred' = [cred EXCEPT !.version = @ + 1]
            /\ To(p, Done("ok"))
       ELSE To(p, Done("refused")) /\ UNCHANGED <<sess, closed, cred>>
    /\ UNCHANGED <<now, uses, opened, cache, Locks, polled>>

-----------------------------------------------------------------------------
(* verify_online_credentials: web requests of a logged-in client.          *)

\* find_online_credential_candidate, less the sessions the service finds stale.
OnlineCandidates(at) == {s \in Open : sess[s].expires > at /\ ~Stale(s, at)}

VerifyRead(p, pw) ==
    /\ "verify" \in Kinds /\ Fresh(p)
    /\ \/ OnlineCandidates(now) = {} /\ To(p, Done("refused"))
       \/ \E s \in OnlineCandidates(now) :
            To(p, [Idle EXCEPT !.pc = "verify_cache", !.pw = pw, !.snap = cred, !.s = s])
    /\ UNCHANGED <<now, Rows, cache, Locks, polled>>

\* RedisOnlineCredentialVerificationCache.matches: session, proof, fingerprint.
CacheMatches(r) == cache = [s |-> r.s, pw |-> r.pw, snap |-> r.snap]

\* A failing cache read is a miss.
VerifyCache(p) ==
    /\ req[p].pc = "verify_cache"
    /\ \/ CacheMatches(req[p]) /\ To(p, Principal(req[p].pw))
       \/ To(p, IF req[p].pw = "right"
                THEN [req[p] EXCEPT !.pc = "verify_current"] ELSE Done("refused"))
    /\ UNCHANGED <<now, Rows, cache, Locks, polled>>

VerifyCurrent(p) ==
    /\ req[p].pc = "verify_current"
    /\ rowLock = None
    /\ LET r == req[p] IN
       To(p, IF /\ CredentialIsCurrent(r.snap)
                /\ r.s \in OnlineCandidates(now)
             THEN [r EXCEPT !.pc = "verify_store"] ELSE Done("refused"))
    /\ UNCHANGED <<now, Rows, cache, Locks, polled>>

CacheStore(r) == cache' = [s |-> r.s, pw |-> r.pw, snap |-> r.snap]

\* A failing cache write is logged and ignored.
VerifyStore(p) ==
    /\ req[p].pc = "verify_store"
    /\ CacheStore(req[p]) \/ UNCHANGED cache
    /\ To(p, Principal(req[p].pw))
    /\ UNCHANGED <<now, Rows, Locks, polled>>

CacheExpire ==
    /\ cache # None
    /\ cache' = None
    /\ UNCHANGED <<now, Rows, Locks, req, polled>>

-----------------------------------------------------------------------------
(* exchange_password up to the creation of the token family, whose life is *)
(* OAuthTokens'.  No advisory lock is taken.                               *)

GrantRead(p, pw) ==
    /\ "grant" \in Kinds /\ Fresh(p)
    /\ To(p, [Idle EXCEPT !.pc = "grant_verify", !.pw = pw, !.snap = cred])
    /\ UNCHANGED <<now, Rows, cache, Locks, polled>>

GrantVerify(p) ==
    /\ req[p].pc = "grant_verify"
    /\ To(p, IF req[p].pw = "right" THEN [req[p] EXCEPT !.pc = "grant_write"] ELSE Done("refused"))
    /\ UNCHANGED <<now, Rows, cache, Locks, polled>>

\* A replacement hash is computed for a legacy or an outdated verifier; the
\* upgrade must then match.
GrantWrite(p) ==
    /\ req[p].pc = "grant_write"
    /\ LET r == req[p]
           replaces == r.snap.alg \in {"bcrypt_md5", "argon2id_old"} IN
       IF CredentialIsCurrent(r.snap) /\ (replaces => UpgradeMatches(r.snap))
       THEN /\ cred' = [cred EXCEPT !.alg = "argon2id"]
            /\ To(p, Done("granted"))
       ELSE UNCHANGED cred /\ To(p, Done("refused"))
    /\ UNCHANGED <<now, sess, uses, opened, closed, cache, Locks, polled>>

-----------------------------------------------------------------------------

\* A cancelled request or a lost connection: the open transaction rolls back.
Abort(p) ==
    /\ ~Fresh(p)
    /\ Release(p)
    /\ To(p, Done("aborted"))
    /\ UNCHANGED <<now, Rows, cache, polled>>

Tick ==
    /\ now < MaxTime
    /\ now' = now + 1
    /\ UNCHANGED <<Rows, cache, Locks, req, polled>>

Init ==
    /\ now = 0
    /\ cred \in [alg : Algorithms, version : {1}]
    /\ sess = [s \in Sessions |-> [st |-> "none", activity |-> 0, expires |-> 0]]
    /\ uses = 0
    /\ opened = [s \in Sessions |-> 0]
    /\ closed = [s \in Sessions |-> 0]
    /\ cache = None
    /\ advisory = None /\ rowLock = None
    /\ req = [p \in Procs |-> Idle]
    /\ polled = [s \in Sessions |-> 0]

\* The steps a started request takes by itself.
Step(p) ==
    \/ LoginVerify(p) \/ LoginLock(p) \/ LoginFind(p) \/ LoginWrite(p)
    \/ TouchWrite(p) \/ CloseWrite(p) \/ RevokeWrite(p)
    \/ VerifyCache(p) \/ VerifyCurrent(p) \/ VerifyStore(p)
    \/ GrantVerify(p) \/ GrantWrite(p)

Begin(p) ==
    \/ \E pw \in Passwords : LoginRead(p, pw) \/ VerifyRead(p, pw) \/ GrantRead(p, pw)
    \/ \E s \in Sessions : TouchRead(p, s) \/ CloseRead(p, s) \/ RevokeRead(p, s)

Next ==
    \/ \E p \in Procs : Begin(p) \/ Step(p) \/ Abort(p)
    \/ CacheExpire \/ Tick

Spec == Init /\ [][Next]_vars

\* A task the event loop runs is resumed until it answers; PostgreSQL serves
\* the waiters of a lock in order, so one whose lock keeps becoming free gets it.
FairSpec == Spec /\ \A p \in Procs : SF_vars(Step(p))

-----------------------------------------------------------------------------
(* Properties.                                                             *)

TypeOK ==
    /\ now \in 0..MaxTime
    /\ cred \in Credential
    /\ sess \in [Sessions -> SessionRow]
    /\ advisory \in Procs \cup {None} /\ rowLock \in Procs \cup {None}
    /\ \A p \in Procs : req[p].at \in 0..MaxTime /\ req[p].s \in Sessions \cup {None}

\* An account has at most one open session, and the INSERT of
\* create_client_session never meets uq_auth_session_active_client_account:
\* when a login is about to write, the only open session is the one it holds.
OneOpenSession ==
    /\ Cardinality(Open) <= 1
    /\ \A p \in Procs : req[p].pc = "login_write" => Open \subseteq {req[p].s}

\* A login that replaces a session as stale does so only when no poll was
\* answered in the last StaleGrace - TouchInterval time units, although polls
\* skip the write while the stored activity is younger than TouchInterval.
StaleOnlyWhenSilent ==
    \A s \in Sessions, p \in Procs :
        ( /\ req[p].pc = "login_write" /\ req'[p].pc = "ok"
          /\ sess[s].st = "open" /\ sess'[s].st = "closed"
          /\ sess[s].expires > req[p].at )
        => req[p].at - polled[s] > StaleGrace - TouchInterval

\* Session events are appended in the transaction of the change they report:
\* one session-opened per inserted session, one session-closed per closed or
\* revoked session, whichever of login, logout and revocation got there first.
EventsMatchRows ==
    \A s \in Sessions :
        /\ opened[s] = IF sess[s].st = "none" THEN 0 ELSE 1
        /\ closed[s] = IF sess[s].st \in {"closed", "revoked"} THEN 1 ELSE 0

\* A password verified before a revocation opens no session after it: the
\* auth_version at the commit of a login is the one its verification read.
NoLoginAcrossRevoke ==
    \A p \in Procs : (req[p].pc = "login_write" /\ req'[p].pc = "ok")
                        => cred.version = req[p].snap.version

\* Polls processed out of order never move last_activity_at backwards, and no
\* request reopens an ended session.
SessionMonotone ==
    \A s \in Sessions :
        /\ sess'[s].activity >= sess[s].activity
        /\ sess[s].st \in {"closed", "revoked"} => sess'[s] = sess[s]

\* Only a correct password yields a principal, through the cache or not.
PrincipalKnowsPassword ==
    \A p \in Procs : req[p].pc = "principal" => req[p].pw = "right"

\* The device relation counts exactly the sessions the account opened.
DeviceUsesCountLogins ==
    uses = Cardinality({s \in Sessions : sess[s].st # "none"})

\* What the docstring of exchange_password says: a password grant whose
\* password is right is refused only when the credential changed meanwhile.
RightPasswordGranted ==
    \A p \in Procs :
        (req[p].pc = "grant_write" /\ req'[p].pc = "refused" /\ req[p].snap = cred)
        => req[p].pw = "wrong"

=============================================================================
