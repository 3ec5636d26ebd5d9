----------------------------- MODULE OAuthTokens -----------------------------
(***************************************************************************)
(* The refresh-token family of one OAuth session: exchange_refresh of      *)
(* modules/identity/services.py over resolve_refresh_token,                *)
(* rotate_refresh_token, compromise_token_family and resolve_access_token  *)
(* of infra/db/repositories/identity.py.                                   *)
(*                                                                         *)
(* A request is one READ COMMITTED transaction: its writes are applied at  *)
(* its commit, the row locks it meets on the way are explicit.  The access *)
(* and the refresh token of rotation n are inserted together and form pair *)
(* n.  An INSERT of a pair takes FOR KEY SHARE on the family it references.*)
(***************************************************************************)
EXTENDS Integers, FiniteSets

CONSTANTS
    Procs,        \* concurrent refresh requests
    MaxRotation,  \* bound on AuthToken.rotation_number
    None          \* no lock holder

RotationAssumption == MaxRotation \in Nat

Pairs == 0..MaxRotation

\* AuthToken: consumed_at belongs to the pair's refresh token.
AuthToken == [exists : BOOLEAN, consumed : BOOLEAN, revoked : BOOLEAN]

VARIABLES
    token,     \* committed token rows
    family,    \* AuthTokenFamily: "active" or "compromised"
    session,   \* AuthSession: "active" or "revoked"
    tokenLock, \* holder of each token row, or None
    share,     \* requests that hold FOR KEY SHARE on the family
    owner,     \* holder of FOR UPDATE on the family, or None
    sessLock,  \* holder of the session row, or None
    req        \* the requests

vars == <<token, family, session, tokenLock, share, owner, sessLock, req>>

Idle == [pc |-> "idle", t |-> 0, todo |-> {}]
Ended == {"idle", "rotated", "refused", "aborted"}

To(p, r) == req' = [req EXCEPT ![p] = r]
Committed == <<token, family, session>>
FamilyLocks == <<share, owner>>

\* The end of a transaction frees its locks.
EndTx(p, pc) ==
    /\ tokenLock' = [t \in Pairs |-> IF tokenLock[t] = p THEN None ELSE tokenLock[t]]
    /\ share' = share \ {p}
    /\ owner' = IF owner = p THEN None ELSE owner
    /\ sessLock' = IF sessLock = p THEN None ELSE sessLock
    /\ To(p, [req[p] EXCEPT !.pc = pc, !.todo = {}])

\* The snapshot part of resolve_refresh_token's WHERE clause.  A token or a
\* session past its expiry is refused the same way.
Resolvable(t) ==
    /\ token[t].exists /\ ~token[t].revoked
    /\ session = "active" /\ family = "active"

-----------------------------------------------------------------------------
(* resolve_refresh_token                                                   *)

Resolve(p, t) ==
    /\ req[p].pc \in Ended
    /\ token[t].exists /\ t < MaxRotation
    /\ \/ Resolvable(t) /\ To(p, [Idle EXCEPT !.pc = "lock_token", !.t = t])
       \/ To(p, [Idle EXCEPT !.pc = "refused", !.t = t])
    /\ UNCHANGED <<Committed, tokenLock, FamilyLocks, sessLock>>

\* FOR UPDATE OF auth_token: the waiter re-evaluates the token's own columns,
\* the joined session and family rows stay those of the snapshot.
LockToken(p) ==
    /\ req[p].pc = "lock_token"
    /\ LET t == req[p].t IN
       /\ tokenLock[t] = None
       /\ IF token[t].revoked
          THEN To(p, [req[p] EXCEPT !.pc = "refused"]) /\ UNCHANGED tokenLock
          ELSE /\ tokenLock' = [tokenLock EXCEPT ![t] = p]
               /\ To(p, [req[p] EXCEPT !.pc = IF token[t].consumed THEN "lock_family" ELSE "insert"])
    /\ UNCHANGED <<Committed, FamilyLocks, sessLock>>

-----------------------------------------------------------------------------
(* rotate_refresh_token: consume (the row is already held), insert the     *)
(* successor pair, touch the session, commit.                              *)

RotateInsert(p) ==
    /\ req[p].pc = "insert"
    /\ owner = None
    /\ share' = share \cup {p}
    /\ To(p, [req[p] EXCEPT !.pc = "touch_session"])
    /\ UNCHANGED <<Committed, tokenLock, owner, sessLock>>

TouchSession(p) ==
    /\ req[p].pc = "touch_session"
    /\ sessLock = None
    /\ sessLock' = p
    /\ To(p, [req[p] EXCEPT !.pc = "rotate_commit"])
    /\ UNCHANGED <<Committed, tokenLock, FamilyLocks>>

Rotated(t) ==
    [token EXCEPT ![t].consumed = TRUE,
                  ![t + 1] = [exists |-> TRUE, consumed |-> FALSE, revoked |-> FALSE]]

RotateCommit(p) ==
    /\ req[p].pc = "rotate_commit"
    /\ token' = Rotated(req[p].t)
    /\ EndTx(p, "rotated")
    /\ UNCHANGED <<family, session>>

-----------------------------------------------------------------------------
(* compromise_token_family                                                 *)

\* Mutant: the family is read without FOR UPDATE.
ReadFamily(p) ==
    /\ req[p].pc = "lock_family"
    /\ To(p, [req[p] EXCEPT !.pc = "revoke_tokens",
                            !.todo = {t \in Pairs : token[t].exists /\ ~token[t].revoked}])
    /\ UNCHANGED <<Committed, tokenLock, FamilyLocks, sessLock>>

\* The family FOR UPDATE, then the UPDATE's statement snapshot of the tokens.
LockFamily(p) ==
    /\ req[p].pc = "lock_family"
    /\ owner = None /\ share \subseteq {p}
    /\ owner' = p
    /\ To(p, [req[p] EXCEPT !.pc = "revoke_tokens",
                            !.todo = {t \in Pairs : token[t].exists /\ ~token[t].revoked}])
    /\ UNCHANGED <<Committed, tokenLock, share, sessLock>>

\* The UPDATE reaches one row after the other.
RevokeToken(p) ==
    /\ req[p].pc = "revoke_tokens"
    /\ \E t \in req[p].todo :
         /\ tokenLock[t] \in {None, p}
         /\ tokenLock' = [tokenLock EXCEPT ![t] = p]
         /\ To(p, [req[p] EXCEPT !.todo = @ \ {t}])
    /\ UNCHANGED <<Committed, FamilyLocks, sessLock>>

RevokeSession(p) ==
    /\ req[p].pc = "revoke_tokens" /\ req[p].todo = {}
    /\ sessLock = None
    /\ sessLock' = p
    /\ To(p, [req[p] EXCEPT !.pc = "compromise_commit"])
    /\ UNCHANGED <<Committed, tokenLock, FamilyLocks>>

\* The rows the UPDATE reached, every one locked by this transaction.
RevokedTokens(p) ==
    [t \in Pairs |-> IF tokenLock[t] = p THEN [token[t] EXCEPT !.revoked = TRUE] ELSE token[t]]

CompromiseCommit(p) ==
    /\ req[p].pc = "compromise_commit"
    /\ token' = RevokedTokens(p)
    /\ family' = "compromised" /\ session' = "revoked"
    /\ EndTx(p, "refused")

-----------------------------------------------------------------------------

\* The requests p waits for.
Holders(p) ==
    CASE req[p].pc = "lock_token" -> {tokenLock[req[p].t]}
      [] req[p].pc = "insert" -> {owner}
      [] req[p].pc = "lock_family" -> {owner} \cup share
      [] req[p].pc = "revoke_tokens" /\ req[p].todo # {} ->
            IF \E t \in req[p].todo : tokenLock[t] \in {None, p} THEN {}
            ELSE {tokenLock[t] : t \in req[p].todo}
      [] req[p].pc \in {"revoke_tokens", "touch_session"} -> {sessLock}
      [] OTHER -> {}

WaitsFor(p) == Holders(p) \ {None, p}

Deadlocked(S) == S # {} /\ \A q \in S : WaitsFor(q) \cap S # {}

\* PostgreSQL's deadlock detector aborts one transaction of a cycle.
AbortVictim(p) ==
    /\ \E S \in SUBSET Procs : p \in S /\ Deadlocked(S)
    /\ EndTx(p, "aborted")
    /\ UNCHANGED Committed

Init ==
    /\ token = [t \in Pairs |-> [exists |-> t = 0, consumed |-> FALSE, revoked |-> FALSE]]
    /\ family = "active" /\ session = "active"
    /\ tokenLock = [t \in Pairs |-> None]
    /\ share = {} /\ owner = None /\ sessLock = None
    /\ req = [p \in Procs |-> Idle]

Next ==
    \E p \in Procs :
        \/ \E t \in Pairs : Resolve(p, t)
        \/ LockToken(p) \/ RotateInsert(p) \/ TouchSession(p) \/ RotateCommit(p)
        \/ LockFamily(p) \/ RevokeToken(p) \/ RevokeSession(p) \/ CompromiseCommit(p)
        \/ AbortVictim(p)

Spec == Init /\ [][Next]_vars

-----------------------------------------------------------------------------
(* Properties.                                                             *)

TypeOK ==
    /\ token \in [Pairs -> AuthToken]
    /\ family \in {"active", "compromised"} /\ session \in {"active", "revoked"}
    /\ tokenLock \in [Pairs -> Procs \cup {None}]
    /\ share \subseteq Procs /\ owner \in Procs \cup {None}

\* The family is one chain: a refresh token has a successor exactly when it
\* was consumed, so concurrent exchanges of one token never fork the lineage
\* and uq_auth_token_family_rotation is never met.
LineageIsAChain ==
    \A t \in Pairs : t < MaxRotation => (token[t + 1].exists <=> token[t].consumed)

\* Once a replay revoked the family, no token of the session is usable, also
\* not one that a concurrent exchange inserted while the replay was handled.
CompromiseIsComplete ==
    family = "compromised" =>
        session = "revoked" /\ \A t \in Pairs : token[t].exists => token[t].revoked

=============================================================================
