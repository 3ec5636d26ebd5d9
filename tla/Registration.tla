---------------------------- MODULE Registration ----------------------------
(***************************************************************************)
(* Account registration (modules/account/services.py and                   *)
(* infra/db/repositories/account.py): claim the receipt of the request,    *)
(* lock the name and the email in numeric order of their advisory keys,    *)
(* look both up, insert the account with its name, email, credential and   *)
(* default role, append the event and complete the receipt, in one         *)
(* transaction.  A client that lost the answer sends the request again.    *)
(***************************************************************************)
EXTENDS Naturals, Sequences, FiniteSets

CONSTANTS
    Procs,       \* request tasks
    Requests,    \* [key, name, email]: the registrations clients send
    Rank,        \* advisory lock key of every name and email
    None,
    MaxSends     \* bound on the requests sent

VARIABLES
    accounts,    \* committed accounts [name, email, by]
    receipts,    \* key -> None or [account, live]
    events,      \* account.registered.v1 events: account indexes
    rq,          \* the request of each task: [pc, cmd, want]
    held,        \* <<lock, task>>
    answers,     \* <<key, answer>> given to clients
    sends

regVars == <<accounts, receipts, events, rq, held, answers, sends>>

Idle == [pc |-> "idle", cmd |-> None, want |-> {}]
Keys == {r.key : r \in Requests}

Init ==
    /\ accounts = <<>> /\ events = <<>>
    /\ receipts = [k \in Keys |-> None]
    /\ rq = [p \in Procs |-> Idle]
    /\ held = {} /\ answers = {} /\ sends = 0

Others(r, p) == \E h \in held : h[1] = r /\ h[2] # p
Finish(p) == rq' = [rq EXCEPT ![p] = Idle] /\ held' = {h \in held : h[2] # p}
Answer(p, a) == answers' = answers \cup {<<rq[p].cmd.key, a>>}

\* Identifiers are normalised and the password hashed before the transaction.
Send(p, r) ==
    /\ rq[p].pc = "idle" /\ sends < MaxSends
    /\ sends' = sends + 1
    /\ rq' = [rq EXCEPT ![p] = [pc |-> "claim", cmd |-> r, want |-> {r.name, r.email}]]
    /\ UNCHANGED <<accounts, receipts, events, held, answers>>

\* A completed receipt answers the request; another request under the key is
\* refused (the digest differs); an uncommitted claim is waited for, and an
\* expired receipt is claimed again.
Claim(p) ==
    LET k == rq[p].cmd.key IN
    /\ rq[p].pc = "claim" /\ ~Others(<<"receipt", k>>, p)
    /\ IF receipts[k] # None /\ receipts[k].live
       THEN Finish(p) /\ Answer(p, "account")
       ELSE /\ rq' = [rq EXCEPT ![p].pc = "locks"]
            /\ held' = held \cup {<<<<"receipt", k>>, p>>}
            /\ UNCHANGED answers
    /\ UNCHANGED <<accounts, receipts, events, sends>>

\* The lock taken next: the smallest key still wanted.
NextLock(p) == {x \in rq[p].want : \A y \in rq[p].want : Rank[x] <= Rank[y]}

\* Mutant: only the name is locked.
LockNameOnly(p) ==
    /\ rq[p].pc = "locks"
    /\ LET x == rq[p].cmd.name IN
        /\ ~Others(<<"name", x>>, p)
        /\ held' = held \cup {<<<<"name", x>>, p>>}
        /\ rq' = [rq EXCEPT ![p].want = {}, ![p].pc = "check"]
    /\ UNCHANGED <<accounts, receipts, events, answers, sends>>

LockIdentifier(p) ==
    /\ rq[p].pc = "locks"
    /\ \E x \in NextLock(p) :
        /\ ~Others(<<"name", x>>, p)
        /\ held' = held \cup {<<<<"name", x>>, p>>}
        /\ rq' = [rq EXCEPT ![p].want = @ \ {x},
                            ![p].pc = IF rq[p].want = {x} THEN "check" ELSE "locks"]
    /\ UNCHANGED <<accounts, receipts, events, answers, sends>>

Taken(r) == \E i \in DOMAIN accounts : accounts[i].name = r.name \/ accounts[i].email = r.email

\* name_exists and email_exists: NameUnavailable or EmailUnavailable.
Check(p) ==
    /\ rq[p].pc = "check"
    /\ IF Taken(rq[p].cmd)
       THEN Finish(p) /\ Answer(p, IF \E i \in DOMAIN accounts : accounts[i].by = rq[p].cmd.key
                                   THEN "taken by itself" ELSE "unavailable")
       ELSE rq' = [rq EXCEPT ![p].pc = "commit"] /\ UNCHANGED <<held, answers>>
    /\ UNCHANGED <<accounts, receipts, events, sends>>

AccountGraph(r) == [name |-> r.name, email |-> r.email, by |-> r.key]
CompleteRegistration(k, n) == receipts' = [receipts EXCEPT ![k] = [account |-> n, live |-> TRUE]]

\* The account graph, its event and the receipt become visible together; the
\* answer may be lost on its way.
CommitAccount(p) ==
    LET n == Len(accounts) + 1 IN
    /\ rq[p].pc = "commit" /\ Finish(p)
    /\ accounts' = Append(accounts, AccountGraph(rq[p].cmd))
    /\ events' = Append(events, n)
    /\ CompleteRegistration(rq[p].cmd.key, n)
    /\ \/ Answer(p, "account")
       \/ UNCHANGED answers
    /\ UNCHANGED sends

Rollback(p) ==
    /\ rq[p].pc # "idle" /\ Finish(p)
    /\ UNCHANGED <<accounts, receipts, events, answers, sends>>

\* The receipt reaches its time to live.
Expire(k) ==
    /\ receipts[k] # None /\ receipts[k].live
    /\ receipts' = [receipts EXCEPT ![k].live = FALSE]
    /\ UNCHANGED <<accounts, events, rq, held, answers, sends>>

Next ==
    \/ \E k \in Keys : Expire(k)
    \/ \E p \in Procs :
        \/ \E r \in Requests : Send(p, r)
        \/ Claim(p) \/ LockIdentifier(p) \/ Check(p) \/ CommitAccount(p) \/ Rollback(p)

Spec == Init /\ [][Next]_regVars

-----------------------------------------------------------------------------
\* Two requests past their checks never share a name or an email: the lookups
\* under the advisory locks decide, and the insert never meets the unique
\* indexes on current names and active emails.
ChecksDecide ==
    \A p, q \in Procs :
        /\ p # q /\ rq[p].pc = "commit" /\ rq[q].pc = "commit"
        => rq[p].cmd.name # rq[q].cmd.name /\ rq[p].cmd.email # rq[q].cmd.email

\* A client that repeats its request is told about the account the request
\* created, never that its own name or email is taken, as long as the receipt
\* lives.
OwnNameNeverTaken ==
    \A k \in Keys : <<k, "taken by itself">> \in answers => receipts[k] # None /\ ~receipts[k].live

WaitsFor(p, q) ==
    /\ p # q
    /\ \/ rq[p].pc = "claim" /\ <<<<"receipt", rq[p].cmd.key>>, q>> \in held
       \/ rq[p].pc = "locks" /\ \E x \in NextLock(p) : <<<<"name", x>>, q>> \in held

\* Registrations never wait for each other in a cycle: a receipt is claimed
\* before any identifier, and identifiers are locked in one numeric order.
NoWaitCycle ==
    ~\E S \in (SUBSET Procs) \ {{}} : \A p \in S : \E q \in S : WaitsFor(p, q)
=============================================================================
