----------------------------- MODULE Management -----------------------------
(***************************************************************************)
(* The administrative commands of perfcho: grants of roles, permissions    *)
(* and entitlements (modules/authorization/management.py) and moderation   *)
(* cases and sanctions (modules/moderation/services.py), each one database *)
(* transaction.                                                            *)
(*                                                                         *)
(* Every command runs the same stages: lock the actor's account row, read  *)
(* the actor's permissions in two statements, lock the subject's account   *)
(* row (only commands that insert rows of that account), claim the         *)
(* idempotency receipt, lock the row the command changes, check it, and    *)
(* commit the change with its audit and outbox record and the completed    *)
(* receipt.  A command may fail at any stage, be chosen as the victim of a *)
(* deadlock, or have its answer lost, and is then sent again with the same *)
(* key.                                                                    *)
(***************************************************************************)
EXTENDS Naturals, Sequences, FiniteSets

CONSTANTS
    Procs,       \* server tasks running commands
    Setups,      \* [grants, cases, sanctions, commands]: the instances checked
    Perms,       \* role code -> permission codes of the role
    None,
    MaxTime,     \* bound on the clock
    MaxTries,    \* bound on the commands sent
    ReceiptTtl   \* lifetime of a receipt

VARIABLES
    setup,      \* the instance
    now,
    grants,     \* rows of the three grant tables
    cases,      \* moderation cases
    sanctions,
    history,    \* rows of sanction_event
    receipts,   \* scope and key -> None or [cmd, expires]
    log,        \* audit and outbox records, in commit order
    req,        \* the command each task runs
    locks,      \* <<resource, task>>
    tries

rows == <<grants, cases, sanctions, history, receipts, log>>
mgVars == <<setup, now, rows, req, locks, tries>>

\* An absent end: later than every time.
Never == 1000

\* Grants of each kind have receipts of their own.
Scope(c) == IF c.op \in {"grant", "revoke"} THEN <<c.op, c.kind, c.key>> ELSE <<c.op, c.key>>
Idle == [pc |-> "idle", cmd |-> None, at |-> 0, held |-> {}]

Init ==
    /\ setup \in Setups
    /\ now = 0
    /\ grants = setup.grants
    /\ cases = setup.cases
    /\ sanctions = setup.sanctions
    /\ history = [i \in 1..Len(setup.sanctions) |->
                    [sanction |-> i, action |-> "imposed", end |-> setup.sanctions[i].end]]
    /\ receipts = [s \in {Scope(c) : c \in setup.commands} |-> None]
    /\ log = <<>>
    /\ req = [p \in Procs |-> Idle]
    /\ locks = {}
    /\ tries = 0

-----------------------------------------------------------------------------
\* What a command needs.

GrantOps == {"grant", "revoke"}
InsertOps == {"grant", "open", "impose"}
Needed(op) == IF op \in GrantOps THEN "admin.access" ELSE "moderation.enforce"

Row(c) ==
    CASE c.op \in {"entry", "impose"} -> <<"case", c.target>>
      [] c.op \in {"extend", "lift"} -> <<"sanction", c.target>>
      [] c.op = "revoke" -> <<"grant", c.target>>

\* Mutant: the subject's account is not locked.
AfterSkippingSubject(c, stage) ==
    CASE stage = "actor" -> "roles"
      [] stage = "roles" -> "direct"
      [] stage = "direct" -> "claim"
      [] stage = "claim" -> IF c.op \in {"open", "grant"} THEN "check" ELSE "row"
      [] stage = "row" -> "check"

\* The stage after each stage.  Only commands that insert a row of the
\* subject lock the subject's account; only commands that change an existing
\* row lock one.
After(c, stage) ==
    CASE stage = "actor" -> "roles"
      [] stage = "roles" -> "direct"
      [] stage = "direct" -> IF c.op \in InsertOps THEN "subject" ELSE "claim"
      [] stage = "subject" -> "claim"
      [] stage = "claim" -> IF c.op \in {"open", "grant"} THEN "check" ELSE "row"
      [] stage = "row" -> "check"

Resource(c, stage) ==
    CASE stage = "actor" -> <<"account", c.actor>>
      [] stage = "subject" -> <<"account", c.subject>>
      [] stage = "claim" -> <<"receipt", Scope(c)>>
      [] stage = "row" -> Row(c)

LockStages == {"actor", "subject", "claim", "row"}
Holder(r) == {l[2] : l \in {x \in locks : x[1] = r}}
CanLock(p, r) == Holder(r) \subseteq {p}

Active(g, at) == ~g.revoked /\ g.start <= at /\ g.end > at
ActiveOf(a, kind, at) ==
    {i \in DOMAIN grants :
        grants[i].subject = a /\ grants[i].kind = kind /\ Active(grants[i], at)}

\* The statement on the roles, and the one on the direct grants, a denial
\* among which overrides every allowance.
RolePermissions(a, at) == UNION {Perms[grants[i].code] : i \in ActiveOf(a, "role", at)}
EffectivePermissions(held, a, at) ==
    LET direct == ActiveOf(a, "permission", at) IN
    (held \cup {grants[i].code : i \in {j \in direct : grants[j].allow}})
        \ {grants[i].code : i \in {j \in direct : ~grants[j].allow}}

Overlapping(row, start, end) == ~row.revoked /\ row.end > start /\ row.start < end

GrantOverlaps(c) ==
    \E i \in DOMAIN grants :
        /\ grants[i].subject = c.subject /\ grants[i].kind = c.kind /\ grants[i].code = c.code
        /\ Overlapping(grants[i], c.start, c.end)

SanctionOverlaps(c) ==
    \E i \in DOMAIN sanctions :
        /\ sanctions[i].subject = c.subject /\ sanctions[i].kind = c.kind
        /\ Overlapping(sanctions[i], c.start, c.end)

-----------------------------------------------------------------------------
\* Stages of a command.

Running(p) == req[p].pc # "idle"
CheckTime(p) == IF req[p].cmd.op \in GrantOps THEN req[p].at ELSE now
ClaimTime(p) == IF req[p].cmd.op \in GrantOps \cup {"lift"} THEN req[p].at ELSE now

Goto(p, stage) == req' = [req EXCEPT ![p].pc = stage]
End(p) ==
    /\ req' = [req EXCEPT ![p] = Idle]
    /\ locks' = {l \in locks : l[2] # p}

\* A client sends a command, or sends again one whose answer it did not get.
Submit(p, c) ==
    /\ ~Running(p) /\ tries < MaxTries
    /\ tries' = tries + 1
    /\ req' = [req EXCEPT ![p] = [pc |-> "actor", cmd |-> c, at |-> now, held |-> {}]]
    /\ UNCHANGED <<setup, now, rows, locks>>

\* SELECT ... FOR UPDATE of the account rows and of the row to change.
Lock(p) ==
    LET c == req[p].cmd IN
    /\ req[p].pc \in LockStages \ {"claim"}
    /\ CanLock(p, Resource(c, req[p].pc))
    /\ locks' = locks \cup {<<Resource(c, req[p].pc), p>>}
    /\ Goto(p, After(c, req[p].pc))
    /\ UNCHANGED <<setup, now, rows, tries>>

ReadRoles(p) ==
    /\ req[p].pc = "roles"
    /\ req' = [req EXCEPT ![p].pc = "direct",
                          ![p].held = RolePermissions(req[p].cmd.actor, CheckTime(p))]
    /\ UNCHANGED <<setup, now, rows, locks, tries>>

\* get_effective ends and the command is refused or goes on.
Authorize(p) ==
    LET c == req[p].cmd IN
    /\ req[p].pc = "direct"
    /\ IF Needed(c.op) \in EffectivePermissions(req[p].held, c.actor, CheckTime(p))
       THEN Goto(p, After(c, "direct")) /\ UNCHANGED locks
       ELSE End(p)
    /\ UNCHANGED <<setup, now, rows, tries>>

Replayed(c, at) == LET r == receipts[Scope(c)] IN r # None /\ r.expires > at

\* Claim the receipt, waiting for a transaction that holds it: a live one is
\* answered from its snapshot, or refused when it belongs to another request.
Claim(p) ==
    LET c == req[p].cmd IN
    /\ req[p].pc = "claim"
    /\ CanLock(p, Resource(c, "claim"))
    /\ IF Replayed(c, ClaimTime(p))
       THEN End(p)
       ELSE /\ locks' = locks \cup {<<Resource(c, "claim"), p>>}
            /\ req' = [req EXCEPT ![p].pc = After(c, "claim"), ![p].at = ClaimTime(p)]
    /\ UNCHANGED <<setup, now, rows, tries>>

Extendable(s, c) == ~s.revoked /\ s.end # Never /\ c.end > s.end

\* The command's own conditions on the committed rows.
Admissible(c) ==
    CASE c.op = "grant" -> ~GrantOverlaps(c)
      [] c.op = "revoke" -> c.target \in DOMAIN grants /\ ~grants[c.target].revoked
      [] c.op = "open" -> TRUE
      [] c.op = "entry" -> c.target \in DOMAIN cases
      [] c.op = "impose" -> /\ c.target \in DOMAIN cases
                            /\ cases[c.target].subject = c.subject
                            /\ ~SanctionOverlaps(c)
      [] c.op = "extend" -> c.target \in DOMAIN sanctions /\ Extendable(sanctions[c.target], c)
      [] c.op = "lift" -> c.target \in DOMAIN sanctions /\ ~sanctions[c.target].revoked

Check(p) ==
    /\ req[p].pc = "check"
    /\ IF Admissible(req[p].cmd) THEN Goto(p, "commit") /\ UNCHANGED locks ELSE End(p)
    /\ UNCHANGED <<setup, now, rows, tries>>

-----------------------------------------------------------------------------
\* Commits.  Each writes its rows, one audit and outbox record and the
\* completed receipt.

\* The lane of the event: the account's for grants, the row's for moderation.
RecordGrant(p) ==
    log' = Append(log, [cmd |-> req[p].cmd, at |-> req[p].at,
                        lane |-> <<"account", req[p].cmd.subject>>])
RecordModeration(p) ==
    LET c == req[p].cmd IN
    log' = Append(log, [cmd |-> c, at |-> req[p].at,
                        lane |-> CASE c.op = "open" -> <<"case", Len(cases) + 1>>
                                   [] c.op = "entry" -> <<"case_entry", c.target, cases[c.target].entries + 1>>
                                   [] c.op = "impose" -> <<"sanction", Len(sanctions) + 1>>
                                   [] OTHER -> <<"sanction", c.target>>])
Complete(p) ==
    LET c == req[p].cmd IN
    receipts' = [receipts EXCEPT ![Scope(c)] =
                    [cmd |-> c, expires |-> req[p].at + ReceiptTtl]]

Committing(p, op) ==
    /\ req[p].pc = "commit" /\ req[p].cmd.op = op
    /\ IF op \in GrantOps THEN RecordGrant(p) ELSE RecordModeration(p)
    /\ Complete(p) /\ End(p)
    /\ UNCHANGED <<setup, now, tries>>

GrantRow(c, allow) ==
    [subject |-> c.subject, kind |-> c.kind, code |-> c.code, allow |-> allow,
     start |-> c.start, end |-> c.end, revoked |-> FALSE]

\* Only a permission is granted with an effect, allow or deny.
GrantRole(c) == c.kind = "role" /\ grants' = Append(grants, GrantRow(c, TRUE))
GrantPermission(c) == c.kind = "permission" /\ grants' = Append(grants, GrantRow(c, c.allow))
GrantEntitlement(c) == c.kind = "entitlement" /\ grants' = Append(grants, GrantRow(c, TRUE))

CommitGrant(p) ==
    /\ Committing(p, "grant")
    /\ LET c == req[p].cmd IN GrantRole(c) \/ GrantPermission(c) \/ GrantEntitlement(c)
    /\ UNCHANGED <<cases, sanctions, history>>

Revoked(row) == [row EXCEPT !.revoked = TRUE]

CommitRevoke(p) ==
    /\ Committing(p, "revoke")
    /\ grants' = [grants EXCEPT ![req[p].cmd.target] = Revoked(@)]
    /\ UNCHANGED <<cases, sanctions, history>>

CaseRow(c) == [subject |-> c.subject, entries |-> 0]
AddCaseEntry(row) == [row EXCEPT !.entries = @ + 1]

CommitOpenCase(p) ==
    /\ Committing(p, "open")
    /\ cases' = Append(cases, CaseRow(req[p].cmd))
    /\ UNCHANGED <<grants, sanctions, history>>

CommitEntry(p) ==
    /\ Committing(p, "entry")
    /\ cases' = [cases EXCEPT ![req[p].cmd.target] = AddCaseEntry(@)]
    /\ UNCHANGED <<grants, sanctions, history>>

SanctionRow(c) ==
    [subject |-> c.subject, kind |-> c.kind, start |-> c.start, end |-> c.end, revoked |-> FALSE]
SanctionEvent(i, action, end) == [sanction |-> i, action |-> action, end |-> end]

CommitImpose(p) ==
    LET c == req[p].cmd IN
    /\ Committing(p, "impose")
    /\ sanctions' = Append(sanctions, SanctionRow(c))
    /\ history' = Append(history, SanctionEvent(Len(sanctions) + 1, "imposed", c.end))
    /\ UNCHANGED <<grants, cases>>

Extend(i, end) ==
    /\ sanctions' = [sanctions EXCEPT ![i].end = end]
    /\ history' = Append(history, SanctionEvent(i, "extended", end))

CommitExtend(p) ==
    /\ Committing(p, "extend")
    /\ Extend(req[p].cmd.target, req[p].cmd.end)
    /\ UNCHANGED <<grants, cases>>

Lift(i) ==
    /\ sanctions' = [sanctions EXCEPT ![i].revoked = TRUE]
    /\ history' = Append(history, SanctionEvent(i, "revoked", sanctions[i].end))

CommitLift(p) ==
    /\ Committing(p, "lift")
    /\ Lift(req[p].cmd.target)
    /\ UNCHANGED <<grants, cases>>

-----------------------------------------------------------------------------
\* The transaction is rolled back: an error, a lost connection, a crash.
Rollback(p) ==
    /\ Running(p) /\ End(p)
    /\ UNCHANGED <<setup, now, rows, tries>>

Waits(p) ==
    IF req[p].pc \in LockStages
    THEN Holder(Resource(req[p].cmd, req[p].pc)) \ {p}
    ELSE {}
Stuck(S) == S # {} /\ \A p \in S : \E q \in Waits(p) : q \in S
Deadlocked(p) == \E S \in SUBSET Procs : p \in S /\ Stuck(S)

Tick == now < MaxTime /\ now' = now + 1 /\ UNCHANGED <<setup, rows, req, locks, tries>>

Next ==
    \/ Tick
    \/ \E p \in Procs :
        \/ \E c \in setup.commands : Submit(p, c)
        \/ Lock(p) \/ ReadRoles(p) \/ Authorize(p) \/ Claim(p) \/ Check(p)
        \/ CommitGrant(p) \/ CommitRevoke(p) \/ CommitOpenCase(p) \/ CommitEntry(p)
        \/ CommitImpose(p) \/ CommitExtend(p) \/ CommitLift(p)
        \/ Rollback(p)

Spec == Init /\ [][Next]_mgVars

-----------------------------------------------------------------------------
\* The rows keep the shape of their tables, every record names the lane it is
\* delivered in, and a lock has one holder.
TypeOK ==
    /\ \A i \in DOMAIN grants :
        grants[i].kind \in {"role", "permission", "entitlement"} /\ grants[i].revoked \in BOOLEAN
    /\ \A i \in DOMAIN sanctions : sanctions[i].start < sanctions[i].end
    /\ \A i \in DOMAIN log : log[i].lane[1] \in {"account", "case", "case_entry", "sanction"}
    /\ \A l \in locks : l[2] \in Procs /\ Running(l[2])
    /\ \A l, m \in locks : l[1] = m[1] => l = m

\* Two live grants of one role, permission or entitlement to one account never
\* cover a common instant: the overlap query and the insert of grant_role,
\* grant_permission and grant_entitlement run under the subject's account lock.
GrantsDisjoint ==
    \A i, j \in DOMAIN grants :
        /\ i # j /\ ~grants[i].revoked
        /\ grants[i].subject = grants[j].subject
        /\ grants[i].kind = grants[j].kind /\ grants[i].code = grants[j].code
        => ~Overlapping(grants[j], grants[i].start, grants[i].end)

Extended(i) == \E k \in DOMAIN history : history[k].sanction = i /\ history[k].action = "extended"

\* Two live sanctions of one kind on one account overlap only where one of
\* them was extended: impose_sanction looks for overlaps under the subject's
\* account lock, extend_sanction does not look.
OverlapNeedsExtension ==
    \A i, j \in DOMAIN sanctions :
        /\ i # j /\ ~sanctions[i].revoked
        /\ sanctions[i].subject = sanctions[j].subject /\ sanctions[i].kind = sanctions[j].kind
        /\ Overlapping(sanctions[j], sanctions[i].start, sanctions[i].end)
        => Extended(i) \/ Extended(j)

\* The history of a sanction explains its row: it begins with the imposition,
\* every extension moves the end later, at most one revocation ends it, and
\* the row holds the last end, whatever commands raced or were repeated.
HistoryExplainsSanction ==
    \A i \in DOMAIN sanctions :
        LET es == SelectSeq(history, LAMBDA e : e.sanction = i) IN
        /\ es # <<>> /\ es[1].action = "imposed"
        /\ es[Len(es)].end = sanctions[i].end
        /\ \A k \in 2..Len(es) : es[k].action = "extended" => es[k].end > es[k - 1].end
        /\ \A k \in 1..Len(es) : (es[k].action = "revoked") = (k = Len(es) /\ sanctions[i].revoked)

\* One idempotency key takes effect once while its receipt lives: a repeated
\* command leaves a second audit and outbox record only when the receipt of
\* the first has expired.
OncePerReceipt ==
    \A i, j \in DOMAIN log :
        /\ i < j
        /\ Scope(log[i].cmd) = Scope(log[j].cmd)
        => log[j].at >= log[i].at + ReceiptTtl

\* Commands wait in a cycle only for the accounts of each other's actors: the
\* receipt and the case, sanction or grant row, locked last, never close one.
OnlyAccountsDeadlock ==
    \A p \in Procs : Deadlocked(p) => req[p].pc = "subject"
=============================================================================
