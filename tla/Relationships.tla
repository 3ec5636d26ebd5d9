---------------------------- MODULE Relationships ----------------------------
(***************************************************************************)
(* Follows, blocks and direct messages: SocialService                      *)
(* (modules/social/services.py) and the direct-message half of             *)
(* CommunityService (modules/community/services.py).  Both take the same   *)
(* advisory lock on the ordered account pair, and the offline mail reads   *)
(* messages and moves read cursors without it.                             *)
(*                                                                         *)
(* Message identifiers come from a sequence when the row is inserted, so   *)
(* they follow the order of the inserts, not of the commits.               *)
(***************************************************************************)
EXTENDS Naturals, Sequences, FiniteSets, FiniteSetsExt
LOCAL INSTANCE Folds

CONSTANTS
    Accounts,
    Procs,       \* request tasks
    Devices,     \* devices reading offline mail
    Setups,      \* [commands, follows, blocks, policy]: the instances checked
    None,
    MaxSends,    \* bound on commands
    MaxReads,    \* bound on mail readings
    PageLimit    \* messages of one page of offline mail

VARIABLES
    setup,
    follows, blocks,   \* sets of <<actor, target>>
    policy,            \* private_message_policy of each account
    chats,             \* pairs with a direct conversation
    msgs,              \* committed messages [id, from, to, uuid]
    nextId,            \* the message sequence
    cursor,            \* <<reader, other>> -> last_read_message_id
    log,               \* outbox events, in commit order
    tx,                \* the transaction of each task
    mail,              \* the cursors a device is about to store
    shown,             \* account -> messages its devices have been shown
    sends, reads       \* commands and mail readings so far

facts == <<follows, blocks, policy, chats, msgs, log>>
rlVars == <<setup, facts, nextId, cursor, tx, mail, shown, sends, reads>>

Pair(x, y) == {x, y}
Free == [pc |-> "idle", cmd |-> None, seen |-> None, id |-> 0]

Init ==
    /\ setup \in Setups
    /\ follows = setup.follows /\ blocks = setup.blocks /\ policy = setup.policy
    /\ chats = {} /\ msgs = {} /\ log = <<>>
    /\ nextId = 1
    /\ cursor = [k \in Accounts \X Accounts |-> 0]
    /\ tx = [p \in Procs |-> Free]
    /\ mail = [d \in Devices |-> None]
    /\ shown = [a \in Accounts |-> {}]
    /\ sends = 0 /\ reads = 0

-----------------------------------------------------------------------------
\* Mutant: no lock on the pair is looked at.
NeverLocked(c) == FALSE

Locked(c) == \E q \in Procs : tx[q].pc # "idle" /\ Pair(tx[q].cmd.by, tx[q].cmd.to) = Pair(c.by, c.to)

\* A command begins and takes the lock of its account pair.
Enter(p, c) ==
    /\ tx[p].pc = "idle" /\ sends < MaxSends
    /\ ~Locked(c)
    /\ tx' = [tx EXCEPT ![p] = [pc |-> "read", cmd |-> c, seen |-> None, id |-> 0]]
    /\ sends' = sends + 1
    /\ UNCHANGED <<setup, facts, nextId, cursor, mail, shown, reads>>

Done(p) == tx' = [tx EXCEPT ![p] = Free]

\* What a command reads about its pair, in one statement: the follows and
\* blocks of both directions, and for a message the recipient's policy.
GetPairRelationship(c) ==
    [follows |-> <<c.by, c.to>> \in follows, followsBack |-> <<c.to, c.by>> \in follows,
     out |-> <<c.by, c.to>> \in blocks, in |-> <<c.to, c.by>> \in blocks]
GetDirectMessageContext(c) ==
    [blocked |-> {<<c.by, c.to>>, <<c.to, c.by>>} \cap blocks # {},
     followsBack |-> <<c.to, c.by>> \in follows, policy |-> policy[c.to]]
EnforceDirectMessageContext(x) == ~x.blocked /\ (x.policy = "all" \/ x.followsBack)

MessageByClientId(c) == {m \in msgs : m.from = c.by /\ m.uuid = c.uuid}

\* A follow is refused by the target's block and repeated without effect, as
\* the other changes of the relation are.
NothingToDo(c, f) ==
    CASE c.op = "follow" -> f.in \/ (f.follows /\ ~f.out)
      [] c.op = "unfollow" -> ~f.follows
      [] c.op = "unblock" -> ~f.out
      [] c.op = "block" -> f.out /\ ~f.follows /\ ~f.followsBack

ReadRelation(p) ==
    LET c == tx[p].cmd
        f == GetPairRelationship(c) IN
    /\ tx[p].pc = "read" /\ c.op \in {"follow", "unfollow", "block", "unblock"}
    /\ IF NothingToDo(c, f) THEN Done(p)
       ELSE tx' = [tx EXCEPT ![p].pc = "commit", ![p].seen = f]
    /\ UNCHANGED <<setup, facts, nextId, cursor, mail, shown, sends, reads>>

\* A message already sent is answered, or refused, without a new one; either
\* block and the recipient's policy refuse a message, not a conversation.
ReadContext(p) ==
    LET c == tx[p].cmd IN
    /\ tx[p].pc = "read" /\ c.op \in {"open", "send"}
    /\ IF \/ c.op = "open" /\ Pair(c.by, c.to) \in chats
          \/ c.op = "send" /\ (MessageByClientId(c) # {}
                                \/ ~EnforceDirectMessageContext(GetDirectMessageContext(c)))
       THEN Done(p)
       ELSE tx' = [tx EXCEPT ![p].pc = IF c.op = "send" THEN "insert" ELSE "commit"]
    /\ UNCHANGED <<setup, facts, nextId, cursor, mail, shown, sends, reads>>

Event(type, c) == [type |-> type, by |-> c.by, to |-> c.to]
ConversationEvents(c) == IF Pair(c.by, c.to) \in chats THEN <<>> ELSE <<Event("opened", c)>>
MessageEvents(c, id) == IF id = 0 THEN <<>> ELSE <<Event("sent", c)>>

UpsertFollow(c) == follows \cup {<<c.by, c.to>>}
DeleteFollow(c) == follows \ {<<c.by, c.to>>}
DeletePairFollows(c) == follows \ {<<c.by, c.to>>, <<c.to, c.by>>}
UpsertBlock(c) == blocks \cup {<<c.by, c.to>>}
DeleteBlock(c) == blocks \ {<<c.by, c.to>>}
GetOrCreateDirectConversation(c) == chats \cup {Pair(c.by, c.to)}
Committing(p, op) ==
    /\ tx[p].pc = "commit" /\ tx[p].cmd.op = op
    /\ Done(p)
    /\ UNCHANGED <<setup, nextId, cursor, mail, shown, sends, reads>>

\* follow removes the actor's own block first, with an event of its own.
CommitFollow(p) ==
    LET c == tx[p].cmd IN
    /\ Committing(p, "follow")
    /\ blocks' = DeleteBlock(c)
    /\ follows' = UpsertFollow(c)
    /\ log' = log \o (IF tx[p].seen.out THEN <<Event("unblocked", c)>> ELSE <<>>)
                  \o (IF tx[p].seen.follows THEN <<>> ELSE <<Event("followed", c)>>)
    /\ UNCHANGED <<policy, chats, msgs>>

CommitUnfollow(p) ==
    /\ Committing(p, "unfollow")
    /\ follows' = DeleteFollow(tx[p].cmd)
    /\ log' = Append(log, Event("unfollowed", tx[p].cmd))
    /\ UNCHANGED <<blocks, policy, chats, msgs>>

\* block removes the follows of both directions.
CommitBlock(p) ==
    LET c == tx[p].cmd IN
    /\ Committing(p, "block")
    /\ blocks' = UpsertBlock(c)
    /\ follows' = DeletePairFollows(c)
    /\ log' = Append(log, Event("blocked", c))
    /\ UNCHANGED <<policy, chats, msgs>>

CommitUnblock(p) ==
    /\ Committing(p, "unblock")
    /\ blocks' = DeleteBlock(tx[p].cmd)
    /\ log' = Append(log, Event("unblocked", tx[p].cmd))
    /\ UNCHANGED <<follows, policy, chats, msgs>>

CommitOpen(p) ==
    LET c == tx[p].cmd IN
    /\ Committing(p, "open")
    /\ chats' = GetOrCreateDirectConversation(c)
    /\ log' = log \o ConversationEvents(c)
    /\ UNCHANGED <<follows, blocks, policy, msgs>>

-----------------------------------------------------------------------------
\* Direct messages.

SameMessage(c, d) == c.op = "send" /\ d.op = "send" /\ c.by = d.by /\ c.uuid = d.uuid

\* INSERT ... ON CONFLICT DO NOTHING on the sender and the client's UUID: it
\* waits for an uncommitted row, and inserts nothing where one is committed.
Insert(p) ==
    LET c == tx[p].cmd
        won == MessageByClientId(c) = {} IN
    /\ tx[p].pc = "insert"
    /\ \A q \in Procs \ {p} : ~(tx[q].pc = "commit" /\ SameMessage(c, tx[q].cmd))
    /\ tx' = [tx EXCEPT ![p].pc = "commit", ![p].id = IF won THEN nextId ELSE 0]
    /\ nextId' = IF won THEN nextId + 1 ELSE nextId
    /\ UNCHANGED <<setup, facts, cursor, mail, shown, sends, reads>>

MessageRow(c, id) == [id |-> id, from |-> c.by, to |-> c.to, uuid |-> c.uuid]

CommitSend(p) ==
    LET c == tx[p].cmd IN
    /\ Committing(p, "send")
    /\ chats' = GetOrCreateDirectConversation(c)
    /\ msgs' = msgs \cup (IF tx[p].id = 0 THEN {}
                          ELSE {MessageRow(c, tx[p].id)})
    /\ log' = log \o ConversationEvents(c) \o MessageEvents(c, tx[p].id)
    /\ UNCHANGED <<follows, blocks, policy>>

\* An error or a crash rolls the transaction back; an identifier is lost.
Rollback(p) ==
    /\ tx[p].pc # "idle" /\ Done(p)
    /\ UNCHANGED <<setup, facts, nextId, cursor, mail, shown, sends, reads>>

PolicyOf(friendsOnly) == IF friendsOnly THEN "friends" ELSE "all"

\* set_private_message_policy takes no lock.
SetPolicy(a) ==
    /\ policy' = [policy EXCEPT ![a] = PolicyOf(@ = "all")]
    /\ sends < MaxSends /\ sends' = sends + 1
    /\ UNCHANGED <<setup, follows, blocks, chats, msgs, log, nextId, cursor, tx, mail, shown, reads>>

-----------------------------------------------------------------------------
\* Offline mail.

LastOf(S, f) == Max({0} \cup {m.id : m \in {n \in S : n.from = f}})
UnreadDirectMessages(a) == {m \in msgs : m.to = a /\ m.id > cursor[<<a, m.from>>]}
Page(S) == {m \in S : Cardinality({n \in S : n.id < m.id}) < PageLimit}

Look(d, a, S) ==
    /\ mail[d] = None /\ reads < MaxReads /\ S # {}
    /\ reads' = reads + 1
    /\ mail' = [mail EXCEPT ![d] = [of |-> a, last |-> [f \in Accounts |-> LastOf(S, f)]]]
    /\ shown' = [shown EXCEPT ![a] = @ \cup {m.id : m \in S}]
    /\ UNCHANGED <<setup, facts, nextId, cursor, tx, sends>>

\* A page of unread messages in the order of their identifiers.
ListMail(d, a) == Look(d, a, Page(UnreadDirectMessages(a)))

MessagesOfPeer(a, f) == {m \in msgs : m.to = a /\ m.from = f}

\* The peer's latest message: the conversation counts as read up to it.
ReadConversation(d, a, f) == Look(d, a, MessagesOfPeer(a, f))

\* The upsert of a read cursor, which leaves a later one alone.
AdvancedCursor(old, id) == IF old < id THEN id ELSE old

\* The cursors read earlier are stored, one for each conversation.
AdvanceCursors(d) ==
    /\ mail[d] # None
    /\ mail' = [mail EXCEPT ![d] = None]
    /\ cursor' = [k \in DOMAIN cursor |->
                    IF k[1] = mail[d].of THEN AdvancedCursor(cursor[k], mail[d].last[k[2]]) ELSE cursor[k]]
    /\ UNCHANGED <<setup, facts, nextId, tx, shown, sends, reads>>

\* A client names one message of the channel that it has shown.
MarkRead(a) ==
    /\ reads < MaxReads /\ reads' = reads + 1
    /\ \E m \in {n \in msgs : n.to = a /\ n.id \in shown[a]} :
        cursor' = [cursor EXCEPT ![<<a, m.from>>] = AdvancedCursor(@, m.id)]
    /\ UNCHANGED <<setup, facts, nextId, tx, mail, shown, sends>>

Next ==
    \/ \E p \in Procs :
        \/ \E c \in setup.commands : Enter(p, c)
        \/ ReadRelation(p) \/ ReadContext(p) \/ Insert(p) \/ Rollback(p)
        \/ CommitFollow(p) \/ CommitUnfollow(p) \/ CommitBlock(p) \/ CommitUnblock(p)
        \/ CommitOpen(p) \/ CommitSend(p)
    \/ \E a \in setup.movers : SetPolicy(a)
    \/ \E a \in setup.readers : MarkRead(a)
    \/ \E d \in Devices :
        \/ \E a \in setup.readers : ListMail(d, a) \/ \E f \in Accounts : ReadConversation(d, a, f)
        \/ AdvanceCursors(d)

Spec == Init /\ [][Next]_rlVars

-----------------------------------------------------------------------------
\* Nobody follows an account across a block of either direction: follow and
\* block read and change the relation under one pair lock.
NoFollowAcrossBlock ==
    \A b \in blocks : b \notin follows /\ <<b[2], b[1]>> \notin follows

Replay(e, g) ==
    LET d == <<e.by, e.to>> IN
    CASE e.type = "followed" -> [g EXCEPT !.follows = @ \cup {d}]
      [] e.type = "unfollowed" -> [g EXCEPT !.follows = @ \ {d}]
      [] e.type = "blocked" -> [follows |-> g.follows \ {d, <<e.to, e.by>>}, blocks |-> g.blocks \cup {d}]
      [] e.type = "unblocked" -> [g EXCEPT !.blocks = @ \ {d}]
      [] OTHER -> g

\* The social events, in outbox order, replay to the follows and blocks the
\* tables hold: the projections that consume them lose no change and see
\* none twice.
EventsExplainRelation ==
    MapThenFoldSet(LAMBDA i, g : Replay(log[i], g), [follows |-> setup.follows, blocks |-> setup.blocks],
                   LAMBDA i : i, LAMBDA S : Max(S), DOMAIN log)
        = [follows |-> follows, blocks |-> blocks]

\* A direct message and a conversation are announced once: as many events as
\* rows, and one message for a sender's client UUID.
AnnouncedOnce ==
    LET Events(t) == Cardinality({i \in DOMAIN log : log[i].type = t}) IN
    /\ Events("sent") = Cardinality(msgs) /\ Events("opened") = Cardinality(chats)
    /\ \A m, n \in msgs : m.from = n.from /\ m.uuid = n.uuid => m = n

\* No message is committed to a pair while either account blocks the other,
\* however the block raced with the checks of send_direct_message.
BlockStopsMessages ==
    \A m \in msgs' \ msgs : <<m.from, m.to>> \notin blocks' /\ <<m.to, m.from>> \notin blocks'

\* A read cursor passes only messages its account has been shown: within a
\* conversation identifiers commit in order, so no message turns up behind it.
NothingReadUnseen ==
    \A m \in msgs : m.id <= cursor[<<m.to, m.from>>] => m.id \in shown[m.to]

\* A read cursor never moves back, whatever device stores its page last.
CursorForward == \A k \in DOMAIN cursor : cursor'[k] >= cursor[k]
=============================================================================
