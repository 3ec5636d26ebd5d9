----------------------------- MODULE StableChat -----------------------------
(***************************************************************************)
(* Chat over Stable: the packets SEND_PRIVATE_MESSAGE,                     *)
(* SEND_PUBLIC_MESSAGE, CHANNEL_JOIN and CHANNEL_PART, the part of a login *)
(* that lists offline messages and makes the account present, and the web  *)
(* request that marks a conversation read.                                 *)
(*                                                                         *)
(* A handler commits a message first and then looks for its recipients; a  *)
(* login lists the unread messages first and is present last.  Policies    *)
(* and message ids out of commit order are in Relationships and            *)
(* ChannelFeed.  There is one public channel, joined by every login.       *)
(***************************************************************************)
EXTENDS Naturals, Sequences, FiniteSets

CONSTANTS
    Users,
    ChatSetups,  \* [script, blocks, faults, window]: the requests of every
                 \* user, pairs <<blocker, blocked>>, publications that may
                 \* fail, and how often a new five-second window begins
    Page,        \* messages a login lists
    None

VARIABLES
    chat,     \* the setup
    online,   \* per user: "out", "session" (no presence yet) or "present"
    logins,   \* per user, its logins
    said,     \* the committed messages, [id, direct, from, to]
    lastRead, \* per user and peer, the read cursor
    inside,   \* members of the channel
    stream,   \* per user, messages published and not drained
    req,      \* per user: [pc, next, n, listed]
    shown,    \* per user, what it was shown
    due,      \* per message, who must see it when the sender is done
    excused,  \* pairs <<user, message>> that no longer hold
    faults, window

chatVars == <<chat, online, logins, said, lastRead, inside, stream, req, shown, due, excused,
              faults, window>>

Ready(next) == [pc |-> "ready", next |-> next, n |-> 0, listed |-> {}]
Do(a) == chat.script[a][req[a].next]
Asks(a, what) == req[a].pc = "ready" /\ req[a].next <= Len(chat.script[a]) /\ Do(a).do = what
Done(a) == Ready(req[a].next + 1)

Init ==
    /\ chat \in ChatSetups
    /\ online = [a \in Users |-> "out"] /\ logins = [a \in Users |-> 0]
    /\ said = <<>>
    /\ lastRead = [a \in Users |-> [b \in Users |-> 0]]
    /\ inside = {}
    /\ stream = [a \in Users |-> <<>>]
    /\ req = [a \in Users |-> Ready(1)]
    /\ shown = [a \in Users |-> {}]
    /\ due = <<>> /\ excused = {}
    /\ faults = 0 /\ window = 0

Present(a) == online[a] = "present"

\* A login that has listed its messages and is not present yet.
Arriving(a) == req[a].pc \in {"open", "auto-join", "presence"}

-----------------------------------------------------------------------------
\* A message of the same text in the same window of the same session has the
\* same id, and is found instead of stored.
stable_message_id(a) == <<a, logins[a], Do(a).to, Do(a).text, window>>
Created(a) == \A n \in DOMAIN said : said[n].id # stable_message_id(a)

Stored(a, direct, owed) ==
    /\ said' = Append(said, [id |-> stable_message_id(a), direct |-> direct, from |-> a, to |-> Do(a).to])
    /\ due' = Append(due, owed)
    /\ excused' = excused \cup {<<b, Len(said) + 1>> : b \in {c \in owed : Arriving(c)}}

\* _send_private_message, up to the commit.
send_direct_message(a) ==
    /\ Asks(a, "direct") /\ Present(a)
    /\ IF Created(a)
       THEN /\ Stored(a, TRUE, {Do(a).to})
            /\ req' = [req EXCEPT ![a].pc = "look", ![a].n = Len(said) + 1]
       ELSE req' = [req EXCEPT ![a] = Done(a)] /\ UNCHANGED <<said, due, excused>>
    /\ UNCHANGED <<chat, online, logins, lastRead, inside, stream, shown, faults, window>>

\* get_presence of the target: without one the sender is told that the
\* message waits for the next login.
get_presence(a) ==
    /\ req[a].pc = "look"
    /\ req' = [req EXCEPT ![a] = IF Present(said[req[a].n].to)
                                 THEN [@ EXCEPT !.pc = "publish", !.listed = {said[req[a].n].to}] ELSE Done(a)]
    /\ UNCHANGED <<chat, online, logins, said, lastRead, inside, stream, shown, due, excused, faults, window>>

\* _publish_to_presence, and publish_many of _publish_many_online_recipients.
publish_to_presence(a) ==
    /\ req[a].pc = "publish"
    /\ stream' = [b \in Users |-> IF b \in req[a].listed THEN Append(stream[b], req[a].n) ELSE stream[b]]
    /\ req' = [req EXCEPT ![a] = Done(a)]
    /\ UNCHANGED <<chat, online, logins, said, lastRead, inside, shown, due, excused, faults, window>>

\* A publication that fails is logged and given up.
DeliveryDeferred(a) ==
    /\ req[a].pc = "publish" /\ faults < chat.faults
    /\ faults' = faults + 1
    /\ req' = [req EXCEPT ![a] = Done(a)]
    /\ excused' = excused \cup (req[a].listed \X {req[a].n})
    /\ UNCHANGED <<chat, online, logins, said, lastRead, inside, stream, shown, due, window>>

-----------------------------------------------------------------------------
\* filter_message_recipients: whom of the members the sender may reach.
\* Mutant: those the sender blocks are left out.
ReachableSwapped(a, to) == {b \in to \ {a} : <<a, b>> \notin chat.blocks}

Reachable(a, to) == {b \in to \ {a} : <<b, a>> \notin chat.blocks}

\* _send_public_message: only a member may send.
send_public_message(a) ==
    /\ Asks(a, "public") /\ Present(a)
    /\ IF a \in inside /\ Created(a)
       THEN /\ Stored(a, FALSE, {b \in inside \ {a} : Present(b) /\ <<b, a>> \notin chat.blocks})
            /\ req' = [req EXCEPT ![a].pc = "members", ![a].n = Len(said) + 1]
       ELSE req' = [req EXCEPT ![a] = Done(a)] /\ UNCHANGED <<said, due, excused>>
    /\ UNCHANGED <<chat, online, logins, lastRead, inside, stream, shown, faults, window>>

list_channel_members(a) ==
    /\ req[a].pc = "members"
    /\ req' = [req EXCEPT ![a].pc = "presences", ![a].listed = Reachable(a, inside)]
    /\ UNCHANGED <<chat, online, logins, said, lastRead, inside, stream, shown, due, excused, faults, window>>

get_presences(a) ==
    /\ req[a].pc = "presences"
    /\ LET there == {b \in req[a].listed : Present(b)} IN
       req' = [req EXCEPT ![a] = IF there = {} THEN Done(a) ELSE [@ EXCEPT !.pc = "publish", !.listed = there]]
    /\ UNCHANGED <<chat, online, logins, said, lastRead, inside, stream, shown, due, excused, faults, window>>

\* Nothing public is owed any more to someone who left the channel.
Released(a) == [n \in DOMAIN due |-> IF said[n].direct THEN due[n] ELSE due[n] \ {a}]

\* _join_channel and _part_channel.
join_channel(a) ==
    /\ Asks(a, "join") /\ Present(a)
    /\ inside' = inside \cup {a}
    /\ req' = [req EXCEPT ![a] = Done(a)]
    /\ UNCHANGED <<chat, online, logins, said, lastRead, stream, shown, due, excused, faults, window>>

part_channel(a) ==
    /\ Asks(a, "part") /\ Present(a)
    /\ inside' = inside \ {a}
    /\ due' = Released(a)
    /\ req' = [req EXCEPT ![a] = Done(a)]
    /\ UNCHANGED <<chat, online, logins, said, lastRead, stream, shown, excused, faults, window>>

-----------------------------------------------------------------------------
\* list_unread_offline_direct_messages: the oldest page.
Unread(a) == {n \in DOMAIN said : said[n].direct /\ said[n].to = a /\ n > lastRead[a][said[n].from]}

UnreadPage(a) == {n \in Unread(a) : Cardinality({m \in Unread(a) : m < n}) < Page}

LoginList(a) ==
    /\ Asks(a, "login") /\ online[a] = "out"
    /\ req' = [req EXCEPT ![a].pc = "open", ![a].listed = UnreadPage(a)]
    \* What the page leaves out is excused until the next login.
    /\ LET page == {n \in Unread(a) : Cardinality({m \in Unread(a) : m < n}) < Page} IN
       excused' = (excused \ ({a} \X page)) \cup ({a} \X (Unread(a) \ page))
    /\ UNCHANGED <<chat, online, logins, said, lastRead, inside, stream, shown, due, faults, window>>

LoginOpen(a) ==
    /\ req[a].pc = "open"
    /\ online' = [online EXCEPT ![a] = "session"]
    /\ logins' = [logins EXCEPT ![a] = @ + 1]
    /\ req' = [req EXCEPT ![a].pc = "auto-join"]
    /\ UNCHANGED <<chat, said, lastRead, inside, stream, shown, due, excused, faults, window>>

LoginJoin(a) ==
    /\ req[a].pc = "auto-join"
    /\ inside' = inside \cup {a}
    /\ req' = [req EXCEPT ![a].pc = "presence"]
    /\ UNCHANGED <<chat, online, logins, said, lastRead, stream, shown, due, excused, faults, window>>

\* The presence is set, and the answer carries the listed messages.
LoginPresence(a) ==
    /\ req[a].pc = "presence"
    /\ online' = [online EXCEPT ![a] = "present"]
    /\ shown' = [shown EXCEPT ![a] = @ \cup req[a].listed]
    /\ req' = [req EXCEPT ![a] = Done(a)]
    /\ UNCHANGED <<chat, logins, said, lastRead, inside, stream, due, excused, faults, window>>

\* A logout, or a session whose keys expire.
LogoutFence(a) ==
    /\ Asks(a, "logout") /\ Present(a)
    /\ online' = [online EXCEPT ![a] = "out"]
    /\ inside' = inside \ {a}
    /\ due' = Released(a)
    /\ req' = [req EXCEPT ![a] = Done(a)]
    /\ UNCHANGED <<chat, logins, said, lastRead, stream, shown, excused, faults, window>>

\* osu-markasread.php: up to the peer's latest message, seen or not.
mark_direct_conversation_read(a) ==
    /\ Asks(a, "read") /\ Present(a)
    /\ LET peer == Do(a).to
           theirs == {n \in DOMAIN said : said[n].direct /\ said[n].to = a /\ said[n].from = peer}
       IN /\ lastRead' = IF theirs = {} THEN lastRead
                         ELSE [lastRead EXCEPT ![a][peer] = CHOOSE n \in theirs : \A m \in theirs : m <= n]
          /\ excused' = excused \cup ({a} \X (theirs \ shown[a]))
    /\ req' = [req EXCEPT ![a] = Done(a)]
    /\ UNCHANGED <<chat, online, logins, said, inside, stream, shown, due, faults, window>>

\* A poll drains the stream; what a request of the user asks for comes first.
PollDrains(a) ==
    /\ req[a].pc = "ready" /\ Present(a) /\ stream[a] # <<>>
    /\ shown' = [shown EXCEPT ![a] = @ \cup {stream[a][k] : k \in DOMAIN stream[a]}]
    /\ stream' = [stream EXCEPT ![a] = <<>>]
    /\ UNCHANGED <<chat, online, logins, said, lastRead, inside, req, due, excused, faults, window>>

NextWindow ==
    /\ window < chat.window
    /\ window' = window + 1
    /\ UNCHANGED <<chat, online, logins, said, lastRead, inside, stream, req, shown, due, excused, faults>>

Next ==
    \/ NextWindow
    \/ \E a \in Users :
         send_direct_message(a) \/ get_presence(a) \/ publish_to_presence(a) \/ DeliveryDeferred(a)
         \/ send_public_message(a) \/ list_channel_members(a) \/ get_presences(a)
         \/ join_channel(a) \/ part_channel(a) \/ LoginList(a) \/ LoginOpen(a) \/ LoginJoin(a)
         \/ LoginPresence(a) \/ LogoutFence(a) \/ mark_direct_conversation_read(a) \/ PollDrains(a)

Quiet == \A a \in Users : req[a].pc = "ready" /\ (Present(a) => stream[a] = <<>>)

-----------------------------------------------------------------------------
Missed(direct) == {<<a, n>> \in (Users \X DOMAIN said) \ excused :
                      said[n].direct = direct /\ a \in due[n] /\ Present(a) /\ n \notin shown[a]}

\* A user that is online has been shown every direct message to it, by its
\* login or live, however the sending and the login interleaved.  Excused are
\* messages committed after the login listed and before it was present, those
\* beyond the page, a failed publication until the next login, and messages of
\* a conversation that was marked read before they were shown.
DirectMailSeen == Quiet => Missed(TRUE) = {}

\* Everyone who was in the channel and present when a message was committed,
\* does not block its sender, and did not leave, is shown it.
PublicHeard == Quiet => Missed(FALSE) = {}

\* A message sent again in the same window, because its answer was lost, is
\* published to nobody a second time.
PublishedOnce == \A a \in Users : \A j, k \in DOMAIN stream[a] : stream[a][j] = stream[a][k] => j = k
=============================================================================
