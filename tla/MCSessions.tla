----------------------------- MODULE MCSessions -----------------------------
(* Durable client sessions, OAuth token families, Stable logins and the      *)
(* bubble bus, checked as the parts of one state space.                      *)
EXTENDS MCParts

VARIABLES
  cred, sess, uses, opened, closed, advisory, rowLock, polled,
  token, family, session, tokenLock, share, owner, sessLock,
  dur, idle, rt, lease, presence, tok, h, failed, lost,
  deadline, group, last, conn, got, gate, answered, note

clientVars == <<cred, sess, uses, opened, closed, advisory, rowLock, polled>>
oauthVars == <<token, family, session, tokenLock, share, owner, sessLock>>
stableVars == <<dur, idle, rt, lease, presence, tok, h, failed, lost>>
busVars == <<deadline, group, last, conn, got, gate, answered, note>>
sessionVars == <<clientVars, oauthVars, stableVars, busVars>>

\* Two handlers log in, poll, log out and revoke over three session ids.
C == INSTANCE ClientSessions WITH
  Procs <- {p1, p2}, Sessions <- {s1, s2, s3}, StaleGrace <- 3, TouchInterval <- 2,
  Lifetime <- 4, Algorithms <- {"bcrypt_md5"}, MaxTime <- 3, MaxVersion <- 2,
  Kinds <- {"login", "touch", "close", "revoke"}

\* Web requests verify passwords through the proof cache meanwhile.
V == INSTANCE ClientSessions WITH
  Procs <- {p1, p2}, Sessions <- {s1, s2, s3}, StaleGrace <- 2, TouchInterval <- 1,
  Lifetime <- 3, Algorithms <- {"argon2id", "argon2id_old"}, MaxTime <- 1, MaxVersion <- 2,
  Kinds <- {"login", "close", "revoke", "verify", "grant"}

\* Three requests exchange and replay the tokens of one family.
O == INSTANCE OAuthTokens WITH Procs <- {s1, s2, s3}, MaxRotation <- 3

\* Two clients of one account whose calls fail and who crash.
T == INSTANCE StableSessions WITH
  Clients <- {p1, p2}, Sessions <- {s1, s2, s3}, Grace <- 1, RtTtl <- 2,
  Failing <- {"list", "open", "join", "presence", "answer", "fence", "close", "crash"}

\* Three polls of two logins over one stream.
P == INSTANCE BubbleBus WITH
  SignalR <- {}, Sockets <- {}, Polls <- {s1, s2, s3}, MaxEntries <- 2, Ttl <- 2,
  GateTtl <- 1, Batch <- 2, Faults <- {"presences"}, MaxBubbles <- 2,
  MaxLogins <- 2, MaxTime <- 2

\* A hub and a WebSocket bridge over one stream.
B == INSTANCE BubbleBus WITH
  SignalR <- {"hub"}, Sockets <- {"socket"}, Polls <- {}, MaxEntries <- 2, Ttl <- 2,
  GateTtl <- 1, Batch <- 2, Faults <- {"receive"}, MaxBubbles <- 3,
  MaxLogins <- 1, MaxTime <- 4

ASSUME C!IntervalAssumption /\ C!LifetimeAssumption /\ V!IntervalAssumption
ASSUME O!RotationAssumption /\ T!TimesAssumption /\ P!BusAssumption /\ B!BusAssumption

NoClients ==
  /\ cred = None /\ sess = None /\ uses = None /\ opened = None /\ closed = None
  /\ advisory = None /\ rowLock = None /\ polled = None
NoOAuth ==
  /\ token = None /\ family = None /\ session = None /\ tokenLock = None
  /\ share = None /\ owner = None /\ sessLock = None
NoStable ==
  /\ dur = None /\ idle = None /\ rt = None /\ lease = None /\ presence = None
  /\ tok = None /\ h = None /\ failed = None /\ lost = None
NoBus ==
  /\ deadline = None /\ group = None /\ last = None /\ conn = None /\ got = None
  /\ gate = None /\ answered = None /\ note = None
NoSessions == NoClients /\ NoOAuth /\ NoStable /\ NoBus

\* The shared variables that clients, and that the bus, does not use.
NoStream == stream = None /\ poll = None /\ fence = None
NoRequest == req = None /\ cache = None

SessionsInit ==
  /\ setup = None /\ log = None /\ history = None /\ shown = None
  /\ \/ part = "client" /\ C!Init /\ NoOAuth /\ NoStable /\ NoBus /\ NoStream
     \/ part = "verify" /\ V!Init /\ NoOAuth /\ NoStable /\ NoBus /\ NoStream
     \/ part = "oauth" /\ O!Init /\ now = 0 /\ cache = None /\ NoClients /\ NoStable /\ NoBus /\ NoStream
     \/ part = "stable" /\ T!Init /\ now = 0 /\ NoRequest /\ NoClients /\ NoOAuth /\ NoBus /\ NoStream
     \/ part = "polls" /\ P!Init /\ NoRequest /\ NoClients /\ NoOAuth /\ NoStable
     \/ part = "bridge" /\ B!Init /\ NoRequest /\ NoClients /\ NoOAuth /\ NoStable

\* The last disjunct: a bridge whose bounded publisher is done may rest.
SessionsNext ==
  /\ UNCHANGED <<part, setup, log, history, shown>>
  /\ \/ part = "client" /\ C!Next /\ UNCHANGED <<oauthVars, stableVars, busVars, stream, poll, fence>>
     \/ part = "verify" /\ V!Next /\ UNCHANGED <<oauthVars, stableVars, busVars, stream, poll, fence>>
     \/ /\ part = "oauth" /\ O!Next
        /\ UNCHANGED <<now, cache, clientVars, stableVars, busVars, stream, poll, fence>>
     \/ /\ part = "stable" /\ T!Next
        /\ UNCHANGED <<now, req, cache, clientVars, oauthVars, busVars, stream, poll, fence>>
     \/ part = "polls" /\ P!Next /\ UNCHANGED <<req, cache, clientVars, oauthVars, stableVars>>
     \/ part = "bridge" /\ B!Next /\ UNCHANGED <<req, cache, clientVars, oauthVars, stableVars>>
     \/ part = "bridge" /\ UNCHANGED <<partVars, sessionVars>>

SessionsSpec == SessionsInit /\ [][SessionsNext]_<<partVars, sessionVars>>

\* The docstring of exchange_password: a grant whose password is right is
\* refused only when the credential changed meanwhile.
RightPasswordGranted == [][part = "verify" => V!RightPasswordGranted]_<<partVars, sessionVars>>
=============================================================================
