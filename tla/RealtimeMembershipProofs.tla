---------------------- MODULE RealtimeMembershipProofs ----------------------
(***************************************************************************)
(* The induction of RealtimeProofs for the keys that relate logins: the    *)
(* relations of spectators, the viewers of a host and the memberships of   *)
(* channels.                                                               *)
(***************************************************************************)
EXTENDS RealtimeProofs

-----------------------------------------------------------------------------
(* Spectators.                                                             *)

\* What RelationInv says of the relation r of spectator a, at time t, with
\* the epochs e and the viewer indexes v.
Joins(a, r, t, e, v) ==
    /\ t < r.exp /\ r.host # a /\ r.host = Account(r.hostFence) /\ a = Account(r.fence)
    /\ Owned(e[a], r.fence) /\ r.exp <= e[a].exp
    /\ Owned(e[r.host], r.hostFence) /\ r.exp <= e[r.host].exp
    /\ a \in DOMAIN v[r.host] /\ v[r.host][a] = r.exp

\* The epoch of a login is its session's, so it has not ended.
LEMMA OwnedFacts ==
    ASSUME KeyTypes, LoginInv, NEW f \in Fence, Owned(epoch[Account(f)], f)
    PROVE  /\ Current(f, now) /\ session[f.sid].exp = epoch[Account(f)].exp
           /\ session[f.sid].exp \in Nat /\ now < session[f.sid].exp
<1> DEFINE a == Account(f)
<1>1. a \in Accounts /\ epoch[a] # NoKey /\ FenceOf(epoch[a]) = f BY FenceFacts DEF Owned
<1>2. /\ session[epoch[a].sid] # NoKey /\ session[epoch[a].sid].exp = epoch[a].exp
      /\ epoch[a].exp \in Nat /\ now < epoch[a].exp /\ epoch[a] \in Expiring
  BY <1>1, CurrentLogin
<1>3. f.sid = epoch[a].sid BY <1>1, <1>2, ExpiringFacts
<1> QED BY <1>2, <1>3, Zenon DEF Current

\* A stored relation joins two logins whose sessions are stored.
LEMMA RelationFacts ==
    ASSUME KeyTypes, LoginInv, RelationInv, NEW a \in Accounts, relation[a] # NoKey
    PROVE  LET r == relation[a] IN
           /\ Joins(a, r, now, epoch, viewers) /\ r \in RelationKey /\ r.exp \in Nat
           /\ r.host \in Accounts /\ r.hostFence \in Fence /\ r.fence \in Fence
           /\ Current(r.fence, now) /\ session[r.fence.sid].exp = epoch[a].exp
           /\ session[r.fence.sid].exp \in Nat /\ now < session[r.fence.sid].exp
           /\ Current(r.hostFence, now) /\ session[r.hostFence.sid].exp = epoch[r.host].exp
           /\ session[r.hostFence.sid].exp \in Nat /\ now < session[r.hostFence.sid].exp
           /\ viewers[r.host] \in Maps(Accounts, Nat) /\ viewers[r.host][a] > now
<1> DEFINE r == relation[a]
<1>1. Joins(a, r, now, epoch, viewers) BY Zenon DEF RelationInv, Joins
<1>2. r \in RelationKey BY Zenon DEF KeyTypes, Keys
<1> HIDE DEF r
<1>3. r.exp \in Nat /\ r.host \in Accounts /\ r.hostFence \in Fence /\ r.fence \in Fence
  BY <1>2 DEF RelationKey
<1>4. /\ a = Account(r.fence) /\ Owned(epoch[a], r.fence)
      /\ r.host = Account(r.hostFence) /\ Owned(epoch[r.host], r.hostFence)
      /\ viewers[r.host][a] = r.exp /\ now < r.exp
  BY <1>1, Zenon DEF Joins
<1>5. /\ Current(r.fence, now) /\ session[r.fence.sid].exp = epoch[a].exp
      /\ session[r.fence.sid].exp \in Nat /\ now < session[r.fence.sid].exp
  BY <1>3, <1>4, OwnedFacts, Zenon
<1>6. /\ Current(r.hostFence, now) /\ session[r.hostFence.sid].exp = epoch[r.host].exp
      /\ session[r.hostFence.sid].exp \in Nat /\ now < session[r.hostFence.sid].exp
  BY <1>3, <1>4, OwnedFacts, Zenon
<1>7. viewers[r.host] \in Maps(Accounts, Nat) /\ viewers[r.host][a] > now BY <1>3, <1>4, Zenon DEF KeyTypes
<1> QED BY <1>1, <1>2, <1>3, <1>5, <1>6, <1>7, Zenon DEF r

\* A relation stays when its logins and its entry in the viewer index do.
LEMMA RelationKept ==
    ASSUME NEW a, NEW r, Joins(a, r, now, epoch, viewers), now' = now,
           epoch'[a] = epoch[a], epoch'[r.host] = epoch[r.host],
           a \in DOMAIN viewers'[r.host], viewers'[r.host][a] = viewers[r.host][a]
    PROVE  Joins(a, r, now', epoch', viewers')
BY Zenon DEF Joins

\* refresh_viewers drops nobody whose entry has not ended.
LEMMA ViewersKeep ==
    ASSUME NEW z \in Maps(Accounts, Nat), NEW X, NEW a \in DOMAIN z, a \notin X, z[a] > now
    PROVE  LET y == refresh_viewers(Without(z, X)) IN a \in DOMAIN y /\ y[a] = z[a]
<1> DEFINE y == Without(z, X)
<1>1. a \in DOMAIN y /\ y[a] = z[a] BY DEF Without
<1> HIDE DEF y
<1>2. refresh_viewers(y) = y BY <1>1 DEF refresh_viewers
<1> QED BY <1>1, <1>2 DEF y

\* Writing one entry keeps the others.
LEMMA ViewersPut ==
    ASSUME NEW z \in Maps(Accounts, Nat), NEW k, NEW exp, NEW a \in DOMAIN z, a # k
    PROVE  /\ a \in DOMAIN Put(z, k, exp) /\ Put(z, k, exp)[a] = z[a]
           /\ z[a] > now => refresh_viewers(Put(z, k, exp)) = Put(z, k, exp)
<1>1. a \in DOMAIN Put(z, k, exp) /\ Put(z, k, exp)[a] = z[a] BY DEF Put
<1> QED BY <1>1, Zenon DEF refresh_viewers

\* Ending the login of an account ends every relation it takes part in.
LEMMA DropRelations ==
    ASSUME KeyTypes, LoginInv, RelationInv, NEW h \in Accounts, DropOwned(h, OldFence(h)), now' = now,
           \A b \in Accounts \ {h} : epoch'[b] = epoch[b],
           NEW a \in Accounts, relation'[a] # NoKey
    PROVE  Joins(a, relation'[a], now', epoch', viewers')
<1> DEFINE f == OldFence(h) r == relation[a]
<1>1. /\ a # h /\ relation'[a] = r /\ r # NoKey
      /\ ~(f # NoKey /\ a \in DOMAIN viewers[h] /\ r.hostFence = f)
  BY Zenon DEF DropOwned, RelationsWithout
<1>2. /\ Joins(a, r, now, epoch, viewers) /\ r.host \in Accounts /\ r.hostFence \in Fence
      /\ viewers[r.host] \in Maps(Accounts, Nat) /\ viewers[r.host][a] > now
  BY <1>1, RelationFacts, Zenon
<1>3. r.host # h
  <2> SUFFICES ASSUME r.host = h PROVE FALSE BY Zenon
  <2>1. Owned(epoch[h], r.hostFence) /\ a \in DOMAIN viewers[h] BY <1>2, Zenon DEF Joins
  <2>2. f = r.hostFence BY <2>1, Zenon DEF OldFence, Owned
  <2> QED BY <1>1, <1>2, <2>1, <2>2, FenceFacts
<1>4. viewers'[r.host] = viewers[r.host] \/ viewers'[r.host] = refresh_viewers(Without(viewers[r.host], {h}))
  BY <1>2, <1>3, Zenon DEF DropOwned, ViewersWithout
<1>5. a \in DOMAIN viewers[r.host] BY <1>2, Zenon DEF Joins
<1>6. a \in DOMAIN viewers'[r.host] /\ viewers'[r.host][a] = viewers[r.host][a]
  BY <1>1, <1>2, <1>4, <1>5, ViewersKeep
<1> QED BY <1>1, <1>2, <1>3, <1>6, RelationKept, Zenon

\* A heartbeat renews the relations of its account and leaves the others.
LEMMA BeatRelations ==
    ASSUME KeyTypes, LoginInv, RelationInv, NEW f \in issued, NEW exp \in Time,
           session[f.sid].exp <= exp, Heartbeat(f, exp), NEW a \in Accounts, relation'[a] # NoKey
    PROVE  Joins(a, relation'[a], now', epoch', viewers')
<1> DEFINE h == Account(f)
<1>1. /\ f \in Fence /\ h \in Accounts /\ exp \in Nat /\ now < exp /\ now' = now
      /\ \A b \in Accounts \ {h} : epoch'[b] = epoch[b]
      /\ Owned(epoch[h], f) /\ Owned(epoch'[h], f) /\ epoch'[h].exp = exp
  BY BeatFacts, Zenon
<1>2. /\ relation' = [x \in Accounts |->
             IF x = h THEN RelationRenewed(f, exp).kept
             ELSE IF x \in ValidSpectators(f) THEN [relation[x] EXCEPT !.exp = Until(x, exp)]
             ELSE IF x \in DOMAIN viewers[h] /\ relation[x] # NoKey /\ relation[x].hostFence = f
             THEN NoKey ELSE relation[x]]
      /\ viewers' = [x \in Accounts |->
             IF x = h THEN refresh_viewers([v \in ValidSpectators(f) |-> Until(v, exp)])
             ELSE IF x = RelationRenewed(f, exp).host
             THEN refresh_viewers(Put(viewers[x], h, RelationRenewed(f, exp).until))
             ELSE viewers[x]]
  BY DEF Heartbeat
<1>3. CASE a = h
  <2> DEFINE r == relation[h] m == RelationRenewed(f, exp)
  <2>1. relation'[a] = m.kept BY <1>2, <1>3
  <2>2. r # NoKey
    BY <1>1, <1>3, <2>1, RenewedFacts, Zenon
  <2>3. /\ Joins(h, r, now, epoch, viewers) /\ r \in RelationKey /\ r.host \in Accounts
        /\ Current(r.hostFence, now) /\ session[r.hostFence.sid].exp = epoch[r.host].exp
        /\ session[r.hostFence.sid].exp \in Nat /\ now < session[r.hostFence.sid].exp
        /\ viewers[r.host] \in Maps(Accounts, Nat)
    BY <1>1, <2>2, RelationFacts, Zenon
  <2>4. r.fence = f BY <1>1, <2>3, Zenon DEF Joins, Owned
  <2>5. /\ m.host = r.host /\ m.until = Smaller(exp, session[r.hostFence.sid].exp)
        /\ m.kept = [r EXCEPT !.exp = m.until]
    BY <1>1, <2>2, <2>3, <2>4, RenewedFacts
  <2> HIDE DEF m, r
  <2>6. /\ m.until \in Nat /\ now < m.until /\ m.until <= exp /\ m.until <= epoch[r.host].exp
    BY <1>1, <2>3, <2>5 DEF Smaller
  <2>7. /\ m.kept.exp = m.until /\ m.kept.host = r.host /\ m.kept.hostFence = r.hostFence
        /\ m.kept.fence = r.fence
    BY <2>3, <2>5 DEF RelationKey
  <2>8. r.host # h /\ r.host = Account(r.hostFence) /\ h = Account(r.fence) /\ Owned(epoch[r.host], r.hostFence)
    BY <2>3, Zenon DEF Joins
  <2>9. viewers'[r.host] = refresh_viewers(Put(viewers[r.host], h, m.until))
    BY <1>2, <2>3, <2>5, <2>8 DEF m
  <2>10. h \in DOMAIN viewers'[r.host] /\ viewers'[r.host][h] = m.until
    <3> DEFINE z == Put(viewers[r.host], h, m.until)
    <3>1. h \in DOMAIN z /\ z[h] = m.until BY DEF Put
    <3> HIDE DEF z
    <3>2. refresh_viewers(z) = z BY <2>6, <3>1 DEF refresh_viewers
    <3> QED BY <2>9, <3>1, <3>2, Zenon DEF z
  <2>11. epoch'[r.host] = epoch[r.host] BY <1>1, <2>3, <2>8, Zenon
  <2> QED BY <1>1, <1>3, <2>1, <2>4, <2>6, <2>7, <2>8, <2>10, <2>11, Zenon DEF Joins
<1>4. CASE a # h
  <2> DEFINE r == relation[a]
  <2>1. r # NoKey
    <3> SUFFICES ASSUME r = NoKey PROVE FALSE OBVIOUS
    <3>1. a \notin ValidSpectators(f) BY DEF ValidSpectators
    <3> QED BY <1>2, <1>4, <3>1
  <2>2. /\ Joins(a, r, now, epoch, viewers) /\ r \in RelationKey /\ r.host \in Accounts /\ r.exp \in Nat
        /\ Current(r.fence, now) /\ session[r.fence.sid].exp = epoch[a].exp
        /\ session[r.fence.sid].exp \in Nat /\ now < session[r.fence.sid].exp
        /\ viewers[r.host] \in Maps(Accounts, Nat) /\ viewers[r.host][a] > now
    BY <2>1, RelationFacts, Zenon
  <2>3. CASE r.host = h
    <3> DEFINE until == Until(a, exp) z == [v \in ValidSpectators(f) |-> Until(v, exp)]
    <3>1. r.hostFence = f /\ a \in DOMAIN viewers[h] BY <1>1, <2>2, <2>3, Zenon DEF Joins, Owned
    <3>2. a \in ValidSpectators(f) BY <2>1, <2>2, <3>1, Zenon DEF ValidSpectators
    <3>3. relation'[a] = [r EXCEPT !.exp = until] BY <1>2, <1>4, <3>2
    <3>4. until \in Nat /\ now < until /\ until <= exp /\ until <= epoch[a].exp
      BY <1>1, <2>2, SmallerBounds, Zenon DEF Until
    <3>5. a \in DOMAIN z /\ z[a] = until BY <3>2
    <3>6. viewers'[h] = refresh_viewers(z) BY <1>1, <1>2
    <3> HIDE DEF until, z, r
    <3>7. viewers'[h] = z BY <3>4, <3>5, <3>6 DEF refresh_viewers
    <3>8. /\ relation'[a].exp = until /\ relation'[a].host = r.host
          /\ relation'[a].hostFence = r.hostFence /\ relation'[a].fence = r.fence
      BY <2>2, <3>3 DEF RelationKey
    <3>9. epoch'[a] = epoch[a] BY <1>1, <1>4
    <3>10. h # a /\ h = Account(r.hostFence) /\ a = Account(r.fence) /\ Owned(epoch[a], r.fence)
      BY <2>2, <2>3, Zenon DEF Joins
    <3> HIDE DEF h
    <3> QED BY <1>1, <2>3, <3>1, <3>4, <3>5, <3>7, <3>8, <3>9, <3>10, Zenon DEF Joins
  <2>4. CASE r.host # h
    <3>1. r.hostFence # f BY <2>2, <2>4, Zenon DEF Joins
    <3>2. a \notin ValidSpectators(f) BY <3>1 DEF ValidSpectators
    <3>3. relation'[a] = r BY <1>2, <1>4, <3>1, <3>2
    <3>4. a \in DOMAIN viewers[r.host] BY <2>2, Zenon DEF Joins
    <3>5. \/ viewers'[r.host] = viewers[r.host]
          \/ viewers'[r.host] = refresh_viewers(Put(viewers[r.host], h, RelationRenewed(f, exp).until))
      BY <1>2, <2>2, <2>4
    <3>6. a \in DOMAIN viewers'[r.host] /\ viewers'[r.host][a] = viewers[r.host][a]
      <4> DEFINE until == RelationRenewed(f, exp).until
      <4> HIDE DEF until, h, r
      <4>1. /\ a \in DOMAIN Put(viewers[r.host], h, until) /\ Put(viewers[r.host], h, until)[a] = viewers[r.host][a]
            /\ refresh_viewers(Put(viewers[r.host], h, until)) = Put(viewers[r.host], h, until)
        BY <1>4, <2>2, <3>4, ViewersPut
      <4> QED BY <3>4, <3>5, <4>1, Zenon DEF until
    <3> QED BY <1>1, <1>4, <2>2, <2>4, <3>3, <3>6, RelationKept, Zenon
  <2> QED BY <2>3, <2>4
<1> QED BY <1>3, <1>4, Zenon

\* The programs that prune keep every relation they do not remove.
LEMMA PruneRelations ==
    ASSUME KeyTypes, LoginInv, RelationInv, NEW f \in Fence, Owned(epoch[Account(f)], f), NEW valid,
           PruneViewers(f, valid), now' = now, epoch' = epoch, NEW a \in Accounts, relation'[a] # NoKey
    PROVE  Joins(a, relation'[a], now', epoch', viewers')
<1> DEFINE h == Account(f) r == relation[a] stale == DOMAIN viewers[h] \ valid
<1>1. /\ relation'[a] = r /\ r # NoKey /\ ~(a \in stale /\ r.hostFence = f)
      /\ viewers' = [viewers EXCEPT ![h] = refresh_viewers(Without(viewers[h], stale))]
  BY Zenon DEF PruneViewers
<1>2. /\ Joins(a, r, now, epoch, viewers) /\ r.host \in Accounts
      /\ viewers[r.host] \in Maps(Accounts, Nat) /\ viewers[r.host][a] > now
  BY <1>1, RelationFacts, Zenon
<1>3. a \in DOMAIN viewers[r.host] BY <1>2, Zenon DEF Joins
<1> HIDE DEF stale
<1>4. CASE r.host = h
  <2>1. r.hostFence = f BY <1>2, <1>4, Zenon DEF Joins, Owned
  <2>2. viewers'[h] = refresh_viewers(Without(viewers[h], stale)) BY <1>1, <1>2, <1>4, Zenon DEF KeyTypes
  <2>3. a \in DOMAIN viewers'[h] /\ viewers'[h][a] = viewers[h][a]
    BY <1>1, <1>2, <1>3, <1>4, <2>1, <2>2, ViewersKeep
  <2> QED BY <1>1, <1>2, <1>4, <2>3, RelationKept, Zenon
<1>5. CASE r.host # h
  <2>1. viewers'[r.host] = viewers[r.host] BY <1>1, <1>2, <1>5, Zenon DEF KeyTypes
  <2> QED BY <1>1, <1>2, <1>3, <2>1, RelationKept, Zenon
<1> QED BY <1>4, <1>5, Zenon

\* Removing one relation, and its entry in some viewer index, keeps the others.
LEMMA RemoveRelation ==
    ASSUME KeyTypes, LoginInv, RelationInv, NEW b \in Accounts, NEW h \in Accounts,
           relation' = [relation EXCEPT ![b] = NoKey],
           viewers' = [viewers EXCEPT ![h] = refresh_viewers(Without(viewers[h], {b}))],
           now' = now, epoch' = epoch, NEW a \in Accounts, relation'[a] # NoKey
    PROVE  Joins(a, relation'[a], now', epoch', viewers')
<1> DEFINE r == relation[a]
<1>1. a # b /\ relation'[a] = r /\ r # NoKey BY Zenon DEF KeyTypes
<1>2. /\ Joins(a, r, now, epoch, viewers) /\ r.host \in Accounts
      /\ viewers[r.host] \in Maps(Accounts, Nat) /\ viewers[r.host][a] > now
  BY <1>1, RelationFacts, Zenon
<1>3. a \in DOMAIN viewers[r.host] BY <1>2, Zenon DEF Joins
<1>4. viewers'[r.host] = viewers[r.host] \/ viewers'[r.host] = refresh_viewers(Without(viewers[r.host], {b}))
  BY <1>2, Zenon DEF KeyTypes
<1>5. a \in DOMAIN viewers'[r.host] /\ viewers'[r.host][a] = viewers[r.host][a]
  BY <1>1, <1>2, <1>3, <1>4, ViewersKeep
<1> QED BY <1>1, <1>2, <1>5, RelationKept, Zenon

\* An attach replaces the spectator's relation and keeps the others.
LEMMA AttachRelations ==
    ASSUME KeyTypes, LoginInv, RelationInv, NEW hf \in issued, NEW f \in issued, NEW exp \in Nat, NEW id,
           Account(hf) # Account(f), ATTACH_SPECTATOR(hf, f, exp, id), NEW a \in Accounts, relation'[a] # NoKey
    PROVE  Joins(a, relation'[a], now', epoch', viewers')
<1> DEFINE h == Account(hf) b == Account(f)
           previous == IF relation[b] = NoKey THEN NoKey ELSE relation[b].host
           left == [x \in Accounts |-> IF x = previous THEN refresh_viewers(Without(viewers[x], {b}))
                                       ELSE viewers[x]]
           n == IF relationRevision[b] = NoKey THEN 1 ELSE relationRevision[b].n + 1
           new == [host |-> h, id |-> id, revision |-> n, hostFence |-> hf, fence |-> f, exp |-> exp]
<1>1. /\ Live(hf) /\ Live(f) /\ now < exp /\ now' = now /\ epoch' = epoch
      /\ exp <= session[hf.sid].exp /\ exp <= session[f.sid].exp
      /\ relation' = [relation EXCEPT ![b] = new] /\ viewers' = [left EXCEPT ![h] = Put(left[h], b, exp)]
  BY Zenon DEF ATTACH_SPECTATOR, sessionKeys
<1>2. /\ hf \in Fence /\ f \in Fence /\ h \in Accounts /\ b \in Accounts
      /\ Owned(epoch[h], hf) /\ Owned(epoch[b], f)
  BY <1>1, LiveFacts, Zenon DEF KeyTypes
<1>3. session[hf.sid].exp = epoch[h].exp /\ session[f.sid].exp = epoch[b].exp BY <1>2, OwnedFacts, Zenon
<1>4. new.host = h /\ new.hostFence = hf /\ new.fence = f /\ new.exp = exp BY Zenon
<1> HIDE DEF new
<1>5. CASE a = b
  <2>1. relation'[a] = new BY <1>1, <1>2, <1>5, Zenon DEF KeyTypes
  <2>2. viewers'[h] = Put(left[h], b, exp) BY <1>1, <1>2
  <2>3. b \in DOMAIN viewers'[h] /\ viewers'[h][b] = exp BY <2>2, Zenon DEF Put
  <2> QED BY <1>1, <1>2, <1>3, <1>4, <1>5, <2>1, <2>3, Zenon DEF Joins
<1>6. CASE a # b
  <2> DEFINE r == relation[a]
  <2>1. relation'[a] = r /\ r # NoKey BY <1>1, <1>6, Zenon DEF KeyTypes
  <2>2. /\ Joins(a, r, now, epoch, viewers) /\ r.host \in Accounts
        /\ viewers[r.host] \in Maps(Accounts, Nat) /\ viewers[r.host][a] > now
    BY <2>1, RelationFacts, Zenon
  <2>3. a \in DOMAIN viewers[r.host] BY <2>2, Zenon DEF Joins
  <2>4. left[r.host] = viewers[r.host] \/ left[r.host] = refresh_viewers(Without(viewers[r.host], {b}))
    BY <2>2, Zenon
  <2>5. a \in DOMAIN left[r.host] /\ left[r.host][a] = viewers[r.host][a]
    <3> HIDE DEF left, b, r
    <3> DEFINE z == viewers[r.host]
    <3>1. a \notin {b} BY <1>6
    <3>2. z \in Maps(Accounts, Nat) /\ a \in DOMAIN z /\ z[a] > now BY <2>2, <2>3, Zenon
    <3> HIDE DEF z
    <3>3. /\ a \in DOMAIN refresh_viewers(Without(z, {b}))
          /\ refresh_viewers(Without(z, {b}))[a] = z[a]
      BY <3>1, <3>2, ViewersKeep
    <3> QED BY <2>3, <2>4, <3>3, Zenon DEF z
  <2>6. viewers'[r.host] = left[r.host] \/ viewers'[r.host] = Put(left[r.host], b, exp)
    BY <1>1, <2>2, Zenon
  <2> HIDE DEF left, b
  <2>7. a \in DOMAIN viewers'[r.host] /\ viewers'[r.host][a] = viewers[r.host][a]
    <3>1. CASE viewers'[r.host] = left[r.host] BY <2>5, <3>1, Zenon
    <3>2. CASE viewers'[r.host] = Put(left[r.host], b, exp)
      <4>1. a \in DOMAIN Put(left[r.host], b, exp) /\ Put(left[r.host], b, exp)[a] = left[r.host][a]
        BY <1>6, <2>5, Zenon DEF Put
      <4> QED BY <2>5, <3>2, <4>1, Zenon
    <3> QED BY <2>6, <3>1, <3>2, Zenon
  <2> QED BY <1>1, <2>1, <2>2, <2>7, RelationKept, Zenon
<1> QED BY <1>5, <1>6

\* Relations keep joining two current logins and standing in the viewer index.
LEMMA RelationNext ==
    ASSUME KeyTypes, LoginInv, RelationInv, StepKinds
    PROVE  RelationInv'
<1> SUFFICES ASSUME NEW a \in Accounts, relation'[a] # NoKey
             PROVE  Joins(a, relation'[a], now', epoch', viewers')
  BY Zenon DEF RelationInv, Joins, Account
<1>1. ASSUME UNCHANGED <<now, epoch, relation, viewers>> PROVE Joins(a, relation'[a], now', epoch', viewers')
  <2>1. now' = now /\ epoch' = epoch /\ relation' = relation /\ viewers' = viewers BY <1>1
  <2> QED BY <2>1, RelationFacts, Zenon
<1>2. ASSUME NEW s \in Sessions, NEW requested \in Nat, OPEN_SESSION(s, requested)
      PROVE  Joins(a, relation'[a], now', epoch', viewers')
  <2>1. /\ Owner[s] \in Accounts /\ now' = now /\ DropOwned(Owner[s], OldFence(Owner[s]))
        /\ \A b \in Accounts \ {Owner[s]} : epoch'[b] = epoch[b]
    BY <1>2, Limits, Zenon DEF OPEN_SESSION, OldFence, KeyTypes
  <2> QED BY <2>1, DropRelations
<1>3. ASSUME NEW f \in issued, FENCE_SESSION(f)
      PROVE  Joins(a, relation'[a], now', epoch', viewers')
  <2>1. /\ f \in Fence /\ Live(f) /\ DropOwned(Account(f), f) /\ now' = now
        /\ epoch' = [epoch EXCEPT ![Account(f)] = NoKey]
    BY <1>3, LogoutFacts
  <2>2. Account(f) \in Accounts /\ Owned(epoch[Account(f)], f) BY <2>1, LiveFacts, Zenon
  <2>3. OldFence(Account(f)) = f BY <2>2 DEF OldFence, Owned
  <2>4. \A b \in Accounts \ {Account(f)} : epoch'[b] = epoch[b] BY <2>1, Zenon DEF KeyTypes
  <2> QED BY <2>1, <2>2, <2>3, <2>4, DropRelations, Zenon
<1>4. ASSUME NEW f \in issued, NEW requested \in Nat, HEARTBEAT_SESSION(f, requested)
      PROVE  Joins(a, relation'[a], now', epoch', viewers')
  BY <1>4, HeartbeatFacts, BeatRelations
<1>5. ASSUME NEW r \in seen, DETACH_SPECTATOR(r)
      PROVE  Joins(a, relation'[a], now', epoch', viewers')
  <2> DEFINE b == Account(r.fence)
  <2>1. /\ relation' = [relation EXCEPT ![b] = NoKey] /\ now' = now /\ epoch' = epoch
        /\ viewers' = [viewers EXCEPT ![r.host] = refresh_viewers(Without(viewers[r.host], {b}))]
    BY <1>5 DEF DETACH_SPECTATOR, sessionKeys
  <2>2. r \in RelationKey BY Zenon DEF KeyTypes
  <2>3. r.host \in Accounts /\ r.fence \in Fence BY <2>2 DEF RelationKey
  <2>4. b \in Accounts BY <2>3, FenceFacts
  <2> HIDE DEF b
  <2> QED BY <2>1, <2>3, <2>4, RemoveRelation, Zenon
<1>6. ASSUME NEW f \in issued, NEW at \in Nat, GET_SPECTATOR(f, at)
      PROVE  Joins(a, relation'[a], now', epoch', viewers')
  <2> DEFINE b == Account(f) h == relation[b].host
  <2>1. /\ relation' = [relation EXCEPT ![b] = NoKey] /\ now' = now /\ epoch' = epoch /\ relation[b] # NoKey
        /\ viewers' = [viewers EXCEPT ![h] = refresh_viewers(Without(viewers[h], {b}))]
    BY <1>6 DEF GET_SPECTATOR, sessionKeys
  <2>2. b \in Accounts BY FenceFacts DEF KeyTypes
  <2>3. h \in Accounts BY <2>1, <2>2, RelationFacts, Zenon
  <2> HIDE DEF b, h
  <2> QED BY <2>1, <2>2, <2>3, RemoveRelation, Zenon
<1>7. ASSUME NEW f \in issued, NEW at \in Nat, LIST_SPECTATORS(f, at)
      PROVE  Joins(a, relation'[a], now', epoch', viewers')
  <2>1. /\ session_status(f, at) = "OK" /\ now' = now /\ epoch' = epoch /\ f \in Fence
        /\ PruneViewers(f, {s \in Watching(f, at) : Current(relation[s].fence, at)})
    BY <1>7, Zenon DEF LIST_SPECTATORS, sessionKeys, KeyTypes
  <2>2. Owned(epoch[Account(f)], f) BY <2>1, StatusFacts
  <2> QED BY <2>1, <2>2, PruneRelations
<1>8. CASE Attaching
  <2>1. PICK hf \in issued, f \in issued, exp \in Nat, id \in RelationIds :
            Account(hf) # Account(f) /\ ATTACH_SPECTATOR(hf, f, exp, id)
    BY <1>8 DEF Attaching
  <2> QED BY <2>1, AttachRelations
<1>9. CASE Publishing
  <2>1. PICK f \in issued, sequence \in Nat, size \in Nat, exp \in Nat, reset \in BOOLEAN :
            PUBLISH_FRAME(f, sequence, size, exp, reset)
    BY <1>9 DEF Publishing
  <2>2. Live(f) /\ PruneViewers(f, Recipients(f)) /\ now' = now /\ epoch' = epoch /\ f \in Fence
    BY <2>1, Zenon DEF PUBLISH_FRAME, sessionKeys, KeyTypes
  <2>3. Owned(epoch[Account(f)], f) BY <2>2, LiveFacts, Zenon
  <2> QED BY <2>2, <2>3, PruneRelations
<1>10. CASE Tick
  <2> DEFINE T == now + 1 r == relation[a]
  <2>1. /\ now' = T /\ relation' = [x \in Accounts |-> Expire(relation[x], T)]
        /\ epoch' = [x \in Accounts |-> Expire(epoch[x], T)]
        /\ viewers' = [x \in Accounts |-> ExpireMap(viewers[x], T)]
    BY <1>10, Zenon DEF Tick
  <2>2. r # NoKey /\ relation'[a] = r /\ ~(r.exp <= T) BY <2>1 DEF Expire
  <2>3. /\ Joins(a, r, now, epoch, viewers) /\ r.host \in Accounts /\ r.exp \in Nat
        /\ epoch[a].exp \in Nat /\ epoch[r.host].exp \in Nat
    <3>1. /\ Joins(a, r, now, epoch, viewers) /\ r.host \in Accounts /\ r.exp \in Nat
          /\ session[r.fence.sid].exp = epoch[a].exp /\ session[r.fence.sid].exp \in Nat
          /\ session[r.hostFence.sid].exp = epoch[r.host].exp /\ session[r.hostFence.sid].exp \in Nat
      BY <2>2, RelationFacts, Zenon
    <3> QED BY <3>1, Zenon
  <2>4. T \in Nat BY ClockFacts
  <2> HIDE DEF T, r
  <2>5. T < r.exp /\ r.exp > T /\ ~(epoch[a].exp <= T) /\ ~(epoch[r.host].exp <= T)
    <3>1. r.exp <= epoch[a].exp /\ r.exp <= epoch[r.host].exp BY <2>3, Zenon DEF Joins
    <3> QED BY <2>2, <2>3, <2>4, <3>1
  <2>6. epoch'[a] = epoch[a] /\ epoch'[r.host] = epoch[r.host]
    BY <2>1, <2>3, <2>5, Zenon DEF Expire, Joins, Owned
  <2>7. viewers'[r.host] = viewers[r.host] BY <2>1, <2>3, <2>5, Zenon DEF ExpireMap, Joins
  <2> QED BY <2>1, <2>2, <2>3, <2>5, <2>6, <2>7, Zenon DEF Joins
<1>11. \/ SessionProgram \/ RelationProgram \/ Attaching \/ Publishing \/ Tick
       \/ UNCHANGED <<now, epoch, relation, viewers>>
  BY ProgramFrames DEF StepKinds, redisKeys, sessionKeys, spectatorKeys
<1>12. CASE SessionProgram BY <1>2, <1>3, <1>4, <1>12 DEF SessionProgram
<1>13. CASE RelationProgram BY <1>5, <1>6, <1>7, <1>13 DEF RelationProgram
<1> QED BY <1>1, <1>8, <1>9, <1>10, <1>11, <1>12, <1>13

-----------------------------------------------------------------------------
(* Finite sets: the largest member, the bytes of a set of frames.          *)

INSTANCE FiniteSetTheorems

\* A set of numbers with a bound has a largest member.
LEMMA LargestMember ==
    ASSUME NEW X \in SUBSET Nat, NEW b \in Nat, \A x \in X : x <= b, NEW y \in X
    PROVE  \E t \in X : \A u \in X : u <= t
<1> DEFINE gaps == {b - x : x \in X}
<1>6. b - y \in gaps OBVIOUS
<1>1. gaps \subseteq Nat /\ gaps # {} BY <1>6
<1>2. PICK R : IsWellFoundedOn(R, Nat) /\ \A m, n \in Nat : m < n => <<m, n>> \in R
  <2>1. \A m, n \in Nat : m < n => <<m, n>> \in OpToRel(<, Nat) BY DEF OpToRel
  <2>2. \E R : IsWellFoundedOn(R, Nat) /\ \A m, n \in Nat : m < n => <<m, n>> \in R
    BY <2>1, NatLessThanWellFounded, Zenon
  <2> QED BY <2>2
<1>3. PICK g \in gaps : \A d \in gaps : ~(<<d, g>> \in R)
  <2>1. IsWellFoundedOn(R, Nat) BY <1>2
  <2> HIDE DEF gaps
  <2> QED BY <1>1, <2>1, WFMin, Zenon
<1>4. PICK t \in X : g = b - t OBVIOUS
<1>5. ASSUME NEW u \in X PROVE u <= t
  <2>1. b - u \in gaps /\ b - u \in Nat /\ g \in Nat OBVIOUS
  <2>2. ~(b - u < g) BY <1>2, <1>3, <2>1, Zenon
  <2> QED BY <1>4, <2>1, <2>2
<1> QED BY <1>5

\* The deadline frame_stats computes: the largest expiry.
LEMMA LatestFacts ==
    ASSUME NEW z, \A e \in z : e.exp \in Nat, NEW least \in Nat,
           NEW b \in Nat, least <= b, \A e \in z : e.exp <= b
    PROVE  /\ Latest(z, least) \in Nat /\ Latest(z, least) <= b
           /\ least <= Latest(z, least) /\ \A e \in z : e.exp <= Latest(z, least)
<1> DEFINE exps == {e.exp : e \in z} \cup {least}
<1>1. exps \in SUBSET Nat /\ least \in exps /\ \A x \in exps : x <= b OBVIOUS
<1>2. \E t \in exps : \A u \in exps : u <= t
  <2> HIDE DEF exps
  <2> QED BY <1>1, LargestMember, Zenon
<1>3. Latest(z, least) \in exps /\ \A u \in exps : u <= Latest(z, least) BY <1>2 DEF Latest
<1> QED BY <1>1, <1>3

\* Fewer frames have no more bytes, and a frame adds at most its size.
LEMMA BytesFacts ==
    ASSUME NEW z, IsFiniteSet(z)
    PROVE  /\ Bytes(z) \in Nat
           /\ \A y \in SUBSET z : Bytes(y) \in Nat /\ Bytes(y) <= Bytes(z)
           /\ \A e : e.size \in Nat => Bytes(z \cup {e}) <= Bytes(z) + e.size
<1> DEFINE B(y) == {b \in y \X (1 .. MaxBytes) : b[2] <= b[1].size}
<1>1. ASSUME NEW y, IsFiniteSet(y)
      PROVE  IsFiniteSet(B(y)) /\ Bytes(y) \in Nat /\ Bytes(y) = Cardinality(B(y))
  <2>1. IsFiniteSet(1 .. MaxBytes) BY FS_Interval, Limits
  <2>2. IsFiniteSet(y \X (1 .. MaxBytes)) BY <1>1, <2>1, FS_Product, Zenon
  <2>3. B(y) \in SUBSET (y \X (1 .. MaxBytes)) OBVIOUS
  <2>4. IsFiniteSet(B(y)) BY <2>2, <2>3, FS_Subset
  <2> QED BY <2>4, FS_CardinalityType DEF Bytes
<1>2. ASSUME NEW y \in SUBSET z PROVE Bytes(y) \in Nat /\ Bytes(y) <= Bytes(z)
  <2>1. IsFiniteSet(y) BY FS_Subset
  <2>2. B(y) \in SUBSET B(z) OBVIOUS
  <2>3. IsFiniteSet(B(z)) /\ Bytes(z) = Cardinality(B(z)) /\ Bytes(y) = Cardinality(B(y)) /\ Bytes(y) \in Nat
    BY <1>1, <2>1, Zenon
  <2> HIDE DEF B
  <2> QED BY <2>2, <2>3, FS_Subset
<1>3. ASSUME NEW e, e.size \in Nat PROVE Bytes(z \cup {e}) <= Bytes(z) + e.size
  <2>1. IsFiniteSet({e}) /\ IsFiniteSet(z \cup {e}) BY FS_Singleton, FS_AddElement, Zenon
  <2>2. IsFiniteSet(1 .. e.size) /\ Cardinality(1 .. e.size) = e.size
    <3> DEFINE n == e.size
    <3>1. n \in Nat /\ n \in Int /\ 1 \in Int BY <1>3
    <3> HIDE DEF n
    <3>2. IsFiniteSet(1 .. n) /\ Cardinality(1 .. n) = IF 1 > n THEN 0 ELSE n - 1 + 1
      BY <3>1, FS_Interval, Zenon
    <3>3. (IF 1 > n THEN 0 ELSE n - 1 + 1) = n BY <3>1
    <3>4. IsFiniteSet(1 .. n) /\ Cardinality(1 .. n) = n BY <3>2, <3>3
    <3> QED BY <3>4 DEF n
  <2>3. [b \in B({e}) |-> b[2]] \in Injection(B({e}), 1 .. e.size)
    <3>1. \A b \in B({e}) : b = <<e, b[2]>> /\ b[2] \in 1 .. MaxBytes /\ b[2] <= e.size OBVIOUS
    <3>2. \A b \in B({e}) : b[2] \in 1 .. e.size BY <1>3, <3>1
    <3>3. \A b, c \in B({e}) : b[2] = c[2] => b = c BY <3>1
    <3> DEFINE place == [b \in B({e}) |-> b[2]]
    <3>4. place \in [B({e}) -> 1 .. e.size] BY <3>2
    <3>5. \A b, c \in B({e}) : place[b] = place[c] => b = c BY <3>3
    <3> HIDE DEF B, place
    <3>6. place \in Injection(B({e}), 1 .. e.size) BY <3>4, <3>5 DEF Injection, IsInjective
    <3> QED BY <3>6 DEF place
  <2>4. IsFiniteSet(B({e})) /\ Cardinality(B({e})) <= e.size
    <3> HIDE DEF B
    <3> QED BY <2>2, <2>3, FS_Injection
  <2>5. B(z \cup {e}) = B(z) \cup B({e}) OBVIOUS
  <2>6. /\ IsFiniteSet(B(z)) /\ Bytes(z) = Cardinality(B(z)) /\ Bytes(z) \in Nat
        /\ Bytes(z \cup {e}) = Cardinality(B(z \cup {e}))
    BY <1>1, <2>1, Zenon
  <2> HIDE DEF B
  <2>7. /\ Cardinality(B(z) \cup B({e})) = Cardinality(B(z)) + Cardinality(B({e})) - Cardinality(B(z) \cap B({e}))
        /\ Cardinality(B(z) \cap B({e})) \in Nat /\ Cardinality(B({e})) \in Nat
    BY <2>4, <2>6, FS_Union, FS_Intersection, FS_CardinalityType, Zenon
  <2>8. Bytes(z \cup {e}) = Cardinality(B(z) \cup B({e})) BY <2>5, <2>6, Zenon
  <2> HIDE DEF B
  <2> QED BY <1>3, <2>4, <2>6, <2>7, <2>8
<1> QED BY <1>1, <1>2, <1>3

\* What is kept when room is made: the newest frames, within the bounds.
LEMMA MakeRoomFacts ==
    ASSUME NEW z, IsFiniteSet(z), \A e \in z : e.cursor \in Nat, NEW size \in Nat, size <= MaxBytes
    PROVE  /\ MakeRoom(z, size) \subseteq z /\ Cardinality(MakeRoom(z, size)) < MaxFrames
           /\ Bytes(MakeRoom(z, size)) + size <= MaxBytes
<1> DEFINE fits == {kept \in SUBSET z :
                       /\ \A e \in kept, d \in z \ kept : d.cursor < e.cursor
                       /\ Cardinality(kept) < MaxFrames
                       /\ Bytes(kept) + size <= MaxBytes}
           counts == {Cardinality(kept) : kept \in fits}
<1>1. {} \in fits
  <2>1. Cardinality({}) < MaxFrames BY FS_EmptySet, Limits
  <2>2. {b \in {} \X (1 .. MaxBytes) : b[2] <= b[1].size} = {} OBVIOUS
  <2>3. Bytes({}) = 0 BY <2>2, FS_EmptySet DEF Bytes
  <2>4. Bytes({}) + size <= MaxBytes BY <2>3
  <2> QED BY <2>1, <2>4
<1>2. \A kept \in fits : IsFiniteSet(kept) /\ Cardinality(kept) \in Nat /\ Cardinality(kept) <= MaxFrames
  <2>1. \A kept \in fits : IsFiniteSet(kept) BY FS_Subset
  <2> QED BY <2>1, FS_CardinalityType, Limits
<1>3. counts \in SUBSET Nat /\ (\A n \in counts : n <= MaxFrames) /\ Cardinality({}) \in counts
  BY <1>1, <1>2
<1>4. \E n \in counts : \A m \in counts : m <= n
  <2> HIDE DEF counts
  <2> QED BY <1>3, LargestMember, Limits, Zenon
<1>5. PICK best \in fits : \A kept \in fits : Cardinality(kept) <= Cardinality(best) BY <1>4
<1>6. ASSUME NEW other \in fits PROVE other \subseteq best
  <2>1. other \subseteq best \/ best \subseteq other
    <3> SUFFICES ASSUME NEW o \in other, o \notin best, NEW b \in best, b \notin other PROVE FALSE
      OBVIOUS
    <3>1. o \in z /\ b \in z /\ o.cursor < b.cursor /\ b.cursor < o.cursor BY <1>5
    <3> QED BY <3>1
  <2>2. CASE best \subseteq other
    <3>1. Cardinality(other) <= Cardinality(best) BY <1>5
    <3>2. /\ IsFiniteSet(other) /\ Cardinality(other) \in Nat /\ Cardinality(best) \in Nat
      BY <1>2
    <3> HIDE DEF fits
    <3>3. Cardinality(best) <= Cardinality(other) /\ (Cardinality(other) = Cardinality(best) => other = best)
      BY <2>2, <3>2, FS_Subset
    <3> QED BY <3>1, <3>2, <3>3
  <2> QED BY <2>1, <2>2
<1>7. MakeRoom(z, size) \in fits BY <1>5, <1>6 DEF MakeRoom
<1> QED BY <1>7

-----------------------------------------------------------------------------
(* The viewers of a host.                                                  *)

\* What ViewersInv says of a viewer index.
Bounded(z) == IsFiniteSet(DOMAIN z) /\ Cardinality(DOMAIN z) <= MaxViewers

\* A part of a viewer index within the limit is within it.
LEMMA BoundedSubset ==
    ASSUME NEW z, Bounded(z), NEW y, DOMAIN y \subseteq DOMAIN z
    PROVE  Bounded(y) /\ Bounded(refresh_viewers(y))
<1>1. /\ IsFiniteSet(DOMAIN y) /\ Cardinality(DOMAIN y) <= Cardinality(DOMAIN z)
      /\ Cardinality(DOMAIN y) \in Nat /\ Cardinality(DOMAIN z) \in Nat
  BY FS_Subset, FS_CardinalityType DEF Bounded
<1>2. Bounded(y) BY <1>1, Limits DEF Bounded
<1>3. DOMAIN Empty = {} BY DEF Empty
<1>4. Bounded(Empty) BY <1>3, FS_EmptySet, Limits DEF Bounded
<1>5. refresh_viewers(y) = y \/ refresh_viewers(y) = Empty BY DEF refresh_viewers
<1> QED BY <1>2, <1>4, <1>5

\* A publish prunes the viewers that no longer receive frames.
LEMMA PublishPrunes ==
    ASSUME NEW f, NEW sequence, NEW size, NEW exp, NEW reset,
           PUBLISH_FRAME(f, sequence, size, exp, reset)
    PROVE  PruneViewers(f, Recipients(f))
BY Zenon DEF PUBLISH_FRAME

\* Every viewer index stays within its limit.
LEMMA ViewersNext ==
    ASSUME KeyTypes, LoginInv, RelationInv, ViewersInv, StepKinds
    PROVE  ViewersInv'
<1> SUFFICES ASSUME NEW h \in Accounts PROVE Bounded(viewers'[h]) BY DEF ViewersInv, Bounded
<1>1. Bounded(viewers[h]) BY DEF ViewersInv, Bounded
<1>2. ASSUME NEW X PROVE Bounded(refresh_viewers(Without(viewers[h], X)))
  <2>1. DOMAIN Without(viewers[h], X) \subseteq DOMAIN viewers[h] BY DEF Without
  <2> QED BY <1>1, <2>1, BoundedSubset
<1>3. Bounded(Empty)
  <2>1. DOMAIN Empty \subseteq DOMAIN viewers[h] BY DEF Empty
  <2> QED BY <1>1, <2>1, BoundedSubset
<1>4. ASSUME NEW a, NEW f, DropOwned(a, f) PROVE Bounded(viewers'[h])
  <2>1. \/ viewers'[h] = Empty \/ viewers'[h] = viewers[h]
        \/ viewers'[h] = refresh_viewers(Without(viewers[h], {a}))
    BY <1>4, Zenon DEF DropOwned, ViewersWithout
  <2> QED BY <1>1, <1>2, <1>3, <2>1
<1>5. ASSUME NEW f \in issued, NEW exp \in Time, session[f.sid].exp <= exp, Heartbeat(f, exp)
      PROVE  Bounded(viewers'[h])
  <2> DEFINE a == Account(f) m == RelationRenewed(f, exp)
             z == [v \in ValidSpectators(f) |-> Until(v, exp)]
  <2>1. f \in Fence /\ a \in Accounts BY <1>5, BeatFacts, Zenon
  <2>2. viewers'[h] = IF h = a THEN refresh_viewers(z)
                      ELSE IF h = m.host THEN refresh_viewers(Put(viewers[h], a, m.until)) ELSE viewers[h]
    BY <1>5 DEF Heartbeat
  <2>3. DOMAIN z \subseteq DOMAIN viewers[a] BY DEF ValidSpectators
  <2>4. CASE h = a
    <3> HIDE DEF z
    <3> QED BY <1>1, <2>2, <2>3, <2>4, BoundedSubset, Zenon
  <2>5. CASE h # a /\ h = m.host
    <3>1. relation[a] # NoKey /\ relation[a].host = h
      BY <1>5, <2>1, <2>5, NoKeyAssumption, RenewedFacts, Zenon
    <3>2. a \in DOMAIN viewers[h] BY <2>1, <3>1, RelationFacts, Zenon DEF Joins
    <3>3. DOMAIN Put(viewers[h], a, m.until) \subseteq DOMAIN viewers[h] BY <3>2 DEF Put
    <3>4. viewers'[h] = refresh_viewers(Put(viewers[h], a, m.until)) BY <2>2, <2>5, Zenon
    <3> HIDE DEF m, a
    <3> QED BY <1>1, <3>3, <3>4, BoundedSubset, Zenon
  <2>6. CASE h # a /\ h # m.host BY <1>1, <2>2, <2>6, Zenon
  <2> QED BY <2>4, <2>5, <2>6, Zenon
<1>6. ASSUME NEW f, NEW valid, PruneViewers(f, valid) PROVE Bounded(viewers'[h])
  <2>1. \/ viewers'[h] = viewers[h]
        \/ \E X : viewers'[h] = refresh_viewers(Without(viewers[h], X))
    BY <1>6, Zenon DEF PruneViewers, KeyTypes
  <2> QED BY <1>1, <1>2, <2>1
<1>7. ASSUME NEW b, NEW k, viewers' = [viewers EXCEPT ![k] = refresh_viewers(Without(viewers[k], {b}))]
      PROVE  Bounded(viewers'[h])
  <2>1. viewers'[h] = viewers[h] \/ viewers'[h] = refresh_viewers(Without(viewers[h], {b}))
    BY <1>7, Zenon DEF KeyTypes
  <2> QED BY <1>1, <1>2, <2>1
<1>8. ASSUME NEW hf \in issued, NEW f \in issued, NEW exp \in Nat, NEW id, ATTACH_SPECTATOR(hf, f, exp, id)
      PROVE  Bounded(viewers'[h])
  <2> DEFINE k == Account(hf) b == Account(f)
             previous == IF relation[b] = NoKey THEN NoKey ELSE relation[b].host
             left == [x \in Accounts |-> IF x = previous THEN refresh_viewers(Without(viewers[x], {b}))
                                         ELSE viewers[x]]
  <2>1. viewers' = [left EXCEPT ![k] = Put(left[k], b, exp)] /\ ViewerRoom(k, b)
    BY <1>8, Zenon DEF ATTACH_SPECTATOR
  <2>2. left[h] = viewers[h] \/ left[h] = refresh_viewers(Without(viewers[h], {b})) BY Zenon
  <2>3. Bounded(left[h]) BY <1>1, <1>2, <2>2, Zenon
  <2>4. DOMAIN left[h] \subseteq DOMAIN viewers[h]
    <3>1. DOMAIN refresh_viewers(Without(viewers[h], {b})) \subseteq DOMAIN viewers[h]
      BY Zenon DEF refresh_viewers, Without, Empty
    <3> QED BY <2>2, <3>1, Zenon
  <2>5. CASE h # k
    <3>1. viewers'[h] = left[h] BY <2>1, <2>5, Zenon
    <3> QED BY <2>3, <3>1
  <2>6. CASE h = k
    <3>1. viewers'[h] = Put(left[h], b, exp) BY <2>1, <2>6, Zenon
    <3> HIDE DEF left, b
    <3>2. DOMAIN viewers'[h] = DOMAIN left[h] \cup {b} BY <3>1, Zenon DEF Put
    <3>3. CASE b \in DOMAIN viewers[h]
      <4>1. DOMAIN viewers'[h] \subseteq DOMAIN viewers[h] BY <2>4, <3>2, <3>3
      <4> QED BY <1>1, <4>1, BoundedSubset
    <3>4. CASE b \notin DOMAIN viewers[h]
      <4>1. Cardinality(DOMAIN viewers[h]) < MaxViewers BY <2>1, <2>6, <3>4 DEF ViewerRoom
      <4>2. /\ IsFiniteSet(DOMAIN viewers[h]) /\ Cardinality(DOMAIN viewers[h]) \in Nat
            /\ Cardinality(DOMAIN left[h]) <= Cardinality(DOMAIN viewers[h])
            /\ IsFiniteSet(DOMAIN left[h]) /\ Cardinality(DOMAIN left[h]) \in Nat
        BY <1>1, <2>4, FS_Subset, FS_CardinalityType, Zenon DEF Bounded
      <4>3. /\ IsFiniteSet(DOMAIN left[h] \cup {b})
            /\ Cardinality(DOMAIN left[h] \cup {b}) =
                   IF b \in DOMAIN left[h] THEN Cardinality(DOMAIN left[h]) ELSE Cardinality(DOMAIN left[h]) + 1
        BY <4>2, FS_AddElement, Zenon
      <4>4. Cardinality(DOMAIN left[h] \cup {b}) <= MaxViewers BY <4>1, <4>2, <4>3, Limits
      <4> QED BY <3>2, <4>3, <4>4 DEF Bounded
    <3> QED BY <3>3, <3>4, Zenon
  <2> QED BY <2>5, <2>6
<1>9. CASE Tick
  <2>1. viewers'[h] = viewers[h] \/ viewers'[h] = Empty BY <1>9, Zenon DEF Tick, ExpireMap
  <2> QED BY <1>1, <1>3, <2>1
<1>10. CASE SessionProgram
  <2>1. ASSUME NEW s \in Sessions, NEW requested \in Nat, OPEN_SESSION(s, requested)
        PROVE  Bounded(viewers'[h])
    <3>1. DropOwned(Owner[s], OldFence(Owner[s])) BY <2>1, Zenon DEF OPEN_SESSION, OldFence
    <3> QED BY <1>4, <3>1
  <2>2. ASSUME NEW f \in issued, FENCE_SESSION(f) PROVE Bounded(viewers'[h])
    BY <1>4, <2>2, LogoutFacts
  <2>3. ASSUME NEW f \in issued, NEW requested \in Nat, HEARTBEAT_SESSION(f, requested)
        PROVE  Bounded(viewers'[h])
    BY <1>5, <2>3, HeartbeatFacts
  <2> QED BY <1>10, <2>1, <2>2, <2>3 DEF SessionProgram
<1>11. CASE RelationProgram
  <2>1. ASSUME NEW r \in seen, DETACH_SPECTATOR(r) PROVE Bounded(viewers'[h])
    BY <1>7, <2>1, Zenon DEF DETACH_SPECTATOR
  <2>2. ASSUME NEW f \in issued, NEW at \in Nat, GET_SPECTATOR(f, at) PROVE Bounded(viewers'[h])
    BY <1>7, <2>2, Zenon DEF GET_SPECTATOR
  <2>3. ASSUME NEW f \in issued, NEW at \in Nat, LIST_SPECTATORS(f, at) PROVE Bounded(viewers'[h])
    BY <1>6, <2>3 DEF LIST_SPECTATORS
  <2> QED BY <1>11, <2>1, <2>2, <2>3 DEF RelationProgram
<1>12. CASE Attaching
  <2>1. PICK hf \in issued, f \in issued, exp \in Nat, id \in RelationIds : ATTACH_SPECTATOR(hf, f, exp, id)
    BY <1>12 DEF Attaching
  <2> QED BY <1>8, <2>1
<1>13. CASE Publishing
  <2>1. PICK f \in issued : PruneViewers(f, Recipients(f)) BY <1>13, PublishPrunes, Zenon DEF Publishing
  <2> QED BY <1>6, <2>1
<1>14. SessionProgram \/ RelationProgram \/ Attaching \/ Publishing \/ Tick \/ viewers' = viewers
  BY ProgramFrames DEF StepKinds, redisKeys, spectatorKeys
<1> QED BY <1>1, <1>9, <1>10, <1>11, <1>12, <1>13, <1>14, Zenon

-----------------------------------------------------------------------------
(* Channel memberships.                                                    *)

\* What MembersInv says of the channels k of a session stored as key.
ChannelsOf(k, key) ==
    /\ IsFiniteSet(k.ids) /\ Cardinality(k.ids) <= MaxChannels
    /\ k.ids # {} => key # NoKey /\ k.exp = key.exp

\* What it says of the members z of channel c.
Membership(c, z, e, ch, given) ==
    \A x \in DOMAIN z : /\ Account(FenceOf(z[x])) = x /\ FenceOf(z[x]) \in given
                        /\ Owned(e[x], FenceOf(z[x])) => c \in ch[FenceOf(z[x]).sid].ids

\* A session with no channels.
LEMMA NoChannelsFine == \A key : ChannelsOf(NoChannels, key)
<1>1. NoChannels.ids = {} BY DEF NoChannels
<1>2. IsFiniteSet({}) /\ Cardinality({}) <= MaxChannels BY FS_EmptySet, Limits
<1> QED BY <1>1, <1>2 DEF ChannelsOf

\* Members may go, and a membership stays listed unless its login ended.
LEMMA MembersShrink ==
    ASSUME NEW c, NEW z, NEW e, NEW ch, NEW given, Membership(c, z, e, ch, given),
           NEW y, DOMAIN y \subseteq DOMAIN z, \A x \in DOMAIN y : y[x] = z[x],
           NEW e2, NEW ch2, NEW given2, given \subseteq given2,
           \A x \in DOMAIN y : Owned(e2[x], FenceOf(z[x])) =>
               /\ Owned(e[x], FenceOf(z[x]))
               /\ c \in ch[FenceOf(z[x]).sid].ids => c \in ch2[FenceOf(z[x]).sid].ids
    PROVE  Membership(c, y, e2, ch2, given2)
BY Zenon DEF Membership

\* The same of the stored members of a channel.
LEMMA StoredMembersShrink ==
    ASSUME NEW c, NEW e2, Membership(c, members[c], epoch, channels, issued),
           DOMAIN members'[c] \subseteq DOMAIN members[c],
           \A x \in DOMAIN members'[c] : members'[c][x] = members[c][x],
           \A x \in DOMAIN members'[c] : Owned(e2[x], FenceOf(members[c][x])) =>
               /\ Owned(epoch[x], FenceOf(members[c][x]))
               /\ c \in channels[FenceOf(members[c][x]).sid].ids
                      => c \in channels'[FenceOf(members[c][x]).sid].ids
    PROVE  Membership(c, members'[c], e2, channels', issued)
BY Zenon DEF Membership

\* A member may hold any fence that has been issued.
LEMMA MembersIssued ==
    ASSUME NEW c, NEW z, NEW e, NEW ch, NEW given, Membership(c, z, e, ch, given),
           NEW given2, given \subseteq given2
    PROVE  Membership(c, z, e, ch, given2)
BY Zenon DEF Membership

\* One stored member is written, with a fence that lists the channel.
LEMMA StoredMembersGrow ==
    ASSUME NEW c, NEW k, NEW f, NEW e2, Membership(c, members[c], epoch, channels, issued),
           DOMAIN members'[c] = DOMAIN members[c] \cup {k},
           \A x \in DOMAIN members'[c] \ {k} : members'[c][x] = members[c][x],
           FenceOf(members'[c][k]) = f, Account(f) = k, f \in issued, c \in channels'[f.sid].ids,
           \A x \in DOMAIN members'[c] \ {k} : Owned(e2[x], FenceOf(members[c][x])) =>
               /\ Owned(epoch[x], FenceOf(members[c][x]))
               /\ c \in channels[FenceOf(members[c][x]).sid].ids
                      => c \in channels'[FenceOf(members[c][x]).sid].ids
    PROVE  Membership(c, members'[c], e2, channels', issued)
<1>1. PICK z : z = members[c]
  OBVIOUS
<1>2. PICK y : y = members'[c]
  OBVIOUS
<1>3. PICK ch2 : ch2 = channels'
  OBVIOUS
<1>4. Membership(c, z, epoch, channels, issued) /\ DOMAIN y \subseteq DOMAIN z \cup {k}
  BY <1>1, <1>2, Zenon
<1>5. (\A x \in DOMAIN y \ {k} : y[x] = z[x]) /\ FenceOf(y[k]) = f /\ c \in ch2[f.sid].ids
  BY <1>1, <1>2, <1>3, Zenon
<1>6. \A x \in DOMAIN y \ {k} : Owned(e2[x], FenceOf(z[x])) =>
          /\ Owned(epoch[x], FenceOf(z[x]))
          /\ c \in channels[FenceOf(z[x]).sid].ids => c \in ch2[FenceOf(z[x]).sid].ids
  BY <1>1, <1>2, <1>3, Zenon
<1>7. ASSUME NEW x \in DOMAIN y
      PROVE  /\ Account(FenceOf(y[x])) = x /\ FenceOf(y[x]) \in issued
             /\ Owned(e2[x], FenceOf(y[x])) => c \in ch2[FenceOf(y[x]).sid].ids
  <2>1. CASE x = k BY <1>5, <2>1, Zenon
  <2>2. CASE x # k
    <3>1. x \in DOMAIN z /\ y[x] = z[x] BY <1>4, <1>5, <2>2, Zenon
    <3>2. /\ Account(FenceOf(z[x])) = x /\ FenceOf(z[x]) \in issued
          /\ Owned(epoch[x], FenceOf(z[x])) => c \in channels[FenceOf(z[x]).sid].ids
      BY <1>4, <3>1, Zenon DEF Membership
    <3> QED BY <1>6, <2>2, <3>1, <3>2, Zenon
  <2> QED BY <2>1, <2>2, Zenon
<1>8. Membership(c, y, e2, ch2, issued)
  BY <1>7, Zenon DEF Membership
<1> QED BY <1>2, <1>3, <1>8, Zenon

\* The stored members are accounts with fences of their own.
LEMMA MemberFacts ==
    ASSUME KeyTypes, MembersInv, NEW c \in Channels
    PROVE  /\ Membership(c, members[c], epoch, channels, issued)
           /\ members[c] \in Maps(Accounts, Expiring)
           /\ \A x \in DOMAIN members[c] :
                  LET g == FenceOf(members[c][x]) IN
                  /\ x \in Accounts /\ members[c][x] \in Expiring /\ g \in Fence /\ g \in issued
                  /\ g.sid \in Sessions /\ Owner[g.sid] = x
                  /\ Owned(epoch[x], g) => c \in channels[g.sid].ids
<1>1. members[c] \in Maps(Accounts, Expiring) BY Zenon DEF KeyTypes
<1>2. Membership(c, members[c], epoch, channels, issued) BY DEF Membership, MembersInv
<1>3. ASSUME NEW x \in DOMAIN members[c]
      PROVE  LET g == FenceOf(members[c][x]) IN
             /\ x \in Accounts /\ members[c][x] \in Expiring /\ g \in Fence /\ g \in issued
             /\ g.sid \in Sessions /\ Owner[g.sid] = x
             /\ Owned(epoch[x], g) => c \in channels[g.sid].ids
  <2>1. x \in Accounts /\ members[c][x] \in Expiring BY <1>1, MapFacts
  <2>2. FenceOf(members[c][x]) \in Fence /\ FenceOf(members[c][x]).sid \in Sessions
    BY <2>1, ExpiringFacts, Zenon
  <2> QED BY <1>2, <2>1, <2>2, Zenon DEF Membership, Account
<1> QED BY <1>1, <1>2, <1>3, Zenon

\* refresh_channel leaves the members of a channel alone or deletes them all.
LEMMA RefreshMembers ==
    ASSUME NEW z, NEW y, DOMAIN y \subseteq DOMAIN z, \A x \in DOMAIN y : y[x] = z[x]
    PROVE  /\ DOMAIN refresh_channel(y) \subseteq DOMAIN z
           /\ \A x \in DOMAIN refresh_channel(y) : refresh_channel(y)[x] = z[x]
<1>1. DOMAIN Empty = {} BY Zenon DEF Empty
<1> QED BY <1>1, Zenon DEF refresh_channel

\* Ending a login removes members and adds none.
LEMMA DropMembers ==
    ASSUME NEW a, NEW f, DropOwned(a, f), NEW c \in Channels
    PROVE  /\ DOMAIN members'[c] \subseteq DOMAIN members[c]
           /\ \A x \in DOMAIN members'[c] : members'[c][x] = members[c][x]
<1> DEFINE y == Without(members[c], {a})
<1>1. DOMAIN y \subseteq DOMAIN members[c] /\ \A x \in DOMAIN y : y[x] = members[c][x]
  BY Zenon DEF Without
<1>2. members'[c] = members[c] \/ members'[c] = refresh_channel(y)
  BY DEF DropOwned, MembersWithout
<1> HIDE DEF y
<1> QED BY <1>1, <1>2, RefreshMembers

\* Memberships and the channels of a session keep agreeing.
LEMMA MembersNext ==
    ASSUME KeyTypes, KeyTypes', LoginInv, CounterInv, MembersInv, StepKinds
    PROVE  MembersInv'
<1> DEFINE Good == /\ \A t \in Sessions : ChannelsOf(channels'[t], session'[t])
                   /\ \A c \in Channels : Membership(c, members'[c], epoch', channels', issued')
<1> SUFFICES Good BY Zenon DEF ChannelsOf, Membership, MembersInv, Account
<1>1. \A t \in Sessions : ChannelsOf(channels[t], session[t]) BY Zenon DEF MembersInv, ChannelsOf
<1>2. ASSUME UNCHANGED <<session, epoch, issued, channels>>,
             \A c \in Channels : /\ DOMAIN members'[c] \subseteq DOMAIN members[c]
                                 /\ \A x \in DOMAIN members'[c] : members'[c][x] = members[c][x]
      PROVE  Good
  <2>1. session' = session /\ epoch' = epoch /\ issued' = issued /\ channels' = channels BY <1>2, Zenon
  <2>2. ASSUME NEW c \in Channels PROVE Membership(c, members'[c], epoch, channels, issued)
    BY <1>2, <2>2, MemberFacts, MembersShrink, Zenon
  <2> QED BY <1>1, <2>1, <2>2, Zenon
<1>3. ASSUME NEW a \in Accounts, NEW f, DropOwned(a, f), issued \subseteq issued',
             \A b \in Accounts \ {a} : epoch'[b] = epoch[b],
             epoch'[a] = NoKey \/ FenceOf(epoch'[a]) \notin issued,
             \A t \in Sessions : Owner[t] # a => channels'[t] = channels[t] /\ session'[t] = session[t],
             \A t \in Sessions : Owner[t] = a => channels'[t].ids = {}
      PROVE  Good
  <2>1. ASSUME NEW t \in Sessions PROVE ChannelsOf(channels'[t], session'[t])
    <3>1. CASE Owner[t] # a BY <1>1, <1>3, <3>1, Zenon
    <3>2. CASE Owner[t] = a
      <4>1. IsFiniteSet({}) /\ Cardinality({}) <= MaxChannels BY FS_EmptySet, Limits
      <4> QED BY <1>3, <3>2, <4>1, Zenon DEF ChannelsOf
    <3> QED BY <3>1, <3>2, Zenon
  <2>2. ASSUME NEW c \in Channels PROVE Membership(c, members'[c], epoch', channels', issued')
    <3>1. /\ DOMAIN members'[c] \subseteq DOMAIN members[c]
          /\ \A x \in DOMAIN members'[c] : members'[c][x] = members[c][x]
      BY <1>3, DropMembers, Zenon
    <3>2. ASSUME NEW x \in DOMAIN members'[c], Owned(epoch'[x], FenceOf(members[c][x]))
          PROVE  /\ Owned(epoch[x], FenceOf(members[c][x]))
                 /\ c \in channels[FenceOf(members[c][x]).sid].ids
                        => c \in channels'[FenceOf(members[c][x]).sid].ids
      <4>1. /\ x \in Accounts /\ FenceOf(members[c][x]) \in issued
            /\ FenceOf(members[c][x]).sid \in Sessions /\ Owner[FenceOf(members[c][x]).sid] = x
        BY <3>1, MemberFacts, Zenon
      <4>2. x # a BY <1>3, <3>2, <4>1, Zenon DEF Owned
      <4> QED BY <1>3, <3>2, <4>1, <4>2, Zenon
    <3>3. Membership(c, members[c], epoch, channels, issued) BY MemberFacts, Zenon
    <3>4. Membership(c, members'[c], epoch', channels', issued)
      BY <3>1, <3>2, <3>3, StoredMembersShrink, Zenon
    <3> QED BY <1>3, <3>4, MembersIssued, Zenon
  <2> QED BY <2>1, <2>2, Zenon
<1>4. ASSUME NEW s \in Sessions, NEW requested \in Nat, OPEN_SESSION(s, requested) PROVE Good
  <2> DEFINE a == Owner[s]
  <2>1. PICK rev \in 1 .. MaxRevision, exp \in Time :
            /\ a \in Accounts /\ rev = NextRevision(s) /\ now < Durable[s]
            /\ epoch' = [epoch EXCEPT ![a] = [sid |-> s, rev |-> rev, exp |-> exp]]
            /\ \A t \in Sessions \ {s} : session'[t] = IF Owner[t] = a THEN NoKey ELSE session[t]
            /\ issued' = issued \cup {[sid |-> s, rev |-> rev]}
            /\ DropOwned(a, OldFence(a))
            /\ channels' = [t \in Sessions |->
                   IF t = s \/ (OldFence(a) # NoKey /\ t = OldFence(a).sid) THEN NoChannels ELSE channels[t]]
    BY <1>4, OpenFacts, Zenon
  <2>2. \A b \in Accounts \ {a} : epoch'[b] = epoch[b] BY <2>1, Zenon DEF KeyTypes
  <2>3. FenceOf(epoch'[a]) \notin issued
    <3>1. [sid |-> s, rev |-> rev] \notin issued BY <2>1, OpenIsFresh
    <3>2. epoch'[a] = [sid |-> s, rev |-> rev, exp |-> exp] BY <2>1, Zenon DEF KeyTypes
    <3> QED BY <3>1, <3>2 DEF FenceOf
  <2>4. OldFence(a) # NoKey => OldFence(a).sid = epoch[a].sid /\ Owner[OldFence(a).sid] = a /\ epoch[a] # NoKey
    BY <2>1, CurrentLogin, ExpiringFacts, Zenon DEF OldFence
  <2>5. OldFence(a) = NoKey => epoch[a] = NoKey
    <3> SUFFICES ASSUME epoch[a] # NoKey PROVE OldFence(a) # NoKey BY Zenon
    <3>1. FenceOf(epoch[a]) \in Fence BY <2>1, CurrentLogin, ExpiringFacts, Zenon
    <3> QED BY <3>1, FenceFacts, Zenon DEF OldFence
  <2>6. ASSUME NEW t \in Sessions, Owner[t] # a
        PROVE  channels'[t] = channels[t] /\ session'[t] = session[t]
    BY <2>1, <2>4, <2>6, Zenon
  <2>7. ASSUME NEW t \in Sessions, Owner[t] = a PROVE channels'[t].ids = {}
    <3>1. CASE channels'[t] = NoChannels BY <3>1 DEF NoChannels
    <3>2. CASE channels'[t] # NoChannels
      <4>1. channels'[t] = channels[t] /\ t # s /\ ~(OldFence(a) # NoKey /\ t = OldFence(a).sid)
        BY <2>1, <3>2, Zenon
      <4>2. session[t] = NoKey BY <2>4, <2>5, <2>7, <4>1, StoredIsEpoch, Zenon
      <4> QED BY <1>1, <4>1, <4>2, Zenon DEF ChannelsOf
    <3> QED BY <3>1, <3>2, Zenon
  <2> HIDE DEF Good, a
  <2> QED BY <1>3, <2>1, <2>2, <2>3, <2>6, <2>7, Zenon
<1>5. ASSUME NEW f \in issued, FENCE_SESSION(f) PROVE Good
  <2> DEFINE a == Account(f)
  <2>1. /\ f \in Fence /\ Live(f) /\ DropOwned(a, f)
        /\ session' = [session EXCEPT ![f.sid] = NoKey] /\ epoch' = [epoch EXCEPT ![a] = NoKey]
        /\ channels' = [channels EXCEPT ![f.sid] = NoChannels] /\ issued' = issued
    BY <1>5, LogoutFacts, Zenon
  <2>2. a \in Accounts /\ f.sid \in Sessions /\ Owner[f.sid] = a /\ epoch[a].sid = f.sid
    BY <2>1, LiveFacts, Zenon DEF Account
  <2>3. epoch'[a] = NoKey /\ \A b \in Accounts \ {a} : epoch'[b] = epoch[b] BY <2>1, <2>2, Zenon DEF KeyTypes
  <2>4. ASSUME NEW t \in Sessions, Owner[t] # a
        PROVE  channels'[t] = channels[t] /\ session'[t] = session[t]
    BY <2>1, <2>2, <2>4, Zenon DEF KeyTypes
  <2>5. ASSUME NEW t \in Sessions, Owner[t] = a PROVE channels'[t].ids = {}
    <3>1. CASE t = f.sid
      <4>1. channels'[t] = NoChannels BY <2>1, <2>2, <3>1, Zenon DEF KeyTypes
      <4> QED BY <4>1 DEF NoChannels
    <3>2. CASE t # f.sid
      <4>1. channels'[t] = channels[t] BY <2>1, <3>2, Zenon DEF KeyTypes
      <4>2. session[t] = NoKey BY <2>2, <2>5, <3>2, StoredIsEpoch, Zenon
      <4> QED BY <1>1, <4>1, <4>2 DEF ChannelsOf
    <3> QED BY <3>1, <3>2, Zenon
  <2> HIDE DEF Good, a
  <2> QED BY <1>3, <2>1, <2>2, <2>3, <2>4, <2>5, Zenon
<1>6. ASSUME NEW f \in issued, NEW exp \in Time, session[f.sid].exp <= exp, Heartbeat(f, exp) PROVE Good
  <2> DEFINE a == Account(f) k == [sid |-> f.sid, rev |-> f.rev, exp |-> exp]
             ch == IF Joined(f) = {} THEN NoChannels ELSE [ids |-> Joined(f), exp |-> exp]
  <2>1. /\ f \in Fence /\ a \in Accounts /\ f.sid \in Sessions
        /\ \A t \in Sessions \ {f.sid} : session'[t] = session[t]
        /\ session'[f.sid] # NoKey /\ session'[f.sid].exp = exp
        /\ \A b \in Accounts \ {a} : epoch'[b] = epoch[b]
        /\ Owned(epoch[a], f) /\ Owned(epoch'[a], f)
    BY <1>6, BeatFacts, Zenon
  <2>2. /\ members' = [c \in Channels |-> IF c \in Joined(f) THEN Put(members[c], a, k) ELSE members[c]]
        /\ channels' = [channels EXCEPT ![f.sid] = ch] /\ issued' = issued
    BY <1>6 DEF Heartbeat
  <2>3. FenceOf(k) = f /\ Account(f) = a /\ Owner[f.sid] = a /\ k \in Expiring
    BY <2>1, FenceFacts DEF FenceOf, Account, Expiring
  <2>4. ch.ids = Joined(f) /\ (Joined(f) # {} => ch.exp = exp) BY DEF NoChannels
  <2> HIDE DEF k, ch
  <2>5. channels'[f.sid] = ch /\ \A t \in Sessions \ {f.sid} : channels'[t] = channels[t]
    BY <2>1, <2>2, Zenon DEF KeyTypes
  <2>6. Joined(f) \subseteq channels[f.sid].ids BY DEF Joined
  <2>7. ChannelsOf(channels'[f.sid], session'[f.sid])
    <3>1. IsFiniteSet(channels[f.sid].ids) /\ Cardinality(channels[f.sid].ids) <= MaxChannels
      BY <1>1, <2>1, Zenon DEF ChannelsOf
    <3>2. /\ IsFiniteSet(Joined(f)) /\ Cardinality(Joined(f)) <= Cardinality(channels[f.sid].ids)
          /\ Cardinality(Joined(f)) \in Nat /\ Cardinality(channels[f.sid].ids) \in Nat
      BY <2>6, <3>1, FS_Subset, FS_CardinalityType, Zenon
    <3>3. Cardinality(Joined(f)) <= MaxChannels BY <3>1, <3>2, Limits
    <3> QED BY <2>1, <2>4, <2>5, <3>2, <3>3, Zenon DEF ChannelsOf
  <2>8. ASSUME NEW c \in Channels PROVE Membership(c, members'[c], epoch', channels', issued')
    <3>1. ASSUME NEW x \in DOMAIN members[c] \ {a}, Owned(epoch'[x], FenceOf(members[c][x]))
          PROVE  /\ Owned(epoch[x], FenceOf(members[c][x]))
                 /\ c \in channels[FenceOf(members[c][x]).sid].ids
                        => c \in channels'[FenceOf(members[c][x]).sid].ids
      <4>1. /\ x \in Accounts /\ FenceOf(members[c][x]).sid \in Sessions
            /\ Owner[FenceOf(members[c][x]).sid] = x
        BY MemberFacts, Zenon
      <4> QED BY <2>1, <2>3, <2>5, <3>1, <4>1, Zenon
    <3>2. CASE c \in Joined(f)
      <4>1. Membership(c, members[c], epoch, channels, issued) BY MemberFacts
      <4>2. members'[c] = Put(members[c], a, k) BY <2>2, <3>2, Zenon
      <4>3. /\ DOMAIN members'[c] = DOMAIN members[c] \cup {a} /\ members'[c][a] = k
            /\ \A x \in DOMAIN members'[c] \ {a} : members'[c][x] = members[c][x]
        BY <4>2 DEF Put
      <4>4. c \in channels'[f.sid].ids BY <2>4, <2>5, <3>2
      <4> HIDE DEF a
      <4>6. FenceOf(members'[c][a]) = f BY <2>3, <4>3, Zenon
      <4>7. \A x \in DOMAIN members'[c] \ {a} : Owned(epoch'[x], FenceOf(members[c][x])) =>
                /\ Owned(epoch[x], FenceOf(members[c][x]))
                /\ c \in channels[FenceOf(members[c][x]).sid].ids
                       => c \in channels'[FenceOf(members[c][x]).sid].ids
        BY <3>1, <4>3, Zenon
      <4>5. Membership(c, members'[c], epoch', channels', issued)
        BY <2>3, <4>1, <4>3, <4>4, <4>6, <4>7, StoredMembersGrow, Zenon
      <4> QED BY <2>2, <4>5, Zenon
    <3>3. CASE c \notin Joined(f)
      <4>1. members'[c] = members[c] BY <2>2, <3>3, Zenon
      <4>2. a \in DOMAIN members[c] => ~Owned(epoch'[a], FenceOf(members[c][a]))
        <5> SUFFICES ASSUME a \in DOMAIN members[c], Owned(epoch'[a], FenceOf(members[c][a])) PROVE FALSE
          OBVIOUS
        <5>1. FenceOf(members[c][a]) = f BY <2>1, Zenon DEF Owned
        <5>2. c \in channels[f.sid].ids BY <2>1, <5>1, MemberFacts, Zenon
        <5> QED BY <3>3, <5>1, <5>2, Zenon DEF Joined
      <4>3. Membership(c, members[c], epoch, channels, issued) BY MemberFacts
      <4>4. \A x \in DOMAIN members[c] : Owned(epoch'[x], FenceOf(members[c][x])) =>
                /\ Owned(epoch[x], FenceOf(members[c][x]))
                /\ c \in channels[FenceOf(members[c][x]).sid].ids
                       => c \in channels'[FenceOf(members[c][x]).sid].ids
        BY <3>1, <4>2, Zenon
      <4>5. Membership(c, members[c], epoch', channels', issued) BY <4>3, <4>4, MembersShrink, Zenon
      <4> QED BY <2>2, <4>1, <4>5, Zenon
    <3> QED BY <3>2, <3>3
  <2> QED BY <1>1, <2>1, <2>5, <2>7, <2>8, Zenon
<1>7. ASSUME NEW f \in issued, NEW requested \in Nat, HEARTBEAT_SESSION(f, requested) PROVE Good
  BY <1>6, <1>7, HeartbeatFacts, Zenon
<1>8. ASSUME NEW f \in issued, Live(f), UNCHANGED <<session, epoch, issued>>,
             NEW c \in Channels, NEW k, channels'[f.sid] = k, ChannelsOf(k, session[f.sid]),
             \A t \in Sessions \ {f.sid} : channels'[t] = channels[t],
             channels[f.sid].ids \ {c} \subseteq k.ids,
             \A d \in Channels \ {c} : members'[d] = members[d],
             Membership(c, members'[c], epoch, channels', issued)
      PROVE  Good
  <2>1. session' = session /\ epoch' = epoch /\ issued' = issued BY <1>8, Zenon
  <2>2. \A t \in Sessions : ChannelsOf(channels'[t], session[t])
    <3>1. ChannelsOf(channels'[f.sid], session[f.sid]) BY <1>8
    <3>2. \A t \in Sessions \ {f.sid} : ChannelsOf(channels'[t], session[t]) BY <1>1, <1>8, Zenon
    <3> QED BY <3>1, <3>2, Zenon
  <2>3. ASSUME NEW d \in Channels, d # c PROVE Membership(d, members'[d], epoch, channels', issued)
    <3>1. ASSUME NEW x \in DOMAIN members[d], d \in channels[FenceOf(members[d][x]).sid].ids
          PROVE  d \in channels'[FenceOf(members[d][x]).sid].ids
      <4>1. FenceOf(members[d][x]).sid \in Sessions BY MemberFacts, Zenon
      <4> QED BY <1>8, <2>3, <3>1, <4>1, Zenon
    <3>2. members'[d] = members[d] BY <1>8, <2>3, Zenon
    <3> QED BY <3>1, <3>2, MemberFacts, MembersShrink, Zenon
  <2> QED BY <1>8, <2>1, <2>2, <2>3, Zenon
<1>9. ASSUME NEW f \in issued, NEW c \in Channels, JOIN_CHANNEL(f, c) PROVE Good
  <2> DEFINE a == Account(f) exp == session[f.sid].exp ids == channels[f.sid].ids
             entry == [sid |-> f.sid, rev |-> f.rev, exp |-> exp]
             k == [ids |-> ids \cup {c}, exp |-> exp]
  <2>1. /\ Live(f) /\ ChannelRoom(f, c) /\ UNCHANGED <<session, epoch, issued>>
        /\ members' = [members EXCEPT ![c] = Put(members[c], a, entry)]
        /\ channels' = [channels EXCEPT ![f.sid] = k]
    BY <1>9, Zenon DEF JOIN_CHANNEL, sessionKeys
  <2>2. /\ f \in Fence /\ a \in Accounts /\ f.sid \in Sessions /\ f.rev \in 1 .. MaxRevision
        /\ session[f.sid] # NoKey /\ exp \in Time
    BY <2>1, LiveFacts, Zenon DEF KeyTypes
  <2>3. FenceOf(entry) = f /\ Account(f) = a /\ Owner[f.sid] = a /\ entry \in Expiring
    BY <2>2, FenceFacts DEF FenceOf, Account, Expiring
  <2>4. k.ids = ids \cup {c} /\ k.exp = exp BY Zenon
  <2>5. ChannelsOf(k, session[f.sid])
    <3>1. IsFiniteSet(ids) /\ Cardinality(ids) <= MaxChannels BY <1>1, <2>2 DEF ChannelsOf
    <3>2. c \in ids \/ Cardinality(ids) < MaxChannels BY <2>1, Zenon DEF ChannelRoom
    <3> HIDE DEF ids, exp
    <3>3. /\ IsFiniteSet(ids \cup {c}) /\ Cardinality(ids) \in Nat
          /\ Cardinality(ids \cup {c}) = IF c \in ids THEN Cardinality(ids) ELSE Cardinality(ids) + 1
      BY <3>1, FS_AddElement, FS_CardinalityType, Zenon
    <3>4. Cardinality(ids \cup {c}) <= MaxChannels BY <3>1, <3>2, <3>3, Limits
    <3> HIDE DEF k
    <3> QED BY <2>2, <2>4, <3>3, <3>4, Zenon DEF ChannelsOf, exp
  <2> HIDE DEF k, entry
  <2>6. /\ channels'[f.sid] = k /\ \A t \in Sessions \ {f.sid} : channels'[t] = channels[t]
        /\ members'[c] = Put(members[c], a, entry) /\ \A d \in Channels \ {c} : members'[d] = members[d]
    BY <2>1, <2>2, Zenon DEF KeyTypes
  <2>7. Membership(c, members'[c], epoch, channels', issued)
    <3>1. Membership(c, members[c], epoch, channels, issued) BY MemberFacts, Zenon
    <3>2. /\ DOMAIN members'[c] = DOMAIN members[c] \cup {a} /\ members'[c][a] = entry
          /\ \A x \in DOMAIN members'[c] \ {a} : members'[c][x] = members[c][x]
      BY <2>6 DEF Put
    <3>3. ASSUME NEW x \in DOMAIN members'[c] \ {a}, c \in channels[FenceOf(members[c][x]).sid].ids
          PROVE  c \in channels'[FenceOf(members[c][x]).sid].ids
      <4>1. FenceOf(members[c][x]).sid \in Sessions BY <3>2, MemberFacts, Zenon
      <4> QED BY <2>4, <2>6, <3>3, <4>1, Zenon
    <3>4. c \in channels'[f.sid].ids BY <2>4, <2>6, Zenon
    <3> HIDE DEF a
    <3>5. FenceOf(members'[c][a]) = f BY <2>3, <3>2, Zenon
    <3>6. \A x \in DOMAIN members'[c] \ {a} : Owned(epoch[x], FenceOf(members[c][x])) =>
              /\ Owned(epoch[x], FenceOf(members[c][x]))
              /\ c \in channels[FenceOf(members[c][x]).sid].ids
                     => c \in channels'[FenceOf(members[c][x]).sid].ids
      BY <3>3, Zenon
    <3> QED BY <2>3, <3>1, <3>2, <3>4, <3>5, <3>6, StoredMembersGrow, Zenon
  <2> HIDE DEF Good
  <2> QED BY <1>8, <2>1, <2>4, <2>5, <2>6, <2>7, Zenon
<1>10. ASSUME NEW f \in issued, NEW c \in Channels, LEAVE_CHANNEL(f, c) PROVE Good
  <2> DEFINE a == Account(f) ids == channels[f.sid].ids left == ids \ {c}
             k == IF left = {} THEN NoChannels ELSE [channels[f.sid] EXCEPT !.ids = left]
             gone == a \in DOMAIN members[c] /\ FenceOf(members[c][a]) = f
             y == Without(members[c], {a})
  <2>1. /\ Live(f) /\ UNCHANGED <<session, epoch, issued>>
        /\ members' = IF gone THEN [members EXCEPT ![c] = refresh_channel(y)] ELSE members
        /\ channels' = [channels EXCEPT ![f.sid] = k]
    BY <1>10, Zenon DEF LEAVE_CHANNEL, sessionKeys
  <2>2. f \in Fence /\ a \in Accounts /\ f.sid \in Sessions /\ Owned(epoch[a], f)
    BY <2>1, LiveFacts, Zenon DEF KeyTypes
  <2>3. channels[f.sid] \in ChannelsKey BY <2>2, Zenon DEF KeyTypes
  <2>4. k.ids = left /\ (left # {} => k.exp = channels[f.sid].exp)
    BY <2>3 DEF ChannelsKey, NoChannels
  <2>5. ChannelsOf(k, session[f.sid])
    <3>1. /\ IsFiniteSet(ids) /\ Cardinality(ids) <= MaxChannels
          /\ ids # {} => session[f.sid] # NoKey /\ channels[f.sid].exp = session[f.sid].exp
      BY <1>1, <2>2, Zenon DEF ChannelsOf
    <3>2. /\ IsFiniteSet(left) /\ Cardinality(left) <= Cardinality(ids)
          /\ Cardinality(left) \in Nat /\ Cardinality(ids) \in Nat
      BY <3>1, FS_Subset, FS_CardinalityType, Zenon
    <3>3. Cardinality(left) <= MaxChannels BY <3>1, <3>2, Limits
    <3>4. left # {} => ids # {} OBVIOUS
    <3> HIDE DEF k, left, ids
    <3> QED BY <2>4, <3>1, <3>2, <3>3, <3>4, Zenon DEF ChannelsOf
  <2>6. ids \ {c} \subseteq k.ids BY <2>4
  <2>7. DOMAIN y \subseteq DOMAIN members[c] \ {a} /\ \A x \in DOMAIN y : y[x] = members[c][x] BY DEF Without
  <2> HIDE DEF k, y
  <2>8. /\ channels'[f.sid] = k /\ \A t \in Sessions \ {f.sid} : channels'[t] = channels[t]
        /\ \A d \in Channels \ {c} : members'[d] = members[d]
        /\ members'[c] = IF gone THEN refresh_channel(y) ELSE members[c]
    BY <2>1, <2>2, Zenon DEF KeyTypes
  <2>9. Membership(c, members'[c], epoch, channels', issued)
    <3>1. /\ DOMAIN members'[c] \subseteq DOMAIN members[c]
          /\ \A x \in DOMAIN members'[c] : members'[c][x] = members[c][x]
          /\ gone => a \notin DOMAIN members'[c]
      <4>1. CASE gone
        <5>1. /\ DOMAIN refresh_channel(y) \subseteq DOMAIN members[c]
              /\ \A x \in DOMAIN refresh_channel(y) : refresh_channel(y)[x] = members[c][x]
          BY <2>7, RefreshMembers, Zenon
        <5>2. DOMAIN refresh_channel(y) \subseteq DOMAIN y BY <2>7, Zenon DEF refresh_channel, Empty
        <5> QED BY <2>7, <2>8, <4>1, <5>1, <5>2, Zenon
      <4>2. CASE ~gone BY <2>8, <4>2
      <4> QED BY <4>1, <4>2, Zenon
    <3>2. ASSUME NEW x \in DOMAIN members'[c], Owned(epoch[x], FenceOf(members[c][x])),
                 c \in channels[FenceOf(members[c][x]).sid].ids
          PROVE  c \in channels'[FenceOf(members[c][x]).sid].ids
      <4>1. /\ FenceOf(members[c][x]).sid \in Sessions /\ Owner[FenceOf(members[c][x]).sid] = x
        BY <3>1, MemberFacts, Zenon
      <4>2. x # a
        <5> SUFFICES ASSUME x = a PROVE FALSE OBVIOUS
        <5>1. FenceOf(members[c][a]) = f BY <2>2, <3>2, Zenon DEF Owned
        <5> QED BY <3>1, <5>1, Zenon
      <4>3. FenceOf(members[c][x]).sid # f.sid BY <4>1, <4>2, Zenon DEF Account
      <4> QED BY <2>8, <3>2, <4>1, <4>3, Zenon
    <3> HIDE DEF gone
    <3>3. Membership(c, members[c], epoch, channels, issued) BY MemberFacts, Zenon
    <3> QED BY <3>1, <3>2, <3>3, StoredMembersShrink, Zenon
  <2> HIDE DEF Good, gone
  <2> QED BY <1>8, <2>1, <2>5, <2>6, <2>8, <2>9, Zenon
<1>11. ASSUME NEW c \in Channels, LIST_CHANNEL(c) PROVE Good
  <2> DEFINE y == [x \in ChannelMembers(c) |-> members[c][x]]
  <2>1. /\ UNCHANGED <<session, epoch, issued, channels>>
        /\ members' = [members EXCEPT ![c] = refresh_channel(y)]
    BY <1>11, Zenon DEF LIST_CHANNEL, sessionKeys
  <2>2. DOMAIN y \subseteq DOMAIN members[c] /\ \A x \in DOMAIN y : y[x] = members[c][x]
    BY DEF ChannelMembers
  <2> HIDE DEF y
  <2>3. ASSUME NEW d \in Channels
        PROVE  /\ DOMAIN members'[d] \subseteq DOMAIN members[d]
               /\ \A x \in DOMAIN members'[d] : members'[d][x] = members[d][x]
    <3>1. CASE d = c
      <4>1. members'[c] = refresh_channel(y) BY <2>1, Zenon DEF KeyTypes
      <4> QED BY <2>2, <3>1, <4>1, RefreshMembers
    <3>2. CASE d # c BY <2>1, <3>2, Zenon DEF KeyTypes
    <3> QED BY <3>1, <3>2, Zenon
  <2> HIDE DEF Good
  <2> QED BY <1>2, <2>1, <2>3, Zenon
<1>12. CASE Tick
  <2> DEFINE T == now + 1
  <2>1. /\ session' = [t \in Sessions |-> Expire(session[t], T)]
        /\ epoch' = [a \in Accounts |-> Expire(epoch[a], T)] /\ issued' = issued
        /\ channels' = [t \in Sessions |-> IF channels[t].exp <= T THEN NoChannels ELSE channels[t]]
        /\ members' = [c \in Channels |->
               IF \E a \in DOMAIN members[c] : members[c][a].exp > T THEN members[c] ELSE Empty]
    BY <1>12, Zenon DEF Tick
  <2> HIDE DEF T
  <2>2. ASSUME NEW t \in Sessions PROVE ChannelsOf(channels'[t], session'[t])
    <3>1. CASE channels[t].exp <= T BY <2>1, <3>1, NoChannelsFine, Zenon
    <3>2. CASE ~(channels[t].exp <= T)
      <4>1. channels'[t] = channels[t] BY <2>1, <3>2, Zenon
      <4>2. ChannelsOf(channels[t], session[t]) BY <1>1
      <4>3. channels[t].ids # {} => session'[t] = session[t]
        BY <2>1, <3>2, <4>2, Zenon DEF ChannelsOf, Expire
      <4> QED BY <4>1, <4>2, <4>3 DEF ChannelsOf
    <3> QED BY <3>1, <3>2, Zenon
  <2>3. ASSUME NEW c \in Channels PROVE Membership(c, members'[c], epoch', channels', issued)
    <3>1. /\ DOMAIN members'[c] \subseteq DOMAIN members[c]
          /\ \A x \in DOMAIN members'[c] : members'[c][x] = members[c][x]
      <4>1. DOMAIN Empty = {} BY DEF Empty
      <4>2. members'[c] = members[c] \/ members'[c] = Empty BY <2>1, Zenon
      <4> QED BY <4>1, <4>2
    <3>2. ASSUME NEW x \in DOMAIN members'[c], Owned(epoch'[x], FenceOf(members[c][x]))
          PROVE  /\ Owned(epoch[x], FenceOf(members[c][x]))
                 /\ c \in channels[FenceOf(members[c][x]).sid].ids
                        => c \in channels'[FenceOf(members[c][x]).sid].ids
      <4> DEFINE g == FenceOf(members[c][x])
      <4>1. x \in Accounts /\ g.sid \in Sessions /\ Owner[g.sid] = x BY <3>1, MemberFacts, Zenon
      <4>2. epoch'[x] = Expire(epoch[x], T) /\ epoch'[x] # NoKey BY <2>1, <3>2, <4>1, Zenon DEF Owned
      <4>3. epoch'[x] = epoch[x] /\ epoch[x] # NoKey /\ ~(epoch[x].exp <= T) BY <4>2, Zenon DEF Expire
      <4>4. Owned(epoch[x], g) BY <3>2, <4>3, Zenon
      <4> HIDE DEF g
      <4>5. g.sid = epoch[x].sid /\ session[g.sid].exp = epoch[x].exp
        BY <4>1, <4>3, <4>4, CurrentLogin, ExpiringFacts DEF Owned
      <4>6. ASSUME c \in channels[g.sid].ids PROVE c \in channels'[g.sid].ids
        <5>1. channels[g.sid].exp = session[g.sid].exp BY <1>1, <4>1, <4>6, Zenon DEF ChannelsOf
        <5>2. channels'[g.sid] = channels[g.sid] BY <2>1, <4>1, <4>3, <4>5, <5>1, Zenon
        <5> QED BY <4>6, <5>2
      <4> QED BY <4>4, <4>6, Zenon DEF g
    <3>3. Membership(c, members[c], epoch, channels, issued) BY MemberFacts, Zenon
    <3> QED BY <3>1, <3>2, <3>3, StoredMembersShrink, Zenon
  <2> QED BY <2>1, <2>2, <2>3, Zenon
<1>13. SessionProgram \/ ChannelProgram \/ Tick \/ UNCHANGED <<session, epoch, issued, channels, members>>
  BY ProgramFrames DEF StepKinds, redisKeys, sessionKeys, channelKeys
<1>14. CASE UNCHANGED <<session, epoch, issued, channels, members>>
  <2>1. UNCHANGED <<session, epoch, issued, channels>> /\ members' = members BY <1>14
  <2>2. \A c \in Channels : /\ DOMAIN members'[c] \subseteq DOMAIN members[c]
                            /\ \A x \in DOMAIN members'[c] : members'[c][x] = members[c][x]
    BY <2>1
  <2> HIDE DEF Good
  <2> QED BY <1>2, <2>1, <2>2, Zenon
<1>15. CASE SessionProgram
  <2> HIDE DEF Good
  <2> QED BY <1>4, <1>5, <1>7, <1>15, Zenon DEF SessionProgram
<1>16. CASE ChannelProgram
  <2> HIDE DEF Good
  <2> QED BY <1>9, <1>10, <1>11, <1>16, Zenon DEF ChannelProgram
<1> HIDE DEF Good
<1> QED BY <1>12, <1>13, <1>14, <1>15, <1>16, Zenon

=============================================================================
