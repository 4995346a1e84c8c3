-------------------------- MODULE RadarFeedsProofs --------------------------
(***************************************************************************)
(* Feeds and subscriptions.  What the radar service keeps for any number of *)
(* requests under way, whatever the web client and the administrators do:   *)
(* of an account's own feeds the quota and its margin, and the lookup that  *)
(* precedes an insert.  And the lists of feeds of one tab: when its requests *)
(* have been answered, what it trusts is what the service lists, and a box  *)
(* stays as it was set.  And the types of both parts of the radar.          *)
(***************************************************************************)
EXTENDS TopicsClientProofs

\* A record with the fields of a feed, of a request, whatever their values.
IsFeed(r) == r \in [url : {r.url}, own : BOOLEAN, setting : {r.setting}]
IsCall(r) ==
  r \in [kind : {r.kind}, own : {r.own}, url : {r.url}, id : {r.id}, setting : {r.setting},
         on : {r.on}, at : {r.at}, result : {r.result}, seen : {r.seen}, heard : {r.heard},
         back : {r.back}, alone : {r.alone}]

\* Past the lookup of AddUserFeed, past its count.
LookedUp(r) == r.at \in {"counting", "adding"}
Counted == {k \in Call : call[k].at = "adding"}
StillAbsent(r) ==
  r.seen \in 0..issued /\ \A f \in Sources!Catalog : feeds[f].url = r.url => f > r.seen

FeedsOK ==
  /\ issued \in Nat
  /\ feeds = [f \in DOMAIN feeds |-> feeds[f]]
  /\ DOMAIN feeds \subseteq 1..issued
  /\ \A f \in DOMAIN feeds : IsFeed(feeds[f])
CallsOK ==
  /\ call = [k \in Call |-> call[k]]
  /\ \A k \in Call : IsCall(call[k])

(* The strengthening: a request past its count has a place in the margin     *)
(* already, so that an insert only turns one kind of place into the other;  *)
(* and what the lookup found absent was created since.                      *)
QuotaInv ==
  /\ FeedsOK
  /\ CallsOK
  /\ \A k \in Call : LookedUp(call[k]) => StillAbsent(call[k])
  /\ Cardinality(Sources!OwnFeeds) + Cardinality(Counted) <= MaxUserFeeds + Cardinality(Call) - 1

-----------------------------------------------------------------------------
(* Counting.  The instance has a copy of the operator of FiniteSets.        *)

LEMMA SameCardinality == \A S : Sources!Cardinality(S) = Cardinality(S)
BY DEF Sources!Cardinality, Cardinality

LEMMA Finite ==
  ASSUME FeedsOK
  PROVE  /\ IsFiniteSet(Sources!OwnFeeds) /\ Cardinality(Sources!OwnFeeds) \in Nat
         /\ IsFiniteSet(Counted) /\ Cardinality(Counted) \in Nat
         /\ Cardinality(Counted) <= Cardinality(Call)
         /\ IsFiniteSet(Call) /\ Cardinality(Call) \in Nat \ {0}
<1>1. IsFiniteSet(1..issued)
  BY FS_Interval DEF FeedsOK
<1>2. Sources!OwnFeeds \subseteq 1..issued
  BY DEF FeedsOK, Sources!OwnFeeds
<1>3. IsFiniteSet(Sources!OwnFeeds)
  BY <1>1, <1>2, FS_Subset
<1>4. IsFiniteSet(Call) /\ Call # {}
  BY RadarSourcesAssumption
<1>5. Counted \subseteq Call
  BY DEF Counted
<1>6. IsFiniteSet(Counted) /\ Cardinality(Counted) <= Cardinality(Call)
  BY <1>4, <1>5, FS_Subset
<1>7. Cardinality(Call) \in Nat \ {0}
  BY <1>4, FS_CardinalityType, FS_EmptySet
<1> QED  BY <1>3, <1>4, <1>6, <1>7, FS_CardinalityType

LEMMA InvImpliesQuota ==
  ASSUME QuotaInv
  PROVE  QuotaBestEffort
<1>1. Cardinality(Sources!OwnFeeds) \in Nat /\ Cardinality(Counted) \in Nat
      /\ Cardinality(Call) \in Nat /\ MaxUserFeeds \in Nat
  BY Finite, RadarSourcesAssumption DEF QuotaInv
<1> QED  BY <1>1, SameCardinality DEF QuotaInv, QuotaBestEffort, Sources!QuotaBestEffort

-----------------------------------------------------------------------------
(* Most steps add no feed of the account's own and pass no count.           *)

SameCall(o, n) == LookedUp(n) => n.at = o.at /\ n.url = o.url /\ n.seen = o.seen
CallsKept == CallsOK' /\ \A k \in Call : SameCall(call[k], call'[k])
FeedsKept ==
  /\ FeedsOK'
  /\ issued <= issued'
  /\ Sources!OwnFeeds' \subseteq Sources!OwnFeeds
  /\ \A f \in Sources!Catalog' :
       f > issued \/ (f \in Sources!Catalog /\ feeds'[f].url = feeds[f].url)

LEMMA AbsenceKept ==
  ASSUME QuotaInv, CallsKept, FeedsKept, NEW k \in Call, LookedUp(call'[k])
  PROVE  StillAbsent(call[k])'
<1>1. call'[k].seen = call[k].seen /\ call'[k].url = call[k].url /\ LookedUp(call[k])
  BY DEF CallsKept, SameCall, LookedUp
<1>2. StillAbsent(call[k])
  BY <1>1 DEF QuotaInv
<1>3. call[k].seen \in Nat /\ call[k].seen <= issued /\ issued \in Nat /\ issued' \in Nat
      /\ issued <= issued'
  BY <1>2 DEF StillAbsent, FeedsKept, FeedsOK, QuotaInv
<1>4. ASSUME NEW f \in Sources!Catalog', feeds'[f].url = call'[k].url
      PROVE  f > call'[k].seen
  <2>1. f \in Nat
    BY <1>3 DEF Sources!Catalog, FeedsKept, FeedsOK
  <2>2. CASE f > issued
    BY <1>1, <1>3, <2>1, <2>2
  <2>3. CASE f \in Sources!Catalog /\ feeds'[f].url = feeds[f].url
    BY <1>1, <1>2, <1>4, <2>3 DEF StillAbsent
  <2> QED  BY <2>2, <2>3 DEF FeedsKept
<1> QED  BY <1>1, <1>3, <1>4 DEF StillAbsent

LEMMA Keeps ==
  ASSUME QuotaInv, CallsKept, FeedsKept
  PROVE  QuotaInv'
<1>1. FeedsOK' /\ CallsOK'
  BY DEF CallsKept, FeedsKept
<1>2. Counted' \subseteq Counted
  BY DEF CallsKept, SameCall, LookedUp, Counted
<1>3. Cardinality(Counted') <= Cardinality(Counted)
  BY <1>2, Finite, FS_Subset DEF QuotaInv
<1>4. Cardinality(Sources!OwnFeeds') <= Cardinality(Sources!OwnFeeds)
  BY Finite, FS_Subset DEF FeedsKept, QuotaInv
<1>5. /\ IsFiniteSet(Counted') /\ IsFiniteSet(Sources!OwnFeeds')
      /\ Cardinality(Counted') \in Nat /\ Cardinality(Sources!OwnFeeds') \in Nat
  BY <1>2, Finite, FS_Subset, FS_CardinalityType DEF FeedsKept, QuotaInv
<1>6. Cardinality(Sources!OwnFeeds') + Cardinality(Counted')
        <= MaxUserFeeds + Cardinality(Call) - 1
  BY <1>3, <1>4, <1>5, Finite, RadarSourcesAssumption DEF QuotaInv
<1>7. \A k \in Call : LookedUp(call'[k]) => StillAbsent(call[k])'
  BY AbsenceKept
<1> QED  BY <1>1, <1>6, <1>7 DEF QuotaInv
-----------------------------------------------------------------------------
(* What becomes of the requests.                                           *)

LEMMA OneCall ==
  ASSUME CallsOK, NEW k \in Call, NEW o, IsCall(o), SameCall(call[k], o),
         call' = [call EXCEPT ![k] = o]
  PROVE  CallsKept
<1>1. call' = [n \in Call |-> IF n = k THEN o ELSE call[n]]
  BY DEF CallsOK
<1> QED  BY <1>1 DEF CallsOK, CallsKept, SameCall

LEMMA CallAnswers ==
  ASSUME CallsOK, NEW k \in Call, NEW result, Sources!Finish(k, result)
  PROVE  CallsKept
<1>1. PICK o : o = [call[k] EXCEPT !.at = "answered", !.result = result]
  OBVIOUS
<1>2. IsCall(o) /\ o.at = "answered"
  BY <1>1 DEF IsCall, CallsOK
<1>3. call' = [call EXCEPT ![k] = o]
  BY <1>1 DEF Sources!Finish, Sources!Becomes
<1> QED  BY <1>2, <1>3, OneCall DEF SameCall, LookedUp

LEMMA AtField ==
  ASSUME NEW o, IsCall(o), NEW at
  PROVE  LET n == [o EXCEPT !.at = at]
         IN IsCall(n) /\ n.at = at /\ n.url = o.url /\ n.seen = o.seen
BY DEF IsCall

LEMMA Idle == IsCall(Sources!NoCall) /\ Sources!NoCall.at = "idle"
BY DEF IsCall, Sources!NoCall

LEMMA CrowdedIs ==
  ASSUME CallsOK
  PROVE  /\ Sources!Crowded = [k \in Call |-> Sources!Crowded[k]]
         /\ \A k \in Call : IsCall(Sources!Crowded[k]) /\ SameCall(call[k], Sources!Crowded[k])
<1>1. \A o : IsCall(o) => LET n == [o EXCEPT !.alone = FALSE]
                          IN IsCall(n) /\ SameCall(o, n)
  BY DEF IsCall, SameCall
<1> QED  BY <1>1 DEF CallsOK, Sources!Crowded

LEMMA OneCrowded ==
  ASSUME CallsOK, NEW k \in Call, NEW o, IsCall(o), ~LookedUp(o),
         call' = [Sources!Crowded EXCEPT ![k] = o]
  PROVE  CallsKept
<1>1. call' = [n \in Call |-> IF n = k THEN o ELSE Sources!Crowded[n]]
  BY CrowdedIs
<1> QED  BY <1>1, CrowdedIs DEF CallsOK, CallsKept, SameCall

LEMMA Sent ==
  ASSUME CallsOK, NEW new, IsCall(new), Sources!Send(new)
  PROVE  CallsKept
<1>1. PICK k \in Sources!FreeCall : call' = [Sources!Crowded EXCEPT ![k] = [new EXCEPT !.at = "sent"]]
  BY DEF Sources!Send
<1>2. k \in Call
  BY DEF Sources!FreeCall
<1>3. IsCall([new EXCEPT !.at = "sent"]) /\ ~LookedUp([new EXCEPT !.at = "sent"])
  BY AtField DEF LookedUp
<1> QED  BY <1>1, <1>2, <1>3, OneCrowded

LEMMA Ended ==
  ASSUME CallsOK, NEW k \in Call, Sources!Done(k)
  PROVE  CallsKept
BY Idle, OneCrowded DEF Sources!Done, LookedUp

\* A form or a page that goes away.
LEMMA PageChanges ==
  ASSUME CallsOK, NEW expired, call' = Sources!Unheard(expired)
  PROVE  CallsKept
<1>1. \A k \in Call : \E alone : call'[k] = [call[k] EXCEPT !.heard = "no", !.alone = alone]
  BY DEF Sources!Unheard
<1>2. ASSUME NEW k \in Call PROVE IsCall(call'[k]) /\ SameCall(call[k], call'[k])
  <2>1. PICK o, alone : o = call[k] /\ call'[k] = [o EXCEPT !.heard = "no", !.alone = alone]
    BY <1>1
  <2>2. IsCall(o)
    BY <2>1 DEF CallsOK
  <2>3. PICK n : n = [o EXCEPT !.heard = "no", !.alone = alone]
    OBVIOUS
  <2>4. IsCall(n) /\ SameCall(o, n)
    BY <2>2, <2>3 DEF IsCall, SameCall
  <2> QED  BY <2>1, <2>3, <2>4
<1> QED  BY <1>2 DEF CallsKept, CallsOK, Sources!Unheard

LEMMA CallUnheard ==
  ASSUME CallsOK, NEW gone, NEW heard,
         call' = [k \in Call |-> IF gone[k] THEN [call[k] EXCEPT !.heard = heard] ELSE call[k]]
  PROVE  CallsKept
<1>1. \A o : IsCall(o) => LET n == [o EXCEPT !.heard = heard]
                          IN IsCall(n) /\ SameCall(o, n)
  BY DEF IsCall, SameCall
<1>2. \A k \in Call : call'[k] = call[k] \/ call'[k] = [call[k] EXCEPT !.heard = heard]
  OBVIOUS
<1>3. \A k \in Call : IsCall(call'[k]) /\ SameCall(call[k], call'[k])
  BY <1>1, <1>2 DEF CallsOK, SameCall
<1> QED  BY <1>3 DEF CallsKept, CallsOK

LEMMA CallsStay ==
  ASSUME CallsOK, UNCHANGED call
  PROVE  CallsKept
BY DEF CallsOK, CallsKept, SameCall

-----------------------------------------------------------------------------
(* What becomes of the feeds.                                              *)

LEMMA FeedsStay ==
  ASSUME FeedsOK, UNCHANGED <<feeds, issued>>
  PROVE  FeedsKept
BY DEF FeedsOK, FeedsKept, Sources!OwnFeeds, Sources!Catalog

LEMMA Inserted ==
  ASSUME FeedsOK, NEW url, NEW own \in BOOLEAN, Sources!Insert(url, own)
  PROVE  /\ FeedsOK'
         /\ DOMAIN feeds' = DOMAIN feeds \union {issued + 1}
         /\ issued + 1 \notin DOMAIN feeds /\ issued' = issued + 1
         /\ \A f \in DOMAIN feeds : feeds'[f] = feeds[f]
         /\ feeds'[issued + 1].own = own /\ feeds'[issued + 1].url = url
<1> DEFINE new == [url |-> url, own |-> own, setting |-> NewSetting]
<1>1. IsFeed(new) /\ new.own = own /\ new.url = url
  BY DEF IsFeed
<1>2. issued' = issued + 1 /\ issued' \in Nat /\ issued \in Nat
  BY DEF FeedsOK, Sources!Insert
<1>3. issued + 1 \notin DOMAIN feeds
  BY <1>2 DEF FeedsOK
<1>4. feeds' = [f \in DOMAIN feeds \union {issued + 1} |-> IF f \in DOMAIN feeds THEN feeds[f] ELSE new]
  BY DEF Sources!Insert
<1> HIDE DEF new
<1>5. DOMAIN feeds' = DOMAIN feeds \union {issued + 1}
      /\ feeds' = [f \in DOMAIN feeds' |-> feeds'[f]]
      /\ (\A f \in DOMAIN feeds : feeds'[f] = feeds[f]) /\ feeds'[issued + 1] = new
  BY <1>3, <1>4
<1>6. DOMAIN feeds' \subseteq 1..issued'
  BY <1>2, <1>5 DEF FeedsOK
<1>7. \A f \in DOMAIN feeds' : IsFeed(feeds'[f])
  BY <1>1, <1>5 DEF FeedsOK
<1>8. FeedsOK'
  BY <1>2, <1>5, <1>6, <1>7 DEF FeedsOK
<1> QED  BY <1>1, <1>2, <1>3, <1>5, <1>8

LEMMA FeedsAlike ==
  ASSUME FeedsOK, FeedsOK', issued <= issued',
         \A f \in DOMAIN feeds' :
           \/ f > issued /\ ~feeds'[f].own
           \/ f \in DOMAIN feeds /\ feeds'[f].own = feeds[f].own /\ feeds'[f].url = feeds[f].url
  PROVE  FeedsKept
<1>1. \A f \in DOMAIN feeds : f <= issued /\ f \in Nat
  BY DEF FeedsOK
<1>2. Sources!OwnFeeds' \subseteq Sources!OwnFeeds
  BY DEF Sources!OwnFeeds
<1>3. \A f \in Sources!Catalog' :
        f > issued \/ (f \in Sources!Catalog /\ feeds'[f].url = feeds[f].url)
  BY DEF Sources!OwnFeeds, Sources!Catalog
<1> QED  BY <1>2, <1>3 DEF FeedsKept

LEMMA CatalogGrows ==
  ASSUME FeedsOK, NEW url, Sources!Insert(url, FALSE)
  PROVE  FeedsKept
<1>1. issued \in Nat /\ issued + 1 > issued
  BY DEF FeedsOK
<1>2. FeedsOK' /\ issued' = issued + 1
  BY Inserted
<1>3. \A f \in DOMAIN feeds' : (f = issued + 1 /\ ~feeds'[f].own) \/ (f \in DOMAIN feeds /\ feeds'[f] = feeds[f])
  BY Inserted
<1> QED  BY <1>1, <1>2, <1>3, FeedsAlike

LEMMA Removed ==
  ASSUME FeedsOK, NEW f, Sources!Without(f), UNCHANGED issued
  PROVE  FeedsKept
<1>1. /\ DOMAIN feeds' \subseteq DOMAIN feeds
      /\ feeds' = [g \in DOMAIN feeds' |-> feeds'[g]]
      /\ \A g \in DOMAIN feeds' : feeds'[g] = feeds[g]
  BY DEF Sources!Without
<1> QED  BY <1>1 DEF FeedsOK, FeedsKept, Sources!OwnFeeds, Sources!Catalog

LEMMA Reset ==
  ASSUME FeedsOK, NEW f, NEW setting, feeds' = [feeds EXCEPT ![f].setting = setting],
         UNCHANGED issued
  PROVE  FeedsKept
<1>1. \A r : IsFeed(r) => LET n == [r EXCEPT !.setting = setting]
                          IN IsFeed(n) /\ n.own = r.own /\ n.url = r.url
  BY DEF IsFeed
<1>2. feeds' = [g \in DOMAIN feeds |-> IF g = f THEN [feeds[g] EXCEPT !.setting = setting] ELSE feeds[g]]
  BY DEF FeedsOK
<1>3. \A g \in DOMAIN feeds : IsFeed(feeds'[g]) /\ feeds'[g].own = feeds[g].own
                              /\ feeds'[g].url = feeds[g].url
  BY <1>1, <1>2 DEF FeedsOK
<1>4. DOMAIN feeds' = DOMAIN feeds /\ feeds' = [g \in DOMAIN feeds' |-> feeds'[g]]
  BY <1>2
<1>5. FeedsOK' /\ issued <= issued'
  BY <1>3, <1>4 DEF FeedsOK
<1> QED  BY <1>3, <1>4, <1>5, FeedsAlike

-----------------------------------------------------------------------------
(* AddUserFeed, the statements that look, count and insert.                 *)

LEMMA LookupKeeps ==
  ASSUME QuotaInv, NEW k \in Call, Sources!GetGlobalFeedByURL(k)
  PROVE  QuotaInv'
<1>1. FeedsOK /\ CallsOK /\ IsCall(call[k])
  BY DEF QuotaInv, CallsOK
<1>2. UNCHANGED <<feeds, issued>>
  BY DEF Sources!GetGlobalFeedByURL, Sources!serverVars
<1>3. CASE Sources!Exists(call[k].url, FALSE)
  <2>1. PICK f : call' = [call EXCEPT ![k] = [call[k] EXCEPT !.at = "subscribing", !.id = f]]
    BY <1>3 DEF Sources!GetGlobalFeedByURL, Sources!Becomes
  <2>2. PICK o : o = [call[k] EXCEPT !.at = "subscribing", !.id = f]
    OBVIOUS
  <2>3. IsCall(o) /\ ~LookedUp(o)
    BY <1>1, <2>2 DEF LookedUp, IsCall
  <2>4. CallsKept
    BY <1>1, <2>1, <2>2, <2>3, OneCall DEF SameCall
  <2> QED  BY <1>1, <1>2, <2>4, FeedsStay, Keeps
<1>4. CASE ~Sources!Exists(call[k].url, FALSE)
  <2>1. PICK o : o = [call[k] EXCEPT !.at = "counting", !.seen = issued]
    OBVIOUS
  <2>2. call' = [call EXCEPT ![k] = o]
    BY <1>4, <2>1 DEF Sources!GetGlobalFeedByURL, Sources!Becomes
  <2>3. IsCall(o) /\ o.at = "counting" /\ o.url = call[k].url /\ o.seen = issued
    BY <1>1, <2>1 DEF IsCall
  <2>4. call' = [n \in Call |-> IF n = k THEN o ELSE call[n]]
    BY <1>1, <2>2 DEF CallsOK
  <2>5. FeedsOK' /\ CallsOK'
    BY <1>1, <1>2, <2>3, <2>4 DEF FeedsOK, CallsOK
  <2>6. issued \in 0..issued
    BY <1>1 DEF FeedsOK
  <2>7. \A f \in Sources!Catalog : feeds[f].url # o.url
    <3>1. \A f \in Sources!Catalog : f \in DOMAIN feeds /\ feeds[f].own = FALSE
      BY <1>1 DEF Sources!Catalog, Sources!OwnFeeds, FeedsOK, IsFeed
    <3> QED  BY <1>4, <2>3, <3>1 DEF Sources!Exists
  <2>8. \A n \in Call : LookedUp(call'[n]) => StillAbsent(call[n])'
    BY <1>2, <2>3, <2>4, <2>6, <2>7 DEF QuotaInv, StillAbsent, Sources!Catalog, Sources!OwnFeeds
  <2>9. Counted' \subseteq Counted
    BY <2>3, <2>4 DEF Counted
  <2>10. Cardinality(Counted') \in Nat /\ Cardinality(Counted') <= Cardinality(Counted)
    BY <1>1, <2>9, Finite, FS_Subset, FS_CardinalityType
  <2>11. Sources!OwnFeeds' = Sources!OwnFeeds
    BY <1>2 DEF Sources!OwnFeeds
  <2>12. Cardinality(Sources!OwnFeeds') + Cardinality(Counted')
           <= MaxUserFeeds + Cardinality(Call) - 1
    BY <1>1, <2>10, <2>11, Finite, RadarSourcesAssumption DEF QuotaInv
  <2> QED  BY <2>5, <2>8, <2>12 DEF QuotaInv
<1> QED  BY <1>3, <1>4

\* Whoever passes the count found a place below the quota, and at most every
\* request is past the count.
LEMMA CountKeeps ==
  ASSUME QuotaInv, NEW k \in Call, Sources!CountUserFeeds(k)
  PROVE  QuotaInv'
<1>1. FeedsOK /\ CallsOK /\ IsCall(call[k]) /\ call[k].at = "counting"
  BY DEF QuotaInv, CallsOK, Sources!CountUserFeeds
<1>2. UNCHANGED <<feeds, issued>>
  BY DEF Sources!CountUserFeeds, Sources!serverVars
<1>3. CASE Sources!Finish(k, "quota")
  BY <1>1, <1>2, <1>3, CallAnswers, FeedsStay, Keeps
<1>4. CASE Sources!WithinQuota(Sources!Cardinality(Sources!OwnFeeds)) /\ Sources!Goes(k, "adding")
  <2>1. PICK o : o = [call[k] EXCEPT !.at = "adding"]
    OBVIOUS
  <2>2. call' = [call EXCEPT ![k] = o]
    BY <1>4, <2>1 DEF Sources!Goes, Sources!Becomes
  <2>3. IsCall(o) /\ o.at = "adding" /\ o.url = call[k].url /\ o.seen = call[k].seen
    BY <1>1, <2>1, AtField
  <2>4. call' = [n \in Call |-> IF n = k THEN o ELSE call[n]]
    BY <1>1, <2>2 DEF CallsOK
  <2>5. FeedsOK' /\ CallsOK'
    BY <1>1, <1>2, <2>3, <2>4 DEF FeedsOK, CallsOK
  <2>6. \A n \in Call : LookedUp(call'[n]) => StillAbsent(call[n])'
    BY <1>1, <1>2, <2>3, <2>4 DEF QuotaInv, StillAbsent, LookedUp, Sources!Catalog, Sources!OwnFeeds
  <2>7. Sources!OwnFeeds' = Sources!OwnFeeds
    BY <1>2 DEF Sources!OwnFeeds
  <2>8. Cardinality(Sources!OwnFeeds) < MaxUserFeeds
    BY <1>4, SameCardinality DEF Sources!WithinQuota
  <2>9. Cardinality(Counted') <= Cardinality(Call) /\ Cardinality(Counted') \in Nat
    <3>1. Counted' \subseteq Call
      BY DEF Counted
    <3> QED  BY <1>1, <3>1, Finite, FS_Subset, FS_CardinalityType
  <2>10. Cardinality(Sources!OwnFeeds') + Cardinality(Counted')
           <= MaxUserFeeds + Cardinality(Call) - 1
    BY <1>1, <2>7, <2>8, <2>9, Finite, RadarSourcesAssumption
  <2> QED  BY <2>5, <2>6, <2>10 DEF QuotaInv
<1> QED  BY <1>3, <1>4 DEF Sources!CountUserFeeds

\* The place in the margin becomes a feed.
LEMMA InsertKeeps ==
  ASSUME QuotaInv, NEW k \in Call, Sources!AddFeed(k), ~Sources!Exists(call[k].url, TRUE)
  PROVE  QuotaInv'
<1>1. FeedsOK /\ CallsOK /\ IsCall(call[k]) /\ call[k].at = "adding"
  BY DEF QuotaInv, CallsOK, Sources!AddFeed
<1>2. Sources!Insert(call[k].url, TRUE)
  BY DEF Sources!AddFeed
<1>3. PICK o : o = [call[k] EXCEPT !.at = "subscribing", !.id = issued + 1]
  OBVIOUS
<1>4. call' = [call EXCEPT ![k] = o]
  BY <1>3 DEF Sources!AddFeed, Sources!Becomes
<1>5. IsCall(o) /\ o.at = "subscribing"
  BY <1>1, <1>3 DEF IsCall
<1>6. call' = [n \in Call |-> IF n = k THEN o ELSE call[n]]
  BY <1>1, <1>4 DEF CallsOK
<1>7. /\ FeedsOK' /\ issued' = issued + 1
      /\ DOMAIN feeds' = DOMAIN feeds \union {issued + 1} /\ issued + 1 \notin DOMAIN feeds
      /\ (\A f \in DOMAIN feeds : feeds'[f] = feeds[f]) /\ feeds'[issued + 1].own = TRUE
  BY <1>1, <1>2, Inserted
<1>8. CallsOK'
  BY <1>1, <1>5, <1>6 DEF CallsOK
<1>9. Sources!OwnFeeds' = Sources!OwnFeeds \union {issued + 1} /\ issued + 1 \notin Sources!OwnFeeds
  BY <1>7 DEF Sources!OwnFeeds
<1>10. Counted' = Counted \ {k} /\ k \in Counted
  BY <1>1, <1>5, <1>6 DEF Counted
<1>11. Cardinality(Sources!OwnFeeds') = Cardinality(Sources!OwnFeeds) + 1
  BY <1>1, <1>9, Finite, FS_AddElement
<1>12. Cardinality(Counted') = Cardinality(Counted) - 1
  BY <1>1, <1>10, Finite, FS_RemoveElement
<1>13. Cardinality(Sources!OwnFeeds') + Cardinality(Counted')
         <= MaxUserFeeds + Cardinality(Call) - 1
  BY <1>1, <1>11, <1>12, Finite, RadarSourcesAssumption DEF QuotaInv
<1>14. ASSUME NEW n \in Call, LookedUp(call'[n])
       PROVE  StillAbsent(call[n])'
  <2>1. call'[n] = call[n]
    BY <1>5, <1>6, <1>14 DEF LookedUp
  <2>2. StillAbsent(call[n])
    BY <1>14, <2>1 DEF QuotaInv
  <2>3. Sources!Catalog' \subseteq Sources!Catalog
    BY <1>7, <1>9 DEF Sources!Catalog
  <2>4. \A f \in Sources!Catalog' : feeds'[f] = feeds[f]
    BY <1>7, <2>3 DEF Sources!Catalog
  <2>5. call[n].seen \in 0..issued'
    BY <1>1, <1>7, <2>2 DEF StillAbsent, FeedsOK
  <2> QED  BY <2>1, <2>2, <2>3, <2>4, <2>5 DEF StillAbsent
<1> QED  BY <1>7, <1>8, <1>13, <1>14 DEF QuotaInv

-----------------------------------------------------------------------------
(* The other steps.                                                        *)

LEMMA ServerKeeps ==
  ASSUME QuotaInv, Sources!SourcesServer
  PROVE  QuotaInv'
<1> USE DEF Sources!serverVars
<1>1. FeedsOK /\ CallsOK
  BY DEF QuotaInv
<1>2. ASSUME NEW k \in Call, Sources!GetGlobalFeedByURL(k) \/ Sources!CountUserFeeds(k)
      PROVE  QuotaInv'
  BY <1>2, LookupKeeps, CountKeeps
<1>3. ASSUME NEW k \in Call, Sources!AddFeed(k)
      PROVE  QuotaInv'
  <2>1. CASE Sources!Exists(call[k].url, TRUE)
    <3>1. Sources!Finish(k, "duplicate") /\ UNCHANGED <<feeds, issued>>
      BY <1>3, <2>1 DEF Sources!AddFeed
    <3> QED  BY <1>1, <3>1, CallAnswers, FeedsStay, Keeps
  <2> QED  BY <1>3, <2>1, InsertKeeps
<1>4. ASSUME NEW k \in Call, Sources!Subscribe(k) \/ Sources!Unsubscribe(k)
      PROVE  QuotaInv'
  <2>1. UNCHANGED <<feeds, issued>>
    BY <1>4 DEF Sources!Subscribe, Sources!Unsubscribe
  <2>2. Sources!Finish(k, "ok") \/ Sources!Finish(k, "notFound")
    BY <1>4 DEF Sources!Subscribe, Sources!Unsubscribe
  <2> QED  BY <1>1, <2>1, <2>2, CallAnswers, FeedsStay, Keeps
<1>5. ASSUME NEW k \in Call, Sources!AddGlobalFeed(k)
      PROVE  QuotaInv'
  <2>1. Sources!Finish(k, "ok") \/ Sources!Finish(k, "duplicate")
    BY <1>5 DEF Sources!AddGlobalFeed
  <2>2. Sources!Insert(call[k].url, FALSE) \/ UNCHANGED <<feeds, issued>>
    BY <1>5 DEF Sources!AddGlobalFeed
  <2>3. PICK url : url = call[k].url
    OBVIOUS
  <2>4. FeedsKept
    BY <1>1, <2>2, <2>3, CatalogGrows, FeedsStay
  <2> QED  BY <1>1, <2>1, <2>4, CallAnswers, Keeps
<1>6. ASSUME NEW k \in Call, Sources!UpdateFeed(k)
      PROVE  QuotaInv'
  <2>1. Sources!Finish(k, "ok") \/ Sources!Finish(k, "notFound")
    BY <1>6 DEF Sources!UpdateFeed
  <2>2. PICK f, setting : f = call[k].id /\ setting = call[k].setting
    OBVIOUS
  <2>3. (feeds' = [feeds EXCEPT ![f].setting = setting] \/ UNCHANGED feeds) /\ UNCHANGED issued
    BY <1>6, <2>2 DEF Sources!UpdateFeed
  <2>4. FeedsKept
    BY <1>1, <2>3, Reset, FeedsStay
  <2> QED  BY <1>1, <2>1, <2>4, CallAnswers, Keeps
<1>7. ASSUME NEW k \in Call, Sources!DeleteFeed(k)
      PROVE  QuotaInv'
  <2>1. Sources!Finish(k, "ok") \/ Sources!Finish(k, "notFound")
    BY <1>7 DEF Sources!DeleteFeed
  <2>2. PICK f : f = call[k].id
    OBVIOUS
  <2>3. (Sources!Without(f) \/ UNCHANGED feeds) /\ UNCHANGED issued
    BY <1>7, <2>2 DEF Sources!DeleteFeed
  <2>4. FeedsKept
    BY <1>1, <2>3, Removed, FeedsStay
  <2> QED  BY <1>1, <2>1, <2>4, CallAnswers, Keeps
<1>8. ASSUME NEW k \in Call, Sources!Unserved(k) \/ Sources!Lost(k)
      PROVE  QuotaInv'
  <2>1. Sources!Finish(k, "failed") /\ UNCHANGED <<feeds, issued>>
    BY <1>8 DEF Sources!Unserved, Sources!Lost
  <2> QED  BY <1>1, <2>1, CallAnswers, FeedsStay, Keeps
<1>9. CASE Sources!OtherAdministrator
  <2>1. UNCHANGED call
    BY <1>9 DEF Sources!OtherAdministrator
  <2>2. FeedsKept
    BY <1>1, <1>9, CatalogGrows, Removed DEF Sources!OtherAdministrator
  <2> QED  BY <1>1, <2>1, <2>2, CallsStay, Keeps
<1> QED  BY <1>2, <1>3, <1>4, <1>5, <1>6, <1>7, <1>8, <1>9 DEF Sources!SourcesServer, Sources!Serve

LEMMA Requests ==
  /\ \A f : IsCall(Sources!subscribeFeed(f)) /\ IsCall(Sources!unsubscribeFeed(f))
  /\ \A url : IsCall(Sources!addFeed(url))
  /\ \A f, setting : IsCall(Sources!updateFeed(f, setting))
  /\ \A f : IsCall(Sources!deleteFeed(f))
<1>1. PICK o : o = Sources!NoCall
  OBVIOUS
<1>2. IsCall(o)
  BY <1>1, Idle
<1>3. \A f, on : IsCall([o EXCEPT !.kind = "toggle", !.id = f, !.on = on])
  BY <1>2 DEF IsCall
<1>4. \A url, own : IsCall([o EXCEPT !.kind = "add", !.url = url, !.own = own])
  BY <1>2 DEF IsCall
<1>5. ASSUME NEW f, NEW own, NEW s
      PROVE  IsCall([o EXCEPT !.kind = "update", !.id = f, !.own = own, !.setting = s])
  <2>1. PICK u : u = [o EXCEPT !.kind = "update", !.id = f, !.own = own]
    OBVIOUS
  <2>2. IsCall(u)
    BY <1>2, <2>1 DEF IsCall
  <2>3. IsCall([u EXCEPT !.setting = s])
    BY <2>2 DEF IsCall
  <2> QED  BY <2>1, <2>3
<1>6. \A f, own : IsCall([o EXCEPT !.kind = "delete", !.id = f, !.own = own])
  BY <1>2 DEF IsCall
<1> QED  BY <1>1, <1>3, <1>4, <1>5, <1>6
         DEF Sources!subscribeFeed, Sources!unsubscribeFeed, Sources!addFeed,
             Sources!updateFeed, Sources!deleteFeed

LEMMA UserKeeps ==
  ASSUME QuotaInv, Sources!SourcesUser
  PROVE  QuotaInv'
<1>1. FeedsOK /\ CallsOK
  BY DEF QuotaInv
<1>2. UNCHANGED <<feeds, issued>>
  BY DEF Sources!SourcesUser, Sources!OpenPage, Sources!SourceRow, Sources!OpenEdit,
         Sources!AskDelete, Sources!OpenAdd, Sources!AddFeedDialog, Sources!AddFeedForm,
         Sources!EditFeedDialog, Sources!EditFeedForm, Sources!DeleteFeedConfirm, Sources!serverVars
<1>3. CallsKept
  <2>1. CASE \E at \in {"sources", "admin"} : Sources!OpenPage(at)
    <3>1. PICK expired : call' = Sources!Unheard(expired)
      BY <2>1 DEF Sources!OpenPage
    <3> QED  BY <1>1, <3>1, PageChanges
  <2>2. ASSUME NEW row, Sources!SourceRow(row)
        PROVE  CallsKept
    <3>1. PICK r, back, alone :
            /\ r = IF row.subscribed THEN Sources!unsubscribeFeed(row.id) ELSE Sources!subscribeFeed(row.id)
            /\ Sources!Send([r EXCEPT !.back = back, !.alone = alone])
      BY <2>2 DEF Sources!SourceRow
    <3>2. IsCall(r)
      BY <3>1, Requests
    <3>3. PICK new : new = [r EXCEPT !.back = back, !.alone = alone]
      OBVIOUS
    <3>4. IsCall(new)
      BY <3>2, <3>3 DEF IsCall
    <3> QED  BY <1>1, <3>1, <3>3, <3>4, Sent
  <2>3. ASSUME NEW r, IsCall(r), NEW heard, Sources!Send([r EXCEPT !.heard = heard])
        PROVE  CallsKept
    <3>1. IsCall([r EXCEPT !.heard = heard])
      BY <2>3 DEF IsCall
    <3> QED  BY <1>1, <2>3, <3>1, Sent
  <2>4. CASE \E url \in Url : Sources!AddFeedForm(url)
    <3>1. PICK url \in Url : Sources!Send([Sources!addFeed(url) EXCEPT !.heard = "form"])
      BY <2>4 DEF Sources!AddFeedForm
    <3>2. PICK r : r = Sources!addFeed(url)
      OBVIOUS
    <3> QED  BY <2>3, <3>1, <3>2, Requests
  <2>5. CASE \E setting \in Setting : Sources!EditFeedForm(setting)
    <3>1. PICK setting \in Setting :
            Sources!Send([Sources!updateFeed(sourcesPage.editing, setting) EXCEPT !.heard = "form"])
      BY <2>5 DEF Sources!EditFeedForm
    <3>2. PICK r : r = Sources!updateFeed(sourcesPage.editing, setting)
      OBVIOUS
    <3> QED  BY <2>3, <3>1, <3>2, Requests
  <2>6. CASE Sources!DeleteFeedConfirm
    <3>1. CASE Sources!Send([Sources!deleteFeed(sourcesPage.deleting) EXCEPT !.heard = "page"])
      <4>1. PICK r : r = Sources!deleteFeed(sourcesPage.deleting)
        OBVIOUS
      <4> QED  BY <2>3, <3>1, <4>1, Requests
    <3>2. CASE UNCHANGED call
      BY <1>1, <3>2, CallsStay
    <3> QED  BY <2>6, <3>1, <3>2 DEF Sources!DeleteFeedConfirm
  <2>7. ASSUME NEW kind, call' = Sources!FormGone(kind)
        PROVE  CallsKept
    <3>1. PICK gone : gone = [k \in Call |-> call[k].kind = kind /\ call[k].heard = "form"]
      OBVIOUS
    <3>2. call' = [k \in Call |-> IF gone[k] THEN [call[k] EXCEPT !.heard = "page"] ELSE call[k]]
      BY <2>7, <3>1 DEF Sources!FormGone
    <3> QED  BY <1>1, <3>2, CallUnheard
  <2>8. CASE Sources!AddFeedDialog \/ Sources!EditFeedDialog
    BY <2>7, <2>8 DEF Sources!AddFeedDialog, Sources!EditFeedDialog
  <2>9. CASE UNCHANGED call
    BY <1>1, <2>9, CallsStay
  <2> QED  BY <2>1, <2>2, <2>4, <2>5, <2>6, <2>8, <2>9
           DEF Sources!SourcesUser, Sources!OpenEdit, Sources!AskDelete, Sources!OpenAdd
<1> QED  BY <1>1, <1>2, <1>3, FeedsStay, Keeps

LEMMA ClientKeeps ==
  ASSUME QuotaInv, Sources!SourcesClient
  PROVE  QuotaInv'
<1>1. FeedsOK /\ CallsOK
  BY DEF QuotaInv
<1>2. UNCHANGED <<feeds, issued>>
  BY DEF Sources!SourcesClient, Sources!Read, Sources!Arrive, Sources!useToggleSubscription,
         Sources!useAddFeed, Sources!useUpdateFeed, Sources!useDeleteFeed, Sources!serverVars
<1>3. UNCHANGED call \/ \E k \in Call : Sources!Done(k)
  BY DEF Sources!SourcesClient, Sources!Read, Sources!Arrive, Sources!useToggleSubscription,
         Sources!useAddFeed, Sources!useUpdateFeed, Sources!useDeleteFeed, Sources!serverVars
<1>4. CallsKept
  BY <1>1, <1>3, CallsStay, Ended
<1> QED  BY <1>1, <1>2, <1>4, FeedsStay, Keeps

-----------------------------------------------------------------------------
(* The theorems.                                                           *)

LEMMA InitInv ==
  ASSUME WebInit
  PROVE  QuotaInv
<1>1. /\ issued \in {1, 2} /\ call = [k \in Call |-> Sources!NoCall]
      /\ feeds = [f \in 1..issued |->
           [url |-> IF f = 1 THEN Shared ELSE Before, own |-> f # 1, setting |-> NewSetting]]
  BY DEF WebInit, Sources!Init
<1>2. \A url, own : own \in BOOLEAN =>
        LET r == [url |-> url, own |-> own, setting |-> NewSetting] IN IsFeed(r) /\ r.own = own
  BY DEF IsFeed
<1>3. FeedsOK /\ DOMAIN feeds = 1..issued /\ ~feeds[1].own
  <2>1. 1 \in 1..issued /\ issued \in Nat
    BY <1>1
  <2>2. \A f \in DOMAIN feeds : IsFeed(feeds[f]) /\ (feeds[f].own <=> f # 1)
    BY <1>1, <1>2
  <2> QED  BY <1>1, <2>1, <2>2 DEF FeedsOK
<1>4. CallsOK /\ \A k \in Call : call[k].at = "idle"
  BY <1>1, Idle DEF CallsOK
<1>5. Counted = {} /\ \A k \in Call : ~LookedUp(call[k])
  BY <1>4 DEF Counted, LookedUp
<1>6. Sources!OwnFeeds \subseteq {2}
  BY <1>1, <1>3 DEF Sources!OwnFeeds
<1>7. IsFiniteSet({2}) /\ Cardinality({2}) = 1
  BY FS_Singleton
<1>8. Cardinality(Sources!OwnFeeds) <= 1
  BY <1>6, <1>7, FS_Subset
<1>9. Cardinality(Sources!OwnFeeds) + Cardinality(Counted) <= MaxUserFeeds + Cardinality(Call) - 1
  <2>1. Cardinality(Counted) = 0
    BY <1>5, FS_EmptySet
  <2> QED  BY <1>3, <1>8, <2>1, Finite, RadarSourcesAssumption
<1> QED  BY <1>3, <1>4, <1>5, <1>9 DEF QuotaInv

LEMMA StepInv ==
  ASSUME QuotaInv, [WebNext]_webVars
  PROVE  QuotaInv'
<1>1. FeedsOK /\ CallsOK
  BY DEF QuotaInv
<1>2. CASE UNCHANGED <<feeds, issued, call>>
  BY <1>1, <1>2, CallsStay, FeedsStay, Keeps
<1>3. CASE InTopics \/ UNCHANGED webVars
  BY <1>2, <1>3 DEF InTopics, webVars, sourcesVars
<1>4. CASE Sources!SourcesUser \/ Sources!SourcesClient \/ Sources!SourcesServer
  BY <1>4, UserKeeps, ClientKeeps, ServerKeeps
<1> QED  BY <1>3, <1>4 DEF WebNext

\* Whatever the number of requests under way, the account never owns more feeds
\* than its quota and one for every request but one (service.go:212-225: AddUserFeed
\* counts and inserts in two statements, a "Best-effort ceiling").
THEOREM QuotaHolds == WebSpec => []QuotaBestEffort
<1>1. QuotaInv => QuotaBestEffort
  BY InvImpliesQuota
<1> QED  BY <1>1, InitInv, StepInv, PTL DEF WebSpec

\* Whatever the administrators do between the statements of AddUserFeed, a feed
\* of the account's own is inserted only for an address that was not in the
\* catalog at the lookup (service.go:201-225).
THEOREM NotDuplicated == WebSpec => CatalogNotDuplicated
<1> DEFINE Absent ==
      \A k \in Call : call[k].at = "adding" /\ call'[k].at = "subscribing" =>
        \A f \in Sources!Catalog : feeds[f].url = call[k].url => f > call[k].seen
<1>1. QuotaInv => Absent
  BY DEF QuotaInv, LookedUp, StillAbsent
<1>2. QuotaInv => [Absent]_(Sources!vars)
  BY <1>1
<1>3. WebSpec => []QuotaInv
  BY InitInv, StepInv, PTL DEF WebSpec
<1>4. [][Absent]_(Sources!vars) => CatalogNotDuplicated
  BY DEF CatalogNotDuplicated, Sources!CatalogNotDuplicated
<1> HIDE DEF Absent
<1> QED  BY <1>2, <1>3, <1>4, PTL

-----------------------------------------------------------------------------
(* The lists of feeds.                                                    *)

FeedsKey == Sources!FeedsKey
AdminKey == Sources!AdminKey

\* What a list of feeds is made of: rows, pages of which there is at most one, a
\* fetch, an entry of the cache.
IsRow(r) ==
  r \in [id : {r.id}, url : {r.url}, setting : {r.setting}, own : {r.own}, subscribed : BOOLEAN]
RowsIn(pages) == pages[1].items[1]
IsPages(pages) ==
  pages # <<>> => pages = <<Sources!Single(RowsIn(pages))>> /\ \A r \in RowsIn(pages) : IsRow(r)
IsLoad(x) ==
  /\ x \in [more : {FALSE}, got : {x.got}, fail : {x.fail}, late : BOOLEAN, back : {x.back}]
  /\ IsPages(x.got)
  /\ x.back \in [err : {x.back.err}, invalid : BOOLEAN]
IsList(e) ==
  /\ e \in [data : {e.data}, err : {e.err}, invalid : BOOLEAN, missed : BOOLEAN, fetch : {e.fetch}]
  /\ IsPages(e.data)
  /\ Sources!Fetching(e) => IsLoad(e.fetch)

\* What the client trusts, or will trust once the fetch has landed, is what the
\* service offers.
Offer(k) == Sources!Shown(k, Sources!ListFeeds(k))
Fits(k, pages, offer) == pages # <<>> => Sources!Shown(k, RowsIn(pages)) = offer
Settled(k, e, offer) ==
  /\ Sources!Trusted(e) => Fits(k, e.data, offer)
  /\ Sources!Fetching(e) /\ ~e.fetch.late => Fits(k, e.fetch.got, offer)

\* Nothing is trusted, and the fetch has yet to ask or will not be trusted either.
Doubted(e) ==
  /\ ~Sources!Trusted(e)
  /\ Sources!Fetching(e) => e.fetch.late \/ e.fetch.got = <<>>

\* The list as a toggle has patched it, with no fetch under way nor about to start.
Holds(e, f, on) ==
  /\ Sources!HasData(e) /\ ~Sources!Fetching(e) /\ ~e.invalid
  /\ \A row \in RowsIn(e.data) : row.id = f => row.subscribed = on

AllLists(c) ==
  /\ c = [k \in Sources!Keys |-> c[k]]
  /\ \A k \in Sources!Keys : IsList(c[k])

\* Only AddUserFeed has statements between its first and its answer.
AskedOK(r) ==
  /\ r.at \in {"counting", "adding", "subscribing"} => r.kind = "add" /\ r.own
  /\ IsPages(r.back)

\* The request will have the list refreshed, or marked, when it ends.
OwesList(r, k, ids) ==
  \/ r.kind = "toggle" /\ r.at # "idle" /\ k = FeedsKey
  \/ /\ r.kind \in {"add", "update", "delete"} /\ r.at = "answered" /\ r.result = "ok"
     /\ r.own => k = FeedsKey
  \/ r.at = "subscribing" /\ r.id \in ids /\ k = FeedsKey
OwedList(k) == \E n \in Call : OwesList(call[n], k, DOMAIN feeds)

\* A toggle that is the only request.
AloneOK(n) ==
  call[n].alone => /\ call[n].kind = "toggle"
                   /\ \A m \in Call : call[m].at # "idle" => m = n
                   /\ Holds(feedLists[FeedsKey], call[n].id, call[n].on)

(* The strengthening: while no request owes a list anything, it is settled.  *)
FeedsInv ==
  /\ AllLists(feedLists)
  /\ \A n \in Call : AskedOK(call[n])
  /\ \A n \in Call : AloneOK(n)
  /\ \A k \in Sources!Keys : OwedList(k) \/ Settled(k, feedLists[k], Offer(k))

-----------------------------------------------------------------------------
(* Entries of the cache.                                                   *)

LEMMA TwoKeys ==
  /\ Sources!Keys = {FeedsKey, AdminKey} /\ FeedsKey # AdminKey
  /\ Sources!IsPrefix(FeedsKey, FeedsKey) /\ Sources!IsPrefix(AdminKey, AdminKey)
  /\ ~Sources!IsPrefix(FeedsKey, AdminKey) /\ ~Sources!IsPrefix(AdminKey, FeedsKey)
<1> USE DEF FeedsKey, AdminKey, Sources!FeedsKey, Sources!AdminKey
<1>1. Sources!Keys = {FeedsKey, AdminKey}
  BY DEF Sources!Keys
<1>2. FeedsKey # AdminKey
  OBVIOUS
<1>3. Sources!IsPrefix(FeedsKey, FeedsKey) /\ Sources!IsPrefix(AdminKey, AdminKey)
  BY DEF Sources!IsPrefix
<1>4. ~Sources!IsPrefix(FeedsKey, AdminKey) /\ ~Sources!IsPrefix(AdminKey, FeedsKey)
  BY DEF Sources!IsPrefix
<1> QED  BY <1>1, <1>2, <1>3, <1>4

LEMMA OnePage ==
  ASSUME NEW rows, \A r \in rows : IsRow(r)
  PROVE  LET pages == <<Sources!Single(rows)>>
         IN IsPages(pages) /\ pages # <<>> /\ RowsIn(pages) = rows
<1>1. RowsIn(<<Sources!Single(rows)>>) = rows
  BY DEF RowsIn, Sources!Single
<1> QED  BY <1>1 DEF IsPages

LEMMA NoPage == IsPages(<<>>)
BY DEF IsPages

LEMMA DoubtSettles ==
  ASSUME NEW k, NEW e, Doubted(e), NEW offer
  PROVE  Settled(k, e, offer)
BY DEF Doubted, Settled, Fits

LEMMA LoadFields ==
  ASSUME NEW x, IsLoad(x)
  PROVE  /\ LET y == [x EXCEPT !.late = TRUE] IN IsLoad(y) /\ y.late
         /\ \A v : LET y == [x EXCEPT !.fail = v] IN IsLoad(y) /\ y.late = x.late /\ y.got = x.got
         /\ LET y == [x EXCEPT !.back = [err |-> "none", invalid |-> FALSE]] IN IsLoad(y)
         /\ \A v : IsPages(v) =>
              LET y == [x EXCEPT !.got = v] IN IsLoad(y) /\ y.late = x.late /\ y.got = v
<1>1. LET y == [x EXCEPT !.late = TRUE] IN IsLoad(y) /\ y.late
  BY DEF IsLoad
<1>2. \A v : LET y == [x EXCEPT !.fail = v] IN IsLoad(y) /\ y.late = x.late /\ y.got = x.got
  BY DEF IsLoad
<1>3. LET y == [x EXCEPT !.back = [err |-> "none", invalid |-> FALSE]] IN IsLoad(y)
  BY DEF IsLoad
<1>4. \A v : IsPages(v) =>
        LET y == [x EXCEPT !.got = v] IN IsLoad(y) /\ y.late = x.late /\ y.got = v
  BY DEF IsLoad
<1> QED  BY <1>1, <1>2, <1>3, <1>4

LEMMA OtherFetch ==
  ASSUME NEW e, IsList(e), NEW x, x # Sources!NoFetch => IsLoad(x)
  PROVE  LET n == [e EXCEPT !.fetch = x]
         IN /\ IsList(n) /\ n.fetch = x /\ n.data = e.data /\ n.err = e.err
            /\ n.invalid = e.invalid /\ n.missed = e.missed
BY DEF IsList, Sources!Fetching

LEMMA OtherMark ==
  ASSUME NEW e, IsList(e), NEW v \in BOOLEAN
  PROVE  LET n == [e EXCEPT !.invalid = v]
         IN /\ IsList(n) /\ n.fetch = e.fetch /\ n.data = e.data /\ n.err = e.err
            /\ n.invalid = v /\ n.missed = e.missed
BY DEF IsList, Sources!Fetching

LEMMA BeginOK ==
  ASSUME NEW e, IsList(e)
  PROVE  LET n == Sources!Begin(e, FALSE)
         IN /\ IsList(n) /\ n.data = e.data /\ n.fetch.got = <<>> /\ n.invalid = e.invalid
            /\ n.missed = e.missed /\ (Sources!HasData(e) => n.err = e.err)
<1>1. PICK x : x = Sources!NewFetch(e, FALSE)
  OBVIOUS
<1>2. IsLoad(x) /\ x.got = <<>>
  BY <1>1, NoPage DEF Sources!NewFetch, IsLoad, IsList
<1>3. PICK n : n = [e EXCEPT !.fetch = x, !.err = IF Sources!HasData(e) THEN @ ELSE "none"]
  OBVIOUS
<1>4. /\ IsList(n) /\ n.fetch = x /\ n.data = e.data /\ n.invalid = e.invalid
      /\ n.missed = e.missed /\ (Sources!HasData(e) => n.err = e.err)
  BY <1>2, <1>3 DEF IsList, Sources!Fetching
<1>5. Sources!Begin(e, FALSE) = n
  BY <1>1, <1>3 DEF Sources!Begin
<1> QED  BY <1>2, <1>4, <1>5

LEMMA MountOK ==
  ASSUME NEW e, IsList(e), NEW expired \in BOOLEAN
  PROVE  LET n == Sources!Mount(e, expired)
         IN /\ IsList(n)
            /\ \A k, offer : Settled(k, e, offer) => Settled(k, n, offer)
            /\ ~expired => \A f, on : Holds(e, f, on) => n = e
<1>1. CASE ~Sources!Fetching(e) /\ (~Sources!HasData(e) \/ e.invalid \/ expired)
  <2>1. PICK n : n = Sources!Begin(e, FALSE)
    OBVIOUS
  <2>2. Sources!Mount(e, expired) = n
    BY <1>1, <2>1 DEF Sources!Mount
  <2>3. /\ IsList(n) /\ n.data = e.data /\ n.fetch.got = <<>> /\ n.invalid = e.invalid
        /\ n.missed = e.missed /\ (Sources!HasData(e) => n.err = e.err)
    BY <2>1, BeginOK
  <2>4. Sources!Trusted(n) => Sources!Trusted(e)
    BY <2>3 DEF Sources!Trusted, Sources!HasData
  <2>5. \A k, offer : Settled(k, e, offer) => Settled(k, n, offer)
    BY <2>3, <2>4 DEF Settled, Fits
  <2>6. ~expired => \A f, on : ~Holds(e, f, on)
    BY <1>1 DEF Holds
  <2> QED  BY <2>2, <2>3, <2>5, <2>6
<1>2. CASE ~(~Sources!Fetching(e) /\ (~Sources!HasData(e) \/ e.invalid \/ expired))
  BY <1>2 DEF Sources!Mount
<1> QED  BY <1>1, <1>2

LEMMA InvalidateOK ==
  ASSUME NEW e, IsList(e), NEW active \in BOOLEAN
  PROVE  LET n == Sources!Invalidate(e, active) IN IsList(n) /\ Doubted(n)
<1>1. CASE Sources!Fetching(e) /\ ~(active /\ Sources!HasData(e))
  <2>1. PICK n : n = [e EXCEPT !.invalid = TRUE]
    OBVIOUS
  <2>2. IsList(n) /\ n.fetch = e.fetch /\ n.invalid
    BY <2>1, OtherMark
  <2>3. PICK x : x = [e.fetch EXCEPT !.late = TRUE]
    OBVIOUS
  <2>4. IsLoad(x) /\ x.late
    BY <1>1, <2>3, LoadFields DEF IsList
  <2>5. PICK o : o = [n EXCEPT !.fetch = x]
    OBVIOUS
  <2>6. IsList(o) /\ o.fetch = x /\ o.invalid
    BY <2>2, <2>4, <2>5, OtherFetch
  <2>7. [e EXCEPT !.invalid = TRUE, !.fetch.late = TRUE] = o
    BY <2>1, <2>2, <2>3, <2>5 DEF IsList
  <2>8. Sources!Invalidate(e, active) = [e EXCEPT !.invalid = TRUE, !.fetch.late = TRUE]
    BY <1>1 DEF Sources!Invalidate
  <2> QED  BY <2>4, <2>6, <2>7, <2>8 DEF Doubted, Sources!Trusted
<1>2. CASE ~(Sources!Fetching(e) /\ ~(active /\ Sources!HasData(e))) /\ active
  <2>1. PICK n : n = [e EXCEPT !.invalid = TRUE]
    OBVIOUS
  <2>2. IsList(n) /\ n.invalid
    BY <2>1, OtherMark
  <2>3. Sources!Invalidate(e, active) = Sources!Begin(n, FALSE)
    BY <1>2, <2>1 DEF Sources!Invalidate
  <2> QED  BY <2>2, <2>3, BeginOK DEF Doubted, Sources!Trusted
<1>3. CASE ~Sources!Fetching(e) /\ ~active
  <2>1. Sources!Invalidate(e, active) = [e EXCEPT !.invalid = Sources!HasData(e)]
    BY <1>3 DEF Sources!Invalidate
  <2>2. PICK v \in BOOLEAN : v = Sources!HasData(e)
    BY DEF Sources!HasData
  <2>3. PICK n : n = [e EXCEPT !.invalid = v]
    OBVIOUS
  <2>4. IsList(n) /\ n.fetch = e.fetch /\ n.data = e.data /\ n.invalid = v
    BY <2>3, OtherMark
  <2> QED  BY <1>3, <2>1, <2>2, <2>3, <2>4 DEF Doubted, Sources!Trusted, Sources!HasData, Sources!Fetching
<1> QED  BY <1>1, <1>2, <1>3

LEMMA OverlookedOK ==
  ASSUME NEW e, IsList(e)
  PROVE  LET n == Sources!Overlooked(e)
         IN /\ IsList(n) /\ Doubted(n)
            /\ \A f, on : Holds(e, f, on) => Holds(n, f, on)
<1>1. PICK x : x = IF e.fetch = Sources!NoFetch THEN e.fetch ELSE [e.fetch EXCEPT !.late = TRUE]
  OBVIOUS
<1>2. x # Sources!NoFetch => IsLoad(x) /\ x.late
  BY <1>1, LoadFields DEF IsList, Sources!Fetching
<1>3. e.fetch = Sources!NoFetch => x = Sources!NoFetch
  BY <1>1
<1>4. PICK v \in BOOLEAN : v = Sources!HasData(e)
  BY DEF Sources!HasData
<1>5. PICK n : n = [e EXCEPT !.missed = v, !.fetch = x]
  OBVIOUS
<1>6. IsList(n) /\ n.data = e.data /\ n.fetch = x /\ n.missed = v /\ n.invalid = e.invalid
  BY <1>2, <1>5 DEF IsList, Sources!Fetching
<1>7. Sources!Overlooked(e) = n
  BY <1>1, <1>4, <1>5 DEF Sources!Overlooked, IsList
<1>8. Doubted(n)
  BY <1>2, <1>4, <1>6 DEF Doubted, Sources!Trusted, Sources!HasData, Sources!Fetching
<1>9. \A f, on : Holds(e, f, on) => Holds(n, f, on)
  BY <1>3, <1>6 DEF Holds, Sources!HasData, Sources!Fetching
<1> QED  BY <1>6, <1>7, <1>8, <1>9

LEMMA CancelOK ==
  ASSUME NEW e, IsList(e)
  PROVE  LET n == Sources!Cancel(e) IN IsList(n) /\ ~Sources!Fetching(n) /\ n.data = e.data
<1>1. CASE ~Sources!Fetching(e)
  BY <1>1 DEF Sources!Cancel
<1>2. CASE Sources!Fetching(e)
  <2>1. PICK missed : missed = (e.missed \/ (e.invalid /\ ~e.fetch.back.invalid))
    OBVIOUS
  <2>2. missed \in BOOLEAN /\ e.fetch.back.invalid \in BOOLEAN
    BY <1>2, <2>1 DEF IsList, IsLoad
  <2>3. PICK n : n = [e EXCEPT !.err = e.fetch.back.err, !.invalid = e.fetch.back.invalid,
                       !.missed = missed, !.fetch = Sources!NoFetch]
    OBVIOUS
  <2>4. IsList(n) /\ n.data = e.data /\ n.fetch = Sources!NoFetch
    BY <2>2, <2>3 DEF IsList, Sources!Fetching
  <2>5. Sources!Cancel(e) = n
    BY <1>2, <2>1, <2>3 DEF Sources!Cancel, IsList
  <2> QED  BY <2>4, <2>5 DEF Sources!Fetching
<1> QED  BY <1>1, <1>2

LEMMA SetDataOK ==
  ASSUME NEW e, IsList(e), NEW pages, IsPages(pages)
  PROVE  LET n == Sources!SetData(e, pages)
         IN /\ IsList(n) /\ n.data = pages /\ ~n.invalid
            /\ ~Sources!Fetching(e) => ~Sources!Fetching(n)
<1>1. PICK x : x = IF e.fetch = Sources!NoFetch THEN e.fetch
                   ELSE [e.fetch EXCEPT !.back = [err |-> "none", invalid |-> FALSE]]
  OBVIOUS
<1>2. (x # Sources!NoFetch => IsLoad(x)) /\ (e.fetch = Sources!NoFetch => x = Sources!NoFetch)
  BY <1>1, LoadFields DEF IsList, Sources!Fetching
<1>3. PICK n : n = [e EXCEPT !.data = pages, !.err = "none", !.invalid = FALSE, !.fetch = x]
  OBVIOUS
<1>4. IsList(n) /\ n.data = pages /\ n.invalid = FALSE /\ n.fetch = x
  BY <1>2, <1>3 DEF IsList, Sources!Fetching
<1>5. Sources!SetData(e, pages) = n
  BY <1>1, <1>3 DEF Sources!SetData, IsList
<1> QED  BY <1>2, <1>4, <1>5 DEF Sources!Fetching

LEMMA AnswerOK ==
  ASSUME NEW e, IsList(e), Sources!Fetching(e), ~Sources!Answered(e),
         NEW rows, \A r \in rows : IsRow(r), NEW k
  PROVE  LET n == Sources!Answer(e, Sources!Single(rows))
             offer == Sources!Shown(k, rows)
         IN IsList(n) /\ (Settled(k, e, offer) => Settled(k, n, offer))
<1>1. IsLoad(e.fetch)
  BY DEF IsList
<1>2. e.fetch.got = <<>>
  <2>1. SUFFICES ASSUME e.fetch.got # <<>> PROVE FALSE
    OBVIOUS
  <2>2. Len(e.fetch.got) = 1 /\ (Len(e.data) = 1 \/ Len(e.data) = 0)
    BY <1>1, <2>1 DEF IsLoad, IsList, IsPages
  <2>3. Len(e.fetch.got) >= Len(e.data)
    <3>1. \A m, n : m = 1 /\ (n = 1 \/ n = 0) => m >= n
      OBVIOUS
    <3> QED  BY <2>2, <3>1, Zenon
  <2> QED  BY <2>1, <2>3, Zenon DEF Sources!Answered
<1>3. PICK pages : pages = <<Sources!Single(rows)>>
  OBVIOUS
<1>4. Append(e.fetch.got, Sources!Single(rows)) = pages
  BY <1>2, <1>3
<1>5. IsPages(pages) /\ RowsIn(pages) = rows
  BY <1>3, OnePage
<1>6. PICK x : x = [e.fetch EXCEPT !.got = pages]
  OBVIOUS
<1>7. IsLoad(x) /\ x.got = pages
  BY <1>1, <1>5, <1>6, LoadFields
<1>8. PICK n : n = [e EXCEPT !.fetch = x]
  OBVIOUS
<1>9. /\ IsList(n) /\ n.fetch = x /\ n.data = e.data /\ n.err = e.err
      /\ n.invalid = e.invalid /\ n.missed = e.missed
  BY <1>7, <1>8, OtherFetch
<1>10. Sources!Answer(e, Sources!Single(rows)) = n
  BY <1>4, <1>6, <1>8 DEF Sources!Answer, IsList
<1>11. Sources!Trusted(n) <=> Sources!Trusted(e)
  BY <1>9 DEF Sources!Trusted, Sources!HasData
<1> QED  BY <1>5, <1>7, <1>9, <1>10, <1>11 DEF Settled, Fits

LEMMA RefuseOK ==
  ASSUME NEW e, IsList(e), Sources!Fetching(e), NEW err, NEW k, NEW offer
  PROVE  LET n == Sources!Refuse(e, err)
         IN IsList(n) /\ (Settled(k, e, offer) => Settled(k, n, offer))
<1>1. IsLoad(e.fetch)
  BY DEF IsList
<1>2. PICK x : x = [e.fetch EXCEPT !.fail = err]
  OBVIOUS
<1>3. IsLoad(x) /\ x.late = e.fetch.late /\ x.got = e.fetch.got
  BY <1>1, <1>2, LoadFields
<1>4. PICK n : n = [e EXCEPT !.fetch = x]
  OBVIOUS
<1>5. /\ IsList(n) /\ n.fetch = x /\ n.data = e.data /\ n.err = e.err
      /\ n.invalid = e.invalid /\ n.missed = e.missed
  BY <1>3, <1>4, OtherFetch
<1>6. Sources!Refuse(e, err) = n
  BY <1>2, <1>4 DEF Sources!Refuse, IsList
<1>7. Sources!Trusted(n) <=> Sources!Trusted(e)
  BY <1>5 DEF Sources!Trusted, Sources!HasData
<1> QED  BY <1>3, <1>5, <1>6, <1>7 DEF Settled, Fits

LEMMA LandOK ==
  ASSUME NEW e, IsList(e), Sources!Fetching(e), NEW k, NEW offer
  PROVE  LET n == Sources!Land(e)
         IN IsList(n) /\ (Settled(k, e, offer) => Settled(k, n, offer))
<1>1. IsLoad(e.fetch)
  BY DEF IsList
<1>2. CASE e.fetch.fail # "none"
  <2>1. PICK n : n = [e EXCEPT !.err = e.fetch.fail, !.invalid = TRUE, !.fetch = Sources!NoFetch]
    OBVIOUS
  <2>2. IsList(n) /\ n.invalid /\ n.fetch = Sources!NoFetch
    BY <2>1 DEF IsList, Sources!Fetching
  <2> QED  BY <1>2, <2>1, <2>2, DoubtSettles DEF Sources!Land, Doubted, Sources!Trusted, Sources!Fetching
<1>3. CASE e.fetch.fail = "none"
  <2>1. e.fetch.more = FALSE /\ e.fetch.late \in BOOLEAN /\ IsPages(e.fetch.got)
    BY <1>1 DEF IsLoad
  <2>2. PICK n : n = [data |-> e.fetch.got, err |-> "none", invalid |-> FALSE,
                      missed |-> e.fetch.late, fetch |-> Sources!NoFetch]
    OBVIOUS
  <2>3. Sources!Land(e) = n
    BY <1>3, <2>1, <2>2 DEF Sources!Land
  <2>4. /\ IsList(n) /\ n.data = e.fetch.got /\ n.missed = e.fetch.late
        /\ n.fetch = Sources!NoFetch
    BY <2>1, <2>2 DEF IsList, Sources!Fetching
  <2> QED  BY <2>3, <2>4 DEF Settled, Sources!Trusted, Sources!Fetching
<1> QED  BY <1>2, <1>3

-----------------------------------------------------------------------------
(* The cache.                                                              *)

LEMMA ListsMounted ==
  ASSUME NEW c, AllLists(c), NEW shown, NEW expired
  PROVE  LET d == Sources!MountQueries(c, shown, expired)
         IN /\ AllLists(d)
            /\ \A k \in Sources!Keys :
                 /\ \A offer : Settled(k, c[k], offer) => Settled(k, d[k], offer)
                 /\ k \notin expired => \A f, on : Holds(c[k], f, on) => Holds(d[k], f, on)
<1>1. PICK d : d = Sources!MountQueries(c, shown, expired)
  OBVIOUS
<1>2. d = [k \in Sources!Keys |-> IF k \in shown THEN Sources!Mount(c[k], k \in expired) ELSE c[k]]
  BY <1>1 DEF Sources!MountQueries, AllLists
<1>3. ASSUME NEW k \in Sources!Keys
      PROVE  /\ IsList(d[k])
             /\ \A offer : Settled(k, c[k], offer) => Settled(k, d[k], offer)
             /\ k \notin expired => \A f, on : Holds(c[k], f, on) => Holds(d[k], f, on)
  <2>1. PICK e : e = c[k]
    OBVIOUS
  <2>2. IsList(e)
    BY <2>1 DEF AllLists
  <2>3. ASSUME NEW old \in BOOLEAN, old <=> k \in expired,
               d[k] = e \/ d[k] = Sources!Mount(e, old)
        PROVE  /\ IsList(d[k])
               /\ \A offer : Settled(k, c[k], offer) => Settled(k, d[k], offer)
               /\ k \notin expired => \A f, on : Holds(c[k], f, on) => Holds(d[k], f, on)
    BY <2>1, <2>2, <2>3, MountOK
  <2>4. (k \in expired) \in BOOLEAN
    OBVIOUS
  <2>5. d[k] = e \/ d[k] = Sources!Mount(e, k \in expired)
    BY <1>2, <2>1
  <2> QED  BY <2>3, <2>4, <2>5
<1>4. AllLists(d)
  BY <1>2, <1>3 DEF AllLists
<1> QED  BY <1>1, <1>3, <1>4

LEMMA ListInvalidated ==
  ASSUME NEW c, AllLists(c), NEW key \in Sources!Keys, NEW shown
  PROVE  LET d == Sources!InvalidateQueries(c, key, shown)
         IN /\ AllLists(d) /\ Doubted(d[key])
            /\ \A k \in Sources!Keys \ {key} : d[k] = c[k]
<1>1. PICK d : d = Sources!InvalidateQueries(c, key, shown)
  OBVIOUS
<1>2. d = [k \in Sources!Keys |->
            IF Sources!IsPrefix(key, k) THEN Sources!Invalidate(c[k], k \in shown) ELSE c[k]]
  BY <1>1 DEF Sources!InvalidateQueries, AllLists
<1>3. \A k \in Sources!Keys : Sources!IsPrefix(key, k) <=> k = key
  BY TwoKeys
<1>4. \A k \in Sources!Keys \ {key} : d[k] = c[k]
  BY <1>2, <1>3
<1>5. IsList(d[key]) /\ Doubted(d[key])
  <2>1. PICK active \in BOOLEAN : active = (key \in shown)
    <3>1. (key \in shown) \in BOOLEAN
      OBVIOUS
    <3> QED  BY <3>1, Zenon
  <2>2. d[key] = Sources!Invalidate(c[key], active)
    BY <1>2, <1>3, <2>1
  <2>3. IsList(c[key])
    BY DEF AllLists
  <2> QED  BY <2>2, <2>3, InvalidateOK
<1>6. AllLists(d)
  BY <1>2, <1>4, <1>5 DEF AllLists
<1> QED  BY <1>1, <1>4, <1>5, <1>6

LEMMA ListsOverlooked ==
  ASSUME NEW c, AllLists(c)
  PROVE  LET d == Sources!OverlookQueries(c)
         IN /\ AllLists(d)
            /\ \A k \in Sources!Keys : Doubted(d[k]) /\ \A f, on : Holds(c[k], f, on) => Holds(d[k], f, on)
<1>1. PICK d : d = Sources!OverlookQueries(c)
  OBVIOUS
<1>2. d = [k \in Sources!Keys |-> Sources!Overlooked(c[k])]
  BY <1>1 DEF Sources!OverlookQueries, AllLists
<1>3. ASSUME NEW k \in Sources!Keys
      PROVE  IsList(d[k]) /\ Doubted(d[k]) /\ \A f, on : Holds(c[k], f, on) => Holds(d[k], f, on)
  <2>1. IsList(c[k]) /\ d[k] = Sources!Overlooked(c[k])
    BY <1>2 DEF AllLists
  <2> QED  BY <2>1, OverlookedOK
<1>4. AllLists(d)
  BY <1>2, <1>3 DEF AllLists
<1> QED  BY <1>1, <1>3, <1>4

LEMMA ListSet ==
  ASSUME NEW c, AllLists(c), NEW pages, IsPages(pages)
  PROVE  LET d == Sources!SetQueryData(c, FeedsKey, pages)
         IN AllLists(d) /\ d[AdminKey] = c[AdminKey]
<1>1. CASE pages = <<>>
  BY <1>1 DEF Sources!SetQueryData
<1>2. CASE pages # <<>>
  <2>1. PICK d : d = Sources!SetQueryData(c, FeedsKey, pages)
    OBVIOUS
  <2>2. d = [k \in Sources!Keys |-> IF k = FeedsKey THEN Sources!SetData(c[k], pages) ELSE c[k]]
    BY <1>2, <2>1 DEF Sources!SetQueryData, AllLists
  <2>3. IsList(Sources!SetData(c[FeedsKey], pages))
    BY TwoKeys, SetDataOK DEF AllLists
  <2>4. AllLists(d) /\ d[AdminKey] = c[AdminKey]
    BY <2>2, <2>3, TwoKeys DEF AllLists
  <2> QED  BY <2>1, <2>4
<1> QED  BY <1>1, <1>2

\* What onMutate of a toggle does.
LEMMA ListPatched ==
  ASSUME NEW c, AllLists(c), NEW rows, \A r \in rows : IsRow(r), NEW f, NEW on,
         \A r \in rows : r.id = f => r.subscribed = on
  PROVE  LET d == Sources!SetQueryData(Sources!CancelQueries(c, FeedsKey), FeedsKey,
                                       <<Sources!Single(rows)>>)
         IN AllLists(d) /\ d[AdminKey] = c[AdminKey] /\ Holds(d[FeedsKey], f, on)
<1>1. PICK pages : pages = <<Sources!Single(rows)>>
  OBVIOUS
<1>2. IsPages(pages) /\ pages # <<>> /\ RowsIn(pages) = rows
  BY <1>1, OnePage
<1>3. PICK b : b = Sources!CancelQueries(c, FeedsKey)
  OBVIOUS
<1>4. b = [k \in Sources!Keys |-> IF k = FeedsKey THEN Sources!Cancel(c[k]) ELSE c[k]]
  BY <1>3, TwoKeys DEF Sources!CancelQueries, AllLists
<1>5. PICK e : e = Sources!Cancel(c[FeedsKey])
  OBVIOUS
<1>6. IsList(e) /\ ~Sources!Fetching(e)
  BY <1>5, TwoKeys, CancelOK DEF AllLists
<1>7. PICK n : n = Sources!SetData(e, pages)
  OBVIOUS
<1>8. IsList(n) /\ n.data = pages /\ ~n.invalid /\ ~Sources!Fetching(n)
  BY <1>2, <1>6, <1>7, SetDataOK
<1>9. PICK d : d = Sources!SetQueryData(b, FeedsKey, pages)
  OBVIOUS
<1>10. d = [k \in Sources!Keys |-> IF k = FeedsKey THEN n ELSE c[k]]
  BY <1>2, <1>4, <1>5, <1>7, <1>9, TwoKeys DEF Sources!SetQueryData
<1>11. AllLists(d) /\ d[AdminKey] = c[AdminKey] /\ d[FeedsKey] = n
  BY <1>8, <1>10, TwoKeys DEF AllLists
<1>12. Holds(n, f, on)
  BY <1>2, <1>8 DEF Holds, Sources!HasData
<1> QED  BY <1>1, <1>3, <1>9, <1>11, <1>12

-----------------------------------------------------------------------------
(* What the service lists.                                                 *)

LEMMA RowsListed ==
  ASSUME NEW k
  PROVE  \A r \in Sources!ListFeeds(k) : IsRow(r)
<1>1. \A f : IsRow(Sources!Row(f))
  BY DEF Sources!Row, IsRow
<1> QED  BY <1>1 DEF Sources!ListFeeds

LEMMA OfferSame ==
  ASSUME UNCHANGED <<feeds, subscribed>>, NEW k
  PROVE  Offer(k)' = Offer(k)
<1>1. Sources!ListFeeds(k)' = Sources!ListFeeds(k)
  BY DEF Sources!ListFeeds, Sources!Row, Sources!Catalog, Sources!OwnFeeds
<1> QED  BY <1>1 DEF Offer, Sources!Shown

LEMMA BareRow ==
  ASSUME NEW a, NEW b, NEW c, NEW d,
         NEW r \in [id : {a}, url : {b}, setting : {c}, own : {d}, subscribed : BOOLEAN]
  PROVE  [r EXCEPT !.subscribed = FALSE] =
           [id |-> a, url |-> b, setting |-> c, own |-> d, subscribed |-> FALSE]
<1>1. PICK x : x = [r EXCEPT !.subscribed = FALSE]
  OBVIOUS
<1>2. x \in [id : {a}, url : {b}, setting : {c}, own : {d}, subscribed : {FALSE}]
  BY <1>1
<1>3. x = [id |-> a, url |-> b, setting |-> c, own |-> d, subscribed |-> FALSE]
  BY <1>2
<1> QED  BY <1>1, <1>3

\* The administrator's list shows no subscriptions.
LEMMA CatalogSame ==
  ASSUME Sources!Catalog' = Sources!Catalog, \A f \in Sources!Catalog : feeds'[f] = feeds[f]
  PROVE  Offer(AdminKey)' = Offer(AdminKey)
<1> DEFINE Bare(row) == [row EXCEPT !.subscribed = FALSE]
<1>1. ASSUME NEW f \in Sources!Catalog
      PROVE  Bare(Sources!Row(f)') = Bare(Sources!Row(f))
  <2>1. /\ Sources!Row(f) \in [id : {f}, url : {feeds[f].url}, setting : {feeds[f].setting},
                                own : {feeds[f].own}, subscribed : BOOLEAN]
        /\ Sources!Row(f)' \in [id : {f}, url : {feeds[f].url}, setting : {feeds[f].setting},
                                 own : {feeds[f].own}, subscribed : BOOLEAN]
    BY <1>1 DEF Sources!Row
  <2> QED  BY <2>1, BareRow
<1>2. /\ Sources!ListFeeds(AdminKey) = {Sources!Row(f) : f \in Sources!Catalog}
      /\ Sources!ListFeeds(AdminKey)' = {Sources!Row(f)' : f \in Sources!Catalog}
  BY DEF Sources!ListFeeds, AdminKey
<1>3. /\ Offer(AdminKey) = {Bare(row) : row \in Sources!ListFeeds(AdminKey)}
      /\ Offer(AdminKey)' = {Bare(row) : row \in Sources!ListFeeds(AdminKey)'}
  BY TwoKeys DEF Offer, Sources!Shown, FeedsKey
<1> HIDE DEF Bare
<1> QED  BY <1>1, <1>2, <1>3

-----------------------------------------------------------------------------
(* The requests, and what a step leaves of the invariant.                   *)

\* The list goes on holding what a toggle has set.
HoldsKept == \A f, on : Holds(feedLists[FeedsKey], f, on) => Holds(feedLists'[FeedsKey], f, on)

\* All but who listens for the answer, and whether a toggle is still alone.
SameAsk(r, o) ==
  /\ o.kind = r.kind /\ o.own = r.own /\ o.id = r.id /\ o.on = r.on /\ o.at = r.at
  /\ o.result = r.result /\ o.back = r.back /\ (o.alone => r.alone)
\* A request a statement further.
StepOf(r, o) ==
  /\ r.at # "idle" /\ (o.id = r.id \/ r.kind = "add")
  /\ o.kind = r.kind /\ o.own = r.own /\ o.on = r.on /\ o.back = r.back /\ o.alone = r.alone
  /\ o.at \in {"counting", "adding", "subscribing"} => r.kind = "add" /\ r.own

LEMMA ListsCarried ==
  ASSUME FeedsInv, AllLists(feedLists'), \A n \in Call : AskedOK(call'[n]), \A n \in Call : AloneOK(n)',
         \A k \in Sources!Keys :
           \/ Doubted(feedLists'[k])
           \/ OwedList(k)'
           \/ /\ OwedList(k) => OwedList(k)'
              /\ Offer(k)' = Offer(k)
              /\ \A offer : Settled(k, feedLists[k], offer) => Settled(k, feedLists'[k], offer)
  PROVE  FeedsInv'
<1>1. ASSUME NEW k \in Sources!Keys
      PROVE  OwedList(k)' \/ Settled(k, feedLists'[k], Offer(k)')
  <2>1. CASE Doubted(feedLists'[k])
    BY <2>1, DoubtSettles
  <2>2. CASE ~Doubted(feedLists'[k]) /\ ~OwedList(k)'
    BY <2>2 DEF FeedsInv
  <2> QED  BY <2>1, <2>2
<1> QED  BY <1>1 DEF FeedsInv

LEMMA Served ==
  ASSUME FeedsInv, CallsOK, NEW k \in Call, NEW o, StepOf(call[k], o), call' = [call EXCEPT ![k] = o],
         HoldsKept
  PROVE  /\ call'[k] = o /\ \A n \in Call \ {k} : call'[n] = call[n]
         /\ \A n \in Call : AskedOK(call'[n])
         /\ \A n \in Call : AloneOK(n)'
<1>1. call'[k] = o /\ \A n \in Call \ {k} : call'[n] = call[n]
  BY DEF CallsOK
<1>2. \A n \in Call : AskedOK(call[n])
  BY DEF FeedsInv
<1>3. AskedOK(o)
  BY <1>2 DEF StepOf, AskedOK
<1>4. \A n \in Call : AskedOK(call'[n])
  BY <1>1, <1>2, <1>3
<1>5. ASSUME NEW n \in Call, call'[n].alone
      PROVE  /\ call'[n].kind = "toggle"
             /\ \A m \in Call : call'[m].at # "idle" => m = n
             /\ Holds(feedLists'[FeedsKey], call'[n].id, call'[n].on)
  <2>1. call[n].alone
    BY <1>1, <1>5 DEF StepOf
  <2>2. /\ call[n].kind = "toggle" /\ \A m \in Call : call[m].at # "idle" => m = n
        /\ Holds(feedLists[FeedsKey], call[n].id, call[n].on)
    BY <2>1 DEF FeedsInv, AloneOK
  <2>3. call'[n].kind = "toggle" /\ call'[n].id = call[n].id /\ call'[n].on = call[n].on
    BY <1>1, <2>2 DEF StepOf
  <2>4. \A m \in Call : call'[m].at # "idle" => m = n
    BY <1>1, <2>2 DEF StepOf
  <2> QED  BY <2>2, <2>3, <2>4 DEF HoldsKept
<1>6. \A n \in Call : AloneOK(n)'
  BY <1>5 DEF AloneOK
<1> QED  BY <1>1, <1>4, <1>6

\* What is owed to a list is still owed, unless it is what the request has done.
LEMMA ServedStep ==
  ASSUME FeedsInv, CallsOK, NEW k \in Call, NEW o, StepOf(call[k], o), call' = [call EXCEPT ![k] = o],
         AllLists(feedLists'), HoldsKept,
         \A key \in Sources!Keys :
           \/ Doubted(feedLists'[key])
           \/ OwesList(o, key, DOMAIN feeds')
           \/ /\ ~OwesList(call[k], key, DOMAIN feeds)
              /\ key = AdminKey \/ DOMAIN feeds \subseteq DOMAIN feeds'
              /\ Offer(key)' = Offer(key)
              /\ feedLists'[key] = feedLists[key]
  PROVE  FeedsInv'
<1>1. /\ call'[k] = o /\ \A n \in Call \ {k} : call'[n] = call[n]
      /\ \A n \in Call : AskedOK(call'[n])
      /\ \A n \in Call : AloneOK(n)'
  BY Served
<1>2. ASSUME NEW key \in Sources!Keys
      PROVE  \/ Doubted(feedLists'[key])
             \/ OwedList(key)'
             \/ /\ OwedList(key) => OwedList(key)'
                /\ Offer(key)' = Offer(key)
                /\ \A offer : Settled(key, feedLists[key], offer) => Settled(key, feedLists'[key], offer)
  <2>1. CASE OwesList(o, key, DOMAIN feeds')
    BY <1>1, <2>1 DEF OwedList
  <2>2. CASE /\ ~OwesList(call[k], key, DOMAIN feeds)
             /\ key = AdminKey \/ DOMAIN feeds \subseteq DOMAIN feeds'
             /\ Offer(key)' = Offer(key)
             /\ feedLists'[key] = feedLists[key]
    <3>1. ASSUME NEW n \in Call, OwesList(call[n], key, DOMAIN feeds)
          PROVE  OwesList(call'[n], key, DOMAIN feeds')
      <4>1. call'[n] = call[n]
        BY <1>1, <2>2, <3>1
      <4>2. OwesList(call[n], key, DOMAIN feeds')
        BY <2>2, <3>1, TwoKeys DEF OwesList
      <4> QED  BY <4>1, <4>2
    <3>2. OwedList(key) => OwedList(key)'
      BY <3>1 DEF OwedList
    <3> QED  BY <2>2, <3>2
  <2> QED  BY <2>1, <2>2
<1> QED  BY <1>1, <1>2, ListsCarried

\* A step that changes no row and no list.
LEMMA QuietStep ==
  ASSUME FeedsInv, CallsOK, NEW k \in Call, NEW o, StepOf(call[k], o), call' = [call EXCEPT ![k] = o],
         UNCHANGED <<feeds, subscribed, feedLists>>,
         \A key \in Sources!Keys : OwesList(call[k], key, DOMAIN feeds) => OwesList(o, key, DOMAIN feeds)
  PROVE  FeedsInv'
<1>1. AllLists(feedLists') /\ HoldsKept
  BY DEF FeedsInv, HoldsKept
<1>2. \A key \in Sources!Keys : Offer(key)' = Offer(key)
  BY OfferSame
<1> QED  BY <1>1, <1>2, ServedStep

LEMMA FeedAnswered ==
  ASSUME CallsOK, NEW k \in Call, NEW result, Sources!Finish(k, result), call[k].at # "idle"
  PROVE  \E o : /\ StepOf(call[k], o) /\ o.at = "answered" /\ o.result = result /\ o.id = call[k].id
                /\ call' = [call EXCEPT ![k] = o]
<1>1. PICK r : r = call[k]
  OBVIOUS
<1>2. IsCall(r)
  BY <1>1 DEF CallsOK
<1>3. PICK o : o = [r EXCEPT !.at = "answered", !.result = result]
  OBVIOUS
<1>4. /\ o.kind = r.kind /\ o.own = r.own /\ o.on = r.on /\ o.back = r.back /\ o.alone = r.alone
      /\ o.id = r.id /\ o.at = "answered" /\ o.result = result
  BY <1>2, <1>3 DEF IsCall
<1>5. call' = [call EXCEPT ![k] = o]
  BY <1>1, <1>3 DEF Sources!Finish, Sources!Becomes
<1>6. StepOf(r, o)
  BY <1>1, <1>4 DEF StepOf
<1> QED  BY <1>1, <1>4, <1>5, <1>6

\* A request that ends without having done anything.
LEMMA NothingDone ==
  ASSUME FeedsInv, CallsOK, NEW k \in Call, NEW result, Sources!Finish(k, result),
         \/ call[k].at \in {"sent", "counting", "adding"}
         \/ call[k].kind = "toggle" /\ call[k].at # "idle"
         \/ call[k].at = "subscribing" /\ call[k].id \notin DOMAIN feeds,
         UNCHANGED <<feeds, subscribed, feedLists>>
  PROVE  FeedsInv'
<1>1. PICK o : /\ StepOf(call[k], o) /\ o.at = "answered" /\ o.result = result /\ o.id = call[k].id
               /\ call' = [call EXCEPT ![k] = o]
  BY FeedAnswered
<1>2. \A key \in Sources!Keys : OwesList(call[k], key, DOMAIN feeds) => OwesList(o, key, DOMAIN feeds)
  BY <1>1 DEF OwesList, StepOf
<1> QED  BY <1>1, <1>2, QuietStep

-----------------------------------------------------------------------------
(* The service.                                                            *)

LEMMA LookupCurrent ==
  ASSUME FeedsInv, CallsOK, NEW k \in Call, Sources!GetGlobalFeedByURL(k), UNCHANGED feedLists
  PROVE  FeedsInv'
<1>1. UNCHANGED <<feeds, subscribed, feedLists>> /\ call[k].kind = "add" /\ call[k].own /\ call[k].at = "sent"
  BY DEF Sources!GetGlobalFeedByURL, Sources!serverVars
<1>2. PICK r : r = call[k]
  OBVIOUS
<1>3. IsCall(r)
  BY <1>2 DEF CallsOK
<1>4. ASSUME NEW o, o.kind = r.kind, o.own = r.own, o.on = r.on, o.back = r.back, o.alone = r.alone,
             call' = [call EXCEPT ![k] = o]
      PROVE  FeedsInv'
  <2>1. StepOf(call[k], o)
    BY <1>1, <1>2, <1>4 DEF StepOf
  <2>2. \A key \in Sources!Keys : ~OwesList(call[k], key, DOMAIN feeds)
    BY <1>1 DEF OwesList
  <2> QED  BY <1>1, <1>4, <2>1, <2>2, QuietStep
<1>5. CASE Sources!Exists(call[k].url, FALSE)
  <2>1. PICK f : call' = [call EXCEPT ![k] = [r EXCEPT !.at = "subscribing", !.id = f]]
    BY <1>2, <1>5 DEF Sources!GetGlobalFeedByURL, Sources!Becomes
  <2>2. PICK o : o = [r EXCEPT !.at = "subscribing", !.id = f]
    OBVIOUS
  <2>3. o.kind = r.kind /\ o.own = r.own /\ o.on = r.on /\ o.back = r.back /\ o.alone = r.alone
    BY <1>3, <2>2 DEF IsCall
  <2> QED  BY <1>4, <2>1, <2>2, <2>3
<1>6. CASE ~Sources!Exists(call[k].url, FALSE)
  <2>1. PICK o : o = [r EXCEPT !.at = "counting", !.seen = issued]
    OBVIOUS
  <2>2. call' = [call EXCEPT ![k] = o]
    BY <1>2, <1>6, <2>1 DEF Sources!GetGlobalFeedByURL, Sources!Becomes
  <2>3. o.kind = r.kind /\ o.own = r.own /\ o.on = r.on /\ o.back = r.back /\ o.alone = r.alone
    BY <1>3, <2>1 DEF IsCall
  <2> QED  BY <1>4, <2>2, <2>3
<1> QED  BY <1>5, <1>6

LEMMA CountCurrent ==
  ASSUME FeedsInv, CallsOK, NEW k \in Call, Sources!CountUserFeeds(k), UNCHANGED feedLists
  PROVE  FeedsInv'
<1>1. UNCHANGED <<feeds, subscribed, feedLists>> /\ call[k].at = "counting"
  BY DEF Sources!CountUserFeeds, Sources!serverVars
<1>2. CASE Sources!Finish(k, "quota")
  BY <1>1, <1>2, NothingDone
<1>3. CASE Sources!Goes(k, "adding")
  <2>1. PICK r : r = call[k]
    OBVIOUS
  <2>2. IsCall(r) /\ r.kind = "add" /\ r.own
    BY <1>1, <2>1 DEF CallsOK, FeedsInv, AskedOK
  <2>3. PICK o : o = [r EXCEPT !.at = "adding"]
    OBVIOUS
  <2>4. call' = [call EXCEPT ![k] = o]
    BY <1>3, <2>1, <2>3 DEF Sources!Goes, Sources!Becomes
  <2>5. o.kind = r.kind /\ o.own = r.own /\ o.on = r.on /\ o.back = r.back /\ o.alone = r.alone
    BY <2>2, <2>3 DEF IsCall
  <2>6. StepOf(call[k], o)
    BY <1>1, <2>1, <2>2, <2>5 DEF StepOf
  <2>7. \A key \in Sources!Keys : ~OwesList(call[k], key, DOMAIN feeds)
    BY <1>1, <2>1, <2>2 DEF OwesList
  <2> QED  BY <1>1, <2>4, <2>6, <2>7, QuietStep
<1> QED  BY <1>2, <1>3 DEF Sources!CountUserFeeds

\* The rows of the catalog are as they were.
LEMMA CatalogKept ==
  ASSUME \A f \in DOMAIN feeds : f \notin DOMAIN feeds' => feeds[f].own,
         \A f \in DOMAIN feeds' : (f \in DOMAIN feeds /\ feeds'[f] = feeds[f]) \/ feeds'[f].own,
         \A f \in DOMAIN feeds \intersect DOMAIN feeds' : feeds'[f].own = feeds[f].own
  PROVE  Offer(AdminKey)' = Offer(AdminKey)
<1>1. Sources!Catalog' = Sources!Catalog /\ \A f \in Sources!Catalog : feeds'[f] = feeds[f]
  BY DEF Sources!Catalog, Sources!OwnFeeds
<1> QED  BY <1>1, CatalogSame

LEMMA AddCurrent ==
  ASSUME FeedsInv, FeedsOK, CallsOK, NEW k \in Call, Sources!AddFeed(k), UNCHANGED feedLists
  PROVE  FeedsInv'
<1>1. call[k].at = "adding" /\ UNCHANGED subscribed
  BY DEF Sources!AddFeed
<1>2. CASE Sources!Exists(call[k].url, TRUE)
  <2>1. Sources!Finish(k, "duplicate") /\ UNCHANGED feeds
    BY <1>2 DEF Sources!AddFeed
  <2> QED  BY <1>1, <2>1, NothingDone
<1>3. CASE ~Sources!Exists(call[k].url, TRUE)
  <2>1. PICK r : r = call[k]
    OBVIOUS
  <2>2. IsCall(r) /\ r.kind = "add" /\ r.own
    BY <1>1, <2>1 DEF CallsOK, FeedsInv, AskedOK
  <2>3. PICK o : o = [r EXCEPT !.at = "subscribing", !.id = issued + 1]
    OBVIOUS
  <2>4. call' = [call EXCEPT ![k] = o] /\ Sources!Insert(call[k].url, TRUE)
    BY <1>3, <2>1, <2>3 DEF Sources!AddFeed, Sources!Becomes
  <2>5. /\ o.kind = r.kind /\ o.own = r.own /\ o.on = r.on /\ o.back = r.back /\ o.alone = r.alone
        /\ o.at = "subscribing" /\ o.id = issued + 1
    BY <2>2, <2>3 DEF IsCall
  <2>6. StepOf(call[k], o)
    BY <1>1, <2>1, <2>2, <2>5 DEF StepOf
  <2>7. /\ DOMAIN feeds' = DOMAIN feeds \union {issued + 1} /\ issued + 1 \notin DOMAIN feeds
        /\ (\A f \in DOMAIN feeds : feeds'[f] = feeds[f]) /\ feeds'[issued + 1].own = TRUE
    BY <2>4, Inserted
  <2>8. Offer(AdminKey)' = Offer(AdminKey)
    BY <2>7, CatalogKept
  <2>9. OwesList(o, FeedsKey, DOMAIN feeds')
    BY <2>5, <2>7 DEF OwesList
  <2>10. ~OwesList(call[k], AdminKey, DOMAIN feeds)
    BY <1>1, <2>1, <2>2 DEF OwesList
  <2>11. AllLists(feedLists') /\ HoldsKept
    BY DEF FeedsInv, HoldsKept
  <2> QED  BY <2>4, <2>6, <2>8, <2>9, <2>10, <2>11, TwoKeys, ServedStep
<1> QED  BY <1>2, <1>3

\* Subscriptions show in the account's own list only.
LEMMA SubscriptionCurrent ==
  ASSUME FeedsInv, CallsOK, NEW k \in Call, Sources!Finish(k, "ok"),
         UNCHANGED <<feeds, feedLists>>,
         \/ call[k].at = "subscribing"
         \/ call[k].kind = "toggle" /\ call[k].at = "sent"
  PROVE  FeedsInv'
<1>1. PICK o : /\ StepOf(call[k], o) /\ o.at = "answered" /\ o.result = "ok" /\ o.id = call[k].id
               /\ call' = [call EXCEPT ![k] = o]
  BY FeedAnswered
<1>2. AskedOK(call[k])
  BY DEF FeedsInv
<1>3. OwesList(o, FeedsKey, DOMAIN feeds')
  BY <1>1, <1>2 DEF OwesList, StepOf, AskedOK
<1>4. ~OwesList(call[k], AdminKey, DOMAIN feeds)
  BY <1>2, TwoKeys DEF OwesList, AskedOK
<1>5. Offer(AdminKey)' = Offer(AdminKey)
  BY CatalogSame DEF Sources!Catalog, Sources!OwnFeeds
<1>6. AllLists(feedLists') /\ HoldsKept
  BY DEF FeedsInv, HoldsKept
<1>7. DOMAIN feeds \subseteq DOMAIN feeds' /\ feedLists'[AdminKey] = feedLists[AdminKey]
  OBVIOUS
<1>8. ASSUME NEW key \in Sources!Keys
      PROVE  \/ OwesList(o, key, DOMAIN feeds')
             \/ /\ ~OwesList(call[k], key, DOMAIN feeds)
                /\ key = AdminKey \/ DOMAIN feeds \subseteq DOMAIN feeds'
                /\ Offer(key)' = Offer(key)
                /\ feedLists'[key] = feedLists[key]
  BY <1>3, <1>4, <1>5, <1>7, TwoKeys
<1>9. StepOf(call[k], o) /\ call' = [call EXCEPT ![k] = o]
  BY <1>1
<1> QED  BY <1>6, <1>8, <1>9, ServedStep

\* A change of the rows that is answered, and of the catalog only if the request is for it.
LEMMA ChangeCurrent ==
  ASSUME FeedsInv, CallsOK, NEW k \in Call, Sources!Finish(k, "ok"), UNCHANGED feedLists,
         call[k].at = "sent", call[k].kind \in {"add", "update", "delete"},
         call[k].own => Offer(AdminKey)' = Offer(AdminKey)
  PROVE  FeedsInv'
<1>1. PICK o : /\ StepOf(call[k], o) /\ o.at = "answered" /\ o.result = "ok" /\ o.id = call[k].id
               /\ call' = [call EXCEPT ![k] = o]
  BY FeedAnswered
<1>2. OwesList(o, FeedsKey, DOMAIN feeds') /\ (~call[k].own => OwesList(o, AdminKey, DOMAIN feeds'))
  BY <1>1 DEF OwesList, StepOf
<1>3. ~OwesList(call[k], AdminKey, DOMAIN feeds)
  BY DEF OwesList
<1>4. AllLists(feedLists') /\ HoldsKept
  BY DEF FeedsInv, HoldsKept
<1> QED  BY <1>1, <1>2, <1>3, <1>4, TwoKeys, ServedStep

LEMMA UpdateCurrent ==
  ASSUME FeedsInv, FeedsOK, CallsOK, NEW k \in Call, Sources!UpdateFeed(k), UNCHANGED feedLists
  PROVE  FeedsInv'
<1>1. call[k].kind = "update" /\ call[k].at = "sent" /\ UNCHANGED subscribed
  BY DEF Sources!UpdateFeed
<1>2. CASE ~Sources!InScope(k)
  BY <1>1, <1>2, NothingDone DEF Sources!UpdateFeed
<1>3. CASE Sources!InScope(k)
  <2>1. PICK f, setting : f = call[k].id /\ setting = call[k].setting
    OBVIOUS
  <2>2. /\ feeds' = [feeds EXCEPT ![f].setting = setting] /\ Sources!Finish(k, "ok")
        /\ f \in DOMAIN feeds /\ feeds[f].own = call[k].own
    BY <1>3, <2>1 DEF Sources!UpdateFeed, Sources!InScope
  <2>3. feeds' = [g \in DOMAIN feeds |-> IF g = f THEN [feeds[g] EXCEPT !.setting = setting] ELSE feeds[g]]
    BY <2>2 DEF FeedsOK
  <2>4. \A r : IsFeed(r) => [r EXCEPT !.setting = setting].own = r.own
    BY DEF IsFeed
  <2>5. feeds'[f].own = feeds[f].own
    BY <2>2, <2>3, <2>4 DEF FeedsOK
  <2>6. DOMAIN feeds' = DOMAIN feeds /\ \A g \in DOMAIN feeds \ {f} : feeds'[g] = feeds[g]
    BY <2>3
  <2>7. call[k].own => Offer(AdminKey)' = Offer(AdminKey)
    BY <2>2, <2>5, <2>6, CatalogKept
  <2> QED  BY <1>1, <2>2, <2>7, ChangeCurrent
<1> QED  BY <1>2, <1>3

LEMMA DeleteCurrent ==
  ASSUME FeedsInv, FeedsOK, CallsOK, NEW k \in Call, Sources!DeleteFeed(k), UNCHANGED feedLists
  PROVE  FeedsInv'
<1>1. call[k].kind = "delete" /\ call[k].at = "sent"
  BY DEF Sources!DeleteFeed
<1>2. CASE ~Sources!InScope(k)
  BY <1>1, <1>2, NothingDone DEF Sources!DeleteFeed
<1>3. CASE Sources!InScope(k)
  <2>1. PICK f : f = call[k].id
    OBVIOUS
  <2>2. /\ Sources!Without(f) /\ Sources!Finish(k, "ok")
        /\ f \in DOMAIN feeds /\ feeds[f].own = call[k].own
    BY <1>3, <2>1 DEF Sources!DeleteFeed, Sources!InScope
  <2>3. DOMAIN feeds' = DOMAIN feeds \ {f} /\ \A g \in DOMAIN feeds' : feeds'[g] = feeds[g]
    BY <2>2 DEF Sources!Without
  <2>4. call[k].own => Offer(AdminKey)' = Offer(AdminKey)
    BY <2>2, <2>3, CatalogKept
  <2> QED  BY <1>1, <2>2, <2>4, ChangeCurrent
<1> QED  BY <1>2, <1>3

LEMMA ServeCurrent ==
  ASSUME FeedsInv, CallsOK, NEW k \in Call, UNCHANGED feedLists,
         \/ Sources!Subscribe(k) \/ Sources!Unsubscribe(k) \/ Sources!AddGlobalFeed(k)
  PROVE  FeedsInv'
<1>1. CASE Sources!Subscribe(k)
  <2>1. /\ call[k].at = "subscribing" \/ (call[k].kind = "toggle" /\ call[k].at = "sent")
        /\ UNCHANGED feeds
    BY <1>1 DEF Sources!Subscribe
  <2>2. CASE call[k].id \in DOMAIN feeds
    BY <1>1, <2>1, <2>2, SubscriptionCurrent DEF Sources!Subscribe
  <2>3. CASE call[k].id \notin DOMAIN feeds
    BY <1>1, <2>1, <2>3, NothingDone DEF Sources!Subscribe
  <2> QED  BY <2>2, <2>3
<1>2. CASE Sources!Unsubscribe(k)
  BY <1>2, SubscriptionCurrent DEF Sources!Unsubscribe
<1>3. CASE Sources!AddGlobalFeed(k)
  <2>1. call[k].kind = "add" /\ ~call[k].own /\ call[k].at = "sent" /\ UNCHANGED subscribed
    BY <1>3 DEF Sources!AddGlobalFeed
  <2>2. CASE Sources!Exists(call[k].url, FALSE)
    BY <1>3, <2>1, <2>2, NothingDone DEF Sources!AddGlobalFeed
  <2>3. CASE ~Sources!Exists(call[k].url, FALSE)
    BY <1>3, <2>1, <2>3, ChangeCurrent DEF Sources!AddGlobalFeed
  <2> QED  BY <2>2, <2>3
<1> QED  BY <1>1, <1>2, <1>3

\* What fails or is lost, and what others do: the lists are behind, and none is trusted.
LEMMA FaultCurrent ==
  ASSUME FeedsInv, CallsOK, NEW k \in Call, Sources!Unserved(k) \/ Sources!Lost(k)
  PROVE  FeedsInv'
<1>1. /\ Sources!Finish(k, "failed") /\ UNCHANGED <<feeds, subscribed>>
      /\ call[k].at \in {"sent", "counting", "adding", "subscribing", "answered"}
  BY DEF Sources!Unserved, Sources!Lost, Sources!serverVars
<1>2. CASE feedLists' = Sources!OverlookQueries(feedLists)
  <2>1. PICK o : /\ StepOf(call[k], o) /\ o.at = "answered" /\ o.result = "failed" /\ o.id = call[k].id
                 /\ call' = [call EXCEPT ![k] = o]
    BY <1>1, FeedAnswered
  <2>2. AllLists(feedLists)
    BY DEF FeedsInv
  <2>3. /\ AllLists(feedLists') /\ HoldsKept
        /\ \A key \in Sources!Keys : Doubted(feedLists'[key])
    BY <1>2, <2>2, ListsOverlooked, TwoKeys DEF HoldsKept
  <2> QED  BY <2>1, <2>3, ServedStep
<1>3. CASE feedLists' # Sources!OverlookQueries(feedLists)
  <2>1. /\ UNCHANGED feedLists
        /\ call[k].at \in {"sent", "counting", "adding"} \/ call[k].kind = "toggle"
    BY <1>3 DEF Sources!Unserved, Sources!Lost
  <2> QED  BY <1>1, <2>1, NothingDone
<1> QED  BY <1>2, <1>3

LEMMA OthersCurrent ==
  ASSUME FeedsInv, CallsOK, Sources!OtherAdministrator
  PROVE  FeedsInv'
<1>1. feedLists' = Sources!OverlookQueries(feedLists) /\ UNCHANGED call
  BY DEF Sources!OtherAdministrator
<1>2. AllLists(feedLists)
  BY DEF FeedsInv
<1>3. /\ AllLists(feedLists') /\ HoldsKept
      /\ \A key \in Sources!Keys : Doubted(feedLists'[key])
  BY <1>1, <1>2, ListsOverlooked, TwoKeys DEF HoldsKept
<1>4. (\A n \in Call : AskedOK(call'[n])) /\ \A n \in Call : AloneOK(n)'
  BY <1>1, <1>3 DEF FeedsInv, AloneOK, HoldsKept
<1> QED  BY <1>3, <1>4, ListsCarried

LEMMA ServerCurrent ==
  ASSUME FeedsInv, FeedsOK, CallsOK, Sources!SourcesServer
  PROVE  FeedsInv'
<1>1. CASE Sources!Serve
  BY <1>1, LookupCurrent, CountCurrent, AddCurrent, UpdateCurrent, DeleteCurrent, ServeCurrent
  DEF Sources!Serve
<1> QED  BY <1>1, FaultCurrent, OthersCurrent DEF Sources!SourcesServer

-----------------------------------------------------------------------------
(* The tab.                                                                *)

\* Requests lose at most who listens for their answer, and that they are alone.
LEMMA HeardStep ==
  ASSUME FeedsInv, \A n \in Call : SameAsk(call[n], call'[n]), UNCHANGED <<feeds, subscribed>>,
         AllLists(feedLists'), HoldsKept \/ \A n \in Call : ~call'[n].alone,
         \A k \in Sources!Keys :
           \A offer : Settled(k, feedLists[k], offer) => Settled(k, feedLists'[k], offer)
  PROVE  FeedsInv'
<1>1. \A n \in Call : AskedOK(call'[n])
  BY DEF FeedsInv, AskedOK, SameAsk
<1>2. ASSUME NEW n \in Call, call'[n].alone
      PROVE  /\ call'[n].kind = "toggle"
             /\ \A m \in Call : call'[m].at # "idle" => m = n
             /\ Holds(feedLists'[FeedsKey], call'[n].id, call'[n].on)
  <2>1. /\ call[n].kind = "toggle" /\ \A m \in Call : call[m].at # "idle" => m = n
        /\ Holds(feedLists[FeedsKey], call[n].id, call[n].on)
    BY <1>2 DEF FeedsInv, AloneOK, SameAsk
  <2>2. HoldsKept
    BY <1>2
  <2> QED  BY <2>1, <2>2 DEF SameAsk, HoldsKept
<1>a. \A n \in Call : AloneOK(n)'
  BY <1>2 DEF AloneOK
<1>3. ASSUME NEW k \in Sources!Keys, OwedList(k)
      PROVE  OwedList(k)'
  <2>1. PICK n \in Call : OwesList(call[n], k, DOMAIN feeds)
    BY <1>3 DEF OwedList
  <2>2. OwesList(call'[n], k, DOMAIN feeds)
    BY <2>1 DEF OwesList, SameAsk
  <2> QED  BY <2>2 DEF OwedList
<1>4. \A k \in Sources!Keys : Offer(k)' = Offer(k)
  BY OfferSame
<1> QED  BY <1>1, <1>a, <1>3, <1>4, ListsCarried

LEMMA CrowdedAt ==
  ASSUME CallsOK, NEW n \in Call
  PROVE  Sources!Crowded[n].alone = FALSE /\ Sources!Crowded[n].at = call[n].at
<1>1. PICK r : r = call[n]
  OBVIOUS
<1>2. IsCall(r)
  BY <1>1 DEF CallsOK
<1>3. PICK o : o = [r EXCEPT !.alone = FALSE]
  OBVIOUS
<1>4. o.alone = FALSE /\ o.at = r.at
  BY <1>2, <1>3 DEF IsCall
<1>5. Sources!Crowded[n] = o
  BY <1>1, <1>3 DEF Sources!Crowded
<1> QED  BY <1>1, <1>4, <1>5

LEMMA CrowdedOwes ==
  ASSUME CallsOK, NEW n \in Call, NEW k, NEW ids, OwesList(call[n], k, ids)
  PROVE  OwesList(Sources!Crowded[n], k, ids)
<1>1. PICK r : r = call[n]
  OBVIOUS
<1>2. IsCall(r)
  BY <1>1 DEF CallsOK
<1>3. PICK o : o = [r EXCEPT !.alone = FALSE]
  OBVIOUS
<1>4. o.kind = r.kind /\ o.own = r.own /\ o.id = r.id /\ o.at = r.at /\ o.result = r.result
  BY <1>2, <1>3 DEF IsCall
<1>5. OwesList(o, k, ids)
  BY <1>1, <1>4 DEF OwesList
<1>6. Sources!Crowded[n] = o
  BY <1>1, <1>3 DEF Sources!Crowded
<1> QED  BY <1>5, <1>6

LEMMA CrowdedAsked ==
  ASSUME CallsOK, NEW n \in Call, AskedOK(call[n])
  PROVE  AskedOK(Sources!Crowded[n])
<1>1. PICK r : r = call[n]
  OBVIOUS
<1>2. IsCall(r)
  BY <1>1 DEF CallsOK
<1>3. PICK o : o = [r EXCEPT !.alone = FALSE]
  OBVIOUS
<1>4. o.kind = r.kind /\ o.own = r.own /\ o.at = r.at /\ o.back = r.back
  BY <1>2, <1>3 DEF IsCall
<1>5. AskedOK(o)
  BY <1>1, <1>4 DEF AskedOK
<1>6. Sources!Crowded[n] = o
  BY <1>1, <1>3 DEF Sources!Crowded
<1> QED  BY <1>5, <1>6

\* A request starts, or ends and makes room.
LEMMA CrowdedStep ==
  ASSUME FeedsInv, CallsOK, NEW k \in Call, NEW o, AskedOK(o), call' = [Sources!Crowded EXCEPT ![k] = o],
         o.alone => /\ o.kind = "toggle" /\ \A n \in Call : call[n].at = "idle"
                    /\ Holds(feedLists'[FeedsKey], o.id, o.on),
         UNCHANGED <<feeds, subscribed>>, AllLists(feedLists'),
         \A key \in Sources!Keys :
           \/ Doubted(feedLists'[key])
           \/ OwesList(o, key, DOMAIN feeds)
           \/ ~OwesList(call[k], key, DOMAIN feeds) /\ feedLists'[key] = feedLists[key]
  PROVE  FeedsInv'
<1>1. call'[k] = o /\ \A n \in Call \ {k} : call'[n] = Sources!Crowded[n]
  BY CrowdedIs
<1>2. \A n \in Call : AskedOK(call'[n])
  BY <1>1, CrowdedAsked DEF FeedsInv
<1>3. ASSUME NEW n \in Call, call'[n].alone
      PROVE  /\ call'[n].kind = "toggle"
             /\ \A m \in Call : call'[m].at # "idle" => m = n
             /\ Holds(feedLists'[FeedsKey], call'[n].id, call'[n].on)
  <2>1. n = k
    BY <1>1, <1>3, CrowdedAt
  <2>2. \A m \in Call \ {k} : call'[m].at = call[m].at
    BY <1>1, CrowdedAt
  <2> QED  BY <1>1, <1>3, <2>1, <2>2
<1>4. \A n \in Call : AloneOK(n)'
  BY <1>3 DEF AloneOK
<1>5. ASSUME NEW key \in Sources!Keys
      PROVE  \/ Doubted(feedLists'[key])
             \/ OwedList(key)'
             \/ /\ OwedList(key) => OwedList(key)'
                /\ Offer(key)' = Offer(key)
                /\ \A offer : Settled(key, feedLists[key], offer) => Settled(key, feedLists'[key], offer)
  <2>1. CASE OwesList(o, key, DOMAIN feeds)
    BY <1>1, <2>1 DEF OwedList
  <2>2. CASE ~OwesList(call[k], key, DOMAIN feeds) /\ feedLists'[key] = feedLists[key]
    <3>1. OwedList(key) => OwedList(key)'
      <4>1. ASSUME NEW n \in Call, OwesList(call[n], key, DOMAIN feeds)
            PROVE  OwesList(call'[n], key, DOMAIN feeds')
        BY <1>1, <2>2, <4>1, CrowdedOwes
      <4> QED  BY <4>1 DEF OwedList
    <3>2. Offer(key)' = Offer(key)
      BY OfferSame
    <3> QED  BY <2>2, <3>1, <3>2
  <2> QED  BY <2>1, <2>2
<1> QED  BY <1>2, <1>4, <1>5, ListsCarried

\* A request for the service that leaves the lists alone.
LEMMA SentStep ==
  ASSUME FeedsInv, CallsOK, NEW new, IsCall(new), ~new.alone, new.back = <<>>, Sources!Send(new),
         UNCHANGED <<feeds, subscribed, feedLists>>
  PROVE  FeedsInv'
<1>1. PICK k \in Sources!FreeCall : call' = [Sources!Crowded EXCEPT ![k] = [new EXCEPT !.at = "sent"]]
  BY DEF Sources!Send
<1>2. k \in Call /\ call[k].at = "idle"
  BY DEF Sources!FreeCall, Sources!Pending
<1>3. PICK o : o = [new EXCEPT !.at = "sent"]
  OBVIOUS
<1>4. ~o.alone /\ o.at = "sent" /\ o.back = <<>>
  BY <1>3 DEF IsCall
<1>5. AskedOK(o)
  BY <1>4, NoPage DEF AskedOK
<1>6. \A key \in Sources!Keys : ~OwesList(call[k], key, DOMAIN feeds)
  BY <1>2 DEF OwesList
<1>7. AllLists(feedLists')
  BY DEF FeedsInv
<1> QED  BY <1>1, <1>2, <1>3, <1>4, <1>5, <1>6, <1>7, CrowdedStep

LEMMA PlainRequests ==
  /\ \A url : LET r == Sources!addFeed(url) IN IsCall(r) /\ ~r.alone /\ r.back = <<>>
  /\ \A f, s : LET r == Sources!updateFeed(f, s) IN IsCall(r) /\ ~r.alone /\ r.back = <<>>
  /\ \A f : LET r == Sources!deleteFeed(f) IN IsCall(r) /\ ~r.alone /\ r.back = <<>>
<1>1. PICK o : o = Sources!NoCall
  OBVIOUS
<1>2. IsCall(o) /\ ~o.alone /\ o.back = <<>>
  BY <1>1, Idle DEF Sources!NoCall
<1>3. \A url, own : LET r == [o EXCEPT !.kind = "add", !.url = url, !.own = own] IN ~r.alone /\ r.back = <<>>
  BY <1>2 DEF IsCall
<1>4. \A f, own, s : LET r == [o EXCEPT !.kind = "update", !.id = f, !.own = own, !.setting = s]
                     IN ~r.alone /\ r.back = <<>>
  BY <1>2 DEF IsCall
<1>5. \A f, own : LET r == [o EXCEPT !.kind = "delete", !.id = f, !.own = own] IN ~r.alone /\ r.back = <<>>
  BY <1>2 DEF IsCall
<1>6. /\ \A url : Sources!addFeed(url) = [o EXCEPT !.kind = "add", !.url = url, !.own = Sources!Personal]
      /\ \A f, s : Sources!updateFeed(f, s) =
           [o EXCEPT !.kind = "update", !.id = f, !.own = Sources!Personal, !.setting = s]
      /\ \A f : Sources!deleteFeed(f) = [o EXCEPT !.kind = "delete", !.id = f, !.own = Sources!Personal]
  BY <1>1 DEF Sources!addFeed, Sources!updateFeed, Sources!deleteFeed
<1>7. ASSUME NEW url
      PROVE  LET r == Sources!addFeed(url) IN IsCall(r) /\ ~r.alone /\ r.back = <<>>
  BY <1>3, <1>6, Requests
<1>8. ASSUME NEW f, NEW s
      PROVE  LET r == Sources!updateFeed(f, s) IN IsCall(r) /\ ~r.alone /\ r.back = <<>>
  BY <1>4, <1>6, Requests
<1>9. ASSUME NEW f
      PROVE  LET r == Sources!deleteFeed(f) IN IsCall(r) /\ ~r.alone /\ r.back = <<>>
  BY <1>5, <1>6, Requests
<1> QED  BY <1>7, <1>8, <1>9

LEMMA ToggleRequest ==
  ASSUME NEW f, NEW was \in BOOLEAN, NEW back, NEW alone
  PROVE  LET new == [(IF was THEN Sources!unsubscribeFeed(f) ELSE Sources!subscribeFeed(f))
                       EXCEPT !.back = back, !.alone = alone]
             o == [new EXCEPT !.at = "sent"]
         IN /\ o.kind = "toggle" /\ o.id = f /\ o.on = ~was /\ o.at = "sent" /\ o.back = back
            /\ o.alone = alone
<1>1. PICK c : c = Sources!NoCall
  OBVIOUS
<1>2. IsCall(c)
  BY <1>1, Idle
<1>3. PICK on \in BOOLEAN : on = ~was
  OBVIOUS
<1>4. PICK r : r = [c EXCEPT !.kind = "toggle", !.id = f, !.on = on]
  OBVIOUS
<1>5. r.kind = "toggle" /\ r.id = f /\ r.on = on /\ IsCall(r)
  BY <1>2, <1>4 DEF IsCall
<1>6. (IF was THEN Sources!unsubscribeFeed(f) ELSE Sources!subscribeFeed(f)) = r
  BY <1>1, <1>3, <1>4 DEF Sources!unsubscribeFeed, Sources!subscribeFeed
<1>7. PICK new : new = [r EXCEPT !.back = back, !.alone = alone]
  OBVIOUS
<1>8. new.kind = "toggle" /\ new.id = f /\ new.on = on /\ new.back = back /\ new.alone = alone /\ IsCall(new)
  BY <1>5, <1>7 DEF IsCall
<1>9. PICK o : o = [new EXCEPT !.at = "sent"]
  OBVIOUS
<1>10. /\ o.kind = "toggle" /\ o.id = f /\ o.on = on /\ o.at = "sent" /\ o.back = back
       /\ o.alone = alone
  BY <1>8, <1>9 DEF IsCall
<1> QED  BY <1>3, <1>6, <1>7, <1>9, <1>10

\* The checkbox: the list shows what was set, and the request owes it a refresh.
LEMMA ToggleCurrent ==
  ASSUME FeedsInv, CallsOK, NEW row \in Sources!SourcesRoute, Sources!SourceRow(row)
  PROVE  FeedsInv'
<1>1. PICK rows : rows = Sources!RowsOf(FeedsKey)
  OBVIOUS
<1>2. AllLists(feedLists) /\ IsList(feedLists[FeedsKey])
  BY TwoKeys DEF FeedsInv, AllLists
<1>3. \A r \in rows : IsRow(r)
  BY <1>1, <1>2 DEF Sources!RowsOf, Sources!Only, IsList, IsPages, RowsIn, Sources!HasData
<1>4. row \in rows
  BY <1>1 DEF Sources!SourcesRoute, FeedsKey
<1>5. PICK f, on : f = row.id /\ on = ~row.subscribed
  OBVIOUS
<1>6. row.subscribed \in BOOLEAN /\ on \in BOOLEAN
  BY <1>3, <1>4, <1>5 DEF IsRow
<1>7. PICK patched : patched = Sources!Toggled(rows, f, on)
  OBVIOUS
<1>8. (\A r \in patched : IsRow(r)) /\ \A r \in patched : r.id = f => r.subscribed = on
  <2>1. ASSUME NEW r, IsRow(r)
        PROVE  LET n == [r EXCEPT !.subscribed = on] IN IsRow(n) /\ n.subscribed = on
    BY <1>6, <2>1 DEF IsRow
  <2>2. patched = {IF r.id = f THEN [r EXCEPT !.subscribed = on] ELSE r : r \in rows}
    BY <1>7 DEF Sources!Toggled
  <2> QED  BY <1>3, <2>1, <2>2
<1>9. feedLists' = Sources!SetQueryData(Sources!CancelQueries(feedLists, FeedsKey), FeedsKey,
                                        <<Sources!Single(patched)>>)
  BY <1>1, <1>5, <1>7 DEF Sources!SourceRow, Sources!PatchList, FeedsKey
<1>10. AllLists(feedLists') /\ feedLists'[AdminKey] = feedLists[AdminKey] /\ Holds(feedLists'[FeedsKey], f, on)
  BY <1>2, <1>8, <1>9, ListPatched
<1>11. PICK back, alone : back = feedLists[FeedsKey].data /\ alone = (Sources!Pending = {})
  OBVIOUS
<1>12. PICK o : o = [[(IF row.subscribed THEN Sources!unsubscribeFeed(f) ELSE Sources!subscribeFeed(f))
                        EXCEPT !.back = back, !.alone = alone] EXCEPT !.at = "sent"]
  OBVIOUS
<1>13. PICK k \in Sources!FreeCall : call' = [Sources!Crowded EXCEPT ![k] = o]
  BY <1>5, <1>11, <1>12 DEF Sources!SourceRow, Sources!Send, FeedsKey
<1>14. k \in Call /\ call[k].at = "idle"
  BY DEF Sources!FreeCall, Sources!Pending
<1>15. o.kind = "toggle" /\ o.id = f /\ o.on = on /\ o.at = "sent" /\ o.back = back /\ o.alone = alone
  BY <1>5, <1>6, <1>12, ToggleRequest
<1>16. AskedOK(o)
  BY <1>2, <1>11, <1>15 DEF AskedOK, IsList
<1>17. o.alone => \A n \in Call : call[n].at = "idle"
  BY <1>11, <1>15 DEF Sources!Pending
<1>18. OwesList(o, FeedsKey, DOMAIN feeds) /\ ~OwesList(call[k], AdminKey, DOMAIN feeds)
  BY <1>14, <1>15 DEF OwesList
<1>19. UNCHANGED <<feeds, subscribed>>
  BY DEF Sources!SourceRow, Sources!serverVars
<1> QED  BY <1>10, <1>13, <1>14, <1>15, <1>16, <1>17, <1>18, <1>19, TwoKeys, CrowdedStep

\* The requests when another page mounts.
LEMMA NoLongerHeard ==
  ASSUME CallsOK, NEW expired, NEW n \in Call
  PROVE  LET o == Sources!Unheard(expired)[n]
         IN SameAsk(call[n], o) /\ (FeedsKey \in expired => ~o.alone)
<1>1. PICK r : r = call[n]
  OBVIOUS
<1>2. IsCall(r)
  BY <1>1 DEF CallsOK
<1>3. ASSUME NEW alone, alone => r.alone /\ FeedsKey \notin expired,
             NEW o, o = [r EXCEPT !.heard = "no", !.alone = alone]
      PROVE  SameAsk(r, o) /\ (FeedsKey \in expired => ~o.alone)
  <2>1. /\ o.kind = r.kind /\ o.own = r.own /\ o.id = r.id /\ o.on = r.on /\ o.at = r.at
        /\ o.result = r.result /\ o.back = r.back /\ o.alone = alone
    BY <1>2, <1>3 DEF IsCall
  <2> QED  BY <1>3, <2>1 DEF SameAsk
<1>4. Sources!Unheard(expired)[n] =
        [r EXCEPT !.heard = "no", !.alone = r.alone /\ FeedsKey \notin expired]
  BY <1>1 DEF Sources!Unheard, FeedsKey
<1> QED  BY <1>1, <1>3, <1>4

LEMMA UserCurrent ==
  ASSUME FeedsInv, CallsOK, Sources!SourcesUser
  PROVE  FeedsInv'
<1>1. UNCHANGED <<feeds, subscribed>>
  BY DEF Sources!SourcesUser, Sources!OpenPage, Sources!SourceRow, Sources!OpenEdit,
         Sources!AskDelete, Sources!OpenAdd, Sources!AddFeedDialog, Sources!AddFeedForm,
         Sources!EditFeedDialog, Sources!EditFeedForm, Sources!DeleteFeedConfirm, Sources!serverVars
<1>2. AllLists(feedLists)
  BY DEF FeedsInv
<1>3. ASSUME UNCHANGED feedLists, \A n \in Call : SameAsk(call[n], call'[n])
      PROVE  FeedsInv'
  BY <1>1, <1>2, <1>3, HeardStep DEF HoldsKept
<1>4. \A r : IsCall(r) => \A heard : SameAsk(r, [r EXCEPT !.heard = heard])
  BY DEF IsCall, SameAsk
<1>5. CASE \E at \in {"sources", "admin"} : Sources!OpenPage(at)
  <2>1. PICK shown, expired :
          feedLists' = Sources!MountQueries(feedLists, shown, expired) /\ call' = Sources!Unheard(expired)
    BY <1>5 DEF Sources!OpenPage
  <2>2. \A n \in Call : SameAsk(call[n], call'[n]) /\ (FeedsKey \in expired => ~call'[n].alone)
    BY <2>1, NoLongerHeard
  <2>3. /\ AllLists(feedLists') /\ (FeedsKey \notin expired => HoldsKept)
        /\ \A k \in Sources!Keys :
             \A offer : Settled(k, feedLists[k], offer) => Settled(k, feedLists'[k], offer)
    BY <1>2, <2>1, ListsMounted, TwoKeys DEF HoldsKept
  <2> QED  BY <1>1, <2>2, <2>3, HeardStep
<1>6. CASE \E row \in Sources!SourcesRoute : Sources!SourceRow(row)
  BY <1>6, ToggleCurrent
<1>7. ASSUME UNCHANGED feedLists, NEW r, IsCall(r), ~r.alone, r.back = <<>>, NEW heard,
             Sources!Send([r EXCEPT !.heard = heard])
      PROVE  FeedsInv'
  <2>1. PICK new : new = [r EXCEPT !.heard = heard]
    OBVIOUS
  <2>2. IsCall(new) /\ ~new.alone /\ new.back = <<>>
    BY <1>7, <2>1 DEF IsCall
  <2> QED  BY <1>1, <1>7, <2>1, <2>2, SentStep
<1>8. CASE \E url \in Url : Sources!AddFeedForm(url)
  <2>1. PICK url \in Url : UNCHANGED feedLists /\ Sources!Send([Sources!addFeed(url) EXCEPT !.heard = "form"])
    BY <1>8 DEF Sources!AddFeedForm
  <2>2. PICK r : r = Sources!addFeed(url)
    OBVIOUS
  <2> QED  BY <1>7, <2>1, <2>2, PlainRequests
<1>9. CASE \E setting \in Setting : Sources!EditFeedForm(setting)
  <2>1. PICK setting \in Setting :
          /\ UNCHANGED feedLists
          /\ Sources!Send([Sources!updateFeed(sourcesPage.editing, setting) EXCEPT !.heard = "form"])
    BY <1>9 DEF Sources!EditFeedForm
  <2>2. PICK r : r = Sources!updateFeed(sourcesPage.editing, setting)
    OBVIOUS
  <2> QED  BY <1>7, <2>1, <2>2, PlainRequests
<1>10. ASSUME UNCHANGED <<call, feedLists>>
       PROVE  FeedsInv'
  BY <1>3, <1>10 DEF SameAsk
<1>11. CASE Sources!DeleteFeedConfirm
  <2>1. UNCHANGED feedLists
    BY <1>11 DEF Sources!DeleteFeedConfirm
  <2>2. CASE Sources!Send([Sources!deleteFeed(sourcesPage.deleting) EXCEPT !.heard = "page"])
    <3>1. PICK r : r = Sources!deleteFeed(sourcesPage.deleting)
      OBVIOUS
    <3> QED  BY <1>7, <2>1, <2>2, <3>1, PlainRequests
  <2> QED  BY <1>10, <1>11, <2>1, <2>2 DEF Sources!DeleteFeedConfirm
<1>12. ASSUME NEW kind, call' = Sources!FormGone(kind), UNCHANGED feedLists
       PROVE  FeedsInv'
  <2>1. \A n \in Call : call'[n] = call[n] \/ call'[n] = [call[n] EXCEPT !.heard = "page"]
    BY <1>12 DEF Sources!FormGone
  <2>2. \A n \in Call : SameAsk(call[n], call[n])
    BY DEF SameAsk
  <2>3. ASSUME NEW n \in Call
        PROVE  SameAsk(call[n], call'[n])
    <3>1. PICK r : r = call[n]
      OBVIOUS
    <3>2. IsCall(r) /\ (call'[n] = r \/ call'[n] = [r EXCEPT !.heard = "page"])
      BY <2>1, <3>1 DEF CallsOK
    <3> QED  BY <1>4, <2>2, <3>1, <3>2
  <2> QED  BY <1>3, <1>12, <2>3
<1>13. CASE Sources!AddFeedDialog \/ Sources!EditFeedDialog
  BY <1>12, <1>13 DEF Sources!AddFeedDialog, Sources!EditFeedDialog
<1> QED  BY <1>5, <1>6, <1>8, <1>9, <1>10, <1>11, <1>13
         DEF Sources!SourcesUser, Sources!OpenEdit, Sources!AskDelete, Sources!OpenAdd

-----------------------------------------------------------------------------
(* The answers.                                                            *)

LEMMA QueryCurrent ==
  ASSUME FeedsInv, CallsOK, NEW k \in Sources!Keys, Sources!Read(k) \/ Sources!Arrive(k)
  PROVE  FeedsInv'
<1>1. UNCHANGED <<feeds, subscribed, call>> /\ Sources!Fetching(feedLists[k])
  BY DEF Sources!Read, Sources!Arrive, Sources!serverVars
<1>2. PICK e : e = feedLists[k]
  OBVIOUS
<1>3. AllLists(feedLists) /\ IsList(e) /\ Sources!Fetching(e)
  BY <1>1, <1>2 DEF FeedsInv, AllLists
<1>4. PICK offer : offer = Offer(k)
  OBVIOUS
<1>5. PICK n : /\ feedLists' = [feedLists EXCEPT ![k] = n] /\ IsList(n)
               /\ Settled(k, e, offer) => Settled(k, n, offer)
  <2>1. CASE Sources!Arrive(k)
    <3>1. feedLists' = [feedLists EXCEPT ![k] = Sources!Land(e)]
      BY <1>2, <1>3, <2>1 DEF Sources!Arrive, AllLists
    <3> QED  BY <1>3, <3>1, LandOK
  <2>2. CASE Sources!Read(k) /\ feedLists' = [feedLists EXCEPT ![k] = Sources!Refuse(@, "failed")]
    <3>1. feedLists' = [feedLists EXCEPT ![k] = Sources!Refuse(e, "failed")]
      BY <1>2, <1>3, <2>2 DEF AllLists
    <3> QED  BY <1>3, <3>1, RefuseOK
  <2>3. CASE /\ Sources!Read(k)
             /\ feedLists' = [feedLists EXCEPT ![k] = Sources!Answer(@, Sources!Single(Sources!ListFeeds(k)))]
    <3>1. PICK rows : rows = Sources!ListFeeds(k)
      OBVIOUS
    <3>2. feedLists' = [feedLists EXCEPT ![k] = Sources!Answer(e, Sources!Single(rows))]
      BY <1>2, <1>3, <2>3, <3>1 DEF AllLists
    <3>3. ~Sources!Answered(e) /\ \A r \in rows : IsRow(r)
      BY <1>2, <2>3, <3>1, RowsListed DEF Sources!Read
    <3>4. offer = Sources!Shown(k, rows)
      BY <1>4, <3>1 DEF Offer
    <3> QED  BY <1>3, <3>2, <3>3, <3>4, AnswerOK
  <2> QED  BY <2>1, <2>2, <2>3 DEF Sources!Read
<1>6. AllLists(feedLists') /\ feedLists'[k] = n /\ \A m \in Sources!Keys \ {k} : feedLists'[m] = feedLists[m]
  <2>1. PICK d : d = [feedLists EXCEPT ![k] = n]
    OBVIOUS
  <2>2. AllLists(d) /\ d[k] = n /\ \A m \in Sources!Keys \ {k} : d[m] = feedLists[m]
    BY <1>3, <1>5, <2>1 DEF AllLists
  <2> QED  BY <1>5, <2>1, <2>2
<1>7. HoldsKept
  BY <1>1, <1>6, TwoKeys DEF HoldsKept, Holds
<1>8. (\A m \in Call : AskedOK(call'[m])) /\ \A m \in Call : AloneOK(m)'
  BY <1>1, <1>7 DEF FeedsInv, AloneOK, HoldsKept
<1>9. ASSUME NEW m \in Sources!Keys
      PROVE  OwedList(m)' \/ Settled(m, feedLists'[m], Offer(m)')
  <2>1. Offer(m)' = Offer(m) /\ (OwedList(m) => OwedList(m)')
    BY <1>1, OfferSame DEF OwedList
  <2> QED  BY <1>2, <1>4, <1>5, <1>6, <2>1 DEF FeedsInv
<1> QED  BY <1>6, <1>8, <1>9 DEF FeedsInv

LEMMA DoneStep ==
  ASSUME FeedsInv, CallsOK, NEW k \in Call, Sources!Done(k),
         UNCHANGED <<feeds, subscribed>>, AllLists(feedLists'),
         \A key \in Sources!Keys :
           \/ Doubted(feedLists'[key])
           \/ ~OwesList(call[k], key, DOMAIN feeds) /\ feedLists'[key] = feedLists[key]
  PROVE  FeedsInv'
<1>1. PICK o : o = Sources!NoCall
  OBVIOUS
<1>2. ~o.alone /\ AskedOK(o)
  BY <1>1, NoPage DEF Sources!NoCall, AskedOK
<1>3. call' = [Sources!Crowded EXCEPT ![k] = o]
  BY <1>1 DEF Sources!Done
<1> QED  BY <1>2, <1>3, CrowdedStep

LEMMA BothDoubted ==
  ASSUME NEW c, AllLists(c)
  PROVE  LET d == Sources!Both(c) IN AllLists(d) /\ \A key \in Sources!Keys : Doubted(d[key])
<1>1. PICK b : b = Sources!InvalidateQueries(c, AdminKey, Sources!Active)
  OBVIOUS
<1>2. AllLists(b) /\ Doubted(b[AdminKey])
  BY <1>1, ListInvalidated, TwoKeys
<1>3. PICK d : d = Sources!InvalidateQueries(b, FeedsKey, Sources!Active)
  OBVIOUS
<1>4. AllLists(d) /\ Doubted(d[FeedsKey]) /\ d[AdminKey] = b[AdminKey]
  BY <1>2, <1>3, ListInvalidated, TwoKeys
<1>5. Sources!Both(c) = d
  BY <1>1, <1>3 DEF Sources!Both, FeedsKey, AdminKey
<1> QED  BY <1>2, <1>4, <1>5, TwoKeys

\* What the hooks refresh is what their requests owe.
LEMMA SettledCurrent ==
  ASSUME FeedsInv, CallsOK, NEW k \in Call, call[k].kind \in {"add", "update", "delete"},
         call[k].at = "answered", feedLists' = Sources!Refreshed(k), Sources!Done(k),
         UNCHANGED <<feeds, subscribed>>
  PROVE  FeedsInv'
<1>1. AllLists(feedLists)
  BY DEF FeedsInv
<1>2. CASE ~Sources!Succeeded(k)
  <2>1. feedLists' = feedLists
    BY <1>2 DEF Sources!Refreshed
  <2>2. \A key \in Sources!Keys : ~OwesList(call[k], key, DOMAIN feeds)
    BY <1>2 DEF Sources!Succeeded, OwesList
  <2> QED  BY <1>1, <2>1, <2>2, DoneStep
<1>3. CASE Sources!Succeeded(k) /\ call[k].own
  <2>1. feedLists' = Sources!InvalidateQueries(feedLists, FeedsKey, Sources!Active)
    BY <1>3 DEF Sources!Refreshed, Sources!Refresh, FeedsKey
  <2>2. AllLists(feedLists') /\ Doubted(feedLists'[FeedsKey]) /\ feedLists'[AdminKey] = feedLists[AdminKey]
    BY <1>1, <2>1, ListInvalidated, TwoKeys
  <2>3. ~OwesList(call[k], AdminKey, DOMAIN feeds)
    BY <1>3, TwoKeys DEF OwesList
  <2> QED  BY <2>2, <2>3, TwoKeys, DoneStep
<1>4. CASE Sources!Succeeded(k) /\ ~call[k].own
  <2>1. feedLists' = Sources!Both(feedLists)
    BY <1>4 DEF Sources!Refreshed, Sources!Refresh
  <2> QED  BY <1>1, <2>1, BothDoubted, DoneStep
<1> QED  BY <1>2, <1>3, <1>4

LEMMA ToggleEnds ==
  ASSUME FeedsInv, CallsOK, NEW k \in Call, Sources!useToggleSubscription(k)
  PROVE  FeedsInv'
<1>1. call[k].kind = "toggle" /\ call[k].at = "answered" /\ Sources!Done(k) /\ UNCHANGED <<feeds, subscribed>>
  BY DEF Sources!useToggleSubscription, Sources!Settles, Sources!serverVars
<1>2. PICK back : back = call[k].back
  OBVIOUS
<1>3. IsPages(back) /\ AllLists(feedLists)
  BY <1>2 DEF FeedsInv, AskedOK
<1>4. PICK c : c = IF Sources!Succeeded(k) THEN feedLists ELSE Sources!SetQueryData(feedLists, FeedsKey, back)
  OBVIOUS
<1>5. AllLists(c) /\ c[AdminKey] = feedLists[AdminKey]
  BY <1>3, <1>4, ListSet
<1>6. feedLists' = Sources!InvalidateQueries(c, FeedsKey, Sources!Active)
  BY <1>2, <1>4 DEF Sources!useToggleSubscription, FeedsKey
<1>7. AllLists(feedLists') /\ Doubted(feedLists'[FeedsKey]) /\ feedLists'[AdminKey] = feedLists[AdminKey]
  BY <1>5, <1>6, ListInvalidated, TwoKeys
<1>8. ~OwesList(call[k], AdminKey, DOMAIN feeds)
  BY <1>1, TwoKeys DEF OwesList
<1> QED  BY <1>1, <1>7, <1>8, TwoKeys, DoneStep

LEMMA ClientCurrent ==
  ASSUME FeedsInv, CallsOK, Sources!SourcesClient
  PROVE  FeedsInv'
<1>1. ASSUME NEW k \in Call, Sources!useAddFeed(k) \/ Sources!useUpdateFeed(k) \/ Sources!useDeleteFeed(k)
      PROVE  FeedsInv'
  <2>1. /\ call[k].kind \in {"add", "update", "delete"} /\ call[k].at = "answered"
        /\ feedLists' = Sources!Refreshed(k) /\ Sources!Done(k) /\ UNCHANGED <<feeds, subscribed>>
    BY <1>1 DEF Sources!useAddFeed, Sources!useUpdateFeed, Sources!useDeleteFeed, Sources!Settles,
                Sources!serverVars
  <2> QED  BY <2>1, SettledCurrent
<1> QED  BY <1>1, QueryCurrent, ToggleEnds DEF Sources!SourcesClient

-----------------------------------------------------------------------------
(* The theorems.                                                           *)

LEMMA InitCurrent ==
  ASSUME WebInit
  PROVE  FeedsInv
<1>1. /\ call = [k \in Call |-> Sources!NoCall]
      /\ feedLists = Sources!MountQueries([k \in Sources!Keys |-> Sources!Empty], Sources!Active, {})
  BY DEF WebInit, Sources!Init
<1>2. PICK e : e = Sources!Empty
  OBVIOUS
<1>3. IsList(e) /\ Doubted(e)
  BY <1>2, NoPage DEF Sources!Empty, IsList, Doubted, Sources!Fetching, Sources!Trusted, Sources!HasData
<1>4. PICK c : c = [k \in Sources!Keys |-> e]
  OBVIOUS
<1>5. AllLists(c) /\ \A k \in Sources!Keys : c[k] = e
  BY <1>3, <1>4 DEF AllLists
<1>6. /\ AllLists(feedLists)
      /\ \A k \in Sources!Keys : \A offer : Settled(k, c[k], offer) => Settled(k, feedLists[k], offer)
  BY <1>1, <1>2, <1>4, <1>5, ListsMounted
<1>7. \A k \in Sources!Keys : Settled(k, feedLists[k], Offer(k))
  BY <1>3, <1>5, <1>6, DoubtSettles
<1>8. \A n \in Call : AskedOK(call[n]) /\ ~call[n].alone
  BY <1>1, NoPage DEF Sources!NoCall, AskedOK
<1> QED  BY <1>6, <1>7, <1>8 DEF FeedsInv, AloneOK

LEMMA StepCurrent ==
  ASSUME QuotaInv, FeedsInv, [WebNext]_webVars
  PROVE  FeedsInv'
<1>1. FeedsOK /\ CallsOK
  BY DEF QuotaInv
<1>2. CASE UNCHANGED <<feeds, subscribed, call, feedLists>>
  <2>1. \A n \in Call : SameAsk(call[n], call'[n])
    BY <1>2 DEF SameAsk
  <2>2. AllLists(feedLists') /\ HoldsKept
    BY <1>2 DEF FeedsInv, HoldsKept
  <2> QED  BY <1>2, <2>1, <2>2, HeardStep
<1>3. CASE InTopics \/ UNCHANGED webVars
  BY <1>2, <1>3 DEF InTopics, webVars, sourcesVars
<1>4. CASE Sources!SourcesUser \/ Sources!SourcesClient \/ Sources!SourcesServer
  BY <1>1, <1>4, UserCurrent, ClientCurrent, ServerCurrent
<1> QED  BY <1>3, <1>4 DEF WebNext

LEMMA FeedsInvariant == WebSpec => []FeedsInv
<1>1. WebInit => QuotaInv /\ FeedsInv
  BY InitInv, InitCurrent
<1>2. QuotaInv /\ FeedsInv /\ [WebNext]_webVars => (QuotaInv /\ FeedsInv)'
  BY StepInv, StepCurrent
<1> QED  BY <1>1, <1>2, PTL DEF WebSpec

\* When no request is under way, what the tab trusts of either list of feeds is what
\* the service lists, whatever has failed, been lost, overtaken or overlooked
\* (use-mutations.tsx and use-admin-feeds.ts: what each hook invalidates).
THEOREM ListsCurrent == WebSpec => []FeedsMatchServer
<1>1. ASSUME FeedsInv, Sources!Pending = {}, NEW k \in Sources!Keys, Sources!Trusted(feedLists[k])
      PROVE  Sources!Shown(k, Sources!RowsOf(k)) = Sources!Shown(k, Sources!ListFeeds(k))
  <2>1. \A n \in Call : call[n].at = "idle"
    BY <1>1 DEF Sources!Pending
  <2>2. ~OwedList(k)
    BY <2>1 DEF OwedList, OwesList
  <2>3. Fits(k, feedLists[k].data, Offer(k)) /\ feedLists[k].data # <<>>
    BY <1>1, <2>2 DEF FeedsInv, Settled, Sources!Trusted, Sources!HasData
  <2> QED  BY <2>3 DEF Fits, Offer, RowsIn, Sources!RowsOf, Sources!Only, Sources!HasData
<1>2. FeedsInv => FeedsMatchServer
  BY <1>1 DEF FeedsMatchServer, Sources!FeedsMatchServer
<1> QED  BY <1>2, FeedsInvariant, PTL

\* A box that was ticked shows what it was set to while its request is the only one
\* and its list is not asked for again because the staleTime has passed: no fetch that
\* was under way at the click puts it back (use-mutations.tsx: cancelQueries in
\* onMutate), and neither does leaving the page and coming back to a fresh list.
THEOREM BoxStands == WebSpec => []ToggleStands
<1>1. ASSUME FeedsInv, NEW k \in Sources!Pending, call[k].alone, NEW row \in Sources!RowsOf(FeedsKey),
             row.id = call[k].id
      PROVE  row.subscribed = call[k].on
  <2>1. Holds(feedLists[FeedsKey], call[k].id, call[k].on)
    BY <1>1 DEF FeedsInv, AloneOK, Sources!Pending
  <2> QED  BY <1>1, <2>1 DEF Holds, RowsIn, Sources!RowsOf, Sources!Only
<1>2. FeedsInv => ToggleStands
  BY <1>1 DEF ToggleStands, Sources!ToggleStands, FeedsKey
<1> QED  BY <1>2, FeedsInvariant, PTL

-----------------------------------------------------------------------------
(* Types.  The instance has copies of the operators of QueryCache.          *)

FeedRecord == [url : Url, own : BOOLEAN, setting : Setting]
FeedPage == Page(SUBSET Sources!FeedRow)
CallRecord ==
  [kind : {"none", "add", "update", "delete", "toggle"}, own : BOOLEAN, url : Url \union {""},
   id : Sources!FeedIds \union {0}, setting : Setting, on : BOOLEAN,
   at : {"idle", "sent", "counting", "adding", "subscribing", "answered"},
   result : {"", "ok", "notFound", "duplicate", "quota", "failed"}, seen : 0..MaxFeed,
   heard : {"no", "page", "form"}, back : Seq(FeedPage), alone : BOOLEAN]
SourcesPlace ==
  [at : {"sources", "admin"}, add : {"closed", "open", "saving", "failed"},
   edit : {"closed", "open", "saving", "failed"}, editing : Sources!FeedIds \union {0},
   deleting : Sources!FeedIds \union {0}]

RowsTyped ==
  /\ issued \in 0..MaxFeed
  /\ DOMAIN feeds \subseteq 1..issued /\ feeds \in [DOMAIN feeds -> FeedRecord]
  /\ subscribed \subseteq DOMAIN feeds
\* A request to add a feed has its address.
Requested == {r \in CallRecord : r.kind = "add" => r.url \in Url}
CallsTyped == call \in [Call -> Requested]
ListsTyped(c) == c \in [Sources!Keys -> Entries(FeedPage)]
SourcesTypes == RowsTyped /\ CallsTyped /\ ListsTyped(feedLists) /\ sourcesPage \in SourcesPlace

LEMMA SameEntries ==
  /\ Sources!NoFetch = NoFetch /\ Sources!Empty = Empty
  /\ \A e : Sources!HasData(e) <=> HasData(e)
  /\ \A e : Sources!Fetching(e) <=> Fetching(e)
  /\ \A P : Sources!Entries(P) = Entries(P)
  /\ \A rows : Sources!Single(rows) = Single(rows)
BY DEF Sources!NoFetch, NoFetch, Sources!Empty, Empty, Sources!HasData, HasData, Sources!Fetching, Fetching,
       Sources!Entries, Entries, Sources!Fetches, Fetches, Sources!Errors, Errors, Sources!Single, Single

LEMMA SameFetches ==
  /\ \A e, more : Sources!Begin(e, more) = Begin(e, more)
  /\ \A e, active : Sources!Invalidate(e, active) = Invalidate(e, active)
<1>1. \A e, more : Sources!Begin(e, more) = Begin(e, more)
  BY DEF Sources!Begin, Begin, Sources!NewFetch, NewFetch, Sources!HasData, HasData
<1>2. \A e, active : Sources!Invalidate(e, active) = Invalidate(e, active)
  BY <1>1 DEF Sources!Invalidate, Invalidate, Sources!HasData, HasData, Sources!Fetching, Fetching,
            Sources!NoFetch, NoFetch
<1> QED  BY <1>1, <1>2

LEMMA SameChanges ==
  /\ \A e : Sources!Cancel(e) = Cancel(e)
  /\ \A e, pages : Sources!SetData(e, pages) = SetData(e, pages)
  /\ \A e : Sources!Overlooked(e) = Overlooked(e)
  /\ \A e, answer : Sources!Answer(e, answer) = Answer(e, answer)
  /\ \A e, err : Sources!Refuse(e, err) = Refuse(e, err)
  /\ \A e : Sources!Land(e) = Land(e)
<1>1. \A e : Sources!Cancel(e) = Cancel(e)
  BY SameEntries DEF Sources!Cancel, Cancel
<1>2. \A e, pages : Sources!SetData(e, pages) = SetData(e, pages)
  BY SameEntries DEF Sources!SetData, SetData
<1>3. \A e : Sources!Overlooked(e) = Overlooked(e)
  BY DEF Sources!Overlooked, Overlooked, Sources!HasData, HasData, Sources!NoFetch, NoFetch
<1>4. \A e, answer : Sources!Answer(e, answer) = Answer(e, answer)
  BY DEF Sources!Answer, Answer
<1>5. \A e, err : Sources!Refuse(e, err) = Refuse(e, err)
  BY DEF Sources!Refuse, Refuse
<1>6. \A e : Sources!Land(e) = Land(e)
  BY SameEntries DEF Sources!Land, Land
<1> QED  BY <1>1, <1>2, <1>3, <1>4, <1>5, <1>6

LEMMA TypesAreTypes == SourcesTypes => Sources!TypeOK
<1>1. RowsTyped <=>
        /\ issued \in 0..MaxFeed
        /\ \E ids \in SUBSET (1..issued) : feeds \in [ids -> [url : Url, own : BOOLEAN, setting : Setting]]
        /\ subscribed \subseteq DOMAIN feeds
  BY DEF RowsTyped, FeedRecord
<1>2. ListsTyped(feedLists) <=> feedLists \in [Sources!Keys -> Sources!Lists]
  BY SameEntries DEF ListsTyped, Sources!Lists, FeedPage, Page
<1>3. CallsTyped => call \in [Call ->
       [kind : {"none", "add", "update", "delete", "toggle"}, own : BOOLEAN, url : Url \union {""},
        id : Sources!FeedIds \union {0}, setting : Setting, on : BOOLEAN,
        at : {"idle", "sent", "counting", "adding", "subscribing", "answered"},
        result : {"", "ok", "notFound", "duplicate", "quota", "failed"}, seen : 0..MaxFeed,
        heard : {"no", "page", "form"}, back : Seq([items : Seq(SUBSET Sources!FeedRow), total : Nat]),
        alone : BOOLEAN]]
  BY DEF CallsTyped, Requested, CallRecord, FeedPage, Page
<1> QED  BY <1>1, <1>2, <1>3 DEF SourcesTypes, SourcesPlace, Sources!TypeOK

-----------------------------------------------------------------------------
(* Typed lists.                                                            *)

LEMMA MountTyped ==
  ASSUME NEW c, ListsTyped(c), NEW shown, NEW expired
  PROVE  ListsTyped(Sources!MountQueries(c, shown, expired))
<1>1. ASSUME NEW e \in Entries(FeedPage), NEW old
      PROVE  Sources!Mount(e, old) \in Entries(FeedPage)
  <2>1. PICK more \in BOOLEAN : more = FALSE
    OBVIOUS
  <2>2. Begin(e, more) \in Entries(FeedPage)
    BY BeginEntry
  <2>3. Sources!Mount(e, old) \in {e, Begin(e, more)}
    BY <2>1, SameFetches DEF Sources!Mount
  <2> QED  BY <2>2, <2>3
<1>2. PICK d : d = Sources!MountQueries(c, shown, expired)
  OBVIOUS
<1>3. d = [k \in Sources!Keys |-> IF k \in shown THEN Sources!Mount(c[k], k \in expired) ELSE c[k]]
  BY <1>2 DEF Sources!MountQueries, ListsTyped
<1>4. \A k \in Sources!Keys : c[k] \in Entries(FeedPage)
  BY DEF ListsTyped
<1> QED  BY <1>1, <1>2, <1>3, <1>4 DEF ListsTyped

LEMMA InvalidateTyped ==
  ASSUME NEW c, ListsTyped(c), NEW key, NEW shown
  PROVE  ListsTyped(Sources!InvalidateQueries(c, key, shown))
<1>1. ASSUME NEW e \in Entries(FeedPage), NEW k
      PROVE  Sources!Invalidate(e, k \in shown) \in Entries(FeedPage)
  <2>1. \A active \in BOOLEAN : Sources!Invalidate(e, active) \in Entries(FeedPage)
    BY InvalidateEntry, SameFetches
  <2>2. (k \in shown) \in BOOLEAN
    OBVIOUS
  <2> QED  BY <2>1, <2>2
<1>2. PICK d : d = Sources!InvalidateQueries(c, key, shown)
  OBVIOUS
<1>3. d = [k \in Sources!Keys |->
            IF Sources!IsPrefix(key, k) THEN Sources!Invalidate(c[k], k \in shown) ELSE c[k]]
  BY <1>2 DEF Sources!InvalidateQueries, ListsTyped
<1>4. \A k \in Sources!Keys : c[k] \in Entries(FeedPage)
  BY DEF ListsTyped
<1> QED  BY <1>1, <1>2, <1>3, <1>4 DEF ListsTyped

LEMMA OverlookTyped ==
  ASSUME NEW c, ListsTyped(c)
  PROVE  ListsTyped(Sources!OverlookQueries(c))
<1>1. \A e \in Entries(FeedPage) : Sources!Overlooked(e) \in Entries(FeedPage)
  BY OverlookedEntry, SameChanges
<1>2. PICK d : d = Sources!OverlookQueries(c)
  OBVIOUS
<1>3. d = [k \in Sources!Keys |-> Sources!Overlooked(c[k])]
  BY <1>2 DEF Sources!OverlookQueries, ListsTyped
<1> QED  BY <1>1, <1>2, <1>3 DEF ListsTyped

LEMMA CancelTyped ==
  ASSUME NEW c, ListsTyped(c), NEW key
  PROVE  ListsTyped(Sources!CancelQueries(c, key))
<1>1. \A e \in Entries(FeedPage) : Sources!Cancel(e) \in Entries(FeedPage)
  BY CancelEntry, SameChanges
<1>2. PICK d : d = Sources!CancelQueries(c, key)
  OBVIOUS
<1>3. d = [k \in Sources!Keys |-> IF Sources!IsPrefix(key, k) THEN Sources!Cancel(c[k]) ELSE c[k]]
  BY <1>2 DEF Sources!CancelQueries, ListsTyped
<1>4. \A k \in Sources!Keys : c[k] \in Entries(FeedPage)
  BY DEF ListsTyped
<1> QED  BY <1>1, <1>2, <1>3, <1>4 DEF ListsTyped

LEMMA OneTyped ==
  ASSUME NEW c, ListsTyped(c), NEW k \in Sources!Keys, NEW e \in Entries(FeedPage)
  PROVE  ListsTyped([c EXCEPT ![k] = e])
BY DEF ListsTyped

LEMMA SetTyped ==
  ASSUME NEW c, ListsTyped(c), NEW k \in Sources!Keys, NEW pages \in Seq(FeedPage)
  PROVE  ListsTyped(Sources!SetQueryData(c, k, pages))
<1>1. PICK n : n = SetData(c[k], pages)
  OBVIOUS
<1>2. n \in Entries(FeedPage)
  BY <1>1, SetDataEntry DEF ListsTyped
<1>3. Sources!SetQueryData(c, k, pages) \in {c, [c EXCEPT ![k] = n]}
  BY <1>1, SameChanges DEF Sources!SetQueryData, ListsTyped
<1> QED  BY <1>2, <1>3, OneTyped

LEMMA RowsOfTyped ==
  ASSUME FeedsInv, ListsTyped(feedLists), NEW k \in Sources!Keys
  PROVE  Sources!RowsOf(k) \subseteq Sources!FeedRow
<1>1. PICK e : e = feedLists[k]
  OBVIOUS
<1>2. e.data \in Seq(FeedPage) /\ IsPages(e.data)
  BY <1>1, EntryFields DEF ListsTyped, FeedsInv, AllLists, IsList
<1>3. CASE ~Sources!HasData(e)
  BY <1>1, <1>3 DEF Sources!RowsOf
<1>4. CASE Sources!HasData(e)
  <2>1. PICK rows : rows = RowsIn(e.data)
    OBVIOUS
  <2>2. e.data = <<Single(rows)>>
    BY <1>2, <1>4, <2>1, SameEntries DEF IsPages, Sources!HasData
  <2>3. e.data[1] \in FeedPage /\ e.data[1] = Single(rows)
    BY <1>2, <2>2
  <2>4. <<rows>> \in Seq(SUBSET Sources!FeedRow)
    BY <2>3 DEF FeedPage, Page, Single
  <2>5. rows \in SUBSET Sources!FeedRow
    BY <2>4
  <2>6. Sources!RowsOf(k) = rows
    BY <1>1, <1>4, <2>1 DEF Sources!RowsOf, Sources!Only, RowsIn
  <2> QED  BY <2>5, <2>6
<1> QED  BY <1>3, <1>4

LEMMA RowTyped ==
  ASSUME RowsTyped, NEW f \in DOMAIN feeds
  PROVE  f \in Sources!FeedIds /\ Sources!Row(f) \in Sources!FeedRow
<1>1. f \in Sources!FeedIds
  BY RadarSourcesAssumption DEF RowsTyped, Sources!FeedIds
<1>2. feeds[f].url \in Url /\ feeds[f].own \in BOOLEAN /\ feeds[f].setting \in Setting
  BY DEF RowsTyped, FeedRecord
<1>3. (f \in subscribed) \in BOOLEAN
  OBVIOUS
<1> QED  BY <1>1, <1>2, <1>3 DEF Sources!Row, Sources!FeedRow

LEMMA ListTyped ==
  ASSUME RowsTyped, NEW k
  PROVE  Sources!ListFeeds(k) \subseteq Sources!FeedRow
BY RowTyped DEF Sources!ListFeeds, Sources!Catalog

LEMMA PageOfRows ==
  ASSUME NEW rows, rows \subseteq Sources!FeedRow
  PROVE  Sources!Single(rows) \in FeedPage /\ <<Sources!Single(rows)>> \in Seq(FeedPage)
<1>1. PICK p : p = Sources!Single(rows)
  OBVIOUS
<1>2. p \in FeedPage
  BY <1>1, SameEntries, SingleInPage DEF FeedPage
<1> QED  BY <1>1, <1>2

-----------------------------------------------------------------------------
(* Typed requests.                                                         *)

Results == {"", "ok", "notFound", "duplicate", "quota", "failed"}
Stages == {"idle", "sent", "counting", "adding", "subscribing", "answered"}

LEMMA MoveTyped ==
  ASSUME NEW r \in Requested, NEW at \in Stages
  PROVE  /\ [r EXCEPT !.at = at] \in Requested
         /\ \A result \in Results : [r EXCEPT !.at = at, !.result = result] \in Requested
         /\ \A f \in Sources!FeedIds : [r EXCEPT !.at = at, !.id = f] \in Requested
         /\ \A n \in 0..MaxFeed : [r EXCEPT !.at = at, !.seen = n] \in Requested
<1>1. r \in CallRecord /\ (r.kind = "add" => r.url \in Url)
  BY DEF Requested
<1>2. ASSUME NEW n \in CallRecord, n.kind = r.kind, n.url = r.url PROVE n \in Requested
  BY <1>1, <1>2 DEF Requested
<1>3. [r EXCEPT !.at = at] \in Requested
  <2>1. PICK n : n = [r EXCEPT !.at = at]
    OBVIOUS
  <2>2. n \in CallRecord /\ n.kind = r.kind /\ n.url = r.url
    BY <1>1, <2>1 DEF CallRecord, Stages
  <2> QED  BY <1>2, <2>1, <2>2
<1>4. ASSUME NEW result \in Results PROVE [r EXCEPT !.at = at, !.result = result] \in Requested
  <2>1. PICK n : n = [r EXCEPT !.at = at, !.result = result]
    OBVIOUS
  <2>2. n \in CallRecord /\ n.kind = r.kind /\ n.url = r.url
    BY <1>1, <2>1 DEF CallRecord, Stages, Results
  <2> QED  BY <1>2, <2>1, <2>2
<1>5. ASSUME NEW f \in Sources!FeedIds PROVE [r EXCEPT !.at = at, !.id = f] \in Requested
  <2>1. PICK n : n = [r EXCEPT !.at = at, !.id = f]
    OBVIOUS
  <2>2. n \in CallRecord /\ n.kind = r.kind /\ n.url = r.url
    BY <1>1, <2>1 DEF CallRecord, Stages
  <2> QED  BY <1>2, <2>1, <2>2
<1>6. ASSUME NEW seen \in 0..MaxFeed PROVE [r EXCEPT !.at = at, !.seen = seen] \in Requested
  <2>1. PICK n : n = [r EXCEPT !.at = at, !.seen = seen]
    OBVIOUS
  <2>2. n \in CallRecord /\ n.kind = r.kind /\ n.url = r.url
    BY <1>1, <2>1 DEF CallRecord, Stages
  <2> QED  BY <1>2, <2>1, <2>2
<1> QED  BY <1>3, <1>4, <1>5, <1>6

LEMMA MarkTyped ==
  ASSUME NEW r \in Requested
  PROVE  /\ [r EXCEPT !.alone = FALSE] \in Requested
         /\ \A heard \in {"no", "page", "form"} : [r EXCEPT !.heard = heard] \in Requested
<1>1. r \in CallRecord /\ (r.kind = "add" => r.url \in Url)
  BY DEF Requested
<1>2. [r EXCEPT !.alone = FALSE] \in Requested
  <2>1. PICK n : n = [r EXCEPT !.alone = FALSE]
    OBVIOUS
  <2>2. n \in CallRecord /\ n.kind = r.kind /\ n.url = r.url
    BY <1>1, <2>1 DEF CallRecord
  <2> QED  BY <1>1, <2>1, <2>2 DEF Requested
<1>3. ASSUME NEW heard \in {"no", "page", "form"} PROVE [r EXCEPT !.heard = heard] \in Requested
  <2>1. PICK n : n = [r EXCEPT !.heard = heard]
    OBVIOUS
  <2>2. n \in CallRecord /\ n.kind = r.kind /\ n.url = r.url
    BY <1>1, <2>1 DEF CallRecord
  <2> QED  BY <1>1, <2>1, <2>2 DEF Requested
<1> QED  BY <1>2, <1>3

LEMMA BecomesTyped ==
  ASSUME CallsTyped, NEW k \in Call, NEW o \in Requested, Sources!Becomes(k, o)
  PROVE  CallsTyped'
BY DEF CallsTyped, Sources!Becomes

LEMMA FinishTyped ==
  ASSUME CallsTyped, NEW k \in Call, NEW result \in Results, Sources!Finish(k, result)
  PROVE  CallsTyped'
<1>1. PICK r \in Requested, at \in Stages : r = call[k] /\ at = "answered"
  BY DEF CallsTyped, Stages
<1>2. [r EXCEPT !.at = at, !.result = result] \in Requested
  BY MoveTyped
<1> QED  BY <1>1, <1>2, BecomesTyped DEF Sources!Finish

LEMMA EndsTyped ==
  ASSUME CallsTyped, NEW k \in Call,
         \/ Sources!Finish(k, "ok") \/ Sources!Finish(k, "notFound") \/ Sources!Finish(k, "duplicate")
         \/ Sources!Finish(k, "quota") \/ Sources!Finish(k, "failed")
  PROVE  CallsTyped'
<1>1. PICK result \in Results : Sources!Finish(k, result)
  BY DEF Results
<1> QED  BY <1>1, FinishTyped

LEMMA NoCallTyped == Sources!NoCall \in Requested
<1>1. PICK none \in Sources!FeedIds \union {0}, last \in 0..MaxFeed, setting \in Setting, back \in Seq(FeedPage) :
        none = 0 /\ last = 0 /\ setting = NewSetting /\ back = <<>>
  <2>1. 0 \in 0..MaxFeed /\ NewSetting \in Setting
    BY RadarSourcesAssumption
  <2>2. <<>> \in Seq(FeedPage)
    OBVIOUS
  <2> QED  BY <2>1, <2>2
<1>2. PICK r : r = [kind |-> "none", own |-> TRUE, url |-> "", id |-> none, setting |-> setting,
                    on |-> FALSE, at |-> "idle", result |-> "", seen |-> last, heard |-> "no",
                    back |-> back, alone |-> FALSE]
  OBVIOUS
<1>3. r \in CallRecord /\ r.kind = "none"
  BY <1>2 DEF CallRecord
<1>4. Sources!NoCall = r
  BY <1>1, <1>2 DEF Sources!NoCall
<1> QED  BY <1>3, <1>4 DEF Requested

LEMMA CrowdedTyped ==
  ASSUME CallsTyped, NEW k \in Call, NEW o \in Requested, call' = [Sources!Crowded EXCEPT ![k] = o]
  PROVE  CallsTyped'
<1>1. Sources!Crowded \in [Call -> Requested]
  BY MarkTyped DEF CallsTyped, Sources!Crowded
<1> QED  BY <1>1 DEF CallsTyped

LEMMA SendTyped ==
  ASSUME CallsTyped, NEW new \in Requested, Sources!Send(new)
  PROVE  CallsTyped'
<1>1. PICK k \in Call : call' = [Sources!Crowded EXCEPT ![k] = [new EXCEPT !.at = "sent"]]
  BY DEF Sources!Send, Sources!FreeCall
<1>2. PICK at \in Stages : at = "sent"
  BY DEF Stages
<1>3. PICK o : o = [new EXCEPT !.at = at]
  OBVIOUS
<1>4. o \in Requested
  BY <1>3, MoveTyped
<1> QED  BY <1>1, <1>2, <1>3, <1>4, CrowdedTyped

LEMMA HeardTyped ==
  ASSUME CallsTyped, NEW heard \in {"no", "page", "form"},
         \A k \in Call : call'[k] = call[k] \/ call'[k] = [call[k] EXCEPT !.heard = heard],
         call' = [k \in Call |-> call'[k]]
  PROVE  CallsTyped'
<1>1. ASSUME NEW k \in Call PROVE call'[k] \in Requested
  <2>1. PICK r \in Requested : r = call[k]
    BY DEF CallsTyped
  <2>2. call'[k] = r \/ call'[k] = [r EXCEPT !.heard = heard]
    BY <2>1
  <2> QED  BY <2>2, MarkTyped
<1> QED  BY <1>1 DEF CallsTyped

LEMMA UnheardTyped ==
  ASSUME CallsTyped, NEW expired, call' = Sources!Unheard(expired)
  PROVE  CallsTyped'
<1>1. ASSUME NEW k \in Call PROVE call'[k] \in Requested
  <2>1. PICK r \in Requested : r = call[k]
    BY DEF CallsTyped
  <2>2. r \in CallRecord /\ (r.kind = "add" => r.url \in Url)
    BY DEF Requested
  <2>3. PICK alone \in BOOLEAN : alone = (r.alone /\ FeedsKey \notin expired)
    OBVIOUS
  <2>4. PICK n : n = [r EXCEPT !.heard = "no", !.alone = alone]
    OBVIOUS
  <2>5. n \in CallRecord /\ n.kind = r.kind /\ n.url = r.url
    BY <2>2, <2>4 DEF CallRecord
  <2>6. call'[k] = n
    BY <2>1, <2>3, <2>4 DEF Sources!Unheard, FeedsKey
  <2> QED  BY <2>2, <2>5, <2>6 DEF Requested
<1> QED  BY <1>1 DEF CallsTyped, Sources!Unheard

\* The requests of the forms.
LEMMA FormsTyped ==
  ASSUME NEW own \in BOOLEAN
  PROVE  /\ \A url \in Url : [Sources!NoCall EXCEPT !.kind = "add", !.url = url, !.own = own] \in Requested
         /\ \A f \in Sources!FeedIds \union {0}, setting \in Setting :
              [Sources!NoCall EXCEPT !.kind = "update", !.id = f, !.own = own, !.setting = setting] \in Requested
         /\ \A f \in Sources!FeedIds \union {0} :
              [Sources!NoCall EXCEPT !.kind = "delete", !.id = f, !.own = own] \in Requested
         /\ \A f \in Sources!FeedIds :
              [Sources!NoCall EXCEPT !.kind = "toggle", !.id = f, !.on = own] \in Requested
<1>1. PICK o \in Requested : o = Sources!NoCall /\ o.kind = "none"
  BY NoCallTyped DEF Sources!NoCall
<1>2. \A url \in Url : [o EXCEPT !.kind = "add", !.url = url, !.own = own] \in Requested
  BY DEF Requested, CallRecord
<1>3. \A f \in Sources!FeedIds \union {0}, setting \in Setting :
        [o EXCEPT !.kind = "update", !.id = f, !.own = own, !.setting = setting] \in Requested
  BY DEF Requested, CallRecord
<1>4. \A f \in Sources!FeedIds \union {0} : [o EXCEPT !.kind = "delete", !.id = f, !.own = own] \in Requested
  BY DEF Requested, CallRecord
<1>5. \A f \in Sources!FeedIds : [o EXCEPT !.kind = "toggle", !.id = f, !.on = own] \in Requested
  BY DEF Requested, CallRecord
<1> QED  BY <1>1, <1>2, <1>3, <1>4, <1>5

LEMMA RequestTyped ==
  /\ \A url \in Url : Sources!addFeed(url) \in Requested
  /\ \A f \in Sources!FeedIds \union {0}, setting \in Setting : Sources!updateFeed(f, setting) \in Requested
  /\ \A f \in Sources!FeedIds \union {0} : Sources!deleteFeed(f) \in Requested
  /\ \A f \in Sources!FeedIds : Sources!subscribeFeed(f) \in Requested /\ Sources!unsubscribeFeed(f) \in Requested
<1>1. PICK own \in BOOLEAN : own = Sources!Personal
  BY DEF Sources!Personal
<1>2. \A url \in Url : Sources!addFeed(url) \in Requested
  BY <1>1, FormsTyped DEF Sources!addFeed
<1>3. \A f \in Sources!FeedIds \union {0}, setting \in Setting : Sources!updateFeed(f, setting) \in Requested
  BY <1>1, FormsTyped DEF Sources!updateFeed
<1>4. \A f \in Sources!FeedIds \union {0} : Sources!deleteFeed(f) \in Requested
  BY <1>1, FormsTyped DEF Sources!deleteFeed
<1>5. PICK yes \in BOOLEAN, no \in BOOLEAN : yes = TRUE /\ no = FALSE
  OBVIOUS
<1>6. \A f \in Sources!FeedIds : Sources!subscribeFeed(f) \in Requested
  BY <1>5, FormsTyped DEF Sources!subscribeFeed
<1>7. \A f \in Sources!FeedIds : Sources!unsubscribeFeed(f) \in Requested
  BY <1>5, FormsTyped DEF Sources!unsubscribeFeed
<1> QED  BY <1>2, <1>3, <1>4, <1>6, <1>7

-----------------------------------------------------------------------------
(* Typed rows.                                                             *)

LEMMA InsertTyped ==
  ASSUME RowsTyped, NEW url \in Url, NEW own \in BOOLEAN, issued < MaxFeed, Sources!Insert(url, own),
         UNCHANGED subscribed
  PROVE  RowsTyped' /\ issued + 1 \in Sources!FeedIds
<1>1. issued \in Nat /\ issued' = issued + 1 /\ issued + 1 \in 1..MaxFeed
  BY RadarSourcesAssumption DEF RowsTyped, Sources!Insert
<1>2. PICK new \in FeedRecord : new = [url |-> url, own |-> own, setting |-> NewSetting]
  BY RadarSourcesAssumption DEF FeedRecord
<1>3. feeds' = [f \in DOMAIN feeds \union {issued + 1} |-> IF f \in DOMAIN feeds THEN feeds[f] ELSE new]
  BY <1>2 DEF Sources!Insert
<1>4. DOMAIN feeds' = DOMAIN feeds \union {issued + 1}
  BY <1>3
<1>5. feeds' \in [DOMAIN feeds' -> FeedRecord]
  BY <1>2, <1>3, <1>4 DEF RowsTyped
<1>6. DOMAIN feeds' \subseteq 1..(issued + 1)
  BY <1>1, <1>4 DEF RowsTyped
<1>7. subscribed' \subseteq DOMAIN feeds'
  BY <1>4 DEF RowsTyped
<1>8. issued' \in 0..MaxFeed
  BY <1>1
<1> QED  BY <1>1, <1>5, <1>6, <1>7, <1>8 DEF RowsTyped, Sources!FeedIds

LEMMA WithoutTyped ==
  ASSUME RowsTyped, NEW f, Sources!Without(f), UNCHANGED issued
  PROVE  RowsTyped'
<1>1. feeds' = [g \in DOMAIN feeds \ {f} |-> feeds[g]] /\ subscribed' = subscribed \ {f}
  BY DEF Sources!Without
<1> QED  BY <1>1 DEF RowsTyped

LEMMA RowsSame == ASSUME RowsTyped, UNCHANGED Sources!serverVars PROVE RowsTyped'
BY DEF RowsTyped, Sources!serverVars

\* The statements of the service.
LEMMA ServeTyped ==
  ASSUME RowsTyped, CallsTyped, FeedsInv, NEW k \in Call,
         \/ Sources!GetGlobalFeedByURL(k) \/ Sources!CountUserFeeds(k) \/ Sources!AddFeed(k)
         \/ Sources!Subscribe(k) \/ Sources!Unsubscribe(k) \/ Sources!AddGlobalFeed(k)
         \/ Sources!UpdateFeed(k) \/ Sources!DeleteFeed(k)
  PROVE  RowsTyped' /\ CallsTyped'
<1>1. PICK r \in Requested : r = call[k]
  BY DEF CallsTyped
<1>2. r.setting \in Setting /\ r.own \in BOOLEAN /\ (r.kind = "add" => r.url \in Url)
  BY DEF Requested, CallRecord
<1>3. CASE Sources!GetGlobalFeedByURL(k)
  <2>1. RowsTyped'
    BY <1>3, RowsSame DEF Sources!GetGlobalFeedByURL
  <2>2. CASE \E f \in Sources!Catalog : Sources!Becomes(k, [call[k] EXCEPT !.at = "subscribing", !.id = f])
    <3>1. PICK f \in Sources!Catalog : Sources!Becomes(k, [call[k] EXCEPT !.at = "subscribing", !.id = f])
      BY <2>2
    <3>2. f \in Sources!FeedIds
      BY RowTyped DEF Sources!Catalog
    <3>3. PICK at \in Stages : at = "subscribing"
      BY DEF Stages
    <3>4. [r EXCEPT !.at = at, !.id = f] \in Requested
      BY <3>2, MoveTyped
    <3> QED  BY <1>1, <2>1, <3>1, <3>3, <3>4, BecomesTyped
  <2>3. CASE Sources!Becomes(k, [call[k] EXCEPT !.at = "counting", !.seen = issued])
    <3>1. PICK at \in Stages : at = "counting"
      BY DEF Stages
    <3>2. [r EXCEPT !.at = at, !.seen = issued] \in Requested
      BY MoveTyped DEF RowsTyped
    <3> QED  BY <1>1, <2>1, <2>3, <3>1, <3>2, BecomesTyped
  <2> QED  BY <1>3, <2>2, <2>3 DEF Sources!GetGlobalFeedByURL
<1>4. CASE Sources!CountUserFeeds(k)
  <2>1. RowsTyped'
    BY <1>4, RowsSame DEF Sources!CountUserFeeds
  <2>2. CASE Sources!Goes(k, "adding")
    <3>1. PICK at \in Stages : at = "adding"
      BY DEF Stages
    <3>2. [r EXCEPT !.at = at] \in Requested
      BY MoveTyped
    <3> QED  BY <1>1, <2>1, <2>2, <3>1, <3>2, BecomesTyped DEF Sources!Goes
  <2> QED  BY <1>4, <2>1, <2>2, EndsTyped DEF Sources!CountUserFeeds
<1>5. CASE Sources!AddFeed(k)
  <2>1. CASE Sources!Finish(k, "duplicate") /\ UNCHANGED <<feeds, issued>>
    BY <1>5, <2>1, EndsTyped, RowsSame DEF Sources!AddFeed, Sources!serverVars
  <2>2. CASE /\ issued < MaxFeed /\ Sources!Insert(call[k].url, TRUE)
             /\ Sources!Becomes(k, [call[k] EXCEPT !.at = "subscribing", !.id = issued + 1])
    <3>1. r.kind = "add"
      BY <1>1, <1>5 DEF Sources!AddFeed, FeedsInv, AskedOK
    <3>2. PICK own \in BOOLEAN, url \in Url, at \in Stages : own = TRUE /\ url = r.url /\ at = "subscribing"
      BY <1>2, <3>1 DEF Stages
    <3>3. RowsTyped' /\ issued + 1 \in Sources!FeedIds
      BY <1>1, <1>5, <2>2, <3>2, InsertTyped DEF Sources!AddFeed
    <3>4. [r EXCEPT !.at = at, !.id = issued + 1] \in Requested
      BY <3>3, MoveTyped
    <3> QED  BY <1>1, <2>2, <3>2, <3>3, <3>4, BecomesTyped
  <2> QED  BY <1>5, <2>1, <2>2 DEF Sources!AddFeed
<1>6. CASE Sources!Subscribe(k)
  BY <1>6, EndsTyped DEF Sources!Subscribe, RowsTyped
<1>7. CASE Sources!Unsubscribe(k)
  BY <1>7, EndsTyped DEF Sources!Unsubscribe, RowsTyped
<1>8. CASE Sources!AddGlobalFeed(k)
  <2>1. CASE Sources!Finish(k, "duplicate") /\ UNCHANGED <<feeds, issued>>
    BY <1>8, <2>1, EndsTyped, RowsSame DEF Sources!AddGlobalFeed, Sources!serverVars
  <2>2. CASE issued < MaxFeed /\ Sources!Insert(call[k].url, FALSE) /\ Sources!Finish(k, "ok")
    <3>1. PICK own \in BOOLEAN, url \in Url : own = FALSE /\ url = r.url
      BY <1>1, <1>2, <1>8 DEF Sources!AddGlobalFeed
    <3> QED  BY <1>1, <1>8, <2>2, <3>1, InsertTyped, EndsTyped DEF Sources!AddGlobalFeed
  <2> QED  BY <1>8, <2>1, <2>2 DEF Sources!AddGlobalFeed
<1>9. CASE Sources!UpdateFeed(k)
  <2>1. CallsTyped'
    BY <1>9, EndsTyped DEF Sources!UpdateFeed
  <2>2. CASE feeds' = [feeds EXCEPT ![call[k].id].setting = call[k].setting]
    <3>0. PICK f : f = call[k].id
      OBVIOUS
    <3>1. PICK s \in Setting : s = call[k].setting
      BY <1>1, <1>2
    <3>2. feeds' \in [DOMAIN feeds -> FeedRecord] /\ DOMAIN feeds' = DOMAIN feeds
      <4>1. \A n \in FeedRecord : [n EXCEPT !.setting = s] \in FeedRecord
        BY DEF FeedRecord
      <4>2. feeds' = [feeds EXCEPT ![f] = [@ EXCEPT !.setting = s]]
        BY <2>2, <3>0, <3>1
      <4> QED  BY <4>1, <4>2 DEF RowsTyped
    <3> QED  BY <1>9, <2>1, <3>2 DEF RowsTyped, Sources!UpdateFeed
  <2> QED  BY <1>9, <2>1, <2>2 DEF RowsTyped, Sources!UpdateFeed
<1>10. CASE Sources!DeleteFeed(k)
  <2>1. CallsTyped'
    BY <1>10, EndsTyped DEF Sources!DeleteFeed
  <2>2. PICK f : f = call[k].id
    OBVIOUS
  <2> QED  BY <1>10, <2>1, <2>2, WithoutTyped, RowsSame DEF Sources!DeleteFeed, Sources!serverVars
<1> QED  BY <1>3, <1>4, <1>5, <1>6, <1>7, <1>8, <1>9, <1>10

LEMMA ServerTyped ==
  ASSUME SourcesTypes, FeedsInv, Sources!SourcesServer
  PROVE  SourcesTypes'
<1>1. RowsTyped /\ CallsTyped /\ ListsTyped(feedLists) /\ sourcesPage \in SourcesPlace
  BY DEF SourcesTypes
<1>2. CASE Sources!Serve
  <2>1. RowsTyped' /\ CallsTyped'
    BY <1>1, <1>2, ServeTyped DEF Sources!Serve
  <2>2. UNCHANGED <<feedLists, sourcesPage>>
    BY <1>2 DEF Sources!Serve
  <2> QED  BY <1>1, <2>1, <2>2 DEF SourcesTypes
<1>3. CASE Sources!OtherAdministrator
  <2>1. UNCHANGED <<call, sourcesPage>> /\ feedLists' = Sources!OverlookQueries(feedLists)
    BY <1>3 DEF Sources!OtherAdministrator
  <2>2. ListsTyped(feedLists')
    BY <1>1, <2>1, OverlookTyped
  <2>3. ASSUME issued < MaxFeed, NEW url \in Url, Sources!Insert(url, FALSE), UNCHANGED subscribed
        PROVE  RowsTyped'
    <3>1. PICK own \in BOOLEAN : own = FALSE
      OBVIOUS
    <3> QED  BY <1>1, <2>3, <3>1, InsertTyped
  <2>4. ASSUME NEW f, Sources!Without(f), UNCHANGED issued
        PROVE  RowsTyped'
    BY <1>1, <2>4, WithoutTyped
  <2>5. \/ issued < MaxFeed /\ (\E url \in Url : Sources!Insert(url, FALSE)) /\ UNCHANGED subscribed
        \/ (\E f \in Sources!Catalog : Sources!Without(f)) /\ UNCHANGED issued
    BY <1>3 DEF Sources!OtherAdministrator
  <2>6. RowsTyped'
    BY <2>3, <2>4, <2>5
  <2> QED  BY <1>1, <2>1, <2>2, <2>6 DEF SourcesTypes, CallsTyped
<1>4. ASSUME NEW k \in Call, Sources!Unserved(k) \/ Sources!Lost(k)
      PROVE  SourcesTypes'
  <2>1. /\ Sources!Finish(k, "failed") /\ UNCHANGED Sources!serverVars /\ UNCHANGED sourcesPage
        /\ feedLists' \in {feedLists, Sources!OverlookQueries(feedLists)}
    BY <1>4 DEF Sources!Unserved, Sources!Lost
  <2>2. CallsTyped' /\ RowsTyped'
    BY <1>1, <2>1, EndsTyped, RowsSame
  <2>3. ListsTyped(feedLists')
    BY <1>1, <2>1, OverlookTyped
  <2> QED  BY <1>1, <2>1, <2>2, <2>3 DEF SourcesTypes
<1> QED  BY <1>2, <1>3, <1>4 DEF Sources!SourcesServer

-----------------------------------------------------------------------------
(* Typed pages.                                                            *)

LEMMA PlaceTyped ==
  ASSUME NEW p \in SourcesPlace
  PROVE  /\ \A dialog \in {"closed", "open", "saving", "failed"} :
              /\ [p EXCEPT !.add = dialog] \in SourcesPlace /\ [p EXCEPT !.edit = dialog] \in SourcesPlace
              /\ \A f \in Sources!FeedIds \union {0} : [p EXCEPT !.edit = dialog, !.editing = f] \in SourcesPlace
         /\ \A f \in Sources!FeedIds \union {0} : [p EXCEPT !.deleting = f] \in SourcesPlace
BY DEF SourcesPlace

LEMMA OpenTyped == \A at \in {"sources", "admin"} : Sources!Fresh(at) \in SourcesPlace
BY DEF Sources!Fresh, SourcesPlace

LEMMA BackTyped ==
  ASSUME NEW r \in Requested, NEW back \in Seq(FeedPage), NEW alone \in BOOLEAN
  PROVE  [r EXCEPT !.back = back, !.alone = alone] \in Requested
BY DEF Requested, CallRecord

LEMMA OnScreen ==
  ASSUME SourcesTypes, FeedsInv, NEW row, row \in Sources!SourcesRoute \/ row \in Sources!Managed
  PROVE  row.id \in Sources!FeedIds /\ row.subscribed \in BOOLEAN
<1>1. Sources!FeedsKey \in Sources!Keys /\ Sources!AdminKey \in Sources!Keys
  BY DEF Sources!Keys
<1>2. row \in Sources!RowsOf(Sources!FeedsKey) \/ row \in Sources!RowsOf(Sources!AdminKey)
  BY DEF Sources!Managed, Sources!Listed, Sources!SourcesRoute, Sources!AdminSourcesRoute
<1>3. row \in Sources!FeedRow
  BY <1>1, <1>2, RowsOfTyped DEF SourcesTypes
<1> QED  BY <1>3 DEF Sources!FeedRow

LEMMA BoxTyped ==
  ASSUME SourcesTypes, FeedsInv, NEW row \in Sources!SourcesRoute, Sources!SourceRow(row)
  PROVE  SourcesTypes'
<1>1. RowsTyped /\ CallsTyped /\ ListsTyped(feedLists) /\ sourcesPage \in SourcesPlace
  BY DEF SourcesTypes
<1>2. PICK f \in Sources!FeedIds, on \in BOOLEAN : f = row.id /\ on = ~row.subscribed
  BY OnScreen
<1>3. FeedsKey \in Sources!Keys
  BY TwoKeys
<1>4. PICK rows : rows = Sources!RowsOf(FeedsKey)
  OBVIOUS
<1>5. rows \subseteq Sources!FeedRow
  BY <1>1, <1>3, <1>4, RowsOfTyped
<1>6. PICK patched : patched = Sources!Toggled(rows, f, on)
  OBVIOUS
<1>7. patched \subseteq Sources!FeedRow
  <2>1. \A r \in Sources!FeedRow : [r EXCEPT !.subscribed = on] \in Sources!FeedRow
    BY DEF Sources!FeedRow
  <2>2. patched = {IF r.id = f THEN [r EXCEPT !.subscribed = on] ELSE r : r \in rows}
    BY <1>6 DEF Sources!Toggled
  <2> QED  BY <1>5, <2>1, <2>2
<1>8. PICK pages \in Seq(FeedPage) : pages = <<Sources!Single(patched)>>
  BY <1>7, PageOfRows
<1>9. PICK c : c = Sources!CancelQueries(feedLists, FeedsKey)
  OBVIOUS
<1>10. ListsTyped(c)
  BY <1>1, <1>9, CancelTyped
<1>11. feedLists' = Sources!SetQueryData(c, FeedsKey, pages)
  BY <1>2, <1>4, <1>6, <1>8, <1>9 DEF Sources!SourceRow, Sources!PatchList, FeedsKey
<1>12. ListsTyped(feedLists')
  BY <1>3, <1>10, <1>11, SetTyped
<1>13. PICK back \in Seq(FeedPage), alone \in BOOLEAN :
         back = feedLists[FeedsKey].data /\ alone = (Sources!Pending = {})
  BY <1>1, <1>3, EntryFields DEF ListsTyped
<1>14. PICK r \in Requested :
         r = IF row.subscribed THEN Sources!unsubscribeFeed(row.id) ELSE Sources!subscribeFeed(row.id)
  BY <1>2, RequestTyped
<1>15. PICK new \in Requested : new = [r EXCEPT !.back = back, !.alone = alone]
  BY BackTyped
<1>16. Sources!Send(new)
  BY <1>13, <1>14, <1>15 DEF Sources!SourceRow, FeedsKey
<1>17. CallsTyped'
  BY <1>1, <1>16, SendTyped
<1>18. UNCHANGED Sources!serverVars /\ UNCHANGED sourcesPage
  BY DEF Sources!SourceRow
<1> QED  BY <1>1, <1>12, <1>17, <1>18, RowsSame DEF SourcesTypes

LEMMA UserTyped ==
  ASSUME SourcesTypes, FeedsInv, Sources!SourcesUser
  PROVE  SourcesTypes'
<1>1. RowsTyped /\ CallsTyped /\ ListsTyped(feedLists) /\ sourcesPage \in SourcesPlace
  BY DEF SourcesTypes
<1>2. RowsTyped'
  BY <1>1, RowsSame
  DEF Sources!SourcesUser, Sources!OpenPage, Sources!SourceRow, Sources!OpenEdit,
      Sources!AskDelete, Sources!OpenAdd, Sources!AddFeedDialog, Sources!AddFeedForm,
      Sources!EditFeedDialog, Sources!EditFeedForm, Sources!DeleteFeedConfirm
<1>3. ASSUME CallsTyped', sourcesPage' \in SourcesPlace, UNCHANGED feedLists
      PROVE  SourcesTypes'
  BY <1>1, <1>2, <1>3 DEF SourcesTypes
<1>4. UNCHANGED call => CallsTyped'
  BY <1>1 DEF CallsTyped
<1>5. PICK none \in Sources!FeedIds \union {0} : none = 0
  OBVIOUS
<1>6. CASE \E at \in {"sources", "admin"} : Sources!OpenPage(at)
  <2>1. PICK at \in {"sources", "admin"} : Sources!OpenPage(at)
    BY <1>6
  <2>2. sourcesPage' \in SourcesPlace
    BY <2>1, OpenTyped DEF Sources!OpenPage
  <2>3. PICK shown, expired :
          feedLists' = Sources!MountQueries(feedLists, shown, expired) /\ call' = Sources!Unheard(expired)
    BY <2>1 DEF Sources!OpenPage
  <2>4. ListsTyped(feedLists')
    BY <1>1, <2>3, MountTyped
  <2>5. CallsTyped'
    BY <1>1, <2>3, UnheardTyped
  <2> QED  BY <1>2, <2>2, <2>4, <2>5 DEF SourcesTypes
<1>7. CASE \E row \in Sources!SourcesRoute : Sources!SourceRow(row)
  BY <1>7, BoxTyped
<1>8. CASE \E row \in Sources!Managed : Sources!OpenEdit(row) \/ Sources!AskDelete(row)
  <2>1. PICK row \in Sources!Managed : Sources!OpenEdit(row) \/ Sources!AskDelete(row)
    BY <1>8
  <2>2. PICK f \in Sources!FeedIds \union {0} : f = row.id
    BY OnScreen
  <2>3. UNCHANGED <<call, feedLists>>
    BY <2>1 DEF Sources!OpenEdit, Sources!AskDelete
  <2>4. \/ sourcesPage' = [sourcesPage EXCEPT !.edit = "open", !.editing = f]
        \/ sourcesPage' = [sourcesPage EXCEPT !.deleting = f]
    BY <2>1, <2>2 DEF Sources!OpenEdit, Sources!AskDelete
  <2>5. PICK p \in SourcesPlace, dialog \in {"closed", "open", "saving", "failed"} :
          p = sourcesPage /\ dialog = "open"
    BY <1>1
  <2>6. [p EXCEPT !.edit = dialog, !.editing = f] \in SourcesPlace /\ [p EXCEPT !.deleting = f] \in SourcesPlace
    BY PlaceTyped
  <2>7. sourcesPage' \in SourcesPlace
    BY <2>4, <2>5, <2>6
  <2> QED  BY <1>3, <1>4, <2>3, <2>7
<1>9. ASSUME NEW kind, call' = Sources!FormGone(kind) PROVE CallsTyped'
  <2>1. PICK heard \in {"no", "page", "form"} : heard = "page"
    OBVIOUS
  <2>2. call' = [k \in Call |-> IF call[k].kind = kind /\ call[k].heard = "form"
                                THEN [call[k] EXCEPT !.heard = heard] ELSE call[k]]
    BY <1>9, <2>1 DEF Sources!FormGone
  <2> QED  BY <1>1, <2>2, HeardTyped
<1>10. ASSUME NEW new \in Requested, NEW heard \in {"no", "page", "form"},
              Sources!Send([new EXCEPT !.heard = heard])
       PROVE  CallsTyped'
  <2>1. PICK o \in Requested : o = [new EXCEPT !.heard = heard]
    BY MarkTyped
  <2> QED  BY <1>1, <1>10, <2>1, SendTyped
<1>11. CASE Sources!OpenAdd
  BY <1>1, <1>3, <1>4, <1>11, PlaceTyped DEF Sources!OpenAdd
<1>12. CASE Sources!AddFeedDialog
  BY <1>1, <1>3, <1>9, <1>12, PlaceTyped DEF Sources!AddFeedDialog
<1>13. CASE \E url \in Url : Sources!AddFeedForm(url)
  <2>1. PICK url \in Url : Sources!AddFeedForm(url)
    BY <1>13
  <2>2. PICK new \in Requested, heard \in {"no", "page", "form"} : new = Sources!addFeed(url) /\ heard = "form"
    BY RequestTyped
  <2>3. CallsTyped'
    BY <1>10, <2>1, <2>2 DEF Sources!AddFeedForm
  <2>4. sourcesPage' \in SourcesPlace
    BY <1>1, <2>1, PlaceTyped DEF Sources!AddFeedForm
  <2> QED  BY <1>3, <2>1, <2>3, <2>4 DEF Sources!AddFeedForm
<1>14. CASE Sources!EditFeedDialog
  <2>1. sourcesPage' = [sourcesPage EXCEPT !.edit = "closed", !.editing = none]
    BY <1>5, <1>14 DEF Sources!EditFeedDialog
  <2>2. sourcesPage' \in SourcesPlace
    BY <1>1, <2>1, PlaceTyped
  <2> QED  BY <1>3, <1>9, <1>14, <2>2 DEF Sources!EditFeedDialog
<1>15. CASE \E setting \in Setting : Sources!EditFeedForm(setting)
  <2>1. PICK setting \in Setting : Sources!EditFeedForm(setting)
    BY <1>15
  <2>2. sourcesPage.editing \in Sources!FeedIds \union {0}
    BY <1>1 DEF SourcesPlace
  <2>3. PICK new \in Requested, heard \in {"no", "page", "form"} :
          new = Sources!updateFeed(sourcesPage.editing, setting) /\ heard = "form"
    BY <2>2, RequestTyped
  <2>4. CallsTyped'
    BY <1>10, <2>1, <2>3 DEF Sources!EditFeedForm
  <2>5. sourcesPage' \in SourcesPlace
    BY <1>1, <2>1, PlaceTyped DEF Sources!EditFeedForm
  <2> QED  BY <1>3, <2>1, <2>4, <2>5 DEF Sources!EditFeedForm
<1>16. CASE Sources!DeleteFeedConfirm
  <2>1. UNCHANGED feedLists /\ sourcesPage' = [sourcesPage EXCEPT !.deleting = none]
    BY <1>5, <1>16 DEF Sources!DeleteFeedConfirm
  <2>2. sourcesPage' \in SourcesPlace
    BY <1>1, <2>1, PlaceTyped
  <2>3. CASE Sources!Send([Sources!deleteFeed(sourcesPage.deleting) EXCEPT !.heard = "page"])
    <3>1. sourcesPage.deleting \in Sources!FeedIds \union {0}
      BY <1>1 DEF SourcesPlace
    <3>2. PICK new \in Requested, heard \in {"no", "page", "form"} :
            new = Sources!deleteFeed(sourcesPage.deleting) /\ heard = "page"
      BY <3>1, RequestTyped
    <3> QED  BY <1>3, <1>10, <2>1, <2>2, <2>3, <3>2
  <2> QED  BY <1>3, <1>4, <1>16, <2>1, <2>2, <2>3 DEF Sources!DeleteFeedConfirm
<1> QED  BY <1>6, <1>7, <1>8, <1>11, <1>12, <1>13, <1>14, <1>15, <1>16 DEF Sources!SourcesUser

LEMMA FetchedTyped ==
  ASSUME SourcesTypes, NEW k \in Sources!Keys, Sources!Read(k) \/ Sources!Arrive(k)
  PROVE  SourcesTypes'
<1>1. RowsTyped /\ CallsTyped /\ ListsTyped(feedLists) /\ sourcesPage \in SourcesPlace
  BY DEF SourcesTypes
<1>2. PICK e \in Entries(FeedPage) : e = feedLists[k] /\ Fetching(e)
  BY <1>1, SameEntries DEF ListsTyped, Sources!Read, Sources!Arrive
<1>3. PICK rows : rows = Sources!ListFeeds(k)
  OBVIOUS
<1>4. Sources!Single(rows) \in FeedPage
  BY <1>1, <1>3, ListTyped, PageOfRows
<1>5. PICK err \in Errors : err = "failed"
  BY DEF Errors
<1>6. /\ Sources!Answer(e, Sources!Single(rows)) \in Entries(FeedPage)
      /\ Sources!Refuse(e, err) \in Entries(FeedPage) /\ Sources!Land(e) \in Entries(FeedPage)
  BY <1>2, <1>4, AnswerEntry, RefuseEntry, LandEntry, SameChanges
<1>7. \/ feedLists' = [feedLists EXCEPT ![k] = Sources!Answer(e, Sources!Single(rows))]
      \/ feedLists' = [feedLists EXCEPT ![k] = Sources!Refuse(e, err)]
      \/ feedLists' = [feedLists EXCEPT ![k] = Sources!Land(e)]
  BY <1>1, <1>2, <1>3, <1>5 DEF Sources!Read, Sources!Arrive, ListsTyped
<1>8. ListsTyped(feedLists')
  BY <1>1, <1>6, <1>7, OneTyped
<1>9. UNCHANGED Sources!serverVars /\ UNCHANGED <<call, sourcesPage>>
  BY DEF Sources!Read, Sources!Arrive
<1> QED  BY <1>1, <1>8, <1>9, RowsSame DEF SourcesTypes, CallsTyped

LEMMA SettledTyped ==
  ASSUME SourcesTypes, NEW k \in Call,
         \/ Sources!useToggleSubscription(k) \/ Sources!useAddFeed(k)
         \/ Sources!useUpdateFeed(k) \/ Sources!useDeleteFeed(k)
  PROVE  SourcesTypes'
<1>1. RowsTyped /\ CallsTyped /\ ListsTyped(feedLists) /\ sourcesPage \in SourcesPlace
  BY DEF SourcesTypes
<1>2. Sources!Done(k) /\ UNCHANGED Sources!serverVars
  BY DEF Sources!useToggleSubscription, Sources!useAddFeed, Sources!useUpdateFeed, Sources!useDeleteFeed
<1>3. CallsTyped' /\ RowsTyped'
  BY <1>1, <1>2, NoCallTyped, CrowdedTyped, RowsSame DEF Sources!Done
<1>4. PICK none \in Sources!FeedIds \union {0} : none = 0
  OBVIOUS
<1>5. ListsTyped(Sources!Refreshed(k))
  BY <1>1, InvalidateTyped DEF Sources!Refreshed, Sources!Refresh, Sources!Both
<1>6. CASE Sources!useToggleSubscription(k)
  <2>1. PICK back \in Seq(FeedPage) : back = call[k].back
    BY <1>1 DEF CallsTyped, Requested, CallRecord
  <2>2. PICK c : c = IF Sources!Succeeded(k) THEN feedLists
                     ELSE Sources!SetQueryData(feedLists, Sources!FeedsKey, back)
    OBVIOUS
  <2>3. ListsTyped(c)
    BY <1>1, <2>2, SetTyped DEF Sources!Keys
  <2>4. feedLists' = Sources!InvalidateQueries(c, Sources!FeedsKey, Sources!Active) /\ UNCHANGED sourcesPage
    BY <1>6, <2>1, <2>2 DEF Sources!useToggleSubscription
  <2>5. ListsTyped(feedLists')
    BY <2>3, <2>4, InvalidateTyped
  <2> QED  BY <1>1, <1>3, <2>4, <2>5 DEF SourcesTypes
<1>7. CASE Sources!useAddFeed(k)
  <2>1. sourcesPage' \in {sourcesPage, [sourcesPage EXCEPT !.add = "closed"], [sourcesPage EXCEPT !.add = "failed"]}
    BY <1>7 DEF Sources!useAddFeed
  <2>2. sourcesPage' \in SourcesPlace
    BY <1>1, <2>1, PlaceTyped
  <2> QED  BY <1>3, <1>5, <1>7, <2>2 DEF SourcesTypes, Sources!useAddFeed
<1>8. CASE Sources!useUpdateFeed(k)
  <2>1. sourcesPage' \in {sourcesPage, [sourcesPage EXCEPT !.edit = "closed", !.editing = none],
                          [sourcesPage EXCEPT !.edit = "failed"]}
    BY <1>4, <1>8 DEF Sources!useUpdateFeed
  <2>2. PICK p \in SourcesPlace, shut \in {"closed", "open", "saving", "failed"},
             failed \in {"closed", "open", "saving", "failed"} :
          p = sourcesPage /\ shut = "closed" /\ failed = "failed"
    BY <1>1
  <2>3. [p EXCEPT !.edit = shut, !.editing = none] \in SourcesPlace /\ [p EXCEPT !.edit = failed] \in SourcesPlace
    BY PlaceTyped
  <2>4. sourcesPage' \in SourcesPlace
    BY <2>1, <2>2, <2>3
  <2> QED  BY <1>3, <1>5, <1>8, <2>4 DEF SourcesTypes, Sources!useUpdateFeed
<1>9. CASE Sources!useDeleteFeed(k)
  <2>1. sourcesPage' \in {sourcesPage, [sourcesPage EXCEPT !.deleting = none]}
    BY <1>4, <1>9 DEF Sources!useDeleteFeed
  <2>2. sourcesPage' \in SourcesPlace
    BY <1>1, <2>1, PlaceTyped
  <2> QED  BY <1>3, <1>5, <1>9, <2>2 DEF SourcesTypes, Sources!useDeleteFeed
<1> QED  BY <1>6, <1>7, <1>8, <1>9

LEMMA InitTyped ==
  ASSUME WebInit
  PROVE  SourcesTypes
<1>1. Sources!Init
  BY DEF WebInit
<1>2. RowsTyped
  <2>1. issued \in Nat /\ issued \in 0..MaxFeed /\ 1 \in 1..issued
    BY <1>1, RadarSourcesAssumption DEF Sources!Init
  <2>2. \A url \in Url, own \in BOOLEAN : [url |-> url, own |-> own, setting |-> NewSetting] \in FeedRecord
    BY RadarSourcesAssumption DEF FeedRecord
  <2>3. feeds = [f \in 1..issued |->
          [url |-> IF f = 1 THEN Shared ELSE Before, own |-> f # 1, setting |-> NewSetting]]
    BY <1>1 DEF Sources!Init
  <2>4. \A f \in 1..issued : feeds[f] \in FeedRecord
    BY <2>2, <2>3, RadarSourcesAssumption
  <2>5. DOMAIN feeds = 1..issued /\ feeds \in [1..issued -> FeedRecord]
    BY <2>3, <2>4
  <2>6. subscribed = {1}
    BY <1>1 DEF Sources!Init
  <2> QED  BY <2>1, <2>5, <2>6 DEF RowsTyped
<1>3. CallsTyped
  BY <1>1, NoCallTyped DEF Sources!Init, CallsTyped
<1>4. sourcesPage \in SourcesPlace
  BY <1>1, OpenTyped DEF Sources!Init
<1>5. ListsTyped(feedLists)
  <2>1. PICK c : c = [k \in Sources!Keys |-> Sources!Empty]
    OBVIOUS
  <2>2. ListsTyped(c)
    BY <2>1, SameEntries, EmptyEntry DEF ListsTyped
  <2>3. PICK shown, expired : feedLists = Sources!MountQueries(c, shown, expired)
    BY <1>1, <2>1 DEF Sources!Init
  <2> QED  BY <2>2, <2>3, MountTyped
<1> QED  BY <1>2, <1>3, <1>4, <1>5 DEF SourcesTypes

LEMMA StepTyped ==
  ASSUME SourcesTypes, FeedsInv, [WebNext]_webVars
  PROVE  SourcesTypes'
<1>1. CASE InTopics \/ UNCHANGED webVars
  <2>1. UNCHANGED sourcesVars
    BY <1>1 DEF InTopics, webVars
  <2> QED  BY <2>1 DEF sourcesVars, SourcesTypes, RowsTyped, CallsTyped
<1>2. CASE Sources!SourcesClient
  BY <1>2, FetchedTyped, SettledTyped DEF Sources!SourcesClient
<1>3. CASE Sources!SourcesUser \/ Sources!SourcesServer
  BY <1>3, UserTyped, ServerTyped
<1> QED  BY <1>1, <1>2, <1>3 DEF WebNext

\* In either part of the radar, rows, requests, cached queries, pages and dialogs
\* keep the types of types.ts and store.go: no row is numbered beyond the last id
\* given, and nobody is subscribed to a feed without a row.
THEOREM WebTypes == WebSpec => []WebTypeOK
<1>1. WebInit => FeedsInv /\ SourcesTypes /\ QuotaInv
  BY InitInv, InitCurrent, InitTyped
<1>2. QuotaInv /\ FeedsInv /\ SourcesTypes /\ [WebNext]_webVars => (QuotaInv /\ FeedsInv /\ SourcesTypes)'
  BY StepInv, StepCurrent, StepTyped
<1>3. SourcesTypes /\ TopicsTypeOK => WebTypeOK
  BY TypesAreTypes DEF WebTypeOK
<1>4. WebSpec => []TopicsTypeOK
  BY TopicsTypes
<1> QED  BY <1>1, <1>2, <1>3, <1>4, PTL DEF WebSpec
=============================================================================
