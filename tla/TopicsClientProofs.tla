------------------------- MODULE TopicsClientProofs -------------------------
(***************************************************************************)
(* Topics and matches.  The embeddings that the radar service keeps for any *)
(* number of requests under way: each is made of a text that was read       *)
(* before.  And the cache of one tab: once no request is under way, what it *)
(* takes for fresh is what the service holds.                              *)
(***************************************************************************)
EXTENDS RadarWeb, QueryCacheProofs

-----------------------------------------------------------------------------
(* The embeddings of topics.                                               *)

\* A record with the fields of a request, whatever their values.
IsOp(r) ==
  r \in [kind : {r.kind}, id : {r.id}, patch : {r.patch}, text : {r.text}, at : {r.at},
         result : {r.result}, heard : {r.heard}, back : {r.back}]
IsTopic(r) ==
  r \in [name : Name, description : Description, isActive : {r.isActive}, embedding : {r.embedding}]
PatchOK(patch) ==
  /\ "name" \in DOMAIN patch => patch.name \in Name
  /\ "description" \in DOMAIN patch => patch.description \in Description
  /\ "embedding" \notin DOMAIN patch
\* What a request that has not been served asks for.
Asks(r) ==
  r.at = "sent" => /\ r.kind = "create" => r.patch \in Text
                   /\ r.kind = "update" => PatchOK(r.patch)

OpsOK ==
  /\ request = [k \in TopicOp |-> request[k]]
  /\ \A k \in TopicOp : IsOp(request[k]) /\ Asks(request[k])
TopicsOK ==
  /\ created \in Nat /\ DOMAIN topics \subseteq 1..created
  /\ topics = [t \in DOMAIN topics |-> topics[t]]
  /\ \A t \in DOMAIN topics : IsTopic(topics[t])

\* Texts are of topics there have been.
TextsOK ==
  /\ \A k \in TopicOp : request[k].at = "embedding" => request[k].id \in 1..created /\ request[k].text \in Text
  /\ reembed = [t \in DOMAIN reembed |-> reembed[t]]
  /\ DOMAIN reembed \subseteq 1..created /\ \A t \in DOMAIN reembed : reembed[t] \in Text

\* Whoever is about to write the embedding of a topic that is not torn has its
\* present description; if nobody is, the topic has that embedding already, also
\* while reembed-topics has yet to come to it.
Intact(t) ==
  /\ \A k \in Writers(t) : request[k].text.description = topics[t].description
  /\ t \in DOMAIN reembed => reembed[t].description = topics[t].description
  /\ Writers(t) = {} =>
       topics[t].embedding \in Text /\ topics[t].embedding.description = topics[t].description

EmbedInv ==
  /\ OpsOK /\ TopicsOK /\ TextsOK
  /\ \A t \in DOMAIN topics : t \notin torn => Intact(t)

LEMMA EmbedInvMeans == EmbedInv => EmbeddingCurrent
BY TopicsAssumption DEF EmbedInv, Intact, EmbeddingCurrent, Text

-----------------------------------------------------------------------------
(* Steps that write no text.                                               *)

\* The same requests are about to write the same texts.
SameWrites ==
  \A k \in TopicOp :
    /\ request'[k].at = "embedding" <=> request[k].at = "embedding"
    /\ request'[k].at = "embedding" => request'[k].id = request[k].id /\ request'[k].text = request[k].text
SameTexts ==
  \A t \in DOMAIN topics' :
    /\ t \in DOMAIN topics
    /\ topics'[t].description = topics[t].description
    /\ topics'[t].embedding = topics[t].embedding

LEMMA WritesStay ==
  ASSUME SameWrites, NEW t
  PROVE  Writers(t)' = Writers(t)
BY DEF SameWrites, Writers

LEMMA TextsStay ==
  ASSUME EmbedInv, OpsOK', TopicsOK', SameWrites, SameTexts, UNCHANGED created,
         reembed' = reembed \/ reembed' = <<>>, torn \subseteq torn'
  PROVE  EmbedInv'
<1>1. /\ DOMAIN reembed' \subseteq DOMAIN reembed
      /\ \A t \in DOMAIN reembed' : reembed'[t] = reembed[t]
      /\ reembed' = [t \in DOMAIN reembed' |-> reembed'[t]]
  <2>1. CASE reembed' = <<>>
    BY <2>1
  <2>2. CASE reembed' = reembed
    BY <2>2 DEF EmbedInv, TextsOK
  <2> QED  BY <2>1, <2>2
<1>2. TextsOK'
  BY <1>1 DEF EmbedInv, TextsOK, SameWrites
<1>3. ASSUME NEW t \in DOMAIN topics', t \notin torn'
      PROVE  Intact(t)'
  <2>1. Intact(t) /\ t \in DOMAIN topics
    BY <1>3 DEF EmbedInv, SameTexts
  <2>2. Writers(t)' = Writers(t) /\ \A k \in Writers(t) : request'[k].text = request[k].text
    BY WritesStay DEF SameWrites, Writers
  <2> QED  BY <1>1, <2>1, <2>2 DEF Intact, SameTexts
<1> QED  BY <1>2, <1>3 DEF EmbedInv

LEMMA RequestsMove ==
  ASSUME EmbedInv, OpsOK', SameWrites, UNCHANGED <<topics, created, reembed, torn>>
  PROVE  EmbedInv'
<1>1. TopicsOK' /\ SameTexts
  BY DEF EmbedInv, TopicsOK, SameTexts
<1> QED  BY <1>1, TextsStay

\* One request that neither was nor is about to write.
LEMMA OneOp ==
  ASSUME OpsOK, NEW k \in TopicOp, NEW o, IsOp(o), Asks(o), request[k].at # "embedding",
         o.at # "embedding", request' = [request EXCEPT ![k] = o]
  PROVE  OpsOK' /\ SameWrites
<1>1. request' = [n \in TopicOp |-> IF n = k THEN o ELSE request[n]]
  BY DEF OpsOK
<1> QED  BY <1>1 DEF OpsOK, SameWrites

LEMMA NothingAsked == IsOp(NoOp) /\ Asks(NoOp) /\ NoOp.at = "idle"
BY DEF IsOp, Asks, NoOp

LEMMA FinishIs ==
  ASSUME OpsOK, NEW k \in TopicOp, NEW result, Finish(k, result)
  PROVE  \E o : IsOp(o) /\ Asks(o) /\ o.at = "answered" /\ request' = [request EXCEPT ![k] = o]
<1>1. PICK o : o = [request[k] EXCEPT !.at = "answered", !.result = result, !.text = NoText]
  OBVIOUS
<1>2. IsOp(o) /\ o.at = "answered"
  BY <1>1 DEF IsOp, OpsOK
<1>3. request' = [request EXCEPT ![k] = o]
  BY <1>1 DEF Finish, Becomes
<1> QED  BY <1>2, <1>3 DEF Asks

LEMMA Finished ==
  ASSUME OpsOK, NEW k \in TopicOp, request[k].at # "embedding", NEW result, Finish(k, result)
  PROVE  OpsOK' /\ SameWrites
<1>1. PICK o : IsOp(o) /\ Asks(o) /\ o.at = "answered" /\ request' = [request EXCEPT ![k] = o]
  BY FinishIs
<1> QED  BY <1>1, OneOp

\* The text of a request goes as it ends.
LEMMA WriterEnds ==
  ASSUME OpsOK, NEW k \in TopicOp, NEW result, Finish(k, result)
  PROVE  /\ OpsOK'
         /\ request'[k].at = "answered"
         /\ \A n \in TopicOp \ {k} : request'[n] = request[n]
         /\ \A t : Writers(t)' = Writers(t) \ {k}
<1>1. PICK o : IsOp(o) /\ Asks(o) /\ o.at = "answered" /\ request' = [request EXCEPT ![k] = o]
  BY FinishIs
<1>2. request' = [n \in TopicOp |-> IF n = k THEN o ELSE request[n]]
  BY <1>1 DEF OpsOK
<1> QED  BY <1>1, <1>2 DEF OpsOK, Writers

-----------------------------------------------------------------------------
(* The steps that write.                                                   *)

\* One row with another embedding, or one row with what a patch names.
LEMMA Embedded ==
  ASSUME TopicsOK, NEW t \in DOMAIN topics, NEW text, topics' = [topics EXCEPT ![t].embedding = text],
         UNCHANGED created
  PROVE  /\ TopicsOK' /\ DOMAIN topics' = DOMAIN topics /\ topics'[t].embedding = text
         /\ \A u \in DOMAIN topics :
              /\ topics'[u].description = topics[u].description
              /\ u # t => topics'[u] = topics[u]
<1>1. PICK o : o = [topics[t] EXCEPT !.embedding = text]
  OBVIOUS
<1>2. IsTopic(o) /\ o.embedding = text /\ o.description = topics[t].description
  BY <1>1 DEF TopicsOK, IsTopic
<1>3. topics' = [u \in DOMAIN topics |-> IF u = t THEN o ELSE topics[u]]
  BY <1>1 DEF TopicsOK
<1> QED  BY <1>2, <1>3 DEF TopicsOK

LEMMA PatchedIs ==
  ASSUME NEW row, IsTopic(row), NEW patch, PatchOK(patch)
  PROVE  LET new == Patched(row, patch) IN
         /\ DOMAIN row = {"name", "description", "isActive", "embedding"}
         /\ new.name \in Name /\ new.description \in Description
         /\ new = [name |-> new.name, description |-> new.description,
                   isActive |-> new.isActive, embedding |-> new.embedding]
         /\ ~Reembeds(patch) => new.description = row.description
         /\ new.embedding = row.embedding
<1>1. row = [name |-> row.name, description |-> row.description, isActive |-> row.isActive,
             embedding |-> row.embedding] /\ row.name \in Name /\ row.description \in Description
  BY DEF IsTopic
<1>2. DOMAIN row = {"name", "description", "isActive", "embedding"}
  BY <1>1
<1>3. PICK new : new = Patched(row, patch)
  OBVIOUS
<1>4. /\ DOMAIN new = {"name", "description", "isActive", "embedding"}
      /\ new = [f \in {"name", "description", "isActive", "embedding"} |-> new[f]]
      /\ \A f \in {"name", "description", "isActive", "embedding"} :
           new[f] = IF f \in DOMAIN patch THEN patch[f] ELSE row[f]
  BY <1>2, <1>3 DEF Patched
<1>5. new = [name |-> new.name, description |-> new.description,
             isActive |-> new.isActive, embedding |-> new.embedding]
  BY <1>4
<1>6. new.name \in Name /\ new.description \in Description
  BY <1>1, <1>4 DEF PatchOK
<1> QED  BY <1>2, <1>3, <1>4, <1>5, <1>6 DEF Reembeds, PatchOK

LEMMA SmallestOf ==
  ASSUME NEW S \in SUBSET Nat, S # {}
  PROVE  (CHOOSE n \in S : \A m \in S : n <= m) \in S
<1>1. PICK n \in S : \A m \in S : ~ (<<m, n>> \in OpToRel(<, Nat))
  BY NatLessThanWellFounded, WFMin
<1>2. \A m \in S : ~ (m < n)
  BY <1>1 DEF OpToRel
<1>3. \A m \in S : n <= m
  BY <1>2
<1> QED  BY <1>3

LEMMA CreateKeeps ==
  ASSUME EmbedInv, NEW k \in TopicOp, CreateTopic(k)
  PROVE  EmbedInv'
<1>0. PICK new : new = created + 1
  OBVIOUS
<1> DEFINE values == request[k].patch
           row == [name |-> values.name, description |-> values.description,
                   isActive |-> TRUE, embedding |-> NoText]
           text == topicEmbedText(values.name, values.description)
<1>1. /\ OpsOK /\ TopicsOK /\ TextsOK /\ IsOp(request[k]) /\ request[k].at = "sent"
      /\ values \in Text /\ created \in Nat
  BY <1>0 DEF EmbedInv, OpsOK, TopicsOK, Asks, CreateTopic
<1>2. text \in Text /\ text.description = row.description /\ IsTopic(row)
  BY <1>1 DEF Text, topicEmbedText, IsTopic
<1>3. PICK o : o = [request[k] EXCEPT !.at = "embedding", !.id = new, !.text = text]
  OBVIOUS
<1>4. IsOp(o) /\ o.at = "embedding" /\ o.id = new /\ o.text = text /\ Asks(o)
  <2>1. IsOp(o) /\ o.at = "embedding" /\ o.id = new /\ o.text = text
    BY <1>1, <1>3 DEF IsOp
  <2> QED  BY <2>1 DEF Asks
<1> HIDE DEF text, row
<1>5. request' = [n \in TopicOp |-> IF n = k THEN o ELSE request[n]]
  BY <1>0, <1>1, <1>3 DEF CreateTopic, Becomes, OpsOK, text
<1>6. /\ topics' = [t \in DOMAIN topics \union {new} |-> IF t \in DOMAIN topics THEN topics[t] ELSE row]
      /\ created' = new /\ UNCHANGED <<reembed, torn>>
  BY <1>0 DEF CreateTopic, row
<1>7. new \notin DOMAIN topics /\ new \notin DOMAIN reembed /\ 1..created \subseteq 1..new
      /\ new \in 1..new /\ new \notin 1..created /\ new \in Nat
  BY <1>0, <1>1 DEF TopicsOK, TextsOK
<1>8. OpsOK'
  BY <1>1, <1>4, <1>5 DEF OpsOK
<1>9. TopicsOK'
  BY <1>1, <1>2, <1>6, <1>7 DEF TopicsOK
<1>10. TextsOK'
  BY <1>1, <1>2, <1>4, <1>5, <1>6, <1>7 DEF TextsOK
<1>11. Writers(new)' = {k}
  BY <1>1, <1>4, <1>5, <1>7 DEF Writers, TextsOK
<1>12. Intact(new)'
  BY <1>2, <1>4, <1>5, <1>6, <1>7, <1>11 DEF Intact
<1>13. ASSUME NEW t \in DOMAIN topics, t \notin torn
       PROVE  Intact(t)'
  <2>1. t # new /\ Intact(t)
    BY <1>7, <1>13 DEF EmbedInv
  <2>2. Writers(t)' = Writers(t) /\ k \notin Writers(t)
    BY <1>1, <1>4, <1>5, <2>1 DEF Writers
  <2> QED  BY <1>5, <1>6, <2>1, <2>2 DEF Intact, Writers
<1> QED  BY <1>6, <1>8, <1>9, <1>10, <1>12, <1>13 DEF EmbedInv

LEMMA UpdateKeeps ==
  ASSUME EmbedInv, NEW k \in TopicOp, UpdateTopic(k)
  PROVE  EmbedInv'
<1>0. PICK t : t = request[k].id
  OBVIOUS
<1> DEFINE patch == request[k].patch
<1>1. /\ OpsOK /\ TopicsOK /\ TextsOK /\ IsOp(request[k]) /\ request[k].at = "sent" /\ PatchOK(patch)
      /\ UNCHANGED <<created, reembed>>
  BY DEF EmbedInv, OpsOK, Asks, UpdateTopic
<1>2. CASE t \notin DOMAIN topics
  <2>1. Finish(k, "notFound") /\ UNCHANGED <<topics, torn>>
    BY <1>0, <1>2 DEF UpdateTopic
  <2> QED  BY <1>1, <2>1, Finished, RequestsMove
<1>3. ASSUME t \in DOMAIN topics
      PROVE  EmbedInv'
  <2>1. topics' = [topics EXCEPT ![t] = Patched(topics[t], patch)] /\ IsTopic(topics[t])
    BY <1>0, <1>1, <1>3 DEF UpdateTopic, TopicsOK
  <2>2. PICK row : row = Patched(topics[t], patch)
    OBVIOUS
  <2>3. topics' = [u \in DOMAIN topics |-> IF u = t THEN row ELSE topics[u]]
    BY <1>1, <2>1, <2>2 DEF TopicsOK
  <2>4. /\ IsTopic(row) /\ row.embedding = topics[t].embedding
        /\ ~Reembeds(patch) => row.description = topics[t].description
    <3>1. /\ row.name \in Name /\ row.description \in Description
          /\ row = [name |-> row.name, description |-> row.description,
                    isActive |-> row.isActive, embedding |-> row.embedding]
          /\ ~Reembeds(patch) => row.description = topics[t].description
          /\ row.embedding = topics[t].embedding
      BY <1>1, <2>1, <2>2, PatchedIs
    <3> QED  BY <3>1 DEF IsTopic
  <2>5. DOMAIN topics' = DOMAIN topics /\ TopicsOK'
    BY <1>1, <2>3, <2>4 DEF TopicsOK
  <2>6. CASE ~Reembeds(patch)
    <3>1. Finish(k, "ok") /\ UNCHANGED torn
      BY <1>0, <1>3, <2>6 DEF UpdateTopic
    <3>2. SameTexts
      BY <2>3, <2>4, <2>6 DEF SameTexts
    <3>3. OpsOK' /\ SameWrites
      BY <1>1, <3>1, Finished
    <3> QED  BY <1>1, <2>5, <3>1, <3>2, <3>3, TextsStay
  <2>7. CASE Reembeds(patch)
    <3> DEFINE text == topicEmbedText(row.name, row.description)
    <3>1. topics'[t] = row
      BY <1>3, <2>3
    <3>2. /\ Becomes(k, [request[k] EXCEPT !.at = "embedding", !.text = text])
          /\ torn' = IF Writers(t) = {} /\ ~Reembedding(t) THEN torn \ {t} ELSE torn \union {t}
      BY <1>0, <1>3, <2>7, <3>1 DEF UpdateTopic
    <3>3. text \in Text /\ text.description = row.description
      BY <2>4 DEF Text, topicEmbedText, IsTopic
    <3> HIDE DEF text
    <3>4. PICK o : o = [request[k] EXCEPT !.at = "embedding", !.text = text]
      OBVIOUS
    <3>5. IsOp(o) /\ o.at = "embedding" /\ o.id = t /\ o.text = text
      BY <1>0, <1>1, <3>4 DEF IsOp
    <3>6. request' = [n \in TopicOp |-> IF n = k THEN o ELSE request[n]]
      BY <1>1, <3>2, <3>4 DEF Becomes, OpsOK
    <3>7. OpsOK'
      BY <1>1, <3>5, <3>6 DEF OpsOK, Asks
    <3>8. TextsOK'
      BY <1>1, <1>3, <3>3, <3>5, <3>6 DEF TextsOK, TopicsOK
    <3>9. Writers(t)' = Writers(t) \union {k}
      BY <1>1, <3>5, <3>6 DEF Writers
    <3>10. ASSUME t \notin torn'
           PROVE  Intact(t)'
      <4>1. Writers(t) = {} /\ t \notin DOMAIN reembed
        BY <3>2, <3>10 DEF Reembedding
      <4> QED  BY <1>1, <3>1, <3>3, <3>5, <3>6, <3>9, <4>1 DEF Intact
    <3>11. ASSUME NEW u \in DOMAIN topics, u # t, u \notin torn'
           PROVE  Intact(u)'
      <4>1. u \notin torn /\ Intact(u) /\ topics'[u] = topics[u]
        BY <2>3, <3>2, <3>11 DEF EmbedInv
      <4>2. Writers(u)' = Writers(u) /\ k \notin Writers(u)
        BY <1>1, <3>5, <3>6, <3>11 DEF Writers
      <4> QED  BY <1>1, <3>6, <4>1, <4>2 DEF Intact, Writers
    <3> QED  BY <2>5, <3>7, <3>8, <3>10, <3>11 DEF EmbedInv
  <2> QED  BY <2>6, <2>7
<1> QED  BY <1>2, <1>3

LEMMA EmbedKeeps ==
  ASSUME EmbedInv, NEW k \in TopicOp, Embed(k)
  PROVE  EmbedInv'
<1> DEFINE t == request[k].id
<1>1. /\ OpsOK /\ TopicsOK /\ TextsOK /\ request[k].at = "embedding" /\ k \in Writers(t)
      /\ UNCHANGED <<created, reembed, torn>> /\ request[k].text \in Text
  BY DEF EmbedInv, Embed, Writers, TextsOK
<1>2. PICK result : Finish(k, result)
  BY DEF Embed
<1>3. /\ OpsOK' /\ request'[k].at = "answered"
      /\ \A n \in TopicOp \ {k} : request'[n] = request[n]
      /\ \A u : Writers(u)' = Writers(u) \ {k}
  BY <1>1, <1>2, WriterEnds
<1>4. TextsOK'
  BY <1>1, <1>3 DEF TextsOK
<1>5. CASE t \in DOMAIN topics
  <2>1. /\ TopicsOK' /\ DOMAIN topics' = DOMAIN topics /\ topics'[t].embedding = request[k].text
        /\ \A u \in DOMAIN topics :
             /\ topics'[u].description = topics[u].description
             /\ u # t => topics'[u] = topics[u]
    BY <1>1, <1>5, Embedded DEF Embed
  <2>2. ASSUME NEW u \in DOMAIN topics, u \notin torn
        PROVE  Intact(u)'
    <3>1. Intact(u) /\ Writers(u)' = Writers(u) \ {k} /\ Writers(u) \subseteq TopicOp
      BY <1>3, <2>2 DEF EmbedInv, Writers
    <3>2. u # t => k \notin Writers(u)
      BY DEF Writers
    <3>3. CASE u = t
      <4>1. request[k].text.description = topics[u].description
        BY <1>1, <3>1, <3>3 DEF Intact
      <4> QED  BY <1>1, <1>3, <2>1, <3>1, <3>3, <4>1 DEF Intact
    <3>4. CASE u # t
      BY <1>1, <1>3, <2>1, <3>1, <3>2, <3>4 DEF Intact
    <3> QED  BY <3>3, <3>4
  <2> QED  BY <1>1, <1>3, <1>4, <2>1, <2>2 DEF EmbedInv
<1>6. CASE t \notin DOMAIN topics
  <2>1. UNCHANGED topics
    BY <1>6 DEF Embed
  <2>2. ASSUME NEW u \in DOMAIN topics, u \notin torn
        PROVE  Intact(u)'
    <3>1. Intact(u) /\ Writers(u)' = Writers(u) \ {k} /\ Writers(u) \subseteq TopicOp
      BY <1>3, <2>2 DEF EmbedInv, Writers
    <3>2. k \notin Writers(u)
      BY <1>6, <2>2 DEF Writers
    <3> QED  BY <1>1, <1>3, <2>1, <3>1, <3>2 DEF Intact
  <2>3. TopicsOK'
    BY <1>1, <2>1 DEF TopicsOK
  <2> QED  BY <1>1, <1>3, <1>4, <2>1, <2>2, <2>3 DEF EmbedInv
<1> QED  BY <1>5, <1>6

\* The topic of a request that fails is torn.
LEMMA UnavailableKeeps ==
  ASSUME EmbedInv, NEW k \in TopicOp, EmbedderUnavailable(k)
  PROVE  EmbedInv'
<1>1. /\ OpsOK /\ TopicsOK /\ TextsOK /\ UNCHANGED <<topics, created, reembed>>
      /\ torn' = torn \union {request[k].id} /\ Finish(k, "unavailable")
  BY DEF EmbedInv, EmbedderUnavailable
<1>2. /\ OpsOK' /\ request'[k].at = "answered"
      /\ \A n \in TopicOp \ {k} : request'[n] = request[n]
      /\ \A u : Writers(u)' = Writers(u) \ {k}
  BY <1>1, WriterEnds
<1>3. TextsOK' /\ TopicsOK'
  BY <1>1, <1>2 DEF TextsOK, TopicsOK
<1>4. ASSUME NEW u \in DOMAIN topics, u \notin torn'
      PROVE  Intact(u)'
  <2>1. Intact(u) /\ Writers(u)' = Writers(u) \ {k} /\ Writers(u) \subseteq TopicOp
    BY <1>1, <1>2, <1>4 DEF EmbedInv, Writers
  <2>2. k \notin Writers(u)
    BY <1>1, <1>4 DEF Writers
  <2> QED  BY <1>1, <1>2, <2>1, <2>2 DEF Intact
<1> QED  BY <1>1, <1>2, <1>3, <1>4 DEF EmbedInv

LEMMA DeleteKeeps ==
  ASSUME EmbedInv, NEW k \in TopicOp, DeleteTopic(k)
  PROVE  EmbedInv'
<1>1. OpsOK /\ TopicsOK /\ request[k].at = "sent" /\ UNCHANGED <<created, reembed, torn>>
  BY DEF EmbedInv, DeleteTopic
<1>2. PICK result : Finish(k, result)
  BY DEF DeleteTopic
<1>3. OpsOK' /\ SameWrites
  BY <1>1, <1>2, Finished
<1>4. topics' = [u \in DOMAIN topics \ {request[k].id} |-> topics[u]]
  BY DEF DeleteTopic
<1>5. TopicsOK' /\ SameTexts
  BY <1>1, <1>4 DEF TopicsOK, SameTexts
<1> QED  BY <1>1, <1>3, <1>5, TextsStay

LEMMA ReembedKeeps ==
  ASSUME EmbedInv, ReembedStart \/ ReembedTopic \/ ReembedStops
  PROVE  EmbedInv'
<1>1. OpsOK /\ TopicsOK /\ TextsOK
  BY DEF EmbedInv
<1>2. CASE ReembedStart
  <2>1. /\ reembed' = [t \in DOMAIN topics |-> topicEmbedText(topics[t].name, topics[t].description)]
        /\ UNCHANGED <<topics, created, request>> /\ torn \subseteq torn'
    BY <1>2 DEF ReembedStart
  <2>2. \A t \in DOMAIN topics : reembed'[t] \in Text /\ reembed'[t].description = topics[t].description
    BY <1>1, <2>1 DEF TopicsOK, IsTopic, topicEmbedText, Text
  <2>3. OpsOK' /\ TopicsOK' /\ TextsOK'
    BY <1>1, <2>1, <2>2 DEF OpsOK, TopicsOK, TextsOK, IsOp, Asks, PatchOK
  <2>4. \A t \in DOMAIN topics : t \notin torn' => Intact(t)'
    BY <2>1, <2>2 DEF EmbedInv, Intact, Writers
  <2> QED  BY <2>1, <2>3, <2>4 DEF EmbedInv
<1>3. CASE ReembedTopic
  <2> DEFINE t == CHOOSE u \in DOMAIN reembed : \A v \in DOMAIN reembed : u <= v
  <2>1. UNCHANGED <<created, request, torn>> /\ OpsOK' /\ SameWrites
    BY <1>1, <1>3 DEF ReembedTopic, OpsOK, SameWrites, IsOp, Asks, PatchOK
  <2>2. CASE t \notin DOMAIN topics
    <3>1. reembed' = <<>> /\ UNCHANGED topics
      BY <1>3, <2>2 DEF ReembedTopic
    <3>2. TopicsOK' /\ SameTexts
      BY <1>1, <2>1, <3>1 DEF TopicsOK, SameTexts
    <3> QED  BY <2>1, <3>1, <3>2, TextsStay
  <2>3. t \in DOMAIN reembed
    <3>1. reembed # <<>> /\ reembed = [u \in DOMAIN reembed |-> reembed[u]]
      BY <1>1, <1>3 DEF ReembedTopic, TextsOK
    <3>2. DOMAIN reembed = {} => reembed = <<>>
      BY <3>1
    <3>3. DOMAIN reembed \in SUBSET Nat
      BY <1>1 DEF TextsOK, TopicsOK
    <3> QED  BY <3>1, <3>2, <3>3, SmallestOf
  <2>4. CASE t \in DOMAIN topics
    <3>1. /\ topics' = [topics EXCEPT ![t].embedding = reembed[t]]
          /\ reembed' = [u \in DOMAIN reembed \ {t} |-> reembed[u]]
      BY <1>3, <2>4 DEF ReembedTopic
    <3> HIDE DEF t
    <3>2. /\ TopicsOK' /\ DOMAIN topics' = DOMAIN topics /\ topics'[t].embedding = reembed[t]
          /\ \A u \in DOMAIN topics :
               /\ topics'[u].description = topics[u].description
               /\ u # t => topics'[u] = topics[u]
      BY <1>1, <2>1, <2>4, <3>1, Embedded
    <3>3. TextsOK' /\ reembed[t] \in Text
      BY <1>1, <2>1, <2>3, <3>1 DEF TextsOK
    <3>4. ASSUME NEW u \in DOMAIN topics, u \notin torn
          PROVE  Intact(u)'
      <4>1. Intact(u) /\ Writers(u)' = Writers(u)
        BY <2>1, <3>4 DEF EmbedInv, Writers
      <4>2. CASE u = t
        BY <2>1, <2>3, <3>1, <3>2, <3>3, <4>1, <4>2 DEF Intact
      <4>3. CASE u # t
        BY <2>1, <3>1, <3>2, <4>1, <4>3 DEF Intact
      <4> QED  BY <4>2, <4>3
    <3> QED  BY <2>1, <3>2, <3>3, <3>4 DEF EmbedInv
  <2> QED  BY <2>2, <2>4
<1>4. CASE ReembedStops
  <2>1. reembed' = <<>> /\ UNCHANGED <<topics, created, request, torn>>
    BY <1>4 DEF ReembedStops
  <2>2. OpsOK' /\ TopicsOK' /\ SameWrites /\ SameTexts
    BY <1>1, <2>1 DEF OpsOK, TopicsOK, SameWrites, SameTexts, IsOp, Asks, PatchOK
  <2> QED  BY <2>1, <2>2, TextsStay
<1> QED  BY <1>2, <1>3, <1>4

-----------------------------------------------------------------------------
(* The client sends, forgets and ends requests; the server ends others.     *)

LEMMA SendMoves ==
  ASSUME OpsOK, NEW k \in FreeOp, NEW new, IsOp(new), Asks([new EXCEPT !.at = "sent"]), Send(k, new)
  PROVE  OpsOK' /\ SameWrites
<1>1. k \in TopicOp /\ request[k].at = "idle"
  BY DEF FreeOp, Pending
<1>2. PICK o : o = [new EXCEPT !.at = "sent"]
  OBVIOUS
<1>3. IsOp(o) /\ o.at = "sent" /\ Asks(o)
  BY <1>2 DEF IsOp
<1> QED  BY <1>1, <1>2, <1>3, OneOp DEF Send

\* A change of a topic carries a patch of texts.
LEMMA UpdateSent ==
  ASSUME EmbedInv, NEW t, NEW patch, PatchOK(patch), NEW heard, useUpdateTopic(t, patch, heard),
         UNCHANGED <<topics, created, reembed, torn>>
  PROVE  EmbedInv'
<1>1. PICK k \in FreeOp :
        Send(k, [updateTopic(t, patch) EXCEPT !.heard = heard,
          !.back = [topics |-> cache[TopicsKey].data, topic |-> cache[TopicKey(t)].data]])
  BY DEF useUpdateTopic
<1>2. PICK back : back = [topics |-> cache[TopicsKey].data, topic |-> cache[TopicKey(t)].data]
  OBVIOUS
<1>3. PICK o : o = [updateTopic(t, patch) EXCEPT !.heard = heard, !.back = back]
  OBVIOUS
<1>4. IsOp(o) /\ o.kind = "update" /\ o.patch = patch
  BY <1>3 DEF updateTopic, NoOp, IsOp
<1>5. Asks([o EXCEPT !.at = "sent"])
  BY <1>4 DEF IsOp, Asks
<1>6. Send(k, o)
  BY <1>1, <1>2, <1>3
<1> QED  BY <1>4, <1>5, <1>6, SendMoves, RequestsMove DEF EmbedInv

\* Requests that nobody listens to any more.
Alike(n, o) ==
  IsOp(n) /\ n.at = o.at /\ n.id = o.id /\ n.text = o.text /\ n.kind = o.kind /\ n.patch = o.patch

LEMMA HeardOnly ==
  ASSUME NEW o, IsOp(o), NEW heard
  PROVE  Alike([o EXCEPT !.heard = heard], o)
BY DEF IsOp, Alike

LEMMA Unlistened ==
  ASSUME OpsOK, NEW gone, NEW heard,
         request' = [k \in TopicOp |-> IF gone[k] THEN [request[k] EXCEPT !.heard = heard] ELSE request[k]]
  PROVE  OpsOK' /\ SameWrites
<1>2. \A k \in TopicOp : request'[k] = request[k] \/ request'[k] = [request[k] EXCEPT !.heard = heard]
  OBVIOUS
<1>3. ASSUME NEW k \in TopicOp
      PROVE  Alike(request'[k], request[k])
  <2>1. IsOp(request[k])
    BY DEF OpsOK
  <2>2. Alike([request[k] EXCEPT !.heard = heard], request[k])
    BY <2>1, HeardOnly
  <2>3. Alike(request[k], request[k])
    BY <2>1 DEF Alike
  <2> QED  BY <1>2, <2>2, <2>3, Zenon
<1> QED  BY <1>3 DEF OpsOK, SameWrites, Asks, Alike

LEMMA UnheardIs ==
  ASSUME OpsOK, request' = Unheard
  PROVE  OpsOK' /\ SameWrites
<1> DEFINE gone == [k \in TopicOp |-> request[k].kind # "create"]
<1>1. request' = [k \in TopicOp |-> IF gone[k] THEN [request[k] EXCEPT !.heard = "no"] ELSE request[k]]
  BY DEF Unheard
<1> QED  BY <1>1, Unlistened

LEMMA FormGoneIs ==
  ASSUME OpsOK, NEW kind, request' = FormGone(kind)
  PROVE  OpsOK' /\ SameWrites
<1> DEFINE gone == [k \in TopicOp |-> request[k].kind = kind /\ request[k].heard = "form"]
<1>1. request' = [k \in TopicOp |-> IF gone[k] THEN [request[k] EXCEPT !.heard = "page"] ELSE request[k]]
  BY DEF FormGone
<1> QED  BY <1>1, Unlistened

LEMMA RequestEnds ==
  ASSUME OpsOK, NEW k \in TopicOp, request[k].at = "answered", Becomes(k, NoOp)
  PROVE  OpsOK' /\ SameWrites
BY NothingAsked, OneOp DEF Becomes

\* A topic that was created is the end of its request, and of the dialog.
LEMMA CreateEnds ==
  ASSUME OpsOK, NEW k \in TopicOp, request[k].at = "answered",
         request' = [FormGone("create") EXCEPT ![k] = NoOp]
  PROVE  OpsOK' /\ SameWrites
<1>2. /\ request' = [n \in TopicOp |-> request'[n]] /\ request'[k] = NoOp
      /\ \A n \in TopicOp \ {k} :
           request'[n] = request[n] \/ request'[n] = [request[n] EXCEPT !.heard = "page"]
  BY DEF FormGone
<1>3. ASSUME NEW n \in TopicOp \ {k}
      PROVE  Alike(request'[n], request[n])
  <2>1. IsOp(request[n])
    BY DEF OpsOK
  <2>2. Alike([request[n] EXCEPT !.heard = "page"], request[n]) /\ Alike(request[n], request[n])
    BY <2>1, HeardOnly DEF Alike
  <2>3. request'[n] = request[n] \/ request'[n] = [request[n] EXCEPT !.heard = "page"]
    BY <1>2
  <2> QED  BY <2>2, <2>3
<1>4. OpsOK'
  BY <1>2, <1>3, NothingAsked DEF OpsOK, Asks, Alike
<1>5. SameWrites
  BY <1>2, <1>3, NothingAsked DEF SameWrites, Alike
<1> QED  BY <1>4, <1>5

LEMMA NothingMoves ==
  ASSUME EmbedInv, UNCHANGED <<topics, created, request, reembed, torn>>
  PROVE  EmbedInv'
<1>1. OpsOK' /\ SameWrites
  BY DEF EmbedInv, OpsOK, SameWrites, IsOp, Asks, PatchOK
<1> QED  BY <1>1, RequestsMove

LEMMA TopicsUserEmbeds ==
  ASSUME EmbedInv, TopicsUser
  PROVE  EmbedInv'
<1>1. OpsOK
  BY DEF EmbedInv
<1>2. ASSUME NEW p, Open(p)
      PROVE  EmbedInv'
  <2>1. request' = Unheard /\ UNCHANGED <<topics, created, reembed, torn>>
    BY <1>2 DEF Open
  <2> QED  BY <1>1, <2>1, UnheardIs, RequestsMove
<1>3. ASSUME NEW k, LoadMore(k) \/ Retry(k)
      PROVE  EmbedInv'
  BY <1>3, NothingMoves DEF LoadMore, Retry, topicsVars
<1>4. ASSUME NEW t, TogglePause(t)
      PROVE  EmbedInv'
  <2>1. PICK patch : patch = [isActive |-> ~Topic(t).isActive]
    OBVIOUS
  <2>2. PatchOK(patch)
    BY <2>1 DEF PatchOK
  <2>3. useUpdateTopic(t, patch, "page") /\ UNCHANGED <<topics, created, reembed, torn>>
    BY <1>4, <2>1 DEF TogglePause
  <2> QED  BY <2>2, <2>3, UpdateSent
<1>5. ASSUME NEW t, OpenEdit(t) \/ AskDelete(t)
      PROVE  EmbedInv'
  BY <1>5, NothingMoves DEF OpenEdit, AskDelete, topicsVars
<1>6. ASSUME NEW t, DeleteTopicConfirm(t)
      PROVE  EmbedInv'
  <2>1. UNCHANGED <<topics, created, reembed, torn>>
    BY <1>6 DEF DeleteTopicConfirm
  <2>2. CASE UNCHANGED request
    BY <2>1, <2>2, NothingMoves
  <2>3. ASSUME NEW k \in FreeOp, Send(k, [deleteTopic(t) EXCEPT !.heard = "page"])
        PROVE  EmbedInv'
    <3>1. PICK o : o = [deleteTopic(t) EXCEPT !.heard = "page"]
      OBVIOUS
    <3>2. IsOp(o) /\ o.kind = "delete"
      BY <3>1 DEF deleteTopic, NoOp, IsOp
    <3>3. Asks([o EXCEPT !.at = "sent"])
      BY <3>2 DEF IsOp, Asks
    <3> QED  BY <1>1, <2>1, <2>3, <3>1, <3>2, <3>3, SendMoves, RequestsMove
  <2> QED  BY <1>6, <2>2, <2>3 DEF DeleteTopicConfirm
<1>7. ASSUME NEW t, NEW values \in Text, EditTopicForm(t, values)
      PROVE  EmbedInv'
  <2>1. PICK patch : patch = [f \in {g \in DOMAIN values : values[g] # Topic(t)[g]} |-> values[f]]
    OBVIOUS
  <2>2. PatchOK(patch)
    <3>1. DOMAIN values = {"name", "description"} /\ values.name \in Name
          /\ values.description \in Description
      BY DEF Text
    <3> QED  BY <2>1, <3>1 DEF PatchOK
  <2>3. /\ UNCHANGED <<topics, created, reembed, torn>>
        /\ UNCHANGED request \/ useUpdateTopic(t, patch, "form")
    BY <1>7, <2>1 DEF EditTopicForm
  <2> QED  BY <2>2, <2>3, NothingMoves, UpdateSent
<1>8. CASE CloseEdit \/ CloseNewTopic
  <2>1. PICK kind : request' = FormGone(kind) /\ UNCHANGED <<topics, created, reembed, torn>>
    BY <1>8 DEF CloseEdit, CloseNewTopic
  <2> QED  BY <1>1, <2>1, FormGoneIs, RequestsMove
<1>9. CASE OpenNewTopic
  BY <1>9, NothingMoves DEF OpenNewTopic, topicsVars
<1>10. ASSUME NEW values \in Text, NewTopicForm(values)
       PROVE  EmbedInv'
  <2>1. PICK k \in FreeOp : Send(k, [createTopic(values) EXCEPT !.heard = "form"])
    BY <1>10 DEF NewTopicForm
  <2>2. PICK o : o = [createTopic(values) EXCEPT !.heard = "form"]
    OBVIOUS
  <2>3. IsOp(o) /\ o.kind = "create" /\ o.patch = values
    BY <2>2 DEF createTopic, NoOp, IsOp
  <2>4. Asks([o EXCEPT !.at = "sent"])
    BY <2>3 DEF IsOp, Asks
  <2>5. UNCHANGED <<topics, created, reembed, torn>>
    BY <1>10 DEF NewTopicForm
  <2> QED  BY <1>1, <2>1, <2>2, <2>3, <2>4, <2>5, SendMoves, RequestsMove
<1> QED  BY <1>2, <1>3, <1>4, <1>5, <1>6, <1>7, <1>8, <1>9, <1>10 DEF TopicsUser, TopicHeader

LEMMA TopicsClientEmbeds ==
  ASSUME EmbedInv, TopicsQueries \/ TopicsMutations
  PROVE  EmbedInv'
<1>1. OpsOK
  BY DEF EmbedInv
<1>2. ASSUME NEW k, Read(k) \/ Arrive(k) \/ Rebuild(k)
      PROVE  EmbedInv'
  BY <1>2, NothingMoves DEF Read, Arrive, Rebuild, topicsVars
<1>3. ASSUME NEW m, MatchReader(m)
      PROVE  EmbedInv'
  <2>1. PICK k \in FreeOp : Send(k, updateMatch(m))
    BY <1>3 DEF MatchReader
  <2>2. IsOp(updateMatch(m)) /\ updateMatch(m).kind = "seen"
    BY DEF updateMatch, NoOp, IsOp
  <2>3. Asks([updateMatch(m) EXCEPT !.at = "sent"])
    BY <2>2 DEF IsOp, Asks
  <2>4. UNCHANGED <<topics, created, reembed, torn>>
    BY <1>3 DEF MatchReader
  <2> QED  BY <1>1, <2>1, <2>2, <2>3, <2>4, SendMoves, RequestsMove
<1>4. ASSUME NEW k \in TopicOp, UpdateSettled(k) \/ useDeleteTopic(k) \/ useMarkMatchSeen(k)
      PROVE  EmbedInv'
  <2>1. request[k].at = "answered" /\ Becomes(k, NoOp) /\ UNCHANGED <<topics, created, reembed, torn>>
    BY <1>4 DEF UpdateSettled, useDeleteTopic, useMarkMatchSeen
  <2> QED  BY <1>1, <2>1, RequestEnds, RequestsMove
<1>5. ASSUME NEW k \in TopicOp, useCreateTopic(k)
      PROVE  EmbedInv'
  <2>1. /\ request[k].at = "answered" /\ UNCHANGED <<topics, created, reembed, torn>>
        /\ Becomes(k, NoOp) \/ request' = [FormGone("create") EXCEPT ![k] = NoOp]
    BY <1>5 DEF useCreateTopic
  <2> QED  BY <1>1, <2>1, RequestEnds, CreateEnds, RequestsMove
<1> QED  BY <1>2, <1>3, <1>4, <1>5 DEF TopicsQueries, TopicsMutations

LEMMA TopicsServerEmbeds ==
  ASSUME EmbedInv, TopicsServer
  PROVE  EmbedInv'
<1>1. OpsOK
  BY DEF EmbedInv
<1>2. ASSUME NEW k \in TopicOp, CreateTopic(k) \/ UpdateTopic(k) \/ Embed(k) \/ DeleteTopic(k)
      PROVE  EmbedInv'
  BY <1>2, CreateKeeps, UpdateKeeps, EmbedKeeps, DeleteKeeps
<1>3. ASSUME NEW k \in TopicOp, UpdateMatchState(k) \/ Unserved(k) \/ Lost(k)
      PROVE  EmbedInv'
  <2>1. request[k].at # "embedding" /\ UNCHANGED <<topics, created, reembed, torn>>
    BY <1>3 DEF UpdateMatchState, Unserved, Lost
  <2>2. PICK result : Finish(k, result)
    BY <1>3 DEF UpdateMatchState, Unserved, Lost
  <2> QED  BY <1>1, <2>1, <2>2, Finished, RequestsMove
<1>4. ASSUME NEW k \in TopicOp, CreateUnembedded(k)
      PROVE  EmbedInv'
  BY <1>4, UnavailableKeeps DEF CreateUnembedded
<1>5. ASSUME Reembed
      PROVE  EmbedInv'
  BY <1>5, ReembedKeeps DEF Reembed
<1> QED  BY <1>2, <1>3, <1>4, <1>5 DEF TopicsServer, Serve, Refused

LEMMA EmbedStep ==
  ASSUME EmbedInv, [WebNext]_webVars
  PROVE  EmbedInv'
<1>1. CASE InSources \/ UNCHANGED webVars
  BY <1>1, NothingMoves DEF InSources, webVars, vars, topicsVars
<1>2. CASE TopicsUser \/ TopicsQueries \/ TopicsMutations \/ TopicsServer
  BY <1>2, TopicsUserEmbeds, TopicsClientEmbeds, TopicsServerEmbeds
<1> QED  BY <1>1, <1>2 DEF WebNext

LEMMA EmbedInit ==
  ASSUME WebInit
  PROVE  EmbedInv
<1> DEFINE name == CHOOSE n \in Name : TRUE
           description == CHOOSE d \in Description : TRUE
           text == topicEmbedText(name, description)
           row == [name |-> name, description |-> description, isActive |-> TRUE, embedding |-> text]
<1>1. name \in Name /\ description \in Description
  BY TopicsAssumption
<1>2. /\ created = 1 /\ topics = [t \in {1} |-> row]
      /\ request = [k \in TopicOp |-> NoOp] /\ reembed = <<>>
  BY DEF WebInit, Init, TopicsInit
<1> HIDE DEF name, description
<1>3. IsTopic(row) /\ text \in Text /\ row.embedding = text /\ row.description = text.description
  BY <1>1 DEF IsTopic, Text, topicEmbedText
<1> HIDE DEF text, row
<1>4. OpsOK
  BY <1>2, NothingAsked DEF OpsOK
<1>5. TopicsOK
  BY <1>2, <1>3 DEF TopicsOK
<1>6. TextsOK
  BY <1>2, NothingAsked DEF TextsOK
<1>7. Writers(1) = {}
  BY <1>2, NothingAsked DEF Writers
<1>8. Intact(1) /\ DOMAIN topics = {1}
  BY <1>2, <1>3, <1>7 DEF Intact
<1> QED  BY <1>4, <1>5, <1>6, <1>8 DEF EmbedInv

\* Whatever requests and runs of reembed-topics overlap, a topic that nobody is
\* about to embed has the embedding of its present description, unless an
\* embedder failed or two writers overlapped since it was set (service.go:98-138,
\* 264-312, cmd/reembed-topics: the text is read first, its embedding written later).
THEOREM EmbeddingHolds == WebSpec => []EmbeddingCurrent
<1>1. EmbedInv => EmbeddingCurrent
  BY EmbedInvMeans
<1>2. WebInit => EmbedInv
  BY EmbedInit
<1>3. EmbedInv /\ [WebNext]_webVars => EmbedInv'
  BY EmbedStep
<1> QED  BY <1>1, <1>2, <1>3, PTL DEF WebSpec

-----------------------------------------------------------------------------
(* The types of the client and the service, and what its cache holds.      *)

\* A patch names columns that a form or the button of a topic changes.
IsPatch(patch) ==
  /\ DOMAIN patch \subseteq {"name", "description", "isActive"}
  /\ PatchOK(patch)
  /\ "isActive" \in DOMAIN patch => patch.isActive \in BOOLEAN
Singles(T, pages) == pages \in Seq(Page(T)) /\ IsSingle(pages)
IsBack(back) ==
  /\ back = [topics |-> back.topics, topic |-> back.topic]
  /\ Singles(SUBSET TopicRow, back.topics) /\ Singles(TopicRow, back.topic)

\* What a request is about.
About(r) ==
  /\ r.at = "idle" => r.kind = "none"
  /\ r.kind = "update" => r.id \in TopicIds /\ IsPatch(r.patch) /\ IsBack(r.back)
  /\ r.kind = "delete" => r.id \in TopicIds
  /\ r.kind = "seen" => r.id \in Match
  /\ r.at = "embedding" => r.kind \in {"create", "update"}

\* A route and the state of its components.
Place(p) ==
  /\ p.id \in Nat /\ p.state \in {"new", "any"}
  /\ \/ p.at = "inbox" /\ p.id \in {0} \union TopicIds
     \/ p.at = "topics"
     \/ p.at = "topic" /\ p.id \in TopicIds
     \/ p.at = "match" /\ p.id \in Match
IsPage(p) ==
  /\ p \in [at : {"inbox", "topics", "topic", "match"}, id : Nat, state : {"new", "any"},
            held : Seq(Page(MatchRow)), marked : BOOLEAN,
            edit : {"closed", "open", "saving", "failed", "saved"},
            form : Text \union {NoText}, confirm : BOOLEAN]
  /\ Place(p)

\* The rows of the pages of a query.  Only a list of matches has more pages than one.
RowType(k) ==
  CASE k[1] = "topics" -> SUBSET TopicRow
    [] k[1] = "topic"  -> TopicRow
    [] OTHER           -> MatchRow
EntryOK(k, e) ==
  /\ e \in Entries(Page(RowType(k)))
  /\ IF k[1] = "matches" THEN Paged(e) ELSE SinglePage(e)

CacheOK(c) == c = [k \in Keys |-> c[k]] /\ \A k \in Keys : EntryOK(k, c[k])

\* There is room for what is being created.
TypesInv ==
  /\ TopicsTypeOK
  /\ created + Cardinality(Creating) <= MaxTopic
  /\ \A k \in TopicOp : About(request[k])
  /\ IsPage(page)
  /\ CacheOK(cache)

\* What the cache may hold of a query for what the service would answer now.
HeldTopics == {<<Single(ListTopicsWithStats)>>}
HeldTopic(t) ==
  {pages \in Seq(Page(TopicRow)) :
     /\ pages # <<>> /\ t \in DOMAIN topics
     /\ [pages[1].items[1] EXCEPT !.newCount = NewCount(t)] = GetTopicWithStats(t)}
HeldMatch(m) == {pages \in Seq(Page(MatchRow)) : m \in DOMAIN matches => pages = <<Single(GetMatch(m))>>}
HeldMatches(f) == FreshPages(MatchRow, ListMatches(f))
Held(k) ==
  CASE k[1] = "topics" -> HeldTopics
    [] k[1] = "topic"  -> HeldTopic(k[2])
    [] k[1] = "match"  -> HeldMatch(k[2])
    [] OTHER           -> HeldMatches(k[2])

\* What the client will have marked, or will remove, when the request has ended.
Done(r) == r.at = "answered" /\ r.result = "ok"
OwesTopics(r) ==
  \/ r.kind = "update"
  \/ r.kind \in {"create", "delete", "seen"} /\ Done(r)
  \/ r.kind = "create" /\ r.at = "embedding" /\ r.id \in DOMAIN topics
OwesTopic(r, t) == r.id = t /\ (r.kind = "update" \/ (r.kind = "delete" /\ Done(r)))
OwesMatch(r, m) == r.id = m /\ r.kind = "seen" /\ Done(r)
OwesMatches(r) == r.kind \in {"delete", "seen"} /\ Done(r)
Owes(r, k) ==
  CASE k[1] = "topics" -> OwesTopics(r)
    [] k[1] = "topic"  -> OwesTopic(r, k[2])
    [] k[1] = "match"  -> OwesMatch(r, k[2])
    [] OTHER           -> OwesMatches(r)

Owed(k) == \E n \in TopicOp : Owes(request[n], k)
FreshInv == \A k \in Keys : Owed(k) \/ Agrees(cache[k], Held(k))

-----------------------------------------------------------------------------
(* The keys.                                                               *)

LEMMA KeyKinds ==
  ASSUME NEW k \in Keys
  PROVE  \/ k = TopicsKey /\ k[1] = "topics"
         \/ \E t \in TopicIds : k = TopicKey(t) /\ k[1] = "topic" /\ k[2] = t
         \/ \E m \in Match : k = MatchKey(m) /\ k[1] = "match" /\ k[2] = m
         \/ \E f \in MatchFilters : k = MatchesKey(f) /\ k[1] = "matches" /\ k[2] = f
BY DEF Keys, TopicsKey, TopicKey, MatchKey, MatchesKey

LEMMA KeyHeads ==
  /\ TopicsKey \in Keys /\ TopicsKey[1] = "topics"
  /\ \A t \in TopicIds : TopicKey(t) \in Keys /\ TopicKey(t)[1] = "topic" /\ TopicKey(t)[2] = t
  /\ \A m \in Match : MatchKey(m) \in Keys /\ MatchKey(m)[1] = "match" /\ MatchKey(m)[2] = m
  /\ \A f \in MatchFilters : MatchesKey(f) \in Keys /\ MatchesKey(f)[1] = "matches" /\ MatchesKey(f)[2] = f
BY DEF Keys, TopicsKey, TopicKey, MatchKey, MatchesKey

\* What a key is the beginning of.
LEMMA Beginnings ==
  ASSUME NEW k \in Keys
  PROVE  /\ IsPrefix(TopicsKey, k) <=> k = TopicsKey
         /\ \A t \in TopicIds : IsPrefix(TopicKey(t), k) <=> k = TopicKey(t)
         /\ \A m \in Match : IsPrefix(MatchKey(m), k) <=> k = MatchKey(m)
         /\ IsPrefix(<<"matches">>, k) <=> k[1] = "matches"
<1>1. CASE k = TopicsKey
  BY <1>1 DEF IsPrefix, TopicsKey, TopicKey, MatchKey
<1>2. ASSUME NEW u \in TopicIds, k = TopicKey(u)
      PROVE  /\ IsPrefix(TopicsKey, k) <=> k = TopicsKey
             /\ \A t \in TopicIds : IsPrefix(TopicKey(t), k) <=> k = TopicKey(t)
             /\ \A m \in Match : IsPrefix(MatchKey(m), k) <=> k = MatchKey(m)
             /\ IsPrefix(<<"matches">>, k) <=> k[1] = "matches"
  BY <1>2 DEF IsPrefix, TopicsKey, TopicKey, MatchKey
<1>3. ASSUME NEW u \in Match, k = MatchKey(u)
      PROVE  /\ IsPrefix(TopicsKey, k) <=> k = TopicsKey
             /\ \A t \in TopicIds : IsPrefix(TopicKey(t), k) <=> k = TopicKey(t)
             /\ \A m \in Match : IsPrefix(MatchKey(m), k) <=> k = MatchKey(m)
             /\ IsPrefix(<<"matches">>, k) <=> k[1] = "matches"
  BY <1>3 DEF IsPrefix, TopicsKey, TopicKey, MatchKey
<1>4. ASSUME NEW u \in MatchFilters, k = MatchesKey(u)
      PROVE  /\ IsPrefix(TopicsKey, k) <=> k = TopicsKey
             /\ \A t \in TopicIds : IsPrefix(TopicKey(t), k) <=> k = TopicKey(t)
             /\ \A m \in Match : IsPrefix(MatchKey(m), k) <=> k = MatchKey(m)
             /\ IsPrefix(<<"matches">>, k) <=> k[1] = "matches"
  BY <1>4 DEF IsPrefix, TopicsKey, TopicKey, MatchKey, MatchesKey
<1> QED  BY <1>1, <1>2, <1>3, <1>4, KeyKinds

-----------------------------------------------------------------------------
(* What the service answers.                                               *)

LEMMA Stored ==
  ASSUME TypesInv
  PROVE  /\ created \in Nat /\ created <= MaxTopic /\ DOMAIN topics \subseteq TopicIds
         /\ \A t \in DOMAIN topics :
              topics[t].name \in Name /\ topics[t].description \in Description /\ topics[t].isActive \in BOOLEAN
         /\ DOMAIN matches \subseteq Match
         /\ \A m \in DOMAIN matches :
              matches[m].topic \in TopicIds /\ matches[m].state \in {"new", "seen"}
<1>1. TopicsStateOK
  BY DEF TypesInv, TopicsTypeOK
<1>2. created \in Nat /\ created <= MaxTopic /\ DOMAIN topics \subseteq TopicIds
  <2>1. created \in 0..MaxTopic /\ DOMAIN topics \subseteq 1..created
    BY <1>1 DEF TopicsStateOK
  <2>2. MaxTopic \in Nat
    BY TopicsAssumption
  <2> QED  BY <2>1, <2>2 DEF TopicIds
<1>3. \A t \in DOMAIN topics :
        topics[t].name \in Name /\ topics[t].description \in Description /\ topics[t].isActive \in BOOLEAN
  BY <1>1 DEF TopicsStateOK
<1>4. \A m \in DOMAIN matches : matches[m].topic \in TopicIds /\ matches[m].state \in {"new", "seen"}
  BY <1>1, <1>2 DEF TopicsStateOK
<1> QED  BY <1>1, <1>2, <1>3, <1>4 DEF TopicsStateOK

LEMMA CountType ==
  ASSUME DOMAIN matches \subseteq Match, NEW t
  PROVE  NewCount(t) \in 0..Cardinality(Match)
<1>1. PICK new : new = {m \in DOMAIN matches : matches[m].topic = t /\ matches[m].state = "new"}
  OBVIOUS
<1>2. new \subseteq Match /\ IsFiniteSet(Match)
  BY <1>1, TopicsClientAssumption
<1>3. /\ Cardinality(new) <= Cardinality(Match)
      /\ Cardinality(new) \in Nat /\ Cardinality(Match) \in Nat
  BY <1>2, FS_Subset, FS_CardinalityType
<1> QED  BY <1>1, <1>3 DEF NewCount

LEMMA TopicType ==
  ASSUME TypesInv, NEW t \in DOMAIN topics
  PROVE  GetTopicWithStats(t) \in TopicRow
BY Stored, CountType DEF GetTopicWithStats, TopicRow

LEMMA TopicsType == ASSUME TypesInv PROVE ListTopicsWithStats \in SUBSET TopicRow
BY TopicType DEF ListTopicsWithStats

LEMMA MatchType ==
  ASSUME TypesInv, NEW m \in DOMAIN matches
  PROVE  GetMatch(m) \in MatchRow
BY Stored DEF GetMatch, MatchRow

LEMMA MatchesType ==
  ASSUME TypesInv, NEW f
  PROVE  ListMatches(f) \in Seq(MatchRow)
<1>1. PICK listed : listed = {m \in DOMAIN matches : /\ f.topic = 0 \/ matches[m].topic = f.topic
                                                     /\ f.state = "any" \/ matches[m].state = f.state}
  OBVIOUS
<1>2. listed \subseteq DOMAIN matches /\ listed \subseteq Nat /\ IsFiniteSet(listed)
  BY <1>1, Stored, FS_Subset, TopicsClientAssumption
<1>3. PICK c \in Nat : c = Cardinality(listed)
  BY <1>2, FS_CardinalityType
<1>4. ASSUME NEW n \in 1..c
      PROVE  GetMatch(CHOOSE m \in listed : Cardinality({o \in listed : o > m}) = n - 1) \in MatchRow
  <2>1. PICK j \in Nat : j = n - 1
    OBVIOUS
  <2>2. j < Cardinality(listed)
    BY <1>3, <2>1
  <2>3. \E m \in listed : Cardinality({o \in listed : o > m}) = j
    BY <1>2, <2>2, NthFromAbove
  <2>4. PICK m : m = CHOOSE x \in listed : Cardinality({o \in listed : o > x}) = n - 1
    OBVIOUS
  <2>5. m \in listed
    BY <2>1, <2>3, <2>4
  <2> QED  BY <1>2, <2>4, <2>5, MatchType
<1>5. PICK s : s = [n \in 1..c |-> GetMatch(CHOOSE m \in listed : Cardinality({o \in listed : o > m}) = n - 1)]
  OBVIOUS
<1>6. s \in [1..c -> MatchRow]
  BY <1>4, <1>5
<1>7. s \in Seq(MatchRow)
  BY <1>6, IsASeq
<1>8. ListMatches(f) = s
  BY <1>1, <1>3, <1>5 DEF ListMatches
<1> QED  BY <1>7, <1>8

-----------------------------------------------------------------------------
(* The cache.                                                              *)

LEMMA EntryIs ==
  ASSUME NEW k, NEW e, EntryOK(k, e)
  PROVE  e \in Entries(Page(RowType(k))) /\ Paged(e) /\ (k[1] # "matches" => SinglePage(e))
BY SingleIsPaged DEF EntryOK

LEMMA IsEntry ==
  ASSUME NEW k, NEW e \in Entries(Page(RowType(k))), Paged(e), k[1] # "matches" => SinglePage(e)
  PROVE  EntryOK(k, e)
BY DEF EntryOK

\* What an entry becomes while the service stays as it is and no change settles: it
\* agrees as it did, and if it was not trusted it is not.
Follows(k, e, n) ==
  /\ EntryOK(k, n)
  /\ Agrees(e, Held(k)) => Agrees(n, Held(k))
  /\ Distrusted(e) => Distrusted(n)

LEMMA EntryKept ==
  ASSUME NEW k, NEW e, EntryOK(k, e)
  PROVE  /\ Follows(k, e, e)
         /\ \A expired : Follows(k, e, Mount(e, expired))
         /\ Follows(k, e, Refetch(e))
         /\ Follows(k, e, Cancel(e))
<1>1. e \in Entries(Page(RowType(k))) /\ Paged(e) /\ (k[1] # "matches" => SinglePage(e))
  BY EntryIs
<1>3. ASSUME NEW expired PROVE Follows(k, e, Mount(e, expired))
  <2>1. PICK n : n = Mount(e, expired)
    OBVIOUS
  <2>2. /\ n \in Entries(Page(RowType(k))) /\ Paged(n)
        /\ Agrees(e, Held(k)) => Agrees(n, Held(k))
        /\ Distrusted(e) => Distrusted(n)
    BY <1>1, <2>1, MountAgrees
  <2>3. k[1] # "matches" => SinglePage(n)
    BY <1>1, <2>1, SinglesStay
  <2> QED  BY <2>1, <2>2, <2>3, IsEntry DEF Follows
<1>4. Follows(k, e, Refetch(e))
  <2>1. PICK n : n = Refetch(e)
    OBVIOUS
  <2>2. /\ n \in Entries(Page(RowType(k))) /\ Paged(n)
        /\ Agrees(e, Held(k)) => Agrees(n, Held(k))
        /\ Distrusted(e) => Distrusted(n)
    BY <1>1, <2>1, RefetchAgrees
  <2>3. k[1] # "matches" => SinglePage(n)
    BY <1>1, <2>1, SinglesStay
  <2> QED  BY <2>1, <2>2, <2>3, IsEntry DEF Follows
<1>5. Follows(k, e, Cancel(e))
  <2>1. PICK n : n = Cancel(e)
    OBVIOUS
  <2>2. /\ n \in Entries(Page(RowType(k))) /\ Paged(n)
        /\ Agrees(e, Held(k)) => Agrees(n, Held(k))
        /\ Distrusted(e) => Distrusted(n)
    BY <1>1, <2>1, CancelAgrees
  <2>3. k[1] # "matches" => SinglePage(n)
    BY <1>1, <2>1, SinglesStay
  <2> QED  BY <2>1, <2>2, <2>3, IsEntry DEF Follows
<1> QED  BY <1>3, <1>4, <1>5 DEF Follows

LEMMA EntryDoubted ==
  ASSUME NEW k, NEW e, EntryOK(k, e)
  PROVE  /\ \A active \in BOOLEAN : EntryOK(k, Invalidate(e, active)) /\ Distrusted(Invalidate(e, active))
         /\ EntryOK(k, Overlooked(e)) /\ Distrusted(Overlooked(e))
         /\ EntryOK(k, Empty) /\ Distrusted(Empty)
<1>1. e \in Entries(Page(RowType(k))) /\ Paged(e) /\ (k[1] # "matches" => SinglePage(e))
  BY EntryIs
<1>2. ASSUME NEW active \in BOOLEAN
      PROVE  EntryOK(k, Invalidate(e, active)) /\ Distrusted(Invalidate(e, active))
  <2>1. PICK n : n = Invalidate(e, active)
    OBVIOUS
  <2>2. n \in Entries(Page(RowType(k))) /\ Paged(n) /\ Distrusted(n)
    BY <1>1, <2>1, InvalidateDistrusts
  <2>3. k[1] # "matches" => SinglePage(n)
    BY <1>1, <2>1, SinglesStay
  <2> QED  BY <2>1, <2>2, <2>3, IsEntry
<1>3. EntryOK(k, Overlooked(e)) /\ Distrusted(Overlooked(e))
  <2>1. PICK n : n = Overlooked(e)
    OBVIOUS
  <2>2. n \in Entries(Page(RowType(k))) /\ Paged(n) /\ Distrusted(n)
    BY <1>1, <2>1, OverlookedDistrusts
  <2>3. k[1] # "matches" => SinglePage(n)
    BY <1>1, <2>1, SinglesStay
  <2> QED  BY <2>1, <2>2, <2>3, IsEntry
<1>4. EntryOK(k, Empty) /\ Distrusted(Empty)
  <2>1. Empty \in Entries(Page(RowType(k))) /\ Empty.data = <<>> /\ ~Fetching(Empty)
    BY EmptyEntry
  <2>2. Paged(Empty) /\ Distrusted(Empty)
    BY EmptyDistrusted
  <2>3. SinglePage(Empty)
    BY <2>1 DEF SinglePage, IsSingle
  <2> QED  BY <2>1, <2>2, <2>3, IsEntry
<1> QED  BY <1>2, <1>3, <1>4

\* The methods of the client: what each makes of every entry.
AllFollow(c, d) == CacheOK(d) /\ \A k \in Keys : Follows(k, c[k], d[k])

LEMMA DoubtFollows ==
  ASSUME NEW k, NEW e, NEW n, EntryOK(k, n), Distrusted(n)
  PROVE  Follows(k, e, n)
BY DistrustedAgrees DEF Follows

LEMMA CacheMade ==
  ASSUME NEW c, NEW d, d = [k \in Keys |-> d[k]], \A k \in Keys : Follows(k, c[k], d[k])
  PROVE  AllFollow(c, d)
BY DEF AllFollow, CacheOK, Follows

LEMMA FollowOn ==
  ASSUME NEW a, NEW b, NEW c, AllFollow(a, b), AllFollow(b, c)
  PROVE  AllFollow(a, c)
BY DEF AllFollow, Follows

LEMMA AllMounted ==
  ASSUME NEW c, CacheOK(c), NEW shown, NEW expired
  PROVE  AllFollow(c, MountQueries(c, shown, expired))
<1>1. PICK d : d = MountQueries(c, shown, expired)
  OBVIOUS
<1>2. DOMAIN c = Keys /\ \A k \in Keys : EntryOK(k, c[k])
  BY DEF CacheOK
<1>3. d = [k \in Keys |-> IF k \in shown THEN Mount(c[k], k \in expired) ELSE c[k]]
  BY <1>1, <1>2 DEF MountQueries
<1>4. ASSUME NEW k \in Keys PROVE Follows(k, c[k], d[k])
  BY <1>2, <1>3, EntryKept
<1> QED  BY <1>1, <1>3, <1>4, CacheMade

LEMMA AllInvalidated ==
  ASSUME NEW c, CacheOK(c), NEW key, NEW shown
  PROVE  LET d == InvalidateQueries(c, key, shown)
         IN AllFollow(c, d) /\ \A k \in Keys : IF IsPrefix(key, k) THEN Distrusted(d[k]) ELSE d[k] = c[k]
<1>1. PICK d : d = InvalidateQueries(c, key, shown)
  OBVIOUS
<1>2. DOMAIN c = Keys /\ \A k \in Keys : EntryOK(k, c[k])
  BY DEF CacheOK
<1>3. d = [k \in Keys |-> IF IsPrefix(key, k) THEN Invalidate(c[k], k \in shown) ELSE c[k]]
  BY <1>1, <1>2 DEF InvalidateQueries
<1>4. ASSUME NEW k \in Keys, IsPrefix(key, k) PROVE EntryOK(k, d[k]) /\ Distrusted(d[k])
  <2>1. (k \in shown) \in BOOLEAN
    OBVIOUS
  <2>2. d[k] = Invalidate(c[k], k \in shown)
    BY <1>3, <1>4
  <2> QED  BY <1>2, <2>1, <2>2, EntryDoubted
<1>5. ASSUME NEW k \in Keys PROVE Follows(k, c[k], d[k])
  <2>1. ~IsPrefix(key, k) => d[k] = c[k]
    BY <1>3
  <2> QED  BY <1>2, <1>4, <2>1, DoubtFollows, EntryKept
<1> QED  BY <1>1, <1>3, <1>4, <1>5, CacheMade

LEMMA AllRemoved ==
  ASSUME NEW c, CacheOK(c), NEW key
  PROVE  LET d == RemoveQueries(c, key)
         IN AllFollow(c, d) /\ \A k \in Keys : IF IsPrefix(key, k) THEN Distrusted(d[k]) ELSE d[k] = c[k]
<1>1. PICK d : d = RemoveQueries(c, key)
  OBVIOUS
<1>2. DOMAIN c = Keys /\ \A k \in Keys : EntryOK(k, c[k])
  BY DEF CacheOK
<1>3. d = [k \in Keys |-> IF IsPrefix(key, k) THEN Empty ELSE c[k]]
  BY <1>1, <1>2 DEF RemoveQueries
<1>4. ASSUME NEW k \in Keys, IsPrefix(key, k) PROVE EntryOK(k, d[k]) /\ Distrusted(d[k])
  <2>1. d[k] = Empty
    BY <1>3, <1>4
  <2> QED  BY <1>2, <2>1, EntryDoubted
<1>5. ASSUME NEW k \in Keys PROVE Follows(k, c[k], d[k])
  <2>1. ~IsPrefix(key, k) => d[k] = c[k]
    BY <1>3
  <2> QED  BY <1>2, <1>4, <2>1, DoubtFollows, EntryKept
<1> QED  BY <1>1, <1>3, <1>4, <1>5, CacheMade

LEMMA AllOverlooked ==
  ASSUME NEW c, CacheOK(c)
  PROVE  AllFollow(c, OverlookQueries(c)) /\ \A k \in Keys : Distrusted(OverlookQueries(c)[k])
<1>1. PICK d : d = OverlookQueries(c)
  OBVIOUS
<1>2. DOMAIN c = Keys /\ \A k \in Keys : EntryOK(k, c[k])
  BY DEF CacheOK
<1>3. d = [k \in Keys |-> Overlooked(c[k])]
  BY <1>1, <1>2 DEF OverlookQueries
<1>4. ASSUME NEW k \in Keys PROVE EntryOK(k, d[k]) /\ Distrusted(d[k])
  BY <1>2, <1>3, EntryDoubted
<1>5. ASSUME NEW k \in Keys PROVE Follows(k, c[k], d[k])
  BY <1>4, DoubtFollows
<1> QED  BY <1>1, <1>3, <1>4, <1>5, CacheMade

LEMMA OneFollows ==
  ASSUME NEW c, CacheOK(c), NEW key \in Keys, NEW n, Follows(key, c[key], n)
  PROVE  AllFollow(c, [c EXCEPT ![key] = n])
<1>1. PICK d : d = [c EXCEPT ![key] = n]
  OBVIOUS
<1>2. DOMAIN c = Keys /\ \A k \in Keys : EntryOK(k, c[k])
  BY DEF CacheOK
<1>3. d = [k \in Keys |-> IF k = key THEN n ELSE c[k]]
  BY <1>1, <1>2 DEF CacheOK
<1>4. ASSUME NEW k \in Keys PROVE Follows(k, c[k], d[k])
  BY <1>2, <1>3, EntryKept
<1> QED  BY <1>1, <1>3, <1>4, CacheMade

LEMMA AllCancelled ==
  ASSUME NEW c, CacheOK(c), NEW key
  PROVE  AllFollow(c, CancelQueries(c, key))
<1>1. PICK d : d = CancelQueries(c, key)
  OBVIOUS
<1>2. DOMAIN c = Keys /\ \A k \in Keys : EntryOK(k, c[k])
  BY DEF CacheOK
<1>3. d = [k \in Keys |-> IF IsPrefix(key, k) THEN Cancel(c[k]) ELSE c[k]]
  BY <1>1, <1>2 DEF CancelQueries
<1>4. ASSUME NEW k \in Keys PROVE Follows(k, c[k], d[k])
  BY <1>2, <1>3, EntryKept
<1> QED  BY <1>1, <1>3, <1>4, CacheMade

\* Data that the client sets: of one query, and of no more than one page.
LEMMA DataSet ==
  ASSUME NEW c, CacheOK(c), NEW key \in Keys, key[1] # "matches",
         NEW pages, Singles(RowType(key), pages), HasData(c[key]) => pages # <<>>
  PROVE  LET d == SetQueryData(c, key, pages)
         IN CacheOK(d) /\ \A k \in Keys : k # key => d[k] = c[k]
<1>1. EntryOK(key, c[key]) /\ c = [k \in Keys |-> c[k]]
  BY DEF CacheOK
<1>2. /\ c[key] \in Entries(Page(RowType(key))) /\ Paged(c[key]) /\ SinglePage(c[key])
      /\ pages \in Seq(Page(RowType(key))) /\ IsSingle(pages)
  BY <1>1, EntryIs DEF Singles
<1>3. PICK n : n = SetData(c[key], pages)
  OBVIOUS
<1>4. n \in Entries(Page(RowType(key))) /\ Paged(n)
  BY <1>2, <1>3, SetDataPaged
<1>5. SinglePage(n)
  <2>1. /\ n.data = pages
        /\ Fetching(n) => Fetching(c[key]) /\ n.fetch.more = c[key].fetch.more /\ n.fetch.got = c[key].fetch.got
    BY <1>2, <1>3, SetDataEntry
  <2> QED  BY <1>2, <2>1 DEF SinglePage
<1>6. EntryOK(key, n)
  BY <1>4, <1>5, IsEntry
<1>7. PICK d : d = SetQueryData(c, key, pages)
  OBVIOUS
<1>8. pages = <<>> => d = c
  BY <1>7 DEF SetQueryData
<1>9. pages # <<>> => d = [k \in Keys |-> IF k = key THEN n ELSE c[k]]
  BY <1>1, <1>3, <1>7 DEF SetQueryData
<1>10. CacheOK(d) /\ \A k \in Keys : k # key => d[k] = c[k]
  <2>1. CASE pages = <<>>
    BY <1>8, <2>1
  <2>2. CASE pages # <<>>
    BY <1>6, <1>9, <2>2 DEF CacheOK
  <2> QED  BY <2>1, <2>2
<1> QED  BY <1>7, <1>10

-----------------------------------------------------------------------------
(* Fetches and their answers.                                              *)

\* What agreed with the service does so still.
AllAgree(c, d) == CacheOK(d) /\ \A k \in Keys : Agrees(c[k], Held(k)) => Agrees(d[k], Held(k))

LEMMA FollowAgrees == ASSUME NEW c, NEW d, AllFollow(c, d) PROVE AllAgree(c, d)
BY DEF AllFollow, AllAgree, Follows

LEMMA OneAgrees ==
  ASSUME NEW c, CacheOK(c), NEW key \in Keys, NEW n, EntryOK(key, n),
         Agrees(c[key], Held(key)) => Agrees(n, Held(key))
  PROVE  AllAgree(c, [c EXCEPT ![key] = n])
<1>1. PICK d : d = [c EXCEPT ![key] = n]
  OBVIOUS
<1>2. d = [k \in Keys |-> IF k = key THEN n ELSE c[k]]
  BY <1>1 DEF CacheOK
<1>3. CacheOK(d)
  BY <1>2 DEF CacheOK
<1>4. \A k \in Keys : Agrees(c[k], Held(k)) => Agrees(d[k], Held(k))
  BY <1>2
<1> QED  BY <1>1, <1>3, <1>4 DEF AllAgree

\* What the service answers to the query of a topic, of a match, of all topics.
LEMMA SingleAnswered ==
  ASSUME TypesInv, NEW k \in Keys, k[1] # "matches", Found(k)
  PROVE  /\ PageOf(k) \in Page(RowType(k)) /\ \E x : PageOf(k) = Single(x)
         /\ <<PageOf(k)>> \in Held(k)
<1>1. CASE k[1] = "topics"
  <2>1. PageOf(k) = Single(ListTopicsWithStats) /\ Held(k) = HeldTopics /\ RowType(k) = SUBSET TopicRow
    BY <1>1 DEF PageOf, Held, RowType
  <2> QED  BY <2>1, TopicsType, SingleInPage DEF HeldTopics
<1>2. CASE k[1] = "topic"
  <2>1. /\ PageOf(k) = Single(GetTopicWithStats(k[2])) /\ Held(k) = HeldTopic(k[2])
        /\ RowType(k) = TopicRow /\ k[2] \in DOMAIN topics
    BY <1>2 DEF PageOf, Held, RowType, Found
  <2>2. PICK row \in TopicRow : row = GetTopicWithStats(k[2])
    BY <2>1, TopicType
  <2>3. [row EXCEPT !.newCount = NewCount(k[2])] = row
    BY <2>2 DEF GetTopicWithStats
  <2>4. PICK pages : pages = <<Single(row)>>
    OBVIOUS
  <2>5. Single(row) \in Page(TopicRow)
    BY SingleInPage
  <2>6. pages \in Seq(Page(TopicRow)) /\ pages # <<>> /\ pages[1].items[1] = row
    BY <2>4, <2>5 DEF Single
  <2>7. pages \in HeldTopic(k[2])
    BY <2>1, <2>2, <2>3, <2>6 DEF HeldTopic
  <2> QED  BY <2>1, <2>2, <2>4, <2>5, <2>7
<1>3. CASE k[1] = "match"
  <2>1. /\ PageOf(k) = Single(GetMatch(k[2])) /\ Held(k) = HeldMatch(k[2])
        /\ RowType(k) = MatchRow /\ k[2] \in DOMAIN matches
    BY <1>3 DEF PageOf, Held, RowType, Found
  <2>2. Single(GetMatch(k[2])) \in Page(MatchRow)
    BY <2>1, MatchType, SingleInPage
  <2>3. <<Single(GetMatch(k[2]))>> \in HeldMatch(k[2])
    BY <2>2 DEF HeldMatch
  <2> QED  BY <2>1, <2>2, <2>3
<1> QED  BY <1>1, <1>2, <1>3, KeyKinds

\* And to the query of a list of matches.
LEMMA MatchesAnswered ==
  ASSUME TypesInv, NEW k \in Keys, k[1] = "matches", Fetching(cache[k]), ~Answered(cache[k])
  PROVE  LET n == Answer(cache[k], PageOf(k))
         IN EntryOK(k, n) /\ (Agrees(cache[k], Held(k)) => Agrees(n, Held(k)))
<1>1. /\ RowType(k) = MatchRow /\ Held(k) = FreshPages(MatchRow, ListMatches(k[2]))
  BY DEF RowType, Held, HeldMatches
<1>2. PICK e : e = cache[k]
  OBVIOUS
<1>3. e \in Entries(Page(MatchRow)) /\ Paged(e) /\ Fetching(e) /\ ~Answered(e)
  BY <1>1, <1>2, EntryIs DEF TypesInv, CacheOK
<1>4. PICK V \in Seq(MatchRow) : V = ListMatches(k[2])
  BY MatchesType
<1>5. PICK from \in Nat : from = Offset(e)
  BY <1>3, OffsetType
<1>6. PICK len \in Nat : len = Len(V)
  BY LenProperties
<1>7. PICK to \in Nat : to = IF from + MatchesPageSize < len THEN from + MatchesPageSize ELSE len
  BY TopicsClientAssumption
<1>8. to <= len /\ (from <= len => from <= to) /\ (~(from <= len) => to <= from)
  BY <1>7, TopicsClientAssumption
<1>9. PICK answer : answer = PageOf(k)
  OBVIOUS
<1>10. answer = [items |-> SubSeq(V, from + 1, to), total |-> Len(V)]
  BY <1>2, <1>4, <1>5, <1>6, <1>7, <1>9 DEF PageOf
<1>11. answer \in Page(MatchRow)
  BY <1>6, <1>8, <1>10, ListedPage
<1>12. Offset(e) <= Len(V) => Offset(e) <= to /\ to <= Len(V)
  BY <1>5, <1>6, <1>8
<1>13. answer = [items |-> SubSeq(V, Offset(e) + 1, to), total |-> Len(V)]
  BY <1>5, <1>10
<1>14. PICK n : n = Answer(e, answer)
  OBVIOUS
<1>15. /\ n \in Entries(Page(MatchRow)) /\ Paged(n)
       /\ Agrees(e, FreshPages(MatchRow, V)) => Agrees(n, FreshPages(MatchRow, V))
  BY <1>3, <1>11, <1>12, <1>13, <1>14, AnswerAgrees
<1> QED  BY <1>1, <1>2, <1>4, <1>9, <1>14, <1>15, IsEntry

LEMMA Refusal ==
  ASSUME NEW k, NEW e, EntryOK(k, e), Fetching(e), NEW err \in Errors
  PROVE  LET n == Refuse(e, err)
         IN EntryOK(k, n) /\ (Agrees(e, Held(k)) => Agrees(n, Held(k)))
<1>1. e \in Entries(Page(RowType(k))) /\ Paged(e) /\ (k[1] # "matches" => SinglePage(e))
  BY EntryIs
<1>2. PICK n : n = Refuse(e, err)
  OBVIOUS
<1>3. n \in Entries(Page(RowType(k))) /\ Paged(n) /\ (Agrees(e, Held(k)) => Agrees(n, Held(k)))
  BY <1>1, <1>2, RefuseAgrees
<1>4. k[1] # "matches" => SinglePage(n)
  BY <1>1, <1>2, SingleLands
<1> QED  BY <1>2, <1>3, <1>4, IsEntry

LEMMA Landed ==
  ASSUME NEW k, NEW e, EntryOK(k, e), Fetching(e), Answered(e)
  PROVE  LET n == Land(e)
         IN EntryOK(k, n) /\ (Agrees(e, Held(k)) => Agrees(n, Held(k)))
<1>1. e \in Entries(Page(RowType(k))) /\ Paged(e) /\ (k[1] # "matches" => SinglePage(e))
  BY EntryIs
<1>2. PICK n : n = Land(e)
  OBVIOUS
<1>3. n \in Entries(Page(RowType(k))) /\ Paged(n) /\ (Agrees(e, Held(k)) => Agrees(n, Held(k)))
  BY <1>1, <1>2, LandAgrees
<1>4. k[1] # "matches" => SinglePage(n)
  BY <1>1, <1>2, SingleLands
<1> QED  BY <1>2, <1>3, <1>4, IsEntry

LEMMA ReadAgrees ==
  ASSUME TypesInv, NEW k \in Keys, Read(k)
  PROVE  AllAgree(cache, cache')
<1>1. CacheOK(cache) /\ EntryOK(k, cache[k]) /\ Fetching(cache[k]) /\ ~Answered(cache[k])
  BY DEF TypesInv, CacheOK, Read
<1>2. PICK n : /\ cache' = [cache EXCEPT ![k] = n]
               /\ \/ Found(k) /\ n = Answer(cache[k], PageOf(k))
                  \/ n = Refuse(cache[k], "notFound") \/ n = Refuse(cache[k], "failed")
  BY DEF Read
<1>3. EntryOK(k, n) /\ (Agrees(cache[k], Held(k)) => Agrees(n, Held(k)))
  <2>1. ASSUME NEW err \in Errors, n = Refuse(cache[k], err)
        PROVE  EntryOK(k, n) /\ (Agrees(cache[k], Held(k)) => Agrees(n, Held(k)))
    BY <1>1, <2>1, Refusal
  <2>2. "notFound" \in Errors /\ "failed" \in Errors
    BY DEF Errors
  <2>3. CASE Found(k) /\ n = Answer(cache[k], PageOf(k)) /\ k[1] = "matches"
    BY <1>1, <2>3, MatchesAnswered
  <2>4. CASE Found(k) /\ n = Answer(cache[k], PageOf(k)) /\ k[1] # "matches"
    <3>1. PICK answer : answer = PageOf(k)
      OBVIOUS
    <3>2. answer \in Page(RowType(k)) /\ (\E x : answer = Single(x)) /\ <<answer>> \in Held(k)
      BY <2>4, <3>1, SingleAnswered
    <3>3. cache[k] \in Entries(Page(RowType(k))) /\ SinglePage(cache[k])
      BY <1>1, <2>4, EntryIs
    <3>4. n \in Entries(Page(RowType(k))) /\ SinglePage(n)
          /\ \A G : Agrees(cache[k], G) /\ <<answer>> \in G => Agrees(n, G)
      BY <1>1, <2>4, <3>1, <3>2, <3>3, AnswerSingle
    <3> QED  BY <2>4, <3>2, <3>4, IsEntry, SingleIsPaged
  <2> QED  BY <1>2, <2>1, <2>2, <2>3, <2>4
<1> QED  BY <1>1, <1>2, <1>3, OneAgrees

LEMMA QueryAgrees ==
  ASSUME TypesInv, NEW k \in Keys, Read(k) \/ Arrive(k) \/ Rebuild(k) \/ LoadMore(k) \/ Retry(k)
  PROVE  AllAgree(cache, cache')
<1>1. CacheOK(cache) /\ EntryOK(k, cache[k])
  BY DEF TypesInv, CacheOK
<1>2. CASE Read(k)
  BY <1>2, ReadAgrees
<1>3. CASE Arrive(k)
  BY <1>1, <1>3, Landed, OneAgrees DEF Arrive
<1>4. CASE Rebuild(k) \/ Retry(k)
  <2>1. PICK n : cache' = [cache EXCEPT ![k] = n] /\ (n = Mount(cache[k], FALSE) \/ n = Refetch(cache[k]))
    BY <1>4 DEF Rebuild, Retry
  <2>2. Follows(k, cache[k], n)
    BY <1>1, <2>1, EntryKept
  <2> QED  BY <1>1, <2>1, <2>2, OneFollows, FollowAgrees
<1>5. CASE LoadMore(k)
  <2>1. k[1] = "matches"
    BY <1>5, KeyHeads DEF LoadMore, MatchesShown, MatchesKey
  <2>2. PICK n : n = FetchNextPage(cache[k]) /\ cache' = [cache EXCEPT ![k] = n]
    BY <1>5 DEF LoadMore
  <2>3. HasData(cache[k])
    BY <1>5 DEF LoadMore, HasNextPage, NextPage, HasData
  <2>4. cache[k] \in Entries(Page(RowType(k))) /\ Paged(cache[k])
    BY <1>1, EntryIs
  <2>5. n \in Entries(Page(RowType(k))) /\ Paged(n) /\ (Agrees(cache[k], Held(k)) => Agrees(n, Held(k)))
    BY <2>2, <2>3, <2>4, FetchNextPageAgrees
  <2> QED  BY <1>1, <2>1, <2>2, <2>5, IsEntry, OneAgrees
<1> QED  BY <1>2, <1>3, <1>4, <1>5

-----------------------------------------------------------------------------
(* What is on screen, and where it leads.                                  *)

\* The data of a query that has one page.
LEMMA DataIs ==
  ASSUME TypesInv, NEW k \in Keys
  PROVE  /\ cache[k].data \in Seq(Page(RowType(k)))
         /\ k[1] # "matches" => Singles(RowType(k), cache[k].data)
         /\ k[1] # "matches" /\ HasData(cache[k]) => Only(cache[k]) \in RowType(k)
<1>1. cache[k] \in Entries(Page(RowType(k))) /\ (k[1] # "matches" => SinglePage(cache[k]))
  BY EntryIs DEF TypesInv, CacheOK
<1>2. PICK data \in Seq(Page(RowType(k))) : data = cache[k].data
  BY <1>1, EntryFields
<1>3. k[1] # "matches" => IsSingle(data)
  BY <1>1, <1>2 DEF SinglePage
<1>4. ASSUME k[1] # "matches", data # <<>> PROVE data[1].items[1] \in RowType(k)
  <2>1. PICK T : T = RowType(k)
    OBVIOUS
  <2>2. data \in Seq(Page(T)) /\ IsSingle(data)
    BY <1>3, <1>4, <2>1
  <2> QED  BY <1>4, <2>1, <2>2, SingleType
<1> QED  BY <1>2, <1>3, <1>4 DEF Singles, HasData, Only

LEMMA ListedTopics ==
  ASSUME TypesInv, HasData(cache[TopicsKey])
  PROVE  \A row \in Only(cache[TopicsKey]) : row.id \in TopicIds
<1>1. Only(cache[TopicsKey]) \in SUBSET TopicRow
  BY DataIs, KeyHeads DEF RowType
<1> QED  BY <1>1 DEF TopicRow

LEMMA Numbers == ASSUME TRUE PROVE TopicIds \subseteq Nat /\ Match \subseteq Nat
BY TopicsClientAssumption DEF TopicIds

LEMMA ListOnScreen ==
  ASSUME TypesInv, page.at \in {"inbox", "topic"}
  PROVE  /\ MatchesKey(Filters(page)) \in Keys
         /\ Pages(MatchesKey(Filters(page))) \in Seq(Page(MatchRow))
<1>1. page.id \in {0} \union TopicIds /\ page.state \in {"new", "any"} /\ page.held \in Seq(Page(MatchRow))
  BY DEF TypesInv, IsPage, Place
<1>2. Filters(page) \in MatchFilters
  BY <1>1 DEF Filters, MatchFilters
<1>3. PICK k : k = MatchesKey(Filters(page))
  OBVIOUS
<1>4. k \in Keys /\ k[1] = "matches"
  BY <1>2, <1>3, KeyHeads
<1>5. cache[k].data \in Seq(Page(MatchRow))
  BY <1>4, DataIs DEF RowType
<1> QED  BY <1>1, <1>3, <1>4, <1>5 DEF Pages

LEMMA ShownMatches ==
  ASSUME TypesInv, NEW k \in MatchesShown
  PROVE  k \in Keys /\ k = MatchesKey(Filters(page)) /\ Pages(k) \in Seq(Page(MatchRow))
<1>1. page.at \in {"inbox", "topic"} /\ k = MatchesKey(Filters(page))
  BY DEF MatchesShown
<1> QED  BY <1>1, ListOnScreen

LEMMA Places ==
  /\ Place(Inbox) /\ Place(TopicsPage)
  /\ \A t \in {0} \union TopicIds : \A state \in {"new", "any"} : Place(InboxPage(t, state))
  /\ \A t \in TopicIds : Place(TopicPage(t))
  /\ \A m \in Match : Place(MatchPage(m))
BY Numbers DEF Place, Inbox, InboxPage, TopicsPage, TopicPage, MatchPage

LEMMA LinksLead ==
  ASSUME TypesInv, NEW p \in Links
  PROVE  Place(p)
<1>0. IsPage(page)
  BY DEF TypesInv
<1>1. CASE page.at = "inbox"
  <2>1. page.id \in {0} \union TopicIds /\ page.state \in {"new", "any"}
    BY <1>0, <1>1 DEF IsPage, Place
  <2>2. ASSUME p \in InboxFilterBar PROVE Place(p)
    <3>1. PICK rows : rows = IF HasData(cache[TopicsKey]) THEN Only(cache[TopicsKey]) ELSE {}
      OBVIOUS
    <3>2. \A row \in rows : row.id \in TopicIds
      BY <3>1, ListedTopics
    <3>3. p \in {InboxPage(page.id, state) : state \in {"new", "any"}}
               \union {InboxPage(t, page.state) : t \in {0} \union {row.id : row \in visibleTopics(rows, page.id)}}
      BY <2>2, <3>1 DEF InboxFilterBar
    <3>4. \A row \in visibleTopics(rows, page.id) : row.id \in TopicIds
      BY <3>2 DEF visibleTopics
    <3>5. CASE p \in {InboxPage(page.id, state) : state \in {"new", "any"}}
      BY <2>1, <3>5, Places
    <3>6. ASSUME NEW t \in {0} \union {row.id : row \in visibleTopics(rows, page.id)}, p = InboxPage(t, page.state)
          PROVE  Place(p)
      <4>1. t \in {0} \union TopicIds
        BY <3>4, <3>6
      <4> QED  BY <2>1, <3>6, <4>1, Places
    <3> QED  BY <3>3, <3>5, <3>6
  <2> QED  BY <1>1, <2>2, Places DEF Links
<1>2. CASE page.at = "topics"
  <2>1. p = Inbox \/ p \in TopicsListRoute
    BY <1>2 DEF Links
  <2>2. ASSUME p \in TopicsListRoute PROVE Place(p)
    <3>1. HasData(cache[TopicsKey]) /\ \E row \in Only(cache[TopicsKey]) : p = TopicPage(row.id)
      BY <2>2 DEF TopicsListRoute, Shows, TopicCard
    <3> QED  BY <3>1, ListedTopics, Places
  <2> QED  BY <2>1, <2>2, Places
<1>3. CASE page.at = "topic"
  BY <1>3, Places DEF Links
<1>4. CASE page.at = "match"
  <2>1. page.id \in Match
    BY <1>0, <1>4 DEF IsPage, Place
  <2>2. p = Inbox \/ (HasData(cache[MatchKey(page.id)]) /\ p = TopicPage(Only(cache[MatchKey(page.id)]).topic))
    BY <1>4 DEF Links, Shows
  <2>3. HasData(cache[MatchKey(page.id)]) => Only(cache[MatchKey(page.id)]) \in MatchRow
    BY <2>1, DataIs, KeyHeads DEF RowType
  <2>4. \A row \in MatchRow : row.topic \in TopicIds
    BY DEF MatchRow
  <2> QED  BY <2>2, <2>3, <2>4, Places
<1> QED  BY <1>0, <1>1, <1>2, <1>3, <1>4 DEF IsPage, Place

LEMMA GridLeads ==
  ASSUME TypesInv, NEW p \in MatchGrid
  PROVE  Place(p)
<1>1. PICK k \in MatchesShown : p \in {MatchCard(row) : row \in ToSet(Rows(Pages(k)))}
  BY DEF MatchGrid
<1>2. PICK rows : rows = Rows(Pages(k))
  OBVIOUS
<1>3. rows \in Seq(MatchRow)
  BY <1>2, ShownMatches, RowsType
<1>4. PICK row \in ToSet(rows) : p = MatchPage(row.id)
  BY <1>1, <1>2 DEF MatchCard
<1>5. row \in MatchRow
  <2>1. PICK n \in DOMAIN rows : row = rows[n]
    BY DEF ToSet
  <2> QED  BY <1>3, <2>1
<1> QED  BY <1>4, <1>5, Places DEF MatchRow

LEMMA FreshIs ==
  ASSUME NEW p, Place(p), NEW held \in Seq(Page(MatchRow))
  PROVE  IsPage(Fresh(p, held))
BY DEF Place, IsPage, Fresh

-----------------------------------------------------------------------------
(* Requests: what they are about, and what they owe.                       *)

\* The types of a request.
IsRequest(r) ==
  /\ r.kind \in {"none", "create", "update", "delete", "seen"} /\ r.id \in Nat
  /\ r.text \in Text \union {NoText} /\ r.at \in {"idle", "sent", "embedding", "answered"}
  /\ r.result \in {"", "ok", "notFound", "unavailable", "failed"} /\ r.heard \in {"no", "page", "form"}
  /\ About(r)
SameDue(n, o) == n.kind = o.kind /\ n.id = o.id /\ n.at = o.at /\ n.result = o.result

LEMMA RequestIs == ASSUME TypesInv, NEW k \in TopicOp PROVE IsRequest(request[k])
BY DEF TypesInv, TopicsTypeOK, TopicsStateOK, IsRequest

LEMMA IdleIs == IsRequest(NoOp) /\ NoOp.at = "idle"
BY DEF NoOp, IsRequest, About

LEMMA HeardIs ==
  ASSUME NEW o, IsOp(o), IsRequest(o), NEW heard \in {"no", "page", "form"}
  PROVE  LET n == [o EXCEPT !.heard = heard]
         IN IsRequest(n) /\ SameDue(n, o)
<1>1. PICK n : n = [o EXCEPT !.heard = heard]
  OBVIOUS
<1>2. /\ n.kind = o.kind /\ n.id = o.id /\ n.at = o.at /\ n.result = o.result
      /\ n.patch = o.patch /\ n.text = o.text /\ n.back = o.back /\ n.heard = heard
  BY <1>1 DEF IsOp
<1>3. About(n)
  BY <1>2 DEF About, IsRequest
<1> QED  BY <1>1, <1>2, <1>3 DEF IsRequest, SameDue

\* A request whose answer is on its way, or has been changed on the way.
LEMMA AnswerIs ==
  ASSUME EmbedInv, TypesInv, NEW k \in TopicOp, request[k].at # "idle",
         NEW result \in {"", "ok", "notFound", "unavailable", "failed"}, Finish(k, result)
  PROVE  /\ \A n \in TopicOp : IsRequest(request'[n])
         /\ \A n \in TopicOp \ {k} : request'[n] = request[n]
         /\ request'[k].kind = request[k].kind /\ request'[k].id = request[k].id
         /\ request'[k].at = "answered" /\ request'[k].result = result
<1>1. request = [n \in TopicOp |-> request[n]] /\ IsOp(request[k]) /\ IsRequest(request[k])
  BY RequestIs DEF EmbedInv, OpsOK
<1>2. PICK o : o = request[k]
  OBVIOUS
<1>3. PICK n : n = [o EXCEPT !.at = "answered", !.result = result, !.text = NoText]
  OBVIOUS
<1>4. /\ n.kind = o.kind /\ n.id = o.id /\ n.at = "answered" /\ n.result = result
      /\ n.patch = o.patch /\ n.text = NoText /\ n.back = o.back /\ n.heard = o.heard
  BY <1>1, <1>2, <1>3 DEF IsOp
<1>5. About(n)
  BY <1>1, <1>2, <1>4 DEF About, IsRequest
<1>6. IsRequest(n)
  BY <1>1, <1>2, <1>4, <1>5 DEF IsRequest
<1>7. request' = [m \in TopicOp |-> IF m = k THEN n ELSE request[m]]
  BY <1>1, <1>2, <1>3 DEF Finish, Becomes
<1> QED  BY <1>2, <1>4, <1>6, <1>7, RequestIs

\* One request is another one now; nobody listens to some.
LEMMA OneRequest ==
  ASSUME EmbedInv, TypesInv, NEW k \in TopicOp, NEW o, IsRequest(o), request' = [request EXCEPT ![k] = o]
  PROVE  /\ \A n \in TopicOp : IsRequest(request'[n])
         /\ \A n \in TopicOp \ {k} : request'[n] = request[n]
         /\ request'[k] = o
<1>1. request' = [m \in TopicOp |-> IF m = k THEN o ELSE request[m]]
  BY DEF EmbedInv, OpsOK
<1> QED  BY <1>1, RequestIs

LEMMA OthersHeard ==
  ASSUME EmbedInv, TypesInv, NEW k \in TopicOp,
         \/ request'[k] = request[k]
         \/ request'[k] = [request[k] EXCEPT !.heard = "no"]
         \/ request'[k] = [request[k] EXCEPT !.heard = "page"]
  PROVE  IsRequest(request'[k]) /\ SameDue(request'[k], request[k])
<1>1. IsOp(request[k]) /\ IsRequest(request[k])
  BY RequestIs DEF EmbedInv, OpsOK
<1>2. PICK no \in {"no", "page", "form"} : no = "no"
  OBVIOUS
<1>3. PICK open \in {"no", "page", "form"} : open = "page"
  OBVIOUS
<1>4. CASE request'[k] = request[k]
  BY <1>1, <1>4 DEF SameDue
<1>5. CASE request'[k] = [request[k] EXCEPT !.heard = no]
  BY <1>1, <1>5, HeardIs
<1>6. CASE request'[k] = [request[k] EXCEPT !.heard = open]
  BY <1>1, <1>6, HeardIs
<1> QED  BY <1>2, <1>3, <1>4, <1>5, <1>6

LEMMA ListenersGo ==
  ASSUME EmbedInv, TypesInv, request' = Unheard \/ \E kind : request' = FormGone(kind)
  PROVE  \A k \in TopicOp : IsRequest(request'[k]) /\ SameDue(request'[k], request[k])
<1>1. ASSUME NEW k \in TopicOp
      PROVE  \/ request'[k] = request[k]
             \/ request'[k] = [request[k] EXCEPT !.heard = "no"]
             \/ request'[k] = [request[k] EXCEPT !.heard = "page"]
  BY DEF Unheard, FormGone
<1> QED  BY <1>1, OthersHeard

\* What is owed stays owed, unless the request that owes it ends.
LEMMA NothingOwed ==
  ASSUME NEW r, IsRequest(r), r.at = "idle", NEW k \in Keys
  PROVE  ~Owes(r, k)
BY KeyKinds DEF IsRequest, About, Owes, OwesTopics, OwesTopic, OwesMatch, OwesMatches, Done

LEMMA SameOwes ==
  ASSUME NEW r, NEW n, SameDue(n, r), NEW k \in Keys, UNCHANGED topics
  PROVE  Owes(r, k) <=> Owes(n, k)'
BY KeyKinds DEF SameDue, Owes, OwesTopics, OwesTopic, OwesMatch, OwesMatches, Done

LEMMA OwedStays ==
  ASSUME TypesInv, UNCHANGED topics, NEW gone \in SUBSET TopicOp, NEW k \in Keys,
         \A n \in TopicOp \ gone : request[n].at = "idle" \/ SameDue(request'[n], request[n]),
         Owed(k)
  PROVE  Owed(k)' \/ \E n \in gone : Owes(request[n], k)
<1>1. PICK n \in TopicOp : Owes(request[n], k)
  BY DEF Owed
<1>2. CASE n \in gone
  BY <1>1, <1>2
<1>3. CASE n \notin gone
  <2>1. request[n].at # "idle"
    BY <1>1, RequestIs, NothingOwed
  <2>2. SameDue(request'[n], request[n])
    BY <1>3, <2>1
  <2>3. Owes(request[n], k)'
    BY <1>1, <2>2, SameOwes DEF SameDue, Owes, OwesTopics, OwesTopic, OwesMatch, OwesMatches, Done
  <2> QED  BY <2>3 DEF Owed
<1> QED  BY <1>2, <1>3

-----------------------------------------------------------------------------
(* Steps of the client.                                                    *)

ServiceStays == UNCHANGED <<topics, matches, created, reembed, torn>>

LEMMA HeldSame ==
  ASSUME UNCHANGED <<topics, matches>>, NEW k
  PROVE  Held(k)' = Held(k)
<1>1. HeldTopics' = HeldTopics
  BY DEF HeldTopics, ListTopicsWithStats, GetTopicWithStats, NewCount
<1>2. HeldTopic(k[2])' = HeldTopic(k[2])
  BY DEF HeldTopic, GetTopicWithStats, NewCount
<1>3. HeldMatch(k[2])' = HeldMatch(k[2])
  BY DEF HeldMatch, GetMatch
<1>4. HeldMatches(k[2])' = HeldMatches(k[2])
  BY DEF HeldMatches, ListMatches, GetMatch
<1> QED  BY <1>1, <1>2, <1>3, <1>4 DEF Held

\* A step of the client keeps what is fresh, if what is owed is paid or still owed.
LEMMA ClientFresh ==
  ASSUME FreshInv, UNCHANGED <<topics, matches>>, AllAgree(cache, cache'),
         \A k \in Keys : Owed(k) => Owed(k)' \/ Distrusted(cache'[k])
  PROVE  FreshInv'
<1>1. ASSUME NEW k \in Keys PROVE Owed(k)' \/ Agrees(cache'[k], Held(k)')
  <2>1. CASE Owed(k)
    BY <2>1, DistrustedAgrees
  <2>2. CASE Agrees(cache[k], Held(k))
    BY <2>2, HeldSame DEF AllAgree
  <2> QED  BY <2>1, <2>2 DEF FreshInv
<1> QED  BY <1>1 DEF FreshInv

\* The types after such a step: the service has the same rows.
LEMMA ClientTypes ==
  ASSUME TypesInv, ServiceStays, CacheOK(cache'), IsPage(page'),
         newTopic' \in {"closed", "open", "saving", "failed"},
         \A k \in TopicOp : IsRequest(request'[k]),
         created + Cardinality(Creating') <= MaxTopic
  PROVE  TypesInv'
<1>1. TopicsStateOK
  BY DEF TypesInv, TopicsTypeOK
<1>2. TopicsStateOK'
  BY <1>1 DEF ServiceStays, TopicsStateOK, IsRequest
<1>3. \A k \in Keys : cache'[k] \in EntryType(k)
  <2>1. ASSUME NEW k \in Keys PROVE cache'[k] \in EntryType(k)
    <3>1. cache'[k] \in Entries(Page(RowType(k)))
      BY EntryIs DEF CacheOK
    <3> QED  BY <3>1, KeyKinds DEF EntryType, RowType
  <2> QED  BY <2>1
<1>4. page'.at \in {"inbox", "topics", "topic", "match"} /\ page'.held \in Seq(Page(MatchRow))
      /\ page'.edit \in {"closed", "open", "saving", "failed", "saved"}
  BY DEF IsPage
<1>5. TopicsTypeOK'
  BY <1>2, <1>3, <1>4 DEF TopicsTypeOK
<1>6. \A k \in TopicOp : About(request'[k])
  BY DEF IsRequest
<1>7. created' + Cardinality(Creating') <= MaxTopic
  BY DEF ServiceStays
<1> QED  BY <1>5, <1>6, <1>7 DEF TypesInv

\* No request that creates a topic is sent.
LEMMA RoomStays ==
  ASSUME TypesInv, created' = created, Creating' \subseteq Creating
  PROVE  created + Cardinality(Creating') <= MaxTopic
<1>1. IsFiniteSet(TopicOp) /\ Creating \subseteq TopicOp
  BY TopicsAssumption DEF Creating, Pending
<1>2. /\ IsFiniteSet(Creating) /\ IsFiniteSet(Creating')
      /\ Cardinality(Creating') <= Cardinality(Creating)
      /\ Cardinality(Creating) \in Nat /\ Cardinality(Creating') \in Nat
  BY <1>1, FS_Subset, FS_CardinalityType
<1>3. created \in Nat /\ MaxTopic \in Nat /\ created + Cardinality(Creating) <= MaxTopic
  BY Stored, TopicsAssumption DEF TypesInv
<1> QED  BY <1>2, <1>3

\* Requests that stay, or end, or are sent without creating anything.
LEMMA RoomFor ==
  ASSUME TypesInv, created' = created,
         \A k \in TopicOp : request'[k].kind = "create" /\ request'[k].at = "sent" =>
           request[k].kind = "create" /\ request[k].at = "sent"
  PROVE  created + Cardinality(Creating') <= MaxTopic
<1>1. Creating' \subseteq Creating
  BY DEF Creating, Pending
<1> QED  BY <1>1, RoomStays

\* Nothing but the cache and the page moves.
LEMMA OnlyShown ==
  ASSUME TypesInv, FreshInv, UNCHANGED topicsVars, UNCHANGED newTopic, AllAgree(cache, cache'), IsPage(page')
  PROVE  TypesInv' /\ FreshInv'
<1>1. ServiceStays /\ UNCHANGED request
  BY DEF topicsVars, ServiceStays
<1>2. newTopic' \in {"closed", "open", "saving", "failed"} /\ CacheOK(cache')
  BY DEF TypesInv, TopicsTypeOK, AllAgree
<1>3. \A k \in TopicOp : IsRequest(request'[k])
  BY <1>1, RequestIs
<1>4. created + Cardinality(Creating') <= MaxTopic
  BY <1>1, RoomFor DEF ServiceStays
<1>5. TypesInv'
  BY <1>1, <1>2, <1>3, <1>4, ClientTypes
<1>6. \A k \in Keys : Owed(k) => Owed(k)'
  <2>1. \A k \in Keys : Owed(k)' <=> Owed(k)
    BY <1>1 DEF ServiceStays, Owed, Owes, OwesTopics, OwesTopic, OwesMatch, OwesMatches, Done
  <2> QED  BY <2>1
<1>7. FreshInv'
  BY <1>1, <1>6, ClientFresh DEF ServiceStays
<1> QED  BY <1>5, <1>7

\* Listeners go, or a request is sent that owes nothing yet and creates nothing.
LEMMA RequestsFresh ==
  ASSUME TypesInv, FreshInv, ServiceStays, AllAgree(cache, cache'), IsPage(page'),
         newTopic' \in {"closed", "open", "saving", "failed"},
         \A k \in TopicOp : IsRequest(request'[k]),
         \A k \in TopicOp : request[k].at = "idle" \/ SameDue(request'[k], request[k]),
         created + Cardinality(Creating') <= MaxTopic
  PROVE  TypesInv' /\ FreshInv'
<1>1. CacheOK(cache')
  BY DEF AllAgree
<1>2. TypesInv'
  BY <1>1, ClientTypes
<1>3. ASSUME NEW k \in Keys, Owed(k) PROVE Owed(k)'
  <2>1. PICK gone \in SUBSET TopicOp : gone = {}
    OBVIOUS
  <2>2. Owed(k)' \/ \E n \in gone : Owes(request[n], k)
    BY <1>3, <2>1, OwedStays DEF ServiceStays
  <2> QED  BY <2>1, <2>2
<1>4. FreshInv'
  BY <1>3, ClientFresh DEF ServiceStays
<1> QED  BY <1>2, <1>4

\* A request ends, with nothing left to pay for.
LEMMA EndFresh ==
  ASSUME TypesInv, FreshInv, ServiceStays, AllAgree(cache, cache'), IsPage(page'),
         newTopic' \in {"closed", "open", "saving", "failed"}, NEW j \in TopicOp, request'[j] = NoOp,
         \A k \in TopicOp \ {j} : IsRequest(request'[k]) /\ SameDue(request'[k], request[k]),
         \A k \in Keys : Owes(request[j], k) => Distrusted(cache'[k])
  PROVE  TypesInv' /\ FreshInv'
<1>1. CacheOK(cache')
  BY DEF AllAgree
<1>2. \A k \in TopicOp : IsRequest(request'[k])
  BY IdleIs
<1>3. created + Cardinality(Creating') <= MaxTopic
  <2>1. \A k \in TopicOp : request'[k].kind = "create" /\ request'[k].at = "sent" =>
                             request[k].kind = "create" /\ request[k].at = "sent"
    BY IdleIs DEF SameDue
  <2> QED  BY <2>1, RoomFor DEF ServiceStays
<1>4. TypesInv'
  BY <1>1, <1>2, <1>3, ClientTypes
<1>5. ASSUME NEW k \in Keys, Owed(k) PROVE Owed(k)' \/ Distrusted(cache'[k])
  <2>1. PICK gone \in SUBSET TopicOp : gone = {j}
    OBVIOUS
  <2>2. Owed(k)' \/ \E n \in gone : Owes(request[n], k)
    BY <1>5, <2>1, OwedStays DEF ServiceStays
  <2> QED  BY <2>1, <2>2
<1>6. FreshInv'
  BY <1>5, ClientFresh DEF ServiceStays
<1> QED  BY <1>4, <1>6

LEMMA PatchedRowIs ==
  ASSUME NEW row \in TopicRow, NEW patch, IsPatch(patch)
  PROVE  patchTopic(row, patch) \in TopicRow
<1>1. row = [id |-> row.id, name |-> row.name, description |-> row.description,
             isActive |-> row.isActive, newCount |-> row.newCount]
  BY DEF TopicRow
<1>2. DOMAIN row = {"id", "name", "description", "isActive", "newCount"}
  BY <1>1
<1>3. PICK n : n = patchTopic(row, patch)
  OBVIOUS
<1>4. n = [f \in {"id", "name", "description", "isActive", "newCount"} |->
             IF f \in DOMAIN patch THEN patch[f] ELSE row[f]]
  BY <1>2, <1>3 DEF patchTopic, Patched
<1>5. n = [id |-> n.id, name |-> n.name, description |-> n.description,
           isActive |-> n.isActive, newCount |-> n.newCount]
  BY <1>4
<1>6. n.id = row.id /\ n.newCount = row.newCount
  BY <1>4 DEF IsPatch
<1>7. n.name \in Name /\ n.description \in Description /\ n.isActive \in BOOLEAN
  BY <1>4 DEF IsPatch, PatchOK, TopicRow
<1> QED  BY <1>3, <1>5, <1>6, <1>7 DEF TopicRow

LEMMA PatchedData ==
  ASSUME NEW t, NEW patch, IsPatch(patch)
  PROVE  /\ \A pages : Singles(SUBSET TopicRow, pages) =>
              /\ Singles(SUBSET TopicRow, PatchedRows(pages, t, patch))
              /\ pages # <<>> => PatchedRows(pages, t, patch) # <<>>
         /\ \A pages : Singles(TopicRow, pages) =>
              /\ Singles(TopicRow, PatchedRow(pages, patch))
              /\ pages # <<>> => PatchedRow(pages, patch) # <<>>
<1>1. ASSUME NEW T, NEW x \in T PROVE Singles(T, <<Single(x)>>) /\ <<Single(x)>> # <<>>
  <2>1. Single(x) \in Page(T)
    BY SingleInPage
  <2>2. PICK pages : pages = <<Single(x)>>
    OBVIOUS
  <2>3. pages \in Seq(Page(T)) /\ pages # <<>> /\ pages[1].items[1] = x
    BY <2>1, <2>2 DEF Single
  <2> QED  BY <2>2, <2>3 DEF Singles, IsSingle
<1>2. ASSUME NEW pages, Singles(SUBSET TopicRow, pages)
      PROVE  /\ Singles(SUBSET TopicRow, PatchedRows(pages, t, patch))
             /\ pages # <<>> => PatchedRows(pages, t, patch) # <<>>
  <2>1. CASE pages = <<>>
    BY <1>2, <2>1 DEF PatchedRows
  <2>2. CASE pages # <<>>
    <3>1. PICK T : T = SUBSET TopicRow
      OBVIOUS
    <3>2. pages[1].items[1] \in T
      BY <1>2, <2>2, <3>1, SingleType DEF Singles
    <3>3. PICK rows : rows = {IF row.id = t THEN patchTopic(row, patch) ELSE row : row \in pages[1].items[1]}
      OBVIOUS
    <3>4. rows \in T
      BY <3>1, <3>2, <3>3, PatchedRowIs
    <3>5. PatchedRows(pages, t, patch) = <<Single(rows)>>
      BY <2>2, <3>3 DEF PatchedRows
    <3> QED  BY <1>1, <3>1, <3>4, <3>5
  <2> QED  BY <2>1, <2>2
<1>3. ASSUME NEW pages, Singles(TopicRow, pages)
      PROVE  /\ Singles(TopicRow, PatchedRow(pages, patch))
             /\ pages # <<>> => PatchedRow(pages, patch) # <<>>
  <2>1. CASE pages = <<>>
    BY <1>3, <2>1 DEF PatchedRow
  <2>2. CASE pages # <<>>
    <3>1. pages[1].items[1] \in TopicRow
      BY <1>3, <2>2, SingleType DEF Singles
    <3>2. PatchedRow(pages, patch) = <<Single(patchTopic(pages[1].items[1], patch))>>
      BY <2>2 DEF PatchedRow
    <3> QED  BY <1>1, <3>1, <3>2, PatchedRowIs
  <2> QED  BY <2>1, <2>2
<1> QED  BY <1>2, <1>3

\* A request that is sent takes the place of an idle one.
LEMMA SentIs ==
  ASSUME EmbedInv, TypesInv, NEW k \in FreeOp, NEW new, IsOp(new), new.kind \in {"create", "update", "delete", "seen"},
         new.text = NoText, new.result = "", new.heard \in {"no", "page", "form"}, new.id \in Nat,
         new.kind = "update" => new.id \in TopicIds /\ IsPatch(new.patch) /\ IsBack(new.back),
         new.kind = "delete" => new.id \in TopicIds,
         new.kind = "seen" => new.id \in Match,
         Send(k, new)
  PROVE  /\ k \in TopicOp /\ request[k].at = "idle"
         /\ \A n \in TopicOp : IsRequest(request'[n])
         /\ \A n \in TopicOp \ {k} : request'[n] = request[n]
         /\ request'[k].kind = new.kind /\ request'[k].id = new.id
         /\ request'[k].at = "sent"
<1>1. k \in TopicOp /\ request[k].at = "idle"
  BY DEF FreeOp, Pending
<1>2. PICK o : o = [new EXCEPT !.at = "sent"]
  OBVIOUS
<1>3. /\ o.kind = new.kind /\ o.id = new.id /\ o.patch = new.patch /\ o.back = new.back
      /\ o.text = new.text /\ o.result = new.result /\ o.heard = new.heard /\ o.at = "sent"
  BY <1>2 DEF IsOp
<1>4. About(o)
  BY <1>3 DEF About
<1>5. IsRequest(o)
  BY <1>3, <1>4 DEF IsRequest
<1>6. request' = [request EXCEPT ![k] = o]
  BY <1>2 DEF Send
<1> QED  BY <1>1, <1>3, <1>5, <1>6, OneRequest

LEMMA UpdateFresh ==
  ASSUME EmbedInv, TypesInv, FreshInv, NEW t \in TopicIds, NEW patch, IsPatch(patch),
         NEW heard \in {"no", "page", "form"}, useUpdateTopic(t, patch, heard),
         ServiceStays, IsPage(page'), UNCHANGED newTopic
  PROVE  TypesInv' /\ FreshInv'
<1>1. PICK back : back = [topics |-> cache[TopicsKey].data, topic |-> cache[TopicKey(t)].data]
  OBVIOUS
<1>2. PICK o : o = [updateTopic(t, patch) EXCEPT !.heard = heard, !.back = back]
  OBVIOUS
<1>3. PICK k \in FreeOp : Send(k, o)
  BY <1>1, <1>2 DEF useUpdateTopic
<1>4. /\ TopicsKey \in Keys /\ TopicsKey[1] = "topics" /\ RowType(TopicsKey) = SUBSET TopicRow
      /\ TopicKey(t) \in Keys /\ TopicKey(t)[1] = "topic" /\ RowType(TopicKey(t)) = TopicRow
  BY KeyHeads DEF RowType
<1>5. Singles(SUBSET TopicRow, cache[TopicsKey].data) /\ Singles(TopicRow, cache[TopicKey(t)].data)
  BY <1>4, DataIs
<1>6. IsBack(back)
  BY <1>1, <1>5 DEF IsBack
<1>7. /\ IsOp(o) /\ o.kind = "update" /\ o.id = t /\ o.patch = patch /\ o.back = back
      /\ o.text = NoText /\ o.result = "" /\ o.heard = heard
  BY <1>2 DEF updateTopic, NoOp, IsOp
<1>8. /\ k \in TopicOp /\ request[k].at = "idle"
      /\ \A n \in TopicOp : IsRequest(request'[n])
      /\ \A n \in TopicOp \ {k} : request'[n] = request[n]
      /\ request'[k].kind = "update" /\ request'[k].id = t /\ request'[k].at = "sent"
  BY <1>3, <1>6, <1>7, SentIs, Numbers
<1>9. PICK c1 : c1 = CancelQueries(cache, TopicsKey)
  OBVIOUS
<1>10. PICK rows, row : rows = PatchedRows(cache[TopicsKey].data, t, patch)
                        /\ row = PatchedRow(cache[TopicKey(t)].data, patch)
  OBVIOUS
<1>11. /\ Singles(SUBSET TopicRow, rows) /\ (cache[TopicsKey].data # <<>> => rows # <<>>)
       /\ Singles(TopicRow, row) /\ (cache[TopicKey(t)].data # <<>> => row # <<>>)
  BY <1>5, <1>10, PatchedData
<1>12. PICK c2 : c2 = SetQueryData(c1, TopicsKey, rows)
  OBVIOUS
<1>13. cache' = SetQueryData(c2, TopicKey(t), row)
  BY <1>9, <1>10, <1>12 DEF useUpdateTopic
<1>14. CacheOK(cache)
  BY DEF TypesInv
<1>15. AllFollow(cache, c1) /\ CacheOK(c1)
  BY <1>9, <1>14, AllCancelled DEF AllFollow
<1>16. HasData(c1[TopicsKey]) => rows # <<>>
  <2>1. cache[TopicsKey] \in Entries(Page(RowType(TopicsKey))) /\ Paged(cache[TopicsKey])
    BY <1>4, <1>14, EntryIs DEF CacheOK
  <2>2. c1[TopicsKey] = Cancel(cache[TopicsKey])
    BY <1>4, <1>9, <1>14, Beginnings DEF CancelQueries, CacheOK
  <2>3. c1[TopicsKey].data = cache[TopicsKey].data
    BY <2>1, <2>2, CancelEntry
  <2> QED  BY <1>11, <2>3 DEF HasData
<1>17. CacheOK(c2) /\ \A key \in Keys : key # TopicsKey => c2[key] = c1[key]
  <2>1. Singles(RowType(TopicsKey), rows) /\ TopicsKey \in Keys /\ TopicsKey[1] # "matches"
    BY <1>4, <1>11
  <2> QED  BY <1>12, <1>15, <1>16, <2>1, DataSet
<1>18. TopicKey(t) # TopicsKey
  BY <1>4
<1>19. HasData(c2[TopicKey(t)]) => row # <<>>
  <2>1. c2[TopicKey(t)] = c1[TopicKey(t)]
    BY <1>4, <1>17, <1>18
  <2>2. c1[TopicKey(t)] = cache[TopicKey(t)]
    BY <1>4, <1>9, <1>14, <1>18, Beginnings DEF CancelQueries, CacheOK
  <2> QED  BY <1>11, <2>1, <2>2 DEF HasData
<1>20. CacheOK(cache') /\ \A key \in Keys : key # TopicKey(t) => cache'[key] = c2[key]
  BY <1>4, <1>11, <1>13, <1>17, <1>19, DataSet
<1>21. newTopic' \in {"closed", "open", "saving", "failed"}
  BY DEF TypesInv, TopicsTypeOK
<1>22. created + Cardinality(Creating') <= MaxTopic
  <2>1. \A n \in TopicOp : request'[n].kind = "create" /\ request'[n].at = "sent" =>
                             request[n].kind = "create" /\ request[n].at = "sent"
    BY <1>8
  <2> QED  BY <2>1, RoomFor DEF ServiceStays
<1>23. TypesInv'
  BY <1>8, <1>20, <1>21, <1>22, ClientTypes
<1>24. ASSUME NEW key \in Keys PROVE Owed(key)' \/ Agrees(cache'[key], Held(key)')
  <2>1. CASE key = TopicsKey
    <3>1. Owes(request[k], key)'
      BY <1>4, <1>8, <2>1 DEF Owes, OwesTopics
    <3> QED  BY <1>8, <3>1 DEF Owed
  <2>2. CASE key = TopicKey(t)
    <3>1. key[1] = "topic" /\ key[2] = t
      BY <2>2, KeyHeads
    <3>2. Owes(request[k], key)'
      BY <1>8, <3>1 DEF Owes, OwesTopic
    <3> QED  BY <1>8, <3>2 DEF Owed
  <2>3. CASE key # TopicsKey /\ key # TopicKey(t)
    <3>1. cache'[key] = c1[key]
      BY <1>17, <1>20, <2>3
    <3>2. Agrees(cache[key], Held(key)) => Agrees(cache'[key], Held(key)')
      BY <1>15, <3>1, HeldSame DEF AllFollow, Follows, ServiceStays
    <3>3. Owed(key) => Owed(key)'
      <4>1. PICK gone \in SUBSET TopicOp : gone = {}
        OBVIOUS
      <4>2. \A n \in TopicOp : request[n].at = "idle" \/ SameDue(request'[n], request[n])
        BY <1>8 DEF SameDue
      <4>3. Owed(key) => Owed(key)' \/ \E n \in gone : Owes(request[n], key)
        BY <4>2, OwedStays DEF ServiceStays
      <4> QED  BY <4>1, <4>3
    <3> QED  BY <3>2, <3>3 DEF FreshInv
  <2> QED  BY <2>1, <2>2, <2>3
<1> QED  BY <1>23, <1>24 DEF FreshInv

LEMMA NothingChanges == ASSUME TypesInv PROVE AllAgree(cache, cache)
BY DEF TypesInv, AllAgree

LEMMA OpenFresh ==
  ASSUME EmbedInv, TypesInv, FreshInv, NEW p, Open(p)
  PROVE  TypesInv' /\ FreshInv'
<1>1. Place(p)
  BY LinksLead, GridLeads DEF Open
<1>2. PICK held : held = IF page.at = "inbox" /\ p.at = "inbox" THEN Pages(MatchesKey(Filters(page))) ELSE <<>>
  OBVIOUS
<1>3. held \in Seq(Page(MatchRow))
  <2>1. page.at = "inbox" => Pages(MatchesKey(Filters(page))) \in Seq(Page(MatchRow))
    BY ListOnScreen
  <2>2. <<>> \in Seq(Page(MatchRow))
    OBVIOUS
  <2> QED  BY <1>2, <2>1, <2>2
<1>4. /\ page' = Fresh(p, held) /\ request' = Unheard /\ ServiceStays /\ newTopic' = newTopic
      /\ \E expired \in SUBSET Observed(p) : cache' = MountQueries(cache, Observed(p), expired)
  BY <1>2 DEF Open, ServiceStays
<1>5. IsPage(page')
  BY <1>1, <1>3, <1>4, FreshIs
<1>6. AllAgree(cache, cache')
  BY <1>4, AllMounted, FollowAgrees DEF TypesInv
<1>7. \A k \in TopicOp : IsRequest(request'[k]) /\ SameDue(request'[k], request[k])
  BY <1>4, ListenersGo
<1>8. created + Cardinality(Creating') <= MaxTopic
  BY <1>4, <1>7, RoomFor DEF ServiceStays, SameDue
<1>9. newTopic' \in {"closed", "open", "saving", "failed"}
  BY <1>4 DEF TypesInv, TopicsTypeOK
<1> QED  BY <1>4, <1>5, <1>6, <1>7, <1>8, <1>9, RequestsFresh

LEMMA QueriesFresh ==
  ASSUME TypesInv, FreshInv, NEW k \in Keys,
         Read(k) \/ Arrive(k) \/ Rebuild(k) \/ LoadMore(k) \/ Retry(k)
  PROVE  TypesInv' /\ FreshInv'
<1>1. AllAgree(cache, cache')
  BY QueryAgrees
<1>2. UNCHANGED topicsVars /\ UNCHANGED newTopic
  BY DEF Read, Arrive, Rebuild, LoadMore, Retry
<1>3. page' = page \/ page' = [page EXCEPT !.held = <<>>]
  BY DEF Read, Arrive, Rebuild, LoadMore, Retry
<1>4. IsPage(page')
  <2>1. <<>> \in Seq(Page(MatchRow)) /\ IsPage(page)
    BY DEF TypesInv
  <2> QED  BY <1>3, <2>1 DEF IsPage, Place
<1> QED  BY <1>1, <1>2, <1>4, OnlyShown

LEMMA DialogFresh ==
  ASSUME EmbedInv, TypesInv, FreshInv, NEW t \in TopicIds,
         OpenEdit(t) \/ AskDelete(t) \/ CloseEdit \/ OpenNewTopic \/ CloseNewTopic
  PROVE  TypesInv' /\ FreshInv'
<1>1. ServiceStays /\ UNCHANGED cache /\ (request' = request \/ \E kind : request' = FormGone(kind))
  BY DEF OpenEdit, AskDelete, CloseEdit, OpenNewTopic, CloseNewTopic, ServiceStays, topicsVars
<1>2. IsPage(page')
  <2>1. \/ page' = page \/ page' = [page EXCEPT !.edit = "open"]
        \/ page' = [page EXCEPT !.edit = "closed", !.form = NoText]
        \/ page' = [page EXCEPT !.confirm = TRUE]
    BY DEF OpenEdit, AskDelete, CloseEdit, OpenNewTopic, CloseNewTopic
  <2> QED  BY <2>1 DEF TypesInv, IsPage, Place
<1>3. newTopic' \in {"closed", "open", "saving", "failed"}
  BY DEF TypesInv, TopicsTypeOK, OpenEdit, AskDelete, CloseEdit, OpenNewTopic, CloseNewTopic
<1>4. AllAgree(cache, cache')
  BY <1>1, NothingChanges
<1>5. \A k \in TopicOp : IsRequest(request'[k]) /\ SameDue(request'[k], request[k])
  BY <1>1, ListenersGo, RequestIs DEF SameDue
<1>6. created + Cardinality(Creating') <= MaxTopic
  BY <1>1, <1>5, RoomFor DEF ServiceStays, SameDue
<1> QED  BY <1>1, <1>2, <1>3, <1>4, <1>5, <1>6, RequestsFresh

LEMMA ToggleFresh ==
  ASSUME EmbedInv, TypesInv, FreshInv, NEW t \in TopicIds, TogglePause(t)
  PROVE  TypesInv' /\ FreshInv'
<1>1. Topic(t).isActive \in BOOLEAN
  <2>1. TopicKey(t) \in Keys /\ TopicKey(t)[1] = "topic" /\ RowType(TopicKey(t)) = TopicRow
    BY KeyHeads DEF RowType
  <2>2. HasData(cache[TopicKey(t)])
    BY DEF TogglePause, OnTopic, Shows
  <2>3. Topic(t) \in TopicRow
    BY <2>1, <2>2, DataIs DEF Topic
  <2> QED  BY <2>3 DEF TopicRow
<1>2. PICK patch : patch = [isActive |-> ~Topic(t).isActive]
  OBVIOUS
<1>3. IsPatch(patch)
  BY <1>1, <1>2 DEF IsPatch, PatchOK
<1>4. PICK heard \in {"no", "page", "form"} : heard = "page"
  OBVIOUS
<1>5. useUpdateTopic(t, patch, heard) /\ ServiceStays /\ UNCHANGED <<page, newTopic>>
  BY <1>2, <1>4 DEF TogglePause, ServiceStays
<1>6. IsPage(page')
  BY <1>5 DEF TypesInv, IsPage, Place
<1> QED  BY <1>3, <1>5, <1>6, UpdateFresh

LEMMA EditFresh ==
  ASSUME EmbedInv, TypesInv, FreshInv, NEW t \in TopicIds, NEW values \in Text, EditTopicForm(t, values)
  PROVE  TypesInv' /\ FreshInv'
<1>1. PICK patch : patch = [f \in {g \in DOMAIN values : values[g] # Topic(t)[g]} |-> values[f]]
  OBVIOUS
<1>2. IsPatch(patch)
  <2>1. DOMAIN values = {"name", "description"} /\ values.name \in Name /\ values.description \in Description
    BY DEF Text
  <2> QED  BY <1>1, <2>1 DEF IsPatch, PatchOK
<1>3. ServiceStays /\ UNCHANGED newTopic
  BY DEF EditTopicForm, ServiceStays
<1>4. page' = [page EXCEPT !.edit = "saved", !.form = values] \/ page' = [page EXCEPT !.edit = "saving", !.form = values]
  BY DEF EditTopicForm
<1>5. IsPage(page')
  BY <1>4 DEF TypesInv, IsPage, Place
<1>6. CASE UNCHANGED <<request, cache>>
  <2>1. UNCHANGED topicsVars
    BY <1>3, <1>6 DEF topicsVars, ServiceStays
  <2>2. AllAgree(cache, cache')
    BY <1>6, NothingChanges
  <2> QED  BY <1>3, <1>5, <2>1, <2>2, OnlyShown
<1>7. PICK heard \in {"no", "page", "form"} : heard = "form"
  OBVIOUS
<1>8. CASE useUpdateTopic(t, patch, heard)
  BY <1>2, <1>3, <1>5, <1>8, UpdateFresh
<1> QED  BY <1>1, <1>6, <1>7, <1>8 DEF EditTopicForm

\* A request that creates nothing and patches nothing is sent.
LEMMA PlainSent ==
  ASSUME EmbedInv, TypesInv, FreshInv, ServiceStays, UNCHANGED <<cache, newTopic>>, IsPage(page'),
         NEW k \in FreeOp, NEW new, IsOp(new), new.kind \in {"delete", "seen"},
         new.text = NoText, new.result = "", new.heard \in {"no", "page", "form"}, new.id \in Nat,
         new.kind = "delete" => new.id \in TopicIds, new.kind = "seen" => new.id \in Match,
         Send(k, new)
  PROVE  TypesInv' /\ FreshInv'
<1>1. /\ k \in TopicOp /\ request[k].at = "idle"
      /\ \A n \in TopicOp : IsRequest(request'[n])
      /\ \A n \in TopicOp \ {k} : request'[n] = request[n]
      /\ request'[k].kind = new.kind
  BY SentIs
<1>2. \A n \in TopicOp : request[n].at = "idle" \/ SameDue(request'[n], request[n])
  BY <1>1 DEF SameDue
<1>3. \A n \in TopicOp : request'[n].kind = "create" /\ request'[n].at = "sent" =>
                           request[n].kind = "create" /\ request[n].at = "sent"
  BY <1>1
<1>4. created + Cardinality(Creating') <= MaxTopic
  BY <1>3, RoomFor DEF ServiceStays
<1>5. newTopic' \in {"closed", "open", "saving", "failed"}
  BY DEF TypesInv, TopicsTypeOK
<1>6. AllAgree(cache, cache')
  BY NothingChanges
<1> QED  BY <1>1, <1>2, <1>4, <1>5, <1>6, RequestsFresh

LEMMA DeleteSentFresh ==
  ASSUME EmbedInv, TypesInv, FreshInv, NEW t \in TopicIds, DeleteTopicConfirm(t)
  PROVE  TypesInv' /\ FreshInv'
<1>1. ServiceStays /\ UNCHANGED <<cache, newTopic>> /\ page' = [page EXCEPT !.confirm = FALSE]
  BY DEF DeleteTopicConfirm, ServiceStays
<1>2. IsPage(page')
  BY <1>1 DEF TypesInv, IsPage, Place
<1>3. CASE UNCHANGED request
  <2>1. UNCHANGED topicsVars
    BY <1>1, <1>3 DEF topicsVars, ServiceStays
  <2>2. AllAgree(cache, cache')
    BY <1>1, NothingChanges
  <2> QED  BY <1>1, <1>2, <2>1, <2>2, OnlyShown
<1>4. ASSUME NEW k \in FreeOp, Send(k, [deleteTopic(t) EXCEPT !.heard = "page"])
      PROVE  TypesInv' /\ FreshInv'
  <2>1. PICK new : new = [deleteTopic(t) EXCEPT !.heard = "page"]
    OBVIOUS
  <2>2. /\ IsOp(new) /\ new.kind = "delete" /\ new.text = NoText /\ new.result = ""
        /\ new.heard = "page" /\ new.id = t
    BY <2>1 DEF deleteTopic, NoOp, IsOp
  <2>3. t \in Nat /\ Send(k, new)
    BY <1>4, <2>1, Numbers
  <2> QED  BY <1>1, <1>2, <2>2, <2>3, PlainSent
<1> QED  BY <1>3, <1>4 DEF DeleteTopicConfirm

LEMMA ReaderFresh ==
  ASSUME EmbedInv, TypesInv, FreshInv, NEW m \in Match, MatchReader(m)
  PROVE  TypesInv' /\ FreshInv'
<1>1. ServiceStays /\ UNCHANGED <<cache, newTopic>> /\ page' = [page EXCEPT !.marked = TRUE]
  BY DEF MatchReader, ServiceStays
<1>2. IsPage(page')
  BY <1>1 DEF TypesInv, IsPage, Place
<1>3. PICK k \in FreeOp : Send(k, updateMatch(m))
  BY DEF MatchReader
<1>4. PICK new : new = updateMatch(m)
  OBVIOUS
<1>5. /\ IsOp(new) /\ new.kind = "seen" /\ new.text = NoText /\ new.result = ""
      /\ new.heard = "no" /\ new.id = m
  BY <1>4 DEF updateMatch, NoOp, IsOp
<1>6. m \in Nat /\ Send(k, new)
  BY <1>3, <1>4, Numbers
<1> QED  BY <1>1, <1>2, <1>5, <1>6, PlainSent

LEMMA CreateSentFresh ==
  ASSUME EmbedInv, TypesInv, FreshInv, NEW values \in Text, NewTopicForm(values)
  PROVE  TypesInv' /\ FreshInv'
<1>1. ServiceStays /\ UNCHANGED <<cache, page>> /\ newTopic' = "saving"
  BY DEF NewTopicForm, ServiceStays
<1>2. PICK new : new = [createTopic(values) EXCEPT !.heard = "form"]
  OBVIOUS
<1>3. PICK k \in FreeOp : Send(k, new)
  BY <1>2 DEF NewTopicForm
<1>4. /\ IsOp(new) /\ new.kind = "create" /\ new.text = NoText /\ new.result = ""
      /\ new.heard = "form" /\ new.id = 0
  BY <1>2 DEF createTopic, NoOp, IsOp
<1>5. /\ k \in TopicOp /\ request[k].at = "idle"
      /\ \A n \in TopicOp : IsRequest(request'[n])
      /\ \A n \in TopicOp \ {k} : request'[n] = request[n]
  <2>1. /\ new.kind \in {"create", "update", "delete", "seen"} /\ new.heard \in {"no", "page", "form"}
        /\ new.kind # "update" /\ new.kind # "delete" /\ new.kind # "seen"
    BY <1>4, Zenon
  <2>2. PICK none \in Nat : none = 0
    OBVIOUS
  <2>3. new.id = none
    BY <1>4, <2>2, Zenon
  <2>4. new.id \in Nat
    BY <2>3
  <2> QED  BY <1>3, <1>4, <2>1, <2>4, SentIs
<1>6. \A n \in TopicOp : request[n].at = "idle" \/ SameDue(request'[n], request[n])
  BY <1>5 DEF SameDue
<1>7. created + Cardinality(Creating') <= MaxTopic
  <2>1. IsFiniteSet(TopicOp) /\ Creating \subseteq TopicOp /\ Creating' \subseteq Creating \union {k}
    BY <1>5, TopicsAssumption DEF Creating, Pending
  <2>2. IsFiniteSet(Creating) /\ Cardinality(Creating) \in Nat
    BY <2>1, FS_Subset, FS_CardinalityType
  <2>3. PICK more : more = Creating \union {k}
    OBVIOUS
  <2>4. IsFiniteSet(more) /\ Cardinality(more) \in Nat /\ Cardinality(more) <= Cardinality(Creating) + 1
    <3>1. k \notin Creating
      BY <1>5 DEF Creating, Pending
    <3>2. IsFiniteSet(Creating \union {k}) /\ Cardinality(Creating \union {k}) = Cardinality(Creating) + 1
      BY <2>2, <3>1, FS_AddElement
    <3> QED  BY <2>2, <2>3, <3>2
  <2>5. Cardinality(Creating') <= Cardinality(more) /\ Cardinality(Creating') \in Nat
    BY <2>1, <2>3, <2>4, FS_Subset, FS_CardinalityType
  <2>6. created + Cardinality(Creating) < MaxTopic /\ created \in Nat /\ MaxTopic \in Nat
    BY Stored, TopicsAssumption DEF NewTopicForm
  <2> QED  BY <2>2, <2>4, <2>5, <2>6
<1>8. IsPage(page')
  BY <1>1 DEF TypesInv, IsPage, Place
<1>9. AllAgree(cache, cache')
  BY <1>1, NothingChanges
<1> QED  BY <1>1, <1>5, <1>6, <1>7, <1>8, <1>9, RequestsFresh

LEMMA UserFresh ==
  ASSUME EmbedInv, TypesInv, FreshInv, TopicsUser
  PROVE  TypesInv' /\ FreshInv'
<1>1. \/ \E p : Open(p)
      \/ \E k \in Keys : LoadMore(k) \/ Retry(k)
      \/ \E t \in TopicIds :
           \/ TogglePause(t) \/ OpenEdit(t) \/ AskDelete(t) \/ DeleteTopicConfirm(t)
           \/ \E values \in Text : EditTopicForm(t, values)
      \/ CloseEdit \/ OpenNewTopic \/ CloseNewTopic
      \/ \E values \in Text : NewTopicForm(values)
  BY DEF TopicsUser, TopicHeader
<1>2. PICK one \in TopicIds : TRUE
  BY TopicsAssumption DEF TopicIds
<1> QED  BY <1>1, <1>2, OpenFresh, QueriesFresh, ToggleFresh, DialogFresh, DeleteSentFresh, EditFresh, CreateSentFresh

-----------------------------------------------------------------------------
(* Changes that end: the client invalidates what the request owes.          *)

\* Data set in one query and then in the other, as after an update that failed.
LEMMA Restored ==
  ASSUME NEW c, CacheOK(c), NEW key \in Keys, key[1] # "matches", NEW pages, Singles(RowType(key), pages)
  PROVE  LET d == SetQueryData(c, key, pages)
         IN CacheOK(d) /\ \A k \in Keys : k # key => d[k] = c[k]
<1>1. CASE pages = <<>>
  BY <1>1 DEF SetQueryData
<1>2. CASE pages # <<>>
  BY <1>2, DataSet
<1> QED  BY <1>1, <1>2

\* After a refresh of a topic and of the list nothing is left of what was set there.
LEMMA Refreshed ==
  ASSUME NEW c, NEW d, CacheOK(d), NEW t \in TopicIds,
         \A k \in Keys : k # TopicsKey /\ k # TopicKey(t) => d[k] = c[k]
  PROVE  LET e == RefreshTopic(d, t)
         IN AllAgree(c, e) /\ \A k \in Keys : k = TopicsKey \/ k = TopicKey(t) => Distrusted(e[k])
<1>1. PICK f : f = InvalidateQueries(d, TopicKey(t), Active)
  OBVIOUS
<1>2. PICK e : e = InvalidateQueries(f, TopicsKey, Active)
  OBVIOUS
<1>3. /\ AllFollow(d, f)
      /\ \A k \in Keys : IF k = TopicKey(t) THEN Distrusted(f[k]) ELSE f[k] = d[k]
  BY <1>1, AllInvalidated, Beginnings
<1>4. CacheOK(f)
  BY <1>3 DEF AllFollow
<1>5. /\ AllFollow(f, e)
      /\ \A k \in Keys : IF k = TopicsKey THEN Distrusted(e[k]) ELSE e[k] = f[k]
  BY <1>2, <1>4, AllInvalidated, Beginnings
<1>6. ASSUME NEW k \in Keys, k = TopicsKey \/ k = TopicKey(t) PROVE Distrusted(e[k])
  BY <1>3, <1>5, <1>6
<1>7. ASSUME NEW k \in Keys PROVE Agrees(c[k], Held(k)) => Agrees(e[k], Held(k))
  <2>1. CASE k = TopicsKey \/ k = TopicKey(t)
    BY <1>6, <2>1, DistrustedAgrees
  <2>2. CASE k # TopicsKey /\ k # TopicKey(t)
    BY <1>3, <1>5, <2>2
  <2> QED  BY <2>1, <2>2
<1>8. CacheOK(e)
  BY <1>5 DEF AllFollow
<1> QED  BY <1>1, <1>2, <1>6, <1>7, <1>8 DEF RefreshTopic, AllAgree

\* The other requests stay when one ends.
LEMMA OneEnds ==
  ASSUME EmbedInv, TypesInv, NEW k \in TopicOp, Becomes(k, NoOp)
  PROVE  /\ request'[k] = NoOp
         /\ \A n \in TopicOp \ {k} : IsRequest(request'[n]) /\ SameDue(request'[n], request[n])
BY IdleIs, OneRequest DEF Becomes, SameDue

LEMMA SettledFresh ==
  ASSUME EmbedInv, TypesInv, FreshInv, NEW k \in TopicOp, UpdateSettled(k)
  PROVE  TypesInv' /\ FreshInv'
<1>1. PICK t : t = request[k].id
  OBVIOUS
<1>2. request[k].kind = "update" /\ t \in TopicIds /\ IsBack(request[k].back)
  BY <1>1, RequestIs DEF UpdateSettled, IsRequest, About
<1>3. PICK was : was = request[k].back
  OBVIOUS
<1>4. Singles(SUBSET TopicRow, was.topics) /\ Singles(TopicRow, was.topic)
  BY <1>2, <1>3 DEF IsBack
<1>5. /\ TopicsKey \in Keys /\ TopicsKey[1] = "topics" /\ RowType(TopicsKey) = SUBSET TopicRow
      /\ TopicKey(t) \in Keys /\ TopicKey(t)[1] = "topic" /\ RowType(TopicKey(t)) = TopicRow
  BY <1>2, KeyHeads DEF RowType
<1>6. CacheOK(cache)
  BY DEF TypesInv
<1>7. PICK c1 : c1 = SetQueryData(cache, TopicsKey, was.topics)
  OBVIOUS
<1>8. CacheOK(c1) /\ \A key \in Keys : key # TopicsKey => c1[key] = cache[key]
  <2>1. PICK list \in Keys : list = TopicsKey
    BY <1>5
  <2>2. list[1] # "matches" /\ Singles(RowType(list), was.topics)
    BY <1>4, <1>5, <2>1
  <2>3. c1 = SetQueryData(cache, list, was.topics)
    BY <1>7, <2>1
  <2>4. CacheOK(c1) /\ \A k1 \in Keys : k1 # list => c1[k1] = cache[k1]
    BY <1>6, <2>2, <2>3, Restored
  <2> QED  BY <2>1, <2>4
<1>9. PICK c2 : c2 = SetQueryData(c1, TopicKey(t), was.topic)
  OBVIOUS
<1>10. CacheOK(c2) /\ \A key \in Keys : key # TopicKey(t) => c2[key] = c1[key]
  <2>1. TopicKey(t)[1] # "matches" /\ Singles(RowType(TopicKey(t)), was.topic)
    BY <1>4, <1>5
  <2> QED  BY <1>5, <1>8, <1>9, <2>1, Restored
<1>11. cache' = RefreshTopic(cache, t) \/ cache' = RefreshTopic(c2, t)
  BY <1>1, <1>3, <1>7, <1>9 DEF UpdateSettled
<1>12. /\ AllAgree(cache, cache')
       /\ \A key \in Keys : key = TopicsKey \/ key = TopicKey(t) => Distrusted(cache'[key])
  <2>1. \A key \in Keys : key # TopicsKey /\ key # TopicKey(t) => c2[key] = cache[key]
    BY <1>8, <1>10
  <2>2. CASE cache' = RefreshTopic(cache, t)
    BY <1>2, <1>6, <2>2, Refreshed
  <2>3. CASE cache' = RefreshTopic(c2, t)
    BY <1>2, <1>10, <2>1, <2>3, Refreshed
  <2> QED  BY <1>11, <2>2, <2>3
<1>13. ServiceStays /\ newTopic' \in {"closed", "open", "saving", "failed"} /\ Becomes(k, NoOp)
  BY DEF UpdateSettled, ServiceStays, TypesInv, TopicsTypeOK
<1>14. IsPage(page')
  <2>1. \/ page' = page \/ page' = [page EXCEPT !.edit = "failed"] \/ page' = [page EXCEPT !.edit = "saved"]
        \/ page' = [page EXCEPT !.edit = "closed", !.form = NoText]
    BY DEF UpdateSettled
  <2> QED  BY <2>1 DEF TypesInv, IsPage, Place
<1>15. \A key \in Keys : Owes(request[k], key) => key = TopicsKey \/ key = TopicKey(t)
  BY <1>1, <1>2, KeyKinds DEF Owes, OwesMatch, OwesMatches, OwesTopic
<1> QED  BY <1>12, <1>13, <1>14, <1>15, OneEnds, EndFresh

\* The list is invalidated alone.
LEMMA ListRefreshed ==
  ASSUME NEW c, CacheOK(c)
  PROVE  LET d == InvalidateQueries(c, TopicsKey, Active)
         IN AllFollow(c, d) /\ \A k \in Keys : IF k = TopicsKey THEN Distrusted(d[k]) ELSE d[k] = c[k]
BY AllInvalidated, Beginnings

LEMMA CreatedFresh ==
  ASSUME EmbedInv, TypesInv, FreshInv, NEW k \in TopicOp, useCreateTopic(k)
  PROVE  TypesInv' /\ FreshInv'
<1>1. request[k].kind = "create" /\ request[k].at = "answered" /\ ServiceStays /\ UNCHANGED page
  BY DEF useCreateTopic, ServiceStays
<1>2. IsPage(page') /\ newTopic' \in {"closed", "open", "saving", "failed"}
  BY <1>1 DEF useCreateTopic, TypesInv, TopicsTypeOK, IsPage, Place
<1>3. \A key \in Keys : Owes(request[k], key) => key = TopicsKey /\ request[k].result = "ok"
  BY <1>1, KeyKinds DEF Owes, OwesTopics, OwesMatch, OwesMatches, OwesTopic, Done
<1>4. CASE request[k].result = "ok"
  <2>1. cache' = InvalidateQueries(cache, TopicsKey, Active) /\ request' = [FormGone("create") EXCEPT ![k] = NoOp]
    BY <1>4 DEF useCreateTopic
  <2>2. AllAgree(cache, cache') /\ Distrusted(cache'[TopicsKey])
    BY <2>1, ListRefreshed, FollowAgrees, KeyHeads DEF TypesInv
  <2>3. PICK gone : gone = FormGone("create")
    OBVIOUS
  <2>4. gone = [n \in TopicOp |-> IF request[n].kind = "create" /\ request[n].heard = "form"
                                  THEN [request[n] EXCEPT !.heard = "page"] ELSE request[n]]
    BY <2>3 DEF FormGone
  <2>5. request'[k] = NoOp /\ \A n \in TopicOp \ {k} : request'[n] = gone[n]
    BY <2>1, <2>3, <2>4
  <2>6. \A n \in TopicOp \ {k} : IsRequest(request'[n]) /\ SameDue(request'[n], request[n])
    BY <2>4, <2>5, OthersHeard
  <2> QED  BY <1>1, <1>2, <1>3, <2>2, <2>5, <2>6, EndFresh
<1>5. CASE request[k].result # "ok"
  <2>1. UNCHANGED cache /\ Becomes(k, NoOp)
    BY <1>5 DEF useCreateTopic
  <2> QED  BY <1>1, <1>2, <1>3, <1>5, <2>1, OneEnds, NothingChanges, EndFresh
<1> QED  BY <1>4, <1>5

LEMMA DeletedFresh ==
  ASSUME EmbedInv, TypesInv, FreshInv, NEW k \in TopicOp, useDeleteTopic(k)
  PROVE  TypesInv' /\ FreshInv'
<1>1. /\ request[k].kind = "delete" /\ request[k].at = "answered" /\ ServiceStays
      /\ newTopic' \in {"closed", "open", "saving", "failed"} /\ Becomes(k, NoOp)
  BY DEF useDeleteTopic, ServiceStays, TypesInv, TopicsTypeOK
<1>2. PICK t : t = request[k].id
  OBVIOUS
<1>3. t \in TopicIds
  BY <1>1, <1>2, RequestIs DEF IsRequest, About
<1>4. \A key \in Keys : Owes(request[k], key) =>
        request[k].result = "ok" /\ (key = TopicsKey \/ key = TopicKey(t) \/ key[1] = "matches")
  BY <1>1, <1>2, KeyKinds DEF Owes, OwesTopics, OwesMatch, OwesMatches, OwesTopic, Done
<1>5. PICK c1, c2, gone : /\ c1 = RemoveQueries(cache, TopicKey(t)) /\ c2 = RemoveQueries(c1, <<"matches">>)
                          /\ gone = InvalidateQueries(c2, TopicsKey, Active)
  OBVIOUS
<1>6. AllFollow(cache, c1) /\ Distrusted(c1[TopicKey(t)])
  BY <1>3, <1>5, AllRemoved, Beginnings, KeyHeads DEF TypesInv
<1>7. AllFollow(c1, c2) /\ \A key \in Keys : key[1] = "matches" => Distrusted(c2[key])
  BY <1>5, <1>6, AllRemoved, Beginnings DEF AllFollow
<1>8. AllFollow(c2, gone) /\ Distrusted(gone[TopicsKey])
  BY <1>5, <1>7, ListRefreshed, KeyHeads DEF AllFollow
<1>9. /\ AllFollow(cache, gone)
      /\ \A key \in Keys : key = TopicsKey \/ key = TopicKey(t) \/ key[1] = "matches" => Distrusted(gone[key])
  BY <1>6, <1>7, <1>8, FollowOn DEF AllFollow, Follows
<1>10. CASE request[k].result # "ok"
  <2>1. UNCHANGED <<cache, page>>
    BY <1>10 DEF useDeleteTopic
  <2>2. IsPage(page')
    BY <2>1 DEF TypesInv, IsPage, Place
  <2> QED  BY <1>1, <1>4, <1>10, <2>1, <2>2, OneEnds, NothingChanges, EndFresh
<1>11. ASSUME IsPage(page'), AllFollow(gone, cache'), request[k].result = "ok"
       PROVE  TypesInv' /\ FreshInv'
  <2>1. AllAgree(cache, cache')
    BY <1>9, <1>11, FollowOn, FollowAgrees
  <2>2. \A key \in Keys : Owes(request[k], key) => Distrusted(cache'[key])
    BY <1>4, <1>9, <1>11 DEF AllFollow, Follows
  <2> QED  BY <1>1, <1>11, <2>1, <2>2, OneEnds, EndFresh
<1>12. CASE request[k].result = "ok" /\ request[k].heard = "page"
  <2>1. /\ page' = Fresh(Inbox, <<>>)
        /\ \E expired \in SUBSET Observed(Inbox) : cache' = MountQueries(gone, Observed(Inbox), expired)
    BY <1>2, <1>5, <1>12 DEF useDeleteTopic
  <2>2. IsPage(page')
    <3>1. <<>> \in Seq(Page(MatchRow))
      OBVIOUS
    <3> QED  BY <2>1, <3>1, Places, FreshIs
  <2>3. AllFollow(gone, cache')
    BY <1>9, <2>1, AllMounted DEF AllFollow
  <2> QED  BY <1>11, <1>12, <2>2, <2>3
<1>13. CASE request[k].result = "ok" /\ request[k].heard # "page"
  <2>1. page' = KeepRows /\ cache' = gone
    BY <1>2, <1>5, <1>13 DEF useDeleteTopic
  <2>2. IsPage(page')
    <3>1. PICK held : held = IF MatchesShown = {} THEN <<>> ELSE Pages(CHOOSE key \in MatchesShown : TRUE)
      OBVIOUS
    <3>2. MatchesShown # {} => (CHOOSE key \in MatchesShown : TRUE) \in MatchesShown
      OBVIOUS
    <3>3. held \in Seq(Page(MatchRow))
      BY <3>1, <3>2, ShownMatches
    <3>4. page' = [page EXCEPT !.held = held]
      BY <2>1, <3>1 DEF KeepRows
    <3> QED  BY <3>3, <3>4 DEF TypesInv, IsPage, Place
  <2>3. AllFollow(gone, cache')
    BY <1>9, <2>1, EntryKept DEF AllFollow, CacheOK
  <2> QED  BY <1>11, <1>13, <2>2, <2>3
<1> QED  BY <1>10, <1>12, <1>13

LEMMA SeenFresh ==
  ASSUME EmbedInv, TypesInv, FreshInv, NEW k \in TopicOp, useMarkMatchSeen(k)
  PROVE  TypesInv' /\ FreshInv'
<1>1. /\ request[k].kind = "seen" /\ request[k].at = "answered" /\ ServiceStays /\ UNCHANGED page
      /\ newTopic' \in {"closed", "open", "saving", "failed"} /\ Becomes(k, NoOp)
  BY DEF useMarkMatchSeen, ServiceStays, TypesInv, TopicsTypeOK
<1>2. PICK m : m = request[k].id
  OBVIOUS
<1>3. m \in Match /\ IsPage(page')
  BY <1>1, <1>2, RequestIs DEF IsRequest, About, TypesInv, IsPage, Place
<1>4. \A key \in Keys : Owes(request[k], key) =>
        request[k].result = "ok" /\ (key = TopicsKey \/ key = MatchKey(m) \/ key[1] = "matches")
  BY <1>1, <1>2, KeyKinds DEF Owes, OwesTopics, OwesMatch, OwesMatches, OwesTopic, Done
<1>5. CASE request[k].result # "ok"
  <2>1. UNCHANGED cache
    BY <1>5 DEF useMarkMatchSeen
  <2> QED  BY <1>1, <1>3, <1>4, <1>5, <2>1, OneEnds, NothingChanges, EndFresh
<1>6. CASE request[k].result = "ok"
  <2>1. PICK c1, c2 : /\ c1 = InvalidateQueries(cache, MatchKey(m), Active)
                      /\ c2 = InvalidateQueries(c1, <<"matches">>, Active)
    OBVIOUS
  <2>2. cache' = InvalidateQueries(c2, TopicsKey, Active)
    BY <1>2, <1>6, <2>1 DEF useMarkMatchSeen
  <2>3. AllFollow(cache, c1) /\ Distrusted(c1[MatchKey(m)])
    BY <1>3, <2>1, AllInvalidated, Beginnings, KeyHeads DEF TypesInv
  <2>4. AllFollow(c1, c2) /\ \A key \in Keys : key[1] = "matches" => Distrusted(c2[key])
    BY <2>1, <2>3, AllInvalidated, Beginnings DEF AllFollow
  <2>5. AllFollow(c2, cache') /\ Distrusted(cache'[TopicsKey])
    BY <2>2, <2>4, ListRefreshed, KeyHeads DEF AllFollow
  <2>6. AllAgree(cache, cache')
    BY <2>3, <2>4, <2>5, FollowOn, FollowAgrees
  <2>7. \A key \in Keys : key = TopicsKey \/ key = MatchKey(m) \/ key[1] = "matches" => Distrusted(cache'[key])
    BY <2>3, <2>4, <2>5 DEF AllFollow, Follows
  <2> QED  BY <1>1, <1>3, <1>4, <2>6, <2>7, OneEnds, EndFresh
<1> QED  BY <1>5, <1>6

-----------------------------------------------------------------------------
(* Steps of the service.                                                   *)

\* Rows of the same numbers that read alike are listed alike.
SameTopic(t) ==
  /\ topics'[t].name = topics[t].name /\ topics'[t].description = topics[t].description
  /\ topics'[t].isActive = topics[t].isActive
SameMatches == DOMAIN matches' = DOMAIN matches /\ \A m \in DOMAIN matches : matches'[m] = matches[m]
SameCount(t) == NewCount(t)' = NewCount(t)

LEMMA CountStays ==
  ASSUME SameMatches, NEW t
  PROVE  SameCount(t)
BY DEF SameMatches, SameCount, NewCount

\* The count of a topic's own row is not compared.
LEMMA HeldTopicStays ==
  ASSUME NEW t, t \in DOMAIN topics => t \in DOMAIN topics' /\ SameTopic(t)
  PROVE  HeldTopic(t) \subseteq HeldTopic(t)'
<1>1. ASSUME NEW pages \in HeldTopic(t) PROVE pages \in HeldTopic(t)'
  <2>1. /\ pages \in Seq(Page(TopicRow)) /\ pages # <<>> /\ t \in DOMAIN topics
        /\ [pages[1].items[1] EXCEPT !.newCount = NewCount(t)] = GetTopicWithStats(t)
    BY <1>1 DEF HeldTopic
  <2>2. PICK row : row = pages[1].items[1]
    OBVIOUS
  <2>3. PICK n, m : n = NewCount(t) /\ m = NewCount(t)'
    OBVIOUS
  <2>4. [row EXCEPT !.newCount = n] =
          [id |-> t, name |-> topics[t].name, description |-> topics[t].description,
           isActive |-> topics[t].isActive, newCount |-> n]
    BY <2>1, <2>2, <2>3 DEF GetTopicWithStats
  <2>5. [row EXCEPT !.newCount = m] =
          [id |-> t, name |-> topics[t].name, description |-> topics[t].description,
           isActive |-> topics[t].isActive, newCount |-> m]
    BY <2>4
  <2>6. [row EXCEPT !.newCount = m] = GetTopicWithStats(t)'
    BY <2>1, <2>3, <2>5 DEF GetTopicWithStats, SameTopic
  <2> QED  BY <2>1, <2>2, <2>3, <2>6 DEF HeldTopic, SameTopic
<1> QED  BY <1>1

LEMMA HeldTopicsStay ==
  ASSUME DOMAIN topics' = DOMAIN topics, \A t \in DOMAIN topics : SameTopic(t) /\ SameCount(t)
  PROVE  HeldTopics' = HeldTopics
<1>1. \A t \in DOMAIN topics : GetTopicWithStats(t)' = GetTopicWithStats(t)
  BY DEF SameTopic, SameCount, GetTopicWithStats
<1>2. ListTopicsWithStats' = ListTopicsWithStats
  BY <1>1 DEF ListTopicsWithStats
<1> QED  BY <1>2 DEF HeldTopics

LEMMA HeldMatchStays ==
  ASSUME NEW m, m \in DOMAIN matches' => m \in DOMAIN matches /\ matches'[m] = matches[m]
  PROVE  HeldMatch(m) \subseteq HeldMatch(m)'
BY DEF HeldMatch, GetMatch

LEMMA HeldMatchesStay ==
  ASSUME TypesInv, SameMatches, NEW f
  PROVE  HeldMatches(f)' = HeldMatches(f)
<1>1. PICK listed : listed = {m \in DOMAIN matches : /\ f.topic = 0 \/ matches[m].topic = f.topic
                                                     /\ f.state = "any" \/ matches[m].state = f.state}
  OBVIOUS
<1>2. listed = {m \in DOMAIN matches' : /\ f.topic = 0 \/ matches'[m].topic = f.topic
                                        /\ f.state = "any" \/ matches'[m].state = f.state}
  BY <1>1 DEF SameMatches
<1>3. listed \subseteq DOMAIN matches /\ listed \subseteq Nat /\ IsFiniteSet(listed)
  BY <1>1, Stored, FS_Subset, TopicsClientAssumption
<1>4. PICK c \in Nat : c = Cardinality(listed)
  BY <1>3, FS_CardinalityType
<1>5. PICK Nth : Nth = [n \in 1..c |-> CHOOSE m \in listed : Cardinality({o \in listed : o > m}) = n - 1]
  OBVIOUS
<1>6. ASSUME NEW n \in 1..c PROVE GetMatch(Nth[n])' = GetMatch(Nth[n])
  <2>1. PICK j \in Nat : j = n - 1
    OBVIOUS
  <2>2. j < Cardinality(listed)
    BY <1>4, <2>1
  <2>3. \E m \in listed : Cardinality({o \in listed : o > m}) = j
    BY <1>3, <2>2, NthFromAbove
  <2>4. Nth[n] = CHOOSE m \in listed : Cardinality({o \in listed : o > m}) = j
    BY <1>5, <2>1
  <2>5. Nth[n] \in DOMAIN matches
    BY <1>3, <2>3, <2>4
  <2> QED  BY <2>5 DEF GetMatch, SameMatches
<1>7. PICK old : old = [n \in 1..c |-> GetMatch(Nth[n])]
  OBVIOUS
<1>8. old = [n \in 1..c |-> GetMatch(Nth[n])']
  BY <1>6, <1>7
<1>9. ListMatches(f) = old
  BY <1>1, <1>4, <1>5, <1>7 DEF ListMatches
<1>10. ListMatches(f)' = old
  BY <1>2, <1>4, <1>5, <1>8 DEF ListMatches
<1> QED  BY <1>9, <1>10 DEF HeldMatches

\* What the cache holds after the service has moved.
LEMMA ServiceFresh ==
  ASSUME FreshInv,
         \A k \in Keys : \/ Owed(k)'
                         \/ Distrusted(cache'[k])
                         \/ ~Owed(k) /\ cache'[k] = cache[k] /\ Held(k) \subseteq Held(k)'
  PROVE  FreshInv'
<1>1. ASSUME NEW k \in Keys PROVE Owed(k)' \/ Agrees(cache'[k], Held(k)')
  <2>1. CASE Distrusted(cache'[k])
    BY <2>1, DistrustedAgrees
  <2>2. CASE ~Owed(k) /\ cache'[k] = cache[k] /\ Held(k) \subseteq Held(k)'
    BY <2>2 DEF FreshInv, Agrees
  <2> QED  BY <2>1, <2>2
<1> QED  BY <1>1 DEF FreshInv

\* One request moves on, and no topic goes.
LEMMA OwedOn ==
  ASSUME NEW j \in TopicOp, \A k \in TopicOp \ {j} : request'[k] = request[k],
         DOMAIN topics \subseteq DOMAIN topics', NEW key \in Keys, Owed(key)
  PROVE  Owed(key)' \/ Owes(request[j], key)
<1>1. PICK k \in TopicOp : Owes(request[k], key)
  BY DEF Owed
<1>2. CASE k = j
  BY <1>1, <1>2
<1>3. CASE k # j
  <2>1. request'[k] = request[k]
    BY <1>3
  <2>2. Owes(request[k], key)'
    BY <1>1, <2>1, KeyKinds DEF Owes, OwesTopics, OwesTopic, OwesMatch, OwesMatches, Done
  <2> QED  BY <2>2 DEF Owed
<1> QED  BY <1>2, <1>3

\* The types after a step of the service.
LEMMA ServiceTypes ==
  ASSUME TypesInv, EmbedInv', CacheOK(cache'), UNCHANGED <<page, newTopic>>,
         \A k \in TopicOp : IsRequest(request'[k]),
         created' + Cardinality(Creating') <= MaxTopic,
         \A t \in DOMAIN topics' : topics'[t].isActive \in BOOLEAN /\ topics'[t].embedding \in Text \union {NoText},
         DOMAIN matches' \subseteq DOMAIN matches,
         \A m \in DOMAIN matches' : matches'[m] \in [topic : DOMAIN topics', state : {"new", "seen"}],
         torn' \subseteq TopicIds
  PROVE  TypesInv'
<1>1. /\ created' \in Nat /\ DOMAIN topics' \subseteq 1..created'
      /\ \A t \in DOMAIN topics' : IsTopic(topics[t])'
      /\ DOMAIN reembed' \subseteq 1..created' /\ \A t \in DOMAIN reembed' : reembed'[t] \in Text
  BY DEF EmbedInv, TopicsOK, TextsOK
<1>2. created' <= MaxTopic
  <2>1. IsFiniteSet(TopicOp) /\ Creating' \subseteq TopicOp /\ MaxTopic \in Nat
    BY TopicsAssumption DEF Creating, Pending
  <2>2. IsFiniteSet(Creating')
    BY <2>1, FS_Subset
  <2>3. Cardinality(Creating') \in Nat
    BY <2>2, FS_CardinalityType
  <2> QED  BY <1>1, <2>1, <2>3
<1>3. created' \in 0..MaxTopic /\ DOMAIN reembed' \subseteq TopicIds
  BY <1>1, <1>2, TopicsAssumption DEF TopicIds
<1>4. \A t \in DOMAIN topics' :
        topics'[t] \in [name : Name, description : Description, isActive : BOOLEAN,
                        embedding : Text \union {NoText}]
  BY <1>1 DEF IsTopic
<1>5. DOMAIN matches' \subseteq Match
  BY Stored
<1>6. TopicsStateOK'
  BY <1>1, <1>3, <1>4, <1>5 DEF TopicsStateOK, IsRequest
<1>7. ASSUME NEW k \in Keys PROVE cache'[k] \in EntryType(k)
  <2>1. cache'[k] \in Entries(Page(RowType(k)))
    BY EntryIs DEF CacheOK
  <2> QED  BY <2>1, KeyKinds DEF EntryType, RowType
<1>8. TopicsTypeOK'
  BY <1>6, <1>7 DEF TypesInv, TopicsTypeOK
<1>9. IsPage(page)' /\ \A k \in TopicOp : About(request'[k])
  BY DEF TypesInv, IsPage, Place, IsRequest
<1> QED  BY <1>8, <1>9 DEF TypesInv

\* What a step of the service needs of the rows it leaves alone.
LEMMA RowTypes ==
  ASSUME TypesInv
  PROVE  /\ \A t \in DOMAIN topics : /\ topics[t].isActive \in BOOLEAN
                                     /\ topics[t].embedding \in Text \union {NoText}
         /\ \A m \in DOMAIN matches : matches[m] \in [topic : DOMAIN topics, state : {"new", "seen"}]
         /\ torn \subseteq TopicIds /\ CacheOK(cache)
BY DEF TypesInv, TopicsTypeOK, TopicsStateOK

\* Rows that read as they did, of the topics that there were and of the same matches.
LEMMA HeldStays ==
  ASSUME TypesInv, SameMatches, DOMAIN topics' = DOMAIN topics, \A t \in DOMAIN topics : SameTopic(t),
         NEW k \in Keys
  PROVE  Held(k) \subseteq Held(k)'
<1>2. HeldTopics' = HeldTopics
  BY CountStays, HeldTopicsStay
<1>3. \A t \in TopicIds : HeldTopic(t) \subseteq HeldTopic(t)'
  BY HeldTopicStays
<1>4. \A m \in Match : HeldMatch(m) \subseteq HeldMatch(m)'
  BY HeldMatchStays DEF SameMatches
<1>5. \A f \in MatchFilters : HeldMatches(f) \subseteq HeldMatches(f)'
  BY HeldMatchesStay
<1> QED  BY <1>2, <1>3, <1>4, <1>5, KeyKinds DEF Held

\* A request ends on the service that has changed nothing a query would show.
LEMMA FinishFresh ==
  ASSUME EmbedInv, EmbedInv', TypesInv, FreshInv, NEW k \in TopicOp, request[k].at # "idle",
         NEW result \in {"", "ok", "notFound", "unavailable", "failed"}, Finish(k, result),
         UNCHANGED <<created, page, newTopic>>, SameMatches,
         DOMAIN topics' = DOMAIN topics, \A t \in DOMAIN topics : SameTopic(t),
         \A t \in DOMAIN topics : topics'[t].embedding \in Text \union {NoText},
         torn' \subseteq TopicIds, CacheOK(cache'),
         \A key \in Keys : Distrusted(cache'[key]) \/ cache'[key] = cache[key],
         \A key \in Keys : Owes(request[k], key) => Owes(request[k], key)' \/ Distrusted(cache'[key])
  PROVE  TypesInv' /\ FreshInv'
<1>1. /\ \A n \in TopicOp : IsRequest(request'[n])
      /\ \A n \in TopicOp \ {k} : request'[n] = request[n]
      /\ request'[k].at = "answered"
  BY AnswerIs
<1>2. created' + Cardinality(Creating') <= MaxTopic
  <2>1. \A n \in TopicOp : request'[n].kind = "create" /\ request'[n].at = "sent" =>
                             request[n].kind = "create" /\ request[n].at = "sent"
    BY <1>1
  <2> QED  BY <2>1, RoomFor
<1>3. \A t \in DOMAIN topics' : topics'[t].isActive \in BOOLEAN /\ topics'[t].embedding \in Text \union {NoText}
  BY RowTypes DEF SameTopic
<1>4. TypesInv'
  BY <1>1, <1>2, <1>3, RowTypes, ServiceTypes DEF SameMatches
<1>5. ASSUME NEW key \in Keys
      PROVE  \/ Owed(key)'
             \/ Distrusted(cache'[key])
             \/ ~Owed(key) /\ cache'[key] = cache[key] /\ Held(key) \subseteq Held(key)'
  <2>1. Owes(request[k], key)' => Owed(key)'
    BY DEF Owed
  <2>2. Owed(key) => Owed(key)' \/ Owes(request[k], key)
    BY <1>1, OwedOn
  <2>3. Held(key) \subseteq Held(key)'
    BY HeldStays
  <2> QED  BY <2>1, <2>2, <2>3
<1> QED  BY <1>4, <1>5, ServiceFresh

\* An update owes what it owes until the client has settled it.
LEMMA UpdateOwes ==
  ASSUME NEW k \in TopicOp, request[k].kind = "update",
         request'[k].kind = "update", request'[k].id = request[k].id, NEW key \in Keys, Owes(request[k], key)
  PROVE  Owes(request[k], key)'
BY KeyKinds DEF Owes, OwesTopics, OwesTopic, OwesMatch, OwesMatches

LEMMA EmbedFresh ==
  ASSUME EmbedInv, EmbedInv', TypesInv, FreshInv, NEW k \in TopicOp, Embed(k), UNCHANGED clientVars
  PROVE  TypesInv' /\ FreshInv'
<1>1. PICK t : t = request[k].id
  OBVIOUS
<1>2. PICK result \in {"", "ok", "notFound", "unavailable", "failed"} :
        result = IF t \in DOMAIN topics THEN "ok" ELSE "notFound"
  OBVIOUS
<1>3. /\ request[k].at = "embedding" /\ request[k].kind \in {"create", "update"}
      /\ request[k].text \in Text
  BY RequestIs DEF Embed, IsRequest, About, EmbedInv, TextsOK
<1>4. /\ Finish(k, result) /\ UNCHANGED <<matches, created, torn, cache, page, newTopic>>
      /\ topics' = IF t \in DOMAIN topics THEN [topics EXCEPT ![t].embedding = request[k].text] ELSE topics
  BY <1>1, <1>2 DEF Embed, clientVars
<1>5. DOMAIN topics' = DOMAIN topics
  BY <1>4
<1>6. ASSUME NEW u \in DOMAIN topics
      PROVE  SameTopic(u) /\ topics'[u].embedding \in Text \union {NoText}
  <2>1. IsTopic(topics[u]) /\ topics[u].embedding \in Text \union {NoText}
    BY RowTypes DEF EmbedInv, TopicsOK
  <2>2. CASE u = t
    BY <1>3, <1>4, <2>1, <2>2 DEF SameTopic, IsTopic
  <2>3. CASE u # t
    BY <1>4, <2>1, <2>3 DEF SameTopic
  <2> QED  BY <2>2, <2>3
<1>7. /\ request'[k].kind = request[k].kind /\ request'[k].id = request[k].id
      /\ request'[k].at = "answered" /\ request'[k].result = result
  BY <1>3, <1>4, AnswerIs
<1>8. ASSUME NEW key \in Keys, Owes(request[k], key) PROVE Owes(request[k], key)'
  <2>1. CASE request[k].kind = "update"
    BY <1>7, <1>8, <2>1, UpdateOwes
  <2>2. CASE request[k].kind = "create"
    <3>1. key[1] = "topics" /\ t \in DOMAIN topics
      BY <1>1, <1>3, <1>8, <2>2, KeyKinds DEF Owes, OwesTopics, OwesTopic, OwesMatch, OwesMatches, Done
    <3>2. OwesTopics(request[k])'
      BY <1>2, <1>7, <2>2, <3>1 DEF OwesTopics, Done
    <3> QED  BY <3>1, <3>2 DEF Owes
  <2> QED  BY <1>3, <2>1, <2>2
<1>9. SameMatches
  BY <1>4 DEF SameMatches
<1>10. torn' \subseteq TopicIds /\ CacheOK(cache') /\ cache' = cache
  BY <1>4, RowTypes
<1> QED  BY <1>3, <1>4, <1>5, <1>6, <1>8, <1>9, <1>10, FinishFresh

\* A request that fails, or whose answer does, on a service that stays as it is.
LEMMA FailedFresh ==
  ASSUME EmbedInv, EmbedInv', TypesInv, FreshInv, NEW k \in TopicOp, request[k].at # "idle",
         NEW result \in {"", "ok", "notFound", "unavailable", "failed"}, Finish(k, result),
         UNCHANGED <<topics, matches, created, page, newTopic>>, torn' \subseteq TopicIds,
         CacheOK(cache'), \A key \in Keys : Distrusted(cache'[key]) \/ cache'[key] = cache[key],
         request[k].kind # "update" => \A key \in Keys : Owes(request[k], key) => Distrusted(cache'[key])
  PROVE  TypesInv' /\ FreshInv'
<1>1. request'[k].kind = request[k].kind /\ request'[k].id = request[k].id
  BY AnswerIs
<1>2. SameMatches /\ DOMAIN topics' = DOMAIN topics /\ \A t \in DOMAIN topics : SameTopic(t)
  BY DEF SameMatches, SameTopic
<1>3. \A t \in DOMAIN topics : topics'[t].embedding \in Text \union {NoText}
  BY RowTypes
<1>4. \A key \in Keys : Owes(request[k], key) => Owes(request[k], key)' \/ Distrusted(cache'[key])
  BY <1>1, UpdateOwes
<1> QED  BY <1>2, <1>3, <1>4, FinishFresh

LEMMA UnservedFresh ==
  ASSUME EmbedInv, EmbedInv', TypesInv, FreshInv, NEW k \in TopicOp, Refused(k)
  PROVE  TypesInv' /\ FreshInv'
<1>1. PICK result \in {"", "ok", "notFound", "unavailable", "failed"} : result = "failed"
  OBVIOUS
<1>2. /\ request[k].at = "sent" /\ Finish(k, result)
      /\ UNCHANGED <<topics, matches, created, torn, cache, page, newTopic>>
  BY <1>1 DEF Refused, Unserved
<1>3. request[k].kind # "update" => \A key \in Keys : ~Owes(request[k], key)
  BY <1>2, KeyKinds DEF Owes, OwesTopics, OwesTopic, OwesMatch, OwesMatches, Done
<1>4. torn' \subseteq TopicIds /\ CacheOK(cache') /\ cache' = cache /\ request[k].at # "idle"
  BY <1>2, RowTypes
<1> QED  BY <1>2, <1>3, <1>4, FailedFresh

LEMMA LostFresh ==
  ASSUME EmbedInv, EmbedInv', TypesInv, FreshInv, NEW k \in TopicOp, Lost(k)
  PROVE  TypesInv' /\ FreshInv'
<1>1. PICK result \in {"", "ok", "notFound", "unavailable", "failed"} : result = "failed"
  OBVIOUS
<1>2. /\ request[k].at = "answered" /\ Finish(k, result)
      /\ UNCHANGED <<topics, matches, created, torn, page, newTopic>>
      /\ cache' = IF request[k].kind = "update" THEN cache ELSE OverlookQueries(cache)
  BY <1>1 DEF Lost
<1>3. CacheOK(cache)
  BY RowTypes
<1>4. CASE request[k].kind = "update"
  <2>1. cache' = cache /\ torn' \subseteq TopicIds /\ CacheOK(cache') /\ request[k].at # "idle"
    BY <1>2, <1>4, RowTypes
  <2> QED  BY <1>2, <1>4, <2>1, FailedFresh
<1>5. CASE request[k].kind # "update"
  <2>1. AllFollow(cache, OverlookQueries(cache)) /\ \A key \in Keys : Distrusted(OverlookQueries(cache)[key])
    BY <1>3, AllOverlooked
  <2>2. CacheOK(cache') /\ \A key \in Keys : Distrusted(cache'[key])
    BY <1>2, <1>5, <2>1 DEF AllFollow
  <2>3. torn' \subseteq TopicIds /\ request[k].at # "idle"
    BY <1>2, RowTypes
  <2> QED  BY <1>2, <2>2, <2>3, FailedFresh
<1> QED  BY <1>4, <1>5

LEMMA Upto == ASSUME NEW a \in Nat, NEW b \in Nat, a <= b PROVE 1..a \subseteq 1..b
OBVIOUS

LEMMA UnembeddedFresh ==
  ASSUME EmbedInv, EmbedInv', TypesInv, FreshInv, NEW k \in TopicOp, CreateUnembedded(k)
  PROVE  TypesInv' /\ FreshInv'
<1>1. PICK result \in {"", "ok", "notFound", "unavailable", "failed"} : result = "unavailable"
  OBVIOUS
<1>2. /\ request[k].at = "embedding" /\ Finish(k, result)
      /\ torn' = torn \union {request[k].id}
      /\ UNCHANGED <<topics, matches, created, page, newTopic>>
      /\ cache' = IF request[k].kind = "create" THEN [cache EXCEPT ![TopicsKey] = Overlooked(@)] ELSE cache
  BY <1>1 DEF CreateUnembedded, EmbedderUnavailable
<1>3. torn' \subseteq TopicIds
  <2>1. request[k].id \in 1..created
    BY <1>2 DEF EmbedInv, TextsOK
  <2>2. created \in Nat /\ created <= MaxTopic /\ MaxTopic \in Nat
    BY Stored, TopicsAssumption
  <2>3. 1..created \subseteq TopicIds
    BY <2>2, Upto DEF TopicIds
  <2> QED  BY <1>2, <2>1, <2>3, RowTypes
<1>4. request[k].kind \in {"create", "update"} /\ request[k].at # "idle"
  BY <1>2, RequestIs DEF IsRequest, About
<1>5. CASE request[k].kind = "update"
  <2>1. cache' = cache /\ CacheOK(cache')
    BY <1>2, <1>5, RowTypes
  <2> QED  BY <1>2, <1>3, <1>4, <1>5, <2>1, FailedFresh
<1>6. CASE request[k].kind = "create"
  <2>1. PICK list \in Keys : list = TopicsKey
    BY KeyHeads
  <2>2. PICK n : n = Overlooked(cache[list])
    OBVIOUS
  <2>3. EntryOK(list, n) /\ Distrusted(n)
    BY <2>2, RowTypes, EntryDoubted DEF CacheOK
  <2>4. cache' = [cache EXCEPT ![list] = n]
    BY <1>2, <1>6, <2>1, <2>2
  <2>5. cache' = [key \in Keys |-> IF key = list THEN n ELSE cache[key]]
    BY <2>4, RowTypes DEF CacheOK
  <2>6. CacheOK(cache')
    BY <2>3, <2>5, RowTypes DEF CacheOK
  <2>7. \A key \in Keys : Distrusted(cache'[key]) \/ cache'[key] = cache[key]
    BY <2>3, <2>5
  <2>8. \A key \in Keys : Owes(request[k], key) => key = list
    BY <1>2, <1>6, <2>1, KeyKinds DEF Owes, OwesTopic, OwesMatch, OwesMatches
  <2>9. \A key \in Keys : Owes(request[k], key) => Distrusted(cache'[key])
    BY <2>3, <2>5, <2>8
  <2> QED  BY <1>2, <1>3, <1>4, <2>6, <2>7, <2>9, FailedFresh
<1> QED  BY <1>4, <1>5, <1>6

\* What a deletion owes when it is answered, and a match that was seen.
LEMMA DoneOwes ==
  ASSUME NEW r, r.at = "answered", r.result = "ok", NEW key \in Keys
  PROVE  /\ r.kind = "delete" /\ (key = TopicsKey \/ key = TopicKey(r.id) \/ key[1] = "matches") => Owes(r, key)
         /\ r.kind = "seen" /\ (key = TopicsKey \/ key = MatchKey(r.id) \/ key[1] = "matches") => Owes(r, key)
<1>1. ASSUME r.kind = "delete", key = TopicKey(r.id) PROVE Owes(r, key)
  BY <1>1 DEF TopicKey, Owes, OwesTopic, Done
<1>2. ASSUME r.kind = "seen", key = MatchKey(r.id) PROVE Owes(r, key)
  BY <1>2 DEF MatchKey, Owes, OwesMatch, Done
<1>3. ASSUME r.kind \in {"delete", "seen"}, key = TopicsKey PROVE Owes(r, key)
  BY <1>3 DEF TopicsKey, Owes, OwesTopics, Done
<1>4. ASSUME r.kind \in {"delete", "seen"}, key[1] = "matches" PROVE Owes(r, key)
  BY <1>4 DEF Owes, OwesMatches, Done
<1> QED  BY <1>1, <1>2, <1>3, <1>4

LEMMA DoneFresh ==
  ASSUME TypesInv, FreshInv, NEW k \in TopicOp, \A n \in TopicOp \ {k} : request'[n] = request[n],
         request[k].at = "sent", request[k].kind \in {"delete", "seen"},
         UNCHANGED cache, DOMAIN topics' \subseteq DOMAIN topics,
         \A key \in Keys :
           Owes(request[k], key)' \/ (Held(key) \subseteq Held(key)' /\ key # TopicsKey)
  PROVE  FreshInv'
<1>1. ASSUME NEW key \in Keys, Owed(key), ~Owes(request[k], key)' PROVE Owed(key)'
  <2>1. PICK n \in TopicOp : Owes(request[n], key)
    BY <1>1 DEF Owed
  <2>2. key # TopicsKey /\ key[1] # "topics"
    BY <1>1, KeyKinds
  <2>3. n # k
    BY <2>1, <2>2, KeyKinds DEF Owes, OwesTopics, OwesTopic, OwesMatch, OwesMatches, Done
  <2>4. request'[n] = request[n]
    BY <2>3
  <2>5. Owes(request[n], key)'
    BY <2>1, <2>2, <2>4, KeyKinds DEF Owes, OwesTopic, OwesMatch, OwesMatches, Done
  <2> QED  BY <2>5 DEF Owed
<1>2. \A key \in Keys : Owes(request[k], key)' => Owed(key)'
  BY DEF Owed
<1> QED  BY <1>1, <1>2, ServiceFresh

LEMMA DeleteServedFresh ==
  ASSUME EmbedInv, EmbedInv', TypesInv, FreshInv, NEW k \in TopicOp, DeleteTopic(k), UNCHANGED clientVars
  PROVE  TypesInv' /\ FreshInv'
<1>1. PICK t : t = request[k].id
  OBVIOUS
<1>2. PICK result \in {"", "ok", "notFound", "unavailable", "failed"} :
        result = IF t \in DOMAIN topics THEN "ok" ELSE "notFound"
  OBVIOUS
<1>3. /\ request[k].kind = "delete" /\ request[k].at = "sent" /\ Finish(k, result)
      /\ topics' = [u \in DOMAIN topics \ {t} |-> topics[u]]
      /\ matches' = [m \in {n \in DOMAIN matches : matches[n].topic # t} |-> matches[m]]
      /\ UNCHANGED <<created, torn, cache, page, newTopic>>
  BY <1>1, <1>2 DEF DeleteTopic, clientVars
<1>4. /\ \A n \in TopicOp : IsRequest(request'[n])
      /\ \A n \in TopicOp \ {k} : request'[n] = request[n]
      /\ request'[k].kind = "delete" /\ request'[k].id = t
      /\ request'[k].at = "answered" /\ request'[k].result = result
  BY <1>1, <1>3, AnswerIs
<1>5. torn' \subseteq TopicIds /\ CacheOK(cache') /\ cache' = cache /\ request[k].at # "idle"
  BY <1>3, RowTypes
<1>6. CASE t \notin DOMAIN topics
  <2>1. DOMAIN topics' = DOMAIN topics /\ \A u \in DOMAIN topics : topics'[u] = topics[u]
    BY <1>3, <1>6
  <2>2. SameMatches
    <3>1. \A m \in DOMAIN matches : matches[m].topic # t
      BY <1>6, RowTypes
    <3> QED  BY <1>3, <3>1 DEF SameMatches
  <2>3. \A u \in DOMAIN topics : SameTopic(u) /\ topics'[u].embedding \in Text \union {NoText}
    BY <2>1, RowTypes DEF SameTopic
  <2>4. \A key \in Keys : ~Owes(request[k], key)
    BY <1>3, KeyKinds DEF Owes, OwesTopics, OwesTopic, OwesMatch, OwesMatches, Done
  <2> QED  BY <1>3, <1>5, <2>1, <2>2, <2>3, <2>4, FinishFresh
<1>7. CASE t \in DOMAIN topics
  <2>1. /\ DOMAIN topics' = DOMAIN topics \ {t} /\ \A u \in DOMAIN topics' : topics'[u] = topics[u]
        /\ DOMAIN matches' \subseteq DOMAIN matches
        /\ \A m \in DOMAIN matches' : matches'[m] = matches[m] /\ matches[m].topic # t
    BY <1>3
  <2>2. created' + Cardinality(Creating') <= MaxTopic
    <3>1. \A n \in TopicOp : request'[n].kind = "create" /\ request'[n].at = "sent" =>
                               request[n].kind = "create" /\ request[n].at = "sent"
      BY <1>4
    <3> QED  BY <1>3, <3>1, RoomFor
  <2>3. \A u \in DOMAIN topics' : topics'[u].isActive \in BOOLEAN /\ topics'[u].embedding \in Text \union {NoText}
    BY <2>1, RowTypes
  <2>4. \A m \in DOMAIN matches' : matches'[m] \in [topic : DOMAIN topics', state : {"new", "seen"}]
    BY <2>1, RowTypes
  <2>5. TypesInv'
    BY <1>3, <1>4, <1>5, <2>1, <2>2, <2>3, <2>4, ServiceTypes
  <2>6. ASSUME NEW key \in Keys
        PROVE  Owes(request[k], key)' \/ (Held(key) \subseteq Held(key)' /\ key # TopicsKey)
    <3>1. request'[k].result = "ok"
      BY <1>2, <1>4, <1>7
    <3>2. key = TopicsKey \/ key = TopicKey(t) \/ key[1] = "matches" => Owes(request'[k], key)
      BY <1>4, <3>1, DoneOwes
    <3>3. Owes(request'[k], key) => Owes(request[k], key)'
      BY <1>4 DEF Owes, OwesTopics, OwesTopic, OwesMatch, OwesMatches, Done
    <3>4. ASSUME NEW u \in TopicIds, key = TopicKey(u), u # t PROVE Held(key) \subseteq Held(key)'
      <4>1. HeldTopic(u) \subseteq HeldTopic(u)'
        BY <2>1, <3>4, HeldTopicStays DEF SameTopic
      <4> QED  BY <3>4, <4>1, KeyHeads DEF Held
    <3>5. ASSUME NEW m \in Match, key = MatchKey(m) PROVE Held(key) \subseteq Held(key)'
      <4>1. HeldMatch(m) \subseteq HeldMatch(m)'
        BY <2>1, HeldMatchStays
      <4> QED  BY <3>5, <4>1, KeyHeads DEF Held
    <3>6. CASE key = TopicsKey \/ key = TopicKey(t) \/ key[1] = "matches"
      BY <3>2, <3>3, <3>6
    <3>7. CASE \E u \in TopicIds : key = TopicKey(u) /\ u # t
      <4>1. PICK u \in TopicIds : key = TopicKey(u) /\ u # t
        BY <3>7
      <4>2. key # TopicsKey
        BY <4>1, KeyHeads
      <4> QED  BY <3>4, <4>1, <4>2
    <3>8. CASE \E m \in Match : key = MatchKey(m)
      <4>1. PICK m \in Match : key = MatchKey(m)
        BY <3>8
      <4>2. key # TopicsKey
        BY <4>1, KeyHeads
      <4> QED  BY <3>5, <4>1, <4>2
    <3> QED  BY <3>6, <3>7, <3>8, KeyKinds
  <2>7. FreshInv'
    BY <1>3, <1>4, <2>1, <2>6, DoneFresh
  <2> QED  BY <2>5, <2>7
<1> QED  BY <1>6, <1>7

LEMMA SeenServedFresh ==
  ASSUME EmbedInv, EmbedInv', TypesInv, FreshInv, NEW k \in TopicOp, UpdateMatchState(k), UNCHANGED clientVars
  PROVE  TypesInv' /\ FreshInv'
<1>1. PICK m : m = request[k].id
  OBVIOUS
<1>2. PICK result \in {"", "ok", "notFound", "unavailable", "failed"} :
        result = IF m \in DOMAIN matches THEN "ok" ELSE "notFound"
  OBVIOUS
<1>3. /\ request[k].kind = "seen" /\ request[k].at = "sent" /\ Finish(k, result)
      /\ matches' = IF m \in DOMAIN matches THEN [matches EXCEPT ![m].state = "seen"] ELSE matches
      /\ UNCHANGED <<topics, created, torn, cache, page, newTopic>>
  BY <1>1, <1>2 DEF UpdateMatchState, clientVars
<1>4. /\ \A n \in TopicOp : IsRequest(request'[n])
      /\ \A n \in TopicOp \ {k} : request'[n] = request[n]
      /\ request'[k].kind = "seen" /\ request'[k].id = m
      /\ request'[k].at = "answered" /\ request'[k].result = result
  BY <1>1, <1>3, AnswerIs
<1>5. torn' \subseteq TopicIds /\ CacheOK(cache') /\ cache' = cache /\ request[k].at # "idle"
  BY <1>3, RowTypes
<1>6. CASE m \notin DOMAIN matches
  <2>1. SameMatches /\ DOMAIN topics' = DOMAIN topics
    BY <1>3, <1>6 DEF SameMatches
  <2>2. \A u \in DOMAIN topics : SameTopic(u) /\ topics'[u].embedding \in Text \union {NoText}
    BY <1>3, RowTypes DEF SameTopic
  <2>3. \A key \in Keys : ~Owes(request[k], key)
    BY <1>3, KeyKinds DEF Owes, OwesTopics, OwesTopic, OwesMatch, OwesMatches, Done
  <2> QED  BY <1>3, <1>5, <2>1, <2>2, <2>3, FinishFresh
<1>7. CASE m \in DOMAIN matches
  <2>1. DOMAIN matches' = DOMAIN matches /\ \A n \in DOMAIN matches : n # m => matches'[n] = matches[n]
    BY <1>3
  <2>2. created' + Cardinality(Creating') <= MaxTopic
    <3>1. \A n \in TopicOp : request'[n].kind = "create" /\ request'[n].at = "sent" =>
                               request[n].kind = "create" /\ request[n].at = "sent"
      BY <1>4
    <3> QED  BY <1>3, <3>1, RoomFor
  <2>3. \A u \in DOMAIN topics' : topics'[u].isActive \in BOOLEAN /\ topics'[u].embedding \in Text \union {NoText}
    BY <1>3, RowTypes
  <2>4. \A n \in DOMAIN matches' : matches'[n] \in [topic : DOMAIN topics', state : {"new", "seen"}]
    BY <1>3, <1>7, RowTypes
  <2>5. TypesInv'
    BY <1>3, <1>4, <1>5, <2>1, <2>2, <2>3, <2>4, ServiceTypes
  <2>6. ASSUME NEW key \in Keys
        PROVE  Owes(request[k], key)' \/ (Held(key) \subseteq Held(key)' /\ key # TopicsKey)
    <3>1. request'[k].result = "ok"
      BY <1>2, <1>4, <1>7
    <3>2. key = TopicsKey \/ key = MatchKey(m) \/ key[1] = "matches" => Owes(request'[k], key)
      BY <1>4, <3>1, DoneOwes
    <3>3. Owes(request'[k], key) => Owes(request[k], key)'
      BY <1>3 DEF Owes, OwesTopics, OwesTopic, OwesMatch, OwesMatches, Done
    <3>4. ASSUME NEW u \in TopicIds, key = TopicKey(u) PROVE Held(key) \subseteq Held(key)'
      <4>1. HeldTopic(u) \subseteq HeldTopic(u)'
        BY <1>3, HeldTopicStays DEF SameTopic
      <4> QED  BY <3>4, <4>1, KeyHeads DEF Held
    <3>5. ASSUME NEW n \in Match, key = MatchKey(n), n # m PROVE Held(key) \subseteq Held(key)'
      <4>1. HeldMatch(n) \subseteq HeldMatch(n)'
        BY <2>1, <3>5, HeldMatchStays
      <4> QED  BY <3>5, <4>1, KeyHeads DEF Held
    <3>6. CASE key = TopicsKey \/ key = MatchKey(m) \/ key[1] = "matches"
      BY <3>2, <3>3, <3>6
    <3>7. CASE \E u \in TopicIds : key = TopicKey(u)
      <4>1. PICK u \in TopicIds : key = TopicKey(u)
        BY <3>7
      <4>2. key # TopicsKey
        BY <4>1, KeyHeads
      <4> QED  BY <3>4, <4>1, <4>2
    <3>8. CASE \E n \in Match : key = MatchKey(n) /\ n # m
      <4>1. PICK n \in Match : key = MatchKey(n) /\ n # m
        BY <3>8
      <4>2. key # TopicsKey
        BY <4>1, KeyHeads
      <4> QED  BY <3>5, <4>1, <4>2
    <3> QED  BY <3>6, <3>7, <3>8, KeyKinds
  <2>7. FreshInv'
    BY <1>3, <1>4, <2>6, DoneFresh
  <2> QED  BY <2>5, <2>7
<1> QED  BY <1>6, <1>7

\* The topics that there were read as they did; the list may have grown.
LEMMA OtherRowsStay ==
  ASSUME TypesInv, UNCHANGED matches, NEW t,
         \A u \in DOMAIN topics : u # t => u \in DOMAIN topics' /\ SameTopic(u),
         NEW key \in Keys, key # TopicsKey, key # TopicKey(t)
  PROVE  Held(key) \subseteq Held(key)'
<1>1. SameMatches
  BY DEF SameMatches
<1>2. \A u \in TopicIds : u # t => HeldTopic(u) \subseteq HeldTopic(u)'
  BY HeldTopicStays
<1>3. \A m \in Match : HeldMatch(m) \subseteq HeldMatch(m)'
  BY <1>1, HeldMatchStays DEF SameMatches
<1>4. \A f \in MatchFilters : HeldMatches(f) \subseteq HeldMatches(f)'
  BY <1>1, HeldMatchesStay
<1> QED  BY <1>2, <1>3, <1>4, KeyKinds DEF Held

LEMMA CreateServedFresh ==
  ASSUME EmbedInv, EmbedInv', TypesInv, FreshInv, NEW k \in TopicOp, CreateTopic(k), UNCHANGED clientVars
  PROVE  TypesInv' /\ FreshInv'
<1>1. PICK new : new = created + 1
  OBVIOUS
<1>2. created \in Nat /\ MaxTopic \in Nat /\ new \in Nat /\ DOMAIN topics \subseteq 1..created
  BY <1>1, Stored, TopicsAssumption DEF EmbedInv, TopicsOK
<1>3. PICK r, text : r = request[k] /\ text = topicEmbedText(request[k].patch.name, request[k].patch.description)
  OBVIOUS
<1>4. IsOp(r) /\ IsRequest(r) /\ text \in Text /\ r.kind = "create" /\ r.at = "sent"
  BY <1>3, RequestIs DEF EmbedInv, OpsOK, Asks, CreateTopic, topicEmbedText, Text
<1>5. PICK o : o = [r EXCEPT !.at = "embedding", !.id = new, !.text = text]
  OBVIOUS
<1>6. /\ o.kind = r.kind /\ o.id = new /\ o.at = "embedding" /\ o.text = text
      /\ o.result = r.result /\ o.heard = r.heard
  BY <1>4, <1>5 DEF IsOp
<1>7. IsRequest(o)
  BY <1>2, <1>4, <1>6 DEF IsRequest, About
<1>8. /\ request' = [request EXCEPT ![k] = o] /\ created' = new
      /\ UNCHANGED <<matches, torn, cache, page, newTopic>>
  BY <1>1, <1>3, <1>5 DEF CreateTopic, Becomes, clientVars
<1>9. /\ \A n \in TopicOp : IsRequest(request'[n])
      /\ \A n \in TopicOp \ {k} : request'[n] = request[n]
      /\ request'[k] = o
  BY <1>7, <1>8, OneRequest
<1>10. PICK row : row = [name |-> request[k].patch.name, description |-> request[k].patch.description,
                         isActive |-> TRUE, embedding |-> NoText]
  OBVIOUS
<1>11. topics' = [t \in DOMAIN topics \union {new} |-> IF t \in DOMAIN topics THEN topics[t] ELSE row]
  BY <1>1, <1>10 DEF CreateTopic
<1>12. /\ DOMAIN topics \subseteq DOMAIN topics' /\ new \in DOMAIN topics'
       /\ \A t \in DOMAIN topics : topics'[t] = topics[t] /\ SameTopic(t)
       /\ \A t \in DOMAIN topics' : topics'[t].isActive \in BOOLEAN /\ topics'[t].embedding \in Text \union {NoText}
  BY <1>10, <1>11, RowTypes DEF SameTopic
<1>13. created' + Cardinality(Creating') <= MaxTopic
  <2>1. IsFiniteSet(TopicOp) /\ Creating \subseteq TopicOp
    BY TopicsAssumption DEF Creating, Pending
  <2>2. IsFiniteSet(Creating)
    BY <2>1, FS_Subset
  <2>3. k \in Creating
    BY <1>3, <1>4 DEF Creating, Pending
  <2>4. Creating' = Creating \ {k}
    BY <1>3, <1>4, <1>6, <1>9 DEF Creating, Pending
  <2>5. Cardinality(Creating') = Cardinality(Creating) - 1 /\ Cardinality(Creating) \in Nat
    BY <2>2, <2>3, <2>4, FS_RemoveElement, FS_CardinalityType
  <2>6. created + Cardinality(Creating) <= MaxTopic
    BY DEF TypesInv
  <2> QED  BY <1>1, <1>2, <1>8, <2>5, <2>6
<1>14. torn' \subseteq TopicIds /\ CacheOK(cache') /\ DOMAIN matches' \subseteq DOMAIN matches
       /\ \A m \in DOMAIN matches' : matches'[m] \in [topic : DOMAIN topics', state : {"new", "seen"}]
  BY <1>8, <1>12, RowTypes
<1>15. TypesInv'
  BY <1>8, <1>9, <1>12, <1>13, <1>14, ServiceTypes
<1>16. ASSUME NEW key \in Keys
       PROVE  \/ Owed(key)'
              \/ Distrusted(cache'[key])
              \/ ~Owed(key) /\ cache'[key] = cache[key] /\ Held(key) \subseteq Held(key)'
  <2>1. CASE key = TopicsKey
    <3>1. OwesTopics(request[k])'
      BY <1>4, <1>6, <1>9, <1>12 DEF OwesTopics
    <3>2. Owes(request[k], key)'
      BY <2>1, <3>1, KeyHeads DEF Owes
    <3> QED  BY <3>2 DEF Owed
  <2>2. CASE key # TopicsKey
    <3>1. ~Owes(request[k], key)
      BY <1>3, <1>4, <2>2, KeyKinds DEF Owes, OwesTopic, OwesMatch, OwesMatches
    <3>2. Owed(key) => Owed(key)'
      BY <1>9, <1>12, <3>1, OwedOn
    <3>3. new \notin DOMAIN topics
      BY <1>1, <1>2
    <3>4. Held(key) \subseteq Held(key)'
      <4>1. CASE key = TopicKey(new)
        <5>1. HeldTopic(new) \subseteq HeldTopic(new)'
          BY <3>3 DEF HeldTopic
        <5> QED  BY <4>1, <5>1 DEF Held, TopicKey
      <4>2. CASE key # TopicKey(new)
        BY <1>8, <1>12, <2>2, <4>2, OtherRowsStay
      <4> QED  BY <4>1, <4>2
    <3> QED  BY <1>8, <3>2, <3>4
  <2> QED  BY <2>1, <2>2
<1> QED  BY <1>15, <1>16, ServiceFresh

LEMMA UpdateServedFresh ==
  ASSUME EmbedInv, EmbedInv', TypesInv, FreshInv, NEW k \in TopicOp, UpdateTopic(k), UNCHANGED clientVars
  PROVE  TypesInv' /\ FreshInv'
<1>1. PICK t, patch, r : t = request[k].id /\ patch = request[k].patch /\ r = request[k]
  OBVIOUS
<1>2. /\ r.kind = "update" /\ r.at = "sent" /\ IsOp(r) /\ IsRequest(r) /\ t \in TopicIds /\ IsPatch(patch)
      /\ UNCHANGED <<matches, created, cache, page, newTopic>>
  BY <1>1, RequestIs DEF UpdateTopic, clientVars, EmbedInv, OpsOK, IsRequest, About
<1>3. CacheOK(cache') /\ cache' = cache /\ request[k].at # "idle"
  BY <1>1, <1>2, RowTypes
<1>4. CASE t \notin DOMAIN topics
  <2>1. PICK result \in {"", "ok", "notFound", "unavailable", "failed"} : result = "notFound"
    OBVIOUS
  <2>2. Finish(k, result) /\ UNCHANGED <<topics, torn>>
    BY <1>1, <1>4, <2>1 DEF UpdateTopic
  <2>3. torn' \subseteq TopicIds
    BY <2>2, RowTypes
  <2> QED  BY <1>1, <1>2, <1>3, <2>2, <2>3, FailedFresh
<1>5. CASE t \in DOMAIN topics
  <2>1. topics' = [topics EXCEPT ![t] = Patched(topics[t], patch)]
    BY <1>1, <1>5 DEF UpdateTopic
  <2>2. DOMAIN topics' = DOMAIN topics /\ \A u \in DOMAIN topics : u # t => topics'[u] = topics[u]
    BY <2>1
  <2>3. topics'[t].isActive \in BOOLEAN /\ topics'[t].embedding \in Text \union {NoText}
    <3>1. PICK row : row = topics[t]
      OBVIOUS
    <3>2. IsTopic(row) /\ row.isActive \in BOOLEAN /\ row.embedding \in Text \union {NoText}
      BY <1>5, <3>1, RowTypes DEF EmbedInv, TopicsOK
    <3>3. PICK new : new = Patched(row, patch)
      OBVIOUS
    <3>4. DOMAIN row = {"name", "description", "isActive", "embedding"} /\ new.embedding = row.embedding
      BY <1>2, <3>2, <3>3, PatchedIs DEF IsPatch
    <3>5. new.isActive = IF "isActive" \in DOMAIN patch THEN patch.isActive ELSE row.isActive
      BY <3>3, <3>4 DEF Patched
    <3>6. topics'[t] = new
      BY <1>5, <2>1, <3>1, <3>3
    <3> QED  BY <1>2, <3>2, <3>4, <3>5, <3>6 DEF IsPatch
  <2>4. \A u \in DOMAIN topics' : topics'[u].isActive \in BOOLEAN /\ topics'[u].embedding \in Text \union {NoText}
    BY <2>2, <2>3, RowTypes
  <2>5. torn' \subseteq TopicIds
    BY <1>1, <1>2, <1>5, RowTypes DEF UpdateTopic
  <2>6. PICK text : text = topicEmbedText(topics'[t].name, topics'[t].description)
    OBVIOUS
  <2>7. PICK o, d : /\ o = [r EXCEPT !.at = "embedding", !.text = text]
                    /\ d = [r EXCEPT !.at = "answered", !.result = "ok", !.text = NoText]
    OBVIOUS
  <2>8. request' = [request EXCEPT ![k] = o] \/ request' = [request EXCEPT ![k] = d]
    BY <1>1, <1>5, <2>6, <2>7 DEF UpdateTopic, Becomes, Finish
  <2>9. /\ o.kind = r.kind /\ o.id = r.id /\ o.at = "embedding" /\ o.text = text
        /\ o.result = r.result /\ o.heard = r.heard /\ o.patch = r.patch /\ o.back = r.back
        /\ d.kind = r.kind /\ d.id = r.id /\ d.at = "answered" /\ d.text = NoText
        /\ d.result = "ok" /\ d.heard = r.heard /\ d.patch = r.patch /\ d.back = r.back
    BY <1>2, <2>7 DEF IsOp
  <2>10. text \in Text
    BY <1>5, <2>2, <2>6 DEF EmbedInv, TopicsOK, IsTopic, topicEmbedText, Text
  <2>11. IsRequest(o) /\ IsRequest(d)
    BY <1>2, <2>9, <2>10 DEF IsRequest, About
  <2>12. /\ \A n \in TopicOp : IsRequest(request'[n])
         /\ \A n \in TopicOp \ {k} : request'[n] = request[n]
         /\ request'[k].kind = "update" /\ request'[k].id = t /\ request'[k].at # "sent"
    <3>1. CASE request' = [request EXCEPT ![k] = o]
      BY <1>1, <1>2, <2>9, <2>11, <3>1, OneRequest
    <3>2. CASE request' = [request EXCEPT ![k] = d]
      BY <1>1, <1>2, <2>9, <2>11, <3>2, OneRequest
    <3> QED  BY <2>8, <3>1, <3>2
  <2>13. created' + Cardinality(Creating') <= MaxTopic
    <3>1. \A n \in TopicOp : request'[n].kind = "create" /\ request'[n].at = "sent" =>
                               request[n].kind = "create" /\ request[n].at = "sent"
      BY <2>12
    <3> QED  BY <1>2, <3>1, RoomFor
  <2>14. DOMAIN matches' \subseteq DOMAIN matches
         /\ \A m \in DOMAIN matches' : matches'[m] \in [topic : DOMAIN topics', state : {"new", "seen"}]
    BY <1>2, <2>2, RowTypes
  <2>15. TypesInv'
    BY <1>2, <1>3, <2>4, <2>5, <2>12, <2>13, <2>14, ServiceTypes
  <2>16. ASSUME NEW key \in Keys
         PROVE  \/ Owed(key)'
                \/ Distrusted(cache'[key])
                \/ ~Owed(key) /\ cache'[key] = cache[key] /\ Held(key) \subseteq Held(key)'
    <3>1. CASE key = TopicsKey
      <4>1. Owes(request[k], key)'
        BY <2>12, <3>1, KeyHeads DEF Owes, OwesTopics
      <4> QED  BY <4>1 DEF Owed
    <3>2. CASE key = TopicKey(t)
      <4>1. key[1] = "topic" /\ key[2] = t
        BY <1>2, <3>2, KeyHeads
      <4>2. Owes(request[k], key)'
        BY <2>12, <4>1 DEF Owes, OwesTopic
      <4> QED  BY <4>2 DEF Owed
    <3>3. CASE key # TopicsKey /\ key # TopicKey(t)
      <4>1. Held(key) \subseteq Held(key)'
        BY <1>2, <2>2, <3>3, OtherRowsStay DEF SameTopic
      <4>2. ~Owes(request[k], key)
        BY <1>1, <1>2, <3>3, KeyKinds DEF Owes, OwesTopic, OwesMatch, OwesMatches
      <4>3. Owed(key) => Owed(key)'
        BY <2>2, <2>12, <4>2, OwedOn
      <4> QED  BY <1>3, <4>1, <4>3
    <3> QED  BY <3>1, <3>2, <3>3
  <2> QED  BY <2>15, <2>16, ServiceFresh
<1> QED  BY <1>4, <1>5

\* A run of reembed-topics writes embeddings, which no query shows.
LEMMA ReembedFresh ==
  ASSUME EmbedInv, EmbedInv', TypesInv, FreshInv, Reembed
  PROVE  TypesInv' /\ FreshInv'
<1>1. UNCHANGED <<matches, created, request, cache, page, newTopic>>
  BY DEF Reembed, ReembedStart, ReembedTopic, ReembedStops, clientVars
<1>2. torn' \subseteq TopicIds
  <2>1. torn \subseteq TopicIds /\ DOMAIN topics \subseteq TopicIds
    BY RowTypes, Stored
  <2> QED  BY <2>1 DEF Reembed, ReembedStart, ReembedTopic, ReembedStops
<1>3. \/ UNCHANGED topics
      \/ \E t \in DOMAIN reembed : t \in DOMAIN topics /\ topics' = [topics EXCEPT ![t].embedding = reembed[t]]
  <2>1. CASE ReembedStart \/ ReembedStops
    BY <2>1 DEF ReembedStart, ReembedStops
  <2>2. CASE ReembedTopic
    <3>1. PICK t : t = CHOOSE u \in DOMAIN reembed : \A v \in DOMAIN reembed : u <= v
      OBVIOUS
    <3>2. t \in DOMAIN reembed
      <4>1. reembed # <<>> /\ reembed = [u \in DOMAIN reembed |-> reembed[u]]
        BY <2>2 DEF ReembedTopic, EmbedInv, TextsOK
      <4>2. DOMAIN reembed = {} => reembed = <<>>
        BY <4>1
      <4>3. DOMAIN reembed \in SUBSET Nat
        BY DEF EmbedInv, TextsOK, TopicsOK
      <4> QED  BY <3>1, <4>1, <4>2, <4>3, SmallestOf
    <3> QED  BY <2>2, <3>1, <3>2 DEF ReembedTopic
  <2> QED  BY <2>1, <2>2 DEF Reembed
<1>4. /\ DOMAIN topics' = DOMAIN topics
      /\ \A t \in DOMAIN topics : SameTopic(t) /\ topics'[t].embedding \in Text \union {NoText}
  <2>1. CASE UNCHANGED topics
    BY <2>1, RowTypes DEF SameTopic
  <2>2. ASSUME NEW t \in DOMAIN reembed, t \in DOMAIN topics, topics' = [topics EXCEPT ![t].embedding = reembed[t]]
        PROVE  /\ DOMAIN topics' = DOMAIN topics
               /\ \A u \in DOMAIN topics : SameTopic(u) /\ topics'[u].embedding \in Text \union {NoText}
    <3>1. IsTopic(topics[t]) /\ reembed[t] \in Text
      BY <2>2 DEF EmbedInv, TopicsOK, TextsOK
    <3>2. SameTopic(t) /\ topics'[t].embedding = reembed[t]
      BY <2>2, <3>1 DEF SameTopic, IsTopic
    <3>3. \A u \in DOMAIN topics : u # t => topics'[u] = topics[u]
      BY <2>2
    <3> QED  BY <2>2, <3>1, <3>2, <3>3, RowTypes DEF SameTopic
  <2> QED  BY <1>3, <2>1, <2>2
<1>5. \A t \in DOMAIN topics' : topics'[t].isActive \in BOOLEAN /\ topics'[t].embedding \in Text \union {NoText}
  BY <1>4, RowTypes DEF SameTopic
<1>6. (\A k \in TopicOp : IsRequest(request'[k])) /\ created' + Cardinality(Creating') <= MaxTopic
  BY <1>1, RequestIs, RoomFor
<1>7. /\ CacheOK(cache') /\ DOMAIN matches' \subseteq DOMAIN matches
      /\ \A m \in DOMAIN matches' : matches'[m] \in [topic : DOMAIN topics', state : {"new", "seen"}]
  BY <1>1, <1>4, RowTypes
<1>8. TypesInv'
  BY <1>1, <1>2, <1>5, <1>6, <1>7, ServiceTypes
<1>9. ASSUME NEW key \in Keys
      PROVE  \/ Owed(key)'
             \/ Distrusted(cache'[key])
             \/ ~Owed(key) /\ cache'[key] = cache[key] /\ Held(key) \subseteq Held(key)'
  <2>1. SameMatches
    BY <1>1 DEF SameMatches
  <2>2. Held(key) \subseteq Held(key)'
    BY <1>4, <2>1, HeldStays
  <2>3. Owed(key) => Owed(key)'
    BY <1>1, <1>4, KeyKinds DEF Owed, Owes, OwesTopics, OwesTopic, OwesMatch, OwesMatches, Done
  <2> QED  BY <1>1, <2>2, <2>3
<1> QED  BY <1>8, <1>9, ServiceFresh

-----------------------------------------------------------------------------
(* The invariant, and what it means.                                       *)

LEMMA TopicsFreshInit ==
  ASSUME WebInit
  PROVE  TypesInv /\ FreshInv
<1>1. /\ created = 1 /\ reembed = <<>> /\ torn = {} /\ newTopic = "closed"
      /\ request = [k \in TopicOp |-> NoOp]
      /\ matches = [m \in Match |-> [topic |-> 1, state |-> "new"]]
      /\ topics = [t \in {1} |->
           [name |-> CHOOSE n \in Name : TRUE, description |-> CHOOSE d \in Description : TRUE,
            isActive |-> TRUE,
            embedding |-> topicEmbedText(CHOOSE n \in Name : TRUE, CHOOSE d \in Description : TRUE)]]
      /\ page \in {Fresh(p, <<>>) : p \in {Inbox, TopicPage(1)}}
      /\ cache = MountQueries([k \in Keys |-> Empty], Active, {})
  BY DEF WebInit, Init, TopicsInit
<1>2. \A k \in TopicOp : IsRequest(request[k]) /\ request[k].at = "idle"
  BY <1>1, IdleIs
<1>3. 1 \in TopicIds /\ 1 \in 0..MaxTopic /\ MaxTopic \in Nat
  BY TopicsAssumption DEF TopicIds
<1>4. DOMAIN topics = {1} /\ topics[1] \in [name : Name, description : Description, isActive : BOOLEAN,
                                            embedding : Text \union {NoText}]
  BY <1>1, TopicsAssumption DEF topicEmbedText, Text
<1>5. TopicsStateOK
  <2>1. \A m \in DOMAIN matches : matches[m] \in [topic : DOMAIN topics, state : {"new", "seen"}]
    BY <1>1, <1>4
  <2>2. DOMAIN topics \subseteq 1..created /\ created \in 0..MaxTopic
    BY <1>1, <1>3, <1>4
  <2>3. /\ \A t \in DOMAIN topics : topics[t] \in [name : Name, description : Description, isActive : BOOLEAN,
                                                   embedding : Text \union {NoText}]
        /\ DOMAIN matches \subseteq Match
    BY <1>1, <1>4
  <2>4. DOMAIN reembed = {} /\ torn \subseteq TopicIds
    BY <1>1
  <2> QED  BY <1>2, <2>1, <2>2, <2>3, <2>4 DEF TopicsStateOK, IsRequest
<1>6. PICK none : none = [k \in Keys |-> Empty]
  OBVIOUS
<1>7. \A k \in Keys : EntryOK(k, Empty) /\ Distrusted(Empty)
  <2>1. ASSUME NEW k \in Keys PROVE EntryOK(k, Empty)
    <3>1. /\ Empty \in Entries(Page(RowType(k))) /\ Paged(Empty) /\ Empty.data = <<>> /\ ~Fetching(Empty)
      BY EmptyEntry, EmptyDistrusted
    <3>2. SinglePage(Empty)
      BY <3>1 DEF SinglePage, IsSingle
    <3> QED  BY <3>1, <3>2, IsEntry
  <2> QED  BY <2>1, EmptyDistrusted
<1>8. CacheOK(none) /\ \A k \in Keys : Distrusted(none[k])
  BY <1>6, <1>7 DEF CacheOK
<1>9. AllFollow(none, cache)
  BY <1>1, <1>6, <1>8, AllMounted
<1>10. CacheOK(cache) /\ \A k \in Keys : Distrusted(cache[k])
  BY <1>8, <1>9 DEF AllFollow, Follows
<1>11. IsPage(page)
  <2>1. <<>> \in Seq(Page(MatchRow))
    OBVIOUS
  <2>2. Place(Inbox) /\ Place(TopicPage(1))
    BY <1>3, Places
  <2>3. page = Fresh(Inbox, <<>>) \/ page = Fresh(TopicPage(1), <<>>)
    BY <1>1
  <2> QED  BY <2>1, <2>2, <2>3, FreshIs
<1>12. ASSUME NEW k \in Keys PROVE cache[k] \in EntryType(k)
  <2>1. cache[k] \in Entries(Page(RowType(k)))
    BY <1>10, EntryIs DEF CacheOK
  <2> QED  BY <2>1, KeyKinds DEF EntryType, RowType
<1>13. TopicsTypeOK
  BY <1>1, <1>5, <1>11, <1>12 DEF TopicsTypeOK, IsPage
<1>14. created + Cardinality(Creating) <= MaxTopic
  <2>1. Creating = {}
    BY <1>2 DEF Creating, Pending
  <2>2. Cardinality(Creating) = 0
    BY <2>1, FS_EmptySet
  <2> QED  BY <1>1, <1>3, <2>2
<1>15. TypesInv
  BY <1>2, <1>10, <1>11, <1>13, <1>14 DEF TypesInv, IsRequest
<1>16. FreshInv
  BY <1>10, DistrustedAgrees DEF FreshInv
<1> QED  BY <1>15, <1>16

LEMMA MutationsFresh ==
  ASSUME EmbedInv, TypesInv, FreshInv, TopicsMutations
  PROVE  TypesInv' /\ FreshInv'
BY ReaderFresh, SettledFresh, CreatedFresh, DeletedFresh, SeenFresh DEF TopicsMutations

LEMMA ServerFresh ==
  ASSUME EmbedInv, EmbedInv', TypesInv, FreshInv, TopicsServer
  PROVE  TypesInv' /\ FreshInv'
<1>1. CASE Reembed
  BY <1>1, ReembedFresh
<1>2. CASE Serve
  BY <1>2, CreateServedFresh, UpdateServedFresh, EmbedFresh, DeleteServedFresh, SeenServedFresh DEF Serve
<1>3. CASE \E k \in TopicOp : CreateUnembedded(k) \/ Refused(k) \/ Lost(k)
  BY <1>3, UnembeddedFresh, UnservedFresh, LostFresh
<1> QED  BY <1>1, <1>2, <1>3 DEF TopicsServer

LEMMA WebFresh ==
  ASSUME EmbedInv, EmbedInv', TypesInv, FreshInv, [WebNext]_webVars
  PROVE  TypesInv' /\ FreshInv'
<1>1. CASE InSources \/ UNCHANGED webVars
  <2>1. UNCHANGED topicsVars /\ UNCHANGED <<cache, page, newTopic>>
    BY <1>1 DEF InSources, webVars, vars, clientVars
  <2>2. AllAgree(cache, cache')
    BY <2>1, NothingChanges
  <2>3. IsPage(page')
    BY <2>1 DEF TypesInv, IsPage, Place
  <2> QED  BY <2>1, <2>2, <2>3, OnlyShown
<1>2. CASE TopicsUser
  BY <1>2, UserFresh
<1>3. CASE TopicsQueries
  BY <1>3, QueriesFresh DEF TopicsQueries
<1>4. CASE TopicsMutations
  BY <1>4, MutationsFresh
<1>5. CASE TopicsServer
  BY <1>5, ServerFresh
<1> QED  BY <1>1, <1>2, <1>3, <1>4, <1>5 DEF WebNext

LEMMA WebFreshInvariant == WebSpec => [](EmbedInv /\ TypesInv /\ FreshInv)
<1>1. WebInit => EmbedInv /\ TypesInv /\ FreshInv
  BY EmbedInit, TopicsFreshInit
<1>2. EmbedInv /\ TypesInv /\ FreshInv /\ [WebNext]_webVars => (EmbedInv /\ TypesInv /\ FreshInv)'
  BY EmbedStep, WebFresh
<1> QED  BY <1>1, <1>2, PTL DEF WebSpec

\* Whatever the user, the service and the answers do, the rows of the service, the
\* requests under way and every query that the tab has cached keep the types of
\* types.ts and store.go, and no topic is numbered beyond those there is room for.
THEOREM TopicsTypes == WebSpec => []TopicsTypeOK
<1>1. TypesInv => TopicsTypeOK
  BY DEF TypesInv
<1> QED  BY <1>1, WebFreshInvariant, PTL

LEMMA HeldIsCurrent ==
  ASSUME NEW k \in Keys, cache[k].data \in Held(k)
  PROVE  Current(k)
<1>1. CASE k = TopicsKey
  <2>1. cache[k].data = <<Single(ListTopicsWithStats)>>
    BY <1>1, KeyHeads DEF Held, HeldTopics
  <2> QED  BY <1>1, <2>1, KeyHeads DEF Current, PageOf
<1>2. CASE k[1] = "topic"
  <2>1. k[2] \in DOMAIN topics
        /\ [cache[k].data[1].items[1] EXCEPT !.newCount = NewCount(k[2])] = GetTopicWithStats(k[2])
    BY <1>2 DEF Held, HeldTopic
  <2> QED  BY <1>2, <2>1 DEF Current, Only
<1>3. CASE k[1] = "match"
  <2>1. k[2] \in DOMAIN matches => cache[k].data = <<Single(GetMatch(k[2]))>>
    BY <1>3 DEF Held, HeldMatch
  <2> QED  BY <1>3, <2>1 DEF Current, PageOf
<1>4. CASE k[1] = "matches"
  <2>1. PICK now : now = ListMatches(k[2])
    OBVIOUS
  <2>2. PICK pages : pages = cache[k].data
    OBVIOUS
  <2>3. pages \in FreshPages(MatchRow, now)
    BY <1>4, <2>1, <2>2 DEF Held, HeldMatches
  <2>4. /\ Loaded(pages) <= Len(now) /\ Rows(pages) = SubSeq(now, 1, Loaded(pages))
        /\ Last(pages).total = Len(now)
    BY <2>3 DEF FreshPages, Beginning
  <2>5. Rows(pages) \in Seq(MatchRow) /\ Loaded(pages) \in Nat
    BY <2>3, RowsType DEF FreshPages
  <2>6. Rows(pages) = SubSeq(now, 1, IF Loaded(pages) < Len(now) THEN Loaded(pages) ELSE Len(now))
    BY <2>4, <2>5
  <2> QED  BY <1>4, <2>1, <2>2, <2>4, <2>6 DEF Current
<1> QED  BY <1>1, <1>2, <1>3, <1>4, KeyKinds

\* However the changes of topics and matches, their optimistic patches and rollbacks,
\* the removals, the invalidations, the fetches under way and the failures interleave:
\* once no request is under way, the topics, lists and matches that the cache takes for
\* fresh are what the service holds (use-mutations.tsx, store.go).
THEOREM TopicsCurrent == WebSpec => []TopicsMatchServer
<1>1. ASSUME TypesInv, FreshInv PROVE TopicsMatchServer
  <2> SUFFICES ASSUME Pending = {}, NEW k \in Keys, Trusted(cache[k]) PROVE Current(k)
    BY DEF TopicsMatchServer
  <2>1. \A n \in TopicOp : IsRequest(request[n]) /\ request[n].at = "idle"
    BY RequestIs, <1>1 DEF Pending
  <2>2. ~Owed(k)
    BY <2>1, NothingOwed DEF Owed
  <2>3. Kept(cache[k]) /\ Agrees(cache[k], Held(k))
    BY <1>1, <2>2, TrustedIsKept DEF FreshInv
  <2>4. cache[k].data \in Held(k)
    BY <2>3 DEF Agrees
  <2> QED  BY <2>4, HeldIsCurrent
<1> QED  BY <1>1, WebFreshInvariant, PTL
=============================================================================
