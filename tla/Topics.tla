------------------------------- MODULE Topics -------------------------------
(***************************************************************************)
(* The topics of one user as the radar service keeps them: radar_topics     *)
(* with their embeddings, radar_topic_matches, the requests that change     *)
(* them (service.go, store.go), one statement a step, and the command       *)
(* reembed-topics beside the server.                                        *)
(***************************************************************************)
EXTENDS Naturals, FiniteSets, Sequences, TLC

CONSTANTS
  Name, Description,
  MaxTopic,   \* bound: topics ever created
  Match,      \* the matches found before
  TopicOp,    \* bound: requests that change something, at a time
  NoText      \* an embedding that is NULL

ASSUME TopicsAssumption ==
  /\ Name # {} /\ Description # {}
  /\ MaxTopic \in Nat \ {0}
  /\ TopicOp \subseteq Nat /\ IsFiniteSet(TopicOp)
  /\ NoText \notin [name : Name, description : Description]

VARIABLES
  topics,    \* radar_topics by id, the embedding as the text it was made from
  matches,   \* radar_topic_matches by id
  created,   \* the last id of radar_topics
  request,   \* the requests under way
  reembed,   \* reembed-topics: the texts it has read and not yet written
  torn       \* topics whose embedding a failure or an overlap may have left stale

topicsVars == <<topics, matches, created, request, reembed, torn>>

TopicIds == 1..MaxTopic
Text == [name : Name, description : Description]

NoOp == [kind |-> "none", id |-> 0, patch |-> <<>>, text |-> NoText, at |-> "idle",
         result |-> "", heard |-> "no", back |-> <<>>]
Pending == {k \in TopicOp : request[k].at # "idle"}
FreeOp == LET idle == TopicOp \ Pending IN {k \in idle : \A n \in idle : k <= n}

-----------------------------------------------------------------------------
(* The queries.                                                            *)

topicEmbedText(name, description) == [name |-> name, description |-> description]

NewCount(t) == Cardinality({m \in DOMAIN matches : matches[m].topic = t /\ matches[m].state = "new"})
GetTopicWithStats(t) ==
  [id |-> t, name |-> topics[t].name, description |-> topics[t].description,
   isActive |-> topics[t].isActive, newCount |-> NewCount(t)]
ListTopicsWithStats == {GetTopicWithStats(t) : t \in DOMAIN topics}

GetMatch(m) == [id |-> m, topic |-> matches[m].topic, state |-> matches[m].state]

\* Newest first; a filter names a topic (0 for all) and a state ("any" for all).
ListMatches(f) ==
  LET listed == {m \in DOMAIN matches : /\ f.topic = 0 \/ matches[m].topic = f.topic
                                        /\ f.state = "any" \/ matches[m].state = f.state}
  IN [n \in 1..Cardinality(listed) |->
        GetMatch(CHOOSE m \in listed : Cardinality({o \in listed : o > m}) = n - 1)]

-----------------------------------------------------------------------------
(* The embedding of a topic is written after its text was read: by a        *)
(* request after its own INSERT or UPDATE, by reembed-topics after a list    *)
(* of all topics.                                                          *)

Writers(t) == {k \in TopicOp : request[k].at = "embedding" /\ request[k].id = t}
Reembedding(t) == t \in DOMAIN reembed

Becomes(k, new) == request' = [request EXCEPT ![k] = new]
Finish(k, result) ==
  Becomes(k, [request[k] EXCEPT !.at = "answered", !.result = result, !.text = NoText])

\* Only a description in the patch has the topic embedded again.  Mutant: a name.
Renamed(patch) == "name" \in DOMAIN patch
Reembeds(patch) == "description" \in DOMAIN patch

\* The columns of a row that a patch names.
Patched(row, patch) == [f \in DOMAIN row |-> IF f \in DOMAIN patch THEN patch[f] ELSE row[f]]

CreateTopic(k) ==
  /\ request[k].kind = "create" /\ request[k].at = "sent"
  /\ created' = created + 1
  /\ topics' = [t \in DOMAIN topics \union {created + 1} |->
       IF t \in DOMAIN topics THEN topics[t]
       ELSE [name |-> request[k].patch.name, description |-> request[k].patch.description,
             isActive |-> TRUE, embedding |-> NoText]]
  /\ Becomes(k, [request[k] EXCEPT !.at = "embedding", !.id = created + 1,
       !.text = topicEmbedText(request[k].patch.name, request[k].patch.description)])
  /\ UNCHANGED <<matches, reembed, torn>>

\* UPDATE ... RETURNING: the text that is embedded is the row as it is now.
UpdateTopic(k) ==
  LET t == request[k].id
      patch == request[k].patch
  IN
  /\ request[k].kind = "update" /\ request[k].at = "sent"
  /\ IF t \notin DOMAIN topics
     THEN Finish(k, "notFound") /\ UNCHANGED <<topics, torn>>
     ELSE /\ topics' = [topics EXCEPT ![t] = Patched(@, patch)]
          /\ IF Reembeds(patch)
             THEN /\ Becomes(k, [request[k] EXCEPT !.at = "embedding",
                       !.text = topicEmbedText(topics'[t].name, topics'[t].description)])
                  /\ torn' = IF Writers(t) = {} /\ ~Reembedding(t) THEN torn \ {t} ELSE torn \union {t}
             ELSE Finish(k, "ok") /\ UNCHANGED torn
  /\ UNCHANGED <<matches, created, reembed>>

\* The embedder answers and UpdateTopicEmbedding runs, or it does not answer:
\* the request fails, what it wrote before stays.
Embed(k) ==
  LET t == request[k].id IN
  /\ request[k].at = "embedding"
  /\ IF t \in DOMAIN topics
     THEN topics' = [topics EXCEPT ![t].embedding = request[k].text] /\ Finish(k, "ok")
     ELSE UNCHANGED topics /\ Finish(k, "notFound")
  /\ UNCHANGED <<matches, created, reembed, torn>>

EmbedderUnavailable(k) ==
  /\ request[k].at = "embedding"
  /\ torn' = torn \union {request[k].id}
  /\ Finish(k, "unavailable")
  /\ UNCHANGED <<topics, matches, created, reembed>>

\* The matches go with the topic (ON DELETE CASCADE).
DeleteTopic(k) ==
  LET t == request[k].id IN
  /\ request[k].kind = "delete" /\ request[k].at = "sent"
  /\ Finish(k, IF t \in DOMAIN topics THEN "ok" ELSE "notFound")
  /\ topics' = [u \in DOMAIN topics \ {t} |-> topics[u]]
  /\ matches' = [m \in {n \in DOMAIN matches : matches[n].topic # t} |-> matches[m]]
  /\ UNCHANGED <<created, reembed, torn>>

UpdateMatchState(k) ==
  LET m == request[k].id IN
  /\ request[k].kind = "seen" /\ request[k].at = "sent"
  /\ IF m \in DOMAIN matches
     THEN matches' = [matches EXCEPT ![m].state = "seen"] /\ Finish(k, "ok")
     ELSE UNCHANGED matches /\ Finish(k, "notFound")
  /\ UNCHANGED <<topics, created, reembed, torn>>

\* The request fails before its statement.
Unserved(k) ==
  /\ request[k].at = "sent"
  /\ Finish(k, "failed")
  /\ UNCHANGED <<topics, matches, created, reembed, torn>>

TopicsInit ==
  /\ created = 1
  /\ topics = [t \in {1} |->
       [name |-> CHOOSE n \in Name : TRUE, description |-> CHOOSE d \in Description : TRUE,
        isActive |-> TRUE,
        embedding |-> topicEmbedText(CHOOSE n \in Name : TRUE, CHOOSE d \in Description : TRUE)]]
  /\ matches = [m \in Match |-> [topic |-> 1, state |-> "new"]]
  /\ request = [k \in TopicOp |-> NoOp]
  /\ reembed = <<>>
  /\ torn = {}

-----------------------------------------------------------------------------
(* reembed-topics: every topic is read, then embedded and written in turn.  *)
(* It ends at the first topic that is gone or that the embedder refuses.   *)

ReembedStart ==
  /\ reembed = <<>> /\ topics # <<>>
  /\ reembed' = [t \in DOMAIN topics |-> topicEmbedText(topics[t].name, topics[t].description)]
  /\ torn' = torn \union {t \in DOMAIN topics : Writers(t) # {}}
  /\ UNCHANGED <<topics, matches, created, request>>

ReembedTopic ==
  /\ reembed # <<>>
  /\ LET t == CHOOSE u \in DOMAIN reembed : \A v \in DOMAIN reembed : u <= v IN
     IF t \in DOMAIN topics
     THEN /\ topics' = [topics EXCEPT ![t].embedding = reembed[t]]
          /\ reembed' = [u \in DOMAIN reembed \ {t} |-> reembed[u]]
     ELSE reembed' = <<>> /\ UNCHANGED topics
  /\ UNCHANGED <<matches, created, request, torn>>

ReembedStops ==
  /\ reembed # <<>>
  /\ reembed' = <<>>
  /\ UNCHANGED <<topics, matches, created, request, torn>>

-----------------------------------------------------------------------------
TopicsStateOK ==
  /\ created \in 0..MaxTopic
  /\ DOMAIN topics \subseteq 1..created
  /\ \A t \in DOMAIN topics :
       topics[t] \in [name : Name, description : Description, isActive : BOOLEAN,
                      embedding : Text \union {NoText}]
  /\ DOMAIN matches \subseteq Match
  /\ \A m \in DOMAIN matches :
       matches[m] \in [topic : DOMAIN topics, state : {"new", "seen"}]
  /\ \A k \in TopicOp :
       /\ request[k].kind \in {"none", "create", "update", "delete", "seen"}
       /\ request[k].id \in Nat
       /\ request[k].text \in Text \union {NoText}
       /\ request[k].at \in {"idle", "sent", "embedding", "answered"}
       /\ request[k].result \in {"", "ok", "notFound", "unavailable", "failed"}
       /\ request[k].heard \in {"no", "page", "form"}
  /\ DOMAIN reembed \subseteq TopicIds /\ \A t \in DOMAIN reembed : reembed[t] \in Text
  /\ torn \subseteq TopicIds
=============================================================================
