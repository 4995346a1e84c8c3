---------------------------- MODULE TopicsClient ----------------------------
(***************************************************************************)
(* The topics and matches of the web client (web/src/features/radar and its *)
(* routes) in one open tab, against Topics: the pages, the cached queries,  *)
(* the dialogs that create, edit and delete a topic, and the match reader.  *)
(***************************************************************************)
EXTENDS Topics, QueryCache

CONSTANTS
  MatchesPageSize,
  Budgets   \* bound: how often the user changes a topic and opens another page,
            \* how many requests and fetches fail, whether reembed-topics is run,
            \* and how many requests may be under way when the user starts a thing

ASSUME TopicsClientAssumption ==
  /\ MatchesPageSize \in Nat \ {0}
  /\ Match \subseteq Nat /\ IsFiniteSet(Match)
  /\ Budgets \subseteq [changes : Nat, visits : Nat, failures : Nat, reembeds : Nat, busy : Nat]

VARIABLES
  cache,      \* the queries by key
  page,       \* what is on screen
  newTopic,   \* the dialog for a new topic
  budget      \* what is left of one of Budgets

clientVars == <<cache, page, newTopic, budget>>
vars == <<topicsVars, clientVars>>

\* The filters of a list of matches; the list of a topic's page is the inbox's with
\* that topic and all states.
MatchFilters == [topic : {0} \union TopicIds, state : {"new", "any"}]
Filters(p) == [topic |-> p.id, state |-> p.state]

\* radarKeys.
TopicsKey     == <<"topics">>
TopicKey(t)   == <<"topic", t>>
MatchesKey(f) == <<"matches", f>>
MatchKey(m)   == <<"match", m>>
Keys == {TopicsKey} \union {TopicKey(t) : t \in TopicIds} \union {MatchKey(m) : m \in Match}
          \union {MatchesKey(f) : f \in MatchFilters}

Spend(what) == budget[what] > 0 /\ budget' = [budget EXCEPT ![what] = @ - 1]
Busy == Cardinality(Pending) + Cardinality({k \in Keys : Fetching(cache[k])})

-----------------------------------------------------------------------------
(* What is on screen.                                                      *)

InboxPage(t, state) == [at |-> "inbox", id |-> t, state |-> state]
Inbox == InboxPage(0, "new")
TopicsPage   == [at |-> "topics", id |-> 0, state |-> "any"]
TopicPage(t) == [at |-> "topic", id |-> t, state |-> "any"]
MatchPage(m) == [at |-> "match", id |-> m, state |-> "any"]

\* The queries the page's hooks observe.
Observed(p) ==
  CASE p.at = "inbox"  -> {TopicsKey, MatchesKey(Filters(p))}
    [] p.at = "topics" -> {TopicsKey}
    [] p.at = "topic"  -> {TopicKey(p.id), MatchesKey(Filters(p))}
    [] p.at = "match"  -> {MatchKey(p.id)}
Active == Observed(page)

Dialogs == newTopic = "closed" /\ page.edit \in {"closed", "saved"} /\ ~page.confirm
Unobstructed == Dialogs /\ Busy <= budget.busy

\* A page with data shows it unless its last request failed.
Shows(k) == HasData(cache[k]) /\ ~IsError(cache[k])

\* While a list of matches is pending it shows the rows of the list before it
\* (keepPreviousData).
MatchList(k) ==
  CASE IsLoading(cache[k]) /\ page.held = <<>> -> "loading"
    [] IsError(cache[k])                       -> "error"
    [] OTHER                                   -> "matches"
Pages(k) == IF HasData(cache[k]) THEN cache[k].data ELSE page.held

RadarInboxRoute ==
  IF Shows(TopicsKey) /\ Only(cache[TopicsKey]) = {} THEN "no topics"
  ELSE MatchList(MatchesKey(Filters(page)))

TopicRoute ==
  CASE IsLoading(cache[TopicKey(page.id)]) -> "loading"
    [] IsError(cache[TopicKey(page.id)])   -> "not found or error"
    [] OTHER                               -> MatchList(MatchesKey(Filters(page)))

\* The list of matches on screen, if there is one.
MatchesShown ==
  IF \/ page.at = "inbox" /\ RadarInboxRoute = "matches"
     \/ page.at = "topic" /\ TopicRoute = "matches"
  THEN {MatchesKey(Filters(page))} ELSE {}

\* Topics that are paused and have nothing new have no chip, except the one chosen.
visibleTopics(rows, chosen) ==
  {row \in rows : row.isActive \/ row.newCount > 0 \/ row.id = chosen}
InboxFilterBar ==
  LET rows == IF HasData(cache[TopicsKey]) THEN Only(cache[TopicsKey]) ELSE {} IN
  IF RadarInboxRoute = "no topics" THEN {}
  ELSE {InboxPage(page.id, state) : state \in {"new", "any"}}
         \union {InboxPage(t, page.state) : t \in {0} \union {row.id : row \in visibleTopics(rows, page.id)}}

\* Where a card leads.
TopicCard(row) == TopicPage(row.id)
MatchCard(row) == MatchPage(row.id)

TopicsListRoute == IF Shows(TopicsKey) THEN {TopicCard(row) : row \in Only(cache[TopicsKey])} ELSE {}

\* The links of the page, the buttons of the filter bar among them.
Links ==
  CASE page.at = "inbox"  -> {TopicsPage} \union InboxFilterBar
    [] page.at = "topics" -> {Inbox} \union TopicsListRoute
    [] page.at = "topic"  -> {Inbox}
    [] page.at = "match"  ->
         IF Shows(MatchKey(page.id)) THEN {TopicPage(Only(cache[MatchKey(page.id)]).topic)} ELSE {Inbox}

MatchGrid == UNION {{MatchCard(row) : row \in ToSet(Rows(Pages(k)))} : k \in MatchesShown}

Fresh(p, held) == [at |-> p.at, id |-> p.id, state |-> p.state, held |-> held, marked |-> FALSE,
                   edit |-> "closed", form |-> NoText, confirm |-> FALSE]

\* What is left of a request when the page, or the form, that sent it is gone.
Unheard == [k \in TopicOp |-> IF request[k].kind = "create" THEN request[k]
                              ELSE [request[k] EXCEPT !.heard = "no"]]
FormGone(kind) == [k \in TopicOp |->
  IF request[k].kind = kind /\ request[k].heard = "form"
  THEN [request[k] EXCEPT !.heard = "page"] ELSE request[k]]

\* Another page mounts and its queries with it.
Open(p) ==
  /\ Unobstructed /\ Spend("visits")
  /\ p \in Links \union MatchGrid /\ p # [at |-> page.at, id |-> page.id, state |-> page.state]
  /\ page' = Fresh(p, IF page.at = "inbox" /\ p.at = "inbox"
                      THEN Pages(MatchesKey(Filters(page))) ELSE <<>>)
  /\ \E expired \in SUBSET Observed(p) : cache' = MountQueries(cache, Observed(p), expired)
  /\ request' = Unheard
  /\ UNCHANGED <<topics, matches, created, reembed, torn, newTopic>>

LoadMore(k) ==
  /\ Unobstructed
  /\ k \in MatchesShown /\ HasNextPage(cache[k]) /\ ~IsFetchingNextPage(cache[k])
  /\ cache' = [cache EXCEPT ![k] = FetchNextPage(@)]
  /\ UNCHANGED <<topicsVars, page, newTopic, budget>>

\* Only the lists of matches have a button to try again.
Retry(k) ==
  /\ Unobstructed /\ k \in Active /\ k[1] = "matches" /\ MatchList(k) = "error"
  /\ page.at = "topic" => TopicRoute = "error"
  /\ cache' = [cache EXCEPT ![k] = Refetch(@)]
  /\ UNCHANGED <<topicsVars, page, newTopic, budget>>

-----------------------------------------------------------------------------
(* Fetches.                                                                *)

Fail == Spend("failures")

\* What the server answers to the query of a key.
Found(k) == CASE k[1] = "topic" -> k[2] \in DOMAIN topics
              [] k[1] = "match" -> k[2] \in DOMAIN matches
              [] OTHER          -> TRUE
PageOf(k) ==
  CASE k[1] = "topics"  -> Single(ListTopicsWithStats)
    [] k[1] = "topic"   -> Single(GetTopicWithStats(k[2]))
    [] k[1] = "match"   -> Single(GetMatch(k[2]))
    [] k[1] = "matches" ->
         LET rows == ListMatches(k[2])
             from == Offset(cache[k])
         IN [items |-> SubSeq(rows, from + 1, IF from + MatchesPageSize < Len(rows)
                                               THEN from + MatchesPageSize ELSE Len(rows)),
             total |-> Len(rows)]

Read(k) ==
  /\ Fetching(cache[k]) /\ ~Answered(cache[k])
  /\ \/ /\ cache' = [cache EXCEPT ![k] = IF Found(k) THEN Answer(@, PageOf(k)) ELSE Refuse(@, "notFound")]
        /\ UNCHANGED budget
     \/ cache' = [cache EXCEPT ![k] = Refuse(@, "failed")] /\ Fail
  /\ UNCHANGED <<topicsVars, page, newTopic>>

Arrive(k) ==
  /\ Fetching(cache[k]) /\ Answered(cache[k])
  /\ cache' = [cache EXCEPT ![k] = Land(@)]
  /\ page' = IF k \in Active /\ k[1] = "matches" /\ HasData(cache'[k])
             THEN [page EXCEPT !.held = <<>>] ELSE page
  /\ UNCHANGED <<topicsVars, newTopic, budget>>

\* The page renders again after its query was removed.
Rebuild(k) ==
  /\ k \in Active /\ ~HasData(cache[k]) /\ ~Fetching(cache[k]) /\ ~IsError(cache[k])
  /\ cache' = [cache EXCEPT ![k] = Mount(@, FALSE)]
  /\ UNCHANGED <<topicsVars, page, newTopic, budget>>

-----------------------------------------------------------------------------
(* Changes of a topic.                                                     *)

createTopic(values) == [NoOp EXCEPT !.kind = "create", !.patch = values]
updateTopic(t, patch) == [NoOp EXCEPT !.kind = "update", !.id = t, !.patch = patch]
deleteTopic(t) == [NoOp EXCEPT !.kind = "delete", !.id = t]
updateMatch(m) == [NoOp EXCEPT !.kind = "seen", !.id = m]
Send(k, new) == request' = [request EXCEPT ![k] = [new EXCEPT !.at = "sent"]]

\* Mutant: the rest of the row is forgotten.
patchAlone(row, patch) == patch
patchTopic(row, patch) == Patched(row, patch)
PatchedRows(pages, t, patch) ==
  IF pages = <<>> THEN pages
  ELSE <<Single({IF row.id = t THEN patchTopic(row, patch) ELSE row : row \in pages[1].items[1]})>>
PatchedRow(pages, patch) ==
  IF pages = <<>> THEN pages ELSE <<Single(patchTopic(pages[1].items[1], patch))>>

\* onMutate: a fetch of the topic itself is not cancelled.
useUpdateTopic(t, patch, heard) ==
  \E k \in FreeOp :
    /\ Spend("changes")
    /\ Send(k, [updateTopic(t, patch) EXCEPT !.heard = heard,
         !.back = [topics |-> cache[TopicsKey].data, topic |-> cache[TopicKey(t)].data]])
    /\ cache' = SetQueryData(
         SetQueryData(CancelQueries(cache, TopicsKey), TopicsKey,
                      PatchedRows(cache[TopicsKey].data, t, patch)),
         TopicKey(t), PatchedRow(cache[TopicKey(t)].data, patch))

OnTopic(t) == page.at = "topic" /\ page.id = t /\ Shows(TopicKey(t))
Topic(t) == Only(cache[TopicKey(t)])

\* The button is disabled while the page's own toggle is under way.
TogglePause(t) ==
  /\ Unobstructed /\ OnTopic(t)
  /\ ~\E k \in Pending : request[k].heard = "page" /\ "isActive" \in DOMAIN request[k].patch
  /\ useUpdateTopic(t, [isActive |-> ~Topic(t).isActive], "page")
  /\ UNCHANGED <<topics, matches, created, reembed, torn, page, newTopic>>

OpenEdit(t) ==
  /\ Unobstructed /\ OnTopic(t) /\ budget.changes > 0
  /\ page' = [page EXCEPT !.edit = "open"]
  /\ UNCHANGED <<topicsVars, cache, newTopic, budget>>

CloseEdit ==
  /\ page.edit \in {"open", "saving", "failed"}
  /\ page' = [page EXCEPT !.edit = "closed", !.form = NoText]
  /\ request' = FormGone("update")
  /\ UNCHANGED <<topics, matches, created, reembed, torn, cache, newTopic, budget>>

\* The patch holds what differs from the topic as it is on the page now.  With
\* nothing in it the dialog closes.
EditTopicForm(t, values) ==
  LET patch == [f \in {g \in DOMAIN values : values[g] # Topic(t)[g]} |-> values[f]] IN
  /\ OnTopic(t) /\ page.edit \in {"open", "failed"} /\ Busy <= budget.busy
  /\ IF DOMAIN patch = {}
     THEN /\ page' = [page EXCEPT !.edit = "saved", !.form = values]
          /\ UNCHANGED <<request, cache, budget>>
     ELSE /\ page' = [page EXCEPT !.edit = "saving", !.form = values]
          /\ useUpdateTopic(t, patch, "form")
  /\ UNCHANGED <<topics, matches, created, reembed, torn, newTopic>>

\* Mutant: only the list is refreshed.
RefreshList(c, t) == InvalidateQueries(c, TopicsKey, Active)
RefreshTopic(c, t) == InvalidateQueries(InvalidateQueries(c, TopicKey(t), Active), TopicsKey, Active)

\* onSettled; the topic's page closes its edit dialog, also one opened since.
UpdateSettled(k) ==
  LET t == request[k].id
      failed == request[k].result # "ok"
      before == IF failed THEN SetQueryData(SetQueryData(cache, TopicsKey, request[k].back.topics),
                                            TopicKey(t), request[k].back.topic)
                ELSE cache
      edited == "isActive" \notin DOMAIN request[k].patch
  IN
  /\ request[k].kind = "update" /\ request[k].at = "answered"
  /\ cache' = RefreshTopic(before, t)
  /\ Becomes(k, NoOp)
  /\ page' = IF ~edited \/ request[k].heard = "no" THEN page
             ELSE CASE request[k].heard = "form" ->
                         [page EXCEPT !.edit = IF failed THEN "failed" ELSE "saved"]
                    [] request[k].heard = "page" /\ ~failed ->
                         [page EXCEPT !.edit = "closed", !.form = NoText]
                    [] OTHER -> page
  /\ UNCHANGED <<topics, matches, created, reembed, torn, newTopic, budget>>

-----------------------------------------------------------------------------
(* New topics, and topics that go.                                         *)

Creating == {k \in Pending : request[k].kind = "create" /\ request[k].at = "sent"}
OpenNewTopic ==
  /\ Unobstructed /\ budget.changes > 0
  /\ newTopic' = "open"
  /\ UNCHANGED <<topicsVars, cache, page, budget>>

CloseNewTopic ==
  /\ newTopic # "closed"
  /\ newTopic' = "closed"
  /\ request' = FormGone("create")
  /\ UNCHANGED <<topics, matches, created, reembed, torn, cache, page, budget>>

NewTopicForm(values) ==
  /\ newTopic \in {"open", "failed"} /\ Busy <= budget.busy
  /\ created + Cardinality(Creating) < MaxTopic
  /\ Spend("changes")
  /\ \E k \in FreeOp : Send(k, [createTopic(values) EXCEPT !.heard = "form"])
  /\ newTopic' = "saving"
  /\ UNCHANGED <<topics, matches, created, reembed, torn, cache, page>>

useCreateTopic(k) ==
  /\ request[k].kind = "create" /\ request[k].at = "answered"
  /\ IF request[k].result = "ok"
     THEN /\ cache' = InvalidateQueries(cache, TopicsKey, Active)
          /\ newTopic' = "closed"
          /\ request' = [FormGone("create") EXCEPT ![k] = NoOp]
     ELSE /\ newTopic' = IF request[k].heard = "form" THEN "failed" ELSE newTopic
          /\ Becomes(k, NoOp)
          /\ UNCHANGED cache
  /\ UNCHANGED <<topics, matches, created, reembed, torn, page, budget>>

AskDelete(t) ==
  /\ Unobstructed /\ OnTopic(t) /\ budget.changes > 0
  /\ page' = [page EXCEPT !.confirm = TRUE]
  /\ UNCHANGED <<topicsVars, cache, newTopic, budget>>

TopicHeader(t) == TogglePause(t) \/ OpenEdit(t) \/ AskDelete(t)

DeleteTopicConfirm(t) ==
  /\ page.confirm /\ page.id = t
  /\ page' = [page EXCEPT !.confirm = FALSE]
  /\ \/ UNCHANGED <<request, budget>>
     \/ /\ ~\E k \in Pending : request[k].kind = "delete" /\ request[k].heard = "page"
        /\ Spend("changes")
        /\ \E k \in FreeOp : Send(k, [deleteTopic(t) EXCEPT !.heard = "page"])
  /\ UNCHANGED <<topics, matches, created, reembed, torn, cache, newTopic>>

\* A list on screen that is removed goes on showing its rows.
KeepRows ==
  [page EXCEPT !.held = IF MatchesShown = {} THEN <<>> ELSE Pages(CHOOSE k \in MatchesShown : TRUE)]

\* The topic's page, if it is still open, goes to the inbox.
useDeleteTopic(k) ==
  LET t == request[k].id
      gone == InvalidateQueries(RemoveQueries(RemoveQueries(cache, TopicKey(t)), <<"matches">>),
                                TopicsKey, Active)
  IN
  /\ request[k].kind = "delete" /\ request[k].at = "answered"
  /\ CASE request[k].result # "ok" -> UNCHANGED <<cache, page>>
       [] request[k].result = "ok" /\ request[k].heard = "page" ->
            /\ page' = Fresh(Inbox, <<>>)
            /\ \E expired \in SUBSET Observed(Inbox) : cache' = MountQueries(gone, Observed(Inbox), expired)
       [] OTHER -> cache' = gone /\ page' = KeepRows
  /\ Becomes(k, NoOp)
  /\ UNCHANGED <<topics, matches, created, reembed, torn, newTopic, budget>>

-----------------------------------------------------------------------------
(* The match reader marks a new match seen, once while it is open.         *)

MatchReader(m) ==
  /\ page.at = "match" /\ page.id = m /\ ~page.marked
  /\ HasData(cache[MatchKey(m)]) /\ Only(cache[MatchKey(m)]).state = "new"
  /\ page' = [page EXCEPT !.marked = TRUE]
  /\ \E k \in FreeOp : Send(k, updateMatch(m))
  /\ UNCHANGED <<topics, matches, created, reembed, torn, cache, newTopic, budget>>

useMarkMatchSeen(k) ==
  /\ request[k].kind = "seen" /\ request[k].at = "answered"
  /\ cache' = IF request[k].result # "ok" THEN cache
              ELSE InvalidateQueries(
                     InvalidateQueries(
                       InvalidateQueries(cache, MatchKey(request[k].id), Active),
                       <<"matches">>, Active),
                     TopicsKey, Active)
  /\ Becomes(k, NoOp)
  /\ UNCHANGED <<topics, matches, created, reembed, torn, page, newTopic, budget>>

-----------------------------------------------------------------------------
(* The server, and the answers that are lost.                              *)

Serve ==
  /\ \E k \in TopicOp : CreateTopic(k) \/ UpdateTopic(k) \/ Embed(k) \/ DeleteTopic(k) \/ UpdateMatchState(k)
  /\ UNCHANGED clientVars

\* A topic that was created before the embedder failed is not in the list.
CreateUnembedded(k) ==
  /\ EmbedderUnavailable(k) /\ Fail
  /\ cache' = IF request[k].kind = "create" THEN [cache EXCEPT ![TopicsKey] = Overlooked(@)] ELSE cache
  /\ UNCHANGED <<page, newTopic>>

Refused(k) == Unserved(k) /\ Fail /\ UNCHANGED <<cache, page, newTopic>>

\* The client invalidates after an update that failed, and after nothing else that did.
Lost(k) ==
  /\ request[k].at = "answered" /\ request[k].result = "ok" /\ Fail
  /\ Finish(k, "failed")
  /\ cache' = IF request[k].kind = "update" THEN cache ELSE OverlookQueries(cache)
  /\ UNCHANGED <<topics, matches, created, reembed, torn, page, newTopic>>

Reembed ==
  \/ ReembedStart /\ Spend("reembeds") /\ UNCHANGED <<cache, page, newTopic>>
  \/ ReembedTopic /\ UNCHANGED clientVars
  \/ ReembedStops /\ Fail /\ UNCHANGED <<cache, page, newTopic>>

-----------------------------------------------------------------------------
TopicsUser ==
  \/ \E p \in Links \union MatchGrid : Open(p)
  \/ \E k \in Keys : LoadMore(k) \/ Retry(k)
  \/ \E t \in TopicIds :
       \/ TopicHeader(t) \/ DeleteTopicConfirm(t)
       \/ \E values \in Text : EditTopicForm(t, values)
  \/ CloseEdit \/ OpenNewTopic \/ CloseNewTopic
  \/ \E values \in Text : NewTopicForm(values)

TopicsQueries == \E k \in Keys : Read(k) \/ Arrive(k) \/ Rebuild(k)

TopicsMutations ==
  \/ \E m \in Match : MatchReader(m)
  \/ \E k \in TopicOp : UpdateSettled(k) \/ useCreateTopic(k) \/ useDeleteTopic(k) \/ useMarkMatchSeen(k)

TopicsServer ==
  \/ Serve \/ Reembed
  \/ \E k \in TopicOp : CreateUnembedded(k) \/ Refused(k) \/ Lost(k)

Next == TopicsUser \/ TopicsQueries \/ TopicsMutations \/ TopicsServer

\* One topic, its matches unseen, and a tab just opened at the inbox or the topic.
Init ==
  /\ TopicsInit
  /\ page \in {Fresh(p, <<>>) : p \in {Inbox, TopicPage(1)}}
  /\ cache = MountQueries([k \in Keys |-> Empty], Active, {})
  /\ newTopic = "closed"
  /\ budget \in Budgets

Spec == Init /\ [][Next]_vars

-----------------------------------------------------------------------------
(* Properties.                                                             *)

Current(k) ==
  LET data == cache[k].data IN
  CASE k[1] = "topics"  -> data[1] = PageOf(k)
    [] k[1] = "topic"   -> /\ k[2] \in DOMAIN topics
                           /\ [Only(cache[k]) EXCEPT !.newCount = NewCount(k[2])] = GetTopicWithStats(k[2])
    [] k[1] = "match"   -> k[2] \in DOMAIN matches => data[1] = PageOf(k)
    [] k[1] = "matches" ->
         LET now == ListMatches(k[2])
             n == Loaded(data)
         IN /\ Rows(data) = SubSeq(now, 1, IF n < Len(now) THEN n ELSE Len(now))
            /\ Last(data).total = Len(now)

TopicRow == [id : TopicIds, name : Name, description : Description, isActive : BOOLEAN,
             newCount : 0..Cardinality(Match)]
MatchRow == [id : Match, topic : TopicIds, state : {"new", "seen"}]
EntryType(k) ==
  Entries(CASE k[1] = "topics" -> Page(SUBSET TopicRow)
            [] k[1] = "topic"  -> Page(TopicRow)
            [] OTHER           -> Page(MatchRow))

\* The types of the state (features/radar/types.ts, the rows of store.go).
TopicsTypeOK ==
  /\ TopicsStateOK
  /\ \A k \in Keys : cache[k] \in EntryType(k)
  /\ newTopic \in {"closed", "open", "saving", "failed"}
  /\ page.at \in {"inbox", "topics", "topic", "match"}
  /\ page.edit \in {"closed", "open", "saving", "failed", "saved"}
  /\ page.held \in Seq(Page(MatchRow))

\* When no request is under way, every topic, list and match that the cache takes
\* for fresh is what the server holds (use-mutations.tsx: optimistic patches,
\* rollbacks, removals, invalidations and running fetches, in any order).  Left
\* out: the count on a topic's own page, which marking a match seen does not
\* refresh, and the match of a deleted topic, which is not removed.
TopicsMatchServer ==
  Pending = {} => \A k \in Keys : Trusted(cache[k]) => Current(k)

\* A topic has an embedding, and of its present description, when nobody is
\* about to write one, no embedder failed since its description was set, and
\* no two writers overlapped (service.go CreateTopic, UpdateTopic; reembed-topics).
EmbeddingCurrent ==
  \A t \in DOMAIN topics :
    Writers(t) = {} /\ ~Reembedding(t) /\ t \notin torn =>
      topics[t].embedding # NoText /\ topics[t].embedding.description = topics[t].description

\* Save closes the edit dialog only when the topic is embedded from the
\* description in the form ("Changing the description will re-embed the topic").
SavedIsEmbedded ==
  [][\A t \in DOMAIN topics :
       page.at = "topic" /\ page.id = t /\ page.edit # "saved" /\ page'.edit = "saved" =>
         /\ topics'[t].embedding # NoText
         /\ topics'[t].embedding.description = page'.form.description]_vars
=============================================================================
