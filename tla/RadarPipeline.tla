---------------------------- MODULE RadarPipeline ----------------------------
(***************************************************************************)
(* The radar job pipeline: the four River workers of internal/radar/jobs   *)
(* (schedule_crawls, crawl_feed, embed_finding, match_finding) over the    *)
(* radar tables.  Every SQL statement, HTTP call and job insertion of a    *)
(* worker is a step of its own, because each commits by itself; users and  *)
(* the administrator change feeds, subscriptions and topics in between.    *)
(* A finding is identified by its feed and its external id (UNIQUE         *)
(* (feed_id, external_id)); feed ids are never reused.  A document is the  *)
(* set of its entries that carry a link: ToUpserts drops the others.       *)
(***************************************************************************)
EXTENDS Naturals, FiniteSets

CONSTANTS
  Feed, Item, Topic, User,  \* feed rows, external ids, topic rows, accounts
  ScheduleJob, CrawlJob,    \* slots for job rows of the two kinds that repeat
  NoText,                   \* items without title and summary
  Similar,                  \* <<t, x>>: similarity reaches the threshold of t
  SendsETag,                \* feeds whose publisher sends ETag headers
  FeedOwner, TopicOwner,    \* owner_user_id and user_id, fixed for a row's life
  Catalog,                  \* FeedOwner of a global feed (owner_user_id NULL)
  NoTag, NoFeed, NoItem,    \* "no value"
  BatchSize,                \* scheduleCrawlsBatchSize
  MaxWorkers,               \* LINKTHECA_RADAR_MAX_WORKERS
  MaxAttempts,              \* River's attempts per job
  MaxFaults                 \* bound: crashes and failed database calls

Finding == Feed \X Item

ASSUME PipelineAssumption ==
  /\ IsFiniteSet(Feed) /\ IsFiniteSet(Item)
  /\ NoText \subseteq Item
  /\ SendsETag \subseteq Feed
  /\ Similar \subseteq Topic \X Finding
  /\ FeedOwner \in [Feed -> User \cup {Catalog}] /\ Catalog \notin User
  /\ TopicOwner \in [Topic -> User]
  /\ (\A d \in SUBSET Item : d # NoTag) /\ NoFeed \notin Feed /\ NoItem \notin Item
  /\ BatchSize \in Nat \ {0} /\ MaxWorkers \in Nat \ {0}
  /\ MaxAttempts \in Nat \ {0} /\ MaxFaults \in Nat

VARIABLES
  feedRow,   \* radar_feeds: is the row absent, live or deleted
  isActive,  \* radar_feeds.is_active
  due,       \* last_fetched_at is NULL or older than the fetch interval
  etag,      \* the stored validator: the document it was sent with
  doc,       \* outside: the items each publisher serves now
  subs,      \* radar_feed_subscriptions
  topicRow,  \* radar_topics: the row and whether it has an embedding
  topicOn,   \* radar_topics.is_active
  finding,   \* radar_findings: no row, a row, a row with an embedding
  match,     \* radar_topic_matches: no row, or its state
  schedule,  \* schedule_crawls job rows, and the ids a running one still holds
  crawl,     \* crawl_feed job rows, and the local state of a running one
  embed,     \* the embed_finding job of each finding
  matching,  \* the match_finding job of each finding
  faults     \* crashes and failed database calls so far

feedVars  == <<feedRow, isActive, due, etag>>
topicVars == <<topicRow, topicOn>>
jobVars   == <<schedule, crawl, embed, matching>>
rowVars   == <<feedVars, subs, topicVars, finding, match>>
vars      == <<rowVars, doc, jobVars, faults>>

-----------------------------------------------------------------------------
(* River's job rows. "queued" stands for available and retryable alike.    *)

FreeSchedule == [at |-> "free", todo |-> {}]
FreeCrawl == [at |-> "free", feed |-> NoFeed, attempt |-> 0, todo |-> {},
              item |-> NoItem, tag |-> NoTag]
QueuedCrawl(f, n) == [at |-> "queued", feed |-> f, attempt |-> n, todo |-> {},
                      item |-> NoItem, tag |-> NoTag]

ScheduleRunning == {"enqueue"}
CrawlRunning    == {"fetch", "store", "reread", "enqueue", "return"}
EmbedRunning    == {"call", "save", "enqueue", "return"}
MatchRunning    == {"insert", "return"}

NoJob   == [at |-> "none", attempt |-> 0]
Fresh   == [at |-> "queued", attempt |-> 0]
Done(job) == [job EXCEPT !.at = "done"]

\* Mutant: attempts are never used up.
RetryForever(job) == [job EXCEPT !.at = "queued"]

\* Mutant: a failed job is given up at once.
GiveUp(job) == [job EXCEPT !.at = "discarded"]

\* A failed attempt: River runs the job again until its attempts are used up.
Retry(job) ==
  [job EXCEPT !.at = IF job.attempt < MaxAttempts THEN "queued" ELSE "discarded"]
RetryCrawl(c) ==
  IF c.attempt < MaxAttempts THEN QueuedCrawl(c.feed, c.attempt) ELSE FreeCrawl

FreeWorker ==
    Cardinality({s \in ScheduleJob : schedule[s].at \in ScheduleRunning})
  + Cardinality({j \in CrawlJob : crawl[j].at \in CrawlRunning})
  + Cardinality({x \in Finding : embed[x].at \in EmbedRunning})
  + Cardinality({x \in Finding : matching[x].at \in MatchRunning}) < MaxWorkers

-----------------------------------------------------------------------------
(* schedule_crawls                                                         *)

\* Mutant: last_fetched_at IS NULL does not count as due.
DueOnceFetched == {f \in Feed : feedRow[f] = "live" /\ isActive[f] /\ due[f] /\ etag[f] # NoTag}

DueFeeds == {f \in Feed : feedRow[f] = "live" /\ isActive[f] /\ due[f]}

\* ListDueFeeds: at most `limit` of the due feeds; without ORDER BY, any of them.
ListDueFeeds(limit) ==
  {ids \in SUBSET DueFeeds :
     \/ ids = DueFeeds /\ Cardinality(ids) < limit
     \/ Cardinality(ids) = limit}

\* The periodic job: another row every interval, whatever is still pending.
PeriodicTick(s) ==
  /\ schedule[s].at = "free"
  /\ schedule' = [schedule EXCEPT ![s].at = "queued"]
  /\ UNCHANGED <<rowVars, doc, crawl, embed, matching, faults>>

\* Bound: it waits until the rows it is about to insert have free slots.
ScheduleStart(s) ==
  /\ schedule[s].at = "queued" /\ FreeWorker
  /\ \E ids \in ListDueFeeds(BatchSize) :
       /\ Cardinality(ids) <= Cardinality({j \in CrawlJob : crawl[j].at = "free"})
       /\ schedule' = [schedule EXCEPT ![s] = [at |-> "enqueue", todo |-> ids]]
  /\ UNCHANGED <<rowVars, doc, crawl, embed, matching, faults>>

\* One Insert(CrawlFeedArgs) of the loop; nothing looks for a pending duplicate.
ScheduleEnqueue(s, f, j) ==
  /\ schedule[s].at = "enqueue" /\ f \in schedule[s].todo
  /\ crawl[j].at = "free"
  /\ crawl' = [crawl EXCEPT ![j] = QueuedCrawl(f, 0)]
  /\ schedule' = [schedule EXCEPT ![s].todo = @ \ {f}]
  /\ UNCHANGED <<rowVars, doc, embed, matching, faults>>

ScheduleReturn(s) ==
  /\ schedule[s].at = "enqueue" /\ schedule[s].todo = {}
  /\ schedule' = [schedule EXCEPT ![s] = FreeSchedule]
  /\ UNCHANGED <<rowVars, doc, crawl, embed, matching, faults>>

-----------------------------------------------------------------------------
(* crawl_feed                                                              *)

SetCrawl(j, c) == crawl' = [crawl EXCEPT ![j] = c]
CrawlFails(j)  == SetCrawl(j, RetryCrawl(crawl[j]))

\* A worker takes the job and GetFeedForFetch reads the stored validator.
CrawlStart(j) ==
  /\ crawl[j].at = "queued" /\ FreeWorker
  /\ LET c == [crawl[j] EXCEPT !.attempt = @ + 1] IN
       SetCrawl(j, IF feedRow[c.feed] = "live"
                   THEN [c EXCEPT !.at = "fetch", !.tag = etag[c.feed]]
                   ELSE RetryCrawl(c))
  /\ UNCHANGED <<rowVars, doc, schedule, embed, matching, faults>>

\* A 200: the document as it is now, and the validator if the publisher sends one.
FetchDocument(j) ==
  /\ crawl[j].at = "fetch"
  /\ LET d == doc[crawl[j].feed] IN
       SetCrawl(j, [crawl[j] EXCEPT !.at = "store", !.todo = d,
                                    !.tag = IF crawl[j].feed \in SendsETag THEN d ELSE NoTag])
  /\ UNCHANGED <<rowVars, doc, schedule, embed, matching, faults>>

\* A 304: only for the validator of the current document, which it repeats.
FetchNotModified(j) ==
  /\ crawl[j].at = "fetch" /\ crawl[j].tag = doc[crawl[j].feed]
  /\ SetCrawl(j, [crawl[j] EXCEPT !.at = "store"])
  /\ UNCHANGED <<rowVars, doc, schedule, embed, matching, faults>>

\* Fetch or Parse fails. MarkFeedError stamps the feed; its own error is ignored.
FetchFails(j) ==
  /\ crawl[j].at = "fetch"
  /\ CrawlFails(j)
  /\ due' \in {due, [due EXCEPT ![crawl[j].feed] = FALSE]}
  /\ UNCHANGED <<feedRow, isActive, etag, doc, subs, topicVars, finding, match,
                 schedule, embed, matching, faults>>

\* Mutant: the worker ignores `created`.
CreatedAlways(x) == TRUE

\* INSERT ... ON CONFLICT DO NOTHING returns a row only if it inserted one.
Created(x) == finding[x] = "none"

\* The INSERT of UpsertFinding: a new row, a conflict, or a foreign key error.
UpsertFinding(j, i) ==
  LET c == crawl[j]  x == <<c.feed, i>> IN
  /\ c.at = "store" /\ i \in c.todo
  /\ \/ /\ feedRow[c.feed] = "live"
        /\ finding' = [finding EXCEPT ![x] = IF @ = "none" THEN "bare" ELSE @]
        /\ SetCrawl(j, [c EXCEPT !.at = IF Created(x) THEN "enqueue" ELSE "reread", !.item = i])
     \/ /\ feedRow[c.feed] # "live"
        /\ CrawlFails(j)
        /\ UNCHANGED finding
  /\ UNCHANGED <<feedVars, subs, topicVars, match, doc, schedule, embed, matching, faults>>

NextItem(c) == [c EXCEPT !.at = "store", !.todo = @ \ {c.item}, !.item = NoItem]

\* After a conflict UpsertFinding selects the existing row, in a statement of its
\* own: the row may have gone with its feed.
GetFindingByExternalID(j) ==
  LET c == crawl[j] IN
  /\ c.at = "reread"
  /\ IF finding[<<c.feed, c.item>>] # "none" THEN SetCrawl(j, NextItem(c)) ELSE CrawlFails(j)
  /\ UNCHANGED <<rowVars, doc, schedule, embed, matching, faults>>

\* Insert(EmbedFindingArgs) for the row this worker has just created.
EnqueueEmbed(j) ==
  LET c == crawl[j]  x == <<c.feed, c.item>> IN
  /\ c.at = "enqueue"
  /\ embed' = [embed EXCEPT ![x] = Fresh]
  /\ SetCrawl(j, NextItem(c))
  /\ UNCHANGED <<rowVars, doc, schedule, matching, faults>>

\* Mutant: the feed is marked before its items are stored.
LoopNotAwaited(c) == c.at = "store"

LoopDone(c) == c.at = "store" /\ c.todo = {}

\* MarkFeedFetched after the last item, or at once after a 304.
MarkFeedFetched(j) ==
  LET c == crawl[j] IN
  /\ LoopDone(c)
  /\ IF feedRow[c.feed] = "live"
     THEN /\ due' = [due EXCEPT ![c.feed] = FALSE]
          /\ etag' = [etag EXCEPT ![c.feed] = c.tag]
     ELSE UNCHANGED <<due, etag>>
  /\ SetCrawl(j, [c EXCEPT !.at = "return"])
  /\ UNCHANGED <<feedRow, isActive, subs, topicVars, finding, match, doc,
                 schedule, embed, matching, faults>>

CrawlReturn(j) ==
  /\ crawl[j].at = "return"
  /\ SetCrawl(j, FreeCrawl)
  /\ UNCHANGED <<rowVars, doc, schedule, embed, matching, faults>>

-----------------------------------------------------------------------------
(* embed_finding                                                           *)

SetEmbed(x, job) == embed' = [embed EXCEPT ![x] = job]
EmbedFails(x)    == SetEmbed(x, Retry(embed[x]))

\* Mutant: HasEmbedding is not looked at.
SkipsBlankOnly(x) == finding[x] = "bare" /\ x[2] \in NoText

\* The two early returns: HasEmbedding, and no text to embed.
SkipsEmbedding(x) ==
  finding[x] = "embedded" \/ (finding[x] = "bare" /\ x[2] \in NoText)

\* A worker takes the job; GetFindingForEmbed and the two early returns.
EmbedStart(x) ==
  /\ embed[x].at = "queued" /\ FreeWorker
  /\ LET job == [embed[x] EXCEPT !.attempt = @ + 1] IN
       \/ finding[x] = "none" /\ SetEmbed(x, Retry(job))
       \/ SkipsEmbedding(x) /\ SetEmbed(x, [job EXCEPT !.at = "return"])
       \/ /\ finding[x] # "none" /\ ~SkipsEmbedding(x)
          /\ SetEmbed(x, [job EXCEPT !.at = "call"])
  /\ UNCHANGED <<rowVars, doc, schedule, crawl, matching, faults>>

\* Mutant: the match job is inserted before the embedding is saved.
EmbedCallUnsaved(x) ==
  /\ embed[x].at = "call"
  /\ SetEmbed(x, [embed[x] EXCEPT !.at = "enqueue"])
  /\ UNCHANGED <<rowVars, doc, schedule, crawl, matching, faults>>

\* The embedder answers, or fails and the job is retried.
EmbedCall(x) ==
  /\ embed[x].at = "call"
  /\ SetEmbed(x, [embed[x] EXCEPT !.at = "save"])
  /\ UNCHANGED <<rowVars, doc, schedule, crawl, matching, faults>>

\* Mutant: the worker swallows the embedder's error.
EmbedCallFailsQuietly(x) ==
  /\ embed[x].at = "call"
  /\ SetEmbed(x, Done(embed[x]))
  /\ UNCHANGED <<rowVars, doc, schedule, crawl, matching, faults>>

EmbedCallFails(x) ==
  /\ embed[x].at = "call"
  /\ EmbedFails(x)
  /\ UNCHANGED <<rowVars, doc, schedule, crawl, matching, faults>>

\* UpdateFindingEmbedding; no row is ErrNotFound.
EmbedSave(x) ==
  /\ embed[x].at = "save"
  /\ \/ /\ finding[x] # "none"
        /\ finding' = [finding EXCEPT ![x] = "embedded"]
        /\ SetEmbed(x, [embed[x] EXCEPT !.at = "enqueue"])
     \/ /\ finding[x] = "none"
        /\ EmbedFails(x)
        /\ UNCHANGED finding
  /\ UNCHANGED <<feedVars, subs, topicVars, match, doc, schedule, crawl, matching, faults>>

\* Mutant: the match job is not inserted.
EnqueueNoMatch(x) ==
  /\ embed[x].at = "enqueue"
  /\ SetEmbed(x, [embed[x] EXCEPT !.at = "return"])
  /\ UNCHANGED <<rowVars, doc, schedule, crawl, matching, faults>>

\* Insert(MatchFindingArgs).
EnqueueMatch(x) ==
  /\ embed[x].at = "enqueue"
  /\ matching' = [matching EXCEPT ![x] = Fresh]
  /\ SetEmbed(x, [embed[x] EXCEPT !.at = "return"])
  /\ UNCHANGED <<rowVars, doc, schedule, crawl, faults>>

EmbedReturn(x) ==
  /\ embed[x].at = "return"
  /\ SetEmbed(x, Done(embed[x]))
  /\ UNCHANGED <<rowVars, doc, schedule, crawl, matching, faults>>

-----------------------------------------------------------------------------
(* match_finding                                                           *)

\* The WHERE clause of MatchFindingToTopics.
Eligible(t, x) ==
  /\ topicRow[t] = "embedded" /\ topicOn[t]
  /\ <<TopicOwner[t], x[1]>> \in subs
  /\ finding[x] = "embedded"
  /\ <<t, x>> \in Similar

\* Mutant: ON CONFLICT DO UPDATE SET state = 'new'.
InsertOrReset(old) == "new"

\* INSERT ... ON CONFLICT (topic_id, finding_id) DO NOTHING.
InsertOrKeep(old) == IF old = "none" THEN "new" ELSE old

MatchStart(x) ==
  /\ matching[x].at = "queued" /\ FreeWorker
  /\ matching' = [matching EXCEPT ![x].at = "insert", ![x].attempt = @ + 1]
  /\ UNCHANGED <<rowVars, doc, schedule, crawl, embed, faults>>

\* One INSERT ... SELECT ... ON CONFLICT DO NOTHING over all topics.
MatchFindingToTopics(x) ==
  /\ matching[x].at = "insert"
  /\ match' = [p \in Topic \X Finding |->
                 IF p[2] = x /\ Eligible(p[1], x) THEN InsertOrKeep(match[p])
                 ELSE match[p]]
  /\ matching' = [matching EXCEPT ![x].at = "return"]
  /\ UNCHANGED <<feedVars, subs, topicVars, finding, doc, schedule, crawl, embed, faults>>

MatchReturn(x) ==
  /\ matching[x].at = "return"
  /\ matching' = [matching EXCEPT ![x] = Done(@)]
  /\ UNCHANGED <<rowVars, doc, schedule, crawl, embed, faults>>

-----------------------------------------------------------------------------
(* Failed database calls, expired job contexts, and crashes of the server. *)

ScheduleError(s) ==
  /\ schedule[s].at \in ScheduleRunning
  /\ schedule' = [schedule EXCEPT ![s] = [FreeSchedule EXCEPT !.at = "queued"]]
  /\ UNCHANGED <<crawl, embed, matching>>

CrawlError(j) ==
  /\ crawl[j].at \in CrawlRunning
  /\ CrawlFails(j)
  /\ UNCHANGED <<schedule, embed, matching>>

EmbedError(x) ==
  /\ embed[x].at \in EmbedRunning
  /\ EmbedFails(x)
  /\ UNCHANGED <<schedule, crawl, matching>>

MatchError(x) ==
  /\ matching[x].at \in MatchRunning
  /\ matching' = [matching EXCEPT ![x] = Retry(@)]
  /\ UNCHANGED <<schedule, crawl, embed>>

\* A statement or an insertion of a running job returns an error (the job's
\* deadline passes, the connection drops): the worker returns it to River.
JobError ==
  /\ faults < MaxFaults /\ faults' = faults + 1
  /\ \/ \E s \in ScheduleJob : ScheduleError(s)
     \/ \E j \in CrawlJob : CrawlError(j)
     \/ \E x \in Finding : EmbedError(x) \/ MatchError(x)
  /\ UNCHANGED <<rowVars, doc>>

\* The process dies: what its workers held is lost, and River hands the rows
\* that were running out again after the restart.
Crash ==
  /\ faults < MaxFaults /\ faults' = faults + 1
  /\ schedule' = [s \in ScheduleJob |->
       IF schedule[s].at \in ScheduleRunning
       THEN [FreeSchedule EXCEPT !.at = "queued"] ELSE schedule[s]]
  /\ crawl' = [j \in CrawlJob |->
       IF crawl[j].at \in CrawlRunning THEN RetryCrawl(crawl[j]) ELSE crawl[j]]
  /\ embed' = [x \in Finding |->
       IF embed[x].at \in EmbedRunning THEN Retry(embed[x]) ELSE embed[x]]
  /\ matching' = [x \in Finding |->
       IF matching[x].at \in MatchRunning THEN Retry(matching[x]) ELSE matching[x]]
  /\ UNCHANGED <<rowVars, doc>>

-----------------------------------------------------------------------------
(* The publisher, the clock, the administrator and the users.              *)

Publish(f) ==
  /\ \E d \in SUBSET Item : d # doc[f] /\ doc' = [doc EXCEPT ![f] = d]
  /\ UNCHANGED <<rowVars, jobVars, faults>>

IntervalElapses(f) ==
  /\ feedRow[f] = "live" /\ ~due[f]
  /\ due' = [due EXCEPT ![f] = TRUE]
  /\ UNCHANGED <<feedRow, isActive, etag, subs, topicVars, finding, match, doc,
                 jobVars, faults>>

AddFeed(f) ==
  /\ feedRow[f] = "absent"
  /\ feedRow' = [feedRow EXCEPT ![f] = "live"]
  /\ isActive' = [isActive EXCEPT ![f] = TRUE]
  /\ due' = [due EXCEPT ![f] = TRUE]
  /\ UNCHANGED <<etag, subs, topicVars, finding, match, doc, jobVars, faults>>

\* PATCH of is_active. A longer fetch interval only postpones IntervalElapses.
UpdateFeed(f) ==
  /\ feedRow[f] = "live"
  /\ isActive' = [isActive EXCEPT ![f] = ~@]
  /\ UNCHANGED <<feedRow, due, etag, subs, topicVars, finding, match, doc, jobVars, faults>>

\* Mutant: radar_topic_matches without ON DELETE CASCADE.
MatchesKept(f) == match

MatchesWithout(f) ==
  [p \in Topic \X Finding |-> IF p[2][1] = f THEN "none" ELSE match[p]]

\* ON DELETE CASCADE to subscriptions and findings, and from these to matches.
DeleteFeed(f) ==
  /\ feedRow[f] = "live"
  /\ feedRow' = [feedRow EXCEPT ![f] = "deleted"]
  /\ isActive' = [isActive EXCEPT ![f] = FALSE]
  /\ due' = [due EXCEPT ![f] = FALSE]
  /\ etag' = [etag EXCEPT ![f] = NoTag]
  /\ subs' = {s \in subs : s[2] # f}
  /\ finding' = [x \in Finding |-> IF x[1] = f THEN "none" ELSE finding[x]]
  /\ match' = MatchesWithout(f)
  /\ UNCHANGED <<topicVars, doc, jobVars, faults>>

\* Mutant: no ownership predicate.
AnyoneMayRead(u, f) == TRUE

MayRead(u, f) == FeedOwner[f] \in {Catalog, u}

\* Subscribe reaches global feeds and the caller's own.
Subscribe(u, f) ==
  /\ feedRow[f] = "live" /\ MayRead(u, f)
  /\ subs' = subs \cup {<<u, f>>}
  /\ UNCHANGED <<feedVars, topicVars, finding, match, doc, jobVars, faults>>

Unsubscribe(u, f) ==
  /\ subs' = subs \ {<<u, f>>}
  /\ UNCHANGED <<feedVars, topicVars, finding, match, doc, jobVars, faults>>

\* CreateTopic inserts the row; its embedding is a later statement.
CreateTopic(t) ==
  /\ topicRow[t] = "absent"
  /\ topicRow' = [topicRow EXCEPT ![t] = "bare"]
  /\ topicOn' = [topicOn EXCEPT ![t] = TRUE]
  /\ UNCHANGED <<feedVars, subs, finding, match, doc, jobVars, faults>>

UpdateTopicEmbedding(t) ==
  /\ topicRow[t] = "bare"
  /\ topicRow' = [topicRow EXCEPT ![t] = "embedded"]
  /\ UNCHANGED <<feedVars, subs, topicOn, finding, match, doc, jobVars, faults>>

UpdateTopic(t) ==
  /\ topicRow[t] \in {"bare", "embedded"}
  /\ topicOn' = [topicOn EXCEPT ![t] = ~@]
  /\ UNCHANGED <<feedVars, subs, topicRow, finding, match, doc, jobVars, faults>>

DeleteTopic(t) ==
  /\ topicRow[t] \in {"bare", "embedded"}
  /\ topicRow' = [topicRow EXCEPT ![t] = "deleted"]
  /\ topicOn' = [topicOn EXCEPT ![t] = FALSE]
  /\ match' = [p \in Topic \X Finding |-> IF p[1] = t THEN "none" ELSE match[p]]
  /\ UNCHANGED <<feedVars, subs, finding, doc, jobVars, faults>>

\* The reader marks a match; only 'new' and 'seen' pass validation.
UpdateMatchState(p) ==
  /\ match[p] # "none"
  /\ \E s \in {"new", "seen"} : match' = [match EXCEPT ![p] = s]
  /\ UNCHANGED <<feedVars, subs, topicVars, finding, doc, jobVars, faults>>

-----------------------------------------------------------------------------
Init ==
  /\ feedRow = [f \in Feed |-> "absent"] /\ isActive = [f \in Feed |-> FALSE]
  /\ due = [f \in Feed |-> FALSE] /\ etag = [f \in Feed |-> NoTag]
  /\ doc \in [Feed -> SUBSET Item]
  /\ subs = {}
  /\ topicRow = [t \in Topic |-> "absent"] /\ topicOn = [t \in Topic |-> FALSE]
  /\ finding = [x \in Finding |-> "none"]
  /\ match = [p \in Topic \X Finding |-> "none"]
  /\ schedule = [s \in ScheduleJob |-> FreeSchedule]
  /\ crawl = [j \in CrawlJob |-> FreeCrawl]
  /\ embed = [x \in Finding |-> NoJob] /\ matching = [x \in Finding |-> NoJob]
  /\ faults = 0

ScheduleCrawls(s) ==
  \/ PeriodicTick(s) \/ ScheduleStart(s) \/ ScheduleReturn(s)
  \/ \E f \in Feed, j \in CrawlJob : ScheduleEnqueue(s, f, j)

CrawlFeed(j) ==
  \/ CrawlStart(j) \/ FetchDocument(j) \/ FetchNotModified(j) \/ FetchFails(j)
  \/ \E i \in Item : UpsertFinding(j, i)
  \/ GetFindingByExternalID(j) \/ EnqueueEmbed(j) \/ MarkFeedFetched(j) \/ CrawlReturn(j)

EmbedFinding(x) ==
  \/ EmbedStart(x) \/ EmbedCall(x) \/ EmbedCallFails(x) \/ EmbedSave(x)
  \/ EnqueueMatch(x) \/ EmbedReturn(x)

MatchFinding(x) == MatchStart(x) \/ MatchFindingToTopics(x) \/ MatchReturn(x)

FeedChange(f) ==
  \/ Publish(f) \/ IntervalElapses(f) \/ AddFeed(f) \/ UpdateFeed(f) \/ DeleteFeed(f)
  \/ \E u \in User : Subscribe(u, f) \/ Unsubscribe(u, f)

TopicChange(t) ==
  \/ CreateTopic(t) \/ UpdateTopicEmbedding(t) \/ UpdateTopic(t) \/ DeleteTopic(t)

Next ==
  \/ \E s \in ScheduleJob : ScheduleCrawls(s)
  \/ \E j \in CrawlJob : CrawlFeed(j)
  \/ \E x \in Finding : EmbedFinding(x) \/ MatchFinding(x)
  \/ JobError \/ Crash
  \/ \E f \in Feed : FeedChange(f)
  \/ \E t \in Topic : TopicChange(t)
  \/ \E p \in Topic \X Finding : UpdateMatchState(p)

Spec == Init /\ [][Next]_vars

-----------------------------------------------------------------------------
(* Correctness.                                                            *)

JobStates(running) == {"none", "queued", "done", "discarded"} \cup running

TypeOK ==
  /\ feedRow \in [Feed -> {"absent", "live", "deleted"}]
  /\ isActive \in [Feed -> BOOLEAN] /\ due \in [Feed -> BOOLEAN]
  /\ etag \in [Feed -> {NoTag} \cup SUBSET Item]
  /\ doc \in [Feed -> SUBSET Item]
  /\ subs \subseteq User \X Feed
  /\ topicRow \in [Topic -> {"absent", "bare", "embedded", "deleted"}]
  /\ topicOn \in [Topic -> BOOLEAN]
  /\ finding \in [Finding -> {"none", "bare", "embedded"}]
  /\ match \in [Topic \X Finding -> {"none", "new", "seen"}]
  /\ schedule \in [ScheduleJob ->
       [at : {"free", "queued"} \cup ScheduleRunning, todo : SUBSET Feed]]
  /\ crawl \in [CrawlJob ->
       [at : {"free", "queued"} \cup CrawlRunning, feed : Feed \cup {NoFeed},
        attempt : 0 .. MaxAttempts, todo : SUBSET Item, item : Item \cup {NoItem},
        tag : {NoTag} \cup SUBSET Item]]
  /\ embed \in [Finding -> [at : JobStates(EmbedRunning), attempt : 0 .. MaxAttempts]]
  /\ matching \in [Finding -> [at : JobStates(MatchRunning), attempt : 0 .. MaxAttempts]]
  /\ faults \in 0 .. MaxFaults

\* A stored validator makes the publisher answer 304, and nothing in a 304 is
\* looked at: it may only cover documents whose items all have their rows.
ValidatorCovered ==
  \A f \in Feed : etag[f] # NoTag =>
    \A i \in etag[f] : finding[<<f, i>>] # "none"

\* The two job insertions are guarded by `created` and by HasEmbedding, not by
\* a unique index: whatever crawls overlap, when a worker is about to insert
\* a finding's job there is none yet, and no other worker is about to.
OneJobPerFinding ==
  /\ \A j \in CrawlJob : crawl[j].at = "enqueue" =>
       LET x == <<crawl[j].feed, crawl[j].item>> IN
         /\ embed[x].at = "none"
         /\ \A k \in CrawlJob \ {j} :
              ~(crawl[k].at = "enqueue" /\ <<crawl[k].feed, crawl[k].item>> = x)
  /\ \A x \in Finding : embed[x].at = "enqueue" => matching[x].at = "none"

\* A finding that has its embedding is not sent to the embedder again.
NoSecondEmbedding ==
  \A x \in Finding : embed[x].at \in {"call", "save"} => finding[x] # "embedded"

\* A job finds the state the stage before it was to leave, unless the feed is gone.
StagesInOrder ==
  \A x \in Finding : feedRow[x[1]] # "deleted" =>
    /\ embed[x].at # "none" => finding[x] # "none"
    /\ matching[x].at # "none" => finding[x] = "embedded"

\* A match joins a live topic and a live finding that both have embeddings, and
\* never shows an account a finding of another account's personal feed.
MatchesAreSound ==
  \A p \in Topic \X Finding : match[p] # "none" =>
    /\ topicRow[p[1]] = "embedded" /\ finding[p[2]] = "embedded"
    /\ feedRow[p[2][1]] = "live"
    /\ FeedOwner[p[2][1]] \in {Catalog, TopicOwner[p[1]]}

AwaitsEmbed(x) ==
  \/ embed[x].at \in {"queued", "call", "save"}
  \/ \E j \in CrawlJob :
       crawl[j].at = "enqueue" /\ <<crawl[j].feed, crawl[j].item>> = x
AwaitsMatch(x) == embed[x].at = "enqueue" \/ matching[x].at \in {"queued", "insert"}
Matched(x) == matching[x].at \in {"return", "done"}

\* River gives an embed job up with its last attempt, never before.
AttemptsSpent(x) == embed[x].at = "discarded" /\ embed[x].attempt = MaxAttempts

\* "River persists jobs in Postgres, and they are picked up again": a finding with
\* text that has no embedding has the job, or the worker, that will embed it, unless
\* the embedder failed in every attempt of that job; and one that has its embedding
\* has the job, or the worker, that will match it, or has been matched since.
NothingStranded ==
  \A x \in Finding :
    /\ finding[x] = "bare" /\ x[2] \notin NoText => AwaitsEmbed(x) \/ AttemptsSpent(x)
    /\ finding[x] = "embedded" => AwaitsMatch(x) \/ Matched(x)

\* It holds as long as no statement fails and no worker is interrupted: failed
\* fetches, overlapping crawls and deletions strand nothing, and a failing embedder
\* strands only what it refused MaxAttempts times (crawl_feed.go, embed_finding.go).
StrandedOnlyByFaults == faults = 0 => NothingStranded

\* Running the match job again (at least once delivery) leaves existing rows as
\* they are: a match the user has seen does not come back as new.
ReviewSurvivesRematch ==
  [][matching' # matching =>
       \A p \in Topic \X Finding : match[p] # "none" => match'[p] = match[p]]_vars

\* The pipeline implements the life cycle of a finding: rows of a deleted feed
\* map to "gone", whatever its jobs still do.
Life(x) ==
  IF feedRow[x[1]] = "deleted" THEN "gone"
  ELSE IF finding[x] = "none" THEN "unseen"
  ELSE IF finding[x] = "bare" THEN "found" ELSE "embedded"

Lifecycle == INSTANCE FindingLifecycle WITH
  life <- [x \in Finding |-> Life(x)],
  matches <- {p \in Topic \X Finding : match[p] # "none"}

RefinesLifecycle == Lifecycle!Spec

-----------------------------------------------------------------------------
(* Liveness.  River fetches the oldest available job first, so a queued job *)
(* gets a worker although others compete for it (strong fairness); a        *)
(* running worker takes its next step, and the embedder's HTTP call ends    *)
(* one way or the other before its timeout (weak fairness).  A publisher    *)
(* that is asked again and again answers again and again.                   *)

ScheduleStep(s) ==
  ScheduleReturn(s) \/ \E f \in Feed, j \in CrawlJob : ScheduleEnqueue(s, f, j)
FetchAnswered(j) == FetchDocument(j) \/ FetchNotModified(j)
CrawlStep(j) ==
  \/ \E i \in Item : UpsertFinding(j, i)
  \/ GetFindingByExternalID(j) \/ EnqueueEmbed(j) \/ MarkFeedFetched(j) \/ CrawlReturn(j)
EmbedStep(x) ==
  EmbedCall(x) \/ EmbedCallFails(x) \/ EmbedSave(x) \/ EnqueueMatch(x) \/ EmbedReturn(x)
MatchStep(x) == MatchFindingToTopics(x) \/ MatchReturn(x)

Fairness ==
  /\ \A f \in Feed : WF_vars(IntervalElapses(f))
  /\ \A s \in ScheduleJob :
       WF_vars(PeriodicTick(s)) /\ SF_vars(ScheduleStart(s)) /\ WF_vars(ScheduleStep(s))
  /\ \A j \in CrawlJob :
       SF_vars(CrawlStart(j)) /\ SF_vars(FetchAnswered(j)) /\ WF_vars(CrawlStep(j))
  /\ \A x \in Finding :
       /\ SF_vars(EmbedStart(x)) /\ WF_vars(EmbedStep(x))
       /\ SF_vars(MatchStart(x)) /\ WF_vars(MatchStep(x))

FairSpec == Spec /\ Fairness

\* An item that stays in the document of an active feed gets its row.
Offered(x) ==
  /\ feedRow[x[1]] = "live" /\ isActive[x[1]]
  /\ x[2] \in doc[x[1]]
EveryItemDiscovered ==
  \A x \in Finding : Offered(x) ~> (finding[x] # "none" \/ ~Offered(x))

\* A row with text gets its embedding, unless its job ran out of attempts.
EveryFindingEmbedded ==
  \A x \in Finding :
    (finding[x] = "bare" /\ x[2] \notin NoText)
      ~> (finding[x] # "bare" \/ embed[x].at = "discarded")

\* An embedded finding is shown under every topic that stays eligible for it.
\* With no database failures the match job cannot run out of attempts.
EveryMatchShown ==
  \A p \in Topic \X Finding :
    (Eligible(p[1], p[2]) /\ AwaitsMatch(p[2]))
      ~> (match[p] # "none" \/ ~Eligible(p[1], p[2]))
=============================================================================
