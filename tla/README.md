# linktheca in TLA+

linktheca is a read-later library with a "radar": a Go server over PostgreSQL
that crawls RSS and Atom feeds, embeds what it finds, and shows each reader the
findings that are close to one of their topics; a React client talks to it over
HTTP. This directory holds a model of the parts whose behaviour depends on
interleavings, failures and retries, the TLC runs that check it, and TLAPS
proofs about it.

## 1. The system

### Components

| component | state | operations | talks to |
|---|---|---|---|
| **radar jobs** (`internal/radar/jobs`) | River job rows in Postgres, local state of running workers | `schedule_crawls`, `crawl_feed`, `embed_finding`, `match_finding` | radar store, crawler, embedder, River |
| **radar crawler** (`internal/radar/crawler`) | none; the validators are in `radar_feeds` | conditional GET, parse, `ToUpserts` | the publishers of feeds |
| **radar store** (`internal/radar/store.go`, migrations 006-012) | topics, feeds, subscriptions, findings, matches | one SQL statement per operation, `UNIQUE` and `ON DELETE CASCADE` | Postgres |
| **radar service**, **radar http** | none | topic, feed, subscription and match requests; quota and ownership; embedding of a topic after its row | radar store, embedder |
| **reembed-topics** | none | rewrites every topic's embedding | radar store, embedder |
| **auth** (`internal/auth`), **core auth** | `users`, `refresh_tokens`; signed access tokens | register, login, refresh (rotation), logout | Postgres |
| **library**, **media fetcher**, **content extractor** | `article_contents`, `library_items`, files on disk | save a URL, list, update, delete; download images and favicons | web pages, Postgres, disk |
| **embeddings client** | none | one HTTP call per batch, with a timeout | the embedder |
| **server process** (`cmd/linktheca-server`, `internal/server`) | none | start, migrate, serve, shut down; starts and stops River | everything above |
| **web session** (`shared/api/client.ts`, `features/auth`) | tokens in `localStorage`, a refresh promise per tab | authorised fetch, refresh on 401, login, logout | auth over HTTP |
| **web library cache**, **web radar cache** (`features/library`, `features/radar`, `features/admin`) | cached queries of the tab, mutations under way | optimistic updates with rollback, invalidation, removal | library and radar over HTTP, web views |
| **web views** (`routes`, `components`) | what is on screen, open dialogs | navigation, buttons, forms, the reader's scroll listener | the caches |
| infrastructure, radar-sim | none of their own | configuration, logging, a tuning tool | |

### How they interact

The radar is a pipeline of four job kinds. Each stage writes rows and then
inserts the job of the next stage, in statements of their own, while readers and
the administrator change feeds, subscriptions and topics with requests:

    periodic job -> schedule_crawls -> crawl_feed -> embed_finding -> match_finding
                     ListDueFeeds      UpsertFinding  UpdateFinding-   MatchFinding-
                                       MarkFeedFetched  Embedding        ToTopics

Everything else is request and answer: the browser holds a short-lived access
token and a rotating refresh token; library and radar requests check the access
token only.

### What is hard

* **Jobs are delivered at least once.** A worker can stop between any two of its
  statements and the job runs again from the start, over the rows it has already
  written. Rows and follow-up jobs are not written in one transaction.
* **Crawls overlap.** The scheduler inserts a crawl job for every due feed at
  each tick and never looks for a pending one; each crawl holds a validator and
  a document that another one may have overtaken.
* **Rows disappear underneath.** Feeds, topics and subscriptions are deleted
  while a worker holds their ids.
* **Validators hide.** A 304 is taken as "nothing new" without looking.
* **Requests race**: quotas and catalog lookups are read before an insert, a
  topic's text and its embedding are written apart, a refresh token is looked up
  before it is revoked, two tabs share one token, a retried call repeats its old
  body, two optimistic updates share
  one cache.

### What makes each component correct

* radar jobs, crawler, store: no item is hidden behind a stored validator; a
  finding is embedded once, gets one job per stage, the stages happen in order; no
  job is given up before its last attempt, and none is forgotten unless a fault comes
  between a row and its job;
  every offered item is found, embedded and shown; a match is only shown to an
  account that may read the feed; a review survives a repeated match job;
  nothing of a deleted feed comes back.
* radar service, reembed-topics: the quota's overshoot is bounded by the
  concurrency; an account gets no copy of a feed the catalog had when it was
  looked up; a topic's embedding is the one of its description unless a failure
  or an overlap of writers is to blame.
* auth: an instance with accounts has an administrator; an exchanged token is
  dead, and what is dead is not exchanged again; a chain of refreshes stays with
  one account.
* web session: many 401s share one refresh; the stored token can still renew the
  session; a live session is not cleared by another tab; a sign-out revokes what
  it forgets; every call ends.
* library: the first extraction of an address stands, whatever is saved again.
* web caches: once all answers are in, what the cache takes for fresh is what the
  server holds; no page is left without data, request or error; what a user has
  just set is not put back by an older answer or by a listener.

`PROJECT.json` lists every hazard at its line, with the properties that would catch
it. Some hazards the code accepts, and the properties leave them out by name: two
administrators from two first registrations; a catalog feed added between the lookup
and the insert of an own one (`CatalogNotDuplicated` allows a younger row); a topic
whose writers overlapped or whose embedder failed (`torn` in `EmbeddingCurrent`); a
job whose attempts are used up (`AttemptsSpent`); another tab's refresh
(`RefusedOnlyIfOver`). They are listed with the reason, and not with a property that
would not see them.

## 2. Modules

| module | what it is |
|---|---|
| `FindingLifecycle` | abstract: a finding is discovered once, embedded once, matched only then, and gone for good with its feed |
| `RadarPipeline` | the four workers, River, the tables they use, failures, and the requests that run beside them |
| `RadarPipelineMC` | instances for TLC |
| `RadarPipelineProofs` | the type invariant, soundness of matches, one job per stage, stages in order; validators, findings left behind, reviews; `RadarPipeline` implements `FindingLifecycle` |
| `AuthServer` | accounts and refresh tokens: requests as statements over `users` and `refresh_tokens` |
| `AuthServerMC`, `AuthServerProofs` | the instance for TLC; all its properties as theorems |
| `WebSession` | tabs, `localStorage`, `apiFetch` and its shared refresh; extends `AuthServer`, whose actions are its server |
| `WebSessionMC` | instances for TLC |
| `WebSessionProofs` | type invariant; the tabs are clients as `AuthServer` assumes them; the stored token, the shared refresh and its refusals, while no answer is lost |
| `QueryCache` | one query of the query library, and a cache of them: fetch, answer, invalidate, cancel, set, remove |
| `QueryCacheProofs` | lemmas about any such cache: the rows of a sequence of pages, and what a fetch, an invalidation or a cancellation makes of an entry that agrees with the server |
| `Library` | saved articles and contents: the statements of `internal/library` |
| `LibraryClient` | the library in one tab: pages, cache, changes and the service that answers; extends `Library` and `QueryCache` |
| `LibraryClientMC`, `LibraryClientProofs` | the instance for TLC; what its marks, its copies and its saves do as theorems |
| `LibraryCacheProofs` | the library's types and the freshness of its cache as theorems |
| `Topics` | topics, embeddings, matches as the radar service and `reembed-topics` change them |
| `TopicsClient` | topics and matches in one tab; extends `Topics` and `QueryCache` |
| `RadarSources` | feeds, subscriptions and quota, and the two pages that manage them; extends `QueryCache` |
| `RadarWeb`, `RadarWebMC` | `TopicsClient` and `RadarSources` together; the instance for TLC |
| `TopicsClientProofs` | the embeddings, the types and the freshness of the cached topics and matches as theorems |
| `RadarFeedsProofs` | the quota, the lookup of an own feed, the lists of feeds and the box of a subscription as theorems; the types of the whole radar |

### RadarPipeline and the code

State. `feedRow`, `isActive`, `due` and `etag` are a row of `radar_feeds`; `due`
is the predicate of `ListDueFeeds` on `last_fetched_at` (NULL or older than the
interval). `subs`, `topicRow`/`topicOn`, `finding` and `match` are the other
radar tables. A validator is the document it was sent with, since that is all a
304 means. `schedule` and `crawl` are slots for job rows, because these kinds
may have several rows at once; `embed` and `matching` give each finding's job
(`OneJobPerFinding` says there is never a second). A job row is free or queued
(River's available and retryable), done or discarded, or the place its worker
has reached together with the locals the code still holds there.

| code | actions |
|---|---|
| `ScheduleCrawlsWorker.Work` | `PeriodicTick`, `ScheduleStart` (ListDueFeeds), `ScheduleEnqueue` per feed, `ScheduleReturn` |
| `CrawlFeedWorker.Work` | `CrawlStart` (GetFeedForFetch), `FetchDocument` (200), `FetchNotModified` (304), `FetchFails` (and MarkFeedError), `UpsertFinding` per item (the INSERT), then `EnqueueEmbed` if created and `GetFindingByExternalID` (the SELECT) if not, `MarkFeedFetched`, `CrawlReturn` |
| `EmbedFindingWorker.Work` | `EmbedStart` (GetFindingForEmbed and the early returns), `EmbedCall`, `EmbedCallFails`, `EmbedSave`, `EnqueueMatch`, `EmbedReturn` |
| `MatchFindingWorker.Work` | `MatchStart`, `MatchFindingToTopics`, `MatchReturn` |
| a failing statement, an expired job context | `JobError` |
| the process dies or is shut down | `Crash` |
| administrator and readers | `AddFeed`, `UpdateFeed`, `DeleteFeed`, `Subscribe`, `Unsubscribe`, `CreateTopic`, `UpdateTopicEmbedding`, `UpdateTopic`, `DeleteTopic`, `UpdateMatchState` |
| publishers and time | `Publish`, `IntervalElapses` |

The boundary between two actions is a statement's commit, an HTTP call or a
job's insertion: what Postgres makes atomic is one action, and nothing more.

Abstractions. Vectors and thresholds are the relation `Similar`; a document is
the set of its entries that have a link; titles, summaries and dates are absent
but for `NoText`, the items whose title and summary are empty, which the embed
worker skips. Patches of a topic's text or a feed's interval change no state the
pipeline tells apart (a text patch rewrites the embedding in one statement after
it was computed; that is in `Topics`).

External, modelled from how the code uses it. River: at least once, a failed or
interrupted attempt runs again until `MaxAttempts`. Publishers: a document may
change at any time; a 304 is only sent for the validator of the current
document, which it repeats. Feed ids are never reused.

### AuthServer and the code

`user` is a row of `users` by e-mail address; `token` a row of `refresh_tokens`,
with the token it was exchanged for as history; `req` holds, for each request
being served, the statement it runs next and the locals of the handler.

| code | actions |
|---|---|
| `Service.Register` | `Register` (the checks before the first statement), `CountUsers`, `CreateUser`, `Issue` |
| `Service.Login` | `Login`, `FindUser` (and VerifyPassword), `Issue` |
| `Service.Refresh` | `Present`, `FindActive` (and GetUserByID, which finds its row: accounts are never deleted), `Revoke`, `Issue` |
| `Service.Logout` | `Present`, `FindActive`, `Revoke` |
| `writeServiceError`, a statement that fails, a full rate limit | `Fail`, and the answer `"refused"` |
| `expires_at` passes | `Expire` |

Every statement commits by itself, so two refreshes may both find one token
active and both succeed, and a refresh may outlive a logout; `DeadIsFinal` says
where this ends. Two first registrations may both become administrators:
`FirstIsAdmin` says that at least one does. Hashes and signatures are ideal,
passwords are a choice, and seeding subscriptions after a registration (best
effort, other tables) is left out.

### WebSession and the code

`storage` is the one `localStorage` key, shared by the tabs; `tab` holds status
and access token of `useAuthStore` and the request of `refreshPromise`; `call`
the calls of `apiFetch` in flight, with the bearer and the body they were sent
with. What a tab does between two awaits is one step: `RefreshOk` stores the
tokens and sends every waiting call again, `RefreshEnds` runs every `catch` that
was waiting, including the one of `useLogout`.

| code | actions |
|---|---|
| `useBootstrap` | `OpenTab` |
| `apiFetch` up to its first `await`, by pages and `login`, `register`, `logout` | `Send` |
| `RequireUser`, then the handlers | `Rejected`, `ApiAnswered`, `Admitted`, `NothingToRevoke` |
| `apiFetch` after a 401 | `Unauthorized`, part of `Rejected` and `LoginRefused` |
| `performRefresh`, `refreshSession` | `RefreshOk`, `RefreshEnds`, `LoseRefresh` |
| `consumeAuthResponse`, `useLogout`, the thrown `ApiError` | `SignedIn`, `CallEnds`, `LoseCall` |
| `AuthServer` runs on | `ServerStep`, `TokenExpires` |

An access token is valid or stale: one tab's lifetime ends in `AccessExpires`,
also for the calls that carry it. Closing or reloading a tab forgets what it was
waiting for, while the request it sent goes on.

### QueryCache and the query library

`@tanstack/react-query` is not under `src/`; `QueryCache` is its contract as the
hooks rely on it. An entry has the pages loaded so far, an error, the mark of an
invalidation, and the fetch under way, which asks for one page at a time and
changes the entry only when it lands. What the hooks may get wrong is in the
rules: a first load, or the fetch of a query nobody observes, survives an
invalidation and its answer clears the mark; `cancelQueries` restores the state
before the fetch and asks for nothing; `setQueryData` clears the mark and leaves a
running fetch running; a fetched page clears the mark of the whole list.

`missed` is a history variable: an invalidation came while the entry went on
being taken for fresh, or the answer to a change was lost, so the client never
learnt of it. `Trusted` is an entry that has data, no mark, no error and was not
`missed`; the properties of the caches are about these. Without `missed` the
properties would blame the hooks for two rules that are the library's own.

### Library, LibraryClient and the code

`shelf` is `library_items` of one user, newest first, `content` the outcome of
the extraction in `article_contents`. `lists` and `details` are the queries
`["library", "list", filters]` and `["library", "detail", id]`; `page` is the
route on screen with the state of its components (`held`: the rows that
`keepPreviousData` goes on showing, `hand`: `handToggledId` and what it was
toggled to, `deep` and `fired`: the scroll listener, `confirm`: the delete
dialog); `dialog` is the add-link dialog; `op` holds the mutations under way, with
the lists to go back to.

| code | actions |
|---|---|
| `LibraryListRoute`, `FilterBar`, `LibraryCard`, the router | `LibraryListRoute`, `OpenReader` |
| `useLibraryQuery`, `useLibraryItemDetailQuery` | `ReadList`, `LandList`, `ReadDetail`, `LandDetail`, `Rebuild`, `LoadMore`, `Retry` |
| `useItemActions` from a card's menu or under the article | `LibraryCardMenu`, `ReaderActions`, `DeleteConfirm` |
| `useMarkReadOnScroll` | `Scroll`, `useMarkReadOnScroll` |
| `AddLinkDialog` | `OpenDialog`, `CloseDialog`, `AddLinkForm` |
| `SaveURL` (extraction, `UpsertContent`, then `CreateItem`), `Update`, `Delete` | `SaveURL`, `Handle`; a request or an answer that is lost: `Drop`, `Handle` |
| `useUpdateItem`, `useDeleteItem`, `useSaveLink` when they settle | `UpdateSettled`, `useDeleteItem`, `useSaveLink` |

`onMutate` and the click that starts it are one step, since `cancelQueries`
resolves before the next event; the statement, the answer and the callbacks are
three steps. A patch has one field, as every caller's has.

### Topics, TopicsClient and the code

`topics` is `radar_topics`, the vector of a topic being the text it was made
from; `matches` is `radar_topic_matches`; `request` holds a mutation of the tab
together with the request that serves it; `reembed` is what `reembed-topics` has
read and not yet written. `torn` is a history variable, the topics for which a
failed embedder or overlapping writers are to blame if the embedding is old.
`cache` holds the queries of `radarKeys`, `page` the route and its dialogs.

| code | actions |
|---|---|
| `Service.CreateTopic`, `UpdateTopic` | `CreateTopic`, `UpdateTopic`, then `Embed` or `EmbedderUnavailable` |
| `Store.DeleteTopic`, `UpdateMatchState` | `DeleteTopic`, `UpdateMatchState` |
| `cmd/reembed-topics` | `ReembedStart`, `ReembedTopic`, `ReembedStops` |
| an error before the statement, an answer that is lost | `Refused`, `Lost` |
| the four radar routes, `InboxFilterBar`, cards and links | `Open`, `LoadMore`, `Retry`, `Read`, `Arrive`, `Rebuild` |
| `TopicHeader`, `EditTopicDialog`, `DeleteTopicConfirm` | `TopicHeader`, `EditTopicForm`, `CloseEdit`, `DeleteTopicConfirm` |
| `NewTopicDialog` | `OpenNewTopic`, `NewTopicForm`, `CloseNewTopic` |
| `MatchReader` | `MatchReader` |
| `useUpdateTopic`, `useCreateTopic`, `useDeleteTopic`, `useMarkMatchSeen` when they settle | `UpdateSettled`, `useCreateTopic`, `useDeleteTopic`, `useMarkMatchSeen` |

### RadarSources and the code

`feeds` are the rows of `radar_feeds` an account may see, `subscribed` its rows
of `radar_feed_subscriptions`. `call` holds a mutation and its request; for
`AddUserFeed` that is the next of its four statements, and what its lookup could
see. `cache` has two queries, `["radar", "feeds"]` of the account's page and
`["admin", "feeds"]` of the administrator's.

| code | actions |
|---|---|
| `AddUserFeed` | `GetGlobalFeedByURL`, `CountUserFeeds`, `AddFeed`, `Subscribe` |
| `AddGlobalFeed`, `Subscribe`, `Unsubscribe`, `UpdateFeed`, `DeleteFeed` in either scope | the actions of these names |
| another administrator's browser | `OtherAdministrator` |
| an error before a statement, an answer that is lost | `Unserved`, `Lost` |
| `radar.sources.tsx`, `admin.sources.tsx` and their dialogs | `OpenPage`, `SourceRow`, `OpenAdd`, `AddFeedForm`, `AddFeedDialog`, `OpenEdit`, `EditFeedForm`, `EditFeedDialog`, `AskDelete`, `DeleteFeedConfirm` |
| the mutation hooks of `features/radar` and `features/admin` | `useToggleSubscription`, `useAddFeed`, `useUpdateFeed`, `useDeleteFeed` |

`RadarWeb` puts the two parts of the radar beside each other. They use one cache
under keys of their own, and no hook of one part touches a key of the other
(`["radar", "topics"]` and `["radar", "feeds"]` have no common prefix that is
invalidated), so a tab stays in the part it was opened in.

Abstractions of the client modules: one tab; lists that no property orders
(topics, feeds) are sets; a threshold, a fetch interval, a title are part of one
setting; no match is found, and none reviewed elsewhere, while the tab is open.
Time is a choice: whenever a page mounts, the `staleTime` of what it shows (30 s,
`query-client.ts:17`) has passed or not, also while a change is under way. Data that
is not asked for again is trusted however old it is, which is the strict side for
the freshness properties; that it may be asked for again is the strict side for what
a user has just set. A lost connection that comes back (`refetchOnReconnect`) asks
as a page that mounts does, and is not an action of its own. The status and preview queries and the settings page only read.

## 3. Runs

| run | asks | instance |
|---|---|---|
| `crawls` | `ValidatorCovered`, `OneJobPerFinding`, `StrandedOnlyByFaults` | one feed, two items (one without text), two crawl jobs, two workers, one fault |
| `matches` | `TypeOK`, `NoSecondEmbedding`, `StagesInOrder`, `MatchesAreSound`, `StrandedOnlyByFaults`, `ReviewSurvivesRematch`, `RefinesLifecycle` | one personal feed, one item, two accounts with a topic each, one worker, two attempts, one fault |
| `liveness` | `EveryItemDiscovered`, `EveryFindingEmbedded`, `EveryMatchShown` | one feed, item, topic, account and worker, two attempts, no database failures |
| `restart` (violated) | `EveryFindingEmbedded` | as `liveness` without topics, with one fault |
| `auth` | `TypeOK`, `FirstIsAdmin`, `OldTokenIsDead`, `SameOwner`, `DeadIsFinal` | two accounts, three tokens, two requests at a time |
| `session` | `SessionTypeOK`, `StoredTokenAlive`, `SingleFlight`, `RefusedOnlyIfOver` | a tab with two calls and a tab that opens and closes, four tokens, two requests at a time, no losses |
| `spinner` | `EveryCallEnds`, `EveryTabStarts` | one tab with one call, three tokens, one lost answer or failed statement |
| `library` | `TypeOK`, `FreshMatchesServer`, `NeverStuck`, `HandMarkStands`, `FirstExtractionStands` | two saved articles, pages of one row, two filters, two changes at a time, an address that redirects |
| `radarweb` | `WebTypeOK`, `TopicsMatchServer`, `EmbeddingCurrent`, `FeedsMatchServer`, `ToggleStands`, `QuotaBestEffort`, `CatalogNotDuplicated` | a topic with two matches and room for a second; up to four feeds with a quota of one; two requests at a time |
| `edit` (violated) | `SavedIsEmbedded` | as `radarweb` with one edit and one failure |
| `tabs` (violated) | `LiveTokenKept` | two tabs with one call each |
| `signout` (violated) | `SignedOutMeansRevoked` | one tab with one call |

* `crawls`: two crawls are the smallest number that overlap, two items the
  smallest document that changes while it is stored, so that a worker holds a
  stale document with a newer one stored beside it. Topics play no part in these
  properties. The two crawl slots are symmetric: nothing orders them.
* `matches`: the feed is one account's own, so the other account's topic, which
  is as similar, shows whether ownership is respected. One item and one worker
  are enough, because a match concerns one finding; what interleaves is its job
  and the requests. The second attempt and the fault are what make a match job
  run again after a reader has reviewed its match; the second attempt is also what
  `StrandedOnlyByFaults` needs here, where the embedder may fail, to tell a job that
  is given up with its last attempt from one that is given up before. Publishers send
  no validator in this run: none of its properties is about them, and `crawls` is.
* `liveness`: without faults, but with failing fetches and a failing embedder.
  Items that are withdrawn, feeds and topics that are paused or deleted are the
  `~Offered` and `~Eligible` escapes of the properties. There is no symmetry.
* `auth`: every property is about one token and its successor, or one account and
  another; two requests are the fewest that overlap, and three tokens let both
  exchange the first.
* `session`: two calls are the fewest that can race for a refresh within a tab;
  the other tab's start-up refresh is what can come between. The properties are
  about answers that arrive, so nothing is lost here; `spinner`
  is the run in which an answer is lost, a statement fails, or a tab is closed
  while it waits.

* `library`: two articles and pages of one row are the smallest list that has a
  second page, whose offset a change can shift; the filters `unread` and `all`
  are two lists of which a change can move an article out of one. Two addresses
  that lead to the same article show `already saved` and a failed extraction
  under the address as typed.
* `radarweb`: two matches for the same reason; a second topic is what a create
  can leave without an embedding. With a quota of one, two overlapping adds are
  what exceeds it; the four addresses are one in the catalog, one the account may
  own, and two new ones.

Bounds of these two: `Budgets` and `SourceBudgets` are sets of budgets (changes,
visits, failures, saves or runs of the other actor), and each behaviour draws one
at the start. Every combination of two actors is in one of them, not all in the
same. `busy` is how many requests may be under way when the user starts the next
thing: 0 for a patient user, 1 for one who overlaps; it bounds the user, never the
answers. `MaxItem`, `MaxTopic` and `MaxFeed` bound the ids. When a budget is spent
and the last answer is in, nothing more can happen, so these runs do not check for
deadlock; `NeverStuck` is there instead.

Bounds of the others: slots of `ScheduleJob` and `CrawlJob` (a scheduler waits for free slots
before it inserts), `MaxAttempts` (River's 25 reduced to 1 or 2: the last
attempt and, with 2, one that is not the last), `MaxFaults`, and `BatchSize`
1 (the 100 of the code; with one feed both the full and the short batch occur).
For sessions: the sets of tokens and requests, and `MaxLosses`. `Spare` keeps a
user from starting what might find no token left to issue, because running out
of tokens is not something the code can do; once all are used a session run
stops, so these runs do not check for deadlock.

### Fairness

`FairSpec` adds: time passes and the periodic job fires (weak); a queued job is
eventually started although others compete for the workers (strong: River takes
the oldest available job first); a running worker takes its next step, and the
embedder's call ends with an answer or an error before its timeout (weak); a
publisher that is asked again and again answers again and again (strong). No
fairness is assumed of users, of the administrator, of publishing, or of
failures; the embedder may fail every time, in which case its job runs out of
attempts, which `EveryFindingEmbedded` allows for.

`FairSession` adds weak fairness only: the event loop of a tab runs what is ready,
a call in flight reaches the server, and the server's statements end. Nothing is
assumed of users, of expiry or of losses.

### Disagreements with the documentation

The design note `docs/superpowers/specs/2026-04-22-phase-3a-radar-pipeline-design.md:536`
says that after a restart in mid-flight jobs are picked up again. They are, but
a job that stopped between `UpsertFinding` and the insertion of the embed job
(`crawl_feed.go:57-71`) finds the row already there when it runs again,
`created` is false, and no embed job is ever inserted: the finding stays without
embedding and without matches. Run `restart` shows it. The same gap exists
between `UpdateFindingEmbedding` and the match job (`embed_finding.go:48-56`).
`StrandedOnlyByFaults`, checked and proved, says that a finding is left behind in two
ways only: by a fault, that is a failed database call, an expired context or a crash,
or by an embedder that fails in all of the attempts River gives its job
(`AttemptsSpent`; `embed_finding.go:43-45` returns the error, and after the last
attempt the job is discarded).

`EditTopicDialog` says "Changing the description will re-embed the topic"
(`EditTopicDialog.tsx:130`), and when the embedder is down "Try again in a moment"
(`:31`); the service adds that the caller can retry with the same payload
(`service.go:263`). Run `edit`: the first save has changed the row, the hook
refetches the topic when it fails, and the second save sends only what differs
from the topic it has by then (`:60-65`): nothing. The dialog closes as saved, and
the embedding is still that of the old description.

The plan `docs/superpowers/plans/2026-05-11-frontend-auth.md:2437` says that tabs
refresh independently and the server's rotation "handles the resulting churn".
Run `tabs`: two tabs are restored together and present the same token; the
server exchanges it for the first and refuses the second, whose `refreshSession`
then removes the token the first has just stored (`client.ts:48`).

`Logout` "revokes the provided refresh token" (`auth/service.go:119`), but its
route is behind `RequireUser`. Run `signout`: a logout with an expired access
token is answered 401, the client refreshes, and repeats the call with its old
body (`client.ts:83-84`). The token in it is the one the refresh has replaced;
the new one stays active when the browser has forgotten it.

## 4. Proofs

The theorems assume the named assumptions of their modules only. Some say what
the code guarantees: "no value" constants that are not values, pages of at least
one row, a quota of at least one, and at least one name and one description a
topic can have. The rest say that the bounds of the model are bounds: finitely
many feeds, items, tabs, matches found before, and changes or requests at a time;
positive limits for the pipeline; room for one topic and for the two feeds there may
be before; and `MaxItem` large enough for the articles saved before and those
`Budgets` lets a user save.

* `TypeCorrect`: `TypeInv` names the parts of `TypeOK` and strengthens it with
  what the locals of a crawl imply: a slot that is not free holds a feed, one
  that is inserting an embed job holds an item.
* `Soundness`, from `SoundInv`: that a match is sound when it is inserted follows
  from the subscription it was joined with, so subscriptions must be sound
  (`SubsSound`); that it stays sound when a feed is deleted needs findings to go
  with their feed (`FindingsLive`).
* `OneJob`, `EmbeddedOnce`, `InOrder`, from `JobsInv`: `OneJobPerFinding` is not
  inductive, since it only speaks of the moment of insertion. `RowWritten` says
  that a worker about to insert an embed job has written the row, `OneEmbedJob`
  that a finding without a row has neither a job nor a worker about to insert
  one, `OneMatchJob` the same for the next stage.
* `NothingHidden`, from `ValidatorInv`: a validator can be stored only after the
  loop, so the validator a worker holds must be covered by rows and by what it
  still has to store (`TagsCovered`) at every point in between, under every
  overlapping crawl and deletion.
* `NothingLeftBehind`: by induction with `JobsInv`, on `faults = 0`. A discarded
  embed job counts as `AttemptsSpent` only with its last attempt, so the induction
  also has to say that `Retry` gives up no job before, and that without faults a
  match job is queued, running or done (`InHand`). A crawl that meets a conflict, and
  reads the row another crawl has inserted, leaves the finding to that one.
* `ReviewKept`: an action property; a step that moves a match job keeps every
  match that exists.
* `ImplementsLifecycle`: a row of a deleted feed maps to `"gone"`, so that late
  workers of a deleted feed stutter; each action maps to one action of
  `FindingLifecycle` or to a stutter, `JobsInv` and `SoundInv` giving the guards.

* `AdminExists`, `Rotation`, `OwnChain`, `NoWayBack`, from `AuthInv`. A request
  remembers what its statements have shown (`Learnt`): the token it revokes is a
  row, and its account is the owner of that row. `CountInv` says that a count
  that found somebody stays true, since accounts are never deleted: so a
  registration that does not make an administrator is not the first to commit.
  `ChainInv` says that predecessors are rows, without which nothing could be said
  of an exchanged token's owner.
* `ServerBehaves`: a behaviour of the tabs and the server is a behaviour of
  `AuthServer`. That needs the client's own invariant, `ClientInv`: a call that is
  being served knows its request, a sign-in its account. `TokensKnown` shows that
  the guard `AuthServer` puts on its clients, presenting only tokens they were
  given, never holds a tab up: tokens go from answers to storage and from there
  to the body of a logout (`Copied`), and issued rows stay (`RowsKept`).
  `ServedSafely` carries the safety
  properties of the server over to the whole system.
* `StoredTokens`, `OneRefreshEach`, `RefusalsExplained`, from `FlightInv`. None of
  the three is inductive, because none says who waits for which request. `HoldInv`
  does: a tab or a call that waits, waits for a request of its kind that nobody else
  waits for. So there are as many waiting tabs as refreshes they wait for, and
  `Lossless` adds that while nothing is lost every running request is waited for.
  `PrivateInv` says that a token in an answer nobody has read is nowhere else: what
  a tab stores cannot have been used by another. `Lossless` also keeps, for a revoked
  token in storage, the request that revoked it in sight until its answer is read;
  `RefusedOnlyIfOver` then follows where a refresh is refused and is carried along.

* `MarkByHandStands`, `SavedAgainStands`, from `HandInv` (`MarksInvariant`): that
  the listener's mark reaches the server after a toggle by hand is excluded only
  if, whenever such a mark is under way, the article on screen was not last marked
  unread by hand. A toggle that finds one under way is `contested`, navigation
  resets the state of the reader, and the listener starts none after a toggle;
  every other step neither starts a mark nor changes the page it is about.
* `NeverLeftStuck`, from `StartedInv`. `NeverStuck` speaks of a list that has
  nothing, and a list has what a landing or a rollback puts there: so the cache and
  the copies that mutations keep to go back to hold sequences of pages (`ListsOK`,
  `BackOK`), a fetch that lands leaves data or an error, and a fetch that is
  cancelled leaves an update under way, whose settling starts another.

* The caches, in `QueryCacheProofs`. An infinite list shows the rows of its pages,
  `FlattenSeq` of a sequence of any length, so what a page adds needs an induction
  over that length. The library's induction theorems take an operator; the lemmas
  here are stated over sets of numbers instead (`LeastNumber`, `InductiveSet`, from
  the well-foundedness of `<`) and give `FlattenSeq` its equation (`FlattenIsFlat`),
  from which follow the rows of a longer list (`RowsAppend`) and that a page asked
  for at the offset of what is loaded continues it (`AnswerAgrees`). For any set of
  answers, `Agrees` says of an entry that what it is trusted for is among them, and
  so is what its fetch has been answered, unless an invalidation has come `late` for
  it. A fetch, an answer, a cancellation and a landing keep that; an invalidation or
  an oversight leaves an entry `Distrusted`, which agrees with whatever the server
  holds next.
* `LibraryTypes`, `LibraryFreshness`, from `CacheInvariant`. `FreshMatchesServer`
  speaks of the moment when no change is under way; what holds all along is
  `FreshInv`: a list or an article agrees with the shelf, or a change under way owes
  it an invalidation. An update owes one from the click, since the cache is patched
  at once, a deletion or a save from the answer. A change may therefore patch, roll
  back or lose what it likes as long as it owes, and the debt is paid when it
  settles. `TypeInv` is what this needs of the state: a shelf never has an id twice,
  an article on it has a content, a list is only asked for its next page when it has
  a first, and there is room left for the ids of what is being saved
  (`issued + Cardinality(Waiting) + budget.saves <= MaxItem`), so that a save is
  never refused by the bound.
* `QuotaHolds`, `NotDuplicated`, from `QuotaInv`, assuming a quota of at least one
  (`WithMaxUserFeeds` ignores less) and finitely many requests at a time. The bound
  on what is owned is not inductive: a request past its count will insert however
  many others do. So those requests are counted too, as places of the margin
  already taken; a count that passes may take one, since at most every request
  holds one then, and an insert turns a place into a feed. What a lookup found
  absent stays absent among the rows up to the id that was last by then, since
  ids only grow and an update changes no address.
* `EmbeddingHolds`, from `EmbedInv`. Its core is `Intact`, of every topic whose
  writers neither failed nor overlapped: whoever is about to write its embedding,
  a request or `reembed-topics`, has read its present description. An edit makes
  itself the writer in the statement that changes the description, so only an edit
  that meets another writer (the topic is then `torn`) can break that.
* `TopicsTypes`, `TopicsCurrent`, from `TypesInv`, `FreshInv` and `EmbedInv`. As in
  the library, each cached query agrees with what the service would answer (`Held`),
  or is `Owed`. What is owed differs with the change. An update owes the list of
  topics and its topic from the click; a creation owes the list once its row is
  written, also while it is being embedded, when the answer is not in yet; a
  deletion owes the lists and the topic, a match that was marked seen owes itself
  and the lists, once they are answered. `Held` leaves out what the hooks leave
  out: the count on a topic's own page and the match of a deleted topic. A deletion
  pays by removing queries: an entry without data or fetch agrees with anything.
  `TypesInv` counts the creations under way against `MaxTopic` as the library
  counts its saves.
* `ListsCurrent`, `BoxStands`, from `FeedsInv`. `FeedsMatchServer` speaks of the
  moment when nothing is under way; what holds all along is that every list is
  either `Settled` or owed a refresh (`OwedList`) by a request that will have it invalidated
  when it ends. Settled means that what is trusted is what the service lists, and
  that what a fetch has been answered will be too, unless an invalidation has come
  `late` for it. A statement that changes what is listed leaves its request owing;
  the invalidation that pays leaves the list `Doubted`, that is untrusted and with
  no answer in hand that would be trusted. The administrator's list leaves out the
  subscriptions (`Shown`), so a toggle owes it nothing. For the box, a toggle that
  is the only request has cancelled the fetches of its list: until it ends there is
  data, no fetch, and no mark that would start one (`Holds`). What could still start
  one is a `staleTime` that has passed when the page is left and opened again during
  a slow request; the toggle is not `alone` any more then, and `BoxStands` says
  nothing of it.

* `WebTypes`, from `SourcesTypes`, `FeedsInv` and `TopicsTypes`. The feeds' cache is
  an instance with operators of its own; they are those of `QueryCache`
  (`SameEntries`, `SameFetches`, `SameChanges`), so the lemmas about entries hold of
  it. `FeedsInv` is needed for the rows of a list, which are read from its first
  page, and because only a request to add a feed, which has its address
  (`Requested`), inserts one.

Only model-checked: the liveness properties, which rest on fairness and `ENABLED`,
outside the prover's reach. Every invariant and every action property of a passing
run is a theorem. What the violated runs show is a counterexample and needs no proof.

## 5. Not modelled

| part | why |
|---|---|
| media fetcher, images and favicons of the library | files named by content or host, written by rename; no other state depends on when they appear |
| extraction, feed parsing, vector arithmetic, hashing, signatures | pure functions, taken by what they do |
| seeding a new account's subscriptions | one best-effort statement after a registration |
| status and preview queries, settings page, forms of sign-in | they only read, or their calls are in `WebSession` |
| several tabs over one library or radar | each tab has a cache of its own, refreshed by its own changes only; only the session is shared, and that is `WebSession` |
| configuration, logging, pool, migrations, radar-sim | no state that more than one actor changes |

Behaviour seen while modelling that no document contradicts, left out of the
properties by name: marking a match seen does not refresh `newCount` on a topic's
own page; the match of a deleted topic stays in the cache; a rename leaves the old
topic name on cached matches; a fetch of the topic itself is not cancelled when
its toggle is; the administrator's list does not follow subscriptions; saving an
article from a match does not refresh the library's lists; a toggle whose request
takes longer than the `staleTime` shows the old state again when the page is left and
opened in between, since the list is then fetched from a server that has not seen the
toggle, until the toggle settles and the list is fetched once more.

What would come next: a second tab over the same library, and liveness of the
client (every mutation settles) under `WebSession`'s fairness.
