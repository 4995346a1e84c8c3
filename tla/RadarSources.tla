---------------------------- MODULE RadarSources ----------------------------
(***************************************************************************)
(* Feeds: the catalog and the feeds one account owns as the radar service   *)
(* keeps them (AddUserFeed one statement a step), another administrator, and *)
(* the two pages of that account's open tab that list and change them        *)
(* (web/src/routes/radar.sources.tsx and admin.sources.tsx).                *)
(***************************************************************************)
EXTENDS Naturals, FiniteSets, QueryCache

CONSTANTS
  Url,
  Setting,       \* what the edit form of a feed holds: title, interval, pause
  NewSetting,    \* the setting of a feed that was just added
  MaxUserFeeds,
  Shared,        \* the address of the feed that is in the catalog before
  Before,        \* the address of one the account may own before
  MaxFeed,       \* bound: feeds ever created
  Call,          \* bound: requests that change something, at a time
  Budgets        \* bound: how often the user changes something and goes to the other
                 \* page, how many requests and fetches fail, what the other
                 \* administrator does, and how many requests may be under way when
                 \* the user starts a thing

VARIABLES
  feeds,        \* radar_feeds by id: the catalog, and the account's own
  subscribed,   \* the feeds the account is subscribed to
  issued,       \* the last id of radar_feeds
  call,         \* the requests under way
  cache,        \* the queries by key
  page,         \* what is on screen
  budget        \* what is left of one of Budgets

serverVars == <<feeds, subscribed, issued>>
vars == <<serverVars, call, cache, page, budget>>

FeedIds == 1..MaxFeed
OwnFeeds == {f \in DOMAIN feeds : feeds[f].own}
Catalog == DOMAIN feeds \ OwnFeeds

FeedsKey == <<"radar", "feeds">>
AdminKey == <<"admin", "feeds">>
Keys == {FeedsKey, AdminKey}

NoCall == [kind |-> "none", own |-> TRUE, url |-> "", id |-> 0, setting |-> NewSetting,
           on |-> FALSE, at |-> "idle", result |-> "", seen |-> 0,
           heard |-> "no", back |-> <<>>, alone |-> FALSE]
Pending == {k \in Call : call[k].at # "idle"}
FreeCall == LET idle == Call \ Pending IN {k \in idle : \A n \in idle : k <= n}
Spend(what) == budget[what] > 0 /\ budget' = [budget EXCEPT ![what] = @ - 1]
Fail == Spend("failures")

-----------------------------------------------------------------------------
(* The service.                                                            *)

Row(f) == [id |-> f, url |-> feeds[f].url, setting |-> feeds[f].setting, own |-> feeds[f].own,
           subscribed |-> f \in subscribed]
ListFeeds(key) == {Row(f) : f \in IF key = AdminKey THEN Catalog ELSE DOMAIN feeds}

Becomes(k, new) == call' = [call EXCEPT ![k] = new]
Goes(k, at) == Becomes(k, [call[k] EXCEPT !.at = at])
Finish(k, result) == Becomes(k, [call[k] EXCEPT !.at = "answered", !.result = result])

Insert(url, own) ==
  /\ issued' = issued + 1
  /\ feeds' = [f \in DOMAIN feeds \union {issued + 1} |->
       IF f \in DOMAIN feeds THEN feeds[f] ELSE [url |-> url, own |-> own, setting |-> NewSetting]]
Exists(url, own) == \E f \in DOMAIN feeds : feeds[f].url = url /\ feeds[f].own = own

\* AddUserFeed, statement by statement; what the lookup could see is kept in "seen".
\* Mutant: the catalog is not looked up.
SkipLookup(k) ==
  /\ call[k].kind = "add" /\ call[k].own /\ call[k].at = "sent"
  /\ Becomes(k, [call[k] EXCEPT !.at = "counting", !.seen = issued])
  /\ UNCHANGED serverVars
GetGlobalFeedByURL(k) ==
  /\ call[k].kind = "add" /\ call[k].own /\ call[k].at = "sent"
  /\ IF Exists(call[k].url, FALSE)
     THEN \E f \in Catalog : /\ feeds[f].url = call[k].url
                             /\ Becomes(k, [call[k] EXCEPT !.at = "subscribing", !.id = f])
     ELSE Becomes(k, [call[k] EXCEPT !.at = "counting", !.seen = issued])
  /\ UNCHANGED serverVars

\* Mutant: one too many.
WithinLimit(n) == n <= MaxUserFeeds
WithinQuota(n) == n < MaxUserFeeds
CountUserFeeds(k) ==
  /\ call[k].at = "counting"
  /\ IF WithinQuota(Cardinality(OwnFeeds)) THEN Goes(k, "adding") ELSE Finish(k, "quota")
  /\ UNCHANGED serverVars

AddFeed(k) ==
  /\ call[k].at = "adding"
  /\ IF Exists(call[k].url, TRUE)
     THEN Finish(k, "duplicate") /\ UNCHANGED <<feeds, issued>>
     ELSE /\ issued < MaxFeed /\ Insert(call[k].url, TRUE)
          /\ Becomes(k, [call[k] EXCEPT !.at = "subscribing", !.id = issued + 1])
  /\ UNCHANGED subscribed

\* The end of AddUserFeed, and all of a toggle that subscribes.
Subscribe(k) ==
  /\ call[k].at = "subscribing" \/ (call[k].kind = "toggle" /\ call[k].on /\ call[k].at = "sent")
  /\ IF call[k].id \in DOMAIN feeds
     THEN subscribed' = subscribed \union {call[k].id} /\ Finish(k, "ok")
     ELSE UNCHANGED subscribed /\ Finish(k, "notFound")
  /\ UNCHANGED <<feeds, issued>>

Unsubscribe(k) ==
  /\ call[k].kind = "toggle" /\ ~call[k].on /\ call[k].at = "sent"
  /\ subscribed' = subscribed \ {call[k].id} /\ Finish(k, "ok")
  /\ UNCHANGED <<feeds, issued>>

AddGlobalFeed(k) ==
  /\ call[k].kind = "add" /\ ~call[k].own /\ call[k].at = "sent"
  /\ IF Exists(call[k].url, FALSE)
     THEN Finish(k, "duplicate") /\ UNCHANGED <<feeds, issued>>
     ELSE issued < MaxFeed /\ Insert(call[k].url, FALSE) /\ Finish(k, "ok")
  /\ UNCHANGED subscribed

\* A row is changed only in the scope, personal or global, it is asked for.
InScope(k) == call[k].id \in DOMAIN feeds /\ feeds[call[k].id].own = call[k].own

UpdateFeed(k) ==
  /\ call[k].kind = "update" /\ call[k].at = "sent"
  /\ IF InScope(k)
     THEN feeds' = [feeds EXCEPT ![call[k].id].setting = call[k].setting] /\ Finish(k, "ok")
     ELSE UNCHANGED feeds /\ Finish(k, "notFound")
  /\ UNCHANGED <<subscribed, issued>>

Without(f) == feeds' = [g \in DOMAIN feeds \ {f} |-> feeds[g]] /\ subscribed' = subscribed \ {f}

DeleteFeed(k) ==
  /\ call[k].kind = "delete" /\ call[k].at = "sent"
  /\ IF InScope(k)
     THEN Without(call[k].id) /\ Finish(k, "ok")
     ELSE UNCHANGED <<feeds, subscribed>> /\ Finish(k, "notFound")
  /\ UNCHANGED issued

\* A request fails before its next statement; what it wrote stays.
Unserved(k) ==
  /\ call[k].at \in {"sent", "counting", "adding", "subscribing"} /\ Fail
  /\ Finish(k, "failed")
  /\ cache' = IF call[k].at = "subscribing" THEN OverlookQueries(cache) ELSE cache
  /\ UNCHANGED <<serverVars, page>>

\* Only a toggle has the list refreshed whatever is answered.
Lost(k) ==
  /\ call[k].at = "answered" /\ call[k].result = "ok" /\ Fail
  /\ Finish(k, "failed")
  /\ cache' = IF call[k].kind = "toggle" THEN cache ELSE OverlookQueries(cache)
  /\ UNCHANGED <<serverVars, page>>

\* Another administrator adds to the catalog, or deletes from it.
OtherAdministrator ==
  /\ Spend("others")
  /\ \/ /\ issued < MaxFeed
        /\ \E url \in Url : ~Exists(url, FALSE) /\ Insert(url, FALSE)
        /\ UNCHANGED subscribed
     \/ \E f \in Catalog : Without(f) /\ UNCHANGED issued
  /\ cache' = OverlookQueries(cache)
  /\ UNCHANGED <<call, page>>

-----------------------------------------------------------------------------
(* The two pages.                                                          *)

Fresh(at) == [at |-> at, add |-> "closed", edit |-> "closed", editing |-> 0, deleting |-> 0]
Active == {IF page.at = "admin" THEN AdminKey ELSE FeedsKey}
Personal == page.at = "sources"

\* An error does not hide the rows that are there.
RowsOf(k) == IF HasData(cache[k]) THEN Only(cache[k]) ELSE {}
SourcesRoute == IF Personal THEN RowsOf(FeedsKey) ELSE {}
AdminSourcesRoute == IF Personal THEN {} ELSE RowsOf(AdminKey)
Listed == SourcesRoute \union AdminSourcesRoute
Managed == {row \in Listed : row.own = Personal}

Busy == Cardinality(Pending) + Cardinality({k \in Keys : Fetching(cache[k])})
Quiet == Busy <= budget.busy
Unobstructed == page.add = "closed" /\ page.edit = "closed" /\ page.deleting = 0 /\ Quiet

\* A request starts, on the administrator's page one for the catalog.  A toggle has
\* been "alone" while no other request started or ended and its list was not asked
\* for again because the staleTime had passed.
subscribeFeed(f) == [NoCall EXCEPT !.kind = "toggle", !.id = f, !.on = TRUE]
unsubscribeFeed(f) == [NoCall EXCEPT !.kind = "toggle", !.id = f, !.on = FALSE]
addFeed(url) == [NoCall EXCEPT !.kind = "add", !.url = url, !.own = Personal]
updateFeed(f, setting) ==
  [NoCall EXCEPT !.kind = "update", !.id = f, !.own = Personal, !.setting = setting]
deleteFeed(f) == [NoCall EXCEPT !.kind = "delete", !.id = f, !.own = Personal]

Crowded == [k \in Call |-> [call[k] EXCEPT !.alone = FALSE]]
Send(new) == \E k \in FreeCall : call' = [Crowded EXCEPT ![k] = [new EXCEPT !.at = "sent"]]
Done(k) == call' = [Crowded EXCEPT ![k] = NoCall]
FormGone(kind) == [k \in Call |->
  IF call[k].kind = kind /\ call[k].heard = "form" THEN [call[k] EXCEPT !.heard = "page"] ELSE call[k]]

\* The list of the page that mounts is asked for again when its staleTime has passed,
\* under a toggle that is still under way too.
Unheard(expired) ==
  [k \in Call |-> [call[k] EXCEPT !.heard = "no", !.alone = @ /\ FeedsKey \notin expired]]
OpenPage(at) ==
  /\ Unobstructed /\ page.at # at /\ Spend("visits")
  /\ page' = Fresh(at)
  /\ LET shown == {IF at = "admin" THEN AdminKey ELSE FeedsKey} IN
       \E expired \in SUBSET shown :
         cache' = MountQueries(cache, shown, expired) /\ call' = Unheard(expired)
  /\ UNCHANGED serverVars

Read(k) ==
  /\ Fetching(cache[k]) /\ ~Answered(cache[k])
  /\ \/ cache' = [cache EXCEPT ![k] = Answer(@, Single(ListFeeds(k)))] /\ UNCHANGED budget
     \/ cache' = [cache EXCEPT ![k] = Refuse(@, "failed")] /\ Fail
  /\ UNCHANGED <<serverVars, call, page>>

Arrive(k) ==
  /\ Fetching(cache[k]) /\ Answered(cache[k])
  /\ cache' = [cache EXCEPT ![k] = Land(@)]
  /\ UNCHANGED <<serverVars, call, page, budget>>

\* The checkbox of a row: useToggleSubscription.  Nothing disables it while an
\* earlier toggle is under way.  Mutant: a fetch that is under way goes on.
Toggled(rows, f, on) == {IF row.id = f THEN [row EXCEPT !.subscribed = on] ELSE row : row \in rows}
PatchRunning(c, f, on) == SetQueryData(c, FeedsKey, <<Single(Toggled(RowsOf(FeedsKey), f, on))>>)
PatchList(c, f, on) ==
  SetQueryData(CancelQueries(c, FeedsKey), FeedsKey, <<Single(Toggled(RowsOf(FeedsKey), f, on))>>)

SourceRow(row) ==
  /\ Unobstructed /\ Personal /\ Spend("changes")
  /\ Send([(IF row.subscribed THEN unsubscribeFeed(row.id) ELSE subscribeFeed(row.id)) EXCEPT
       !.back = cache[FeedsKey].data, !.alone = Pending = {}])
  /\ cache' = PatchList(cache, row.id, ~row.subscribed)
  /\ UNCHANGED <<serverVars, page>>

OpenAdd ==
  /\ Unobstructed /\ budget.changes > 0
  /\ page' = [page EXCEPT !.add = "open"]
  /\ UNCHANGED <<serverVars, call, cache, budget>>

AddFeedDialog ==
  /\ page.add # "closed"
  /\ page' = [page EXCEPT !.add = "closed"]
  /\ call' = FormGone("add")
  /\ UNCHANGED <<serverVars, cache, budget>>

AddFeedForm(url) ==
  /\ page.add \in {"open", "failed"} /\ Quiet /\ Spend("changes")
  /\ Send([addFeed(url) EXCEPT !.heard = "form"])
  /\ page' = [page EXCEPT !.add = "saving"]
  /\ UNCHANGED <<serverVars, cache>>

OpenEdit(row) ==
  /\ Unobstructed /\ budget.changes > 0
  /\ page' = [page EXCEPT !.edit = "open", !.editing = row.id]
  /\ UNCHANGED <<serverVars, call, cache, budget>>

EditFeedDialog ==
  /\ page.edit # "closed"
  /\ page' = [page EXCEPT !.edit = "closed", !.editing = 0]
  /\ call' = FormGone("update")
  /\ UNCHANGED <<serverVars, cache, budget>>

\* All of the form is sent, not what was changed.
EditFeedForm(setting) ==
  /\ page.edit \in {"open", "failed"} /\ Quiet /\ Spend("changes")
  /\ Send([updateFeed(page.editing, setting) EXCEPT !.heard = "form"])
  /\ page' = [page EXCEPT !.edit = "saving"]
  /\ UNCHANGED <<serverVars, cache>>

AskDelete(row) ==
  /\ Unobstructed /\ budget.changes > 0
  /\ page' = [page EXCEPT !.deleting = row.id]
  /\ UNCHANGED <<serverVars, call, cache, budget>>

\* It closes when it is cancelled and when it is confirmed.
DeleteFeedConfirm ==
  /\ page.deleting # 0
  /\ page' = [page EXCEPT !.deleting = 0]
  /\ \/ UNCHANGED <<call, budget>>
     \/ /\ ~\E k \in Pending : call[k].kind = "delete" /\ call[k].heard = "page"
        /\ Spend("changes")
        /\ Send([deleteFeed(page.deleting) EXCEPT !.heard = "page"])
  /\ UNCHANGED <<serverVars, cache>>

-----------------------------------------------------------------------------
(* The answers.  A form that is gone, on a page that is not, still closes    *)
(* the dialog that is open by now.                                         *)

Both(c) == InvalidateQueries(InvalidateQueries(c, AdminKey, Active), FeedsKey, Active)
\* Mutant: a change of the catalog refreshes the administrator's list alone.
RefreshAdmin(c, own) == InvalidateQueries(c, IF own THEN FeedsKey ELSE AdminKey, Active)
Refresh(c, own) == IF own THEN InvalidateQueries(c, FeedsKey, Active) ELSE Both(c)

Settles(k, kind) == call[k].kind = kind /\ call[k].at = "answered"
Succeeded(k) == call[k].result = "ok"
Refreshed(k) == IF Succeeded(k) THEN Refresh(cache, call[k].own) ELSE cache

useToggleSubscription(k) ==
  /\ Settles(k, "toggle")
  /\ cache' = InvalidateQueries(IF Succeeded(k) THEN cache
                                ELSE SetQueryData(cache, FeedsKey, call[k].back), FeedsKey, Active)
  /\ Done(k) /\ UNCHANGED <<serverVars, page, budget>>

useAddFeed(k) ==
  /\ Settles(k, "add")
  /\ cache' = Refreshed(k)
  /\ page' = CASE Succeeded(k) /\ call[k].heard # "no"      -> [page EXCEPT !.add = "closed"]
               [] ~Succeeded(k) /\ call[k].heard = "form"   -> [page EXCEPT !.add = "failed"]
               [] OTHER                                     -> page
  /\ Done(k) /\ UNCHANGED <<serverVars, budget>>

useUpdateFeed(k) ==
  /\ Settles(k, "update")
  /\ cache' = Refreshed(k)
  /\ page' = CASE Succeeded(k) /\ call[k].heard # "no" -> [page EXCEPT !.edit = "closed", !.editing = 0]
               [] ~Succeeded(k) /\ call[k].heard = "form" -> [page EXCEPT !.edit = "failed"]
               [] OTHER                                   -> page
  /\ Done(k) /\ UNCHANGED <<serverVars, budget>>

useDeleteFeed(k) ==
  /\ Settles(k, "delete")
  /\ cache' = Refreshed(k)
  /\ page' = IF call[k].heard = "no" THEN page ELSE [page EXCEPT !.deleting = 0]
  /\ Done(k) /\ UNCHANGED <<serverVars, budget>>

-----------------------------------------------------------------------------
Serve ==
  /\ \E k \in Call : \/ GetGlobalFeedByURL(k) \/ CountUserFeeds(k) \/ AddFeed(k) \/ Subscribe(k)
                     \/ Unsubscribe(k) \/ AddGlobalFeed(k) \/ UpdateFeed(k) \/ DeleteFeed(k)
  /\ UNCHANGED <<cache, page, budget>>

SourcesServer ==
  \/ Serve \/ OtherAdministrator
  \/ \E k \in Call : Unserved(k) \/ Lost(k)

SourcesUser ==
  \/ \E at \in {"sources", "admin"} : OpenPage(at)
  \/ \E row \in SourcesRoute : SourceRow(row)
  \/ \E row \in Managed : OpenEdit(row) \/ AskDelete(row)
  \/ OpenAdd \/ AddFeedDialog \/ \E url \in Url : AddFeedForm(url)
  \/ EditFeedDialog \/ \E setting \in Setting : EditFeedForm(setting)
  \/ DeleteFeedConfirm

SourcesClient ==
  \/ \E k \in Keys : Read(k) \/ Arrive(k)
  \/ \E k \in Call : useToggleSubscription(k) \/ useAddFeed(k) \/ useUpdateFeed(k) \/ useDeleteFeed(k)

Next == SourcesServer \/ SourcesUser \/ SourcesClient

\* A feed in the catalog, perhaps one the account owns, and a tab just opened at
\* one of the two pages.
Init ==
  /\ issued \in {1, 2}
  /\ feeds = [f \in 1..issued |->
       [url |-> IF f = 1 THEN Shared ELSE Before, own |-> f # 1, setting |-> NewSetting]]
  /\ subscribed = {1}
  /\ call = [k \in Call |-> NoCall]
  /\ page \in {Fresh("sources"), Fresh("admin")}
  /\ cache = MountQueries([k \in Keys |-> Empty], Active, {})
  /\ budget \in Budgets

Spec == Init /\ [][Next]_vars

-----------------------------------------------------------------------------
(* Properties.                                                             *)

FeedRow == [id : FeedIds, url : Url, setting : Setting, own : BOOLEAN, subscribed : BOOLEAN]
Lists == Entries([items : Seq(SUBSET FeedRow), total : Nat])

TypeOK ==
  /\ issued \in 0..MaxFeed
  /\ \E ids \in SUBSET (1..issued) : feeds \in [ids -> [url : Url, own : BOOLEAN, setting : Setting]]
  /\ subscribed \subseteq DOMAIN feeds
  /\ call \in [Call ->
       [kind : {"none", "add", "update", "delete", "toggle"}, own : BOOLEAN, url : Url \union {""},
        id : FeedIds \union {0}, setting : Setting, on : BOOLEAN,
        at : {"idle", "sent", "counting", "adding", "subscribing", "answered"},
        result : {"", "ok", "notFound", "duplicate", "quota", "failed"}, seen : 0..MaxFeed,
        heard : {"no", "page", "form"}, back : Seq([items : Seq(SUBSET FeedRow), total : Nat]),
        alone : BOOLEAN]]
  /\ cache \in [Keys -> Lists]
  /\ page \in [at : {"sources", "admin"}, add : {"closed", "open", "saving", "failed"},
               edit : {"closed", "open", "saving", "failed"}, editing : FeedIds \union {0},
               deleting : FeedIds \union {0}]

\* When no request is under way, a list of feeds that the cache takes for fresh is
\* what the service lists, on the radar's page and on the administrator's
\* (use-mutations.tsx, use-admin-feeds.ts: "Catalog mutations invalidate the Radar
\* feed list too").  The subscriptions in the administrator's list are left out: no
\* toggle refreshes them and nothing shows them.
Shown(k, rows) == IF k = FeedsKey THEN rows ELSE {[row EXCEPT !.subscribed = FALSE] : row \in rows}
FeedsMatchServer ==
  Pending = {} => \A k \in Keys : Trusted(cache[k]) => Shown(k, RowsOf(k)) = Shown(k, ListFeeds(k))

\* While a toggle is alone, its box stays as it was set: no fetch that was under way
\* when it was clicked puts it back (cancelQueries in onMutate), nor does leaving the
\* page and coming back within the staleTime of what the click has set.  Coming back
\* later asks for the list, and that answer may put the box back.
ToggleStands ==
  \A k \in Pending :
    call[k].alone => \A row \in RowsOf(FeedsKey) : row.id = call[k].id => row.subscribed = call[k].on

\* "Best-effort ceiling: two concurrent adds can land one feed over the limit", and
\* no more than that (AddUserFeed counts, then inserts).
QuotaBestEffort == Cardinality(OwnFeeds) <= MaxUserFeeds + Cardinality(Call) - 1

\* The account gets a feed of its own only for an address that the catalog had not
\* when it was looked up, whatever the administrators do meanwhile ("a popular
\* feed is not duplicated once per account").
CatalogNotDuplicated ==
  [][\A k \in Call :
       call[k].at = "adding" /\ call'[k].at = "subscribing" =>
         \A f \in Catalog : feeds[f].url = call[k].url => f > call[k].seen]_vars
=============================================================================
