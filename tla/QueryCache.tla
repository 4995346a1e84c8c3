----------------------------- MODULE QueryCache -----------------------------
(***************************************************************************)
(* The query cache of the web client: what @tanstack/react-query 5.100 does *)
(* with one query, as far as the hooks under web/src/features rely on it.   *)
(* The library is not under src/; the operators below are its contract, and *)
(* the modules that EXTEND this one say which keys the hooks touch and when.*)
(*                                                                         *)
(* An entry is one cached query.  Its data is the sequence of pages loaded  *)
(* so far (useInfiniteQuery), <<>> while there is none; an ordinary         *)
(* useQuery is the case of a single page.  A fetch collects the answers of  *)
(* the server one page at a time and changes the entry only when it lands.  *)
(***************************************************************************)
EXTENDS Naturals, SequencesExt

NoFetch == <<>>  \* the fetch of an entry that is idle

Errors == {"none", "notFound", "failed"}

(* more: fetchNextPage.  got: the pages answered so far.  fail: the error   *)
(* the request ended with.  late: the query was invalidated while this      *)
(* fetch was under way and the fetch was not restarted.  back: what         *)
(* cancelQueries restores.                                                 *)
NewFetch(e, more) ==
    [more |-> more, got |-> <<>>, fail |-> "none", late |-> FALSE,
     back |-> [err |-> e.err, invalid |-> e.invalid]]

(* missed is not part of the library: it records that the data was taken    *)
(* for fresh although an invalidation came after the server was asked.      *)
Empty == [data |-> <<>>, err |-> "none", invalid |-> FALSE,
          missed |-> FALSE, fetch |-> NoFetch]

Fetches(P) ==
    [more : BOOLEAN, got : Seq(P), fail : Errors, late : BOOLEAN,
     back : [err : Errors, invalid : BOOLEAN]]
Entries(P) ==
    [data : Seq(P), err : Errors, invalid : BOOLEAN, missed : BOOLEAN,
     fetch : Fetches(P) \union {NoFetch}]

HasData(e) == e.data # <<>>
Fetching(e) == e.fetch # NoFetch
(* status "pending" and fetchStatus "fetching": the first load. *)
IsLoading(e) == ~HasData(e) /\ e.err = "none" /\ Fetching(e)
IsError(e) == e.err # "none"
IsFetchingNextPage(e) == Fetching(e) /\ e.fetch.more

(* Fresh, as far as the cache can tell. *)
Trusted(e) == HasData(e) /\ ~e.invalid /\ ~e.missed /\ e.err = "none"

Begin(e, more) ==
    [e EXCEPT !.fetch = NewFetch(e, more),
              !.err = IF HasData(e) THEN @ ELSE "none"]

(* An observer mounts: the query runs when it has no data, is invalidated   *)
(* or its staleTime has passed; one already under way is joined.            *)
Mount(e, expired) ==
    IF ~Fetching(e) /\ (~HasData(e) \/ e.invalid \/ expired)
    THEN Begin(e, FALSE) ELSE e

(* refetch() and fetchNextPage() cancel the fetch under way, except the     *)
(* first load, which they join.                                            *)
Refetch(e) == IF Fetching(e) /\ ~HasData(e) THEN e ELSE Begin(e, FALSE)
FetchNextPage(e) == Begin(e, TRUE)

(* invalidateQueries: the query is marked, and refetched when it is on      *)
(* screen.  A first load, or the fetch of a query nobody observes, goes on; *)
(* its answer will clear the mark.                                         *)
Invalidate(e, active) ==
    CASE Fetching(e) /\ ~(active /\ HasData(e)) ->
             [e EXCEPT !.invalid = TRUE, !.fetch.late = TRUE]
      [] active /\ (HasData(e) \/ ~Fetching(e)) ->
             Begin([e EXCEPT !.invalid = TRUE], FALSE)
      [] OTHER -> [e EXCEPT !.invalid = HasData(e)]

(* cancelQueries (revert): the state before the fetch, without a refetch. *)
Cancel(e) ==
    IF ~Fetching(e) THEN e
    ELSE [e EXCEPT !.err = e.fetch.back.err,
                   !.invalid = e.fetch.back.invalid,
                   !.missed = @ \/ (e.invalid /\ ~e.fetch.back.invalid),
                   !.fetch = NoFetch]

(* setQueryData: a success that leaves a running fetch running. *)
SetData(e, pages) ==
    [e EXCEPT !.data = pages, !.err = "none", !.invalid = FALSE,
              !.fetch = IF @ = NoFetch THEN @
                        ELSE [@ EXCEPT !.back = [err |-> "none", invalid |-> FALSE]]]

(***************************************************************************)
(* The answers.  A page of a list is [items, total], and the next offset is *)
(* the number of rows loaded so far (getNextPageParam of every list here).  *)
(* A refetch asks for as many pages as the entry holds, one after another.  *)
(***************************************************************************)
Page(T)       == [items : Seq(T), total : Nat]
Rows(pages)   == FlattenSeq([n \in DOMAIN pages |-> pages[n].items])
Loaded(pages) == Len(Rows(pages))
(* The answer of an ordinary query, as a page. *)
Single(x) == [items |-> <<x>>, total |-> 1]
Only(e)   == e.data[1].items[1]

NextPage(pages) == pages # <<>> /\ Loaded(pages) < Last(pages).total
HasNextPage(e) == NextPage(e.data)

Offset(e) == Loaded(IF e.fetch.more THEN e.data ELSE e.fetch.got)
Answered(e) ==
    \/ e.fetch.fail # "none"
    \/ /\ e.fetch.got # <<>>
       /\ \/ e.fetch.more
          \/ Len(e.fetch.got) >= Len(e.data)
          \/ ~NextPage(e.fetch.got)

Answer(e, page) == [e EXCEPT !.fetch.got = Append(@, page)]
Refuse(e, err)  == [e EXCEPT !.fetch.fail = err]

(* The fetch ends.  A page added to an entry that an invalidation had       *)
(* marked makes the whole entry count as fresh.                            *)
Land(e) ==
    IF e.fetch.fail # "none"
    THEN [e EXCEPT !.err = e.fetch.fail, !.invalid = TRUE, !.fetch = NoFetch]
    ELSE [data    |-> IF e.fetch.more THEN e.data \o e.fetch.got ELSE e.fetch.got,
          err     |-> "none",
          invalid |-> FALSE,
          missed  |-> e.fetch.late \/ (e.fetch.more /\ (e.invalid \/ e.missed)),
          fetch   |-> NoFetch]

(***************************************************************************)
(* A cache is a function from query keys, which are tuples, to entries; the *)
(* methods of the client take every query whose key a given one begins.     *)
(***************************************************************************)
MountQueries(c, shown, expired) ==
    [k \in DOMAIN c |-> IF k \in shown THEN Mount(c[k], k \in expired) ELSE c[k]]
InvalidateQueries(c, key, shown) ==
    [k \in DOMAIN c |-> IF IsPrefix(key, k) THEN Invalidate(c[k], k \in shown) ELSE c[k]]
CancelQueries(c, key) == [k \in DOMAIN c |-> IF IsPrefix(key, k) THEN Cancel(c[k]) ELSE c[k]]
RemoveQueries(c, key) == [k \in DOMAIN c |-> IF IsPrefix(key, k) THEN Empty ELSE c[k]]
SetQueryData(c, key, pages) == IF pages = <<>> THEN c ELSE [c EXCEPT ![key] = SetData(@, pages)]

(* An answer that is lost leaves what the cache holds, and what is being    *)
(* fetched, behind the server, and nothing says so.                        *)
Overlooked(e) ==
    [e EXCEPT !.missed = HasData(e),
              !.fetch = IF @ = NoFetch THEN @ ELSE [@ EXCEPT !.late = TRUE]]
OverlookQueries(c) == [k \in DOMAIN c |-> Overlooked(c[k])]
=============================================================================
