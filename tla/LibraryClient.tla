---------------------------- MODULE LibraryClient ----------------------------
(***************************************************************************)
(* The library of the web client (web/src/features/library, the two routes  *)
(* of the library) in one open tab, against the library service: the pages, *)
(* the cached lists and articles, the changes the user makes and what       *)
(* the hooks do to the cache when a change starts, fails and settles.       *)
(***************************************************************************)
EXTENDS Library, QueryCache

CONSTANTS
  Filter,      \* the filters of the list that are used
  Default,     \* the filter of /library
  Before,      \* the articles saved before, newest first
  Typed,       \* the addresses typed into the dialog
  Op,          \* the changes under way at a time; each is one mutation
  Budgets      \* bound: how often a user changes something, saves a link and opens
               \* another page, how many answers fail or get lost, and how many
               \* requests may be under way when the user starts the next thing

ASSUME ClientAssumption ==
  /\ Filter \subseteq Filters /\ Default \in Filter
  /\ Before \in Seq(Url) /\ Typed \subseteq Url
  /\ Op \subseteq Nat /\ IsFiniteSet(Op)
  /\ Budgets \subseteq [changes : Nat, saves : Nat, visits : Nat, failures : Nat, busy : Nat]
  /\ \A b \in Budgets : Len(Before) + b.saves <= MaxItem

VARIABLES
  lists,     \* queries ["library", "list", f]
  details,   \* queries ["library", "detail", id]
  page,      \* what is on screen
  dialog,    \* the add-link dialog
  op,        \* the mutations
  budget     \* what is left of one of Budgets

clientVars == <<lists, details, page, dialog, op, budget>>
vars == <<libraryVars, clientVars>>

Ids == 1..MaxItem
Unsent == [kind |-> "none", id |-> 0, patch |-> [field |-> "", to |-> ""], url |-> "",
           by |-> "hand", back |-> [f \in Filter |-> <<>>], at |-> "idle",
           result |-> "", heard |-> FALSE]
\* The statement, the answer and what the callbacks do with it are three steps.
InFlight == {k \in Op : op[k].at \in {"sent", "upserted", "answered"}}
Free == LET idle == Op \ InFlight IN {k \in idle : \A n \in idle : k <= n}
Spend(what) == budget[what] > 0 /\ budget' = [budget EXCEPT ![what] = @ - 1]
Fail == Spend("failures")

-----------------------------------------------------------------------------
(* What is on screen.  A list without data shows the rows it is given by    *)
(* the list before it (keepPreviousData), and only while it is pending.     *)

OnList(f)   == page.at = "list" /\ page.filter = f
OnReader(i) == page.at = "reader" /\ page.id = i

Pages(f) == IF HasData(lists[f]) THEN lists[f].data ELSE page.held

LibraryGrid(f) ==
  IF IsLoading(lists[f]) /\ page.held = <<>> THEN "loading"
  ELSE IF IsError(lists[f]) THEN "error"
  ELSE IF Rows(Pages(f)) = <<>> THEN "empty" ELSE "list"

LibraryItemRoute(i) ==
  CASE IsLoading(details[i])         -> "loading"
    [] details[i].err = "notFound"   -> "not found"
    [] details[i].err = "failed"     -> "error"
    [] OTHER                         -> "article"

\* The cards, or the article, whose buttons can be pressed.
Shown ==
  CASE page.at = "list" /\ LibraryGrid(page.filter) = "list" -> ToSet(Rows(Pages(page.filter)))
    [] /\ page.at = "reader" /\ HasData(details[page.id])
       /\ LibraryItemRoute(page.id) = "article"           -> {Only(details[page.id]).item}
    [] OTHER                                              -> {}

Busy == Cardinality(InFlight) + Cardinality({f \in Filter : Fetching(lists[f])})
                              + Cardinality({i \in Ids : Fetching(details[i])})

\* The two dialogs are modal.
Unobstructed == dialog = "closed" /\ page.confirm = 0 /\ Busy <= budget.busy

-----------------------------------------------------------------------------
(* Navigation.  A query is loaded, or refreshed after its staleTime, when   *)
(* the page that shows it mounts; the page before it stops listening to     *)
(* what its own delete answers.                                            *)

At(p, held) == [at |-> p.at, filter |-> p.filter, id |-> p.id, held |-> held, hand |-> "no",
                deep |-> FALSE, fired |-> FALSE, confirm |-> 0]

Unheard == [k \in Op |-> [op[k] EXCEPT !.heard = FALSE]]

\* Another filter of the list, or the list from the reader's link back, whatever the
\* filter in its address.
FilterBar(f) == page.at = "list" /\ page.filter # f
LibraryListRoute(f) ==
  /\ Unobstructed /\ (FilterBar(f) \/ page.at = "reader") /\ Spend("visits")
  /\ page' = At([at |-> "list", filter |-> f, id |-> 0],
                IF page.at = "list" THEN Pages(page.filter) ELSE <<>>)
  /\ op' = IF page.at = "reader" THEN Unheard ELSE op
  /\ \E expired \in BOOLEAN : lists' = [lists EXCEPT ![f] = Mount(@, expired)]
  /\ UNCHANGED <<libraryVars, details, dialog>>

LibraryCard(i) == page.at = "list" /\ \E it \in Shown : it.id = i
OpenReader(i) ==
  /\ Unobstructed /\ LibraryCard(i) /\ Spend("visits")
  /\ page' = At([at |-> "reader", filter |-> page.filter, id |-> i], <<>>)
  /\ op' = Unheard
  /\ \E expired \in BOOLEAN : details' = [details EXCEPT ![i] = Mount(@, expired)]
  /\ UNCHANGED <<libraryVars, lists, dialog>>

\* "Load more" is disabled while a page is being added, not during a refetch.
LoadMore(f) ==
  /\ Unobstructed /\ OnList(f) /\ LibraryGrid(f) = "list"
  /\ HasNextPage(lists[f]) /\ ~IsFetchingNextPage(lists[f])
  /\ lists' = [lists EXCEPT ![f] = FetchNextPage(@)]
  /\ UNCHANGED <<libraryVars, details, page, dialog, op, budget>>

\* The error panel's button.
Retry ==
  /\ Unobstructed
  /\ \/ /\ page.at = "list" /\ LibraryGrid(page.filter) = "error"
        /\ lists' = [lists EXCEPT ![page.filter] = Refetch(@)]
        /\ UNCHANGED details
     \/ /\ page.at = "reader" /\ LibraryItemRoute(page.id) = "error"
        /\ details' = [details EXCEPT ![page.id] = Refetch(@)]
        /\ UNCHANGED lists
  /\ UNCHANGED <<libraryVars, page, dialog, op, budget>>

-----------------------------------------------------------------------------
(* Fetches: the server reads, and the answer lands in the cache later.     *)

Unread(p, d) == p.at = "reader" /\ HasData(d) /\ Only(d).item.state = "unread"

\* useMarkReadOnScroll listens.  Mutant: also after a toggle by hand.
EnabledAgain(p, d) == Unread(p, d)
Enabled(p, d) == Unread(p, d) /\ p.hand = "no"

\* The effect runs again when it becomes enabled.
Rearmed(i, d) ==
  IF OnReader(i) /\ Enabled(page, d) /\ ~Enabled(page, details[i])
  THEN [page EXCEPT !.fired = FALSE] ELSE page

ReadList(f) ==
  /\ Fetching(lists[f]) /\ ~Answered(lists[f])
  /\ \/ /\ lists' = [lists EXCEPT ![f] = Answer(@, ListItems(f, Offset(@)))]
        /\ UNCHANGED budget
     \/ lists' = [lists EXCEPT ![f] = Refuse(@, "failed")] /\ Fail
  /\ UNCHANGED <<libraryVars, details, page, dialog, op>>

ReadDetail(i) ==
  /\ Fetching(details[i]) /\ ~Answered(details[i])
  /\ \/ /\ details' = [details EXCEPT ![i] =
                         IF Saved(i) THEN Answer(@, Single(GetItemDetail(i))) ELSE Refuse(@, "notFound")]
        /\ UNCHANGED budget
     \/ details' = [details EXCEPT ![i] = Refuse(@, "failed")] /\ Fail
  /\ UNCHANGED <<libraryVars, lists, page, dialog, op>>

LandList(f) ==
  /\ Fetching(lists[f]) /\ Answered(lists[f])
  /\ lists' = [lists EXCEPT ![f] = Land(@)]
  /\ page' = IF OnList(f) /\ HasData(lists'[f]) THEN [page EXCEPT !.held = <<>>] ELSE page
  /\ UNCHANGED <<libraryVars, details, dialog, op, budget>>

LandDetail(i) ==
  /\ Fetching(details[i]) /\ Answered(details[i])
  /\ details' = [details EXCEPT ![i] = Land(@)]
  /\ page' = Rearmed(i, details'[i])
  /\ UNCHANGED <<libraryVars, lists, dialog, op, budget>>

\* The reader renders again after its query was removed.
Rebuild(i) ==
  /\ OnReader(i) /\ ~HasData(details[i]) /\ ~Fetching(details[i]) /\ ~IsError(details[i])
  /\ details' = [details EXCEPT ![i] = Mount(@, FALSE)]
  /\ UNCHANGED <<libraryVars, lists, page, dialog, op, budget>>

-----------------------------------------------------------------------------
(* A change starts.                                                        *)

\* by: the user's hand or the scroll listener; back: the lists to go back to.
updateItem(i, patch, by, back) ==
  [Unsent EXCEPT !.kind = "update", !.id = i, !.patch = patch, !.at = "sent",
                 !.by = by, !.back = back]
deleteItem(i) == [Unsent EXCEPT !.kind = "delete", !.id = i, !.at = "sent", !.heard = TRUE]
saveLink(url) == [Unsent EXCEPT !.kind = "save", !.url = url, !.at = "sent", !.heard = TRUE]

applyPatch(it, patch) == [it EXCEPT ![patch.field] = patch.to]
Patched(pages, i, patch) ==
  [n \in DOMAIN pages |->
     [pages[n] EXCEPT !.items = [m \in DOMAIN @ |->
        IF @[m].id = i THEN applyPatch(@[m], patch) ELSE @[m]]]]

\* onMutate of useUpdateItem.  Every list with data is written, not only those
\* that hold the item, and an article is not: no component loads
\* ["library", "item", id].
useUpdateItem(i, patch, by) ==
  /\ Spend("changes")
  /\ \E k \in Free :
    /\ lists' = [f \in Filter |->
         IF HasData(lists[f]) THEN SetData(Cancel(lists[f]), Patched(lists[f].data, i, patch))
         ELSE Cancel(lists[f])]
    /\ details' = [n \in Ids |-> Cancel(details[n])]
    /\ op' = [op EXCEPT ![k] = updateItem(i, patch, by, [f \in Filter |-> lists[f].data])]

SetState(i, to) == useUpdateItem(i, [field |-> "state", to |-> to], "hand")

\* In the reader a toggle by hand stands the scroll listener down (handToggledId).
\* What it was toggled to, and that another change of the article was under way,
\* is kept for the property alone.
HandMark(i, to) ==
  IF \E k \in InFlight : op[k].kind = "update" /\ op[k].id = i THEN "contested" ELSE to
ToggleRead(it) ==
  LET to == IF it.state = "read" THEN "unread" ELSE "read" IN
  /\ SetState(it.id, to)
  /\ page' = IF page.at = "reader" THEN [page EXCEPT !.hand = HandMark(page.id, to)] ELSE page

\* Mutant: an unarchived item gets the name of a filter.
ToggleArchiveFilter(it) ==
  /\ SetState(it.id, IF it.state = "archived" THEN "all" ELSE "archived")
  /\ UNCHANGED page
ToggleArchive(it) ==
  /\ SetState(it.id, IF it.state = "archived" THEN "unread" ELSE "archived")
  /\ UNCHANGED page

ToggleFavorite(it) ==
  /\ useUpdateItem(it.id, [field |-> "favorite", to |-> IF it.favorite = "yes" THEN "no" ELSE "yes"],
                   "hand")
  /\ UNCHANGED page

RequestDelete(it) ==
  /\ budget.changes > 0
  /\ page' = [page EXCEPT !.confirm = it.id]
  /\ UNCHANGED <<lists, details, op, budget>>

useItemActions(it) ==
  /\ Unobstructed
  /\ ToggleRead(it) \/ ToggleArchive(it) \/ ToggleFavorite(it) \/ RequestDelete(it)
  /\ UNCHANGED <<libraryVars, dialog>>

\* The buttons of a card's menu, and those under the article.
LibraryCardMenu == page.at = "list" /\ \E it \in Shown : useItemActions(it)
ReaderActions == page.at = "reader" /\ \E it \in Shown : useItemActions(it)

\* Confirmed or cancelled, the dialog closes; it cannot be confirmed while the
\* component's delete is under way.
DeleteConfirm ==
  /\ page.confirm # 0
  /\ page' = [page EXCEPT !.confirm = 0]
  /\ \/ UNCHANGED <<op, budget>>
     \/ /\ ~\E k \in InFlight : op[k].kind = "delete" /\ op[k].id = page.confirm /\ op[k].heard
        /\ Spend("changes")
        /\ \E k \in Free : op' = [op EXCEPT ![k] = deleteItem(page.confirm)]
  /\ UNCHANGED <<libraryVars, lists, details, dialog>>

\* Down to the last tenth of the article.
Scroll ==
  /\ page.at = "reader" /\ ~page.deep /\ budget.changes > 0
  /\ page' = [page EXCEPT !.deep = TRUE]
  /\ UNCHANGED <<libraryVars, lists, details, dialog, op, budget>>

\* The listener fires once per time it is armed.
useMarkReadOnScroll ==
  /\ page.at = "reader" /\ Enabled(page, details[page.id])
  /\ page.deep /\ ~page.fired
  /\ page' = [page EXCEPT !.fired = TRUE]
  /\ useUpdateItem(page.id, [field |-> "state", to |-> "read"], "scroll")
  /\ UNCHANGED <<libraryVars, dialog>>

-----------------------------------------------------------------------------
(* The add-link dialog.  It can be closed while a save is under way, but    *)
(* not with its own Cancel button.                                         *)

OpenDialog ==
  /\ Unobstructed /\ budget.saves > 0
  /\ dialog' = "form"
  /\ UNCHANGED <<libraryVars, lists, details, page, op, budget>>

\* The form of a save that is under way goes with the dialog.
FormGone == [k \in Op |-> IF op[k].kind = "save" THEN [op[k] EXCEPT !.heard = FALSE] ELSE op[k]]
CloseDialog ==
  /\ dialog # "closed"
  /\ dialog' = "closed"
  /\ op' = FormGone
  /\ UNCHANGED <<libraryVars, lists, details, page, budget>>

AddLinkForm(url) ==
  /\ dialog \in {"form", "failed"}
  /\ Spend("saves")
  /\ \E k \in Free : op' = [op EXCEPT ![k] = saveLink(url)]
  /\ dialog' = "saving"
  /\ UNCHANGED <<libraryVars, lists, details, page>>

-----------------------------------------------------------------------------
(* The service.                                                            *)

Answers(k, result) == op' = [op EXCEPT ![k].at = "answered", ![k].result = result]
Refused(k) ==
  CASE op[k].at = "upserted" /\ AlreadySaved(op[k].url) -> "conflict"
    [] op[k].at = "sent" /\ ~Saved(op[k].id)            -> "notFound"
    [] OTHER                                            -> "ok"

\* The statement a request ends with.
Write(k) ==
  CASE op[k].kind = "update" -> UpdateItem(op[k].id, op[k].patch)
    [] op[k].kind = "delete" -> DeleteItem(op[k].id)
    [] OTHER                 -> CreateItem(op[k].url)
Writes(k) == op[k].at = IF op[k].kind = "save" THEN "upserted" ELSE "sent"

Handle(k) ==
  /\ Writes(k)
  /\ Write(k)
  /\ \/ Answers(k, Refused(k)) /\ UNCHANGED <<lists, details, budget>>
     \/ /\ Fail /\ Answers(k, "failed")
        /\ IF op[k].kind = "update" \/ Refused(k) # "ok"
           THEN UNCHANGED <<lists, details>>
           ELSE /\ lists' = OverlookQueries(lists)
                /\ details' = OverlookQueries(details)
  /\ UNCHANGED <<page, dialog>>

\* SaveURL: an extraction that fails is not an error of the request.
SaveURL(k) ==
  /\ op[k].kind = "save" /\ op[k].at = "sent"
  /\ \E extracted \in BOOLEAN :
       /\ UpsertContent(op[k].url, extracted)
       /\ op' = [op EXCEPT ![k].at = "upserted", ![k].url = SavedAs(op[k].url, extracted)]
  /\ UNCHANGED <<lists, details, page, dialog, budget>>

Drop(k) ==
  /\ op[k].at \in {"sent", "upserted"} /\ Fail /\ Answers(k, "failed")
  /\ UNCHANGED <<libraryVars, lists, details, page, dialog>>

-----------------------------------------------------------------------------
(* A change settles.                                                       *)

Done(k) == op' = [op EXCEPT ![k] = Unsent]
\* Mutants: only the filter on screen is invalidated; none is.
InvalidateShown(ls) == [f \in Filter |-> IF OnList(f) THEN Invalidate(ls[f], TRUE) ELSE ls[f]]
InvalidateNone(ls)  == ls
InvalidateLists(ls) == [f \in Filter |-> Invalidate(ls[f], OnList(f))]

\* onError puts every list back as it was when the change started.
RolledBack(k) ==
  [f \in Filter |-> IF op[k].back[f] = <<>> THEN lists[f] ELSE SetData(lists[f], op[k].back[f])]

UpdateSettled(k) ==
  LET i == op[k].id IN
  /\ op[k].kind = "update" /\ op[k].at = "answered"
  /\ lists' = InvalidateLists(IF op[k].result = "ok" THEN lists ELSE RolledBack(k))
  /\ details' = [details EXCEPT ![i] = Invalidate(@, OnReader(i))]
  /\ Done(k)
  /\ UNCHANGED <<libraryVars, page, dialog, budget>>

\* The reader of the deleted article, if it is still open, goes to the list.
useDeleteItem(k) ==
  LET i == op[k].id
      leaves == op[k].heard /\ page.at = "reader"
  IN
  /\ op[k].kind = "delete" /\ op[k].at = "answered"
  /\ IF op[k].result # "ok"
     THEN /\ page' = IF op[k].heard /\ page.confirm = i THEN [page EXCEPT !.confirm = 0] ELSE page
          /\ UNCHANGED <<lists, details>>
     ELSE /\ details' = [details EXCEPT ![i] = Empty]
          /\ IF leaves
             THEN /\ page' = At([at |-> "list", filter |-> Default, id |-> 0], <<>>)
                  /\ lists' = [InvalidateLists(lists) EXCEPT ![Default] = Mount(@, FALSE)]
             ELSE /\ page' = IF op[k].heard /\ page.confirm = i
                             THEN [page EXCEPT !.confirm = 0] ELSE page
                  /\ lists' = InvalidateLists(lists)
  /\ Done(k)
  /\ UNCHANGED <<libraryVars, dialog, budget>>

\* onClose closes the dialog that is open by now, whichever save opened it; an
\* error is shown by the form that sent the save, if it is still there.
useSaveLink(k) ==
  /\ op[k].kind = "save" /\ op[k].at = "answered"
  /\ IF op[k].result = "ok"
     THEN /\ lists' = InvalidateLists(lists)
          /\ details' = [i \in Ids |-> Invalidate(details[i], OnReader(i))]
          /\ dialog' = "closed"
          /\ op' = [FormGone EXCEPT ![k] = Unsent]
     ELSE /\ dialog' = IF op[k].heard THEN "failed" ELSE dialog
          /\ Done(k)
          /\ UNCHANGED <<lists, details>>
  /\ UNCHANGED <<libraryVars, page, budget>>

-----------------------------------------------------------------------------
LibraryUser ==
  \/ \E f \in Filter : LibraryListRoute(f) \/ LoadMore(f)
  \/ \E i \in Ids : OpenReader(i)
  \/ Retry \/ LibraryCardMenu \/ ReaderActions \/ DeleteConfirm \/ Scroll
  \/ OpenDialog \/ CloseDialog \/ \E url \in Typed : AddLinkForm(url)

LibraryQueries ==
  \/ \E f \in Filter : ReadList(f) \/ LandList(f)
  \/ \E i \in Ids : ReadDetail(i) \/ LandDetail(i) \/ Rebuild(i)

LibraryMutations ==
  \/ useMarkReadOnScroll
  \/ \E k \in Op : \/ SaveURL(k) \/ Handle(k) \/ Drop(k)
                   \/ UpdateSettled(k) \/ useDeleteItem(k) \/ useSaveLink(k)

Next == LibraryUser \/ LibraryQueries \/ LibraryMutations

\* Two or more saved articles, newest first, and /library just opened.
Init ==
  /\ issued = Len(Before)
  /\ shelf = [n \in DOMAIN Before |-> [id |-> issued + 1 - n, url |-> Before[n],
                                      state |-> "unread", favorite |-> "no"]]
  /\ content = [u \in Url |-> IF \E n \in DOMAIN Before : Before[n] = u THEN "ok" ELSE "none"]
  /\ lists = [f \in Filter |-> IF f = Default THEN Mount(Empty, FALSE) ELSE Empty]
  /\ details = [i \in Ids |-> Empty]
  /\ page = [at |-> "list", filter |-> Default, id |-> 0, held |-> <<>>, hand |-> "no",
                deep |-> FALSE, fired |-> FALSE, confirm |-> 0]
  /\ dialog = "closed"
  /\ op = [k \in Op |-> Unsent]
  /\ budget \in Budgets

Spec == Init /\ [][Next]_vars

-----------------------------------------------------------------------------
(* Properties.                                                             *)

Detail == [item : Item, content : {"none", "ok", "failed"}]
Patch == [field : {"state"}, to : States] \union [field : {"favorite"}, to : {"yes", "no"}]

\* The types of the state (features/library/types.ts, the rows of store.go).
TypeOK ==
  /\ LibraryTypeOK
  /\ lists \in [Filter -> Entries(Page(Item))]
  /\ details \in [Ids -> Entries(Page(Detail))]
  /\ page \in [at : {"list", "reader"}, filter : Filter, id : Ids \union {0},
               held : Seq(Page(Item)), hand : {"no", "read", "unread", "contested"}, deep : BOOLEAN,
               fired : BOOLEAN, confirm : Ids \union {0}]
  /\ dialog \in {"closed", "form", "saving", "failed"}
  /\ op \in [Op -> {Unsent} \union
       [kind : {"update", "delete", "save"}, id : Ids \union {0}, patch : {Unsent.patch} \union Patch,
        url : {""} \union Url, by : {"hand", "scroll"}, back : [Filter -> Seq(Page(Item))],
        at : {"sent", "upserted", "answered"},
        result : {"", "ok", "notFound", "conflict", "failed"}, heard : BOOLEAN]]
  /\ budget \in [changes : Nat, saves : Nat, visits : Nat, failures : Nat, busy : Nat]

\* What the server would answer for the rows a list has loaded.
CurrentList(f) ==
  LET n == Loaded(lists[f].data) IN
  /\ Rows(lists[f].data) = SubSeq(View(f), 1, Min({n, Len(View(f))}))
  /\ Last(lists[f].data).total = Len(View(f))
CurrentDetail(i) == Saved(i) /\ Only(details[i]) = GetItemDetail(i)

\* When no change is under way, every list and article that the cache takes for
\* fresh is what the server holds (use-mutations.tsx: optimistic patches,
\* rollbacks, invalidations and running fetches, in any order).
FreshMatchesServer ==
  InFlight = {} =>
    /\ \A f \in Filter : Trusted(lists[f]) => CurrentList(f)
    /\ \A i \in Ids : Trusted(details[i]) => CurrentDetail(i)

\* The list on screen is without data, request and error only while an update
\* that cancelled its first load is under way, which will load it again.
NeverStuck ==
  \A f \in Filter :
    OnList(f) /\ ~HasData(lists[f]) /\ ~IsError(lists[f]) /\ ~Fetching(lists[f]) =>
      \E k \in InFlight : op[k].kind = "update"

\* An article marked unread by hand in the reader, while no other change of it was
\* under way, is not marked read by the scroll listener until the reader is left,
\* whatever lands in between (use-item-actions.tsx: "stand down its scroll-based
\* auto-marking after a manual toggle").
HandMarkStands ==
  [][\A k \in Op :
       op[k].by = "scroll" /\ op[k].at = "sent" /\ op'[k].at = "answered" /\ OnReader(op[k].id)
       => page.hand # "unread"]_vars

\* Saving an address again neither loses an extracted text nor repairs a failed
\* one: the first extraction of an address stands (UpsertContent's ON CONFLICT).
FirstExtractionStands ==
  [][\A u \in Url : content[u] # "none" => content'[u] = content[u]]_vars
=============================================================================
