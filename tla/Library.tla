------------------------------ MODULE Library ------------------------------
(***************************************************************************)
(* internal/library: the saved articles of one user and the contents they   *)
(* point to.  Every operator is one statement of store.go; service.go calls *)
(* them, and LibraryClient says when the browser makes it do so.            *)
(***************************************************************************)
EXTENDS Naturals, SequencesExt, FiniteSetsExt

CONSTANTS
  Url,      \* the addresses of articles: those typed and those redirected to
  Final,    \* the address an extraction ends at (Article.URL)
  MaxItem,  \* bound: items ever created
  PageSize

ASSUME LibraryAssumption ==
  /\ Final \in [Url -> Url]
  /\ MaxItem \in Nat
  /\ PageSize \in Nat \ {0}

VARIABLES
  shelf,    \* library_items, newest first (saved_at DESC)
  content,  \* article_contents by URL: "none", "ok", or "failed" (fetch_error set)
  issued    \* the last id of library_items

libraryVars == <<shelf, content, issued>>

States == {"unread", "read", "archived"}
Item == [id : 1..MaxItem, url : Url, state : States, favorite : {"yes", "no"}]
Filters == [state : States \union {"all"}, favorite : {"yes", "any"}]

LibraryTypeOK ==
  /\ shelf \in Seq(Item)
  /\ content \in [Url -> {"none", "ok", "failed"}]
  /\ issued \in 0..MaxItem

-----------------------------------------------------------------------------
(* The queries.                                                            *)

\* Without a state the listing leaves the archive out.
Listed(it, f) ==
  /\ IF f.state = "all" THEN it.state # "archived" ELSE it.state = f.state
  /\ f.favorite = "yes" => it.favorite = "yes"

View(f) ==
  LET listed == {n \in DOMAIN shelf : Listed(shelf[n], f)}
  IN [m \in 1..Cardinality(listed) |->
        shelf[CHOOSE n \in listed : Cardinality({o \in listed : o < n}) = m - 1]]

ListItems(f, offset) ==
  [items |-> SubSeq(View(f), offset + 1, Min({offset + PageSize, Len(View(f))})),
   total |-> Len(View(f))]

Saved(i) == \E n \in DOMAIN shelf : shelf[n].id = i
Row(i) == CHOOSE n \in DOMAIN shelf : shelf[n].id = i

GetItemDetail(i) == [item |-> shelf[Row(i)], content |-> content[shelf[Row(i)].url]]

-----------------------------------------------------------------------------
(* The statements.                                                         *)

\* SaveURL up to the upsert.  An extraction that fails leaves a row under the
\* address as typed; text, title and fetch_error of a row that exists stay.
SavedAs(url, extracted) == IF extracted THEN Final[url] ELSE url
\* Mutant: the later extraction wins.
UpsertLatest(url, extracted) ==
  /\ content' = [content EXCEPT ![SavedAs(url, extracted)] = IF extracted THEN "ok" ELSE "failed"]
  /\ UNCHANGED <<shelf, issued>>
UpsertContent(url, extracted) ==
  /\ content' = [content EXCEPT ![SavedAs(url, extracted)] =
                   IF @ # "none" THEN @ ELSE IF extracted THEN "ok" ELSE "failed"]
  /\ UNCHANGED <<shelf, issued>>

AlreadySaved(url) == \E n \in DOMAIN shelf : shelf[n].url = url

\* An id is drawn from the sequence even if the unique constraint then refuses;
\* ids that are drawn for nothing are not counted.
CreateItem(url) ==
  /\ IF AlreadySaved(url)
     THEN UNCHANGED <<shelf, issued>>
     ELSE /\ issued' = issued + 1
          /\ shelf' = <<[id |-> issued + 1, url |-> url, state |-> "unread", favorite |-> "no"]>>
                        \o shelf
  /\ UNCHANGED content

\* A patch sets one field.
UpdateItem(i, patch) ==
  /\ IF Saved(i)
     THEN shelf' = [shelf EXCEPT ![Row(i)] = [@ EXCEPT ![patch.field] = patch.to]]
     ELSE UNCHANGED shelf
  /\ UNCHANGED <<content, issued>>

DeleteItem(i) ==
  /\ shelf' = IF Saved(i) THEN RemoveAt(shelf, Row(i)) ELSE shelf
  /\ UNCHANGED <<content, issued>>
=============================================================================
