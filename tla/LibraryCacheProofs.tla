------------------------- MODULE LibraryCacheProofs -------------------------
(***************************************************************************)
(* The types of the library's client and service, and that its cache is    *)
(* fresh: once no change is under way, what the cache takes for fresh is    *)
(* what the server holds.  While one is, an entry may disagree with the     *)
(* server only if the change owes it an invalidation; if none is owed, an   *)
(* entry that is trusted, or will be when its fetch lands, is what the      *)
(* server would answer now.                                                *)
(***************************************************************************)
EXTENDS LibraryClient, QueryCacheProofs

\* The saves that have yet to create an item.
Waiting == {k \in Op : op[k].kind = "save" /\ op[k].at \in {"sent", "upserted"}}

\* Ids are never used twice, and an item has a content.
ShelfOK ==
  /\ \A m, n \in DOMAIN shelf : shelf[m].id = shelf[n].id => m = n
  /\ \A n \in DOMAIN shelf : shelf[n].id <= issued /\ content[shelf[n].url] # "none"

OpOK(o) ==
  /\ o.kind = "update" => o.patch \in Patch
  /\ o.kind = "save" => o.url \in Url /\ (o.at = "upserted" => content[o.url] # "none")

(* The strengthening of the types: there is room for what is being saved,   *)
(* a reader shows an article, and an article is one page.                   *)
TypeInv ==
  /\ TypeOK
  /\ issued + Cardinality(Waiting) + budget.saves <= MaxItem
  /\ page.at = "reader" => page.id \in Ids
  /\ ShelfOK
  /\ \A k \in Op : OpOK(op[k])
  /\ \A f \in Filter : Paged(lists[f])
  /\ \A i \in Ids : SinglePage(details[i])

\* The change will have the lists, or an article, marked when it settles.
OwesLists(o) ==
  \/ o.kind = "update"
  \/ o.kind \in {"delete", "save"} /\ o.at = "answered" /\ o.result = "ok"
OwesItem(o, i) ==
  \/ o.kind = "update" /\ o.id = i
  \/ o.kind = "delete" /\ o.id = i /\ o.at = "answered" /\ o.result = "ok"
  \/ o.kind = "save" /\ o.at = "answered" /\ o.result = "ok"
Held(i) == {pages \in {<<Single(GetItemDetail(i))>>} : Saved(i)}

(* What the cache takes for fresh is fresh, unless a change under way owes  *)
(* it an invalidation.                                                     *)
OwedLists == \E k \in Op : OwesLists(op[k])
OwedItem(i) == \E k \in Op : OwesItem(op[k], i)
ListFresh(f) == OwedLists \/ Agrees(lists[f], FreshPages(Item, View(f)))
DetailFresh(i) == OwedItem(i) \/ Agrees(details[i], Held(i))
FreshInv ==
  /\ \A f \in Filter : ListFresh(f)
  /\ \A i \in Ids : DetailFresh(i)

-----------------------------------------------------------------------------
(* The shelf.                                                              *)

LEMMA RowIs ==
  ASSUME NEW i, Saved(i)
  PROVE  Row(i) \in DOMAIN shelf /\ shelf[Row(i)].id = i
BY DEF Saved, Row

LEMMA Shelved ==
  ASSUME TypeInv
  PROVE  /\ shelf \in Seq(Item) /\ DOMAIN shelf = 1..Len(shelf) /\ Len(shelf) \in Nat
         /\ \A n \in DOMAIN shelf : shelf[n] \in Item
         /\ content \in [Url -> {"none", "ok", "failed"}] /\ issued \in 0..MaxItem
<1>1. shelf \in Seq(Item) /\ content \in [Url -> {"none", "ok", "failed"}] /\ issued \in 0..MaxItem
  BY DEF TypeInv, TypeOK, LibraryTypeOK
<1> QED  BY <1>1, LenProperties, ElementOfSeq

LEMMA ItemFields ==
  ASSUME NEW it \in Item
  PROVE  /\ it.id \in Ids /\ it.url \in Url /\ it.state \in States /\ it.favorite \in {"yes", "no"}
         /\ \A patch \in Patch : LET n == [it EXCEPT ![patch.field] = patch.to]
                                 IN n \in Item /\ n.id = it.id /\ n.url = it.url
<1>1. it.id \in Ids /\ it.url \in Url /\ it.state \in States /\ it.favorite \in {"yes", "no"}
  BY DEF Item, Ids
<1>2. ASSUME NEW patch \in Patch
      PROVE  LET n == [it EXCEPT ![patch.field] = patch.to]
             IN n \in Item /\ n.id = it.id /\ n.url = it.url
  BY DEF Item, Patch
<1> QED  BY <1>1, <1>2

LEMMA DetailType ==
  ASSUME TypeInv, NEW i, Saved(i)
  PROVE  GetItemDetail(i) \in Detail
<1>1. shelf[Row(i)] \in Item
  BY RowIs, Shelved
<1>2. content[shelf[Row(i)].url] \in {"none", "ok", "failed"}
  BY <1>1, ItemFields, Shelved
<1> QED  BY <1>1, <1>2 DEF GetItemDetail, Detail

LEMMA Removed ==
  ASSUME NEW S, NEW s \in Seq(S), NEW i \in DOMAIN s
  PROVE  LET r == RemoveAt(s, i)
         IN /\ r \in Seq(S) /\ DOMAIN r = 1..(Len(s)-1)
            /\ \A n \in DOMAIN r : r[n] = s[IF n < i THEN n ELSE n + 1]
            /\ \A n \in DOMAIN s : n # i => \E m \in DOMAIN r : r[m] = s[n]
<1>1. Len(s) \in Nat /\ i \in 1..Len(s) /\ \A n \in 1..Len(s) : s[n] \in S
  BY LenProperties, ElementOfSeq
<1>2. PICK a, b : a = SubSeq(s, 1, i - 1) /\ b = SubSeq(s, i + 1, Len(s))
  OBVIOUS
<1>3. a \in Seq(S) /\ Len(a) = i - 1 /\ \A n \in 1..(i-1) : a[n] = s[n]
  BY <1>1, <1>2, SubSeqProperties
<1>4. b \in Seq(S) /\ Len(b) = Len(s) - i /\ \A n \in 1..(Len(s)-i) : b[n] = s[n+i]
  BY <1>1, <1>2, SubSeqProperties
<1>5. PICK r : r = a \o b
  OBVIOUS
<1>6. /\ r \in Seq(S) /\ Len(r) = Len(a) + Len(b)
      /\ \A n \in 1..Len(a)+Len(b) : r[n] = IF n <= Len(a) THEN a[n] ELSE b[n - Len(a)]
  BY <1>3, <1>4, <1>5, ConcatProperties
<1>7. DOMAIN r = 1..(Len(s)-1) /\ Len(a) + Len(b) = Len(s) - 1
  BY <1>1, <1>3, <1>4, <1>6, LenProperties
<1>8. ASSUME NEW n \in DOMAIN r PROVE r[n] = s[IF n < i THEN n ELSE n + 1]
  <2>1. n \in 1..Len(a)+Len(b) /\ n \in Int /\ i \in Int /\ Len(a) = i - 1
    BY <1>1, <1>3, <1>7, <1>8
  <2>2. CASE n < i
    BY <1>1, <1>3, <1>6, <2>1, <2>2
  <2>3. CASE ~(n < i)
    <3>1. n - Len(a) \in 1..(Len(s)-i) /\ (n - Len(a)) + i = n + 1 /\ ~(n <= Len(a))
      BY <1>1, <1>7, <1>8, <2>1, <2>3
    <3> QED  BY <1>4, <1>6, <2>1, <2>3, <3>1
  <2> QED  BY <2>2, <2>3
<1>9. ASSUME NEW n \in DOMAIN s, n # i PROVE \E m \in DOMAIN r : r[m] = s[n]
  <2>1. PICK m : m = IF n < i THEN n ELSE n - 1
    OBVIOUS
  <2>2. m \in DOMAIN r /\ (IF m < i THEN m ELSE m + 1) = n
    BY <1>1, <1>7, <1>9, <2>1
  <2> QED  BY <1>8, <2>2
<1>10. RemoveAt(s, i) = r
  BY <1>2, <1>5 DEF RemoveAt
<1> QED  BY <1>6, <1>7, <1>8, <1>9, <1>10

\* The mutation that writes is one of three kinds.
LEMMA Kinds ==
  ASSUME TypeInv, NEW k \in Op
  PROVE  \/ op[k] = Unsent
         \/ /\ op[k].kind \in {"update", "delete", "save"} /\ op[k].id \in Ids \union {0}
            /\ op[k].at \in {"sent", "upserted", "answered"}
BY DEF TypeInv, TypeOK

LEMMA UnsentFields == /\ Unsent.kind = "none" /\ Unsent.at = "idle" /\ Unsent.id = 0
                      /\ Unsent.heard = FALSE /\ Unsent.by = "hand"
BY DEF Unsent

ServerOK == LibraryTypeOK /\ ShelfOK

LEMMA SavesContent ==
  ASSUME TypeInv, NEW k \in Op, SaveURL(k)
  PROVE  /\ ServerOK' /\ UNCHANGED <<shelf, issued>>
         /\ \A u \in Url : content[u] # "none" => content'[u] = content[u]
         /\ \E url \in Url : content'[url] # "none" /\ op' = [op EXCEPT ![k].at = "upserted", ![k].url = url]
<1>1. PICK extracted \in BOOLEAN :
        /\ UpsertContent(op[k].url, extracted)
        /\ op' = [op EXCEPT ![k].at = "upserted", ![k].url = SavedAs(op[k].url, extracted)]
  BY DEF SaveURL
<1>2. PICK url : url = SavedAs(op[k].url, extracted)
  OBVIOUS
<1>3. op[k].url \in Url
  BY DEF SaveURL, TypeInv, OpOK
<1>4. url \in Url
  BY <1>2, <1>3, LibraryAssumption DEF SavedAs
<1>5. /\ content' = [content EXCEPT ![url] = IF @ # "none" THEN @ ELSE IF extracted THEN "ok" ELSE "failed"]
      /\ UNCHANGED <<shelf, issued>>
  BY <1>1, <1>2 DEF UpsertContent
<1>6. /\ content' \in [Url -> {"none", "ok", "failed"}] /\ content'[url] # "none"
      /\ \A u \in Url : content[u] # "none" => content'[u] = content[u]
  BY <1>4, <1>5, Shelved
<1>7. LibraryTypeOK'
  BY <1>5, <1>6, Shelved DEF LibraryTypeOK
<1>8. ShelfOK'
  BY <1>5, <1>6, Shelved, ItemFields DEF TypeInv, ShelfOK
<1> QED  BY <1>1, <1>2, <1>4, <1>5, <1>6, <1>7, <1>8 DEF ServerOK

LEMMA WaitingFinite == IsFiniteSet(Waiting) /\ Cardinality(Waiting) \in Nat
<1>1. IsFiniteSet(Op) /\ Waiting \subseteq Op
  BY ClientAssumption DEF Waiting
<1>2. IsFiniteSet(Waiting)
  BY <1>1, FS_Subset
<1> QED  BY <1>2, FS_CardinalityType

LEMMA RoomForOne ==
  ASSUME TypeInv, NEW k \in Waiting
  PROVE  issued + 1 \in Ids /\ issued + 1 \in 0..MaxItem
<1>1. Cardinality(Waiting) \in Nat /\ Cardinality(Waiting) # 0
  BY WaitingFinite, FS_EmptySet
<1>2. budget.saves \in Nat /\ MaxItem \in Nat
  BY LibraryAssumption DEF TypeInv, TypeOK
<1>3. issued + Cardinality(Waiting) + budget.saves <= MaxItem
  BY DEF TypeInv
<1> QED  BY <1>1, <1>2, <1>3, Shelved DEF Ids

LEMMA Updated ==
  ASSUME TypeInv, NEW i, NEW patch \in Patch, UpdateItem(i, patch)
  PROVE  /\ ServerOK' /\ UNCHANGED <<content, issued>> /\ DOMAIN shelf' = DOMAIN shelf
         /\ \A n \in DOMAIN shelf : shelf'[n].id = shelf[n].id /\ (shelf[n].id # i => shelf'[n] = shelf[n])
         /\ ~Saved(i) => shelf' = shelf
<1>1. UNCHANGED <<content, issued>> /\ (~Saved(i) => shelf' = shelf)
  BY DEF UpdateItem
<1>2. /\ shelf' \in Seq(Item) /\ DOMAIN shelf' = DOMAIN shelf
      /\ \A n \in DOMAIN shelf : /\ shelf'[n].id = shelf[n].id /\ shelf'[n].url = shelf[n].url
                                 /\ shelf[n].id # i => shelf'[n] = shelf[n]
  <2>1. CASE ~Saved(i)
    BY <1>1, <2>1, Shelved
  <2>2. CASE Saved(i)
    <3>1. PICK r : r = Row(i)
      OBVIOUS
    <3>2. r \in DOMAIN shelf /\ shelf[r].id = i
      BY <2>2, <3>1, RowIs
    <3>3. PICK it : it = [shelf[r] EXCEPT ![patch.field] = patch.to]
      OBVIOUS
    <3>4. it \in Item /\ it.id = i /\ it.url = shelf[r].url
      BY <3>2, <3>3, Shelved, ItemFields
    <3>5. shelf' = [shelf EXCEPT ![r] = it]
      BY <2>2, <3>1, <3>3 DEF UpdateItem
    <3>6. shelf' \in Seq(Item)
      BY <3>2, <3>4, <3>5, Shelved, ExceptSeq
    <3> QED  BY <3>2, <3>4, <3>5, <3>6, Shelved
  <2> QED  BY <2>1, <2>2
<1>3. LibraryTypeOK'
  BY <1>1, <1>2, Shelved DEF LibraryTypeOK
<1>4. ShelfOK'
  BY <1>1, <1>2 DEF TypeInv, ShelfOK
<1> QED  BY <1>1, <1>2, <1>3, <1>4 DEF ServerOK

LEMMA ServerRests ==
  ASSUME TypeInv, UNCHANGED libraryVars
  PROVE  ServerOK'
<1>1. LibraryTypeOK /\ ShelfOK
  BY DEF TypeInv, TypeOK
<1>2. UNCHANGED <<shelf, content, issued>>
  BY DEF libraryVars
<1> QED  BY <1>1, <1>2 DEF LibraryTypeOK, ShelfOK, ServerOK

LEMMA Deleted ==
  ASSUME TypeInv, NEW i, DeleteItem(i)
  PROVE  /\ ServerOK' /\ UNCHANGED <<content, issued>>
         /\ \A m \in DOMAIN shelf' : \E n \in DOMAIN shelf : shelf'[m] = shelf[n]
         /\ \A n \in DOMAIN shelf : shelf[n].id # i => \E m \in DOMAIN shelf' : shelf'[m] = shelf[n]
         /\ ~Saved(i) => shelf' = shelf
<1>1. UNCHANGED <<content, issued>> /\ (~Saved(i) => shelf' = shelf)
  BY DEF DeleteItem
<1>2. CASE ~Saved(i)
  <2>1. ServerOK'
    BY <1>1, <1>2, ServerRests DEF libraryVars
  <2> QED  BY <1>1, <1>2, <2>1
<1>3. CASE Saved(i)
  <2>1. PICK r : r = Row(i)
    OBVIOUS
  <2>2. r \in DOMAIN shelf /\ shelf[r].id = i /\ shelf' = RemoveAt(shelf, r)
    BY <1>3, <2>1, RowIs DEF DeleteItem
  <2>3. /\ shelf' \in Seq(Item) /\ DOMAIN shelf' = 1..(Len(shelf)-1)
        /\ \A n \in DOMAIN shelf' : shelf'[n] = shelf[IF n < r THEN n ELSE n + 1]
        /\ \A n \in DOMAIN shelf : n # r => \E m \in DOMAIN shelf' : shelf'[m] = shelf[n]
    BY <2>2, Shelved, Removed
  <2>4. \A m \in DOMAIN shelf' : (IF m < r THEN m ELSE m + 1) \in DOMAIN shelf
    BY <2>2, <2>3, Shelved
  <2>5. \A m \in DOMAIN shelf' : \E n \in DOMAIN shelf : shelf'[m] = shelf[n]
    BY <2>3, <2>4
  <2>6. LibraryTypeOK'
    BY <1>1, <2>3, Shelved DEF LibraryTypeOK
  <2>7. \A m, n \in DOMAIN shelf' : shelf'[m].id = shelf'[n].id => m = n
    <3> SUFFICES ASSUME NEW m \in DOMAIN shelf', NEW n \in DOMAIN shelf', shelf'[m].id = shelf'[n].id
                 PROVE  m = n
      OBVIOUS
    <3>1. (IF m < r THEN m ELSE m + 1) = (IF n < r THEN n ELSE n + 1)
      BY <2>3, <2>4 DEF TypeInv, ShelfOK
    <3>2. m \in Int /\ n \in Int /\ r \in Int
      BY <2>2, <2>3, Shelved
    <3> QED  BY <3>1, <3>2
  <2>8. ShelfOK'
    BY <1>1, <2>5, <2>7 DEF TypeInv, ShelfOK
  <2> QED  BY <1>1, <1>3, <2>2, <2>3, <2>5, <2>6, <2>8 DEF ServerOK
<1> QED  BY <1>2, <1>3

LEMMA Created ==
  ASSUME TypeInv, NEW k \in Waiting, CreateItem(op[k].url), op[k].at = "upserted"
  PROVE  /\ ServerOK' /\ UNCHANGED content
         /\ (issued' = issued /\ shelf' = shelf) \/ issued' = issued + 1
         /\ AlreadySaved(op[k].url) => shelf' = shelf
<1>1. op[k].url \in Url /\ content[op[k].url] # "none" /\ UNCHANGED content
  BY DEF TypeInv, OpOK, Waiting, CreateItem
<1>2. CASE AlreadySaved(op[k].url)
  <2>1. UNCHANGED <<shelf, issued>>
    BY <1>2 DEF CreateItem
  <2> QED  BY <1>1, <1>2, <2>1, ServerRests DEF libraryVars
<1>3. CASE ~AlreadySaved(op[k].url)
  <2>1. PICK it : it = [id |-> issued + 1, url |-> op[k].url, state |-> "unread", favorite |-> "no"]
    OBVIOUS
  <2>2. it \in Item /\ it.id = issued + 1 /\ it.url = op[k].url
    BY <1>1, <2>1, RoomForOne DEF Item, Ids, States
  <2>3. shelf' = <<it>> \o shelf /\ issued' = issued + 1
    BY <1>3, <2>1 DEF CreateItem
  <2>4. <<it>> \in Seq(Item) /\ Len(<<it>>) = 1 /\ <<it>>[1] = it
    BY <2>2
  <2>5. PICK first : first = <<it>>
    OBVIOUS
  <2>6. /\ shelf' \in Seq(Item) /\ Len(shelf') = 1 + Len(shelf)
        /\ \A n \in 1..(1+Len(shelf)) : shelf'[n] = IF n <= 1 THEN it ELSE shelf[n-1]
    <3>1. /\ first \o shelf \in Seq(Item) /\ Len(first \o shelf) = Len(first) + Len(shelf)
          /\ \A n \in 1..Len(first)+Len(shelf) :
               (first \o shelf)[n] = IF n <= Len(first) THEN first[n] ELSE shelf[n - Len(first)]
      BY <2>4, <2>5, Shelved, ConcatProperties
    <3> QED  BY <2>3, <2>4, <2>5, <3>1, Shelved
  <2>7. DOMAIN shelf' = 1..(1+Len(shelf))
    BY <2>6, LenProperties
  <2>8. LibraryTypeOK'
    BY <1>1, <2>3, <2>6, Shelved, RoomForOne DEF LibraryTypeOK
  <2>9. \A n \in DOMAIN shelf' : n # 1 => n - 1 \in DOMAIN shelf /\ shelf'[n] = shelf[n-1]
    BY <2>6, <2>7, Shelved
  <2>10. 1 \in DOMAIN shelf' /\ shelf'[1] = it
    BY <2>6, <2>7, Shelved
  <2>11. \A n \in DOMAIN shelf' : IF n = 1 THEN shelf'[n].id = issued + 1 ELSE shelf'[n].id <= issued
    BY <2>2, <2>9, <2>10 DEF TypeInv, ShelfOK
  <2>12. \A m, n \in DOMAIN shelf' : shelf'[m].id = shelf'[n].id => m = n
    <3> SUFFICES ASSUME NEW m \in DOMAIN shelf', NEW n \in DOMAIN shelf', shelf'[m].id = shelf'[n].id
                 PROVE  m = n
      OBVIOUS
    <3>1. m = 1 <=> n = 1
      BY <2>11, Shelved
    <3>2. m # 1 /\ n # 1 => m - 1 = n - 1
      BY <2>9 DEF TypeInv, ShelfOK
    <3>3. m \in Int /\ n \in Int
      BY <2>7
    <3> QED  BY <3>1, <3>2, <3>3
  <2>13. \A n \in DOMAIN shelf' : shelf'[n].id <= issued' /\ content'[shelf'[n].url] # "none"
    <3> SUFFICES ASSUME NEW n \in DOMAIN shelf'
                 PROVE  shelf'[n].id <= issued' /\ content'[shelf'[n].url] # "none"
      OBVIOUS
    <3>1. CASE n = 1
      BY <1>1, <2>2, <2>3, <2>10, <3>1, Shelved
    <3>2. CASE n # 1
      <4>1. n - 1 \in DOMAIN shelf /\ shelf'[n] = shelf[n-1]
        BY <2>9, <3>2
      <4>2. shelf[n-1].id <= issued /\ shelf[n-1].id \in Nat /\ content[shelf[n-1].url] # "none"
        BY <4>1, Shelved, ItemFields DEF TypeInv, ShelfOK, Ids
      <4> QED  BY <1>1, <2>3, <4>1, <4>2, Shelved
    <3> QED  BY <3>1, <3>2
  <2> QED  BY <1>1, <1>3, <2>3, <2>8, <2>12, <2>13 DEF ServerOK, ShelfOK
<1> QED  BY <1>2, <1>3

LEMMA Handled ==
  ASSUME TypeInv, NEW k \in Op, Handle(k)
  PROVE  /\ ServerOK' /\ UNCHANGED content
         /\ op[k].kind = "update" => /\ op[k].patch \in Patch /\ UpdateItem(op[k].id, op[k].patch)
                                     /\ UNCHANGED issued
         /\ op[k].kind = "delete" => DeleteItem(op[k].id) /\ UNCHANGED issued
         /\ op[k].kind \notin {"update", "delete"} =>
              /\ k \in Waiting /\ op[k].at = "upserted" /\ op[k].kind = "save" /\ CreateItem(op[k].url)
              /\ issued' = issued \/ issued' = issued + 1
<1>1. Write(k) /\ Writes(k)
  BY DEF Handle
<1>2. op[k] # Unsent
  BY <1>1, UnsentFields DEF Writes
<1>3. CASE op[k].kind = "update"
  <2>1. op[k].patch \in Patch /\ UpdateItem(op[k].id, op[k].patch)
    BY <1>1, <1>3 DEF Write, TypeInv, OpOK
  <2> QED  BY <1>3, <2>1, Updated
<1>4. CASE op[k].kind = "delete"
  <2>1. DeleteItem(op[k].id)
    BY <1>1, <1>4 DEF Write
  <2> QED  BY <1>4, <2>1, Deleted
<1>5. CASE op[k].kind = "save"
  <2>1. CreateItem(op[k].url) /\ op[k].at = "upserted"
    BY <1>1, <1>5 DEF Write, Writes
  <2>2. k \in Waiting
    BY <1>5, <2>1 DEF Waiting
  <2> QED  BY <1>5, <2>1, <2>2, Created
<1> QED  BY <1>2, <1>3, <1>4, <1>5, Kinds

-----------------------------------------------------------------------------
(* What is on screen.                                                      *)

LEMMA Listed_Entries ==
  ASSUME TypeInv
  PROVE  /\ lists = [f \in Filter |-> lists[f]] /\ details = [i \in Ids |-> details[i]]
         /\ \A f \in Filter : lists[f] \in Entries(Page(Item)) /\ Paged(lists[f])
         /\ \A i \in Ids : details[i] \in Entries(Page(Detail)) /\ SinglePage(details[i])
BY DEF TypeInv, TypeOK

LEMMA PageFieldTypes ==
  ASSUME TypeInv
  PROVE  /\ page.at \in {"list", "reader"} /\ page.filter \in Filter /\ page.id \in Ids \union {0}
         /\ page.held \in Seq(Page(Item)) /\ page.confirm \in Ids \union {0}
         /\ page.at = "reader" => page.id \in Ids
BY DEF TypeInv, TypeOK

LEMMA PagesType ==
  ASSUME TypeInv, NEW f \in Filter
  PROVE  Pages(f) \in Seq(Page(Item)) /\ Rows(Pages(f)) \in Seq(Item)
<1>1. Pages(f) \in Seq(Page(Item))
  BY Listed_Entries, EntryFields, PageFieldTypes DEF Pages
<1> QED  BY <1>1, RowsType

LEMMA DetailShown ==
  ASSUME TypeInv, NEW i \in Ids, HasData(details[i])
  PROVE  Only(details[i]) \in Detail
<1>1. details[i].data \in Seq(Page(Detail)) /\ details[i].data # <<>> /\ IsSingle(details[i].data)
  BY Listed_Entries, EntryFields DEF SinglePage, HasData
<1> QED  BY <1>1, SingleType DEF Only

LEMMA ShownItems ==
  ASSUME TypeInv
  PROVE  Shown \subseteq Item
<1>1. CASE page.at = "list" /\ LibraryGrid(page.filter) = "list"
  <2>1. Rows(Pages(page.filter)) \in Seq(Item)
    BY PageFieldTypes, PagesType
  <2>2. PICK rows \in Seq(Item) : rows = Rows(Pages(page.filter))
    BY <2>1
  <2>3. ToSet(rows) \subseteq Item
    BY ElementOfSeq DEF ToSet
  <2> QED  BY <1>1, <2>2, <2>3 DEF Shown
<1>2. CASE page.at = "reader" /\ HasData(details[page.id]) /\ LibraryItemRoute(page.id) = "article"
  <2>1. page.id \in Ids
    BY <1>2, PageFieldTypes
  <2>2. Only(details[page.id]) \in Detail
    BY <1>2, <2>1, DetailShown
  <2>3. Only(details[page.id]).item \in Item
    BY <2>2 DEF Detail
  <2> QED  BY <1>2, <2>3 DEF Shown
<1>3. CASE /\ ~(page.at = "list" /\ LibraryGrid(page.filter) = "list")
           /\ ~(page.at = "reader" /\ HasData(details[page.id]) /\ LibraryItemRoute(page.id) = "article")
  BY <1>3 DEF Shown
<1> QED  BY <1>1, <1>2, <1>3

-----------------------------------------------------------------------------
(* The mutations.                                                          *)

Flights ==
  [kind : {"update", "delete", "save"}, id : Ids \union {0}, patch : {Unsent.patch} \union Patch,
   url : {""} \union Url, by : {"hand", "scroll"}, back : [Filter -> Seq(Page(Item))],
   at : {"sent", "upserted", "answered"},
   result : {"", "ok", "notFound", "conflict", "failed"}, heard : BOOLEAN]
Ops == {Unsent} \union Flights
BudgetType == [changes : Nat, saves : Nat, visits : Nat, failures : Nat, busy : Nat]

LEMMA OpsTyped ==
  ASSUME TypeInv
  PROVE  /\ op = [k \in Op |-> op[k]] /\ \A k \in Op : op[k] \in Ops /\ OpOK(op[k])
         /\ budget \in BudgetType
BY DEF TypeInv, TypeOK, Ops, Flights, BudgetType

LEMMA Spends ==
  ASSUME TypeInv, NEW what \in {"changes", "saves", "visits", "failures", "busy"}, Spend(what)
  PROVE  /\ budget' \in BudgetType
         /\ what # "saves" => budget'.saves = budget.saves
         /\ what = "saves" => budget'.saves = budget.saves - 1
<1>1. budget \in BudgetType /\ budget[what] \in Nat /\ budget[what] - 1 \in Nat
  BY OpsTyped DEF Spend, BudgetType
<1>2. PICK n \in Nat : n = budget[what] - 1
  BY <1>1
<1>3. budget' = [budget EXCEPT ![what] = n]
  BY <1>2 DEF Spend
<1> QED  BY <1>1, <1>2, <1>3 DEF BudgetType

OpsOK == /\ op = [k \in Op |-> op[k]]
         /\ \A k \in Op : op[k] \in Ops /\ OpOK(op[k])
Room == issued + Cardinality(Waiting) + budget.saves <= MaxItem

\* Contents do not go away.
ContentStays == \A u \in Url : content[u] # "none" => content'[u] # "none"

LEMMA RoomKept ==
  ASSUME TypeInv, Waiting' \subseteq Waiting, issued' = issued, budget' \in BudgetType,
         budget'.saves <= budget.saves
  PROVE  Room'
<1>1. Cardinality(Waiting') \in Nat /\ Cardinality(Waiting') <= Cardinality(Waiting)
  BY WaitingFinite, FS_Subset, FS_CardinalityType
<1>2. issued \in Nat /\ Cardinality(Waiting) \in Nat /\ budget.saves \in Nat /\ budget'.saves \in Nat /\ MaxItem \in Nat
  BY Shelved, WaitingFinite, OpsTyped, LibraryAssumption DEF BudgetType
<1>3. issued + Cardinality(Waiting) + budget.saves <= MaxItem
  BY DEF TypeInv
<1> QED  BY <1>1, <1>2, <1>3 DEF Room

LEMMA OpChanges ==
  ASSUME TypeInv, ContentStays, NEW k \in Op, NEW o \in Ops, OpOK(o)', op' = [op EXCEPT ![k] = o]
  PROVE  /\ OpsOK'
         /\ ~(o.kind = "save" /\ o.at \in {"sent", "upserted"}) => Waiting' \subseteq Waiting \ {k}
         /\ Waiting' \subseteq Waiting \union {k}
<1>1. op' = [n \in Op |-> IF n = k THEN o ELSE op[n]]
  BY OpsTyped
<1>2. \A n \in Op : OpOK(op[n]) => OpOK(op[n])'  \/ n = k
  BY <1>1 DEF OpOK, ContentStays
<1>3. OpsOK'
  BY <1>1, <1>2, OpsTyped DEF OpsOK
<1> QED  BY <1>1, <1>3 DEF Waiting

LEMMA UnsentAgain == [Unsent EXCEPT !.heard = FALSE] = Unsent
<1>1. PICK u : u = Unsent
  OBVIOUS
<1>2. u = [f \in DOMAIN u |-> u[f]] /\ u.heard = FALSE
  BY <1>1 DEF Unsent
<1>3. [u EXCEPT !.heard = FALSE] = [f \in DOMAIN u |-> u[f]]
  BY <1>2
<1> QED  BY <1>1, <1>2, <1>3

\* Some mutations are no longer heard, some have settled.
LEMMA OpsEnd ==
  ASSUME TypeInv, ContentStays, op' = [k \in Op |-> op'[k]],
         \A k \in Op : op'[k] \in {op[k], [op[k] EXCEPT !.heard = FALSE], Unsent}
  PROVE  OpsOK' /\ Waiting' \subseteq Waiting
<1>1. ASSUME NEW k \in Op
      PROVE  /\ op'[k] \in Ops /\ OpOK(op[k])'
             /\ op'[k] = Unsent \/ (op'[k].kind = op[k].kind /\ op'[k].at = op[k].at)
  <2>1. op[k] \in Ops /\ OpOK(op[k])
    BY OpsTyped
  <2>2. CASE op'[k] = op[k]
    BY <2>1, <2>2 DEF OpOK, ContentStays
  <2>3. CASE op'[k] = Unsent
    BY <2>3, UnsentFields DEF OpOK, Ops
  <2>4. CASE op[k] # Unsent /\ op'[k] = [op[k] EXCEPT !.heard = FALSE]
    <3>1. PICK o : o = op[k]
      OBVIOUS
    <3>2. o \in Flights
      BY <2>1, <2>4, <3>1 DEF Ops
    <3>3. PICK n : n = [o EXCEPT !.heard = FALSE]
      OBVIOUS
    <3>4. n \in Flights /\ n.kind = o.kind /\ n.at = o.at /\ n.url = o.url /\ n.patch = o.patch
      BY <3>2, <3>3 DEF Flights
    <3> QED  BY <2>1, <2>4, <3>1, <3>3, <3>4 DEF OpOK, ContentStays, Ops
  <2>5. CASE op[k] = Unsent /\ op'[k] = [op[k] EXCEPT !.heard = FALSE]
    <3>2. [Unsent EXCEPT !.heard = FALSE] = Unsent
      BY UnsentAgain
    <3>1. op'[k] = Unsent
      BY <2>5, <3>2
    <3> QED  BY <3>1, UnsentFields DEF OpOK, Ops
  <2> QED  BY <2>2, <2>3, <2>4, <2>5
<1>2. OpsOK'
  BY <1>1 DEF OpsOK
<1>3. Waiting' \subseteq Waiting
  BY <1>1, UnsentFields DEF Waiting
<1> QED  BY <1>2, <1>3

\* A change that starts.
Hands == {"hand", "scroll"}
ScreenIds == Ids \union {0}
Backs == [Filter -> Seq(Page(Item))]

LEMMA UpdateIs ==
  ASSUME NEW i \in ScreenIds, NEW patch \in Patch, NEW by \in Hands,
         NEW back \in Backs
  PROVE  LET o == updateItem(i, patch, by, back)
         IN o \in Flights /\ o.kind = "update" /\ o.id = i /\ o.patch = patch /\ o.at = "sent" /\ o.back = back
<1>1. PICK o : o = updateItem(i, patch, by, back)
  OBVIOUS
<1>2. o = [kind |-> "update", id |-> i, patch |-> patch, url |-> "", by |-> by, back |-> back,
           at |-> "sent", result |-> "", heard |-> FALSE]
  BY <1>1 DEF updateItem, Unsent
<1>3. o \in Flights
  BY <1>2 DEF Flights, Hands, ScreenIds, Backs
<1>4. o.kind = "update" /\ o.id = i /\ o.patch = patch /\ o.at = "sent" /\ o.back = back
  BY <1>2
<1> QED  BY <1>1, <1>3, <1>4

LEMMA BlankBack == Unsent.back \in [Filter -> Seq(Page(Item))]
BY DEF Unsent

LEMMA DeleteIs ==
  ASSUME NEW i \in Ids \union {0}
  PROVE  LET o == deleteItem(i) IN o \in Flights /\ o.kind = "delete" /\ o.id = i /\ o.at = "sent"
<1>1. PICK o : o = deleteItem(i)
  OBVIOUS
<1>2. o = [kind |-> "delete", id |-> i, patch |-> Unsent.patch, url |-> "", by |-> "hand", back |-> Unsent.back,
           at |-> "sent", result |-> "", heard |-> TRUE]
  BY <1>1 DEF deleteItem, Unsent
<1>3. o \in Flights
  BY <1>2, BlankBack DEF Flights
<1>4. o.kind = "delete" /\ o.id = i /\ o.at = "sent"
  BY <1>2
<1> QED  BY <1>1, <1>3, <1>4

LEMMA SaveIs ==
  ASSUME NEW url \in Url
  PROVE  LET o == saveLink(url) IN o \in Flights /\ o.kind = "save" /\ o.url = url /\ o.at = "sent"
<1>1. PICK o : o = saveLink(url)
  OBVIOUS
<1>2. o = [kind |-> "save", id |-> 0, patch |-> Unsent.patch, url |-> url, by |-> "hand", back |-> Unsent.back,
           at |-> "sent", result |-> "", heard |-> TRUE]
  BY <1>1 DEF saveLink, Unsent
<1>3. o \in Flights
  BY <1>2, BlankBack DEF Flights
<1>4. o.kind = "save" /\ o.url = url /\ o.at = "sent"
  BY <1>2
<1> QED  BY <1>1, <1>3, <1>4

LEMMA AnsweredIs ==
  ASSUME TypeInv, NEW k \in Op, op[k] # Unsent, NEW result \in {"ok", "notFound", "conflict", "failed"},
         Answers(k, result)
  PROVE  \E o \in Flights : /\ op' = [op EXCEPT ![k] = o] /\ o.at = "answered" /\ o.result = result
                            /\ o.kind = op[k].kind /\ o.id = op[k].id /\ o.url = op[k].url
                            /\ o.patch = op[k].patch
<1>1. op[k] \in Flights
  BY OpsTyped DEF Ops
<1>2. PICK o : o = [op[k] EXCEPT !.at = "answered", !.result = result]
  OBVIOUS
<1>3. /\ o \in Flights /\ o.at = "answered" /\ o.result = result /\ o.kind = op[k].kind
      /\ o.id = op[k].id /\ o.url = op[k].url /\ o.patch = op[k].patch
  BY <1>1, <1>2 DEF Flights
<1>4. op' = [op EXCEPT ![k] = o]
  BY <1>2, OpsTyped DEF Answers
<1> QED  BY <1>3, <1>4

\* What each step does to the mutations, and what is left of the room.
OpStep == OpsOK' /\ Room' /\ budget' \in BudgetType

LEMMA EndsStep ==
  ASSUME TypeInv, ContentStays, op' = [k \in Op |-> op'[k]], issued' = issued,
         \A k \in Op : op'[k] \in {op[k], [op[k] EXCEPT !.heard = FALSE], Unsent},
         budget' \in BudgetType, budget'.saves <= budget.saves
  PROVE  OpStep
BY OpsEnd, RoomKept DEF OpStep

LEMMA NewStep ==
  ASSUME TypeInv, ContentStays, issued' = issued, NEW k \in Op, NEW o \in Flights, op' = [op EXCEPT ![k] = o],
         OpOK(o)', o.kind # "save" \/ o.at = "answered",
         budget' \in BudgetType, budget'.saves <= budget.saves
  PROVE  OpStep
<1>1. o \in Ops
  BY DEF Ops
<1>2. OpsOK' /\ Waiting' \subseteq Waiting
  BY <1>1, OpChanges
<1> QED  BY <1>2, RoomKept DEF OpStep

\* Only two handlers touch the library.
LEMMA Elsewhere ==
  ASSUME Next
  PROVE  UNCHANGED libraryVars \/ \E k \in Op : SaveURL(k) \/ Handle(k)
BY DEF Next, LibraryUser, LibraryQueries, LibraryMutations, LibraryListRoute, LoadMore, OpenReader, Retry,
   LibraryCardMenu, ReaderActions, useItemActions, DeleteConfirm, Scroll, OpenDialog, CloseDialog,
   AddLinkForm, ReadList, LandList, ReadDetail, LandDetail, Rebuild, useMarkReadOnScroll, Drop,
   UpdateSettled, useDeleteItem, useSaveLink

LEMMA ServerStays ==
  ASSUME TypeInv, UNCHANGED libraryVars
  PROVE  ServerOK' /\ ContentStays
BY ServerRests DEF ContentStays, libraryVars

LEMMA ServerStep ==
  ASSUME TypeInv, Next
  PROVE  ServerOK' /\ ContentStays
<1>1. CASE UNCHANGED libraryVars
  BY <1>1, ServerStays
<1>2. CASE \E k \in Op : SaveURL(k)
  BY <1>2, SavesContent DEF ContentStays
<1>3. CASE \E k \in Op : Handle(k)
  BY <1>3, Handled DEF ContentStays
<1> QED  BY <1>1, <1>2, <1>3, Elsewhere

LEMMA UpdateStarts ==
  ASSUME TypeInv, UNCHANGED libraryVars, NEW i \in Ids \union {0}, NEW patch \in Patch,
         NEW by \in {"hand", "scroll"}, useUpdateItem(i, patch, by)
  PROVE  /\ OpStep
         /\ \E k \in Op : \E o \in Flights : /\ op[k].at = "idle" /\ op' = [op EXCEPT ![k] = o]
                                             /\ o.kind = "update" /\ o.id = i
<1>1. PICK k \in Free :
        op' = [op EXCEPT ![k] = updateItem(i, patch, by, [f \in Filter |-> lists[f].data])]
  BY DEF useUpdateItem
<1>2. PICK back \in [Filter -> Seq(Page(Item))] : back = [f \in Filter |-> lists[f].data]
  BY Listed_Entries, EntryFields
<1>3. PICK o : o = updateItem(i, patch, by, back)
  OBVIOUS
<1>4. o \in Flights /\ o.kind = "update" /\ o.id = i /\ o.patch = patch
  <2>1. i \in ScreenIds /\ by \in Hands /\ back \in Backs
    BY <1>2 DEF ScreenIds, Hands, Backs
  <2> QED  BY <1>3, <2>1, UpdateIs
<1>5. op' = [op EXCEPT ![k] = o]
  BY <1>1, <1>2, <1>3
<1>6. k \in Op /\ op[k].at = "idle"
  <2>1. k \in Op /\ ~(op[k].at \in {"sent", "upserted", "answered"})
    BY DEF Free, InFlight
  <2> QED  BY <2>1, Kinds, UnsentFields
<1>7. budget' \in BudgetType /\ budget'.saves = budget.saves
  BY Spends DEF useUpdateItem
<1>8. OpOK(o)'
  BY <1>4 DEF OpOK
<1>9. OpStep
  <2>1. budget'.saves <= budget.saves /\ issued' = issued
    BY <1>7, OpsTyped DEF BudgetType, libraryVars
  <2> QED  BY <1>4, <1>5, <1>6, <1>7, <1>8, <2>1, NewStep, ServerStays
<1> QED  BY <1>4, <1>5, <1>6, <1>9

LEMMA BudgetStays ==
  ASSUME TypeInv
  PROVE  /\ UNCHANGED budget => budget' \in BudgetType /\ budget'.saves <= budget.saves
         /\ \A what \in {"changes", "visits", "failures"} :
              Spend(what) => budget' \in BudgetType /\ budget'.saves <= budget.saves
<1>1. budget.saves \in Nat /\ budget \in BudgetType
  BY OpsTyped DEF BudgetType
<1>2. ASSUME NEW what \in {"changes", "visits", "failures"}, Spend(what)
      PROVE  budget' \in BudgetType /\ budget'.saves = budget.saves
  BY <1>2, Spends
<1> QED  BY <1>1, <1>2

LEMMA ActsOps ==
  ASSUME TypeInv, NEW it \in Item, useItemActions(it)
  PROVE  /\ OpStep
         /\ UNCHANGED op \/ \E patch \in Patch : useUpdateItem(it.id, patch, "hand")
<1>1. UNCHANGED libraryVars /\ it.id \in Ids \union {0}
  BY ItemFields DEF useItemActions
<1>2. CASE RequestDelete(it)
  <2>1. UNCHANGED <<op, budget>> /\ issued' = issued
    BY <1>1, <1>2 DEF RequestDelete, libraryVars
  <2> QED  BY <1>1, <2>1, EndsStep, OpsTyped, BudgetStays, ServerStays
<1>3. CASE ~RequestDelete(it)
  <2>1. \E patch \in Patch : useUpdateItem(it.id, patch, "hand")
    <3>1. ToggleRead(it) \/ ToggleArchive(it) \/ ToggleFavorite(it)
      BY <1>3 DEF useItemActions
    <3>2. \A to \in States : SetState(it.id, to) => \E patch \in Patch : useUpdateItem(it.id, patch, "hand")
      BY DEF SetState, Patch
    <3>3. CASE ToggleRead(it)
      BY <3>2, <3>3 DEF ToggleRead, States
    <3>4. CASE ToggleArchive(it)
      BY <3>2, <3>4 DEF ToggleArchive, States
    <3>5. CASE ToggleFavorite(it)
      BY <3>5 DEF ToggleFavorite, Patch
    <3> QED  BY <3>1, <3>3, <3>4, <3>5
  <2> QED  BY <1>1, <2>1, UpdateStarts
<1> QED  BY <1>2, <1>3

LEMMA ScrollOps ==
  ASSUME TypeInv, useMarkReadOnScroll
  PROVE  /\ OpStep
         /\ \E i \in Ids, patch \in Patch : useUpdateItem(i, patch, "scroll")
<1>1. UNCHANGED libraryVars /\ page.id \in Ids
  BY PageFieldTypes DEF useMarkReadOnScroll
<1>2. PICK patch \in Patch : useUpdateItem(page.id, patch, "scroll")
  BY DEF useMarkReadOnScroll, Patch, States
<1> QED  BY <1>1, <1>2, UpdateStarts

LEMMA HeardOps ==
  ASSUME TypeInv
  PROVE  /\ Unheard = [k \in Op |-> Unheard[k]] /\ FormGone = [k \in Op |-> FormGone[k]]
         /\ \A k \in Op : /\ Unheard[k] \in {op[k], [op[k] EXCEPT !.heard = FALSE], Unsent}
                          /\ FormGone[k] \in {op[k], [op[k] EXCEPT !.heard = FALSE], Unsent}
BY DEF Unheard, FormGone

LEMMA UserOps ==
  ASSUME TypeInv, LibraryUser
  PROVE  OpStep
<1>1. CASE (\E f \in Filter : LibraryListRoute(f)) \/ \E i \in Ids : OpenReader(i)
  <2>1. (op' = Unheard \/ op' = op) /\ Spend("visits") /\ UNCHANGED libraryVars
    BY <1>1 DEF LibraryListRoute, OpenReader
  <2>2. op' = [k \in Op |-> op'[k]] /\ \A k \in Op : op'[k] \in {op[k], [op[k] EXCEPT !.heard = FALSE], Unsent}
    BY <2>1, HeardOps, OpsTyped
  <2> QED  BY <2>1, <2>2, EndsStep, BudgetStays, ServerStays DEF libraryVars
<1>2. CASE \/ \E f \in Filter : LoadMore(f)
           \/ Retry \/ Scroll \/ OpenDialog
  <2>1. UNCHANGED <<op, budget>> /\ UNCHANGED libraryVars
    BY <1>2 DEF LoadMore, Retry, Scroll, OpenDialog
  <2> QED  BY <2>1, EndsStep, OpsTyped, BudgetStays, ServerStays DEF libraryVars
<1>3. CASE LibraryCardMenu \/ ReaderActions
  BY <1>3, ActsOps, ShownItems DEF LibraryCardMenu, ReaderActions
<1>4. CASE DeleteConfirm
  <2>1. UNCHANGED libraryVars
    BY <1>4 DEF DeleteConfirm
  <2>2. CASE UNCHANGED <<op, budget>>
    BY <2>1, <2>2, EndsStep, OpsTyped, BudgetStays, ServerStays DEF libraryVars
  <2>3. CASE Spend("changes") /\ \E k \in Free : op' = [op EXCEPT ![k] = deleteItem(page.confirm)]
    <3>1. PICK k \in Op : op' = [op EXCEPT ![k] = deleteItem(page.confirm)]
      BY <2>3 DEF Free
    <3>2. PICK o : o = deleteItem(page.confirm)
      OBVIOUS
    <3>3. o \in Flights /\ o.kind = "delete"
      BY <3>2, DeleteIs, PageFieldTypes
    <3>4. OpOK(o)'
      BY <3>3 DEF OpOK
    <3> QED  BY <2>1, <2>3, <3>1, <3>2, <3>3, <3>4, NewStep, BudgetStays, ServerStays DEF libraryVars
  <2> QED  BY <1>4, <2>2, <2>3 DEF DeleteConfirm
<1>5. CASE CloseDialog
  <2>1. op' = FormGone /\ UNCHANGED budget /\ UNCHANGED libraryVars
    BY <1>5 DEF CloseDialog
  <2>2. op' = [k \in Op |-> op'[k]] /\ \A k \in Op : op'[k] \in {op[k], [op[k] EXCEPT !.heard = FALSE], Unsent}
    BY <2>1, HeardOps
  <2> QED  BY <2>1, <2>2, EndsStep, BudgetStays, ServerStays DEF libraryVars
<1>6. CASE \E url \in Typed : AddLinkForm(url)
  <2>1. PICK url \in Url : AddLinkForm(url)
    BY <1>6, ClientAssumption
  <2>2. PICK k \in Op : op' = [op EXCEPT ![k] = saveLink(url)]
    BY <2>1 DEF AddLinkForm, Free
  <2>3. PICK o : o = saveLink(url)
    OBVIOUS
  <2>4. o \in Flights /\ o \in Ops /\ o.kind = "save" /\ o.url = url /\ o.at = "sent"
    BY <2>3, SaveIs DEF Ops
  <2>5. OpOK(o)'
    BY <2>4 DEF OpOK
  <2>6. UNCHANGED libraryVars /\ ContentStays /\ Spend("saves")
    BY <2>1, ServerStays DEF AddLinkForm
  <2>7. OpsOK' /\ Waiting' \subseteq Waiting \union {k}
    BY <2>2, <2>3, <2>4, <2>5, <2>6, OpChanges
  <2>8. budget' \in BudgetType /\ budget'.saves = budget.saves - 1
    BY <2>6, Spends
  <2>9. Room'
    <3>1. IsFiniteSet(Waiting \union {k}) /\ Cardinality(Waiting \union {k}) <= Cardinality(Waiting) + 1
      <4>1. /\ IsFiniteSet(Waiting \union {k}) /\ Cardinality(Waiting) \in Nat
            /\ Cardinality(Waiting \union {k}) = IF k \in Waiting THEN Cardinality(Waiting)
                                                                ELSE Cardinality(Waiting) + 1
        BY WaitingFinite, FS_AddElement
      <4> QED  BY <4>1
    <3>2. Cardinality(Waiting') \in Nat /\ Cardinality(Waiting') <= Cardinality(Waiting \union {k})
      BY <2>7, <3>1, FS_Subset, FS_CardinalityType
    <3>3. Cardinality(Waiting \union {k}) \in Nat /\ Cardinality(Waiting) \in Nat
      BY <3>1, WaitingFinite, FS_CardinalityType
    <3>4. issued' = issued /\ issued \in Nat /\ budget.saves \in Nat /\ MaxItem \in Nat
      BY <2>6, Shelved, OpsTyped, LibraryAssumption DEF BudgetType, libraryVars
    <3>5. issued + Cardinality(Waiting) + budget.saves <= MaxItem
      BY DEF TypeInv
    <3> QED  BY <2>8, <3>1, <3>2, <3>3, <3>4, <3>5 DEF Room
  <2> QED  BY <2>7, <2>8, <2>9 DEF OpStep
<1> QED  BY <1>1, <1>2, <1>3, <1>4, <1>5, <1>6 DEF LibraryUser

LEMMA QueryOps ==
  ASSUME TypeInv, LibraryQueries
  PROVE  OpStep
<1>1. UNCHANGED <<op>> /\ UNCHANGED libraryVars
  BY DEF LibraryQueries, ReadList, LandList, ReadDetail, LandDetail, Rebuild
<1>2. UNCHANGED budget \/ Spend("failures")
  BY DEF LibraryQueries, ReadList, LandList, ReadDetail, LandDetail, Rebuild, Fail
<1> QED  BY <1>1, <1>2, EndsStep, OpsTyped, BudgetStays, ServerStays DEF libraryVars

LEMMA SaveOps ==
  ASSUME TypeInv, NEW k \in Op, SaveURL(k)
  PROVE  OpStep
<1>1. PICK url \in Url : content'[url] # "none" /\ op' = [op EXCEPT ![k].at = "upserted", ![k].url = url]
  BY SavesContent
<1>2. UNCHANGED <<shelf, issued>> /\ ContentStays
  BY SavesContent DEF ContentStays
<1>3. op[k].kind = "save" /\ op[k].at = "sent" /\ UNCHANGED budget
  BY DEF SaveURL
<1>4. op[k] \in Flights
  BY <1>3, OpsTyped, UnsentFields DEF Ops
<1>5. PICK o : o = [op[k] EXCEPT !.at = "upserted", !.url = url]
  OBVIOUS
<1>6. o \in Flights /\ o.kind = "save" /\ o.url = url /\ o.at = "upserted" /\ o \in Ops
  BY <1>3, <1>4, <1>5 DEF Flights, Ops
<1>7. op' = [op EXCEPT ![k] = o]
  BY <1>1, <1>5, OpsTyped
<1>8. OpOK(o)'
  BY <1>1, <1>6 DEF OpOK
<1>9. OpsOK' /\ Waiting' \subseteq Waiting \union {k}
  BY <1>2, <1>6, <1>7, <1>8, OpChanges
<1>10. k \in Waiting
  BY <1>3 DEF Waiting
<1>11. Waiting' \subseteq Waiting
  BY <1>9, <1>10
<1> QED  BY <1>2, <1>3, <1>9, <1>11, RoomKept, BudgetStays DEF OpStep

LEMMA Refusals == ASSUME NEW k PROVE Refused(k) \in {"ok", "notFound", "conflict"}
BY DEF Refused

LEMMA HandledOp ==
  ASSUME TypeInv, NEW k \in Op, Handle(k)
  PROVE  \E o \in Flights : /\ op' = [op EXCEPT ![k] = o] /\ o.at = "answered"
                            /\ o.result \in {Refused(k), "failed"}
                            /\ o.kind = op[k].kind /\ o.id = op[k].id /\ o.url = op[k].url
                            /\ o.patch = op[k].patch
<1>1. op[k] # Unsent
  BY UnsentFields DEF Handle, Writes
<1>2. PICK result \in {"ok", "notFound", "conflict", "failed"} :
        Answers(k, result) /\ result \in {Refused(k), "failed"}
  BY Refusals DEF Handle
<1> QED  BY <1>1, <1>2, AnsweredIs

LEMMA HandleOps ==
  ASSUME TypeInv, NEW k \in Op, Handle(k)
  PROVE  OpStep
<1>1. PICK o \in Flights : /\ op' = [op EXCEPT ![k] = o] /\ o.at = "answered"
                           /\ o.kind = op[k].kind /\ o.url = op[k].url /\ o.patch = op[k].patch
  BY HandledOp
<1>2. ContentStays /\ UNCHANGED content
  BY Handled DEF ContentStays
<1>3. UNCHANGED budget \/ Spend("failures")
  BY DEF Handle, Fail
<1>4. budget' \in BudgetType /\ budget'.saves <= budget.saves
  BY <1>3, BudgetStays
<1>5. OpOK(o)'
  BY <1>1, <1>2, OpsTyped DEF OpOK
<1>6. o \in Ops
  BY DEF Ops
<1>7. OpsOK' /\ Waiting' \subseteq Waiting \ {k}
  BY <1>1, <1>2, <1>5, <1>6, OpChanges
<1>8. CASE issued' = issued
  BY <1>4, <1>7, <1>8, RoomKept DEF OpStep
<1>9. CASE issued' # issued
  <2>1. k \in Waiting /\ issued' = issued + 1
    BY <1>9, Handled
  <2>2. Cardinality(Waiting \ {k}) = Cardinality(Waiting) - 1 /\ IsFiniteSet(Waiting \ {k})
    BY <2>1, WaitingFinite, FS_RemoveElement
  <2>3. Cardinality(Waiting') \in Nat /\ Cardinality(Waiting') <= Cardinality(Waiting \ {k})
    BY <1>7, <2>2, FS_Subset, FS_CardinalityType
  <2>4. /\ issued \in Nat /\ budget.saves \in Nat /\ budget'.saves \in Nat /\ MaxItem \in Nat
        /\ Cardinality(Waiting) \in Nat
    BY <1>4, Shelved, OpsTyped, WaitingFinite, LibraryAssumption DEF BudgetType
  <2>5. issued + Cardinality(Waiting) + budget.saves <= MaxItem
    BY DEF TypeInv
  <2>6. Room'
    BY <1>4, <2>1, <2>2, <2>3, <2>4, <2>5 DEF Room
  <2> QED  BY <1>4, <1>7, <2>6 DEF OpStep
<1> QED  BY <1>8, <1>9

LEMMA DropOps ==
  ASSUME TypeInv, NEW k \in Op, Drop(k)
  PROVE  /\ OpStep
         /\ \E o \in Flights : /\ op' = [op EXCEPT ![k] = o] /\ o.at = "answered" /\ o.result = "failed"
                              /\ o.kind = op[k].kind /\ o.id = op[k].id
<1>1. op[k] # Unsent /\ Answers(k, "failed") /\ UNCHANGED libraryVars /\ Spend("failures")
  BY UnsentFields DEF Drop, Fail
<1>2. PICK o \in Flights : /\ op' = [op EXCEPT ![k] = o] /\ o.at = "answered" /\ o.result = "failed"
                           /\ o.kind = op[k].kind /\ o.id = op[k].id
                           /\ o.url = op[k].url /\ o.patch = op[k].patch
  <2>1. "failed" \in {"ok", "notFound", "conflict", "failed"}
    OBVIOUS
  <2> QED  BY <1>1, <2>1, AnsweredIs
<1>3. OpOK(o)'
  BY <1>1, <1>2, OpsTyped, ServerStays DEF OpOK, ContentStays
<1>4. OpStep
  BY <1>1, <1>2, <1>3, NewStep, BudgetStays, ServerStays DEF libraryVars
<1> QED  BY <1>2, <1>4

LEMMA SettleOps ==
  ASSUME TypeInv, NEW k \in Op, UpdateSettled(k) \/ useDeleteItem(k) \/ useSaveLink(k)
  PROVE  OpStep
<1>1. UNCHANGED libraryVars /\ UNCHANGED budget /\ (Done(k) \/ op' = [FormGone EXCEPT ![k] = Unsent])
  BY DEF UpdateSettled, useDeleteItem, useSaveLink
<1>2. op' = [n \in Op |-> op'[n]] /\ \A n \in Op : op'[n] \in {op[n], [op[n] EXCEPT !.heard = FALSE], Unsent}
  BY <1>1, HeardOps, OpsTyped DEF Done
<1> QED  BY <1>1, <1>2, EndsStep, BudgetStays, ServerStays DEF libraryVars

LEMMA OpSteps ==
  ASSUME TypeInv, Next
  PROVE  OpStep
BY UserOps, QueryOps, ScrollOps, SaveOps, HandleOps, DropOps, SettleOps DEF Next, LibraryMutations

-----------------------------------------------------------------------------
(* The page on screen and the dialog.                                      *)

Screens ==
  [at : {"list", "reader"}, filter : Filter, id : Ids \union {0},
   held : Seq(Page(Item)), hand : {"no", "read", "unread", "contested"}, deep : BOOLEAN,
   fired : BOOLEAN, confirm : Ids \union {0}]
ScreenOK(p) == p \in Screens /\ (p.at = "reader" => p.id \in Ids)

LEMMA OnScreen ==
  ASSUME TypeInv
  PROVE  ScreenOK(page)
BY DEF TypeInv, TypeOK, Screens, ScreenOK

LEMMA ScreenFields ==
  ASSUME NEW p, ScreenOK(p)
  PROVE  /\ \A v \in Seq(Page(Item)) : ScreenOK([p EXCEPT !.held = v])
         /\ \A v \in {"no", "read", "unread", "contested"} : ScreenOK([p EXCEPT !.hand = v])
         /\ \A v \in Ids \union {0} : ScreenOK([p EXCEPT !.confirm = v])
         /\ \A v \in BOOLEAN : ScreenOK([p EXCEPT !.deep = v])
         /\ \A v \in BOOLEAN : ScreenOK([p EXCEPT !.fired = v])
<1>1. ASSUME NEW v \in Seq(Page(Item)) PROVE ScreenOK([p EXCEPT !.held = v])
  BY <1>1 DEF ScreenOK, Screens
<1>2. ASSUME NEW v \in {"no", "read", "unread", "contested"} PROVE ScreenOK([p EXCEPT !.hand = v])
  BY <1>2 DEF ScreenOK, Screens
<1>3. ASSUME NEW v \in Ids \union {0} PROVE ScreenOK([p EXCEPT !.confirm = v])
  BY <1>3 DEF ScreenOK, Screens
<1>4. ASSUME NEW v \in BOOLEAN PROVE ScreenOK([p EXCEPT !.deep = v])
  BY <1>4 DEF ScreenOK, Screens
<1>5. ASSUME NEW v \in BOOLEAN PROVE ScreenOK([p EXCEPT !.fired = v])
  BY <1>5 DEF ScreenOK, Screens
<1> QED  BY <1>1, <1>2, <1>3, <1>4, <1>5

LEMMA ListArrives ==
  ASSUME NEW f \in Filter, NEW held \in Seq(Page(Item))
  PROVE  ScreenOK(At([at |-> "list", filter |-> f, id |-> 0], held))
<1>1. PICK p : p = At([at |-> "list", filter |-> f, id |-> 0], held)
  OBVIOUS
<1>2. p = [at |-> "list", filter |-> f, id |-> 0, held |-> held, hand |-> "no",
           deep |-> FALSE, fired |-> FALSE, confirm |-> 0]
  BY <1>1 DEF At
<1>3. p \in Screens /\ p.at = "list"
  BY <1>2 DEF Screens
<1> QED  BY <1>1, <1>3 DEF ScreenOK

LEMMA ReaderArrives ==
  ASSUME NEW f \in Filter, NEW i \in Ids, NEW held \in Seq(Page(Item))
  PROVE  ScreenOK(At([at |-> "reader", filter |-> f, id |-> i], held))
<1>1. PICK p : p = At([at |-> "reader", filter |-> f, id |-> i], held)
  OBVIOUS
<1>2. p = [at |-> "reader", filter |-> f, id |-> i, held |-> held, hand |-> "no",
           deep |-> FALSE, fired |-> FALSE, confirm |-> 0]
  BY <1>1 DEF At
<1>3. p \in Screens /\ p.id = i
  BY <1>2 DEF Screens
<1> QED  BY <1>1, <1>3 DEF ScreenOK

LEMMA NothingHeld == <<>> \in Seq(Page(Item))
OBVIOUS

LEMMA ActsScreen ==
  ASSUME TypeInv, NEW it \in Item, useItemActions(it)
  PROVE  ScreenOK(page')
<1>1. CASE ToggleRead(it)
  <2>1. PICK to \in {"read", "unread"} :
          page' = IF page.at = "reader" THEN [page EXCEPT !.hand = HandMark(page.id, to)] ELSE page
    BY <1>1 DEF ToggleRead
  <2>2. HandMark(page.id, to) \in {"no", "read", "unread", "contested"}
    BY DEF HandMark
  <2>3. PICK v \in {"no", "read", "unread", "contested"} : v = HandMark(page.id, to)
    BY <2>2
  <2> QED  BY <2>1, <2>3, OnScreen, ScreenFields
<1>2. CASE RequestDelete(it)
  <2>1. PICK v \in Ids \union {0} : v = it.id
    BY ItemFields
  <2>2. page' = [page EXCEPT !.confirm = v]
    BY <1>2, <2>1 DEF RequestDelete
  <2> QED  BY <2>2, OnScreen, ScreenFields
<1>3. CASE ToggleArchive(it) \/ ToggleFavorite(it)
  BY <1>3, OnScreen DEF ToggleArchive, ToggleFavorite
<1> QED  BY <1>1, <1>2, <1>3 DEF useItemActions

LEMMA ScreenStep ==
  ASSUME TypeInv, Next
  PROVE  ScreenOK(page')
<1> USE OnScreen
<1>1. ASSUME NEW f \in Filter, LibraryListRoute(f) PROVE ScreenOK(page')
  <2>1. PICK held \in Seq(Page(Item)) :
          held = IF page.at = "list" THEN Pages(page.filter) ELSE <<>>
    BY PagesType, NothingHeld, PageFieldTypes
  <2>2. page' = At([at |-> "list", filter |-> f, id |-> 0], held)
    BY <1>1, <2>1 DEF LibraryListRoute
  <2> QED  BY <2>2, ListArrives
<1>2. ASSUME NEW i \in Ids, OpenReader(i) PROVE ScreenOK(page')
  <2>1. PICK held \in Seq(Page(Item)) : held = <<>>
    BY NothingHeld
  <2>2. PICK f \in Filter : f = page.filter
    BY PageFieldTypes
  <2>3. page' = At([at |-> "reader", filter |-> f, id |-> i], held)
    BY <1>2, <2>1, <2>2 DEF OpenReader
  <2> QED  BY <2>3, ReaderArrives
<1>3. CASE LibraryCardMenu \/ ReaderActions
  BY <1>3, ActsScreen, ShownItems DEF LibraryCardMenu, ReaderActions
<1>4. CASE DeleteConfirm
  <2>1. PICK v \in Ids \union {0} : v = 0
    OBVIOUS
  <2>2. page' = [page EXCEPT !.confirm = v]
    BY <1>4, <2>1 DEF DeleteConfirm
  <2> QED  BY <2>2, ScreenFields
<1>5. CASE Scroll
  <2>1. PICK v \in BOOLEAN : v = TRUE
    OBVIOUS
  <2>2. page' = [page EXCEPT !.deep = v]
    BY <1>5, <2>1 DEF Scroll
  <2> QED  BY <2>2, ScreenFields
<1>6. CASE useMarkReadOnScroll
  <2>1. PICK v \in BOOLEAN : v = TRUE
    OBVIOUS
  <2>2. page' = [page EXCEPT !.fired = v]
    BY <1>6, <2>1 DEF useMarkReadOnScroll
  <2> QED  BY <2>2, ScreenFields
<1>7. ASSUME NEW f \in Filter, LandList(f) PROVE ScreenOK(page')
  <2>1. PICK v \in Seq(Page(Item)) : v = <<>>
    BY NothingHeld
  <2>2. page' = page \/ page' = [page EXCEPT !.held = v]
    BY <1>7, <2>1 DEF LandList
  <2>3. CASE page' = page
    BY <2>3
  <2>4. CASE page' = [page EXCEPT !.held = v]
    BY <2>4, ScreenFields
  <2> QED  BY <2>2, <2>3, <2>4
<1>8. ASSUME NEW i \in Ids, LandDetail(i) PROVE ScreenOK(page')
  <2>1. PICK v \in BOOLEAN : v = FALSE
    OBVIOUS
  <2>2. page' = page \/ page' = [page EXCEPT !.fired = v]
    BY <1>8, <2>1 DEF LandDetail, Rearmed
  <2> QED  BY <2>2, ScreenFields
<1>9. ASSUME NEW k \in Op, useDeleteItem(k) PROVE ScreenOK(page')
  <2>1. PICK v \in Ids \union {0} : v = 0
    OBVIOUS
  <2>2. PICK held \in Seq(Page(Item)) : held = <<>>
    BY NothingHeld
  <2>3. \/ page' = page \/ page' = [page EXCEPT !.confirm = v]
        \/ page' = At([at |-> "list", filter |-> Default, id |-> 0], held)
    BY <1>9, <2>1, <2>2 DEF useDeleteItem
  <2>4. Default \in Filter
    BY ClientAssumption
  <2>5. CASE page' = page
    BY <2>5
  <2>6. CASE page' = [page EXCEPT !.confirm = v]
    BY <2>6, ScreenFields
  <2>7. CASE page' = At([at |-> "list", filter |-> Default, id |-> 0], held)
    BY <2>4, <2>7, ListArrives
  <2> QED  BY <2>3, <2>5, <2>6, <2>7
<1>10. CASE \/ \E f \in Filter : LoadMore(f) \/ ReadList(f)
            \/ Retry \/ OpenDialog \/ CloseDialog
            \/ \E url \in Typed : AddLinkForm(url)
            \/ \E i \in Ids : ReadDetail(i) \/ Rebuild(i)
            \/ \E k \in Op : SaveURL(k) \/ Handle(k) \/ Drop(k) \/ UpdateSettled(k) \/ useSaveLink(k)
  BY <1>10 DEF LoadMore, ReadList, Retry, OpenDialog, CloseDialog, AddLinkForm, ReadDetail, Rebuild,
     SaveURL, Handle, Drop, UpdateSettled, useSaveLink
<1> QED  BY <1>1, <1>2, <1>3, <1>4, <1>5, <1>6, <1>7, <1>8, <1>9, <1>10
         DEF Next, LibraryUser, LibraryQueries, LibraryMutations

LEMMA DialogStep ==
  ASSUME TypeInv, Next
  PROVE  dialog' \in {"closed", "form", "saving", "failed"}
<1>1. dialog \in {"closed", "form", "saving", "failed"}
  BY DEF TypeInv, TypeOK
<1> QED  BY <1>1 DEF Next, LibraryUser, LibraryQueries, LibraryMutations, LibraryListRoute, LoadMore,
   OpenReader, Retry, LibraryCardMenu, ReaderActions, useItemActions, DeleteConfirm, Scroll,
   OpenDialog, CloseDialog, AddLinkForm, ReadList, LandList, ReadDetail, LandDetail, Rebuild,
   useMarkReadOnScroll, SaveURL, Handle, Drop, UpdateSettled, useDeleteItem, useSaveLink

-----------------------------------------------------------------------------
(* The rows of a listing.                                                  *)


LEMMA ViewType ==
  ASSUME TypeInv, NEW f
  PROVE  View(f) \in Seq(Item) /\ Len(View(f)) \in Nat
<1> DEFINE L == {n \in DOMAIN shelf : Listed(shelf[n], f)}
           Nth(m) == CHOOSE n \in L : Cardinality({o \in L : o < n}) = m - 1
<1>1. L \subseteq Nat /\ IsFiniteSet(L) /\ Cardinality(L) \in Nat /\ L \subseteq DOMAIN shelf
  <2>1. L \subseteq 1..Len(shelf) /\ Len(shelf) \in Nat
    BY Shelved
  <2>2. IsFiniteSet(1..Len(shelf))
    BY <2>1, FS_Interval
  <2> QED  BY <2>1, <2>2, FS_Subset, FS_CardinalityType
<1>2. ASSUME NEW m \in 1..Cardinality(L) PROVE shelf[Nth(m)] \in Item
  <2>1. PICK j \in Nat : j = m - 1 /\ j < Cardinality(L)
    <3>1. m - 1 \in Nat /\ m - 1 < Cardinality(L)
      BY <1>1
    <3> QED  BY <3>1
  <2>2. \E n \in L : Cardinality({o \in L : o < n}) = j
    BY <1>1, <2>1, NthElement
  <2>3. Nth(m) \in L
    BY <2>1, <2>2
  <2> QED  BY <1>1, <2>3, Shelved
<1>3. View(f) = [m \in 1..Cardinality(L) |-> shelf[Nth(m)]]
  BY DEF View
<1> HIDE DEF L, Nth
<1>4. View(f) \in Seq(Item)
  BY <1>1, <1>2, <1>3, IsASeq
<1> QED  BY <1>4, LenProperties

LEMMA Smaller ==
  ASSUME NEW a \in Nat, NEW b \in Nat
  PROVE  Min({a, b}) \in Nat /\ Min({a, b}) = IF a <= b THEN a ELSE b
BY DEF Min

LEMMA AnsweredPage ==
  ASSUME TypeInv, NEW f, NEW offset \in Nat
  PROVE  /\ ListItems(f, offset) \in Page(Item)
         /\ \E to \in Nat : /\ ListItems(f, offset) = [items |-> SubSeq(View(f), offset + 1, to),
                                                     total |-> Len(View(f))]
                            /\ offset <= Len(View(f)) => offset <= to /\ to <= Len(View(f))
<1>1. View(f) \in Seq(Item) /\ Len(View(f)) \in Nat
  BY ViewType
<1>2. PICK V \in Seq(Item) : V = View(f)
  BY <1>1
<1>3. PICK to \in Nat : to = Min({offset + PageSize, Len(V)})
  BY <1>1, <1>2, Smaller, LibraryAssumption
<1>4. /\ to <= Len(V) /\ Len(V) \in Nat
      /\ offset <= Len(V) => offset <= to
      /\ ~(offset <= Len(V)) => to <= offset
  BY <1>1, <1>2, <1>3, Smaller, LibraryAssumption
<1>5. ListItems(f, offset) = [items |-> SubSeq(V, offset + 1, to), total |-> Len(V)]
  BY <1>2, <1>3 DEF ListItems
<1>6. ListItems(f, offset) \in Page(Item)
  BY <1>4, <1>5, ListedPage
<1> QED  BY <1>2, <1>4, <1>5, <1>6

-----------------------------------------------------------------------------
(* The cache.                                                              *)

\* What an entry becomes without the server's changing and without a change's
\* settling: it is what it was, or as fresh.
ListFollows(f, n) ==
  /\ n \in Entries(Page(Item)) /\ Paged(n)
  /\ Agrees(lists[f], FreshPages(Item, View(f))) => Agrees(n, FreshPages(Item, View(f)))
DetailFollows(i, n) ==
  /\ n \in Entries(Page(Detail)) /\ SinglePage(n)
  /\ Agrees(details[i], Held(i)) => Agrees(n, Held(i))

LEMMA ListMoves ==
  ASSUME TypeInv, NEW f \in Filter
  PROVE  LET e == lists[f] IN
         /\ ListFollows(f, e) /\ ListFollows(f, Refetch(e))
         /\ \A expired : ListFollows(f, Mount(e, expired))
         /\ ListFollows(f, Cancel(e))
         /\ HasData(e) => ListFollows(f, FetchNextPage(e))
         /\ Fetching(e) => ListFollows(f, Refuse(e, "failed"))
         /\ Fetching(e) /\ Answered(e) => ListFollows(f, Land(e))
         /\ Fetching(e) /\ ~Answered(e) => ListFollows(f, Answer(e, ListItems(f, Offset(e))))
<1>1. PICK e \in Entries(Page(Item)) : e = lists[f] /\ Paged(e)
  BY Listed_Entries
<1>2. PICK V \in Seq(Item) : V = View(f)
  BY ViewType
<1>3. PICK G : G = FreshPages(Item, V)
  OBVIOUS
<1>4. ASSUME NEW n \in Entries(Page(Item)), Paged(n), Agrees(e, G) => Agrees(n, G)
      PROVE  ListFollows(f, n)
  BY <1>1, <1>2, <1>3, <1>4 DEF ListFollows
<1>5. ListFollows(f, e)
  BY <1>1, <1>4
<1>6. ASSUME NEW expired PROVE ListFollows(f, Mount(e, expired))
  <2>2. Mount(e, expired) \in Entries(Page(Item)) /\ Paged(Mount(e, expired))
        /\ (Agrees(e, G) => Agrees(Mount(e, expired), G))
    BY <1>1, MountAgrees
  <2> QED  BY <1>4, <2>2
<1>7. ListFollows(f, Refetch(e))
  BY <1>1, <1>4, RefetchAgrees
<1>8. ListFollows(f, Cancel(e))
  BY <1>1, <1>4, CancelAgrees
<1>9. HasData(e) => ListFollows(f, FetchNextPage(e))
  BY <1>1, <1>4, FetchNextPageAgrees
<1>10. Fetching(e) => ListFollows(f, Refuse(e, "failed"))
  <2>1. PICK err \in Errors : err = "failed"
    BY DEF Errors
  <2> QED  BY <1>1, <1>4, <2>1, RefuseAgrees
<1>11. Fetching(e) /\ Answered(e) => ListFollows(f, Land(e))
  BY <1>1, <1>4, LandAgrees
<1>12. ASSUME Fetching(e), ~Answered(e) PROVE ListFollows(f, Answer(e, ListItems(f, Offset(e))))
  <2>1. PICK offset \in Nat : offset = Offset(e)
    BY <1>12, OffsetType
  <2>2. PICK answer \in Page(Item) : answer = ListItems(f, offset)
    BY AnsweredPage
  <2>3. PICK to \in Nat : /\ answer = [items |-> SubSeq(V, offset + 1, to), total |-> Len(V)]
                          /\ offset <= Len(V) => offset <= to /\ to <= Len(V)
    BY <1>2, <2>2, AnsweredPage
  <2>4. Answer(e, answer) \in Entries(Page(Item)) /\ Paged(Answer(e, answer))
        /\ (Agrees(e, FreshPages(Item, V)) => Agrees(Answer(e, answer), FreshPages(Item, V)))
    BY <1>1, <1>12, <2>1, <2>3, AnswerAgrees
  <2> QED  BY <1>3, <1>4, <2>1, <2>2, <2>4
<1> QED  BY <1>1, <1>5, <1>6, <1>7, <1>8, <1>9, <1>10, <1>11, <1>12

LEMMA DetailMoves ==
  ASSUME TypeInv, NEW i \in Ids
  PROVE  LET e == details[i] IN
         /\ DetailFollows(i, e) /\ DetailFollows(i, Refetch(e))
         /\ \A expired : DetailFollows(i, Mount(e, expired))
         /\ DetailFollows(i, Cancel(e))
         /\ Fetching(e) => \A err \in Errors : DetailFollows(i, Refuse(e, err))
         /\ Fetching(e) /\ Answered(e) => DetailFollows(i, Land(e))
         /\ Fetching(e) /\ ~Answered(e) /\ Saved(i) =>
              DetailFollows(i, Answer(e, Single(GetItemDetail(i))))
<1>1. PICK e \in Entries(Page(Detail)) : e = details[i] /\ SinglePage(e) /\ Paged(e)
  BY Listed_Entries, SingleIsPaged
<1>2. PICK G : G = Held(i)
  OBVIOUS
<1>3. ASSUME NEW n \in Entries(Page(Detail)), SinglePage(n), Agrees(e, G) => Agrees(n, G)
      PROVE  DetailFollows(i, n)
  BY <1>1, <1>2, <1>3 DEF DetailFollows
<1>4. DetailFollows(i, e)
  BY <1>1, <1>3
<1>5. ASSUME NEW expired PROVE DetailFollows(i, Mount(e, expired))
  <2>2. Mount(e, expired) \in Entries(Page(Detail)) /\ SinglePage(Mount(e, expired))
        /\ (Agrees(e, G) => Agrees(Mount(e, expired), G))
    BY <1>1, MountAgrees, SinglesStay
  <2> QED  BY <1>3, <2>2
<1>6. DetailFollows(i, Refetch(e))
  BY <1>1, <1>3, RefetchAgrees, SinglesStay
<1>7. DetailFollows(i, Cancel(e))
  BY <1>1, <1>3, CancelAgrees, SinglesStay
<1>8. ASSUME Fetching(e), NEW err \in Errors PROVE DetailFollows(i, Refuse(e, err))
  BY <1>1, <1>3, <1>8, RefuseAgrees, SingleLands
<1>9. Fetching(e) /\ Answered(e) => DetailFollows(i, Land(e))
  BY <1>1, <1>3, LandAgrees, SingleLands
<1>10. ASSUME Fetching(e), ~Answered(e), Saved(i)
       PROVE  DetailFollows(i, Answer(e, Single(GetItemDetail(i))))
  <2>1. PICK d \in Detail : d = GetItemDetail(i)
    BY <1>10, DetailType
  <2>2. PICK answer \in Page(Detail) : answer = Single(d)
    BY SingleInPage
  <2>3. <<answer>> \in G
    BY <1>2, <1>10, <2>1, <2>2 DEF Held
  <2>4. Answer(e, answer) \in Entries(Page(Detail)) /\ SinglePage(Answer(e, answer))
        /\ (Agrees(e, G) => Agrees(Answer(e, answer), G))
    BY <1>1, <1>10, <2>2, <2>3, AnswerSingle
  <2> QED  BY <1>3, <2>1, <2>2, <2>4
<1> QED  BY <1>1, <1>4, <1>5, <1>6, <1>7, <1>8, <1>9, <1>10

ListsNext ==
  /\ lists' = [f \in Filter |-> lists'[f]]
  /\ \A f \in Filter : lists'[f] \in Entries(Page(Item)) /\ Paged(lists'[f]) /\ ListFresh(f)'
DetailsNext ==
  /\ details' = [i \in Ids |-> details'[i]]
  /\ \A i \in Ids : /\ details'[i] \in Entries(Page(Detail)) /\ SinglePage(details'[i])
                    /\ DetailFresh(i)'

\* What is owed stays owed.
ListsOwed == OwedLists => OwedLists'
ItemsOwed == \A i \in Ids : OwedItem(i) => OwedItem(i)'

LEMMA ShelfStays ==
  ASSUME UNCHANGED shelf
  PROVE  /\ \A f : View(f)' = View(f)
         /\ \A i : Saved(i)' = Saved(i) /\ Row(i)' = Row(i)
BY DEF View, Saved, Row

LEMMA HeldStays ==
  ASSUME TypeInv, UNCHANGED shelf, \A u \in Url : content[u] # "none" => content'[u] = content[u], NEW i
  PROVE  Held(i)' = Held(i)
<1>1. CASE ~Saved(i)
  BY <1>1, ShelfStays DEF Held
<1>2. CASE Saved(i)
  <2>1. PICK r : r = Row(i)
    OBVIOUS
  <2>2. r \in DOMAIN shelf /\ r = Row(i)' /\ shelf'[r] = shelf[r]
    BY <1>2, <2>1, RowIs, ShelfStays
  <2>3. shelf[r].url \in Url /\ content[shelf[r].url] # "none"
    BY <2>2, Shelved, ItemFields DEF TypeInv, ShelfOK
  <2>4. GetItemDetail(i)' = GetItemDetail(i)
    BY <2>1, <2>2, <2>3 DEF GetItemDetail
  <2> QED  BY <1>2, <2>4, ShelfStays DEF Held
<1> QED  BY <1>1, <1>2

\* A step of the lists, or of the articles, on a shelf that stays as it is.
LEMMA ListsFollow ==
  ASSUME TypeInv, FreshInv, UNCHANGED shelf, ListsOwed, lists' = [f \in Filter |-> lists'[f]],
         \A f \in Filter : ListFollows(f, lists'[f])
  PROVE  ListsNext
<1>1. ASSUME NEW f \in Filter
      PROVE  lists'[f] \in Entries(Page(Item)) /\ Paged(lists'[f]) /\ ListFresh(f)'
  <2>1. View(f)' = View(f)
    BY ShelfStays
  <2>2. ListFollows(f, lists'[f]) /\ ListFresh(f)
    BY DEF FreshInv
  <2>3. FreshPages(Item, View(f))' = FreshPages(Item, View(f))
    BY <2>1 DEF FreshPages, Beginning
  <2>4. CASE OwedLists
    BY <2>2, <2>4 DEF ListFresh, ListsOwed, ListFollows
  <2>5. CASE Agrees(lists[f], FreshPages(Item, View(f)))
    <3>1. Agrees(lists'[f], FreshPages(Item, View(f)))
      BY <2>2, <2>5 DEF ListFollows
    <3>2. Agrees(lists[f], FreshPages(Item, View(f)))'
      BY <2>3, <3>1 DEF Agrees, Kept
    <3> QED  BY <2>2, <3>2 DEF ListFresh, ListFollows
  <2> QED  BY <2>2, <2>4, <2>5 DEF ListFresh
<1> QED  BY <1>1 DEF ListsNext

LEMMA DetailsFollow ==
  ASSUME TypeInv, FreshInv, ItemsOwed, \A i \in Ids : OwedItem(i)' \/ Held(i)' = Held(i),
         details' = [i \in Ids |-> details'[i]], \A i \in Ids : DetailFollows(i, details'[i])
  PROVE  DetailsNext
<1>1. ASSUME NEW i \in Ids
      PROVE  /\ details'[i] \in Entries(Page(Detail)) /\ SinglePage(details'[i])
             /\ DetailFresh(i)'
  <2>1. DetailFollows(i, details'[i]) /\ DetailFresh(i)
    BY DEF FreshInv
  <2>2. CASE OwedItem(i)'
    BY <2>1, <2>2 DEF DetailFresh, DetailFollows
  <2>3. CASE Held(i)' = Held(i) /\ ~OwedItem(i)'
    <3>1. Agrees(details'[i], Held(i))
      BY <2>1, <2>3 DEF DetailFresh, DetailFollows, ItemsOwed
    <3>2. Agrees(details[i], Held(i))'
      BY <2>3, <3>1 DEF Agrees, Kept
    <3> QED  BY <2>1, <3>2 DEF DetailFresh, DetailFollows
  <2> QED  BY <2>2, <2>3
<1> QED  BY <1>1 DEF DetailsNext

LEMMA OneListFollows ==
  ASSUME TypeInv, FreshInv, UNCHANGED shelf, ListsOwed, NEW f \in Filter, NEW n,
         ListFollows(f, n), lists' = [lists EXCEPT ![f] = n]
  PROVE  ListsNext
<1>1. lists' = [g \in Filter |-> IF g = f THEN n ELSE lists[g]]
  BY Listed_Entries
<1>2. \A g \in Filter : ListFollows(g, lists'[g])
  BY <1>1, ListMoves
<1> QED  BY <1>1, <1>2, ListsFollow

LEMMA ListsStay ==
  ASSUME TypeInv, FreshInv, UNCHANGED shelf, ListsOwed, UNCHANGED lists
  PROVE  ListsNext
<1>1. lists' = [f \in Filter |-> lists'[f]] /\ \A f \in Filter : ListFollows(f, lists'[f])
  BY Listed_Entries, ListMoves
<1> QED  BY <1>1, ListsFollow

LEMMA OneDetailFollows ==
  ASSUME TypeInv, FreshInv, UNCHANGED <<shelf, content>>, ItemsOwed, NEW i \in Ids, NEW n,
         DetailFollows(i, n), details' = [details EXCEPT ![i] = n]
  PROVE  DetailsNext
<1>1. details' = [g \in Ids |-> IF g = i THEN n ELSE details[g]]
  BY Listed_Entries
<1>2. \A g \in Ids : DetailFollows(g, details'[g])
  BY <1>1, DetailMoves
<1> QED  BY <1>1, <1>2, HeldStays, DetailsFollow

LEMMA DetailsStay ==
  ASSUME TypeInv, FreshInv, ItemsOwed, \A i \in Ids : OwedItem(i)' \/ Held(i)' = Held(i),
         UNCHANGED details
  PROVE  DetailsNext
<1>1. details' = [i \in Ids |-> details'[i]] /\ \A i \in Ids : DetailFollows(i, details'[i])
  BY Listed_Entries, DetailMoves
<1> QED  BY <1>1, DetailsFollow

LEMMA DetailsRest ==
  ASSUME TypeInv, FreshInv, ItemsOwed, UNCHANGED <<shelf, content>>, UNCHANGED details
  PROVE  DetailsNext
BY HeldStays, DetailsStay

-----------------------------------------------------------------------------
(* What is owed.                                                           *)

LEMMA OpStaysOwed ==
  ASSUME TypeInv, NEW k \in Op, NEW o, op' = [op EXCEPT ![k] = o]
  PROVE  /\ (OwesLists(op[k]) => OwesLists(o)) => ListsOwed
         /\ (\A i \in Ids : OwesItem(op[k], i) => OwesItem(o, i)) => ItemsOwed
         /\ OwesLists(o) => OwedLists'
         /\ \A i : OwesItem(o, i) => OwedItem(i)'
         /\ \A i \in Ids : (OwesItem(op[k], i) => OwesItem(o, i)) => (OwedItem(i) => OwedItem(i)')
<1>1. op' = [n \in Op |-> IF n = k THEN o ELSE op[n]]
  BY OpsTyped
<1>2. op'[k] = o /\ \A n \in Op : n # k => op'[n] = op[n]
  BY <1>1
<1> HIDE DEF OwesLists, OwesItem
<1>3. (OwesLists(op[k]) => OwesLists(o)) => ListsOwed
  BY <1>2 DEF ListsOwed, OwedLists
<1>4. ASSUME NEW i, OwesItem(op[k], i) => OwesItem(o, i) PROVE OwedItem(i) => OwedItem(i)'
  BY <1>2, <1>4 DEF OwedItem
<1>5. OwesLists(o) => OwedLists'
  BY <1>2 DEF OwedLists
<1>6. \A i : OwesItem(o, i) => OwedItem(i)'
  BY <1>2 DEF OwedItem
<1> QED  BY <1>3, <1>4, <1>5, <1>6 DEF ItemsOwed

LEMMA OpsSame ==
  ASSUME UNCHANGED op
  PROVE  ListsOwed /\ ItemsOwed
BY DEF ListsOwed, ItemsOwed, OwedLists, OwedItem, OwesLists, OwesItem

LEMMA IdleOwesNothing ==
  ASSUME NEW o, o \in Ops, o.at = "idle" \/ o = Unsent
  PROVE  ~OwesLists(o) /\ \A i : ~OwesItem(o, i)
<1>1. o = Unsent
  BY DEF Ops, Flights
<1> QED  BY <1>1, UnsentFields DEF OwesLists, OwesItem

LEMMA HeardOwes ==
  ASSUME TypeInv, \A k \in Op : op'[k] \in {op[k], [op[k] EXCEPT !.heard = FALSE]}
  PROVE  ListsOwed /\ ItemsOwed
<1>1. ASSUME NEW k \in Op
      PROVE  op'[k].kind = op[k].kind /\ op'[k].at = op[k].at /\ op'[k].id = op[k].id
             /\ op'[k].result = op[k].result
  <2>1. CASE op[k] = Unsent
    BY <2>1, UnsentAgain
  <2>2. CASE op[k] \in Flights
    <3>1. PICK o \in Flights : o = op[k]
      BY <2>2
    <3>2. PICK n : n = [o EXCEPT !.heard = FALSE]
      OBVIOUS
    <3>3. n.kind = o.kind /\ n.at = o.at /\ n.id = o.id /\ n.result = o.result
      BY <3>1, <3>2 DEF Flights
    <3> QED  BY <3>1, <3>2, <3>3
  <2> QED  BY <2>1, <2>2, OpsTyped DEF Ops
<1>2. \A k \in Op : (OwesLists(op[k]) => OwesLists(op[k])') /\ \A i : OwesItem(op[k], i) => OwesItem(op[k], i)'
  BY <1>1 DEF OwesLists, OwesItem
<1> QED  BY <1>2 DEF ListsOwed, ItemsOwed, OwedLists, OwedItem

CacheStep == ListsNext /\ DetailsNext

LEMMA StillOwed ==
  ASSUME TypeInv, NEW k \in Op, op[k].at = "idle", NEW o, op' = [op EXCEPT ![k] = o]
  PROVE  ListsOwed /\ ItemsOwed
<1>1. ~OwesLists(op[k]) /\ \A i : ~OwesItem(op[k], i)
  BY OpsTyped, IdleOwesNothing
<1> QED  BY <1>1, OpStaysOwed

-----------------------------------------------------------------------------
(* The user's steps.                                                       *)

LEMMA PatchedItem ==
  ASSUME NEW it \in Item, NEW patch \in Patch
  PROVE  applyPatch(it, patch) \in Item
BY ItemFields DEF applyPatch

LEMMA PatchedType ==
  ASSUME NEW pages \in Seq(Page(Item)), NEW i, NEW patch \in Patch
  PROVE  /\ Patched(pages, i, patch) \in Seq(Page(Item))
         /\ pages # <<>> => Patched(pages, i, patch) # <<>>
<1> DEFINE It(it) == IF it.id = i THEN applyPatch(it, patch) ELSE it
           New(p) == [p EXCEPT !.items = [m \in DOMAIN @ |-> It(@[m])]]
<1>1. ASSUME NEW p \in Page(Item) PROVE New(p) \in Page(Item)
  <2>1. PICK rows \in Seq(Item) : rows = p.items
    BY DEF Page
  <2>2. PICK new : new = [m \in DOMAIN rows |-> It(rows[m])]
    OBVIOUS
  <2>3. DOMAIN rows = 1..Len(rows) /\ Len(rows) \in Nat /\ \A m \in 1..Len(rows) : rows[m] \in Item
    BY LenProperties, ElementOfSeq
  <2>4. \A m \in 1..Len(rows) : It(rows[m]) \in Item
    BY <2>3, PatchedItem
  <2> HIDE DEF It
  <2>5. new \in Seq(Item)
    BY <2>2, <2>3, <2>4, IsASeq
  <2>6. New(p) = [p EXCEPT !.items = new]
    BY <2>1, <2>2
  <2>7. [p EXCEPT !.items = new] \in Page(Item)
    BY <2>5 DEF Page
  <2> QED  BY <2>6, <2>7
<1>2. Patched(pages, i, patch) = [n \in DOMAIN pages |-> New(pages[n])]
  BY DEF Patched
<1> HIDE DEF New
<1>3. DOMAIN pages = 1..Len(pages) /\ Len(pages) \in Nat /\ \A m \in 1..Len(pages) : pages[m] \in Page(Item)
  BY LenProperties, ElementOfSeq
<1>4. Patched(pages, i, patch) \in Seq(Page(Item))
  BY <1>1, <1>2, <1>3, IsASeq
<1>5. ASSUME pages # <<>> PROVE Patched(pages, i, patch) # <<>>
  <2>1. Len(pages) # 0
    BY <1>5, EmptySeq
  <2>2. DOMAIN Patched(pages, i, patch) = 1..Len(pages)
    BY <1>2, <1>3
  <2>3. 1 \in DOMAIN Patched(pages, i, patch)
    BY <1>3, <2>1, <2>2
  <2>4. DOMAIN <<>> = {}
    OBVIOUS
  <2> QED  BY <2>3, <2>4
<1> QED  BY <1>4, <1>5

LEMMA UpdateCache ==
  ASSUME TypeInv, FreshInv, UNCHANGED libraryVars, NEW i \in Ids \union {0}, NEW patch \in Patch,
         NEW by \in {"hand", "scroll"}, useUpdateItem(i, patch, by)
  PROVE  CacheStep
<1>1. PICK k \in Op : \E o \in Flights : /\ op[k].at = "idle" /\ op' = [op EXCEPT ![k] = o]
                                         /\ o.kind = "update" /\ o.id = i
  BY UpdateStarts
<1>2. PICK o \in Flights : /\ op[k].at = "idle" /\ op' = [op EXCEPT ![k] = o] /\ o.kind = "update"
  BY <1>1
<1>3. OwedLists' /\ ListsOwed /\ ItemsOwed
  BY <1>2, StillOwed, OpStaysOwed DEF OwesLists
<1>4. /\ lists' = [f \in Filter |->
           IF HasData(lists[f]) THEN SetData(Cancel(lists[f]), Patched(lists[f].data, i, patch))
           ELSE Cancel(lists[f])]
      /\ details' = [n \in Ids |-> Cancel(details[n])]
  BY DEF useUpdateItem
<1>5. ASSUME NEW f \in Filter PROVE lists'[f] \in Entries(Page(Item)) /\ Paged(lists'[f])
  <2>1. PICK e \in Entries(Page(Item)) : e = Cancel(lists[f]) /\ Paged(e) /\ e.data = lists[f].data
    BY Listed_Entries, CancelEntry, CancelAgrees
  <2>2. CASE HasData(lists[f])
    <3>1. PICK pages \in Seq(Page(Item)) : pages = Patched(lists[f].data, i, patch) /\ pages # <<>>
      BY <2>2, Listed_Entries, EntryFields, PatchedType DEF HasData
    <3>2. SetData(e, pages) \in Entries(Page(Item)) /\ Paged(SetData(e, pages))
      BY <2>1, <3>1, SetDataPaged
    <3> QED  BY <1>4, <2>1, <2>2, <3>1, <3>2
  <2>3. CASE ~HasData(lists[f])
    BY <1>4, <2>1, <2>3
  <2> QED  BY <2>2, <2>3
<1>6. ListsNext
  BY <1>3, <1>4, <1>5 DEF ListsNext, ListFresh
<1>7. \A n \in Ids : DetailFollows(n, details'[n])
  BY <1>4, DetailMoves
<1>8. DetailsNext
  BY <1>3, <1>4, <1>7, HeldStays, DetailsFollow DEF libraryVars
<1> QED  BY <1>6, <1>8 DEF CacheStep

LEMMA CacheRests ==
  ASSUME TypeInv, FreshInv, UNCHANGED libraryVars, UNCHANGED <<lists, details>>, ListsOwed, ItemsOwed
  PROVE  CacheStep
BY ListsStay, DetailsRest DEF CacheStep, libraryVars

LEMMA LaterHeard ==
  ASSUME TypeInv, op' \in {op, Unheard, FormGone}
  PROVE  ListsOwed /\ ItemsOwed
<1>1. \A k \in Op : op'[k] \in {op[k], [op[k] EXCEPT !.heard = FALSE]}
  BY DEF Unheard, FormGone
<1> QED  BY <1>1, HeardOwes

LEMMA UserCache ==
  ASSUME TypeInv, FreshInv, LibraryUser
  PROVE  CacheStep
<1>1. ASSUME NEW f \in Filter, LibraryListRoute(f) PROVE CacheStep
  <2>a. PICK expired \in BOOLEAN : lists' = [lists EXCEPT ![f] = Mount(@, expired)]
    BY <1>1 DEF LibraryListRoute
  <2>1. PICK n : n = Mount(lists[f], expired)
    OBVIOUS
  <2>2. /\ lists' = [lists EXCEPT ![f] = n] /\ UNCHANGED details /\ UNCHANGED <<shelf, content>>
        /\ op' \in {op, Unheard, FormGone}
    BY <1>1, <2>a, <2>1 DEF LibraryListRoute, libraryVars
  <2>3. ListFollows(f, n)
    BY <2>1, ListMoves
  <2> QED  BY <2>2, <2>3, LaterHeard, OneListFollows, DetailsRest DEF CacheStep
<1>2. ASSUME NEW i \in Ids, OpenReader(i) PROVE CacheStep
  <2>a. PICK expired \in BOOLEAN : details' = [details EXCEPT ![i] = Mount(@, expired)]
    BY <1>2 DEF OpenReader
  <2>1. PICK n : n = Mount(details[i], expired)
    OBVIOUS
  <2>2. /\ details' = [details EXCEPT ![i] = n] /\ UNCHANGED lists /\ UNCHANGED <<shelf, content>>
        /\ op' \in {op, Unheard, FormGone}
    BY <1>2, <2>a, <2>1 DEF OpenReader, libraryVars
  <2>3. DetailFollows(i, n)
    BY <2>1, DetailMoves
  <2> QED  BY <2>2, <2>3, LaterHeard, OneDetailFollows, ListsStay DEF CacheStep
<1>3. ASSUME NEW f \in Filter, LoadMore(f) PROVE CacheStep
  <2>1. PICK n : n = FetchNextPage(lists[f])
    OBVIOUS
  <2>2. /\ lists' = [lists EXCEPT ![f] = n] /\ UNCHANGED details /\ UNCHANGED <<shelf, content>>
        /\ UNCHANGED op /\ HasData(lists[f])
    BY <1>3, <2>1 DEF LoadMore, libraryVars, HasNextPage, NextPage, HasData
  <2>3. ListFollows(f, n)
    BY <2>1, <2>2, ListMoves
  <2> QED  BY <2>2, <2>3, OpsSame, OneListFollows, DetailsRest DEF CacheStep
<1>4. CASE Retry
  <2>1. UNCHANGED op /\ UNCHANGED <<shelf, content>>
    BY <1>4 DEF Retry, libraryVars
  <2>2. CASE page.at = "list" /\ lists' = [lists EXCEPT ![page.filter] = Refetch(@)] /\ UNCHANGED details
    <3>1. PICK f \in Filter : f = page.filter
      BY PageFieldTypes
    <3>2. PICK n : n = Refetch(lists[f])
      OBVIOUS
    <3>3. lists' = [lists EXCEPT ![f] = n] /\ ListFollows(f, n)
      BY <2>2, <3>1, <3>2, ListMoves
    <3> QED  BY <2>1, <2>2, <3>3, OpsSame, OneListFollows, DetailsRest DEF CacheStep
  <2>3. CASE page.at = "reader" /\ details' = [details EXCEPT ![page.id] = Refetch(@)] /\ UNCHANGED lists
    <3>1. PICK i \in Ids : i = page.id
      BY <2>3, PageFieldTypes
    <3>2. PICK n : n = Refetch(details[i])
      OBVIOUS
    <3>3. details' = [details EXCEPT ![i] = n] /\ DetailFollows(i, n)
      BY <2>3, <3>1, <3>2, DetailMoves
    <3> QED  BY <2>1, <2>3, <3>3, OpsSame, OneDetailFollows, ListsStay DEF CacheStep
  <2> QED  BY <1>4, <2>2, <2>3 DEF Retry
<1>5. CASE LibraryCardMenu \/ ReaderActions
  <2>1. PICK it \in Item : useItemActions(it)
    BY <1>5, ShownItems DEF LibraryCardMenu, ReaderActions
  <2>2. UNCHANGED libraryVars /\ it.id \in Ids \union {0}
    BY <2>1, ItemFields DEF useItemActions
  <2>3. CASE UNCHANGED op
    <3>1. UNCHANGED <<lists, details>> \/ \E patch \in Patch : useUpdateItem(it.id, patch, "hand")
      <4>1. CASE RequestDelete(it)
        BY <4>1 DEF RequestDelete
      <4>2. CASE ToggleRead(it) \/ ToggleArchive(it) \/ ToggleFavorite(it)
        BY <4>2 DEF ToggleRead, ToggleArchive, ToggleFavorite, SetState, Patch, States
      <4> QED  BY <2>1, <4>1, <4>2 DEF useItemActions
    <3> QED  BY <2>2, <2>3, <3>1, CacheRests, OpsSame, UpdateCache
  <2>4. CASE \E patch \in Patch : useUpdateItem(it.id, patch, "hand")
    BY <2>2, <2>4, UpdateCache
  <2> QED  BY <2>1, <2>3, <2>4, ActsOps
<1>6. CASE DeleteConfirm \/ \E url \in Typed : AddLinkForm(url)
  <2>1. UNCHANGED libraryVars /\ UNCHANGED <<lists, details>>
    BY <1>6 DEF DeleteConfirm, AddLinkForm
  <2>2. UNCHANGED op \/ \E k \in Free : \E o : op' = [op EXCEPT ![k] = o]
    BY <1>6 DEF DeleteConfirm, AddLinkForm
  <2>3. ASSUME NEW k \in Free, NEW o, op' = [op EXCEPT ![k] = o] PROVE ListsOwed /\ ItemsOwed
    <3>1. k \in Op /\ ~(op[k].at \in {"sent", "upserted", "answered"})
      BY DEF Free, InFlight
    <3>2. op[k].at = "idle"
      BY <3>1, Kinds, UnsentFields
    <3> QED  BY <2>3, <3>1, <3>2, StillOwed
  <2> QED  BY <2>1, <2>2, <2>3, OpsSame, CacheRests
<1>7. CASE Scroll \/ OpenDialog \/ CloseDialog
  <2>1. UNCHANGED libraryVars /\ UNCHANGED <<lists, details>> /\ op' \in {op, Unheard, FormGone}
    BY <1>7 DEF Scroll, OpenDialog, CloseDialog
  <2> QED  BY <2>1, LaterHeard, CacheRests
<1> QED  BY <1>1, <1>2, <1>3, <1>4, <1>5, <1>6, <1>7 DEF LibraryUser

LEMMA QueryCacheStep ==
  ASSUME TypeInv, FreshInv, LibraryQueries
  PROVE  CacheStep
<1>0. ListsOwed /\ ItemsOwed /\ UNCHANGED <<shelf, content>>
  BY OpsSame DEF LibraryQueries, ReadList, LandList, ReadDetail, LandDetail, Rebuild, libraryVars
<1>1. ASSUME NEW f \in Filter, ReadList(f) \/ LandList(f) PROVE CacheStep
  <2>1. UNCHANGED details /\ \E n : ListFollows(f, n) /\ lists' = [lists EXCEPT ![f] = n]
    <3>1. CASE lists' = [lists EXCEPT ![f] = Answer(@, ListItems(f, Offset(@)))] /\ ReadList(f)
      <4>1. PICK n : n = Answer(lists[f], ListItems(f, Offset(lists[f])))
        OBVIOUS
      <4> QED  BY <3>1, <4>1, ListMoves DEF ReadList
    <3>2. CASE lists' = [lists EXCEPT ![f] = Refuse(@, "failed")] /\ ReadList(f)
      <4>1. PICK n : n = Refuse(lists[f], "failed")
        OBVIOUS
      <4> QED  BY <3>2, <4>1, ListMoves DEF ReadList
    <3>3. CASE LandList(f)
      <4>1. PICK n : n = Land(lists[f])
        OBVIOUS
      <4> QED  BY <3>3, <4>1, ListMoves DEF LandList
    <3> QED  BY <1>1, <3>1, <3>2, <3>3 DEF ReadList
  <2> QED  BY <1>0, <2>1, OneListFollows, DetailsRest DEF CacheStep
<1>2. ASSUME NEW i \in Ids, ReadDetail(i) \/ LandDetail(i) \/ Rebuild(i) PROVE CacheStep
  <2>1. UNCHANGED lists /\ \E n : DetailFollows(i, n) /\ details' = [details EXCEPT ![i] = n]
    <3>1. CASE ReadDetail(i)
      <4>1. PICK n : /\ details' = [details EXCEPT ![i] = n]
                     /\ n \in {Answer(details[i], Single(GetItemDetail(i))), Refuse(details[i], "notFound"),
                               Refuse(details[i], "failed")}
                     /\ n = Answer(details[i], Single(GetItemDetail(i))) /\ ~Saved(i)
                          => n \in {Refuse(details[i], "notFound"), Refuse(details[i], "failed")}
        <5>1. PICK n : n = IF Saved(i) THEN Answer(details[i], Single(GetItemDetail(i)))
                           ELSE Refuse(details[i], "notFound")
          OBVIOUS
        <5>2. PICK m : m = Refuse(details[i], "failed")
          OBVIOUS
        <5>3. details' = [details EXCEPT ![i] = n] \/ details' = [details EXCEPT ![i] = m]
          BY <3>1, <5>1, <5>2 DEF ReadDetail
        <5> QED  BY <5>1, <5>2, <5>3
      <4>2. "notFound" \in Errors /\ "failed" \in Errors
        BY DEF Errors
      <4>3. DetailFollows(i, n)
        BY <3>1, <4>1, <4>2, DetailMoves DEF ReadDetail
      <4> QED  BY <3>1, <4>1, <4>3 DEF ReadDetail
    <3>2. CASE LandDetail(i)
      <4>1. PICK n : n = Land(details[i])
        OBVIOUS
      <4> QED  BY <3>2, <4>1, DetailMoves DEF LandDetail
    <3>3. CASE Rebuild(i)
      <4>1. PICK n : n = Mount(details[i], FALSE)
        OBVIOUS
      <4> QED  BY <3>3, <4>1, DetailMoves DEF Rebuild
    <3> QED  BY <1>2, <3>1, <3>2, <3>3
  <2> QED  BY <1>0, <2>1, OneDetailFollows, ListsStay DEF CacheStep
<1> QED  BY <1>1, <1>2 DEF LibraryQueries

-----------------------------------------------------------------------------
(* The service's steps.                                                    *)

\* Wherever the row of an article goes, the article is the same.
LEMMA HeldMoves ==
  ASSUME TypeInv, ServerOK', UNCHANGED content, NEW i,
         \A m \in DOMAIN shelf : shelf[m].id = i => \E n \in DOMAIN shelf' : shelf'[n] = shelf[m],
         \A n \in DOMAIN shelf' : shelf'[n].id = i => \E m \in DOMAIN shelf : shelf[m] = shelf'[n]
  PROVE  Held(i)' = Held(i)
<1>1. Saved(i)' = Saved(i)
  BY DEF Saved
<1>2. CASE ~Saved(i)
  BY <1>1, <1>2 DEF Held
<1>3. CASE Saved(i)
  <2>1. Row(i) \in DOMAIN shelf /\ shelf[Row(i)].id = i
    BY <1>3, RowIs
  <2>2. PICK n \in DOMAIN shelf' : shelf'[n] = shelf[Row(i)]
    BY <2>1
  <2>3. Row(i)' \in DOMAIN shelf' /\ shelf'[Row(i)'].id = i
    BY <1>1, <1>3 DEF Saved, Row
  <2>4. Row(i)' = n
    BY <2>1, <2>2, <2>3 DEF ServerOK, ShelfOK
  <2>5. GetItemDetail(i)' = GetItemDetail(i)
    BY <2>2, <2>4 DEF GetItemDetail
  <2> QED  BY <1>1, <1>3, <2>5 DEF Held
<1> QED  BY <1>2, <1>3

LEMMA AllOverlooked ==
  ASSUME TypeInv, lists' = OverlookQueries(lists), details' = OverlookQueries(details)
  PROVE  CacheStep
<1>1. DOMAIN lists = Filter /\ DOMAIN details = Ids
  BY Listed_Entries
<1>2. lists' = [f \in Filter |-> Overlooked(lists[f])] /\ details' = [i \in Ids |-> Overlooked(details[i])]
  BY <1>1 DEF OverlookQueries
<1>3. ASSUME NEW f \in Filter
      PROVE  lists'[f] \in Entries(Page(Item)) /\ Paged(lists'[f]) /\ ListFresh(f)'
  <2>1. PICK e \in Entries(Page(Item)) : e = lists[f] /\ Paged(e)
    BY Listed_Entries
  <2>2. PICK n : n = lists'[f]
    OBVIOUS
  <2>3. n \in Entries(Page(Item)) /\ Paged(n) /\ Distrusted(n)
    BY <1>2, <2>1, <2>2, OverlookedDistrusts
  <2>4. Agrees(n, FreshPages(Item, View(f))')
    BY <2>3, DistrustedAgrees
  <2> QED  BY <2>2, <2>3, <2>4 DEF ListFresh
<1>4. ASSUME NEW i \in Ids
      PROVE  details'[i] \in Entries(Page(Detail)) /\ SinglePage(details'[i]) /\ DetailFresh(i)'
  <2>1. PICK e \in Entries(Page(Detail)) : e = details[i] /\ SinglePage(e) /\ Paged(e)
    BY Listed_Entries, SingleIsPaged
  <2>2. PICK n : n = details'[i]
    OBVIOUS
  <2>3. n \in Entries(Page(Detail)) /\ SinglePage(n) /\ Distrusted(n)
    BY <1>2, <2>1, <2>2, OverlookedDistrusts, SinglesStay
  <2>4. Agrees(n, Held(i)')
    BY <2>3, DistrustedAgrees
  <2> QED  BY <2>2, <2>3, <2>4 DEF DetailFresh
<1> QED  BY <1>2, <1>3, <1>4 DEF CacheStep, ListsNext, DetailsNext

LEMMA OwedListsNext ==
  ASSUME TypeInv, OwedLists', UNCHANGED lists
  PROVE  ListsNext
BY Listed_Entries DEF ListsNext, ListFresh

LEMMA SaveCache ==
  ASSUME TypeInv, FreshInv, NEW k \in Op, SaveURL(k)
  PROVE  CacheStep
<1>1. UNCHANGED <<lists, details>> /\ UNCHANGED <<shelf, issued>>
      /\ \A u \in Url : content[u] # "none" => content'[u] = content[u]
  BY SavesContent DEF SaveURL
<1>2. PICK url \in Url : op' = [op EXCEPT ![k].at = "upserted", ![k].url = url]
  BY SavesContent
<1>3. PICK o : o = [op[k] EXCEPT !.at = "upserted", !.url = url]
  OBVIOUS
<1>4. op' = [op EXCEPT ![k] = o]
  BY <1>2, <1>3, OpsTyped
<1>5. op[k].kind = "save" /\ op[k].at = "sent"
  BY DEF SaveURL
<1>6. ~OwesLists(op[k]) /\ \A i : ~OwesItem(op[k], i)
  BY <1>5 DEF OwesLists, OwesItem
<1>7. ListsOwed /\ ItemsOwed
  BY <1>4, <1>6, OpStaysOwed
<1> QED  BY <1>1, <1>7, ListsStay, HeldStays, DetailsStay DEF CacheStep

\* The answer, and what its loss does to the cache.
LEMMA HandledCache ==
  ASSUME TypeInv, NEW k \in Op, Handle(k)
  PROVE  \E o \in Flights :
           /\ op' = [op EXCEPT ![k] = o] /\ o.at = "answered" /\ o.kind = op[k].kind /\ o.id = op[k].id
           /\ \/ UNCHANGED <<lists, details>> /\ (o.result = Refused(k) \/ (Refused(k) # "ok" /\ o.result = "failed")
                                                 \/ o.kind = "update")
              \/ lists' = OverlookQueries(lists) /\ details' = OverlookQueries(details)
<1>1. op[k] # Unsent
  BY UnsentFields DEF Handle, Writes
<1>2. PICK result \in {"ok", "notFound", "conflict", "failed"} :
        /\ Answers(k, result)
        /\ \/ UNCHANGED <<lists, details>> /\ (result = Refused(k) \/ (Refused(k) # "ok" /\ result = "failed")
                                               \/ op[k].kind = "update")
           \/ lists' = OverlookQueries(lists) /\ details' = OverlookQueries(details)
  <2>1. Refused(k) \in {"ok", "notFound", "conflict", "failed"}
    BY Refusals
  <2>2. \/ Answers(k, Refused(k)) /\ UNCHANGED <<lists, details>>
        \/ /\ Answers(k, "failed")
           /\ IF op[k].kind = "update" \/ Refused(k) # "ok"
              THEN UNCHANGED <<lists, details>>
              ELSE lists' = OverlookQueries(lists) /\ details' = OverlookQueries(details)
    BY DEF Handle
  <2> QED  BY <2>1, <2>2
<1>3. PICK o \in Flights : /\ op' = [op EXCEPT ![k] = o] /\ o.at = "answered" /\ o.result = result
                           /\ o.kind = op[k].kind /\ o.id = op[k].id
  BY <1>1, <1>2, AnsweredIs
<1> QED  BY <1>2, <1>3

LEMMA HandleCache ==
  ASSUME TypeInv, FreshInv, NEW k \in Op, Handle(k)
  PROVE  CacheStep
<1>1. PICK o \in Flights :
           /\ op' = [op EXCEPT ![k] = o] /\ o.at = "answered" /\ o.kind = op[k].kind /\ o.id = op[k].id
           /\ \/ UNCHANGED <<lists, details>> /\ (o.result = Refused(k) \/ (Refused(k) # "ok" /\ o.result = "failed")
                                                 \/ o.kind = "update")
              \/ lists' = OverlookQueries(lists) /\ details' = OverlookQueries(details)
  BY HandledCache
<1>2. CASE lists' = OverlookQueries(lists) /\ details' = OverlookQueries(details)
  BY <1>2, AllOverlooked
<1>3. op[k] # Unsent /\ op[k].kind \in {"update", "delete", "save"} /\ op[k].at \in {"sent", "upserted"}
      /\ (op[k].kind = "save" => op[k].at = "upserted") /\ (op[k].kind # "save" => op[k].at = "sent")
  BY UnsentFields, Kinds DEF Handle, Writes
<1>4. ServerOK' /\ UNCHANGED content
  BY Handled
<1>5. CASE UNCHANGED <<lists, details>> /\ op[k].kind = "update"
  <2>1. PICK i : i = op[k].id
    OBVIOUS
  <2>2. op[k].patch \in Patch /\ UpdateItem(i, op[k].patch)
    BY <1>5, <2>1, Handled
  <2>3. /\ DOMAIN shelf' = DOMAIN shelf
        /\ \A n \in DOMAIN shelf : shelf'[n].id = shelf[n].id /\ (shelf[n].id # i => shelf'[n] = shelf[n])
    BY <2>2, Updated
  <2>4. \A j \in Ids : j # i => Held(j)' = Held(j)
    BY <1>4, <2>3, HeldMoves
  <2>5. OwesLists(o) /\ OwesItem(o, i) /\ \A j : OwesItem(op[k], j) => OwesItem(o, j)
    BY <1>1, <1>5, <2>1 DEF OwesLists, OwesItem
  <2>6. OwedLists' /\ ItemsOwed /\ OwedItem(i)'
    BY <1>1, <2>5, OpStaysOwed
  <2>7. \A j \in Ids : OwedItem(j)' \/ Held(j)' = Held(j)
    BY <2>4, <2>6
  <2> QED  BY <1>5, <2>6, <2>7, OwedListsNext, DetailsStay DEF CacheStep
<1>6. CASE /\ UNCHANGED <<lists, details>> /\ op[k].kind # "update"
           /\ ~(lists' = OverlookQueries(lists) /\ details' = OverlookQueries(details))
  <2>1. ~OwesLists(op[k]) /\ \A j : ~OwesItem(op[k], j)
    BY <1>3, <1>6 DEF OwesLists, OwesItem
  <2>2. ListsOwed /\ ItemsOwed
    BY <1>1, <2>1, OpStaysOwed
  <2>3. CASE Refused(k) # "ok"
    <3>1. UNCHANGED shelf
      <4>1. CASE op[k].kind = "delete"
        <5>1. ~Saved(op[k].id) /\ DeleteItem(op[k].id)
          BY <1>3, <2>3, <4>1, Handled DEF Refused
        <5> QED  BY <5>1, Deleted
      <4>2. CASE op[k].kind = "save"
        <5>1. AlreadySaved(op[k].url) /\ CreateItem(op[k].url) /\ k \in Waiting /\ op[k].at = "upserted"
          BY <1>3, <2>3, <4>2, Handled DEF Refused
        <5> QED  BY <5>1, Created
      <4> QED  BY <1>3, <1>6, <4>1, <4>2
    <3> QED  BY <1>4, <1>6, <2>2, <3>1, ListsStay, DetailsRest DEF CacheStep
  <2>4. CASE Refused(k) = "ok"
    <3>1. o.result = "ok"
      BY <1>1, <1>6, <2>4
    <3>2. OwedLists'
      <4>1. OwesLists(o)
        BY <1>1, <1>3, <1>6, <3>1 DEF OwesLists
      <4> QED  BY <1>1, <4>1, OpStaysOwed
    <3>3. CASE op[k].kind = "save"
      <4>1. \A j : OwesItem(o, j)
        BY <1>1, <3>1, <3>3 DEF OwesItem
      <4>2. \A j \in Ids : OwedItem(j)'
        BY <1>1, <4>1, OpStaysOwed
      <4> QED  BY <1>6, <2>2, <3>2, <4>2, OwedListsNext, DetailsStay DEF CacheStep
    <3>4. CASE op[k].kind = "delete"
      <4>1. PICK i : i = op[k].id /\ DeleteItem(i)
        BY <3>4, Handled
      <4>2. \A j \in Ids : j # i => Held(j)' = Held(j)
        <5>1. /\ \A m \in DOMAIN shelf' : \E n \in DOMAIN shelf : shelf'[m] = shelf[n]
              /\ \A n \in DOMAIN shelf : shelf[n].id # i => \E m \in DOMAIN shelf' : shelf'[m] = shelf[n]
          BY <4>1, Deleted
        <5> QED  BY <1>4, <5>1, HeldMoves
      <4>3. OwesItem(o, i)
        BY <1>1, <3>1, <3>4, <4>1 DEF OwesItem
      <4>4. OwedItem(i)'
        BY <1>1, <4>3, OpStaysOwed
      <4>5. \A j \in Ids : OwedItem(j)' \/ Held(j)' = Held(j)
        BY <4>2, <4>4
      <4> QED  BY <1>6, <2>2, <3>2, <4>5, OwedListsNext, DetailsStay DEF CacheStep
    <3> QED  BY <1>3, <1>6, <3>3, <3>4
  <2> QED  BY <2>3, <2>4
<1> QED  BY <1>1, <1>2, <1>5, <1>6

LEMMA DropCache ==
  ASSUME TypeInv, FreshInv, NEW k \in Op, Drop(k)
  PROVE  CacheStep
<1>1. PICK o \in Flights : /\ op' = [op EXCEPT ![k] = o] /\ o.at = "answered"
                           /\ o.kind = op[k].kind /\ o.id = op[k].id
  BY DropOps
<1>2. op[k].at \in {"sent", "upserted"} /\ UNCHANGED libraryVars /\ UNCHANGED <<lists, details>>
  BY DEF Drop
<1>3. (OwesLists(op[k]) => OwesLists(o)) /\ \A i : OwesItem(op[k], i) => OwesItem(o, i)
  BY <1>1, <1>2 DEF OwesLists, OwesItem
<1>4. ListsOwed /\ ItemsOwed
  BY <1>1, <1>3, OpStaysOwed
<1> QED  BY <1>2, <1>4, CacheRests

-----------------------------------------------------------------------------
(* A change settles.                                                       *)

LEMMA ListsDistrusted ==
  ASSUME lists' = [f \in Filter |-> lists'[f]],
         \A f \in Filter : lists'[f] \in Entries(Page(Item)) /\ Paged(lists'[f]) /\ Distrusted(lists'[f])
  PROVE  ListsNext
<1>1. ASSUME NEW f \in Filter PROVE ListFresh(f)'
  <2>1. PICK n : n = lists'[f]
    OBVIOUS
  <2>2. Agrees(n, FreshPages(Item, View(f))')
    BY <2>1, DistrustedAgrees
  <2> QED  BY <2>1, <2>2 DEF ListFresh
<1> QED  BY <1>1 DEF ListsNext

LEMMA DetailsDistrusted ==
  ASSUME details' = [i \in Ids |-> details'[i]],
         \A i \in Ids : /\ details'[i] \in Entries(Page(Detail)) /\ SinglePage(details'[i])
                        /\ Distrusted(details'[i])
  PROVE  DetailsNext
<1>1. ASSUME NEW i \in Ids PROVE DetailFresh(i)'
  <2>1. PICK n : n = details'[i]
    OBVIOUS
  <2>2. Agrees(n, Held(i)')
    BY <2>1, DistrustedAgrees
  <2> QED  BY <2>1, <2>2 DEF DetailFresh
<1> QED  BY <1>1 DEF DetailsNext

LEMMA Invalidates ==
  ASSUME NEW ls, \A f \in Filter : ls[f] \in Entries(Page(Item)) /\ Paged(ls[f]), NEW f \in Filter
  PROVE  LET n == InvalidateLists(ls)[f]
         IN n \in Entries(Page(Item)) /\ Paged(n) /\ Distrusted(n)
<1>1. PICK e \in Entries(Page(Item)) : e = ls[f] /\ Paged(e)
  OBVIOUS
<1>2. PICK active \in BOOLEAN : active = OnList(f)
  BY DEF OnList
<1>3. InvalidateLists(ls)[f] = Invalidate(e, active)
  BY <1>1, <1>2 DEF InvalidateLists
<1> QED  BY <1>1, <1>3, InvalidateDistrusts

LEMMA DetailInvalidates ==
  ASSUME TypeInv, NEW i \in Ids
  PROVE  LET n == Invalidate(details[i], OnReader(i))
         IN n \in Entries(Page(Detail)) /\ SinglePage(n) /\ Distrusted(n)
<1>1. PICK e \in Entries(Page(Detail)) : e = details[i] /\ SinglePage(e) /\ Paged(e)
  BY Listed_Entries, SingleIsPaged
<1>2. PICK active \in BOOLEAN : active = OnReader(i)
  BY DEF OnReader
<1>3. Invalidate(e, active) \in Entries(Page(Detail)) /\ SinglePage(Invalidate(e, active))
      /\ Distrusted(Invalidate(e, active))
  BY <1>1, InvalidateDistrusts, SinglesStay
<1> QED  BY <1>1, <1>2, <1>3

LEMMA AllInvalidated ==
  ASSUME NEW ls, \A f \in Filter : ls[f] \in Entries(Page(Item)) /\ Paged(ls[f]),
         lists' = InvalidateLists(ls)
  PROVE  ListsNext
<1>1. lists' = [f \in Filter |-> lists'[f]]
  BY DEF InvalidateLists
<1> QED  BY <1>1, Invalidates, ListsDistrusted

LEMMA DetailDistrusted ==
  ASSUME TypeInv, FreshInv, UNCHANGED <<shelf, content>>, NEW i, NEW n,
         details' = [details EXCEPT ![i] = n],
         i \in Ids => n \in Entries(Page(Detail)) /\ SinglePage(n) /\ Distrusted(n),
         \A j \in Ids : j # i => (OwedItem(j) => OwedItem(j)')
  PROVE  DetailsNext
<1>1. details' = [j \in Ids |-> IF j = i THEN n ELSE details[j]]
  BY Listed_Entries
<1>2. ASSUME NEW j \in Ids
      PROVE  details'[j] \in Entries(Page(Detail)) /\ SinglePage(details'[j]) /\ DetailFresh(j)'
  <2>1. CASE j = i
    <3>1. Agrees(n, Held(i)')
      BY <2>1, DistrustedAgrees
    <3> QED  BY <1>1, <2>1, <3>1 DEF DetailFresh
  <2>2. CASE j # i
    <3>1. details'[j] = details[j]
      BY <1>1, <2>2
    <3>2. Held(j)' = Held(j)
      BY HeldStays
    <3>3. DetailFresh(j)
      BY DEF FreshInv
    <3>4. OwedItem(j)' \/ Agrees(details[j], Held(j))
      BY <2>2, <3>3 DEF DetailFresh
    <3>5. DetailFresh(j)'
      BY <3>1, <3>2, <3>4 DEF DetailFresh
    <3> QED  BY <3>1, <3>5, Listed_Entries
  <2> QED  BY <2>1, <2>2
<1> QED  BY <1>1, <1>2 DEF DetailsNext

LEMMA RollsBack ==
  ASSUME TypeInv, NEW k \in Op, op[k].kind = "update", NEW f \in Filter
  PROVE  RolledBack(k)[f] \in Entries(Page(Item)) /\ Paged(RolledBack(k)[f])
<1>1. op[k] \in Flights
  BY OpsTyped, UnsentFields DEF Ops
<1>2. PICK pages \in Seq(Page(Item)) : pages = op[k].back[f]
  BY <1>1 DEF Flights
<1>3. PICK e \in Entries(Page(Item)) : e = lists[f] /\ Paged(e)
  BY Listed_Entries
<1>4. RolledBack(k)[f] = IF pages = <<>> THEN e ELSE SetData(e, pages)
  BY <1>2, <1>3 DEF RolledBack
<1>5. pages # <<>> => SetData(e, pages) \in Entries(Page(Item)) /\ Paged(SetData(e, pages))
  BY <1>3, SetDataPaged
<1> QED  BY <1>3, <1>4, <1>5

LEMMA UpdateSettles ==
  ASSUME TypeInv, FreshInv, NEW k \in Op, UpdateSettled(k)
  PROVE  CacheStep
<1>1. PICK i : i = op[k].id
  OBVIOUS
<1>2. PICK n : n = Invalidate(details[i], OnReader(i))
  OBVIOUS
<1>3. /\ op[k].kind = "update" /\ op' = [op EXCEPT ![k] = Unsent]
      /\ details' = [details EXCEPT ![i] = n] /\ UNCHANGED <<shelf, content>>
  BY <1>1, <1>2 DEF UpdateSettled, Done, libraryVars
<1>4. PICK ls : /\ ls = (IF op[k].result = "ok" THEN lists ELSE RolledBack(k))
                /\ lists' = InvalidateLists(ls)
  BY DEF UpdateSettled
<1>5. ListsNext
  <2>1. \A f \in Filter : ls[f] \in Entries(Page(Item)) /\ Paged(ls[f])
    BY <1>3, <1>4, RollsBack, Listed_Entries
  <2> QED  BY <1>4, <2>1, AllInvalidated
<1>6. \A j \in Ids : j # i => ~OwesItem(op[k], j)
  BY <1>1, <1>3 DEF OwesItem
<1>7. \A j \in Ids : j # i => (OwedItem(j) => OwedItem(j)')
  BY <1>3, <1>6, OpStaysOwed
<1>8. i \in Ids => n \in Entries(Page(Detail)) /\ SinglePage(n) /\ Distrusted(n)
  BY <1>2, DetailInvalidates
<1>9. DetailsNext
  BY <1>3, <1>7, <1>8, DetailDistrusted
<1> QED  BY <1>5, <1>9 DEF CacheStep

LEMMA DeleteSettles ==
  ASSUME TypeInv, FreshInv, NEW k \in Op, useDeleteItem(k)
  PROVE  CacheStep
<1>1. /\ op[k].kind = "delete" /\ op' = [op EXCEPT ![k] = Unsent]
      /\ UNCHANGED libraryVars /\ UNCHANGED <<shelf, content>>
  BY DEF useDeleteItem, Done, libraryVars
<1>2. CASE op[k].result # "ok"
  <2>1. UNCHANGED <<lists, details>>
    BY <1>2 DEF useDeleteItem
  <2>2. ~OwesLists(op[k]) /\ \A j : ~OwesItem(op[k], j)
    BY <1>1, <1>2 DEF OwesLists, OwesItem
  <2> QED  BY <1>1, <2>1, <2>2, OpStaysOwed, CacheRests
<1>3. CASE op[k].result = "ok"
  <2>1. PICK i : i = op[k].id
    OBVIOUS
  <2>2. PICK n : n = Empty
    OBVIOUS
  <2>3. details' = [details EXCEPT ![i] = n]
    BY <1>3, <2>1, <2>2 DEF useDeleteItem
  <2>4. n \in Entries(Page(Detail)) /\ SinglePage(n) /\ Distrusted(n)
    BY <2>2, EmptyEntry, EmptyDistrusted DEF SinglePage, IsSingle
  <2>5. \A j \in Ids : j # i => ~OwesItem(op[k], j)
    BY <1>1, <2>1 DEF OwesItem
  <2>6. \A j \in Ids : j # i => (OwedItem(j) => OwedItem(j)')
    BY <1>1, <2>5, OpStaysOwed
  <2>7. DetailsNext
    BY <1>1, <2>3, <2>4, <2>6, DetailDistrusted
  <2>8. \A f \in Filter : lists[f] \in Entries(Page(Item)) /\ Paged(lists[f])
    BY Listed_Entries
  <2>9. CASE lists' = InvalidateLists(lists)
    BY <2>7, <2>8, <2>9, AllInvalidated DEF CacheStep
  <2>10. CASE lists' = [InvalidateLists(lists) EXCEPT ![Default] = Mount(@, FALSE)]
    <3>1. PICK ls : ls = InvalidateLists(lists)
      OBVIOUS
    <3>2. \A f \in Filter : ls[f] \in Entries(Page(Item)) /\ Paged(ls[f]) /\ Distrusted(ls[f])
      BY <2>8, <3>1, Invalidates
    <3>3. ls = [f \in Filter |-> ls[f]]
      BY <3>1 DEF InvalidateLists
    <3>4. PICK e \in Entries(Page(Item)) : e = ls[Default] /\ Paged(e) /\ Distrusted(e)
      BY <3>2, ClientAssumption
    <3>5. PICK m : m = Mount(e, FALSE)
      OBVIOUS
    <3>6. m \in Entries(Page(Item)) /\ Paged(m) /\ Distrusted(m)
      <4>1. PICK expired : expired = FALSE
        OBVIOUS
      <4>2. PICK G : G = {}
        OBVIOUS
      <4>3. Mount(e, expired) \in Entries(Page(Item)) /\ Paged(Mount(e, expired)) /\ Distrusted(Mount(e, expired))
        BY <3>4, MountAgrees
      <4> QED  BY <3>5, <4>1, <4>3
    <3>7. lists' = [f \in Filter |-> IF f = Default THEN m ELSE ls[f]]
      BY <2>10, <3>1, <3>3, <3>4, <3>5
    <3> QED  BY <2>7, <3>2, <3>6, <3>7, ListsDistrusted DEF CacheStep
  <2> QED  BY <1>3, <2>9, <2>10 DEF useDeleteItem
<1> QED  BY <1>2, <1>3

LEMMA SaveSettles ==
  ASSUME TypeInv, FreshInv, NEW k \in Op, useSaveLink(k)
  PROVE  CacheStep
<1>1. CASE op[k].result = "ok"
  <2>1. lists' = InvalidateLists(lists) /\ details' = [i \in Ids |-> Invalidate(details[i], OnReader(i))]
    BY <1>1 DEF useSaveLink
  <2>2. ListsNext
    BY <2>1, Listed_Entries, AllInvalidated
  <2>3. DetailsNext
    BY <2>1, DetailInvalidates, DetailsDistrusted
  <2> QED  BY <2>2, <2>3 DEF CacheStep
<1>2. CASE op[k].result # "ok"
  <2>1. UNCHANGED libraryVars /\ UNCHANGED <<lists, details>> /\ op' = [op EXCEPT ![k] = Unsent]
        /\ op[k].kind = "save"
    BY <1>2 DEF useSaveLink, Done
  <2>2. ~OwesLists(op[k]) /\ \A j : ~OwesItem(op[k], j)
    BY <1>2, <2>1 DEF OwesLists, OwesItem
  <2> QED  BY <2>1, <2>2, OpStaysOwed, CacheRests
<1> QED  BY <1>1, <1>2

LEMMA CacheSteps ==
  ASSUME TypeInv, FreshInv, Next
  PROVE  CacheStep
<1>1. CASE useMarkReadOnScroll
  BY <1>1, ScrollOps, UpdateCache DEF useMarkReadOnScroll
<1> QED  BY <1>1, UserCache, QueryCacheStep, SaveCache, HandleCache, DropCache, UpdateSettles, DeleteSettles,
            SaveSettles DEF Next, LibraryMutations

-----------------------------------------------------------------------------
(* The invariant.                                                          *)

LEMMA TypeSteps ==
  ASSUME TypeInv, FreshInv, Next
  PROVE  TypeInv' /\ FreshInv'
<1>1. LibraryTypeOK' /\ ShelfOK'
  BY ServerStep DEF ServerOK
<1>2. OpsOK' /\ Room' /\ budget' \in BudgetType
  BY OpSteps DEF OpStep
<1>3. ScreenOK(page')
  BY ScreenStep
<1>4. dialog' \in {"closed", "form", "saving", "failed"}
  BY DialogStep
<1>5. ListsNext /\ DetailsNext
  BY CacheSteps DEF CacheStep
<1>6. /\ lists' \in [Filter -> Entries(Page(Item))] /\ details' \in [Ids -> Entries(Page(Detail))]
      /\ \A f \in Filter : Paged(lists[f])'
      /\ \A i \in Ids : SinglePage(details[i])'
  BY <1>5 DEF ListsNext, DetailsNext, Paged, SinglePage, IsSingle
<1>7. op' \in [Op -> Ops]
  BY <1>2 DEF OpsOK
<1>8. TypeOK'
  BY <1>1, <1>2, <1>3, <1>4, <1>6, <1>7 DEF TypeOK, ScreenOK, Screens, Ops, Flights, BudgetType
<1>9. TypeInv'
  BY <1>1, <1>2, <1>3, <1>6, <1>8 DEF TypeInv, OpsOK, Room, ScreenOK
<1>10. FreshInv'
  BY <1>5 DEF FreshInv, ListsNext, DetailsNext
<1> QED  BY <1>9, <1>10

LEMMA FirstShelf ==
  ASSUME Init
  PROVE  LibraryTypeOK /\ ShelfOK /\ issued + budget.saves <= MaxItem /\ budget \in BudgetType
<1>1. /\ budget \in BudgetType /\ budget.saves \in Nat /\ Len(Before) + budget.saves <= MaxItem
      /\ Before \in Seq(Url) /\ Len(Before) \in Nat /\ DOMAIN Before = 1..Len(Before) /\ MaxItem \in Nat
      /\ issued = Len(Before)
  BY ClientAssumption, LibraryAssumption, LenProperties DEF Init, BudgetType
<1>2. \A n \in 1..Len(Before) : Before[n] \in Url
  BY <1>1, ElementOfSeq
<1>3. issued \in 0..MaxItem /\ issued + budget.saves <= MaxItem
  BY <1>1
<1> DEFINE Made(n) == [id |-> issued + 1 - n, url |-> Before[n], state |-> "unread", favorite |-> "no"]
<1>4. ASSUME NEW n \in 1..Len(Before)
      PROVE  Made(n) \in Item /\ Made(n).id = issued + 1 - n /\ Made(n).url = Before[n]
             /\ issued + 1 - n <= issued
  <2>1. issued + 1 - n \in Ids /\ issued + 1 - n <= issued
    BY <1>1, <1>3 DEF Ids
  <2>2. PICK i \in Ids : i = issued + 1 - n
    BY <2>1
  <2>3. PICK u \in Url : u = Before[n]
    BY <1>2
  <2>4. PICK it : it = [id |-> i, url |-> u, state |-> "unread", favorite |-> "no"]
    OBVIOUS
  <2>5. it \in Item /\ it.id = i /\ it.url = u
    BY <2>4 DEF Item, States, Ids
  <2> QED  BY <2>1, <2>2, <2>3, <2>4, <2>5
<1>5. shelf = [n \in 1..Len(Before) |-> Made(n)]
  BY <1>1 DEF Init
<1> HIDE DEF Made
<1>6. shelf \in Seq(Item) /\ DOMAIN shelf = 1..Len(Before)
  BY <1>1, <1>4, <1>5, IsASeq
<1>7. content = [u \in Url |-> IF \E n \in DOMAIN Before : Before[n] = u THEN "ok" ELSE "none"]
  BY DEF Init
<1>8. LibraryTypeOK
  BY <1>3, <1>6, <1>7 DEF LibraryTypeOK
<1>9. ASSUME NEW m \in DOMAIN shelf, NEW n \in DOMAIN shelf, shelf[m].id = shelf[n].id PROVE m = n
  <2>1. m \in 1..Len(Before) /\ n \in 1..Len(Before) /\ issued + 1 - m = issued + 1 - n
    BY <1>4, <1>5, <1>6, <1>9
  <2> QED  BY <1>1, <2>1
<1>10. ASSUME NEW n \in DOMAIN shelf PROVE shelf[n].id <= issued /\ content[shelf[n].url] # "none"
  <2>1. n \in 1..Len(Before) /\ shelf[n].url = Before[n] /\ shelf[n].id <= issued
    BY <1>4, <1>5, <1>6
  <2> QED  BY <1>1, <1>2, <1>7, <2>1
<1>11. ShelfOK
  BY <1>9, <1>10 DEF ShelfOK
<1> QED  BY <1>1, <1>3, <1>8, <1>11

LEMMA FirstEntry ==
  ASSUME NEW P
  PROVE  /\ Empty \in Entries(P) /\ Paged(Empty) /\ Distrusted(Empty)
         /\ Mount(Empty, FALSE) \in Entries(P) /\ Paged(Mount(Empty, FALSE)) /\ Distrusted(Mount(Empty, FALSE))
<1>1. Empty \in Entries(P) /\ Paged(Empty) /\ Distrusted(Empty)
  BY EmptyEntry, EmptyDistrusted
<1>2. PICK e \in Entries(P) : e = Empty
  BY <1>1
<1>3. PICK expired : expired = FALSE
  OBVIOUS
<1>4. Mount(e, expired) \in Entries(P) /\ Paged(Mount(e, expired)) /\ Distrusted(Mount(e, expired))
  BY <1>1, <1>2, MountAgrees
<1> QED  BY <1>1, <1>2, <1>3, <1>4

LEMMA FirstType ==
  ASSUME Init
  PROVE  TypeInv /\ FreshInv
<1>1. LibraryTypeOK /\ ShelfOK /\ issued + budget.saves <= MaxItem /\ budget \in BudgetType
  BY FirstShelf
<1>2. Default \in Filter
  BY ClientAssumption
<1>3. op = [k \in Op |-> Unsent] /\ \A k \in Op : OpOK(op[k])
  BY UnsentFields DEF Init, OpOK
<1>4. Waiting = {}
  BY <1>3, UnsentFields DEF Waiting
<1>5. issued + Cardinality(Waiting) + budget.saves <= MaxItem
  <2>1. Cardinality(Waiting) = 0 /\ issued \in Int /\ budget.saves \in Int
    BY <1>1, <1>4, FS_EmptySet DEF LibraryTypeOK, BudgetType
  <2> QED  BY <1>1, <2>1
<1>6. PICK first : first = Mount(Empty, FALSE)
  OBVIOUS
<1>7. lists = [f \in Filter |-> IF f = Default THEN first ELSE Empty] /\ details = [i \in Ids |-> Empty]
  BY <1>6 DEF Init
<1>8. ASSUME NEW f \in Filter
      PROVE  lists[f] \in Entries(Page(Item)) /\ Paged(lists[f]) /\ ListFresh(f)
  <2>1. lists[f] \in Entries(Page(Item)) /\ Paged(lists[f]) /\ Distrusted(lists[f])
    BY <1>6, <1>7, FirstEntry
  <2> QED  BY <2>1, DistrustedAgrees DEF ListFresh
<1>9. ASSUME NEW i \in Ids
      PROVE  details[i] \in Entries(Page(Detail)) /\ SinglePage(details[i]) /\ DetailFresh(i)
  <2>1. details[i] \in Entries(Page(Detail)) /\ Distrusted(details[i]) /\ details[i] = Empty
    BY <1>7, FirstEntry
  <2>2. SinglePage(Empty)
    BY EmptyEntry DEF SinglePage, IsSingle
  <2> QED  BY <2>1, <2>2, DistrustedAgrees DEF DetailFresh
<1>10. page \in Screens /\ page.at = "list"
  <2>1. PICK held \in Seq(Page(Item)) : held = <<>>
    BY NothingHeld
  <2>2. PICK p : p = page
    OBVIOUS
  <2>3. p = [at |-> "list", filter |-> Default, id |-> 0, held |-> held, hand |-> "no",
             deep |-> FALSE, fired |-> FALSE, confirm |-> 0]
    BY <2>1, <2>2 DEF Init
  <2>4. p \in Screens /\ p.at = "list"
    BY <1>2, <2>3 DEF Screens
  <2> QED  BY <2>2, <2>4
<1>11. TypeOK
  <2>1. /\ lists \in [Filter -> Entries(Page(Item))] /\ details \in [Ids -> Entries(Page(Detail))]
    BY <1>7, <1>8, <1>9
  <2>2. dialog \in {"closed", "form", "saving", "failed"}
    BY DEF Init
  <2>3. op \in [Op -> Ops]
    BY <1>3 DEF Ops
  <2> QED  BY <1>1, <1>10, <2>1, <2>2, <2>3 DEF TypeOK, Screens, Ops, Flights, BudgetType
<1>12. TypeInv
  BY <1>1, <1>3, <1>5, <1>8, <1>9, <1>10, <1>11 DEF TypeInv
<1> QED  BY <1>8, <1>9, <1>12 DEF FreshInv

LEMMA NothingChanges ==
  ASSUME TypeInv, FreshInv, UNCHANGED vars
  PROVE  TypeInv' /\ FreshInv'
<1>1. UNCHANGED <<shelf, content, issued>> /\ UNCHANGED <<lists, details, page, dialog, op, budget>>
  BY DEF vars, libraryVars, clientVars
<1>2. TypeInv'
  BY <1>1 DEF TypeInv, TypeOK, LibraryTypeOK, ShelfOK, Waiting, OpOK, Paged, SinglePage, IsSingle
<1>3. CacheStep
  BY <1>1, OpsSame, ListsStay, DetailsRest DEF CacheStep
<1> QED  BY <1>2, <1>3 DEF FreshInv, CacheStep, ListsNext, DetailsNext

\* The state is of the declared types, an id is never given twice, and what the
\* cache takes for fresh is fresh or owed an invalidation, at all times.
THEOREM CacheInvariant == Spec => [](TypeInv /\ FreshInv)
<1>1. Init => TypeInv /\ FreshInv
  BY FirstType
<1>2. TypeInv /\ FreshInv /\ [Next]_vars => TypeInv' /\ FreshInv'
  BY TypeSteps, NothingChanges
<1> QED  BY <1>1, <1>2, PTL DEF Spec

\* Every variable of the library's client and service keeps its type, and no
\* item is given an id beyond the last (types.ts; library_items.id).
THEOREM LibraryTypes == Spec => []TypeOK
<1>1. TypeInv => TypeOK
  BY DEF TypeInv
<1> QED  BY <1>1, CacheInvariant, PTL

LEMMA NothingOwed ==
  ASSUME TypeInv, InFlight = {}
  PROVE  ~OwedLists /\ \A i : ~OwedItem(i)
<1>1. ASSUME NEW k \in Op PROVE op[k] = Unsent
  BY <1>1, Kinds DEF InFlight
<1> QED  BY <1>1, UnsentFields DEF OwedLists, OwedItem, OwesLists, OwesItem

LEMMA FreshIsCurrent ==
  ASSUME TypeInv, NEW f, lists[f].data \in FreshPages(Item, View(f))
  PROVE  CurrentList(f)
<1>1. PICK pages \in Seq(Page(Item)) : pages = lists[f].data /\ Beginning(pages, View(f))
                                       /\ Last(pages).total = Len(View(f))
  BY DEF FreshPages
<1>2. PICK V \in Seq(Item) : V = View(f) /\ Len(V) \in Nat
  BY ViewType
<1>3. Loaded(pages) \in Nat /\ Loaded(pages) <= Len(V) /\ Rows(pages) = SubSeq(V, 1, Loaded(pages))
  BY <1>1, <1>2, RowsType DEF Beginning
<1>4. Min({Loaded(pages), Len(V)}) = Loaded(pages)
  BY <1>2, <1>3, Smaller
<1> QED  BY <1>1, <1>2, <1>3, <1>4 DEF CurrentList

\* Once no change is under way, every list and article that the cache takes for
\* fresh is what the server holds, however patches, rollbacks, invalidations,
\* cancelled and running fetches and lost answers followed each other
\* (use-mutations.tsx).
THEOREM LibraryFreshness == Spec => []FreshMatchesServer
<1>1. ASSUME TypeInv, FreshInv PROVE FreshMatchesServer
  <2> SUFFICES ASSUME InFlight = {}
               PROVE  /\ \A f \in Filter : Trusted(lists[f]) => CurrentList(f)
                      /\ \A i \in Ids : Trusted(details[i]) => CurrentDetail(i)
    BY DEF FreshMatchesServer
  <2>1. ~OwedLists /\ \A i : ~OwedItem(i)
    BY <1>1, NothingOwed
  <2>2. ASSUME NEW f \in Filter, Trusted(lists[f]) PROVE CurrentList(f)
    <3>1. Kept(lists[f]) /\ Agrees(lists[f], FreshPages(Item, View(f)))
      BY <1>1, <2>1, <2>2, TrustedIsKept DEF FreshInv, ListFresh
    <3>2. lists[f].data \in FreshPages(Item, View(f))
      BY <3>1 DEF Agrees
    <3> QED  BY <1>1, <3>2, FreshIsCurrent
  <2>3. ASSUME NEW i \in Ids, Trusted(details[i]) PROVE CurrentDetail(i)
    <3>1. Kept(details[i]) /\ Agrees(details[i], Held(i))
      BY <1>1, <2>1, <2>3, TrustedIsKept DEF FreshInv, DetailFresh
    <3>2. details[i].data \in Held(i)
      BY <3>1 DEF Agrees
    <3>3. Saved(i) /\ details[i].data = <<Single(GetItemDetail(i))>>
      BY <3>2 DEF Held
    <3>4. PICK d : d = GetItemDetail(i)
      OBVIOUS
    <3>5. <<Single(d)>>[1].items[1] = d
      BY DEF Single
    <3> QED  BY <3>3, <3>4, <3>5 DEF CurrentDetail, Only
  <2> QED  BY <2>2, <2>3
<1> QED  BY <1>1, CacheInvariant, PTL
=============================================================================
