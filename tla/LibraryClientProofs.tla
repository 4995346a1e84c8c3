------------------------- MODULE LibraryClientProofs -------------------------
(***************************************************************************)
(* What holds of the library for any number of articles, filters and        *)
(* mutations: the first extraction of an address stands, a mark made by hand *)
(* is not undone by the scroll listener, and the list on screen never stays  *)
(* without data, error and request.                                        *)
(***************************************************************************)
EXTENDS LibraryClient, SequenceTheorems, TLAPS

Extraction == {"none", "ok", "failed"}

\* A record with the fields of a page, of a mutation, whatever their values.
IsPage(p) ==
  p \in [at : {p.at}, filter : {p.filter}, id : {p.id}, held : {p.held}, hand : {p.hand},
         deep : {p.deep}, fired : {p.fired}, confirm : {p.confirm}]
IsOp(o) ==
  o \in [kind : {o.kind}, id : {o.id}, patch : {o.patch}, url : {o.url}, by : {o.by},
         back : {o.back}, at : {o.at}, result : {o.result}, heard : {o.heard}]

Marking(o) == o.by = "scroll" /\ o.at = "sent"

(* The strengthening: a mark the listener has sent was sent before the user  *)
(* toggled by hand, and the toggle then saw it under way.                   *)
HandInv ==
  /\ content \in [Url -> Extraction]
  /\ IsPage(page)
  /\ op = [k \in Op |-> op[k]]
  /\ \A k \in Op : IsOp(op[k])
  /\ \A k \in Op : Marking(op[k]) =>
       /\ op[k].kind = "update"
       /\ OnReader(op[k].id) => page.hand # "unread"

-----------------------------------------------------------------------------
(* Most steps start no mark, and neither toggle nor change the page.        *)

SamePlace(p, q) == q.at = p.at /\ q.id = p.id /\ q.hand = p.hand
SameMark(o, n) == Marking(n) => Marking(o) /\ n.id = o.id /\ n.kind = o.kind

LEMMA Keeps ==
  ASSUME HandInv,
         content' \in [Url -> Extraction],
         IsPage(page'), SamePlace(page, page') \/ page'.hand # "unread",
         op' = [k \in Op |-> op'[k]],
         \A k \in Op : IsOp(op'[k]) /\ SameMark(op[k], op'[k])
  PROVE  HandInv'
BY DEF HandInv, SamePlace, SameMark, OnReader, Marking, IsOp, IsPage

LEMMA KeepsPage ==
  ASSUME HandInv, UNCHANGED op,
         content' \in [Url -> Extraction],
         IsPage(page'), SamePlace(page, page') \/ page'.hand # "unread"
  PROVE  HandInv'
<1>1. \A k \in Op : IsOp(op'[k]) /\ SameMark(op[k], op'[k])
  BY DEF HandInv, SameMark, Marking
<1>2. op' = [k \in Op |-> op'[k]]
  BY DEF HandInv
<1> QED  BY <1>1, <1>2, Keeps

LEMMA OneOp ==
  ASSUME HandInv, NEW k \in Op, NEW o, IsOp(o), SameMark(op[k], o),
         op' = [op EXCEPT ![k] = o]
  PROVE  /\ op' = [n \in Op |-> op'[n]]
         /\ \A n \in Op : IsOp(op'[n]) /\ SameMark(op[n], op'[n])
<1>1. DOMAIN op = Op
  BY DEF HandInv
<1>2. op' = [n \in Op |-> IF n = k THEN o ELSE op[n]]
  BY <1>1
<1> QED  BY <1>2 DEF HandInv, SameMark, Marking

LEMMA PageFields ==
  ASSUME NEW p, IsPage(p), NEW v
  PROVE  /\ IsPage([p EXCEPT !.held = v]) /\ SamePlace(p, [p EXCEPT !.held = v])
         /\ IsPage([p EXCEPT !.confirm = v]) /\ SamePlace(p, [p EXCEPT !.confirm = v])
         /\ IsPage([p EXCEPT !.deep = v]) /\ SamePlace(p, [p EXCEPT !.deep = v])
         /\ IsPage([p EXCEPT !.fired = v]) /\ SamePlace(p, [p EXCEPT !.fired = v])
BY DEF IsPage, SamePlace

LEMMA HandField ==
  ASSUME NEW p, IsPage(p), NEW v
  PROVE  /\ IsPage([p EXCEPT !.hand = v])
         /\ [p EXCEPT !.hand = v].at = p.at /\ [p EXCEPT !.hand = v].id = p.id
         /\ [p EXCEPT !.hand = v].hand = v
BY DEF IsPage

LEMMA AtIsPage ==
  ASSUME NEW p, NEW held
  PROVE  IsPage(At(p, held)) /\ At(p, held).hand = "no"
BY DEF At, IsPage

\* What a mutation becomes that is not a mark being sent.
LEMMA OpFields ==
  ASSUME NEW o, IsOp(o), NEW v, NEW w
  PROVE  /\ IsOp([o EXCEPT !.heard = v]) /\ SameMark(o, [o EXCEPT !.heard = v])
         /\ IsOp([o EXCEPT !.at = v, !.url = w])
         /\ v # "sent" => SameMark(o, [o EXCEPT !.at = v, !.url = w])
         /\ IsOp([o EXCEPT !.at = v, !.result = w])
         /\ v # "sent" => SameMark(o, [o EXCEPT !.at = v, !.result = w])
BY DEF IsOp, SameMark, Marking

LEMMA SentBlank == IsOp(Unsent) /\ Unsent.by = "hand"
BY DEF IsOp, Unsent

LEMMA SentByHand ==
  /\ \A i : IsOp(deleteItem(i)) /\ deleteItem(i).by = "hand"
  /\ \A u : IsOp(saveLink(u)) /\ saveLink(u).by = "hand"
<1>1. \A o, i : IsOp(o) /\ o.by = "hand" =>
        LET d == [o EXCEPT !.kind = "delete", !.id = i, !.at = "sent", !.heard = TRUE]
        IN IsOp(d) /\ d.by = "hand"
  BY DEF IsOp
<1>2. \A o, u : IsOp(o) /\ o.by = "hand" =>
        LET d == [o EXCEPT !.kind = "save", !.url = u, !.at = "sent", !.heard = TRUE]
        IN IsOp(d) /\ d.by = "hand"
  BY DEF IsOp
<1> QED  BY <1>1, <1>2, SentBlank DEF deleteItem, saveLink

LEMMA SentUpdate ==
  ASSUME NEW i, NEW patch, NEW by, NEW back
  PROVE  /\ IsOp(updateItem(i, patch, by, back))
         /\ updateItem(i, patch, by, back).by = by
         /\ updateItem(i, patch, by, back).id = i
         /\ updateItem(i, patch, by, back).kind = "update"
<1>1. PICK u : u = [Unsent EXCEPT !.kind = "update", !.id = i, !.patch = patch, !.at = "sent"]
  OBVIOUS
<1>2. IsOp(u) /\ u.id = i /\ u.kind = "update"
  BY <1>1, SentBlank DEF IsOp
<1>3. PICK o : o = [u EXCEPT !.by = by, !.back = back]
  OBVIOUS
<1>4. IsOp(o) /\ o.by = by /\ o.id = i /\ o.kind = "update"
  BY <1>2, <1>3 DEF IsOp
<1>5. o = updateItem(i, patch, by, back)
  BY <1>1, <1>3 DEF updateItem
<1> QED  BY <1>4, <1>5

-----------------------------------------------------------------------------
(* The steps of the user.                                                  *)

LEMMA UnheardKeeps ==
  ASSUME HandInv
  PROVE  /\ Unheard = [k \in Op |-> Unheard[k]]
         /\ \A k \in Op : IsOp(Unheard[k]) /\ SameMark(op[k], Unheard[k])
BY OpFields DEF HandInv, Unheard

LEMMA ContentStays ==
  ASSUME HandInv, UNCHANGED content
  PROVE  content' \in [Url -> Extraction]
BY DEF HandInv

LEMMA Navigates ==
  ASSUME HandInv, NEW f, NEW i, LibraryListRoute(f) \/ OpenReader(i)
  PROVE  HandInv'
<1>1. IsPage(page') /\ page'.hand = "no"
  BY AtIsPage DEF LibraryListRoute, OpenReader
<1>2. op' = [k \in Op |-> op'[k]] /\ \A k \in Op : IsOp(op'[k]) /\ SameMark(op[k], op'[k])
  BY UnheardKeeps DEF LibraryListRoute, OpenReader, HandInv, SameMark
<1>3. content' \in [Url -> Extraction]
  BY ContentStays DEF LibraryListRoute, OpenReader, libraryVars
<1> QED  BY <1>1, <1>2, <1>3, Keeps

\* Steps that leave the mutations alone.
Looks ==
  \/ \E f \in Filter : LoadMore(f) \/ ReadList(f) \/ LandList(f)
  \/ \E i \in Ids : ReadDetail(i) \/ LandDetail(i) \/ Rebuild(i)
  \/ Retry \/ Scroll \/ OpenDialog

LEMMA LooksKeeps ==
  ASSUME HandInv, Looks
  PROVE  HandInv'
<1>1. IsPage(page) BY DEF HandInv
<1>2. UNCHANGED op /\ UNCHANGED content
  BY DEF Looks, LoadMore, ReadList, LandList, ReadDetail, LandDetail, Rebuild, Retry, Scroll,
         OpenDialog, libraryVars
<1>3. IsPage(page') /\ SamePlace(page, page')
  <2>1. CASE \E f \in Filter : LandList(f)
    <3>1. page' = page \/ page' = [page EXCEPT !.held = <<>>]
      BY <2>1 DEF LandList
    <3> QED  BY <1>1, <3>1 DEF IsPage, SamePlace
  <2>2. CASE \E i \in Ids : LandDetail(i)
    <3>1. page' = page \/ page' = [page EXCEPT !.fired = FALSE]
      BY <2>2 DEF LandDetail, Rearmed
    <3> QED  BY <1>1, <3>1 DEF IsPage, SamePlace
  <2>3. CASE Scroll
    BY <1>1, <2>3, PageFields DEF Scroll
  <2>4. CASE UNCHANGED page
    BY <1>1, <2>4 DEF SamePlace
  <2> QED  BY <2>1, <2>2, <2>3, <2>4 DEF Looks, LoadMore, ReadList, ReadDetail, Rebuild, Retry, OpenDialog
<1> QED  BY <1>2, <1>3, ContentStays, KeepsPage

\* Every change of an item is an update with the snapshot of the lists.
LEMMA Updates ==
  ASSUME HandInv, NEW i, NEW patch, NEW by, useUpdateItem(i, patch, by)
  PROVE  \E k \in Op : \E back : op' = [op EXCEPT ![k] = updateItem(i, patch, by, back)]
<1>1. PICK k \in Free : op' = [op EXCEPT ![k] =
         updateItem(i, patch, by, [f \in Filter |-> lists[f].data])]
  BY DEF useUpdateItem
<1>2. PICK back : back = [f \in Filter |-> lists[f].data]
  OBVIOUS
<1>3. k \in Op
  BY DEF Free
<1> QED  BY <1>1, <1>2, <1>3

LEMMA ByHand ==
  ASSUME HandInv, NEW i, NEW patch, useUpdateItem(i, patch, "hand")
  PROVE  /\ op' = [k \in Op |-> op'[k]]
         /\ \A k \in Op : IsOp(op'[k]) /\ SameMark(op[k], op'[k])
<1>0. PICK k \in Op : \E back : op' = [op EXCEPT ![k] = updateItem(i, patch, "hand", back)]
  BY Updates
<1>1. PICK back : op' = [op EXCEPT ![k] = updateItem(i, patch, "hand", back)]
  BY <1>0
<1>2. PICK by : by = "hand"
  OBVIOUS
<1>3. PICK o : o = updateItem(i, patch, by, back)
  OBVIOUS
<1>5. IsOp(o) /\ o.by = by
  BY <1>3, SentUpdate
<1>4. SameMark(op[k], o)
  BY <1>2, <1>5 DEF SameMark, Marking
<1>6. op' = [op EXCEPT ![k] = o]
  BY <1>1, <1>2, <1>3
<1> QED  BY <1>4, <1>5, <1>6, OneOp

LEMMA ActsKeeps ==
  ASSUME HandInv, NEW it, useItemActions(it)
  PROVE  HandInv'
<1>1. IsPage(page) /\ content' \in [Url -> Extraction]
  BY ContentStays DEF HandInv, useItemActions, libraryVars
<1>2. CASE ToggleRead(it)
  <2>1. PICK to : /\ useUpdateItem(it.id, [field |-> "state", to |-> to], "hand")
                  /\ page' = IF page.at = "reader" THEN [page EXCEPT !.hand = HandMark(page.id, to)]
                             ELSE page
    BY <1>2 DEF ToggleRead, SetState
  <2>2. /\ op' = [k \in Op |-> op'[k]]
        /\ \A k \in Op : IsOp(op'[k]) /\ SameMark(op[k], op'[k])
    BY <2>1, ByHand
  <2>3. CASE page.at # "reader"
    <3>1. page' = page  BY <2>1, <2>3
    <3> QED  BY <1>1, <2>2, <3>1, Keeps DEF SamePlace
  <2>4. CASE page.at = "reader"
    <3>1. PICK mark : mark = HandMark(page.id, to) /\ page' = [page EXCEPT !.hand = mark]
      BY <2>1, <2>4
    <3>2. IsPage(page') /\ page'.at = page.at /\ page'.id = page.id /\ page'.hand = mark
      BY <1>1, <3>1, HandField
    <3>3. ASSUME NEW k \in Op, Marking(op'[k]), page'.id = op'[k].id
          PROVE  page'.hand # "unread"
      <4>1. Marking(op[k]) /\ op[k].kind = "update" /\ op[k].id = page.id
        BY <2>2, <3>2, <3>3 DEF SameMark, HandInv
      <4>2. k \in InFlight
        BY <4>1 DEF InFlight, Marking
      <4> QED  BY <3>1, <3>2, <4>1, <4>2 DEF HandMark
    <3>4. \A k \in Op : Marking(op'[k]) => op'[k].kind = "update"
      BY <2>2 DEF SameMark, HandInv
    <3> QED  BY <1>1, <2>2, <3>2, <3>3, <3>4 DEF HandInv, OnReader
  <2> QED  BY <2>3, <2>4
<1>3. CASE ToggleArchive(it) \/ ToggleFavorite(it)
  <2>1. UNCHANGED page /\ \E patch : useUpdateItem(it.id, patch, "hand")
    BY <1>3 DEF ToggleArchive, ToggleFavorite, SetState
  <2>2. IsPage(page') /\ SamePlace(page, page')
    BY <1>1, <2>1 DEF SamePlace
  <2> QED  BY <1>1, <2>1, <2>2, ByHand, Keeps
<1>4. CASE RequestDelete(it)
  <2>1. IsPage(page') /\ SamePlace(page, page') /\ UNCHANGED op
    BY <1>1, <1>4, PageFields DEF RequestDelete
  <2> QED  BY <1>1, <2>1, KeepsPage
<1> QED  BY <1>2, <1>3, <1>4 DEF useItemActions

LEMMA DialogsKeep ==
  ASSUME HandInv, NEW url, DeleteConfirm \/ CloseDialog \/ AddLinkForm(url)
  PROVE  HandInv'
<1>1. IsPage(page) /\ content' \in [Url -> Extraction]
  BY ContentStays DEF HandInv, DeleteConfirm, CloseDialog, AddLinkForm, libraryVars
<1>2. IsPage(page') /\ SamePlace(page, page')
  <2>1. page' = page \/ page' = [page EXCEPT !.confirm = 0]
    BY DEF DeleteConfirm, CloseDialog, AddLinkForm
  <2> QED  BY <1>1, <2>1 DEF IsPage, SamePlace
<1>3. /\ op' = [k \in Op |-> op'[k]]
      /\ \A k \in Op : IsOp(op'[k]) /\ SameMark(op[k], op'[k])
  <2>1. CASE UNCHANGED op
    BY <2>1 DEF HandInv, SameMark, Marking
  <2>2. CASE \E k \in Free : \E o : IsOp(o) /\ o.by = "hand" /\ op' = [op EXCEPT ![k] = o]
    <3>3. PICK k \in Free : \E o : IsOp(o) /\ o.by = "hand" /\ op' = [op EXCEPT ![k] = o]
      BY <2>2
    <3>1. PICK o : IsOp(o) /\ o.by = "hand" /\ op' = [op EXCEPT ![k] = o]
      BY <3>3
    <3>2. k \in Op /\ SameMark(op[k], o)
      BY <3>1 DEF Free, SameMark, Marking
    <3> QED  BY <3>1, <3>2, OneOp
  <2>3. CASE CloseDialog
    BY <2>3, OpFields DEF CloseDialog, FormGone, HandInv, SameMark
  <2>4. AddLinkForm(url) => \E k \in Free : \E o : IsOp(o) /\ o.by = "hand" /\ op' = [op EXCEPT ![k] = o]
    BY SentByHand DEF AddLinkForm
  <2>5. DeleteConfirm => \/ UNCHANGED op
                        \/ \E k \in Free : \E o : IsOp(o) /\ o.by = "hand" /\ op' = [op EXCEPT ![k] = o]
    BY SentByHand DEF DeleteConfirm
  <2> QED  BY <2>1, <2>2, <2>3, <2>4, <2>5
<1> QED  BY <1>1, <1>2, <1>3, Keeps

LEMMA ScrollMarks ==
  ASSUME HandInv, useMarkReadOnScroll
  PROVE  HandInv'
<1>1. IsPage(page) /\ content' \in [Url -> Extraction]
  BY ContentStays DEF HandInv, useMarkReadOnScroll, libraryVars
<1>2. page.hand = "no" /\ page' = [page EXCEPT !.fired = TRUE]
  BY DEF useMarkReadOnScroll, Enabled
<1>3. IsPage(page') /\ page'.hand # "unread"
  BY <1>1, <1>2 DEF IsPage
<1>7. \E k \in Op : \E o : IsOp(o) /\ o.kind = "update" /\ op' = [op EXCEPT ![k] = o]
  <2>1. PICK i, patch, by : useUpdateItem(i, patch, by)
    BY DEF useMarkReadOnScroll
  <2>5. PICK k \in Op : \E back : op' = [op EXCEPT ![k] = updateItem(i, patch, by, back)]
    BY <2>1, Updates
  <2>2. PICK back : op' = [op EXCEPT ![k] = updateItem(i, patch, by, back)]
    BY <2>5
  <2>3. PICK o : o = updateItem(i, patch, by, back)
    OBVIOUS
  <2>4. IsOp(o) /\ o.kind = "update"
    BY <2>3, SentUpdate
  <2> QED  BY <2>2, <2>3, <2>4
<1>8. PICK k \in Op : \E o : IsOp(o) /\ o.kind = "update" /\ op' = [op EXCEPT ![k] = o]
  BY <1>7
<1>4. PICK o : IsOp(o) /\ o.kind = "update" /\ op' = [op EXCEPT ![k] = o]
  BY <1>8
<1>5. op' = [n \in Op |-> IF n = k THEN o ELSE op[n]]
  BY <1>4 DEF HandInv
<1> QED  BY <1>1, <1>3, <1>4, <1>5 DEF HandInv, Marking

-----------------------------------------------------------------------------
(* The steps of the service, and the answers.                              *)

LEMMA ServedKeeps ==
  ASSUME HandInv, NEW k \in Op, NEW o, IsOp(o), SameMark(op[k], o), op' = [op EXCEPT ![k] = o],
         UNCHANGED page, content' \in [Url -> Extraction]
  PROVE  HandInv'
<1>1. IsPage(page') /\ SamePlace(page, page')
  BY DEF HandInv, SamePlace
<1> QED  BY <1>1, OneOp, Keeps

LEMMA AnswersIs ==
  ASSUME HandInv, NEW k \in Op, NEW result, Answers(k, result)
  PROVE  \E o : IsOp(o) /\ SameMark(op[k], o) /\ op' = [op EXCEPT ![k] = o]
<1>1. PICK o : o = [op[k] EXCEPT !.at = "answered", !.result = result]
  OBVIOUS
<1>2. op' = [op EXCEPT ![k] = o]
  BY <1>1 DEF Answers, HandInv
<1>3. IsOp(o) /\ SameMark(op[k], o)
  BY <1>1, OpFields DEF HandInv
<1> QED  BY <1>2, <1>3

LEMMA ServesKeep ==
  ASSUME HandInv, NEW k \in Op, Handle(k) \/ SaveURL(k) \/ Drop(k)
  PROVE  HandInv'
<1>1. CASE Handle(k)
  <2>1. UNCHANGED page /\ Write(k)
    BY <1>1 DEF Handle
  <2>3. UNCHANGED content
    BY <1>1, <2>1 DEF Write, Handle, Writes, UpdateItem, DeleteItem, CreateItem
  <2>2. \E result : Answers(k, result)
    BY <1>1 DEF Handle
  <2> QED  BY <2>1, <2>2, <2>3, AnswersIs, ContentStays, ServedKeeps
<1>2. CASE SaveURL(k)
  <2>1. PICK extracted \in BOOLEAN :
          /\ UpsertContent(op[k].url, extracted)
          /\ op' = [op EXCEPT ![k].at = "upserted", ![k].url = SavedAs(op[k].url, extracted)]
    BY <1>2 DEF SaveURL
  <2>2. content' \in [Url -> Extraction]
    BY <2>1 DEF UpsertContent, HandInv, Extraction
  <2>3. PICK o : o = [op[k] EXCEPT !.at = "upserted", !.url = SavedAs(op[k].url, extracted)]
    OBVIOUS
  <2>4. op' = [op EXCEPT ![k] = o]
    BY <2>1, <2>3 DEF HandInv
  <2>5. IsOp(o) /\ SameMark(op[k], o)
    BY <2>3, OpFields DEF HandInv
  <2> QED  BY <1>2, <2>2, <2>4, <2>5, ServedKeeps DEF SaveURL
<1>3. CASE Drop(k)
  <2>1. UNCHANGED page /\ UNCHANGED content /\ Answers(k, "failed")
    BY <1>3 DEF Drop, libraryVars
  <2> QED  BY <2>1, AnswersIs, ContentStays, ServedKeeps
<1> QED  BY <1>1, <1>2, <1>3

-----------------------------------------------------------------------------
(* A change settles.                                                       *)

LEMMA DoneIs ==
  ASSUME HandInv, NEW k \in Op, Done(k)
  PROVE  /\ op' = [n \in Op |-> op'[n]]
         /\ \A n \in Op : IsOp(op'[n]) /\ SameMark(op[n], op'[n])
<1>1. SameMark(op[k], Unsent)
  BY SentBlank DEF SameMark, Marking
<1> QED  BY <1>1, SentBlank, OneOp DEF Done

LEMMA SettlesKeep ==
  ASSUME HandInv, NEW k \in Op, UpdateSettled(k) \/ useDeleteItem(k) \/ useSaveLink(k)
  PROVE  HandInv'
<1>1. IsPage(page) /\ content' \in [Url -> Extraction]
  BY ContentStays DEF HandInv, UpdateSettled, useDeleteItem, useSaveLink, libraryVars
<1>2. CASE UpdateSettled(k)
  <2>1. IsPage(page') /\ SamePlace(page, page')
    BY <1>1, <1>2 DEF UpdateSettled, SamePlace
  <2> QED  BY <1>1, <1>2, <2>1, DoneIs, Keeps DEF UpdateSettled
<1>3. CASE useDeleteItem(k)
  <2>1. \/ page' = page
        \/ page' = [page EXCEPT !.confirm = 0]
        \/ page' = At([at |-> "list", filter |-> Default, id |-> 0], <<>>)
    BY <1>3 DEF useDeleteItem
  <2>2. IsPage(page') /\ (SamePlace(page, page') \/ page'.hand # "unread")
    <3>1. CASE page' = page \/ page' = [page EXCEPT !.confirm = 0]
      BY <1>1, <3>1 DEF IsPage, SamePlace
    <3>2. CASE page' = At([at |-> "list", filter |-> Default, id |-> 0], <<>>)
      BY <3>2, AtIsPage
    <3> QED  BY <2>1, <3>1, <3>2
  <2> QED  BY <1>1, <1>3, <2>2, DoneIs, Keeps DEF useDeleteItem
<1>4. CASE useSaveLink(k)
  <2>1. IsPage(page') /\ SamePlace(page, page')
    BY <1>1, <1>4 DEF useSaveLink, SamePlace
  <2>2. CASE Done(k)
    BY <1>1, <2>1, <2>2, DoneIs, Keeps
  <2>3. CASE op' = [FormGone EXCEPT ![k] = Unsent]
    <3>1. \A n \in Op : \/ op'[n] = Unsent
                        \/ op'[n] = [op[n] EXCEPT !.heard = FALSE]
                        \/ op'[n] = op[n]
      BY <2>3 DEF FormGone
    <3>2. \A n \in Op : IsOp(op'[n]) /\ SameMark(op[n], op'[n])
      <4> SUFFICES ASSUME NEW n \in Op
                   PROVE  IsOp(op'[n]) /\ SameMark(op[n], op'[n])
        OBVIOUS
      <4>1. CASE op'[n] = Unsent
        BY <4>1, SentBlank DEF SameMark, Marking
      <4>2. CASE op'[n] = [op[n] EXCEPT !.heard = FALSE]
        <5>1. IsOp(op[n])
          BY DEF HandInv
        <5> QED  BY <4>2, <5>1 DEF IsOp, SameMark, Marking
      <4>3. CASE op'[n] = op[n]
        BY <4>3 DEF HandInv, SameMark, Marking
      <4> QED  BY <3>1, <4>1, <4>2, <4>3
    <3>3. op' = [n \in Op |-> op'[n]]
      BY <2>3 DEF FormGone
    <3> QED  BY <1>1, <2>1, <3>2, <3>3, Keeps
  <2> QED  BY <1>4, <2>2, <2>3 DEF useSaveLink
<1> QED  BY <1>2, <1>3, <1>4

-----------------------------------------------------------------------------
(* The invariant.                                                          *)

LEMMA Starts == Init => HandInv
<1> SUFFICES ASSUME Init PROVE HandInv
  OBVIOUS
<1>1. content \in [Url -> Extraction]
  BY DEF Init, Extraction
<1>2. IsPage(page)
  BY DEF Init, IsPage
<1>3. op = [k \in Op |-> Unsent]
  BY DEF Init
<1>4. \A k \in Op : IsOp(op[k]) /\ ~Marking(op[k])
  BY <1>3, SentBlank DEF Marking
<1> QED  BY <1>1, <1>2, <1>3, <1>4 DEF HandInv

LEMMA Steps == HandInv /\ [Next]_vars => HandInv'
<1> SUFFICES ASSUME HandInv, [Next]_vars PROVE HandInv'
  OBVIOUS
<1>1. ASSUME UNCHANGED vars PROVE HandInv'
  <2>1. UNCHANGED <<content, page, op>>
    BY <1>1 DEF vars, libraryVars, clientVars
  <2> QED  BY <2>1 DEF HandInv, OnReader
<1>2. ASSUME LibraryUser PROVE HandInv'
  <2>1. CASE \/ \E f \in Filter : LoadMore(f)
             \/ Retry \/ Scroll \/ OpenDialog
    BY <2>1, LooksKeeps DEF Looks
  <2>2. CASE (\E f \in Filter : LibraryListRoute(f)) \/ \E i \in Ids : OpenReader(i)
    BY <2>2, Navigates
  <2>3. CASE LibraryCardMenu \/ ReaderActions
    BY <2>3, ActsKeeps DEF LibraryCardMenu, ReaderActions
  <2>4. CASE DeleteConfirm \/ CloseDialog \/ \E url \in Typed : AddLinkForm(url)
    BY <2>4, DialogsKeep
  <2> QED  BY <1>2, <2>1, <2>2, <2>3, <2>4 DEF LibraryUser
<1>3. ASSUME LibraryQueries PROVE HandInv'
  BY <1>3, LooksKeeps DEF LibraryQueries, Looks
<1>4. ASSUME LibraryMutations PROVE HandInv'
  <2>1. CASE useMarkReadOnScroll
    BY <2>1, ScrollMarks
  <2>2. CASE \E k \in Op : SaveURL(k) \/ Handle(k) \/ Drop(k)
    BY <2>2, ServesKeep
  <2>3. CASE \E k \in Op : UpdateSettled(k) \/ useDeleteItem(k) \/ useSaveLink(k)
    BY <2>3, SettlesKeep
  <2> QED  BY <1>4, <2>1, <2>2, <2>3 DEF LibraryMutations
<1> QED  BY <1>1, <1>2, <1>3, <1>4 DEF Next

\* Whatever is under way, a mark that the scroll listener has sent belongs to an
\* article that the user has not marked unread since (library.$id.tsx, handToggledId).
THEOREM MarksInvariant == Spec => []HandInv
BY Starts, Steps, PTL DEF Spec

\* A mark that the scroll listener sent does not reach the server while the reader
\* shows an article that was last marked unread by hand (useMarkReadOnScroll,
\* use-item-actions.tsx).
THEOREM MarkByHandStands == Spec => HandMarkStands
<1>1. HandInv /\ [Next]_vars =>
        [\A k \in Op :
           op[k].by = "scroll" /\ op[k].at = "sent" /\ op'[k].at = "answered" /\ OnReader(op[k].id)
           => page.hand # "unread"]_vars
  BY DEF HandInv, Marking
<1> QED  BY <1>1, MarksInvariant, PTL DEF Spec, HandMarkStands

-----------------------------------------------------------------------------
\* Saving an address again, with whatever result, leaves the article that its first
\* extraction made (UpsertContent's ON CONFLICT).
THEOREM SavedAgainStands == Spec => FirstExtractionStands
<1>1. HandInv /\ [Next]_vars =>
        [\A u \in Url : content[u] # "none" => content'[u] = content[u]]_vars
  <2> SUFFICES ASSUME HandInv, Next, NEW u \in Url, content[u] # "none"
               PROVE  content'[u] = content[u]
    BY DEF vars
  <2>1. CASE \E k \in Op : SaveURL(k)
    <3>1. PICK k \in Op : SaveURL(k)
      BY <2>1
    <3>2. PICK extracted \in BOOLEAN : UpsertContent(op[k].url, extracted)
      BY <3>1 DEF SaveURL
    <3>3. PICK v : v = SavedAs(op[k].url, extracted)
      OBVIOUS
    <3>4. content' = [content EXCEPT ![v] =
                        IF @ # "none" THEN @ ELSE IF extracted THEN "ok" ELSE "failed"]
      BY <3>2, <3>3 DEF UpsertContent
    <3> QED  BY <3>4 DEF HandInv
  <2>2. CASE \E k \in Op : Handle(k)
    <3>1. PICK k \in Op : Write(k)
      BY <2>2 DEF Handle
    <3> QED  BY <3>1 DEF Write, UpdateItem, DeleteItem, CreateItem
  <2>3. CASE LibraryUser
    BY <2>3 DEF LibraryUser, LibraryListRoute, LoadMore, OpenReader, Retry, LibraryCardMenu,
       ReaderActions, useItemActions, DeleteConfirm, Scroll, OpenDialog, CloseDialog, AddLinkForm,
       libraryVars
  <2>4. CASE LibraryQueries
    BY <2>4 DEF LibraryQueries, ReadList, LandList, ReadDetail, LandDetail, Rebuild, libraryVars
  <2>5. CASE useMarkReadOnScroll \/ \E k \in Op : Drop(k) \/ UpdateSettled(k) \/ useDeleteItem(k)
                                                         \/ useSaveLink(k)
    BY <2>5 DEF useMarkReadOnScroll, Drop, UpdateSettled, useDeleteItem, useSaveLink, libraryVars
  <2> QED  BY <2>1, <2>2, <2>3, <2>4, <2>5 DEF Next, LibraryMutations
<1> QED  BY <1>1, MarksInvariant, PTL DEF Spec, FirstExtractionStands

-----------------------------------------------------------------------------
(* The entries of the cache.                                               *)

IsSeq(s) == \E S : s \in Seq(S)
\* A fetch and an entry, whatever the values of the pages in them.
IsFetch(x) ==
  /\ x \in [more : {x.more}, got : {x.got}, fail : {x.fail}, late : {x.late}, back : {x.back}]
  /\ IsSeq(x.got)
EntryOK(e) ==
  /\ e \in [data : {e.data}, err : {e.err}, invalid : {e.invalid}, missed : {e.missed},
            fetch : {e.fetch}]
  /\ IsSeq(e.data)
  /\ e.fetch = NoFetch \/ IsFetch(e.fetch)
\* An entry that has something to show, or will have.
Started(e) == HasData(e) \/ IsError(e) \/ Fetching(e)

LEMMA FetchIsNone == ASSUME NEW x, IsFetch(x) PROVE x # NoFetch
<1>1. x = [more |-> x.more, got |-> x.got, fail |-> x.fail, late |-> x.late, back |-> x.back]
  BY DEF IsFetch
<1>2. "more" \in DOMAIN x
  BY <1>1
<1> QED  BY <1>2 DEF NoFetch

LEMMA EmptyOK == EntryOK(Empty)
<1>1. IsSeq(<<>>)
  BY DEF IsSeq
<1> QED  BY <1>1 DEF EntryOK, Empty

LEMMA BeginOK ==
  ASSUME NEW e, EntryOK(e), NEW more
  PROVE  EntryOK(Begin(e, more)) /\ Fetching(Begin(e, more)) /\ Begin(e, more).data = e.data
<1>1. IsSeq(<<>>)
  BY DEF IsSeq
<1>2. PICK x : x = NewFetch(e, more)
  OBVIOUS
<1>3. IsFetch(x)
  BY <1>1, <1>2 DEF NewFetch, IsFetch
<1>4. PICK n : n = [e EXCEPT !.fetch = x, !.err = IF HasData(e) THEN @ ELSE "none"]
  OBVIOUS
<1>5. EntryOK(n) /\ n.fetch = x /\ n.data = e.data
  BY <1>3, <1>4 DEF EntryOK
<1> QED  BY <1>2, <1>3, <1>4, <1>5, FetchIsNone DEF Begin, Fetching

LEMMA MountOK ==
  ASSUME NEW e, EntryOK(e), NEW expired
  PROVE  EntryOK(Mount(e, expired)) /\ Started(Mount(e, expired))
BY BeginOK DEF Mount, Started

LEMMA RefetchOK ==
  ASSUME NEW e, EntryOK(e)
  PROVE  EntryOK(Refetch(e)) /\ Started(Refetch(e))
BY BeginOK DEF Refetch, Started

\* A fetch with another field.
LEMMA FetchFields ==
  ASSUME NEW x, IsFetch(x), NEW v
  PROVE  /\ IsFetch([x EXCEPT !.late = v])
         /\ IsFetch([x EXCEPT !.fail = v])
         /\ IsFetch([x EXCEPT !.back = v])
         /\ IsSeq(v) => IsFetch([x EXCEPT !.got = v])
BY DEF IsFetch

LEMMA FetchField ==
  ASSUME NEW e, EntryOK(e), NEW x, IsFetch(x)
  PROVE  LET n == [e EXCEPT !.fetch = x]
         IN EntryOK(n) /\ n.fetch = x /\ n.data = e.data /\ n.err = e.err
BY DEF EntryOK

LEMMA InvalidField ==
  ASSUME NEW e, EntryOK(e), NEW v
  PROVE  LET n == [e EXCEPT !.invalid = v]
         IN EntryOK(n) /\ n.fetch = e.fetch /\ n.data = e.data /\ n.err = e.err
BY DEF EntryOK

LEMMA InvalidateOK ==
  ASSUME NEW e, EntryOK(e), NEW active \in BOOLEAN
  PROVE  /\ EntryOK(Invalidate(e, active))
         /\ active \/ Started(e) => Started(Invalidate(e, active))
<1>1. CASE Fetching(e) /\ ~(active /\ HasData(e))
  <2>1. PICK n : n = [e EXCEPT !.invalid = TRUE]
    OBVIOUS
  <2>2. EntryOK(n) /\ n.fetch = e.fetch
    BY <2>1, InvalidField
  <2>3. PICK x : x = [e.fetch EXCEPT !.late = TRUE]
    OBVIOUS
  <2>4. IsFetch(x)
    BY <1>1, <2>3, FetchFields DEF EntryOK, Fetching
  <2>5. PICK o : o = [n EXCEPT !.fetch = x]
    OBVIOUS
  <2>6. EntryOK(o) /\ o.fetch = x
    BY <2>2, <2>4, <2>5, FetchField
  <2>7. [e EXCEPT !.invalid = TRUE, !.fetch.late = TRUE] = o
    BY <2>1, <2>2, <2>3, <2>5 DEF EntryOK
  <2>8. Invalidate(e, active) = [e EXCEPT !.invalid = TRUE, !.fetch.late = TRUE]
    BY <1>1 DEF Invalidate
  <2> QED  BY <2>4, <2>6, <2>7, <2>8, FetchIsNone DEF Started, Fetching
<1>2. CASE ~(Fetching(e) /\ ~(active /\ HasData(e))) /\ active
  <2>1. PICK n : n = [e EXCEPT !.invalid = TRUE]
    OBVIOUS
  <2>2. EntryOK(n)
    BY <2>1, InvalidField
  <2>3. Invalidate(e, active) = Begin(n, FALSE)
    BY <1>2, <2>1 DEF Invalidate
  <2> QED  BY <2>2, <2>3, BeginOK DEF Started
<1>3. CASE ~Fetching(e) /\ ~active
  <2>1. Invalidate(e, active) = [e EXCEPT !.invalid = HasData(e)]
    BY <1>3 DEF Invalidate
  <2>2. PICK n : n = [e EXCEPT !.invalid = HasData(e)]
    OBVIOUS
  <2>3. EntryOK(n) /\ n.fetch = e.fetch /\ n.data = e.data /\ n.err = e.err
    BY <2>2, InvalidField
  <2> QED  BY <1>3, <2>1, <2>2, <2>3 DEF Started, HasData, IsError, Fetching
<1> QED  BY <1>1, <1>2, <1>3

LEMMA CancelOK ==
  ASSUME NEW e, EntryOK(e)
  PROVE  EntryOK(Cancel(e)) /\ Cancel(e).data = e.data
<1>1. CASE ~Fetching(e)
  BY <1>1 DEF Cancel
<1>2. CASE Fetching(e)
  <2>1. PICK n : n = [e EXCEPT !.err = e.fetch.back.err, !.invalid = e.fetch.back.invalid,
                       !.missed = @ \/ (e.invalid /\ ~e.fetch.back.invalid), !.fetch = NoFetch]
    OBVIOUS
  <2>2. EntryOK(n) /\ n.data = e.data
    BY <2>1 DEF EntryOK
  <2> QED  BY <1>2, <2>1, <2>2 DEF Cancel
<1> QED  BY <1>1, <1>2

LEMMA SetDataOK ==
  ASSUME NEW e, EntryOK(e), NEW pages, IsSeq(pages)
  PROVE  /\ EntryOK(SetData(e, pages))
         /\ pages # <<>> => Started(SetData(e, pages))
<1>1. PICK x : x = IF e.fetch = NoFetch THEN e.fetch
                   ELSE [e.fetch EXCEPT !.back = [err |-> "none", invalid |-> FALSE]]
  OBVIOUS
<1>2. x = NoFetch \/ IsFetch(x)
  BY <1>1, FetchFields DEF EntryOK
<1>3. PICK n : n = [e EXCEPT !.data = pages, !.err = "none", !.invalid = FALSE, !.fetch = x]
  OBVIOUS
<1>4. EntryOK(n) /\ n.data = pages
  BY <1>2, <1>3 DEF EntryOK
<1>5. SetData(e, pages) = n
  BY <1>1, <1>3 DEF SetData, EntryOK
<1> QED  BY <1>4, <1>5 DEF Started, HasData

LEMMA AnswerOK ==
  ASSUME NEW e, EntryOK(e), Fetching(e), NEW answer
  PROVE  /\ EntryOK(Answer(e, answer)) /\ Fetching(Answer(e, answer))
         /\ EntryOK(Refuse(e, answer)) /\ Fetching(Refuse(e, answer))
<1>1. IsFetch(e.fetch)
  BY DEF EntryOK, Fetching
<1>2. IsSeq(Append(e.fetch.got, answer))
  <2>1. PICK S : e.fetch.got \in Seq(S)
    BY <1>1 DEF IsFetch, IsSeq
  <2>2. PICK T : T = S \union {answer}
    OBVIOUS
  <2>3. e.fetch.got \in Seq(T) /\ answer \in T
    BY <2>1, <2>2
  <2> QED  BY <2>3 DEF IsSeq
<1>3. PICK x : x = [e.fetch EXCEPT !.got = Append(e.fetch.got, answer)]
  OBVIOUS
<1>4. PICK y : y = [e.fetch EXCEPT !.fail = answer]
  OBVIOUS
<1>5. IsFetch(x) /\ IsFetch(y)
  BY <1>1, <1>2, <1>3, <1>4, FetchFields
<1>6. Answer(e, answer) = [e EXCEPT !.fetch = x]
  BY <1>3 DEF Answer, EntryOK
<1>7. Refuse(e, answer) = [e EXCEPT !.fetch = y]
  BY <1>4 DEF Refuse, EntryOK
<1> QED  BY <1>5, <1>6, <1>7, FetchField, FetchIsNone DEF Fetching

LEMMA LandOK ==
  ASSUME NEW e, EntryOK(e), Fetching(e), Answered(e)
  PROVE  EntryOK(Land(e)) /\ Started(Land(e))
<1>1. IsFetch(e.fetch)
  BY DEF EntryOK, Fetching
<1>2. CASE e.fetch.fail # "none"
  <2>1. PICK n : n = [e EXCEPT !.err = e.fetch.fail, !.invalid = TRUE, !.fetch = NoFetch]
    OBVIOUS
  <2>2. EntryOK(n) /\ n.err = e.fetch.fail
    BY <2>1 DEF EntryOK
  <2> QED  BY <1>2, <2>1, <2>2 DEF Land, Started, IsError
<1>3. CASE e.fetch.fail = "none"
  <2>1. PICK data : data = IF e.fetch.more THEN e.data \o e.fetch.got ELSE e.fetch.got
    OBVIOUS
  <2>2. IsSeq(data) /\ data # <<>>
    <3>1. PICK S : e.data \in Seq(S)
      BY DEF EntryOK, IsSeq
    <3>2. PICK T : e.fetch.got \in Seq(T)
      BY <1>1 DEF IsFetch, IsSeq
    <3>3. e.fetch.got # <<>>
      BY <1>3 DEF Answered
    <3>4. PICK U : U = S \union T
      OBVIOUS
    <3>5. e.data \in Seq(U) /\ e.fetch.got \in Seq(U)
      BY <3>1, <3>2, <3>4
    <3>7. e.data \o e.fetch.got \in Seq(U)
      BY <3>5, ConcatProperties
    <3>6. e.data \o e.fetch.got # <<>>
      BY <3>3, <3>5, ConcatEqualIffEmpty
    <3> QED  BY <2>1, <3>2, <3>3, <3>6, <3>7 DEF IsSeq
  <2>3. PICK missed : missed = (e.fetch.late \/ (e.fetch.more /\ (e.invalid \/ e.missed)))
    OBVIOUS
  <2>4. Land(e) = [data |-> data, err |-> "none", invalid |-> FALSE, missed |-> missed, fetch |-> NoFetch]
    BY <1>3, <2>1, <2>3 DEF Land
  <2> QED  BY <2>2, <2>4 DEF EntryOK, Started, HasData
<1> QED  BY <1>2, <1>3

LEMMA OverlookedOK ==
  ASSUME NEW e, EntryOK(e)
  PROVE  EntryOK(Overlooked(e)) /\ (Started(e) => Started(Overlooked(e)))
<1>1. PICK x : x = IF e.fetch = NoFetch THEN e.fetch ELSE [e.fetch EXCEPT !.late = TRUE]
  OBVIOUS
<1>2. x = NoFetch \/ IsFetch(x)
  BY <1>1, FetchFields DEF EntryOK
<1>3. Fetching(e) => x # NoFetch
  BY <1>1, FetchFields, FetchIsNone DEF EntryOK, Fetching
<1>4. PICK n : n = [e EXCEPT !.missed = HasData(e), !.fetch = x]
  OBVIOUS
<1>5. EntryOK(n) /\ n.data = e.data /\ n.err = e.err /\ n.fetch = x
  BY <1>2, <1>4 DEF EntryOK
<1>6. Overlooked(e) = n
  BY <1>1, <1>4 DEF Overlooked, EntryOK
<1> QED  BY <1>3, <1>5, <1>6 DEF Started, HasData, IsError, Fetching

-----------------------------------------------------------------------------
(* The list on screen.                                                     *)

ListsOK ==
  /\ lists = [f \in Filter |-> lists[f]]
  /\ \A f \in Filter : EntryOK(lists[f])
\* What a mutation goes back to.
BackOK(o) == \A f \in Filter : IsSeq(o.back[f])
Updating == \E k \in InFlight : op[k].kind = "update"

(* The strengthening: the cache and what mutations keep of it hold pages, so  *)
(* that an answer which lands leaves data or an error.                      *)
StartedInv ==
  /\ ListsOK
  /\ \A k \in Op : BackOK(op[k])
  /\ \A f \in Filter : OnList(f) => Started(lists[f]) \/ Updating

LEMMA StartedMeans == StartedInv => NeverStuck
BY DEF StartedInv, NeverStuck, Started, Updating

\* The same mutations are under way, and more perhaps.
OpsGoOn ==
  /\ \A k \in Op : BackOK(op[k])'
  /\ Updating => Updating'

LEMMA GoesOn ==
  ASSUME StartedInv, ListsOK', OpsGoOn, SamePlace(page, page'), page'.filter = page.filter,
         \A f \in Filter : Started(lists[f]) => Started(lists'[f])
  PROVE  StartedInv'
BY DEF StartedInv, OpsGoOn, SamePlace, OnList

LEMMA OneList ==
  ASSUME ListsOK, NEW f \in Filter, NEW e, EntryOK(e), lists' = [lists EXCEPT ![f] = e]
  PROVE  /\ ListsOK' /\ lists'[f] = e
         /\ \A g \in Filter : g # f => lists'[g] = lists[g]
BY DEF ListsOK

LEMMA AllLists ==
  ASSUME NEW e, lists' = [f \in Filter |-> e[f]], \A f \in Filter : EntryOK(e[f])
  PROVE  ListsOK'
BY DEF ListsOK

LEMMA OpsStay ==
  ASSUME StartedInv, UNCHANGED op
  PROVE  OpsGoOn
BY DEF StartedInv, OpsGoOn, BackOK, Updating, InFlight

\* Mutations that change something else.
OpsAlike ==
  \A k \in Op :
    /\ op'[k].back = op[k].back /\ op'[k].kind = op[k].kind
    /\ op[k].at \in {"sent", "upserted", "answered"} => op'[k].at \in {"sent", "upserted", "answered"}

LEMMA AlikeGoOn ==
  ASSUME StartedInv, OpsAlike
  PROVE  OpsGoOn
BY DEF StartedInv, OpsAlike, OpsGoOn, BackOK, Updating, InFlight

LEMMA UnsentBack == BackOK(Unsent) /\ Unsent.at = "idle"
<1>1. IsSeq(<<>>)
  BY DEF IsSeq
<1> QED  BY <1>1 DEF BackOK, Unsent

LEMMA OpStarts ==
  ASSUME HandInv, StartedInv, NEW k \in Free, NEW o, BackOK(o), op' = [op EXCEPT ![k] = o]
  PROVE  OpsGoOn
<1>1. k \in Op /\ k \notin InFlight
  BY DEF Free
<1>2. op' = [n \in Op |-> IF n = k THEN o ELSE op[n]]
  BY DEF HandInv
<1> QED  BY <1>1, <1>2 DEF StartedInv, OpsGoOn, BackOK, Updating, InFlight

LEMMA OpEnds ==
  ASSUME HandInv, StartedInv, NEW k \in Op, Done(k)
  PROVE  /\ \A n \in Op : BackOK(op[n])'
         /\ op[k].kind # "update" => OpsGoOn
<1>1. op' = [n \in Op |-> IF n = k THEN Unsent ELSE op[n]]
  BY DEF HandInv, Done
<1> QED  BY <1>1, UnsentBack DEF StartedInv, OpsGoOn, BackOK, Updating, InFlight

LEMMA PlaceField ==
  ASSUME NEW p, IsPage(p), NEW v
  PROVE  /\ [p EXCEPT !.held = v].filter = p.filter /\ [p EXCEPT !.confirm = v].filter = p.filter
         /\ [p EXCEPT !.deep = v].filter = p.filter /\ [p EXCEPT !.fired = v].filter = p.filter
         /\ [p EXCEPT !.hand = v].filter = p.filter
BY DEF IsPage

-----------------------------------------------------------------------------
LEMMA NavigatesStarted ==
  ASSUME HandInv, StartedInv, NEW f \in Filter, NEW i, LibraryListRoute(f) \/ OpenReader(i)
  PROVE  StartedInv'
<1>1. OpsGoOn
  <2>1. \A o : IsOp(o) => LET n == [o EXCEPT !.heard = FALSE]
                          IN n.back = o.back /\ n.kind = o.kind /\ n.at = o.at
    BY DEF IsOp
  <2>2. op' = Unheard \/ op' = op
    BY DEF LibraryListRoute, OpenReader
  <2> QED  BY <2>1, <2>2, AlikeGoOn, OpsStay DEF OpsAlike, HandInv, Unheard
<1>2. CASE LibraryListRoute(f)
  <2>1. PICK expired \in BOOLEAN : lists' = [lists EXCEPT ![f] = Mount(@, expired)]
    BY <1>2 DEF LibraryListRoute
  <2>a. PICK e : e = Mount(lists[f], expired)
    OBVIOUS
  <2>2. EntryOK(e) /\ Started(e)
    BY <2>a, MountOK DEF StartedInv, ListsOK
  <2>3. lists' = [lists EXCEPT ![f] = e]
    BY <2>1, <2>a
  <2>4. ListsOK' /\ lists'[f] = e
    BY <2>2, <2>3, OneList DEF StartedInv
  <2>5. page'.filter = f
    BY <1>2 DEF LibraryListRoute, At
  <2> QED  BY <1>1, <2>2, <2>4, <2>5 DEF StartedInv, OpsGoOn, OnList
<1>3. CASE OpenReader(i)
  <2>1. page'.at = "reader" /\ UNCHANGED lists
    BY <1>3 DEF OpenReader, At
  <2> QED  BY <1>1, <2>1 DEF StartedInv, OpsGoOn, OnList, ListsOK
<1> QED  BY <1>2, <1>3

\* One list that is started.
LEMMA ListStarts ==
  ASSUME StartedInv, NEW f \in Filter, NEW e, EntryOK(e), Started(e), lists' = [lists EXCEPT ![f] = e],
         SamePlace(page, page'), page'.filter = page.filter, UNCHANGED op
  PROVE  StartedInv'
<1>1. ListsOK' /\ lists'[f] = e /\ \A g \in Filter : g # f => lists'[g] = lists[g]
  BY OneList DEF StartedInv
<1>2. \A g \in Filter : Started(lists[g]) => Started(lists'[g])
  BY <1>1
<1> QED  BY <1>1, <1>2, OpsStay, GoesOn

LEMMA ListsStay ==
  ASSUME StartedInv, UNCHANGED lists, OpsGoOn, SamePlace(page, page'), page'.filter = page.filter
  PROVE  StartedInv'
<1>1. ListsOK'
  BY DEF StartedInv, ListsOK
<1> QED  BY <1>1, GoesOn

LEMMA LooksStarted ==
  ASSUME HandInv, StartedInv, Looks
  PROVE  StartedInv'
<1>1. UNCHANGED op /\ IsPage(page)
  BY DEF Looks, LoadMore, ReadList, LandList, ReadDetail, LandDetail, Rebuild, Retry, Scroll,
         OpenDialog, HandInv
<1>2. SamePlace(page, page') /\ page'.filter = page.filter
  <2>1. \/ page' = page \/ page' = [page EXCEPT !.held = <<>>]
        \/ page' = [page EXCEPT !.fired = FALSE] \/ page' = [page EXCEPT !.deep = TRUE]
    BY DEF Looks, LoadMore, ReadList, LandList, ReadDetail, LandDetail, Rebuild, Retry, Scroll,
           OpenDialog, Rearmed
  <2>2. SamePlace(page, page)
    BY DEF SamePlace
  <2>3. CASE page' = [page EXCEPT !.held = <<>>]
    BY <1>1, <2>3, PlaceField, PageFields
  <2>4. CASE page' = [page EXCEPT !.fired = FALSE]
    BY <1>1, <2>4, PlaceField, PageFields
  <2>5. CASE page' = [page EXCEPT !.deep = TRUE]
    BY <1>1, <2>5, PlaceField, PageFields
  <2> QED  BY <2>1, <2>2, <2>3, <2>4, <2>5
<1>3. CASE \E f \in Filter : LoadMore(f) \/ ReadList(f) \/ LandList(f)
  <2>1. PICK f \in Filter : LoadMore(f) \/ ReadList(f) \/ LandList(f)
    BY <1>3
  <2>2. EntryOK(lists[f])
    BY DEF StartedInv, ListsOK
  <2>3. \E e : EntryOK(e) /\ Started(e) /\ lists' = [lists EXCEPT ![f] = e]
    <3>1. CASE LoadMore(f)
      BY <2>2, <3>1, BeginOK DEF LoadMore, FetchNextPage, Started
    <3>2. CASE ReadList(f)
      BY <2>2, <3>2, AnswerOK DEF ReadList, Started
    <3>3. CASE LandList(f)
      BY <2>2, <3>3, LandOK DEF LandList
    <3> QED  BY <2>1, <3>1, <3>2, <3>3
  <2> QED  BY <1>1, <1>2, <2>3, ListStarts
<1>4. CASE UNCHANGED lists
  BY <1>1, <1>2, <1>4, OpsStay, ListsStay
<1>5. CASE Retry
  <2>1. CASE page.at = "list" /\ lists' = [lists EXCEPT ![page.filter] = Refetch(@)]
    <3>1. CASE page.filter \in Filter
      <4>1. PICK e : e = Refetch(lists[page.filter])
        OBVIOUS
      <4>2. EntryOK(e) /\ Started(e)
        BY <3>1, <4>1, RefetchOK DEF StartedInv, ListsOK
      <4> QED  BY <1>1, <1>2, <2>1, <3>1, <4>1, <4>2, ListStarts
    <3>2. CASE page.filter \notin Filter
      <4>1. lists' = lists
        BY <2>1, <3>2 DEF StartedInv, ListsOK
      <4> QED  BY <1>4, <4>1
    <3> QED  BY <3>1, <3>2
  <2> QED  BY <1>4, <1>5, <2>1 DEF Retry
<1> QED  BY <1>3, <1>4, <1>5 DEF Looks, ReadDetail, LandDetail, Rebuild, Scroll, OpenDialog

\* An update cancels what loads, and is under way from then on.
LEMMA UpdatesStarted ==
  ASSUME HandInv, StartedInv, NEW i, NEW patch, NEW by, useUpdateItem(i, patch, by)
  PROVE  StartedInv'
<1>1. PICK k \in Free :
        op' = [op EXCEPT ![k] = updateItem(i, patch, by, [f \in Filter |-> lists[f].data])]
  BY DEF useUpdateItem
<1>2. PICK back : back = [f \in Filter |-> lists[f].data]
  OBVIOUS
<1>3. PICK o : o = updateItem(i, patch, by, back)
  OBVIOUS
<1>4. o.back = back /\ o.at = "sent" /\ o.kind = "update"
  <2>1. PICK u : u = [Unsent EXCEPT !.kind = "update", !.id = i, !.patch = patch, !.at = "sent"]
    OBVIOUS
  <2>2. IsOp(u) /\ u.kind = "update" /\ u.at = "sent"
    BY <2>1, SentBlank DEF IsOp
  <2>3. PICK n : n = [u EXCEPT !.by = by, !.back = back]
    OBVIOUS
  <2>4. n.back = back /\ n.at = "sent" /\ n.kind = "update"
    BY <2>2, <2>3 DEF IsOp
  <2> QED  BY <1>3, <2>1, <2>3, <2>4 DEF updateItem
<1>5. BackOK(o)
  BY <1>2, <1>4 DEF BackOK, StartedInv, ListsOK, EntryOK
<1>6. op' = [op EXCEPT ![k] = o]
  BY <1>1, <1>2, <1>3
<1>7. OpsGoOn
  BY <1>5, <1>6, OpStarts
<1>8. Updating'
  <2>1. k \in Op
    BY DEF Free
  <2>2. op'[k] = o
    BY <1>6, <2>1 DEF HandInv
  <2> QED  BY <1>4, <2>1, <2>2 DEF Updating, InFlight
<1>9. ListsOK'
  <2>1. PICK e : e = [f \in Filter |->
          IF HasData(lists[f]) THEN SetData(Cancel(lists[f]), Patched(lists[f].data, i, patch))
          ELSE Cancel(lists[f])]
    OBVIOUS
  <2>2. ASSUME NEW f \in Filter PROVE EntryOK(e[f])
    <3>1. EntryOK(lists[f]) /\ EntryOK(Cancel(lists[f]))
      BY CancelOK DEF StartedInv, ListsOK
    <3>2. IsSeq(Patched(lists[f].data, i, patch))
      <4>1. PICK S : lists[f].data \in Seq(S)
        BY <3>1 DEF EntryOK, IsSeq
      <4>2. PICK d, p : d = lists[f].data /\ p = Patched(d, i, patch)
        OBVIOUS
      <4>3. p = [n \in 1..Len(d) |-> p[n]] /\ Len(d) \in Nat
        BY <4>1, <4>2 DEF Patched
      <4>4. PICK T : T = {p[n] : n \in 1..Len(d)}
        OBVIOUS
      <4>5. p \in [1..Len(d) -> T]
        BY <4>3, <4>4
      <4>6. p \in Seq(T)
        BY <4>3, <4>5
      <4> QED  BY <4>2, <4>6 DEF IsSeq
    <3> QED  BY <2>1, <3>1, <3>2, SetDataOK
  <2>3. lists' = [f \in Filter |-> e[f]]
    BY <2>1 DEF useUpdateItem
  <2> QED  BY <2>2, <2>3, AllLists
<1> QED  BY <1>7, <1>8, <1>9 DEF StartedInv, OpsGoOn

LEMMA ActsStarted ==
  ASSUME HandInv, StartedInv, NEW it, useItemActions(it)
  PROVE  StartedInv'
<1>1. CASE RequestDelete(it)
  <2>1. page' = [page EXCEPT !.confirm = it.id] /\ UNCHANGED <<lists, op>>
    BY <1>1 DEF RequestDelete
  <2>2. SamePlace(page, page') /\ page'.filter = page.filter
    BY <2>1, PageFields, PlaceField DEF HandInv
  <2> QED  BY <2>1, <2>2, OpsStay, ListsStay
<1>2. CASE ToggleRead(it) \/ ToggleArchive(it) \/ ToggleFavorite(it)
  <2>1. \E i, patch, by : useUpdateItem(i, patch, by)
    BY <1>2 DEF ToggleRead, ToggleArchive, ToggleFavorite, SetState
  <2> QED  BY <2>1, UpdatesStarted
<1> QED  BY <1>1, <1>2 DEF useItemActions

LEMMA DialogsStarted ==
  ASSUME HandInv, StartedInv, NEW url, DeleteConfirm \/ CloseDialog \/ AddLinkForm(url)
  PROVE  StartedInv'
<1>1. SamePlace(page, page') /\ page'.filter = page.filter /\ UNCHANGED lists
  <2>1. (page' = page \/ page' = [page EXCEPT !.confirm = 0]) /\ UNCHANGED lists /\ IsPage(page)
    BY DEF DeleteConfirm, CloseDialog, AddLinkForm, HandInv
  <2>2. SamePlace(page, page)
    BY DEF SamePlace
  <2>3. CASE page' = [page EXCEPT !.confirm = 0]
    BY <2>1, <2>3, PageFields, PlaceField
  <2> QED  BY <2>1, <2>2, <2>3
<1>2. OpsGoOn
  <2>1. CASE UNCHANGED op
    BY <2>1, OpsStay
  <2>2. CASE CloseDialog
    <3>1. \A o : IsOp(o) => LET n == [o EXCEPT !.heard = FALSE]
                            IN n.back = o.back /\ n.kind = o.kind /\ n.at = o.at
      BY DEF IsOp
    <3> QED  BY <2>2, <3>1, AlikeGoOn DEF CloseDialog, FormGone, OpsAlike, HandInv
  <2>3. CASE \E k \in Free : \E o : o.back = Unsent.back /\ op' = [op EXCEPT ![k] = o]
    <3>1. PICK k \in Free : \E o : o.back = Unsent.back /\ op' = [op EXCEPT ![k] = o]
      BY <2>3
    <3>2. PICK o : o.back = Unsent.back /\ op' = [op EXCEPT ![k] = o]
      BY <3>1
    <3>3. BackOK(o)
      BY <3>2, UnsentBack DEF BackOK
    <3> QED  BY <3>2, <3>3, OpStarts
  <2>4. \A i : deleteItem(i).back = Unsent.back
    BY SentBlank DEF deleteItem, IsOp
  <2>5. \A u : saveLink(u).back = Unsent.back
    BY SentBlank DEF saveLink, IsOp
  <2>6. DeleteConfirm => \/ UNCHANGED op
                         \/ \E k \in Free : \E o : o.back = Unsent.back /\ op' = [op EXCEPT ![k] = o]
    BY <2>4 DEF DeleteConfirm
  <2>7. AddLinkForm(url) => \E k \in Free : \E o : o.back = Unsent.back /\ op' = [op EXCEPT ![k] = o]
    BY <2>5 DEF AddLinkForm
  <2> QED  BY <2>1, <2>2, <2>3, <2>6, <2>7
<1> QED  BY <1>1, <1>2, ListsStay

LEMMA ServesStarted ==
  ASSUME HandInv, StartedInv, NEW k \in Op, Handle(k) \/ SaveURL(k) \/ Drop(k)
  PROVE  StartedInv'
<1>1. OpsGoOn
  <2>1. PICK o : /\ o.back = op[k].back /\ o.kind = op[k].kind /\ o.at \in {"upserted", "answered"}
                 /\ op' = [op EXCEPT ![k] = o]
    <3>1. ASSUME NEW result, Answers(k, result)
          PROVE  \E o : /\ o.back = op[k].back /\ o.kind = op[k].kind /\ o.at = "answered"
                        /\ op' = [op EXCEPT ![k] = o]
      <4>1. PICK o : o = [op[k] EXCEPT !.at = "answered", !.result = result]
        OBVIOUS
      <4>2. op' = [op EXCEPT ![k] = o]
        BY <3>1, <4>1 DEF Answers, HandInv
      <4>3. o.back = op[k].back /\ o.kind = op[k].kind /\ o.at = "answered"
        BY <4>1 DEF HandInv, IsOp
      <4> QED  BY <4>2, <4>3
    <3>2. CASE SaveURL(k)
      <4>1. PICK url : op' = [op EXCEPT ![k].at = "upserted", ![k].url = url]
        BY <3>2 DEF SaveURL
      <4>2. PICK o : o = [op[k] EXCEPT !.at = "upserted", !.url = url]
        OBVIOUS
      <4>3. op' = [op EXCEPT ![k] = o]
        BY <4>1, <4>2 DEF HandInv
      <4>4. o.back = op[k].back /\ o.kind = op[k].kind /\ o.at = "upserted"
        BY <4>2 DEF HandInv, IsOp
      <4> QED  BY <4>3, <4>4
    <3>3. CASE Handle(k) \/ Drop(k)
      <4>1. \E result : Answers(k, result)
        BY <3>3 DEF Handle, Drop
      <4> QED  BY <3>1, <4>1
    <3> QED  BY <3>2, <3>3
  <2>2. op' = [n \in Op |-> IF n = k THEN o ELSE op[n]]
    BY <2>1 DEF HandInv
  <2>3. OpsAlike
    BY <2>1, <2>2 DEF OpsAlike
  <2> QED  BY <2>3, AlikeGoOn
<1>2. SamePlace(page, page') /\ page'.filter = page.filter
  BY DEF Handle, SaveURL, Drop, SamePlace
<1>3. UNCHANGED lists \/ lists' = OverlookQueries(lists)
  BY DEF Handle, SaveURL, Drop
<1>4. CASE lists' = OverlookQueries(lists)
  <2>1. PICK e : e = [f \in Filter |-> Overlooked(lists[f])]
    OBVIOUS
  <2>2. lists' = [f \in Filter |-> e[f]]
    BY <1>4, <2>1 DEF OverlookQueries, StartedInv, ListsOK
  <2>3. \A f \in Filter : EntryOK(e[f]) /\ (Started(lists[f]) => Started(e[f]))
    BY <2>1, OverlookedOK DEF StartedInv, ListsOK
  <2> QED  BY <1>1, <1>2, <2>2, <2>3, AllLists, GoesOn
<1> QED  BY <1>1, <1>2, <1>3, <1>4, ListsStay

\* After an invalidation every list on screen is started, the others go on.
LEMMA Invalidated ==
  ASSUME ListsOK, NEW ls, ls = [f \in Filter |-> ls[f]], \A f \in Filter : EntryOK(ls[f])
  PROVE  /\ InvalidateLists(ls) = [f \in Filter |-> InvalidateLists(ls)[f]]
         /\ \A f \in Filter :
              /\ EntryOK(InvalidateLists(ls)[f])
              /\ OnList(f) \/ Started(ls[f]) => Started(InvalidateLists(ls)[f])
<1>1. \A f \in Filter : OnList(f) \in BOOLEAN
  BY DEF OnList
<1> QED  BY <1>1, InvalidateOK DEF InvalidateLists

LEMMA SettlesStarted ==
  ASSUME HandInv, StartedInv, NEW k \in Op, UpdateSettled(k) \/ useDeleteItem(k) \/ useSaveLink(k)
  PROVE  StartedInv'
<1>1. ListsOK /\ IsPage(page) /\ SamePlace(page, page)
  BY DEF StartedInv, HandInv, SamePlace
<1>2. CASE UpdateSettled(k)
  <2>1. PICK ls : ls = IF op[k].result = "ok" THEN lists ELSE RolledBack(k)
    OBVIOUS
  <2>2. ls = [f \in Filter |-> ls[f]]
    BY <1>1, <2>1 DEF RolledBack, ListsOK
  <2>3. \A f \in Filter : EntryOK(ls[f])
    BY <1>1, <2>1, SetDataOK DEF RolledBack, ListsOK, StartedInv, BackOK
  <2>4. lists' = InvalidateLists(ls) /\ page' = page /\ Done(k)
    BY <1>2, <2>1 DEF UpdateSettled
  <2>5. /\ lists' = [f \in Filter |-> lists'[f]]
        /\ \A f \in Filter : EntryOK(lists'[f]) /\ (OnList(f) => Started(lists'[f]))
    BY <1>1, <2>2, <2>3, <2>4, Invalidated
  <2> QED  BY <2>4, <2>5, OpEnds DEF StartedInv, ListsOK, OnList
<1>3. /\ InvalidateLists(lists) = [f \in Filter |-> InvalidateLists(lists)[f]]
      /\ \A f \in Filter :
           /\ EntryOK(InvalidateLists(lists)[f])
           /\ Started(lists[f]) => Started(InvalidateLists(lists)[f])
  BY <1>1, Invalidated DEF ListsOK
<1>4. CASE useDeleteItem(k)
  <2>1. OpsGoOn
    BY <1>4, OpEnds DEF useDeleteItem
  <2>2. CASE /\ page' = page \/ page' = [page EXCEPT !.confirm = 0]
             /\ UNCHANGED lists \/ lists' = InvalidateLists(lists)
    <3>1. SamePlace(page, page') /\ page'.filter = page.filter
      <4>1. CASE page' = [page EXCEPT !.confirm = 0]
        BY <1>1, <4>1, PageFields, PlaceField
      <4> QED  BY <1>1, <2>2, <4>1
    <3>2. CASE lists' = InvalidateLists(lists)
      <4>1. ListsOK' /\ \A f \in Filter : Started(lists[f]) => Started(lists'[f])
        BY <1>3, <3>2 DEF ListsOK
      <4> QED  BY <2>1, <3>1, <4>1, GoesOn
    <3> QED  BY <2>1, <2>2, <3>1, <3>2, ListsStay
  <2>3. CASE /\ page' = At([at |-> "list", filter |-> Default, id |-> 0], <<>>)
             /\ lists' = [InvalidateLists(lists) EXCEPT ![Default] = Mount(@, FALSE)]
    <3>1. Default \in Filter
      BY ClientAssumption
    <3>2. PICK ls : ls = InvalidateLists(lists)
      OBVIOUS
    <3>3. PICK e : e = Mount(ls[Default], FALSE)
      OBVIOUS
    <3>4. EntryOK(e) /\ Started(e)
      BY <1>3, <3>1, <3>2, <3>3, MountOK
    <3>5. lists' = [f \in Filter |-> IF f = Default THEN e ELSE ls[f]]
      BY <1>3, <2>3, <3>2, <3>3
    <3>6. ListsOK' /\ lists'[Default] = e
      BY <1>3, <3>1, <3>2, <3>4, <3>5 DEF ListsOK
    <3>7. page'.filter = Default
      BY <2>3 DEF At
    <3> QED  BY <2>1, <3>4, <3>6, <3>7 DEF StartedInv, OpsGoOn, OnList
  <2> QED  BY <1>4, <2>2, <2>3 DEF useDeleteItem
<1>5. CASE useSaveLink(k)
  <2>1. OpsGoOn
    <3>1. op[k].kind # "update"
      BY <1>5 DEF useSaveLink
    <3>2. CASE Done(k)
      BY <3>1, <3>2, OpEnds
    <3>3. CASE op' = [FormGone EXCEPT ![k] = Unsent]
      <4>1. \A o : IsOp(o) => LET n == [o EXCEPT !.heard = FALSE]
                              IN n.back = o.back /\ n.kind = o.kind /\ n.at = o.at
        BY DEF IsOp
      <4>2. op'[k] = Unsent
        BY <3>3 DEF FormGone
      <4>3. \A n \in Op \ {k} : op'[n] = op[n] \/ op'[n] = [op[n] EXCEPT !.heard = FALSE]
        BY <3>3 DEF FormGone
      <4>4. \A n \in Op \ {k} :
              op'[n].back = op[n].back /\ op'[n].kind = op[n].kind /\ op'[n].at = op[n].at
        BY <4>1, <4>3 DEF HandInv
      <4>5. \A n \in Op : BackOK(op[n])'
        BY <4>2, <4>4, UnsentBack DEF StartedInv, BackOK
      <4>6. Updating => Updating'
        BY <3>1, <4>4 DEF Updating, InFlight
      <4> QED  BY <4>5, <4>6 DEF OpsGoOn
    <3> QED  BY <1>5, <3>2, <3>3 DEF useSaveLink
  <2>2. page' = page /\ (UNCHANGED lists \/ lists' = InvalidateLists(lists))
    BY <1>5 DEF useSaveLink
  <2>3. CASE lists' = InvalidateLists(lists)
    <3>1. ListsOK' /\ \A f \in Filter : Started(lists[f]) => Started(lists'[f])
      BY <1>3, <2>3 DEF ListsOK
    <3> QED  BY <1>1, <2>1, <2>2, <3>1, GoesOn
  <2> QED  BY <1>1, <2>1, <2>2, <2>3, ListsStay
<1> QED  BY <1>2, <1>4, <1>5

LEMMA StartedFirst == Init => StartedInv
<1> SUFFICES ASSUME Init PROVE StartedInv
  OBVIOUS
<1>1. PICK e : e = [f \in Filter |-> IF f = Default THEN Mount(Empty, FALSE) ELSE Empty]
  OBVIOUS
<1>2. lists = e /\ page.filter = Default /\ op = [k \in Op |-> Unsent]
  BY <1>1 DEF Init
<1>3. \A f \in Filter : EntryOK(lists[f]) /\ (f = Default => Started(lists[f]))
  BY <1>1, <1>2, EmptyOK, MountOK
<1>4. \A k \in Op : BackOK(op[k])
  BY <1>2, UnsentBack
<1> QED  BY <1>1, <1>2, <1>3, <1>4 DEF StartedInv, ListsOK, OnList

LEMMA StartedSteps == HandInv /\ StartedInv /\ [Next]_vars => StartedInv'
<1> SUFFICES ASSUME HandInv, StartedInv, [Next]_vars PROVE StartedInv'
  OBVIOUS
<1>1. CASE UNCHANGED vars
  <2>1. UNCHANGED <<lists, page, op>>
    BY <1>1 DEF vars, clientVars
  <2> QED  BY <2>1, OpsStay, ListsStay DEF SamePlace
<1>2. CASE LibraryUser
  <2>1. CASE (\E f \in Filter : LoadMore(f)) \/ Retry \/ Scroll \/ OpenDialog
    BY <2>1, LooksStarted DEF Looks
  <2>2. CASE \E f \in Filter : LibraryListRoute(f)
    BY <2>2, NavigatesStarted
  <2>3. CASE \E i \in Ids : OpenReader(i)
    BY <2>3, NavigatesStarted, ClientAssumption
  <2>4. CASE LibraryCardMenu \/ ReaderActions
    BY <2>4, ActsStarted DEF LibraryCardMenu, ReaderActions
  <2>5. CASE DeleteConfirm \/ CloseDialog \/ \E url \in Typed : AddLinkForm(url)
    BY <2>5, DialogsStarted
  <2> QED  BY <1>2, <2>1, <2>2, <2>3, <2>4, <2>5 DEF LibraryUser
<1>3. CASE LibraryQueries
  BY <1>3, LooksStarted DEF LibraryQueries, Looks
<1>4. CASE LibraryMutations
  <2>1. CASE useMarkReadOnScroll
    <3>1. \E i, patch, by : useUpdateItem(i, patch, by)
      BY <2>1 DEF useMarkReadOnScroll
    <3> QED  BY <3>1, UpdatesStarted
  <2>2. CASE \E k \in Op : SaveURL(k) \/ Handle(k) \/ Drop(k)
    BY <2>2, ServesStarted
  <2>3. CASE \E k \in Op : UpdateSettled(k) \/ useDeleteItem(k) \/ useSaveLink(k)
    BY <2>3, SettlesStarted
  <2> QED  BY <1>4, <2>1, <2>2, <2>3 DEF LibraryMutations
<1> QED  BY <1>1, <1>2, <1>3, <1>4 DEF Next

\* The list on screen always shows something, loads, or waits for an update that
\* will load it again, for any number of filters and mutations (onMutate's
\* cancelQueries and onSettled's invalidateQueries in use-mutations.tsx).
THEOREM NeverLeftStuck == Spec => []NeverStuck
<1>1. StartedInv => NeverStuck
  BY StartedMeans
<1>2. Spec => []HandInv
  BY MarksInvariant
<1> QED  BY <1>1, <1>2, StartedFirst, StartedSteps, PTL DEF Spec
=============================================================================
