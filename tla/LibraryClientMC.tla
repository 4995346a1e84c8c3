--------------------------- MODULE LibraryClientMC ---------------------------
(* The library client with two saved articles and lists of one row a page.  *)
EXTENDS LibraryClient

MCFinal == [u \in {"a", "b", "short", "full"} |-> IF u = "short" THEN "full" ELSE u]
MCBefore == <<"b", "a">>
MCUrl == DOMAIN MCFinal
Budget(c, s, v, f, b) ==
  [changes |-> c, saves |-> s, visits |-> v, failures |-> f, busy |-> b]
MCBudgets == {Budget(2, 0, 0, 1, 1), Budget(2, 0, 1, 0, 1), Budget(1, 0, 2, 1, 1),
              Budget(3, 0, 1, 0, 0), Budget(0, 2, 0, 1, 1), Budget(1, 1, 0, 0, 1), Budget(0, 1, 1, 1, 1)}
MCUnread == [state |-> "unread", favorite |-> "any"]
MCFilter == {MCUnread, [state |-> "all", favorite |-> "any"]}
=============================================================================
