------------------------------ MODULE RadarWeb ------------------------------
(***************************************************************************)
(* The radar of the web client: topics and matches (TopicsClient) and feeds *)
(* (RadarSources) use the same query cache under keys of their own.  A tab  *)
(* is opened in one of the two parts and stays in it.                       *)
(***************************************************************************)
EXTENDS TopicsClient

CONSTANTS Url, Setting, NewSetting, MaxUserFeeds, Shared, Before, MaxFeed, Call, SourceBudgets

ASSUME RadarSourcesAssumption ==
  /\ NewSetting \in Setting
  /\ MaxUserFeeds \in Nat \ {0} /\ MaxFeed \in Nat \ {0, 1}
  /\ Call \subseteq Nat /\ IsFiniteSet(Call) /\ Call # {}
  /\ {Shared, Before} \subseteq Url
  /\ SourceBudgets \subseteq [changes : Nat, visits : Nat, failures : Nat, others : Nat, busy : Nat]

VARIABLES
  part,   \* the part the tab was opened in
  feeds, subscribed, issued, call, feedLists, sourcesPage, sourcesBudget

sourcesVars == <<feeds, subscribed, issued, call, feedLists, sourcesPage, sourcesBudget>>
webVars == <<vars, sourcesVars, part>>

Sources == INSTANCE RadarSources
  WITH cache <- feedLists, page <- sourcesPage, budget <- sourcesBudget, Budgets <- SourceBudgets

InTopics  == part = "topics" /\ UNCHANGED <<sourcesVars, part>>
InSources == part = "sources" /\ UNCHANGED <<vars, part>>

\* What waits for the other part needs one state of it only.
WebInit ==
  /\ part \in {"topics", "sources"}
  /\ Init /\ Sources!Init
  /\ part = "sources" => page.at = "inbox" /\ budget = CHOOSE b \in Budgets : TRUE
  /\ part = "topics" => /\ sourcesPage.at = "sources" /\ issued = 1
                        /\ sourcesBudget = CHOOSE b \in SourceBudgets : TRUE

WebNext ==
  \/ TopicsUser      /\ InTopics
  \/ TopicsQueries   /\ InTopics
  \/ TopicsMutations /\ InTopics
  \/ TopicsServer    /\ InTopics
  \/ Sources!SourcesUser   /\ InSources
  \/ Sources!SourcesClient /\ InSources
  \/ Sources!SourcesServer /\ InSources

WebSpec == WebInit /\ [][WebNext]_webVars

\* The types of both parts.
WebTypeOK == TopicsTypeOK /\ Sources!TypeOK
\* The properties of the feeds, as RadarSources states them.
FeedsMatchServer == Sources!FeedsMatchServer
ToggleStands == Sources!ToggleStands
QuotaBestEffort == Sources!QuotaBestEffort
CatalogNotDuplicated == Sources!CatalogNotDuplicated
=============================================================================
