------------------------- MODULE RadarPipelineProofs -------------------------
(***************************************************************************)
(* Theorems of RadarPipeline for every value of its constants: its types,  *)
(* that matches are sound, jobs single and stages in order, and what the   *)
(* radar's reader can rely on: stored validators, findings that are not    *)
(* left behind, review states, and the life cycle of a finding.            *)
(***************************************************************************)
EXTENDS RadarPipeline, TLAPS

CrawlRow ==
  [at : {"free", "queued"} \cup CrawlRunning, feed : Feed \cup {NoFeed},
   attempt : 0 .. MaxAttempts, todo : SUBSET Item, item : Item \cup {NoItem},
   tag : {NoTag} \cup SUBSET Item]
JobRow(running) == [at : JobStates(running), attempt : 0 .. MaxAttempts]

\* A row as a worker leaves it: a queued job has attempts left, a crawl knows
\* its feed, and a worker about to insert an embed job knows the finding.
GoodCrawl(c) ==
  /\ c \in CrawlRow
  /\ c.at # "free" => c.feed \in Feed
  /\ c.at = "queued" => c.attempt < MaxAttempts
  /\ c.at \in {"reread", "enqueue"} => c.item \in Item

GoodJob(job, running) ==
  /\ job \in JobRow(running)
  /\ job.at = "queued" => job.attempt < MaxAttempts

ScheduleRow == [at : {"free", "queued"} \cup ScheduleRunning, todo : SUBSET Feed]

\* The conjuncts of TypeOK by table, with what is known of each job row.
FeedsOK ==
  /\ feedRow \in [Feed -> {"absent", "live", "deleted"}]
  /\ isActive \in [Feed -> BOOLEAN] /\ due \in [Feed -> BOOLEAN]
  /\ etag \in [Feed -> {NoTag} \cup SUBSET Item]
DocOK   == doc \in [Feed -> SUBSET Item]
SubsOK  == subs \subseteq User \X Feed
TopicsOK ==
  /\ topicRow \in [Topic -> {"absent", "bare", "embedded", "deleted"}]
  /\ topicOn \in [Topic -> BOOLEAN]
FindingOK == finding \in [Finding -> {"none", "bare", "embedded"}]
MatchOK   == match \in [Topic \X Finding -> {"none", "new", "seen"}]
ScheduleOK == schedule \in [ScheduleJob -> ScheduleRow]
CrawlOK ==
  /\ crawl \in [CrawlJob -> CrawlRow]
  /\ \A j \in CrawlJob : GoodCrawl(crawl[j])
EmbedOK ==
  /\ embed \in [Finding -> JobRow(EmbedRunning)]
  /\ \A x \in Finding : GoodJob(embed[x], EmbedRunning)
MatchingOK ==
  /\ matching \in [Finding -> JobRow(MatchRunning)]
  /\ \A x \in Finding : GoodJob(matching[x], MatchRunning)
FaultsOK == faults \in 0 .. MaxFaults

TypeInv ==
  /\ FeedsOK /\ DocOK /\ SubsOK /\ TopicsOK /\ FindingOK /\ MatchOK
  /\ ScheduleOK /\ CrawlOK /\ EmbedOK /\ MatchingOK /\ FaultsOK

\* TypeInv strengthens TypeOK.
LEMMA TypeInvImplies == TypeInv => TypeOK
BY DEF TypeInv, TypeOK, FeedsOK, DocOK, SubsOK, TopicsOK, FindingOK, MatchOK,
       ScheduleOK, CrawlOK, EmbedOK, MatchingOK, FaultsOK, ScheduleRow, CrawlRow, JobRow

-----------------------------------------------------------------------------
(* The operators on job rows.                                              *)

\* A queued crawl with attempts left, and a free slot, are good rows.
LEMMA QueuedCrawlGood ==
  ASSUME NEW f \in Feed, NEW n \in Nat, n < MaxAttempts
  PROVE  GoodCrawl(QueuedCrawl(f, n))
<1>1. n \in 0 .. MaxAttempts
  BY PipelineAssumption
<1> QED
  BY <1>1 DEF GoodCrawl, QueuedCrawl, CrawlRow, CrawlRunning

LEMMA FreeCrawlGood == GoodCrawl(FreeCrawl)
<1>1. 0 \in 0 .. MaxAttempts
  BY PipelineAssumption
<1> QED
  BY <1>1 DEF GoodCrawl, FreeCrawl, CrawlRow, CrawlRunning

\* A failed attempt leaves a good row, also one of the attempt just counted.
LEMMA RetryCrawlGood ==
  ASSUME NEW c \in CrawlRow, c.feed \in Feed
  PROVE  GoodCrawl(RetryCrawl(c))
<1>1. c.attempt \in Nat
  BY DEF CrawlRow
<1>2. CASE c.attempt < MaxAttempts
  BY <1>1, <1>2, QueuedCrawlGood DEF RetryCrawl
<1>3. CASE ~(c.attempt < MaxAttempts)
  BY <1>3, FreeCrawlGood DEF RetryCrawl
<1> QED
  BY <1>2, <1>3

LEMMA RetryGood ==
  ASSUME NEW running, NEW job \in JobRow(running)
  PROVE  GoodJob(Retry(job), running)
BY PipelineAssumption DEF GoodJob, Retry, JobRow, JobStates

LEMMA FreshGood ==
  ASSUME NEW running
  PROVE  GoodJob(Fresh, running) /\ GoodJob(NoJob, running)
BY PipelineAssumption DEF GoodJob, Fresh, NoJob, JobRow, JobStates

LEMMA DoneGood ==
  ASSUME NEW running, NEW job, GoodJob(job, running)
  PROVE  GoodJob(Done(job), running)
BY DEF GoodJob, Done, JobRow, JobStates

\* Writing a good row keeps all rows good.
LEMMA SetCrawlGood ==
  ASSUME NEW j \in CrawlJob, NEW c, GoodCrawl(c), SetCrawl(j, c), CrawlOK
  PROVE  CrawlOK'
BY DEF SetCrawl, GoodCrawl, CrawlOK

LEMMA SetEmbedGood ==
  ASSUME NEW x \in Finding, NEW job, GoodJob(job, EmbedRunning), SetEmbed(x, job), EmbedOK
  PROVE  EmbedOK'
BY DEF SetEmbed, GoodJob, EmbedOK

LEMMA SetMatchingGood ==
  ASSUME NEW x \in Finding, NEW job, GoodJob(job, MatchRunning),
         matching' = [matching EXCEPT ![x] = job], MatchingOK
  PROVE  MatchingOK'
BY DEF GoodJob, MatchingOK

\* Tables that a step leaves alone stay typed.
LEMMA RowsUnchanged ==
  ASSUME TypeInv, UNCHANGED <<rowVars, doc>>
  PROVE  FeedsOK' /\ DocOK' /\ SubsOK' /\ TopicsOK' /\ FindingOK' /\ MatchOK'
BY DEF TypeInv, rowVars, feedVars, topicVars, FeedsOK, DocOK, SubsOK, TopicsOK,
       FindingOK, MatchOK

LEMMA JobsUnchanged ==
  ASSUME TypeInv
  PROVE  /\ (UNCHANGED schedule => ScheduleOK') /\ (UNCHANGED crawl => CrawlOK')
         /\ (UNCHANGED embed => EmbedOK') /\ (UNCHANGED matching => MatchingOK')
         /\ (UNCHANGED faults => FaultsOK')
BY DEF TypeInv, ScheduleOK, CrawlOK, EmbedOK, MatchingOK, FaultsOK

-----------------------------------------------------------------------------
(* schedule_crawls keeps the types.                                        *)

LEMMA ScheduleTypes ==
  ASSUME TypeInv, NEW s \in ScheduleJob, ScheduleCrawls(s)
  PROVE  TypeInv'
<1> USE DEF TypeInv
<1>1. CASE PeriodicTick(s)
  <2>1. ScheduleOK'
    BY <1>1 DEF PeriodicTick, ScheduleOK, ScheduleRow
  <2> QED
    BY <1>1, <2>1, RowsUnchanged, JobsUnchanged DEF PeriodicTick
<1>2. CASE ScheduleStart(s)
  <2>1. PICK ids \in ListDueFeeds(BatchSize) :
          schedule' = [schedule EXCEPT ![s] = [at |-> "enqueue", todo |-> ids]]
    BY <1>2 DEF ScheduleStart
  <2>2. ids \in SUBSET Feed
    BY <2>1 DEF ListDueFeeds, DueFeeds
  <2>3. ScheduleOK'
    BY <2>1, <2>2 DEF ScheduleOK, ScheduleRow, ScheduleRunning
  <2> QED
    BY <1>2, <2>3, RowsUnchanged, JobsUnchanged DEF ScheduleStart
<1>3. CASE ScheduleReturn(s)
  <2>1. ScheduleOK'
    BY <1>3 DEF ScheduleReturn, FreeSchedule, ScheduleOK, ScheduleRow
  <2> QED
    BY <1>3, <2>1, RowsUnchanged, JobsUnchanged DEF ScheduleReturn
<1>4. ASSUME NEW f \in Feed, NEW j \in CrawlJob, ScheduleEnqueue(s, f, j)
      PROVE  TypeInv'
  <2>1. GoodCrawl(QueuedCrawl(f, 0))
    BY PipelineAssumption, QueuedCrawlGood
  <2>2. CrawlOK'
    BY <1>4, <2>1, SetCrawlGood DEF ScheduleEnqueue, SetCrawl
  <2>3. ScheduleOK'
    BY <1>4 DEF ScheduleEnqueue, ScheduleOK, ScheduleRow
  <2> QED
    BY <1>4, <2>2, <2>3, RowsUnchanged, JobsUnchanged DEF ScheduleEnqueue
<1> QED
  BY <1>1, <1>2, <1>3, <1>4 DEF ScheduleCrawls

-----------------------------------------------------------------------------
(* crawl_feed keeps the types.                                             *)

\* A running crawl has its row and its feed.
LEMMA RunningCrawl ==
  ASSUME CrawlOK, NEW j \in CrawlJob
  PROVE  crawl[j] \in CrawlRow /\ (crawl[j].at # "free" => crawl[j].feed \in Feed)
BY DEF CrawlOK, GoodCrawl

\* The failure of a crawl writes a good row.
LEMMA CrawlFailsTypes ==
  ASSUME CrawlOK, NEW j \in CrawlJob, crawl[j].at # "free", CrawlFails(j)
  PROVE  CrawlOK'
BY RunningCrawl, RetryCrawlGood, SetCrawlGood DEF CrawlFails

LEMMA CrawlStartTypes ==
  ASSUME TypeInv, NEW j \in CrawlJob, CrawlStart(j)
  PROVE  TypeInv'
<1> DEFINE c == [crawl[j] EXCEPT !.attempt = @ + 1]
           d == [c EXCEPT !.at = "fetch", !.tag = etag[c.feed]]
<1>1. crawl[j] \in CrawlRow /\ crawl[j].feed \in Feed /\ crawl[j].attempt < MaxAttempts
  BY DEF TypeInv, CrawlOK, GoodCrawl, CrawlStart
<1>2. c \in CrawlRow /\ c.feed \in Feed
  <2>1. crawl[j].attempt + 1 \in 0 .. MaxAttempts
    BY <1>1, PipelineAssumption DEF CrawlRow
  <2> QED
    BY <1>1, <2>1 DEF CrawlRow
<1>3. etag[c.feed] \in {NoTag} \cup SUBSET Item
  BY <1>2 DEF TypeInv, FeedsOK
<1>4. GoodCrawl(d)
  BY <1>2, <1>3 DEF GoodCrawl, CrawlRow, CrawlRunning
<1>5. GoodCrawl(RetryCrawl(c))
  BY <1>2, RetryCrawlGood
<1>6. SetCrawl(j, d) \/ SetCrawl(j, RetryCrawl(c))
  BY DEF CrawlStart
<1>7. CrawlOK'
  <2> HIDE DEF c, d
  <2> QED
    BY <1>4, <1>5, <1>6, SetCrawlGood DEF TypeInv
<1> QED
  BY <1>7, RowsUnchanged, JobsUnchanged DEF CrawlStart, TypeInv

LEMMA FetchTypes ==
  ASSUME TypeInv, NEW j \in CrawlJob,
         FetchDocument(j) \/ FetchNotModified(j) \/ FetchFails(j)
  PROVE  TypeInv'
<1> USE DEF TypeInv
<1>1. crawl[j] \in CrawlRow /\ crawl[j].feed \in Feed
  BY RunningCrawl DEF FetchDocument, FetchNotModified, FetchFails
<1>2. CASE FetchDocument(j)
  <2> DEFINE d == doc[crawl[j].feed]
             tag == IF crawl[j].feed \in SendsETag THEN d ELSE NoTag
             c == [crawl[j] EXCEPT !.at = "store", !.todo = d, !.tag = tag]
  <2>1. d \in SUBSET Item
    BY <1>1 DEF DocOK
  <2>2. tag \in {NoTag} \cup SUBSET Item
    BY <2>1
  <2>3. SetCrawl(j, c)
    BY <1>2 DEF FetchDocument
  <2>4. GoodCrawl(c)
    <3> HIDE DEF d, tag
    <3> QED
      BY <1>1, <2>1, <2>2 DEF GoodCrawl, CrawlRow, CrawlRunning
  <2>5. CrawlOK'
    <3> HIDE DEF c
    <3> QED
      BY <2>3, <2>4, SetCrawlGood
  <2> QED
    BY <1>2, <2>5, RowsUnchanged, JobsUnchanged DEF FetchDocument
<1>3. CASE FetchNotModified(j)
  <2> DEFINE c == [crawl[j] EXCEPT !.at = "store"]
  <2>1. SetCrawl(j, c)
    BY <1>3 DEF FetchNotModified
  <2>2. GoodCrawl(c)
    BY <1>1 DEF GoodCrawl, CrawlRow, CrawlRunning
  <2>3. CrawlOK'
    <3> HIDE DEF c
    <3> QED
      BY <2>1, <2>2, SetCrawlGood
  <2> QED
    BY <1>3, <2>3, RowsUnchanged, JobsUnchanged DEF FetchNotModified
<1>4. CASE FetchFails(j)
  <2>1. CrawlOK'
    BY <1>4, CrawlFailsTypes DEF FetchFails
  <2>2. FeedsOK' /\ DocOK' /\ SubsOK' /\ TopicsOK' /\ FindingOK' /\ MatchOK'
    BY <1>4 DEF FetchFails, topicVars, FeedsOK, DocOK, SubsOK, TopicsOK, FindingOK, MatchOK
  <2> QED
    BY <1>4, <2>1, <2>2, JobsUnchanged DEF FetchFails
<1> QED
  BY <1>2, <1>3, <1>4

LEMMA UpsertFindingTypes ==
  ASSUME TypeInv, NEW j \in CrawlJob, NEW i \in Item, UpsertFinding(j, i)
  PROVE  TypeInv'
<1> USE DEF TypeInv
<1> DEFINE c == crawl[j]
           x == <<c.feed, i>>
<1>1. c \in CrawlRow /\ c.feed \in Feed /\ x \in Finding
  BY RunningCrawl DEF UpsertFinding, Finding
<1>2. GoodCrawl([c EXCEPT !.at = "enqueue", !.item = i])
  BY <1>1 DEF GoodCrawl, CrawlRow, CrawlRunning
<1>3. GoodCrawl([c EXCEPT !.at = "reread", !.item = i])
  BY <1>1 DEF GoodCrawl, CrawlRow, CrawlRunning
<1>4. CrawlOK' /\ FindingOK'
  <2>1. CASE CrawlFails(j) /\ UNCHANGED finding
    BY <2>1, CrawlFailsTypes DEF UpsertFinding, FindingOK
  <2>2. CASE finding' = [finding EXCEPT ![x] = IF @ = "none" THEN "bare" ELSE @]
             /\ SetCrawl(j, [c EXCEPT !.at = "enqueue", !.item = i])
    BY <1>1, <1>2, <2>2, SetCrawlGood DEF FindingOK
  <2>3. CASE finding' = [finding EXCEPT ![x] = IF @ = "none" THEN "bare" ELSE @]
             /\ SetCrawl(j, [c EXCEPT !.at = "reread", !.item = i])
    BY <1>1, <1>3, <2>3, SetCrawlGood DEF FindingOK
  <2> QED
    BY <2>1, <2>2, <2>3 DEF UpsertFinding
<1>5. FeedsOK' /\ DocOK' /\ SubsOK' /\ TopicsOK' /\ MatchOK'
  BY DEF UpsertFinding, feedVars, topicVars, FeedsOK, DocOK, SubsOK, TopicsOK, MatchOK
<1> QED
  BY <1>4, <1>5, JobsUnchanged DEF UpsertFinding

\* Going on with the next item of the document.
LEMMA NextItemGood ==
  ASSUME NEW c \in CrawlRow, c.feed \in Feed
  PROVE  /\ GoodCrawl(NextItem(c)) /\ NextItem(c).at = "store"
         /\ NextItem(c).feed = c.feed /\ NextItem(c).tag = c.tag
         /\ NextItem(c).todo = c.todo \ {c.item}
BY DEF NextItem, GoodCrawl, CrawlRow, CrawlRunning

LEMMA RereadTypes ==
  ASSUME TypeInv, NEW j \in CrawlJob, GetFindingByExternalID(j)
  PROVE  TypeInv'
<1>1. crawl[j] \in CrawlRow /\ crawl[j].feed \in Feed
  BY RunningCrawl DEF GetFindingByExternalID, TypeInv
<1>2. CASE SetCrawl(j, NextItem(crawl[j]))
  <2>1. PICK c : c = NextItem(crawl[j])
    OBVIOUS
  <2>2. GoodCrawl(c)
    BY <1>1, <2>1, NextItemGood
  <2> QED
    BY <1>2, <2>1, <2>2, SetCrawlGood, RowsUnchanged, JobsUnchanged
       DEF GetFindingByExternalID, TypeInv
<1>3. CASE CrawlFails(j)
  BY <1>3, CrawlFailsTypes, RowsUnchanged, JobsUnchanged DEF GetFindingByExternalID, TypeInv
<1> QED
  BY <1>2, <1>3 DEF GetFindingByExternalID

LEMMA EnqueueEmbedTypes ==
  ASSUME TypeInv, NEW j \in CrawlJob, EnqueueEmbed(j)
  PROVE  TypeInv'
<1> USE DEF TypeInv
<1> DEFINE c == NextItem(crawl[j])
           x == <<crawl[j].feed, crawl[j].item>>
<1>1. crawl[j] \in CrawlRow /\ crawl[j].feed \in Feed /\ x \in Finding
  BY DEF CrawlOK, GoodCrawl, EnqueueEmbed, Finding
<1>2. SetCrawl(j, c) /\ SetEmbed(x, Fresh)
  BY DEF EnqueueEmbed, SetEmbed
<1>3. GoodCrawl(c)
  BY <1>1, NextItemGood
<1>4. CrawlOK' /\ EmbedOK'
  <2> HIDE DEF c, x
  <2> QED
    BY <1>1, <1>2, <1>3, SetCrawlGood, SetEmbedGood, FreshGood
<1> QED
  BY <1>4, RowsUnchanged, JobsUnchanged DEF EnqueueEmbed

LEMMA MarkFeedFetchedTypes ==
  ASSUME TypeInv, NEW j \in CrawlJob, MarkFeedFetched(j)
  PROVE  TypeInv'
<1> USE DEF TypeInv
<1> DEFINE c == [crawl[j] EXCEPT !.at = "return"]
<1>1. crawl[j] \in CrawlRow /\ crawl[j].feed \in Feed
  BY RunningCrawl DEF MarkFeedFetched, LoopDone
<1>2. SetCrawl(j, c)
  BY DEF MarkFeedFetched
<1>3. GoodCrawl(c)
  BY <1>1 DEF GoodCrawl, CrawlRow, CrawlRunning
<1>4. CrawlOK'
  <2> HIDE DEF c
  <2> QED
    BY <1>2, <1>3, SetCrawlGood
<1>5. crawl[j].tag \in {NoTag} \cup SUBSET Item
  BY <1>1 DEF CrawlRow
<1>6. FeedsOK'
  BY <1>1, <1>5 DEF MarkFeedFetched, FeedsOK
<1>7. DocOK' /\ SubsOK' /\ TopicsOK' /\ FindingOK' /\ MatchOK'
  BY DEF MarkFeedFetched, topicVars, DocOK, SubsOK, TopicsOK, FindingOK, MatchOK
<1> QED
  BY <1>4, <1>6, <1>7, JobsUnchanged DEF MarkFeedFetched

LEMMA CrawlTypes ==
  ASSUME TypeInv, NEW j \in CrawlJob, CrawlFeed(j)
  PROVE  TypeInv'
<1>1. CASE CrawlReturn(j)
  <2>1. CrawlOK'
    BY <1>1, FreeCrawlGood, SetCrawlGood DEF CrawlReturn, TypeInv
  <2> QED
    BY <1>1, <2>1, RowsUnchanged, JobsUnchanged DEF CrawlReturn, TypeInv
<1> QED
  BY <1>1, CrawlStartTypes, FetchTypes, UpsertFindingTypes, RereadTypes, EnqueueEmbedTypes,
     MarkFeedFetchedTypes DEF CrawlFeed

-----------------------------------------------------------------------------
(* embed_finding and match_finding keep the types.                         *)

LEMMA EmbedStartTypes ==
  ASSUME TypeInv, NEW x \in Finding, EmbedStart(x)
  PROVE  TypeInv'
<1> USE DEF TypeInv
<1> DEFINE job == [embed[x] EXCEPT !.attempt = @ + 1]
<1>1. embed[x] \in JobRow(EmbedRunning) /\ embed[x].attempt < MaxAttempts
  BY DEF EmbedOK, GoodJob, EmbedStart
<1>2. job \in JobRow(EmbedRunning)
  <2>1. embed[x].attempt + 1 \in 0 .. MaxAttempts
    BY <1>1, PipelineAssumption DEF JobRow
  <2> QED
    BY <1>1, <2>1 DEF JobRow
<1>3. GoodJob(Retry(job), EmbedRunning)
  BY <1>2, RetryGood
<1>4. GoodJob([job EXCEPT !.at = "return"], EmbedRunning)
      /\ GoodJob([job EXCEPT !.at = "call"], EmbedRunning)
  BY <1>2 DEF GoodJob, JobRow, JobStates, EmbedRunning
<1>5. \/ SetEmbed(x, Retry(job)) \/ SetEmbed(x, [job EXCEPT !.at = "return"])
      \/ SetEmbed(x, [job EXCEPT !.at = "call"])
  BY DEF EmbedStart
<1>6. EmbedOK'
  <2> HIDE DEF job
  <2> QED
    BY <1>3, <1>4, <1>5, SetEmbedGood
<1> QED
  BY <1>6, RowsUnchanged, JobsUnchanged DEF EmbedStart

\* A running embed job moves on, fails, or is done: its row stays good.
LEMMA EmbedMoves ==
  ASSUME EmbedOK, NEW x \in Finding, embed[x].at \in EmbedRunning
  PROVE  /\ \A at \in EmbedRunning : GoodJob([embed[x] EXCEPT !.at = at], EmbedRunning)
         /\ GoodJob(Retry(embed[x]), EmbedRunning)
         /\ GoodJob(Done(embed[x]), EmbedRunning)
<1>1. GoodJob(embed[x], EmbedRunning)
  BY DEF EmbedOK
<1>2. \A at \in EmbedRunning : GoodJob([embed[x] EXCEPT !.at = at], EmbedRunning)
  BY <1>1 DEF GoodJob, JobRow, JobStates, EmbedRunning
<1> QED
  BY <1>1, <1>2, RetryGood, DoneGood DEF GoodJob

LEMMA EmbedTypes ==
  ASSUME TypeInv, NEW x \in Finding, EmbedFinding(x)
  PROVE  TypeInv'
<1> USE DEF TypeInv
<1>1. CASE EmbedCall(x)
  <2>1. EmbedOK'
    BY <1>1, EmbedMoves, SetEmbedGood DEF EmbedCall, EmbedRunning
  <2> QED
    BY <1>1, <2>1, RowsUnchanged, JobsUnchanged DEF EmbedCall
<1>2. CASE EmbedCallFails(x)
  <2>1. EmbedOK'
    BY <1>2, EmbedMoves, SetEmbedGood DEF EmbedCallFails, EmbedFails, EmbedRunning
  <2> QED
    BY <1>2, <2>1, RowsUnchanged, JobsUnchanged DEF EmbedCallFails
<1>3. CASE EmbedSave(x)
  <2>1. EmbedOK'
    BY <1>3, EmbedMoves, SetEmbedGood DEF EmbedSave, EmbedFails, EmbedRunning
  <2>2. FindingOK'
    BY <1>3 DEF EmbedSave, FindingOK
  <2>3. FeedsOK' /\ DocOK' /\ SubsOK' /\ TopicsOK' /\ MatchOK'
    BY <1>3 DEF EmbedSave, feedVars, topicVars, FeedsOK, DocOK, SubsOK, TopicsOK, MatchOK
  <2> QED
    BY <1>3, <2>1, <2>2, <2>3, JobsUnchanged DEF EmbedSave
<1>4. CASE EnqueueMatch(x)
  <2>1. EmbedOK'
    BY <1>4, EmbedMoves, SetEmbedGood DEF EnqueueMatch, EmbedRunning
  <2>2. MatchingOK'
    BY <1>4, FreshGood, SetMatchingGood DEF EnqueueMatch
  <2> QED
    BY <1>4, <2>1, <2>2, RowsUnchanged, JobsUnchanged DEF EnqueueMatch
<1>5. CASE EmbedReturn(x)
  <2>1. EmbedOK'
    BY <1>5, EmbedMoves, SetEmbedGood DEF EmbedReturn, EmbedRunning
  <2> QED
    BY <1>5, <2>1, RowsUnchanged, JobsUnchanged DEF EmbedReturn
<1> QED
  BY <1>1, <1>2, <1>3, <1>4, <1>5, EmbedStartTypes DEF EmbedFinding

LEMMA MatchTypes ==
  ASSUME TypeInv, NEW x \in Finding, MatchFinding(x)
  PROVE  TypeInv'
<1> USE DEF TypeInv
<1>0. GoodJob(matching[x], MatchRunning) /\ matching[x] \in JobRow(MatchRunning)
  BY DEF MatchingOK, GoodJob
<1>1. CASE MatchStart(x)
  <2>1. matching[x].attempt + 1 \in 0 .. MaxAttempts
    BY <1>0, <1>1, PipelineAssumption DEF MatchStart, GoodJob, JobRow
  <2>2. MatchingOK'
    BY <1>0, <1>1, <2>1 DEF MatchStart, MatchingOK, GoodJob, JobRow, JobStates, MatchRunning
  <2> QED
    BY <1>1, <2>2, RowsUnchanged, JobsUnchanged DEF MatchStart
<1>2. CASE MatchFindingToTopics(x)
  <2>1. MatchingOK'
    BY <1>0, <1>2 DEF MatchFindingToTopics, MatchingOK, GoodJob, JobRow, JobStates, MatchRunning
  <2>2. MatchOK'
    BY <1>2 DEF MatchFindingToTopics, MatchOK, InsertOrKeep
  <2>3. FeedsOK' /\ DocOK' /\ SubsOK' /\ TopicsOK' /\ FindingOK'
    BY <1>2 DEF MatchFindingToTopics, feedVars, topicVars, FeedsOK, DocOK, SubsOK,
                TopicsOK, FindingOK
  <2> QED
    BY <1>2, <2>1, <2>2, <2>3, JobsUnchanged DEF MatchFindingToTopics
<1>3. CASE MatchReturn(x)
  <2>1. GoodJob(Done(matching[x]), MatchRunning)
    BY <1>0, DoneGood
  <2>2. MatchingOK'
    BY <1>3, <2>1, SetMatchingGood DEF MatchReturn
  <2> QED
    BY <1>3, <2>2, RowsUnchanged, JobsUnchanged DEF MatchReturn
<1> QED
  BY <1>1, <1>2, <1>3 DEF MatchFinding

-----------------------------------------------------------------------------
(* Faults keep the types.                                                  *)

LEMMA ScheduleErrorTypes ==
  ASSUME ScheduleOK, NEW s \in ScheduleJob, ScheduleError(s)
  PROVE  ScheduleOK'
BY DEF ScheduleError, ScheduleOK, ScheduleRow, FreeSchedule

LEMMA MatchErrorTypes ==
  ASSUME MatchingOK, NEW x \in Finding, MatchError(x)
  PROVE  MatchingOK'
BY RetryGood, SetMatchingGood DEF MatchError, MatchingOK

LEMMA JobErrorTypes == TypeInv /\ JobError => TypeInv'
<1> SUFFICES ASSUME TypeInv, JobError PROVE TypeInv'
  OBVIOUS
<1> USE DEF TypeInv
<1>1. FaultsOK'
  BY PipelineAssumption DEF JobError, FaultsOK
<1>2. FeedsOK' /\ DocOK' /\ SubsOK' /\ TopicsOK' /\ FindingOK' /\ MatchOK'
  BY RowsUnchanged DEF JobError
<1>3. ASSUME NEW s \in ScheduleJob, ScheduleError(s)
      PROVE  TypeInv'
  BY <1>1, <1>2, <1>3, ScheduleErrorTypes, JobsUnchanged DEF ScheduleError
<1>4. ASSUME NEW j \in CrawlJob, CrawlError(j)
      PROVE  TypeInv'
  <2>1. CrawlOK'
    BY <1>4, CrawlFailsTypes DEF CrawlError, CrawlRunning
  <2> QED
    BY <1>1, <1>2, <1>4, <2>1, JobsUnchanged DEF CrawlError
<1>5. ASSUME NEW x \in Finding, EmbedError(x)
      PROVE  TypeInv'
  <2>1. EmbedOK'
    BY <1>5, EmbedMoves, SetEmbedGood DEF EmbedError, EmbedFails
  <2> QED
    BY <1>1, <1>2, <1>5, <2>1, JobsUnchanged DEF EmbedError
<1>6. ASSUME NEW x \in Finding, MatchError(x)
      PROVE  TypeInv'
  BY <1>1, <1>2, <1>6, MatchErrorTypes, JobsUnchanged DEF MatchError
<1> QED
  BY <1>3, <1>4, <1>5, <1>6 DEF JobError

LEMMA CrashTypes == TypeInv /\ Crash => TypeInv'
<1> SUFFICES ASSUME TypeInv, Crash PROVE TypeInv'
  OBVIOUS
<1> USE DEF TypeInv
<1>1. FaultsOK'
  BY PipelineAssumption DEF Crash, FaultsOK
<1>2. FeedsOK' /\ DocOK' /\ SubsOK' /\ TopicsOK' /\ FindingOK' /\ MatchOK'
  BY RowsUnchanged DEF Crash
<1>3. ScheduleOK'
  BY DEF Crash, ScheduleOK, ScheduleRow, FreeSchedule
<1>4. CrawlOK'
  <2>1. \A j \in CrawlJob : crawl[j].at \in CrawlRunning => GoodCrawl(RetryCrawl(crawl[j]))
    BY RunningCrawl, RetryCrawlGood DEF CrawlRunning
  <2>2. \A j \in CrawlJob : GoodCrawl(crawl'[j])
    BY <2>1 DEF Crash, CrawlOK
  <2> QED
    BY <2>2 DEF Crash, CrawlOK, GoodCrawl
<1>5. EmbedOK'
  <2>1. \A x \in Finding : GoodJob(Retry(embed[x]), EmbedRunning)
    BY RetryGood DEF EmbedOK
  <2>2. \A x \in Finding : GoodJob(embed'[x], EmbedRunning)
    BY <2>1 DEF Crash, EmbedOK
  <2> QED
    BY <2>2 DEF Crash, EmbedOK, GoodJob
<1>6. MatchingOK'
  <2>1. \A x \in Finding : GoodJob(Retry(matching[x]), MatchRunning)
    BY RetryGood DEF MatchingOK
  <2>2. \A x \in Finding : GoodJob(matching'[x], MatchRunning)
    BY <2>1 DEF Crash, MatchingOK
  <2> QED
    BY <2>2 DEF Crash, MatchingOK, GoodJob
<1> QED
  BY <1>1, <1>2, <1>3, <1>4, <1>5, <1>6

-----------------------------------------------------------------------------
(* The publisher, the administrator and the users keep the types.          *)

LEMMA FeedChangeTypes ==
  ASSUME TypeInv, NEW f \in Feed, FeedChange(f)
  PROVE  TypeInv'
<1> USE DEF TypeInv
<1>0. UNCHANGED <<jobVars, faults>>
  BY DEF FeedChange, Publish, IntervalElapses, AddFeed, UpdateFeed, DeleteFeed,
         Subscribe, Unsubscribe
<1>1. ScheduleOK' /\ CrawlOK' /\ EmbedOK' /\ MatchingOK' /\ FaultsOK'
  BY <1>0, JobsUnchanged DEF jobVars
<1>2. FeedsOK'
  BY DEF FeedChange, Publish, IntervalElapses, AddFeed, UpdateFeed, DeleteFeed,
         Subscribe, Unsubscribe, rowVars, feedVars, FeedsOK
<1>3. DocOK' /\ TopicsOK'
  BY DEF FeedChange, Publish, IntervalElapses, AddFeed, UpdateFeed, DeleteFeed,
         Subscribe, Unsubscribe, rowVars, topicVars, DocOK, TopicsOK
<1>4. SubsOK'
  BY DEF FeedChange, Publish, IntervalElapses, AddFeed, UpdateFeed, DeleteFeed,
         Subscribe, Unsubscribe, rowVars, SubsOK
<1>5. FindingOK' /\ MatchOK'
  BY DEF FeedChange, Publish, IntervalElapses, AddFeed, UpdateFeed, DeleteFeed,
         Subscribe, Unsubscribe, rowVars, MatchesWithout, FindingOK, MatchOK
<1> QED
  BY <1>1, <1>2, <1>3, <1>4, <1>5

LEMMA TopicChangeTypes ==
  ASSUME TypeInv, NEW t \in Topic, TopicChange(t)
  PROVE  TypeInv'
<1> USE DEF TypeInv
<1>1. ScheduleOK' /\ CrawlOK' /\ EmbedOK' /\ MatchingOK' /\ FaultsOK'
  BY JobsUnchanged DEF TopicChange, CreateTopic, UpdateTopicEmbedding, UpdateTopic,
                       DeleteTopic, jobVars
<1>2. FeedsOK' /\ DocOK' /\ SubsOK' /\ FindingOK'
  BY DEF TopicChange, CreateTopic, UpdateTopicEmbedding, UpdateTopic, DeleteTopic,
         feedVars, FeedsOK, DocOK, SubsOK, FindingOK
<1>3. TopicsOK' /\ MatchOK'
  BY DEF TopicChange, CreateTopic, UpdateTopicEmbedding, UpdateTopic, DeleteTopic,
         TopicsOK, MatchOK
<1> QED
  BY <1>1, <1>2, <1>3

LEMMA UpdateMatchStateTypes ==
  ASSUME TypeInv, NEW p \in Topic \X Finding, UpdateMatchState(p)
  PROVE  TypeInv'
<1> USE DEF TypeInv
<1>1. ScheduleOK' /\ CrawlOK' /\ EmbedOK' /\ MatchingOK' /\ FaultsOK'
  BY JobsUnchanged DEF UpdateMatchState, jobVars
<1>2. MatchOK'
  BY DEF UpdateMatchState, MatchOK
<1>3. FeedsOK' /\ DocOK' /\ SubsOK' /\ TopicsOK' /\ FindingOK'
  BY DEF UpdateMatchState, feedVars, topicVars, FeedsOK, DocOK, SubsOK, TopicsOK, FindingOK
<1> QED
  BY <1>1, <1>2, <1>3

-----------------------------------------------------------------------------
LEMMA InitTypes == Init => TypeInv
<1> SUFFICES ASSUME Init PROVE TypeInv
  OBVIOUS
<1>1. CrawlOK
  BY FreeCrawlGood DEF Init, CrawlOK, GoodCrawl
<1>2. EmbedOK /\ MatchingOK
  BY FreshGood DEF Init, EmbedOK, MatchingOK, GoodJob
<1> QED
  BY <1>1, <1>2, PipelineAssumption
     DEF Init, TypeInv, FeedsOK, DocOK, SubsOK, TopicsOK, FindingOK, MatchOK,
         ScheduleOK, ScheduleRow, FreeSchedule, FaultsOK

LEMMA NextTypes == TypeInv /\ [Next]_vars => TypeInv'
<1> SUFFICES ASSUME TypeInv, [Next]_vars PROVE TypeInv'
  OBVIOUS
<1>1. CASE Next
  BY <1>1, ScheduleTypes, CrawlTypes, EmbedTypes, MatchTypes, JobErrorTypes, CrashTypes,
     FeedChangeTypes, TopicChangeTypes, UpdateMatchStateTypes DEF Next
<1>2. CASE UNCHANGED vars
  BY <1>2, RowsUnchanged, JobsUnchanged DEF vars, jobVars, TypeInv
<1> QED
  BY <1>1, <1>2

LEMMA TypeInvariant == Spec => []TypeInv
BY InitTypes, NextTypes, PTL DEF Spec

\* Every row of every table, and the local state of every worker, keeps its
\* type; in particular no job is tried more than MaxAttempts times.
THEOREM TypeCorrect == Spec => []TypeOK
BY TypeInvariant, TypeInvImplies, PTL

-----------------------------------------------------------------------------
(* What a reader may be shown: MatchesAreSound.                            *)

\* Subscriptions only join a live feed and an account that may read it.
SubsSound ==
  \A s \in subs : feedRow[s[2]] = "live" /\ MayRead(s[1], s[2])

\* A deleted feed takes its findings with it.
FindingsLive ==
  \A x \in Finding : finding[x] # "none" => feedRow[x[1]] = "live"

SoundInv == SubsSound /\ FindingsLive /\ MatchesAreSound

readVars == <<feedRow, subs, topicRow, finding, match>>

\* Nothing else is read by SoundInv.
LEMMA SoundFrame == SoundInv /\ UNCHANGED readVars => SoundInv'
BY DEF SoundInv, SubsSound, FindingsLive, MatchesAreSound, MayRead, readVars

\* The scheduler and the crawler, of which only UpsertFinding writes a row that
\* SoundInv reads, and all failures.
LEMMA WorkersSound ==
  ASSUME TypeInv, SoundInv,
         \/ \E s \in ScheduleJob : ScheduleCrawls(s)
         \/ \E j \in CrawlJob : CrawlFeed(j)
         \/ JobError \/ Crash
  PROVE  SoundInv'
<1>1. ASSUME NEW j \in CrawlJob, NEW i \in Item, UpsertFinding(j, i)
      PROVE  SoundInv'
  <2>1. crawl[j].feed \in Feed
    BY <1>1, RunningCrawl DEF UpsertFinding, TypeInv
  <2>2. FindingsLive'
    BY <1>1, <2>1 DEF UpsertFinding, SoundInv, FindingsLive, TypeInv, FindingOK, feedVars, Finding
  <2>3. SubsSound'
    BY <1>1 DEF UpsertFinding, SoundInv, SubsSound, MayRead, feedVars
  <2>4. MatchesAreSound'
    <3>1. \A x \in Finding : finding[x] = "embedded" => finding'[x] = "embedded"
      BY <1>1 DEF UpsertFinding, TypeInv, FindingOK
    <3> QED
      BY <1>1, <3>1 DEF UpsertFinding, SoundInv, MatchesAreSound, feedVars, topicVars
  <2> QED
    BY <2>2, <2>3, <2>4 DEF SoundInv
<1>2. ASSUME NEW s \in ScheduleJob, ScheduleCrawls(s)
      PROVE  UNCHANGED readVars
  BY <1>2 DEF ScheduleCrawls, PeriodicTick, ScheduleStart, ScheduleReturn, ScheduleEnqueue,
              rowVars, feedVars, topicVars, readVars
<1>3. ASSUME NEW j \in CrawlJob, CrawlFeed(j), \A i \in Item : ~UpsertFinding(j, i)
      PROVE  UNCHANGED readVars
  BY <1>3 DEF CrawlFeed, CrawlStart, FetchDocument, FetchNotModified, FetchFails,
              GetFindingByExternalID, EnqueueEmbed, MarkFeedFetched, CrawlReturn,
              rowVars, feedVars, topicVars, readVars
<1>4. JobError \/ Crash => UNCHANGED readVars
  BY DEF JobError, Crash, rowVars, feedVars, topicVars, readVars
<1> QED
  BY <1>1, <1>2, <1>3, <1>4, SoundFrame

LEMMA EmbedSound ==
  ASSUME TypeInv, SoundInv, NEW x \in Finding, EmbedFinding(x)
  PROVE  SoundInv'
<1>1. CASE EmbedSave(x)
  <2>1. \A y \in Finding : /\ finding[y] = "embedded" => finding'[y] = "embedded"
                           /\ finding'[y] # "none" => finding[y] # "none"
    BY <1>1 DEF EmbedSave, TypeInv, FindingOK
  <2>2. UNCHANGED <<feedRow, subs, topicRow, match>>
    BY <1>1 DEF EmbedSave, feedVars, topicVars
  <2> QED
    BY <2>1, <2>2 DEF SoundInv, SubsSound, MayRead, FindingsLive, MatchesAreSound
<1>2. CASE ~EmbedSave(x)
  <2>1. UNCHANGED readVars
    BY <1>2 DEF EmbedFinding, EmbedStart, EmbedCall, EmbedCallFails, EnqueueMatch,
                EmbedReturn, rowVars, feedVars, topicVars, readVars
  <2> QED
    BY <2>1, SoundFrame
<1> QED
  BY <1>1, <1>2

\* The INSERT ... SELECT joins through a subscription of the topic's owner.
LEMMA MatchSound ==
  ASSUME TypeInv, SoundInv, NEW x \in Finding, MatchFinding(x)
  PROVE  SoundInv'
<1>1. CASE MatchFindingToTopics(x)
  <2>1. UNCHANGED <<feedRow, subs, topicRow, finding>>
    BY <1>1 DEF MatchFindingToTopics, feedVars, topicVars
  <2>2. SubsSound' /\ FindingsLive'
    BY <2>1 DEF SoundInv, SubsSound, FindingsLive, MayRead
  <2>3. ASSUME NEW p \in Topic \X Finding, match'[p] # "none", match[p] = "none"
        PROVE  /\ topicRow[p[1]] = "embedded" /\ finding[p[2]] = "embedded"
               /\ feedRow[p[2][1]] = "live"
               /\ FeedOwner[p[2][1]] \in {Catalog, TopicOwner[p[1]]}
    <3>1. p[2] = x /\ Eligible(p[1], x)
      BY <1>1, <2>3 DEF MatchFindingToTopics
    <3>2. <<TopicOwner[p[1]], x[1]>> \in subs
      BY <3>1 DEF Eligible
    <3>3. feedRow[x[1]] = "live" /\ MayRead(TopicOwner[p[1]], x[1])
      BY <3>2 DEF SoundInv, SubsSound
    <3> QED
      BY <3>1, <3>3 DEF Eligible, MayRead
  <2>4. MatchesAreSound'
    BY <2>1, <2>3 DEF SoundInv, MatchesAreSound
  <2> QED
    BY <2>2, <2>4 DEF SoundInv
<1>2. CASE ~MatchFindingToTopics(x)
  <2>1. UNCHANGED readVars
    BY <1>2 DEF MatchFinding, MatchStart, MatchReturn, rowVars, feedVars, topicVars, readVars
  <2> QED
    BY <2>1, SoundFrame
<1> QED
  BY <1>1, <1>2

LEMMA FeedChangeSound ==
  ASSUME TypeInv, SoundInv, NEW f \in Feed, FeedChange(f)
  PROVE  SoundInv'
<1>1. CASE Publish(f) \/ IntervalElapses(f) \/ UpdateFeed(f)
  <2>1. UNCHANGED readVars
    BY <1>1 DEF Publish, IntervalElapses, UpdateFeed, rowVars, feedVars, topicVars, readVars
  <2> QED
    BY <2>1, SoundFrame
<1>2. CASE AddFeed(f)
  <2>1. \A g \in Feed : feedRow[g] = "live" => feedRow'[g] = "live"
    BY <1>2 DEF AddFeed, TypeInv, FeedsOK
  <2>2. UNCHANGED <<subs, topicRow, finding, match>>
    BY <1>2 DEF AddFeed, topicVars
  <2>3. SubsSound'
    BY <2>1, <2>2 DEF SoundInv, SubsSound, MayRead, TypeInv, SubsOK
  <2>4. FindingsLive' /\ MatchesAreSound'
    BY <2>1, <2>2 DEF SoundInv, FindingsLive, MatchesAreSound, Finding
  <2> QED
    BY <2>3, <2>4 DEF SoundInv
<1>3. CASE DeleteFeed(f)
  <2>1. \A g \in Feed : g # f => feedRow'[g] = feedRow[g]
    BY <1>3 DEF DeleteFeed, TypeInv, FeedsOK
  <2>2. SubsSound'
    BY <1>3, <2>1 DEF DeleteFeed, SoundInv, SubsSound, MayRead, TypeInv, SubsOK
  <2>3. FindingsLive'
    BY <1>3, <2>1 DEF DeleteFeed, SoundInv, FindingsLive, Finding
  <2>4. MatchesAreSound'
    BY <1>3, <2>1 DEF DeleteFeed, MatchesWithout, SoundInv, MatchesAreSound, topicVars, Finding
  <2> QED
    BY <2>2, <2>3, <2>4 DEF SoundInv
<1>4. ASSUME NEW u \in User, Subscribe(u, f) \/ Unsubscribe(u, f)
      PROVE  SoundInv'
  <2>1. UNCHANGED <<feedRow, topicRow, finding, match>>
    BY <1>4 DEF Subscribe, Unsubscribe, feedVars, topicVars
  <2>2. SubsSound'
    BY <1>4, <2>1 DEF Subscribe, Unsubscribe, SoundInv, SubsSound, MayRead
  <2> QED
    BY <2>1, <2>2 DEF SoundInv, FindingsLive, MatchesAreSound
<1> QED
  BY <1>1, <1>2, <1>3, <1>4 DEF FeedChange

LEMMA ReadersSound ==
  ASSUME TypeInv, SoundInv,
         \/ \E t \in Topic : TopicChange(t)
         \/ \E p \in Topic \X Finding : UpdateMatchState(p)
  PROVE  SoundInv'
<1>1. UNCHANGED <<feedRow, subs, finding>>
  BY DEF TopicChange, CreateTopic, UpdateTopicEmbedding, UpdateTopic, DeleteTopic,
         UpdateMatchState, feedVars
<1>2. SubsSound' /\ FindingsLive'
  BY <1>1 DEF SoundInv, SubsSound, FindingsLive, MayRead
<1>3. ASSUME NEW t \in Topic, TopicChange(t)
      PROVE  MatchesAreSound'
  BY <1>1, <1>3 DEF TopicChange, CreateTopic, UpdateTopicEmbedding, UpdateTopic,
                    DeleteTopic, SoundInv, MatchesAreSound, TypeInv, TopicsOK
<1>4. ASSUME NEW p \in Topic \X Finding, UpdateMatchState(p)
      PROVE  MatchesAreSound'
  BY <1>1, <1>4 DEF UpdateMatchState, topicVars, SoundInv, MatchesAreSound, TypeInv, MatchOK
<1> QED
  BY <1>2, <1>3, <1>4 DEF SoundInv

LEMMA SoundStep == TypeInv /\ SoundInv /\ [Next]_vars => SoundInv'
<1> SUFFICES ASSUME TypeInv, SoundInv, [Next]_vars PROVE SoundInv'
  OBVIOUS
<1>1. CASE Next
  BY <1>1, WorkersSound, EmbedSound, MatchSound, FeedChangeSound, ReadersSound DEF Next
<1>2. CASE UNCHANGED vars
  BY <1>2, SoundFrame DEF vars, rowVars, feedVars, topicVars, readVars
<1> QED
  BY <1>1, <1>2

LEMMA SoundInvariant == Spec => []SoundInv
<1>1. Init => SoundInv
  BY DEF Init, SoundInv, SubsSound, FindingsLive, MatchesAreSound
<1> QED
  BY <1>1, SoundStep, TypeInvariant, PTL DEF Spec

\* No account is ever shown a finding of a feed it may not read, a match never
\* outlives its feed, topic or finding, and both sides have their embeddings.
THEOREM Soundness == Spec => []MatchesAreSound
BY SoundInvariant, PTL DEF SoundInv

-----------------------------------------------------------------------------
(* One job per finding and stage, and the stages in order.                 *)

CrawlItem(j) == <<crawl[j].feed, crawl[j].item>>

\* A worker that is about to insert a job has just written the row for it.
RowWritten ==
  /\ \A j \in CrawlJob : crawl[j].at = "enqueue" =>
       feedRow[crawl[j].feed] = "deleted" \/ finding[CrawlItem(j)] # "none"
  /\ \A x \in Finding : embed[x].at = "enqueue" =>
       feedRow[x[1]] = "deleted" \/ finding[x] = "embedded"

OneEmbedJob ==
  \A j \in CrawlJob : crawl[j].at = "enqueue" =>
    /\ embed[CrawlItem(j)].at = "none"
    /\ \A k \in CrawlJob \ {j} : ~(crawl[k].at = "enqueue" /\ CrawlItem(k) = CrawlItem(j))

OneMatchJob == \A x \in Finding : embed[x].at = "enqueue" => matching[x].at = "none"

JobsInv == RowWritten /\ OneEmbedJob /\ OneMatchJob /\ NoSecondEmbedding /\ StagesInOrder

LEMMA OneJobParts == OneJobPerFinding <=> OneEmbedJob /\ OneMatchJob
BY DEF OneJobPerFinding, OneEmbedJob, OneMatchJob, CrawlItem

stageVars == <<feedRow, finding, crawl, embed, matching>>

LEMMA JobsFrame == JobsInv /\ UNCHANGED stageVars => JobsInv'
BY DEF JobsInv, RowWritten, OneEmbedJob, OneMatchJob, NoSecondEmbedding, StagesInOrder,
       CrawlItem, stageVars

\* A crawl that does not come to hold a new finding disturbs nothing.
LEMMA CrawlAloneJobs ==
  ASSUME JobsInv, CrawlOK, UNCHANGED <<feedRow, finding, embed, matching>>,
         \A j \in CrawlJob : crawl'[j].at = "enqueue" => crawl'[j] = crawl[j]
  PROVE  JobsInv'
<1>1. RowWritten'
  BY DEF JobsInv, RowWritten, CrawlItem
<1>2. OneEmbedJob'
  BY DEF JobsInv, OneEmbedJob, CrawlItem
<1>3. OneMatchJob' /\ NoSecondEmbedding' /\ StagesInOrder'
  BY DEF JobsInv, OneMatchJob, NoSecondEmbedding, StagesInOrder
<1> QED
  BY <1>1, <1>2, <1>3 DEF JobsInv

\* The row a failed crawl leaves is not about to insert a job.
LEMMA RetryCrawlAt ==
  ASSUME NEW c
  PROVE  RetryCrawl(c).at \in {"queued", "free"}
BY DEF RetryCrawl, QueuedCrawl, FreeCrawl

LEMMA UpsertFindingJobs ==
  ASSUME TypeInv, SoundInv, JobsInv, NEW j \in CrawlJob, NEW i \in Item, UpsertFinding(j, i)
  PROVE  JobsInv'
<1> DEFINE x == <<crawl[j].feed, i>>
<1>1. crawl[j].feed \in Feed /\ x \in Finding /\ crawl[j] \in CrawlRow
  BY RunningCrawl DEF UpsertFinding, TypeInv, Finding
<1>2. UNCHANGED <<feedRow, embed, matching>>
  BY DEF UpsertFinding, feedVars
<1>3. CASE UNCHANGED finding /\ \A k \in CrawlJob : crawl'[k].at = "enqueue" => crawl'[k] = crawl[k]
  BY <1>2, <1>3, CrawlAloneJobs DEF TypeInv
<1>4. CASE /\ feedRow[crawl[j].feed] = "live" /\ finding[x] = "none"
           /\ finding' = [finding EXCEPT ![x] = "bare"]
           /\ crawl' = [crawl EXCEPT ![j] = [crawl[j] EXCEPT !.at = "enqueue", !.item = i]]
  <2>1. \A k \in CrawlJob : k # j => crawl'[k] = crawl[k]
    BY <1>4 DEF TypeInv, CrawlOK
  <2>2. crawl'[j].feed = crawl[j].feed /\ crawl'[j].item = i /\ crawl'[j].at = "enqueue"
    BY <1>1, <1>4 DEF TypeInv, CrawlOK, CrawlRow
  <2>3. finding'[x] = "bare" /\ \A y \in Finding : y # x => finding'[y] = finding[y]
    BY <1>1, <1>4 DEF TypeInv, FindingOK
  <2>4. embed[x].at = "none" /\ matching[x].at = "none"
    BY <1>1, <1>4 DEF JobsInv, StagesInOrder
  <2>5. ASSUME NEW k \in CrawlJob, k # j, crawl[k].at = "enqueue"
        PROVE  CrawlItem(k) # x
    BY <1>1, <1>4, <2>5 DEF JobsInv, RowWritten, CrawlItem
  <2>6. \A k \in CrawlJob : k # j => CrawlItem(k)' = CrawlItem(k)
    BY <2>1 DEF CrawlItem
  <2>7. CrawlItem(j)' = x
    BY <2>2 DEF CrawlItem
  <2>8. \A k \in CrawlJob : crawl[k].at = "enqueue" => CrawlItem(k) \in Finding
    BY DEF TypeInv, CrawlOK, GoodCrawl, CrawlItem, Finding
  <2>9. RowWritten'
    <3>1. ASSUME NEW k \in CrawlJob, crawl'[k].at = "enqueue"
          PROVE  feedRow'[crawl'[k].feed] = "deleted" \/ finding'[CrawlItem(k)'] # "none"
      <4>1. CASE k = j
        BY <2>3, <2>7, <4>1
      <4>2. CASE k # j
        BY <1>2, <2>1, <2>3, <2>5, <2>6, <2>8, <3>1, <4>2 DEF JobsInv, RowWritten
      <4> QED
        BY <4>1, <4>2
    <3>2. \A y \in Finding : embed'[y].at = "enqueue" =>
            feedRow'[y[1]] = "deleted" \/ finding'[y] = "embedded"
      BY <1>2, <2>3, <2>4 DEF JobsInv, RowWritten
    <3> QED
      BY <3>1, <3>2 DEF RowWritten
  <2>10. OneEmbedJob'
    BY <1>2, <2>1, <2>4, <2>5, <2>6, <2>7 DEF JobsInv, OneEmbedJob
  <2>11. OneMatchJob'
    BY <1>2 DEF JobsInv, OneMatchJob
  <2>12. NoSecondEmbedding'
    BY <1>2, <2>3, <2>4 DEF JobsInv, NoSecondEmbedding
  <2>13. StagesInOrder'
    BY <1>2, <2>3, <2>4 DEF JobsInv, StagesInOrder
  <2> QED
    BY <2>9, <2>10, <2>11, <2>12, <2>13 DEF JobsInv
<1>5. CASE feedRow[crawl[j].feed] # "live"
  <2>1. UNCHANGED finding /\ SetCrawl(j, RetryCrawl(crawl[j]))
    BY <1>5 DEF UpsertFinding, CrawlFails
  <2>2. \A k \in CrawlJob : crawl'[k].at = "enqueue" => crawl'[k] = crawl[k]
    BY <2>1, RetryCrawlAt DEF SetCrawl, TypeInv, CrawlOK
  <2> QED
    BY <1>3, <2>1, <2>2
<1>6. CASE feedRow[crawl[j].feed] = "live" /\ finding[x] # "none"
  <2>1. finding' = finding
    BY <1>1, <1>6 DEF UpsertFinding, TypeInv, FindingOK
  <2>2. SetCrawl(j, [crawl[j] EXCEPT !.at = "reread", !.item = i])
    BY <1>6 DEF UpsertFinding, Created
  <2>3. [crawl[j] EXCEPT !.at = "reread", !.item = i].at = "reread"
    BY <1>1 DEF UpsertFinding, CrawlRow
  <2>4. \A k \in CrawlJob : crawl'[k].at = "enqueue" => crawl'[k] = crawl[k]
    BY <2>2, <2>3 DEF SetCrawl, TypeInv, CrawlOK
  <2> QED
    BY <1>3, <2>1, <2>4
<1>7. CASE feedRow[crawl[j].feed] = "live" /\ finding[x] = "none"
  <2>1. SetCrawl(j, [crawl[j] EXCEPT !.at = "enqueue", !.item = i])
    BY <1>7 DEF UpsertFinding, Created
  <2>2. finding' = [finding EXCEPT ![x] = "bare"]
    BY <1>1, <1>7 DEF UpsertFinding, TypeInv, FindingOK
  <2> QED
    BY <1>4, <1>7, <2>1, <2>2 DEF SetCrawl
<1> QED
  BY <1>5, <1>6, <1>7

LEMMA EnqueueEmbedJobs ==
  ASSUME TypeInv, JobsInv, NEW j \in CrawlJob, EnqueueEmbed(j)
  PROVE  JobsInv'
<1> DEFINE x == CrawlItem(j)
<1>1. x \in Finding
  BY DEF EnqueueEmbed, TypeInv, CrawlOK, GoodCrawl, CrawlItem, Finding
<1>2. UNCHANGED <<feedRow, finding, matching>>
  BY DEF EnqueueEmbed, rowVars, feedVars
<1>3. \A k \in CrawlJob : k # j => crawl'[k] = crawl[k]
  BY DEF EnqueueEmbed, SetCrawl, TypeInv, CrawlOK
<1>4. crawl'[j].at = "store"
  BY DEF EnqueueEmbed, NextItem, SetCrawl, TypeInv, CrawlOK, GoodCrawl, CrawlRow
<1>5. embed'[x] = Fresh /\ \A y \in Finding : y # x => embed'[y] = embed[y]
  BY <1>1 DEF EnqueueEmbed, TypeInv, EmbedOK, CrawlItem
<1>6. \A k \in CrawlJob : k # j => CrawlItem(k)' = CrawlItem(k)
  BY <1>3 DEF CrawlItem
<1>7. \A k \in CrawlJob : crawl[k].at = "enqueue" => CrawlItem(k) \in Finding
  BY DEF TypeInv, CrawlOK, GoodCrawl, CrawlItem, Finding
<1>8. Fresh.at = "queued"
  BY DEF Fresh
<1>9. RowWritten'
  BY <1>2, <1>3, <1>4, <1>5, <1>6, <1>8 DEF JobsInv, RowWritten
<1>10. OneEmbedJob'
  <2>1. ASSUME NEW k \in CrawlJob, crawl'[k].at = "enqueue"
        PROVE  k # j /\ crawl[k].at = "enqueue" /\ CrawlItem(k)' # x
    BY <1>3, <1>4, <1>6, <2>1 DEF JobsInv, OneEmbedJob, EnqueueEmbed
  <2>2. ASSUME NEW k \in CrawlJob, crawl'[k].at = "enqueue"
        PROVE  embed'[CrawlItem(k)'].at = "none"
    BY <1>5, <1>6, <1>7, <2>1, <2>2 DEF JobsInv, OneEmbedJob
  <2>3. ASSUME NEW k \in CrawlJob, crawl'[k].at = "enqueue",
               NEW l \in CrawlJob \ {k}, crawl'[l].at = "enqueue"
        PROVE  CrawlItem(l)' # CrawlItem(k)'
    BY <1>6, <2>1, <2>3 DEF JobsInv, OneEmbedJob
  <2> QED
    BY <2>2, <2>3 DEF OneEmbedJob
<1>11. OneMatchJob' /\ NoSecondEmbedding'
  BY <1>2, <1>5, <1>8 DEF JobsInv, OneMatchJob, NoSecondEmbedding
<1>12. StagesInOrder'
  <2>1. feedRow[x[1]] # "deleted" => finding[x] # "none"
    BY DEF EnqueueEmbed, JobsInv, RowWritten, CrawlItem
  <2> QED
    BY <1>2, <1>5, <2>1 DEF JobsInv, StagesInOrder
<1> QED
  BY <1>9, <1>10, <1>11, <1>12 DEF JobsInv

LEMMA CrawlJobs ==
  ASSUME TypeInv, SoundInv, JobsInv, NEW j \in CrawlJob, CrawlFeed(j)
  PROVE  JobsInv'
<1>1. ASSUME \/ CrawlStart(j) \/ FetchDocument(j) \/ FetchNotModified(j) \/ FetchFails(j)
             \/ GetFindingByExternalID(j) \/ MarkFeedFetched(j) \/ CrawlReturn(j)
      PROVE  JobsInv'
  <2>1. UNCHANGED <<feedRow, finding, embed, matching>>
    BY <1>1 DEF CrawlStart, FetchDocument, FetchNotModified, FetchFails, MarkFeedFetched,
                GetFindingByExternalID, CrawlReturn, rowVars, feedVars
  <2>2. PICK c : SetCrawl(j, c) /\ c.at # "enqueue"
    <3>1. crawl[j] \in CrawlRow
      BY RunningCrawl DEF TypeInv
    <3>2. CASE CrawlStart(j)
      <4> DEFINE c == [crawl[j] EXCEPT !.attempt = @ + 1]
                 d == [c EXCEPT !.at = "fetch", !.tag = etag[c.feed]]
      <4>1. d.at = "fetch"
        BY <3>1 DEF CrawlRow
      <4>2. SetCrawl(j, d) \/ SetCrawl(j, RetryCrawl(c))
        BY <3>2 DEF CrawlStart
      <4> HIDE DEF c, d
      <4> QED
        BY <4>1, <4>2, RetryCrawlAt
    <3>3. CASE FetchFails(j)
      BY <3>3, RetryCrawlAt DEF FetchFails, CrawlFails
    <3>4. CASE FetchDocument(j)
      <4> DEFINE c == [crawl[j] EXCEPT !.at = "store", !.todo = doc[crawl[j].feed],
                         !.tag = IF crawl[j].feed \in SendsETag THEN doc[crawl[j].feed] ELSE NoTag]
      <4>1. c.at = "store"
        BY <3>1 DEF CrawlRow
      <4>2. SetCrawl(j, c)
        BY <3>4 DEF FetchDocument
      <4> HIDE DEF c
      <4> QED
        BY <4>1, <4>2
    <3>5. CASE FetchNotModified(j)
      <4>1. [crawl[j] EXCEPT !.at = "store"].at = "store"
        BY <3>1 DEF CrawlRow
      <4> QED
        BY <3>5, <4>1 DEF FetchNotModified
    <3>6. CASE MarkFeedFetched(j)
      <4>1. [crawl[j] EXCEPT !.at = "return"].at = "return"
        BY <3>1 DEF CrawlRow
      <4> QED
        BY <3>6, <4>1 DEF MarkFeedFetched
    <3>7. CASE CrawlReturn(j)
      BY <3>7 DEF CrawlReturn, FreeCrawl
    <3>8. CASE GetFindingByExternalID(j)
      <4>1. crawl[j].feed \in Feed
        BY <3>8, RunningCrawl DEF GetFindingByExternalID, TypeInv
      <4>2. NextItem(crawl[j]).at = "store"
        BY <3>1, <4>1, NextItemGood
      <4> QED
        BY <3>8, <4>2, RetryCrawlAt DEF GetFindingByExternalID, CrawlFails
    <3> QED
      BY <1>1, <3>2, <3>3, <3>4, <3>5, <3>6, <3>7, <3>8
  <2>3. \A k \in CrawlJob : crawl'[k].at = "enqueue" => crawl'[k] = crawl[k]
    BY <2>2 DEF SetCrawl, TypeInv, CrawlOK
  <2> QED
    BY <2>1, <2>3, CrawlAloneJobs DEF TypeInv
<1> QED
  BY <1>1, UpsertFindingJobs, EnqueueEmbedJobs DEF CrawlFeed

\* An embed job that does not come to hold an embedding disturbs nothing.
LEMMA EmbedAloneJobs ==
  ASSUME TypeInv, JobsInv, UNCHANGED <<feedRow, finding, crawl, matching>>,
         NEW x \in Finding, NEW job, SetEmbed(x, job), embed[x].at # "none",
         job.at \notin {"none", "enqueue"},
         job.at \in {"call", "save"} => finding[x] # "embedded"
  PROVE  JobsInv'
<1>1. embed'[x] = job /\ \A y \in Finding : y # x => embed'[y] = embed[y]
  BY DEF SetEmbed, TypeInv, EmbedOK
<1>2. RowWritten' /\ OneMatchJob' /\ NoSecondEmbedding' /\ StagesInOrder'
  BY <1>1 DEF JobsInv, RowWritten, OneMatchJob, NoSecondEmbedding, StagesInOrder, CrawlItem
<1>3. \A k \in CrawlJob : crawl[k].at = "enqueue" => CrawlItem(k) \in Finding
  BY DEF TypeInv, CrawlOK, GoodCrawl, CrawlItem, Finding
<1>4. \A k \in CrawlJob : CrawlItem(k)' = CrawlItem(k)
  BY DEF CrawlItem
<1>5. OneEmbedJob'
  BY <1>1, <1>3, <1>4 DEF JobsInv, OneEmbedJob
<1> QED
  BY <1>2, <1>5 DEF JobsInv

LEMMA EmbedSaveJobs ==
  ASSUME TypeInv, SoundInv, JobsInv, NEW x \in Finding, EmbedSave(x), finding[x] # "none"
  PROVE  JobsInv'
<1>1. UNCHANGED <<feedRow, crawl, matching>>
  BY DEF EmbedSave, feedVars
<1>2. finding'[x] = "embedded" /\ \A y \in Finding : y # x => finding'[y] = finding[y]
  BY DEF EmbedSave, TypeInv, FindingOK
<1>3. embed'[x].at = "enqueue" /\ \A y \in Finding : y # x => embed'[y] = embed[y]
  BY DEF EmbedSave, SetEmbed, TypeInv, EmbedOK, JobRow
<1>4. embed[x].at = "save" /\ finding[x] # "embedded" /\ feedRow[x[1]] # "deleted"
  BY DEF EmbedSave, JobsInv, NoSecondEmbedding, SoundInv, FindingsLive
<1>5. matching[x].at = "none"
  BY <1>4 DEF JobsInv, StagesInOrder
<1>6. \A k \in CrawlJob : /\ CrawlItem(k)' = CrawlItem(k)
                          /\ crawl[k].at = "enqueue" => CrawlItem(k) \in Finding
  BY <1>1 DEF TypeInv, CrawlOK, GoodCrawl, CrawlItem, Finding
<1>7. RowWritten'
  BY <1>1, <1>2, <1>3, <1>6 DEF JobsInv, RowWritten
<1>8. OneEmbedJob'
  BY <1>1, <1>3, <1>4, <1>6 DEF JobsInv, OneEmbedJob
<1>9. OneMatchJob'
  BY <1>1, <1>3, <1>5 DEF JobsInv, OneMatchJob
<1>10. NoSecondEmbedding'
  BY <1>2, <1>3 DEF JobsInv, NoSecondEmbedding
<1>11. StagesInOrder'
  BY <1>1, <1>2, <1>3, <1>4, <1>5 DEF JobsInv, StagesInOrder
<1> QED
  BY <1>7, <1>8, <1>9, <1>10, <1>11 DEF JobsInv

LEMMA EnqueueMatchJobs ==
  ASSUME TypeInv, JobsInv, NEW x \in Finding, EnqueueMatch(x)
  PROVE  JobsInv'
<1>1. UNCHANGED <<feedRow, finding, crawl>>
  BY DEF EnqueueMatch, rowVars, feedVars
<1>2. embed'[x].at = "return" /\ \A y \in Finding : y # x => embed'[y] = embed[y]
  BY DEF EnqueueMatch, SetEmbed, TypeInv, EmbedOK, JobRow
<1>3. \A y \in Finding : y # x => matching'[y] = matching[y]
  BY DEF EnqueueMatch, TypeInv, MatchingOK
<1>4. embed[x].at = "enqueue" /\ (feedRow[x[1]] # "deleted" => finding[x] = "embedded")
  BY DEF EnqueueMatch, JobsInv, RowWritten
<1>5. \A k \in CrawlJob : /\ CrawlItem(k)' = CrawlItem(k)
                          /\ crawl[k].at = "enqueue" => CrawlItem(k) \in Finding
  BY <1>1 DEF TypeInv, CrawlOK, GoodCrawl, CrawlItem, Finding
<1>6. RowWritten' /\ OneMatchJob' /\ NoSecondEmbedding'
  BY <1>1, <1>2, <1>3 DEF JobsInv, RowWritten, OneMatchJob, NoSecondEmbedding, CrawlItem
<1>7. OneEmbedJob'
  BY <1>1, <1>2, <1>4, <1>5 DEF JobsInv, OneEmbedJob
<1>8. StagesInOrder'
  BY <1>1, <1>2, <1>3, <1>4 DEF JobsInv, StagesInOrder
<1> QED
  BY <1>6, <1>7, <1>8 DEF JobsInv

LEMMA RetryAt ==
  ASSUME NEW job \in JobRow(EmbedRunning)
  PROVE  Retry(job).at \in {"queued", "discarded"}
BY DEF Retry, JobRow

LEMMA EmbedJobs ==
  ASSUME TypeInv, SoundInv, JobsInv, NEW x \in Finding, EmbedFinding(x)
  PROVE  JobsInv'
<1>0. embed[x] \in JobRow(EmbedRunning)
  BY DEF TypeInv, EmbedOK
<1>1. ASSUME ~EnqueueMatch(x), ~(EmbedSave(x) /\ finding[x] # "none")
      PROVE  JobsInv'
  <2>1. UNCHANGED <<feedRow, finding, crawl, matching>>
    BY <1>1 DEF EmbedFinding, EmbedStart, EmbedCall, EmbedCallFails, EmbedSave, EmbedReturn,
                rowVars, feedVars
  <2>2. PICK job : /\ SetEmbed(x, job) /\ job.at \notin {"none", "enqueue"}
                   /\ job.at \in {"call", "save"} => finding[x] # "embedded"
    <3>1. CASE EmbedStart(x)
      <4> DEFINE job == [embed[x] EXCEPT !.attempt = @ + 1]
      <4>1. job.at = "queued" /\ Retry(job).at \in {"queued", "discarded"}
        BY <1>0, <3>1 DEF EmbedStart, JobRow, Retry
      <4>2. [job EXCEPT !.at = "return"].at = "return" /\ [job EXCEPT !.at = "call"].at = "call"
        BY <1>0 DEF JobRow
      <4>3. \/ SetEmbed(x, Retry(job)) \/ SetEmbed(x, [job EXCEPT !.at = "return"])
            \/ SetEmbed(x, [job EXCEPT !.at = "call"]) /\ finding[x] # "embedded"
        BY <3>1 DEF EmbedStart, SkipsEmbedding
      <4> HIDE DEF job
      <4> QED
        BY <4>1, <4>2, <4>3
    <3>2. CASE EmbedCall(x)
      <4>1. [embed[x] EXCEPT !.at = "save"].at = "save" /\ finding[x] # "embedded"
        BY <1>0, <3>2 DEF EmbedCall, JobRow, JobsInv, NoSecondEmbedding
      <4> QED
        BY <3>2, <4>1 DEF EmbedCall
    <3>3. CASE EmbedCallFails(x)
      BY <1>0, <3>3, RetryAt DEF EmbedCallFails, EmbedFails
    <3>4. CASE EmbedSave(x)
      BY <1>0, <1>1, <3>4, RetryAt DEF EmbedSave, EmbedFails
    <3>5. CASE EmbedReturn(x)
      <4>1. Done(embed[x]).at = "done"
        BY <1>0 DEF Done, JobRow
      <4> QED
        BY <3>5, <4>1 DEF EmbedReturn
    <3> QED
      BY <1>1, <3>1, <3>2, <3>3, <3>4, <3>5 DEF EmbedFinding
  <2>3. embed[x].at # "none"
    BY DEF EmbedFinding, EmbedStart, EmbedCall, EmbedCallFails, EmbedSave, EnqueueMatch,
           EmbedReturn
  <2> QED
    BY <2>1, <2>2, <2>3, EmbedAloneJobs
<1> QED
  BY <1>1, EnqueueMatchJobs, EmbedSaveJobs

\* Match jobs are only read once they exist.
LEMMA MatchingAloneJobs ==
  ASSUME JobsInv, UNCHANGED <<feedRow, finding, crawl, embed>>,
         \A x \in Finding : matching'[x].at # matching[x].at => matching[x].at # "none"
  PROVE  JobsInv'
<1>1. RowWritten' /\ OneEmbedJob' /\ NoSecondEmbedding'
  BY DEF JobsInv, RowWritten, OneEmbedJob, NoSecondEmbedding, CrawlItem
<1>2. OneMatchJob' /\ StagesInOrder'
  BY DEF JobsInv, OneMatchJob, StagesInOrder
<1> QED
  BY <1>1, <1>2 DEF JobsInv

LEMMA MatchJobs ==
  ASSUME TypeInv, JobsInv, NEW x \in Finding, MatchFinding(x)
  PROVE  JobsInv'
<1>1. UNCHANGED <<feedRow, finding, crawl, embed>>
  BY DEF MatchFinding, MatchStart, MatchFindingToTopics, MatchReturn, rowVars, feedVars
<1>2. matching[x].at # "none" /\ \A y \in Finding : y # x => matching'[y] = matching[y]
  BY DEF MatchFinding, MatchStart, MatchFindingToTopics, MatchReturn, TypeInv, MatchingOK
<1> QED
  BY <1>1, <1>2, MatchingAloneJobs

-----------------------------------------------------------------------------
(* Failures and the outside world disturb no stage.                        *)

\* What every failure does: running jobs go back, nothing starts.
LEMMA BackToQueueJobs ==
  ASSUME TypeInv, JobsInv, UNCHANGED <<feedRow, finding>>,
         \A j \in CrawlJob : crawl'[j] = crawl[j] \/ crawl'[j].at \in {"queued", "free"},
         \A x \in Finding :
           \/ embed'[x] = embed[x]
           \/ embed[x].at # "none" /\ embed'[x].at \in {"queued", "discarded"},
         \A x \in Finding :
           matching'[x] = matching[x] \/ matching[x].at # "none"
  PROVE  JobsInv'
<1>1. \A k \in CrawlJob : crawl'[k].at = "enqueue" =>
        crawl'[k] = crawl[k] /\ CrawlItem(k)' = CrawlItem(k) /\ CrawlItem(k) \in Finding
  BY DEF TypeInv, CrawlOK, GoodCrawl, CrawlItem, Finding
<1>2. RowWritten'
  BY <1>1 DEF JobsInv, RowWritten
<1>3. OneEmbedJob'
  BY <1>1 DEF JobsInv, OneEmbedJob
<1>4. OneMatchJob' /\ NoSecondEmbedding' /\ StagesInOrder'
  BY DEF JobsInv, OneMatchJob, NoSecondEmbedding, StagesInOrder
<1> QED
  BY <1>2, <1>3, <1>4 DEF JobsInv

LEMMA FaultJobs ==
  ASSUME TypeInv, JobsInv, JobError \/ Crash
  PROVE  JobsInv'
<1>1. UNCHANGED <<feedRow, finding>>
  BY DEF JobError, Crash, rowVars, feedVars
<1>2. \A j \in CrawlJob : crawl'[j] = crawl[j] \/ crawl'[j].at \in {"queued", "free"}
  BY RetryCrawlAt DEF JobError, Crash, ScheduleError, CrawlError, EmbedError, MatchError,
                      CrawlFails, SetCrawl, TypeInv, CrawlOK
<1>3. \A x \in Finding : embed[x] \in JobRow(EmbedRunning)
  BY DEF TypeInv, EmbedOK
<1>4. \A x \in Finding :
        \/ embed'[x] = embed[x]
        \/ embed[x].at # "none" /\ embed'[x].at \in {"queued", "discarded"}
  BY <1>3, RetryAt DEF JobError, Crash, ScheduleError, CrawlError, EmbedError, MatchError,
                       EmbedFails, SetEmbed, EmbedRunning, TypeInv, EmbedOK
<1>5. \A x \in Finding : matching'[x] = matching[x] \/ matching[x].at # "none"
  BY DEF JobError, Crash, ScheduleError, CrawlError, EmbedError, MatchError, MatchRunning,
         TypeInv, MatchingOK
<1> QED
  BY <1>1, <1>2, <1>4, <1>5, BackToQueueJobs

LEMMA FeedChangeJobs ==
  ASSUME TypeInv, JobsInv, NEW f \in Feed, FeedChange(f)
  PROVE  JobsInv'
<1>1. UNCHANGED <<crawl, embed, matching>>
  BY DEF FeedChange, Publish, IntervalElapses, AddFeed, UpdateFeed, DeleteFeed,
         Subscribe, Unsubscribe, jobVars
<1>2. OneEmbedJob' /\ OneMatchJob'
  BY <1>1 DEF JobsInv, OneEmbedJob, OneMatchJob, CrawlItem
<1>3. CASE DeleteFeed(f)
  <2>1. \A x \in Finding : IF x[1] = f THEN feedRow'[x[1]] = "deleted" /\ finding'[x] = "none"
                           ELSE feedRow'[x[1]] = feedRow[x[1]] /\ finding'[x] = finding[x]
    BY <1>3 DEF DeleteFeed, TypeInv, FeedsOK, Finding
  <2>2. \A k \in CrawlJob : crawl[k].at = "enqueue" =>
          CrawlItem(k) \in Finding /\ CrawlItem(k)[1] = crawl[k].feed
    BY DEF TypeInv, CrawlOK, GoodCrawl, CrawlItem, Finding
  <2>3. \A k \in CrawlJob : CrawlItem(k)' = CrawlItem(k)
    BY <1>1 DEF CrawlItem
  <2>4. RowWritten'
    BY <1>1, <2>1, <2>2, <2>3 DEF JobsInv, RowWritten
  <2>5. NoSecondEmbedding' /\ StagesInOrder'
    BY <1>1, <2>1 DEF JobsInv, NoSecondEmbedding, StagesInOrder
  <2> QED
    BY <1>2, <2>4, <2>5 DEF JobsInv
<1>4. CASE ~DeleteFeed(f)
  <2>1. finding' = finding
    BY <1>4 DEF FeedChange, Publish, IntervalElapses, AddFeed, UpdateFeed,
                Subscribe, Unsubscribe, rowVars
  <2>2. \A g \in Feed : feedRow'[g] = "deleted" <=> feedRow[g] = "deleted"
    BY <1>4 DEF FeedChange, Publish, IntervalElapses, AddFeed, UpdateFeed,
                Subscribe, Unsubscribe, rowVars, feedVars, TypeInv, FeedsOK
  <2>3. \A j \in CrawlJob : crawl[j].at = "enqueue" => crawl[j].feed \in Feed
    BY DEF TypeInv, CrawlOK, GoodCrawl
  <2>4. RowWritten'
    BY <1>1, <2>1, <2>2, <2>3 DEF JobsInv, RowWritten, CrawlItem, Finding
  <2>5. NoSecondEmbedding' /\ StagesInOrder'
    BY <1>1, <2>1, <2>2 DEF JobsInv, NoSecondEmbedding, StagesInOrder, Finding
  <2> QED
    BY <1>2, <2>4, <2>5 DEF JobsInv
<1> QED
  BY <1>3, <1>4

LEMMA JobsStep == TypeInv /\ SoundInv /\ JobsInv /\ [Next]_vars => JobsInv'
<1> SUFFICES ASSUME TypeInv, SoundInv, JobsInv, [Next]_vars PROVE JobsInv'
  OBVIOUS
<1>1. ASSUME NEW s \in ScheduleJob, ScheduleCrawls(s)
      PROVE  JobsInv'
  <2>1. UNCHANGED <<feedRow, finding, embed, matching>>
    BY <1>1 DEF ScheduleCrawls, PeriodicTick, ScheduleStart, ScheduleReturn,
                ScheduleEnqueue, rowVars, feedVars
  <2>2. \A k \in CrawlJob : crawl'[k].at = "enqueue" => crawl'[k] = crawl[k]
    BY <1>1 DEF ScheduleCrawls, PeriodicTick, ScheduleStart, ScheduleReturn,
                ScheduleEnqueue, QueuedCrawl, TypeInv, CrawlOK
  <2> QED
    BY <2>1, <2>2, CrawlAloneJobs DEF TypeInv
<1>2. ASSUME \/ \E t \in Topic : TopicChange(t)
             \/ \E p \in Topic \X Finding : UpdateMatchState(p)
             \/ UNCHANGED vars
      PROVE  JobsInv'
  <2>1. UNCHANGED stageVars
    BY <1>2 DEF TopicChange, CreateTopic, UpdateTopicEmbedding, UpdateTopic, DeleteTopic,
                UpdateMatchState, vars, rowVars, feedVars, jobVars, stageVars
  <2> QED
    BY <2>1, JobsFrame
<1>3. CASE Next
  BY <1>1, <1>2, <1>3, CrawlJobs, EmbedJobs, MatchJobs, FaultJobs, FeedChangeJobs DEF Next
<1> QED
  BY <1>2, <1>3

LEMMA JobsInvariant == Spec => []JobsInv
<1>1. Init => JobsInv
  BY DEF Init, JobsInv, RowWritten, OneEmbedJob, OneMatchJob, NoSecondEmbedding,
         StagesInOrder, FreeCrawl, NoJob
<1> QED
  BY <1>1, JobsStep, TypeInvariant, SoundInvariant, PTL DEF Spec

\* However many crawls of a feed overlap, fail and run again, a finding gets one
\* embed job and one match job.
THEOREM OneJob == Spec => []OneJobPerFinding
BY JobsInvariant, OneJobParts, PTL DEF JobsInv

\* No finding is sent to the embedder after its embedding was saved.
THEOREM EmbeddedOnce == Spec => []NoSecondEmbedding
BY JobsInvariant, PTL DEF JobsInv

\* No job runs ahead of the rows of the stage before it.
THEOREM InOrder == Spec => []StagesInOrder
BY JobsInvariant, PTL DEF JobsInv

-----------------------------------------------------------------------------
(* ValidatorCovered.                                                       *)

\* The items of a validator all have their rows, or are still to be stored.
Covered(rows, f, tag, todo) ==
  tag # NoTag => \A i \in tag : rows[<<f, i>>] # "none" \/ i \in todo

Unstored(c) == IF c.at = "fetch" THEN {} ELSE c.todo

\* The validator a worker holds, before and while it stores the document.
HoldsTag(c) == c.at \in {"fetch", "store", "reread", "enqueue"}
TagCovered(rows, c) == Covered(rows, c.feed, c.tag, Unstored(c))
TagsCovered ==
  \A j \in CrawlJob : HoldsTag(crawl[j]) /\ feedRow[crawl[j].feed] # "deleted" =>
    TagCovered(finding, crawl[j])

\* A deleted row has no validator.
TagsLive == \A f \in Feed : etag[f] # NoTag => feedRow[f] = "live"

ValidatorInv == TagsCovered /\ ValidatorCovered /\ TagsLive

\* Rows only disappear with their feed, and a deleted feed stays deleted.
RowsKept ==
  /\ \A f \in Feed : feedRow[f] = "deleted" => feedRow'[f] = "deleted"
  /\ \A x \in Finding : finding[x] # "none" /\ feedRow'[x[1]] # "deleted" => finding'[x] # "none"

LEMMA RowsKeptStep == TypeInv /\ [Next]_vars => RowsKept
<1> SUFFICES ASSUME TypeInv, [Next]_vars PROVE RowsKept
  OBVIOUS
<1> USE DEF TypeInv, FeedsOK, FindingOK
<1>1. ASSUME \/ \E s \in ScheduleJob : ScheduleCrawls(s)
             \/ \E x \in Finding : MatchFinding(x)
             \/ JobError \/ Crash
             \/ \E t \in Topic : TopicChange(t)
             \/ \E p \in Topic \X Finding : UpdateMatchState(p)
             \/ UNCHANGED vars
      PROVE  RowsKept
  <2>1. UNCHANGED <<feedRow, finding>>
    BY <1>1 DEF ScheduleCrawls, PeriodicTick, ScheduleStart, ScheduleReturn, ScheduleEnqueue,
                MatchFinding, MatchStart, MatchFindingToTopics, MatchReturn, JobError, Crash,
                TopicChange, CreateTopic, UpdateTopicEmbedding, UpdateTopic, DeleteTopic,
                UpdateMatchState, vars, rowVars, feedVars
  <2> QED
    BY <2>1 DEF RowsKept
<1>2. ASSUME NEW j \in CrawlJob, CrawlFeed(j)
      PROVE  RowsKept
  BY <1>2 DEF CrawlFeed, CrawlStart, FetchDocument, FetchNotModified, FetchFails, UpsertFinding,
              GetFindingByExternalID, EnqueueEmbed, MarkFeedFetched, CrawlReturn,
              rowVars, feedVars, RowsKept
<1>3. ASSUME NEW x \in Finding, EmbedFinding(x)
      PROVE  RowsKept
  BY <1>3 DEF EmbedFinding, EmbedStart, EmbedCall, EmbedCallFails, EmbedSave, EnqueueMatch,
              EmbedReturn, rowVars, feedVars, RowsKept
<1>4. ASSUME NEW f \in Feed, FeedChange(f)
      PROVE  RowsKept
  BY <1>4 DEF FeedChange, Publish, IntervalElapses, AddFeed, UpdateFeed, DeleteFeed,
              Subscribe, Unsubscribe, rowVars, feedVars, RowsKept
<1> QED
  BY <1>1, <1>2, <1>3, <1>4 DEF Next

\* Kept rows keep a validator covered.
LEMMA CoveredKept ==
  ASSUME TypeInv, TagsCovered, RowsKept, NEW j \in CrawlJob, HoldsTag(crawl[j]),
         feedRow'[crawl[j].feed] # "deleted"
  PROVE  TagCovered(finding', crawl[j])
<1>1. crawl[j].feed \in Feed /\ crawl[j].tag \in {NoTag} \cup SUBSET Item
  BY DEF HoldsTag, TypeInv, CrawlOK, GoodCrawl, CrawlRow
<1>2. TagCovered(finding, crawl[j])
  BY <1>1 DEF TagsCovered, RowsKept
<1> QED
  BY <1>1, <1>2 DEF TagCovered, Covered, RowsKept, Finding

\* Kept rows keep the stored validators covered.
LEMMA StoredKept ==
  ASSUME TypeInv, ValidatorInv, RowsKept, NEW f \in Feed,
         \/ etag'[f] = NoTag
         \/ etag'[f] = etag[f] /\ (feedRow[f] = "live" => feedRow'[f] = "live")
  PROVE  etag'[f] # NoTag =>
           /\ feedRow'[f] = "live"
           /\ \A i \in etag'[f] : finding'[<<f, i>>] # "none"
BY DEF ValidatorInv, ValidatorCovered, TagsLive, RowsKept, Finding, TypeInv, FeedsOK

\* A step keeps ValidatorInv if it stores no validator and leaves every crawl
\* as it is, without a validator, or with one that is covered.
LEMMA ValidatorFrame ==
  ASSUME TypeInv, ValidatorInv, RowsKept,
         \A f \in Feed : \/ etag'[f] = NoTag
                         \/ etag'[f] = etag[f] /\ (feedRow[f] = "live" => feedRow'[f] = "live"),
         \A j \in CrawlJob : \/ crawl'[j] = crawl[j] \/ ~HoldsTag(crawl'[j])
                             \/ feedRow'[crawl'[j].feed] = "deleted"
                             \/ TagCovered(finding', crawl'[j])
  PROVE  ValidatorInv'
<1>1. \A j \in CrawlJob : HoldsTag(crawl'[j]) /\ feedRow'[crawl'[j].feed] # "deleted" =>
        TagCovered(finding', crawl'[j])
  BY CoveredKept DEF ValidatorInv
<1>2. TagsCovered'
  BY <1>1 DEF TagsCovered, HoldsTag, TagCovered, Covered, Unstored
<1>3. ValidatorCovered' /\ TagsLive'
  BY StoredKept DEF ValidatorCovered, TagsLive
<1> QED
  BY <1>2, <1>3 DEF ValidatorInv

LEMMA UpsertFindingValidator ==
  ASSUME TypeInv, ValidatorInv, RowsKept, NEW j \in CrawlJob, NEW i \in Item,
         UpsertFinding(j, i)
  PROVE  ValidatorInv'
<1> DEFINE c == crawl[j]
           x == <<crawl[j].feed, i>>
<1>1. c \in CrawlRow /\ c.feed \in Feed /\ x \in Finding /\ c.at = "store"
  BY RunningCrawl DEF UpsertFinding, TypeInv, Finding
<1>2. UNCHANGED <<etag, feedRow>>
  BY DEF UpsertFinding, feedVars
<1>3. PICK d : SetCrawl(j, d) /\ (~HoldsTag(d) \/ TagCovered(finding', d))
  <2>1. CASE feedRow[c.feed] # "live"
    <3>1. SetCrawl(j, RetryCrawl(c))
      BY <2>1 DEF UpsertFinding, CrawlFails
    <3> QED
      BY <3>1, RetryCrawlAt DEF HoldsTag
  <2>2. CASE feedRow[c.feed] = "live"
    <3>1. TagCovered(finding', c)
      BY <1>1, <1>2, <2>2, CoveredKept DEF ValidatorInv, HoldsTag
    <3>3. TagCovered(finding', [c EXCEPT !.at = "enqueue", !.item = i])
      <4> DEFINE d == [c EXCEPT !.at = "enqueue", !.item = i]
      <4>1. d.feed = c.feed /\ d.tag = c.tag /\ d.todo = c.todo /\ d.at = "enqueue"
        BY <1>1 DEF CrawlRow
      <4> HIDE DEF d
      <4> QED
        BY <1>1, <3>1, <4>1 DEF TagCovered, Covered, Unstored
    <3>4. TagCovered(finding', [c EXCEPT !.at = "reread", !.item = i])
      <4> DEFINE d == [c EXCEPT !.at = "reread", !.item = i]
      <4>1. d.feed = c.feed /\ d.tag = c.tag /\ d.todo = c.todo /\ d.at = "reread"
        BY <1>1 DEF CrawlRow
      <4> HIDE DEF d
      <4> QED
        BY <1>1, <3>1, <4>1 DEF TagCovered, Covered, Unstored
    <3> QED
      BY <2>2, <3>3, <3>4 DEF UpsertFinding
  <2> QED
    BY <2>1, <2>2
<1>4. \A k \in CrawlJob : crawl'[k] = crawl[k] \/ crawl'[k] = d
  BY <1>3 DEF SetCrawl, TypeInv, CrawlOK
<1> QED
  BY <1>2, <1>3, <1>4, ValidatorFrame

\* A worker that goes on has the row of the item it takes off its list.
LEMMA NextItemValidator ==
  ASSUME TypeInv, ValidatorInv, RowsKept, NEW j \in CrawlJob, crawl[j].at \in {"reread", "enqueue"},
         UNCHANGED <<etag, feedRow, finding>>,
         \/ feedRow[crawl[j].feed] = "deleted"
         \/ finding[<<crawl[j].feed, crawl[j].item>>] # "none",
         SetCrawl(j, NextItem(crawl[j]))
  PROVE  ValidatorInv'
<1> DEFINE c == crawl[j]
<1>1. c \in CrawlRow /\ c.feed \in Feed /\ c.item \in Item
  BY DEF TypeInv, CrawlOK, GoodCrawl
<1>2. PICK d : d = NextItem(c)
  OBVIOUS
<1>3. d.feed = c.feed /\ d.tag = c.tag /\ d.todo = c.todo \ {c.item} /\ d.at = "store"
  BY <1>1, <1>2, NextItemGood
<1>4. \A k \in CrawlJob : crawl'[k] = crawl[k] \/ crawl'[k] = d
  BY <1>2 DEF SetCrawl, TypeInv, CrawlOK
<1>5. feedRow[c.feed] = "deleted" \/ TagCovered(finding', d)
  <2>1. CASE feedRow[c.feed] # "deleted"
    <3>1. TagCovered(finding', c)
      BY <1>1, <2>1, CoveredKept DEF ValidatorInv, HoldsTag
    <3> QED
      BY <1>1, <1>3, <2>1, <3>1 DEF TagCovered, Covered, Unstored
  <2> QED
    BY <2>1
<1> QED
  BY <1>3, <1>4, <1>5, ValidatorFrame

LEMMA RereadValidator ==
  ASSUME TypeInv, ValidatorInv, RowsKept, NEW j \in CrawlJob, GetFindingByExternalID(j)
  PROVE  ValidatorInv'
<1>1. UNCHANGED <<etag, feedRow, finding>> /\ crawl[j].at = "reread"
  BY DEF GetFindingByExternalID, rowVars, feedVars
<1>2. CASE finding[<<crawl[j].feed, crawl[j].item>>] # "none"
  BY <1>1, <1>2, NextItemValidator DEF GetFindingByExternalID
<1>3. CASE finding[<<crawl[j].feed, crawl[j].item>>] = "none"
  <2>1. SetCrawl(j, RetryCrawl(crawl[j]))
    BY <1>3 DEF GetFindingByExternalID, CrawlFails
  <2>2. \A k \in CrawlJob : crawl'[k] = crawl[k] \/ ~HoldsTag(crawl'[k])
    BY <2>1, RetryCrawlAt DEF SetCrawl, HoldsTag, TypeInv, CrawlOK
  <2> QED
    BY <1>1, <2>2, ValidatorFrame
<1> QED
  BY <1>2, <1>3

LEMMA EnqueueEmbedValidator ==
  ASSUME TypeInv, JobsInv, ValidatorInv, RowsKept, NEW j \in CrawlJob, EnqueueEmbed(j)
  PROVE  ValidatorInv'
<1>1. UNCHANGED <<etag, feedRow, finding>> /\ crawl[j].at = "enqueue"
  BY DEF EnqueueEmbed, rowVars, feedVars
<1>2. \/ feedRow[crawl[j].feed] = "deleted"
      \/ finding[<<crawl[j].feed, crawl[j].item>>] # "none"
  BY <1>1 DEF JobsInv, RowWritten, CrawlItem
<1> QED
  BY <1>1, <1>2, NextItemValidator DEF EnqueueEmbed

\* MarkFeedFetched stores a validator whose document is stored.
LEMMA MarkFeedFetchedValidator ==
  ASSUME TypeInv, ValidatorInv, RowsKept, NEW j \in CrawlJob, MarkFeedFetched(j)
  PROVE  ValidatorInv'
<1> DEFINE c == crawl[j]
<1>1. c \in CrawlRow /\ c.feed \in Feed /\ c.at = "store" /\ c.todo = {}
  BY RunningCrawl DEF MarkFeedFetched, LoopDone, TypeInv
<1>2. UNCHANGED <<feedRow, finding>>
  BY DEF MarkFeedFetched
<1>3. \A k \in CrawlJob : crawl'[k] = crawl[k] \/ crawl'[k].at = "return"
  BY <1>1 DEF MarkFeedFetched, SetCrawl, TypeInv, CrawlOK, CrawlRow
<1>4. TagsCovered'
  <2>1. \A k \in CrawlJob : HoldsTag(crawl'[k]) /\ feedRow'[crawl'[k].feed] # "deleted" =>
          TagCovered(finding', crawl'[k])
    BY <1>3, CoveredKept DEF ValidatorInv, HoldsTag
  <2> QED
    BY <2>1 DEF TagsCovered, HoldsTag, TagCovered, Covered, Unstored
<1>5. CASE feedRow[c.feed] = "live"
  <2>1. etag' = [etag EXCEPT ![c.feed] = c.tag]
    BY <1>5 DEF MarkFeedFetched
  <2>2. \A f \in Feed : f # c.feed => etag'[f] = etag[f]
    BY <2>1 DEF TypeInv, FeedsOK
  <2>3. etag'[c.feed] = c.tag
    BY <1>1, <2>1 DEF TypeInv, FeedsOK
  <2>4. c.tag # NoTag => \A i \in c.tag : finding[<<c.feed, i>>] # "none"
    BY <1>1, <1>5 DEF ValidatorInv, TagsCovered, HoldsTag, TagCovered, Covered, Unstored
  <2>5. ValidatorCovered' /\ TagsLive'
    BY <1>2, <1>5, <2>2, <2>3, <2>4 DEF ValidatorInv, ValidatorCovered, TagsLive
  <2> QED
    BY <1>4, <2>5 DEF ValidatorInv
<1>6. CASE feedRow[c.feed] # "live"
  <2>1. etag' = etag
    BY <1>6 DEF MarkFeedFetched
  <2> QED
    BY <1>2, <1>4, <2>1 DEF ValidatorInv, ValidatorCovered, TagsLive
<1> QED
  BY <1>5, <1>6

LEMMA FetchValidator ==
  ASSUME TypeInv, ValidatorInv, RowsKept, NEW j \in CrawlJob,
         \/ CrawlStart(j) \/ FetchDocument(j) \/ FetchNotModified(j) \/ FetchFails(j)
         \/ CrawlReturn(j)
  PROVE  ValidatorInv'
<1>1. UNCHANGED <<etag, feedRow, finding>>
  BY DEF CrawlStart, FetchDocument, FetchNotModified, FetchFails, CrawlReturn, rowVars, feedVars
<1>2. crawl[j] \in CrawlRow
  BY RunningCrawl DEF TypeInv
<1>3. PICK d : SetCrawl(j, d) /\ (\/ ~HoldsTag(d) \/ feedRow[d.feed] = "deleted"
                                  \/ TagCovered(finding, d))
  <2>1. CASE CrawlStart(j)
    <3> DEFINE c == [crawl[j] EXCEPT !.attempt = @ + 1]
               d == [c EXCEPT !.at = "fetch", !.tag = etag[c.feed]]
    <3>1. c \in [at : {"queued"}, feed : Feed, attempt : Nat, todo : SUBSET Item,
                 item : Item \cup {NoItem}, tag : {NoTag} \cup SUBSET Item]
      BY <1>2, <2>1 DEF CrawlStart, CrawlRow, TypeInv, CrawlOK, GoodCrawl
    <3>2. d.feed = c.feed /\ d.tag = etag[c.feed] /\ d.at = "fetch"
      BY <3>1
    <3>3. c.feed \in Feed
      BY <3>1
    <3>4. SetCrawl(j, d) \/ SetCrawl(j, RetryCrawl(c))
      BY <2>1 DEF CrawlStart
    <3> HIDE DEF c, d
    <3>5. TagCovered(finding, d)
      BY <3>2, <3>3 DEF TagCovered, Covered, Unstored, ValidatorInv, ValidatorCovered
    <3> QED
      BY <3>4, <3>5, RetryCrawlAt DEF HoldsTag
  <2>2. CASE FetchDocument(j)
    <3> DEFINE doc1 == doc[crawl[j].feed]
               tag == IF crawl[j].feed \in SendsETag THEN doc1 ELSE NoTag
               d == [crawl[j] EXCEPT !.at = "store", !.todo = doc1, !.tag = tag]
    <3>1. d.todo = doc1 /\ d.tag = tag /\ d.at = "store"
      <4> HIDE DEF doc1, tag
      <4> QED
        BY <1>2 DEF CrawlRow
    <3>2. SetCrawl(j, d)
      BY <2>2 DEF FetchDocument
    <3> HIDE DEF d
    <3>3. TagCovered(finding, d)
      BY <3>1 DEF TagCovered, Covered, Unstored
    <3> QED
      BY <3>2, <3>3
  <2>3. CASE FetchNotModified(j)
    <3> DEFINE d == [crawl[j] EXCEPT !.at = "store"]
    <3>1. d.feed = crawl[j].feed /\ d.tag = crawl[j].tag /\ d.at = "store"
      BY <1>2 DEF CrawlRow
    <3>2. SetCrawl(j, d) /\ crawl[j].at = "fetch"
      BY <2>3 DEF FetchNotModified
    <3> HIDE DEF d
    <3>3. feedRow[d.feed] = "deleted" \/ TagCovered(finding, d)
      BY <3>1, <3>2 DEF TagCovered, Covered, Unstored, ValidatorInv, TagsCovered, HoldsTag
    <3> QED
      BY <3>2, <3>3
  <2>4. CASE FetchFails(j)
    BY <2>4, RetryCrawlAt DEF FetchFails, CrawlFails, HoldsTag
  <2>5. CASE CrawlReturn(j)
    BY <2>5 DEF CrawlReturn, FreeCrawl, HoldsTag
  <2> QED
    BY <2>1, <2>2, <2>3, <2>4, <2>5
<1>4. \A k \in CrawlJob : crawl'[k] = crawl[k] \/ crawl'[k] = d
  BY <1>3 DEF SetCrawl, TypeInv, CrawlOK
<1> QED
  BY <1>1, <1>3, <1>4, ValidatorFrame

LEMMA OthersValidator ==
  ASSUME TypeInv, ValidatorInv, RowsKept,
         \/ \E s \in ScheduleJob : ScheduleCrawls(s)
         \/ \E x \in Finding : EmbedFinding(x) \/ MatchFinding(x)
         \/ JobError \/ Crash
         \/ \E f \in Feed : FeedChange(f)
         \/ \E t \in Topic : TopicChange(t)
         \/ \E p \in Topic \X Finding : UpdateMatchState(p)
         \/ UNCHANGED vars
  PROVE  ValidatorInv'
<1>1. \A k \in CrawlJob : crawl'[k] = crawl[k] \/ ~HoldsTag(crawl'[k])
  <2>1. ASSUME NEW s \in ScheduleJob, ScheduleCrawls(s)
        PROVE  \A k \in CrawlJob : crawl'[k] = crawl[k] \/ crawl'[k].at = "queued"
    BY <2>1 DEF ScheduleCrawls, PeriodicTick, ScheduleStart, ScheduleReturn, ScheduleEnqueue,
                QueuedCrawl, TypeInv, CrawlOK
  <2>2. JobError \/ Crash =>
          \A k \in CrawlJob : crawl'[k] = crawl[k] \/ crawl'[k].at \in {"queued", "free"}
    BY RetryCrawlAt DEF JobError, Crash, ScheduleError, CrawlError, EmbedError, MatchError,
                        CrawlFails, SetCrawl, TypeInv, CrawlOK
  <2>3. ASSUME \/ \E x \in Finding : EmbedFinding(x) \/ MatchFinding(x)
               \/ \E f \in Feed : FeedChange(f)
               \/ \E t \in Topic : TopicChange(t)
               \/ \E p \in Topic \X Finding : UpdateMatchState(p)
               \/ UNCHANGED vars
        PROVE  UNCHANGED crawl
    BY <2>3 DEF EmbedFinding, EmbedStart, EmbedCall, EmbedCallFails, EmbedSave, EnqueueMatch,
                EmbedReturn, MatchFinding, MatchStart, MatchFindingToTopics, MatchReturn,
                FeedChange, Publish, IntervalElapses, AddFeed, UpdateFeed, DeleteFeed,
                Subscribe, Unsubscribe, TopicChange, CreateTopic, UpdateTopicEmbedding,
                UpdateTopic, DeleteTopic, UpdateMatchState, jobVars, vars
  <2> QED
    BY <2>1, <2>2, <2>3 DEF HoldsTag
<1>2. \A f \in Feed : \/ etag'[f] = NoTag
                      \/ etag'[f] = etag[f] /\ (feedRow[f] = "live" => feedRow'[f] = "live")
  <2>1. ASSUME NEW f \in Feed, FeedChange(f)
        PROVE  \A g \in Feed : \/ etag'[g] = NoTag
                               \/ etag'[g] = etag[g] /\ (feedRow[g] = "live" => feedRow'[g] = "live")
    BY <2>1 DEF FeedChange, Publish, IntervalElapses, AddFeed, UpdateFeed, DeleteFeed,
                Subscribe, Unsubscribe, rowVars, feedVars, TypeInv, FeedsOK
  <2>2. ASSUME \/ \E s \in ScheduleJob : ScheduleCrawls(s)
               \/ \E x \in Finding : EmbedFinding(x) \/ MatchFinding(x)
               \/ JobError \/ Crash
               \/ \E t \in Topic : TopicChange(t)
               \/ \E p \in Topic \X Finding : UpdateMatchState(p)
               \/ UNCHANGED vars
        PROVE  UNCHANGED <<etag, feedRow>>
    BY <2>2 DEF ScheduleCrawls, PeriodicTick, ScheduleStart, ScheduleReturn, ScheduleEnqueue,
                EmbedFinding, EmbedStart, EmbedCall, EmbedCallFails, EmbedSave, EnqueueMatch,
                EmbedReturn, MatchFinding, MatchStart, MatchFindingToTopics, MatchReturn,
                JobError, Crash, TopicChange, CreateTopic, UpdateTopicEmbedding,
                UpdateTopic, DeleteTopic, UpdateMatchState, rowVars, feedVars, vars
  <2> QED
    BY <2>1, <2>2
<1> QED
  BY <1>1, <1>2, ValidatorFrame

LEMMA ValidatorStep == TypeInv /\ JobsInv /\ ValidatorInv /\ [Next]_vars => ValidatorInv'
<1> SUFFICES ASSUME TypeInv, JobsInv, ValidatorInv, [Next]_vars PROVE ValidatorInv'
  OBVIOUS
<1>1. RowsKept
  BY RowsKeptStep
<1>2. ASSUME NEW j \in CrawlJob, CrawlFeed(j)
      PROVE  ValidatorInv'
  BY <1>1, <1>2, FetchValidator, UpsertFindingValidator, RereadValidator, EnqueueEmbedValidator,
     MarkFeedFetchedValidator DEF CrawlFeed
<1> QED
  BY <1>1, <1>2, OthersValidator DEF Next

\* Whatever crawls overlap, fail or run again, the validator a feed row keeps
\* never lets the publisher's 304 hide an item that has no finding row.
THEOREM NothingHidden == Spec => []ValidatorCovered
<1>1. Init => ValidatorInv
  BY DEF Init, ValidatorInv, TagsCovered, HoldsTag, FreeCrawl, ValidatorCovered, TagsLive
<1>2. Spec => []ValidatorInv
  BY <1>1, ValidatorStep, TypeInvariant, JobsInvariant, PTL DEF Spec
<1> QED
  BY <1>2, PTL DEF ValidatorInv

-----------------------------------------------------------------------------
(* StrandedOnlyByFaults.                                                   *)

\* One finding's share of NothingStranded.
NotStranded(x) ==
  /\ finding[x] = "bare" /\ x[2] \notin NoText => AwaitsEmbed(x) \/ AttemptsSpent(x)
  /\ finding[x] = "embedded" => AwaitsMatch(x) \/ Matched(x)

\* A match job that will match, or has matched.
InHand(job) == job.at \in {"queued", "insert", "return", "done"}

\* A step that only takes findings away, or leaves them, and starts no job.
LEMMA StrandedFrame ==
  ASSUME JobsInv, NothingStranded, UNCHANGED embed,
         \A x \in Finding : finding'[x] \in {finding[x], "none"},
         \A x \in Finding : InHand(matching[x]) => InHand(matching'[x]),
         \A j \in CrawlJob : crawl[j].at = "enqueue" => crawl'[j] = crawl[j]
  PROVE  NothingStranded'
<1>1. ASSUME NEW x \in Finding
      PROVE  /\ AwaitsEmbed(x) => AwaitsEmbed(x)'
             /\ AttemptsSpent(x) => AttemptsSpent(x)'
             /\ AwaitsMatch(x) \/ Matched(x) => (AwaitsMatch(x) \/ Matched(x))'
  BY DEF AwaitsEmbed, AttemptsSpent, AwaitsMatch, Matched, InHand
<1> QED
  BY <1>1 DEF NothingStranded

LEMMA CrawlStranded ==
  ASSUME TypeInv, JobsInv, NothingStranded, NEW j \in CrawlJob, CrawlFeed(j)
  PROVE  NothingStranded'
<1>1. ASSUME NEW i \in Item, UpsertFinding(j, i)
      PROVE  NothingStranded'
  <2>0. crawl[j] \in CrawlRow /\ crawl[j].feed \in Feed
    BY <1>1, RunningCrawl DEF UpsertFinding, TypeInv
  <2>1. PICK x \in Finding : x = <<crawl[j].feed, i>>
    BY <2>0 DEF Finding
  <2>2. UNCHANGED <<embed, matching>>
    BY <1>1 DEF UpsertFinding
  <2>3. \A k \in CrawlJob : crawl[k].at = "enqueue" => crawl'[k] = crawl[k]
    <3>1. crawl[j].at = "store"
          /\ \/ SetCrawl(j, [crawl[j] EXCEPT !.at = "enqueue", !.item = i])
             \/ SetCrawl(j, [crawl[j] EXCEPT !.at = "reread", !.item = i])
             \/ SetCrawl(j, RetryCrawl(crawl[j]))
      BY <1>1 DEF UpsertFinding, CrawlFails
    <3> QED
      BY <3>1 DEF SetCrawl, TypeInv, CrawlOK
  <2>4. CASE finding' = finding
    BY <2>2, <2>3, <2>4, StrandedFrame
  <2>5. CASE finding' # finding
    <3>1. finding[x] = "none" /\ finding' = [finding EXCEPT ![x] = "bare"]
      BY <1>1, <2>1, <2>5 DEF UpsertFinding, TypeInv, FindingOK
    <3>2. SetCrawl(j, [crawl[j] EXCEPT !.at = "enqueue", !.item = i])
      BY <1>1, <2>1, <2>5, <3>1 DEF UpsertFinding, Created
    <3>3. /\ crawl'[j].at = "enqueue" /\ crawl'[j].feed = crawl[j].feed /\ crawl'[j].item = i
      BY <2>0, <3>2 DEF SetCrawl, TypeInv, CrawlOK, CrawlRow
    <3>4. finding'[x] = "bare" /\ AwaitsEmbed(x)'
      BY <2>1, <3>1, <3>3 DEF AwaitsEmbed, TypeInv, FindingOK
    <3>5. \A y \in Finding : y # x => finding'[y] = finding[y]
      BY <3>1 DEF TypeInv, FindingOK
    <3>6. \A y \in Finding : /\ AwaitsEmbed(y) => AwaitsEmbed(y)'
                             /\ AttemptsSpent(y) => AttemptsSpent(y)'
                             /\ AwaitsMatch(y) \/ Matched(y) => (AwaitsMatch(y) \/ Matched(y))'
      BY <2>2, <2>3 DEF AwaitsEmbed, AttemptsSpent, AwaitsMatch, Matched
    <3> QED
      BY <3>4, <3>5, <3>6 DEF NothingStranded
  <2> QED
    BY <2>4, <2>5
<1>2. CASE EnqueueEmbed(j)
  <2>1. PICK x \in Finding : x = CrawlItem(j)
    BY <1>2 DEF EnqueueEmbed, TypeInv, CrawlOK, GoodCrawl, CrawlItem, Finding
  <2>2. UNCHANGED <<finding, matching>>
    BY <1>2 DEF EnqueueEmbed, rowVars
  <2>3. embed[x].at = "none"
    BY <1>2, <2>1 DEF EnqueueEmbed, JobsInv, OneEmbedJob
  <2>4. embed'[x].at = "queued" /\ \A y \in Finding : y # x => embed'[y] = embed[y]
    <3>1. embed' = [embed EXCEPT ![x] = Fresh]
      BY <1>2, <2>1 DEF EnqueueEmbed, CrawlItem
    <3> QED
      BY <2>1, <3>1 DEF Fresh, TypeInv, EmbedOK
  <2>5. \A k \in CrawlJob : k # j => crawl'[k] = crawl[k]
    <3>1. \E d : SetCrawl(j, d)
      BY <1>2 DEF EnqueueEmbed
    <3> QED
      BY <3>1 DEF SetCrawl, TypeInv, CrawlOK
  <2>6. ASSUME NEW y \in Finding, y # x
        PROVE  (AwaitsEmbed(y) => AwaitsEmbed(y)') /\ (AttemptsSpent(y) => AttemptsSpent(y)')
    BY <2>1, <2>4, <2>5, <2>6 DEF AwaitsEmbed, AttemptsSpent, CrawlItem
  <2>7. \A y \in Finding : AwaitsMatch(y) \/ Matched(y) => (AwaitsMatch(y) \/ Matched(y))'
    BY <2>2, <2>3, <2>4 DEF AwaitsMatch, Matched
  <2>8. AwaitsEmbed(x)'
    BY <2>4 DEF AwaitsEmbed
  <2> QED
    BY <2>2, <2>6, <2>7, <2>8 DEF NothingStranded
<1>3. ASSUME \/ CrawlStart(j) \/ FetchDocument(j) \/ FetchNotModified(j) \/ FetchFails(j)
             \/ GetFindingByExternalID(j) \/ MarkFeedFetched(j) \/ CrawlReturn(j)
      PROVE  NothingStranded'
  <2>1. UNCHANGED <<finding, embed, matching>>
    BY <1>3 DEF CrawlStart, FetchDocument, FetchNotModified, FetchFails, MarkFeedFetched,
                GetFindingByExternalID, CrawlReturn, rowVars
  <2>2. \A k \in CrawlJob : crawl[k].at = "enqueue" => crawl'[k] = crawl[k]
    BY <1>3 DEF CrawlStart, FetchDocument, FetchNotModified, FetchFails, MarkFeedFetched,
                GetFindingByExternalID, LoopDone, CrawlReturn, CrawlFails, SetCrawl,
                TypeInv, CrawlOK
  <2> QED
    BY <2>1, <2>2, StrandedFrame
<1> QED
  BY <1>1, <1>2, <1>3 DEF CrawlFeed

LEMMA EmbedStranded ==
  ASSUME TypeInv, JobsInv, NothingStranded, NEW x \in Finding, EmbedFinding(x)
  PROVE  NothingStranded'
<1>0. embed[x] \in JobRow(EmbedRunning)
  BY DEF TypeInv, EmbedOK
<1>1. UNCHANGED crawl /\ \A y \in Finding : y # x =>
        embed'[y] = embed[y] /\ matching'[y] = matching[y] /\ finding'[y] = finding[y]
  BY DEF EmbedFinding, EmbedStart, EmbedCall, EmbedCallFails, EmbedSave, EnqueueMatch,
         EmbedReturn, EmbedFails, SetEmbed, rowVars, TypeInv, EmbedOK, MatchingOK, FindingOK
<1>2. ASSUME NEW y \in Finding, y # x
      PROVE  NotStranded(y)'
  BY <1>1, <1>2 DEF NothingStranded, NotStranded, AwaitsEmbed, AttemptsSpent, AwaitsMatch, Matched
<1>3. NotStranded(x)'
  <2>1. CASE EmbedStart(x)
    <3>1. UNCHANGED <<finding, matching>> /\ embed[x].at = "queued"
      BY <2>1 DEF EmbedStart, rowVars
    <3>2. [[embed[x] EXCEPT !.attempt = @ + 1] EXCEPT !.at = "call"].at = "call"
      BY <1>0 DEF JobRow
    <3>3. finding[x] = "none" \/ SkipsEmbedding(x) \/ embed'[x].at = "call"
      BY <2>1, <3>2 DEF EmbedStart, SetEmbed, TypeInv, EmbedOK
    <3> QED
      BY <3>1, <3>3 DEF NotStranded, AwaitsEmbed, AttemptsSpent, AwaitsMatch, Matched,
                        SkipsEmbedding, NothingStranded
  <2>2. CASE EmbedCall(x)
    <3>1. embed'[x].at = "save" /\ UNCHANGED <<finding, matching>> /\ embed[x].at = "call"
      BY <1>0, <2>2 DEF EmbedCall, SetEmbed, JobRow, TypeInv, EmbedOK, rowVars
    <3> QED
      BY <3>1 DEF NothingStranded, NotStranded, AwaitsEmbed, AttemptsSpent, AwaitsMatch, Matched
  <2>3. CASE EmbedCallFails(x)
    <3>1. embed'[x] = Retry(embed[x]) /\ UNCHANGED <<finding, matching>> /\ embed[x].at = "call"
      BY <2>3 DEF EmbedCallFails, EmbedFails, SetEmbed, TypeInv, EmbedOK, rowVars
    <3>2. \/ embed'[x].at = "queued"
          \/ embed'[x].at = "discarded" /\ embed'[x].attempt = MaxAttempts
      BY <1>0, <3>1, PipelineAssumption DEF Retry, JobRow
    <3> QED
      BY <3>1, <3>2 DEF NothingStranded, NotStranded, AwaitsEmbed, AttemptsSpent, AwaitsMatch, Matched
  <2>4. CASE EmbedSave(x)
    <3>1. CASE finding[x] = "none"
      BY <2>4, <3>1 DEF EmbedSave, NotStranded
    <3>2. CASE finding[x] # "none"
      <4>1. embed'[x].at = "enqueue" /\ finding'[x] = "embedded"
        BY <1>0, <2>4, <3>2 DEF EmbedSave, SetEmbed, JobRow, TypeInv, EmbedOK, FindingOK
      <4> QED
        BY <4>1 DEF NotStranded, AwaitsMatch
    <3> QED
      BY <3>1, <3>2
  <2>5. CASE EnqueueMatch(x)
    <3>1. matching'[x].at = "queued" /\ UNCHANGED finding /\ embed[x].at = "enqueue"
      BY <2>5 DEF EnqueueMatch, Fresh, TypeInv, MatchingOK, rowVars
    <3>2. finding[x] # "bare" \/ x[2] \in NoText
          \/ \E j \in CrawlJob : crawl[j].at = "enqueue" /\ CrawlItem(j) = x
      BY <3>1 DEF NothingStranded, AwaitsEmbed, AttemptsSpent, CrawlItem
    <3>3. finding[x] # "bare" \/ x[2] \in NoText
      BY <3>1, <3>2 DEF JobsInv, OneEmbedJob
    <3> QED
      BY <3>1, <3>3 DEF NotStranded, AwaitsMatch, Matched
  <2>6. CASE EmbedReturn(x)
    <3>1. UNCHANGED <<finding, matching>> /\ embed[x].at = "return"
      BY <2>6 DEF EmbedReturn, rowVars
    <3> QED
      BY <1>1, <3>1 DEF NothingStranded, NotStranded, AwaitsEmbed, AttemptsSpent, AwaitsMatch, Matched
  <2> QED
    BY <2>1, <2>2, <2>3, <2>4, <2>5, <2>6 DEF EmbedFinding
<1>4. \A y \in Finding : NotStranded(y)'
  BY <1>2, <1>3
<1>5. (\A y \in Finding : NotStranded(y)') => NothingStranded'
  BY DEF NothingStranded, NotStranded
<1> QED
  BY <1>4, <1>5

LEMMA StrandedStep ==
  TypeInv /\ JobsInv /\ StrandedOnlyByFaults /\ [Next]_vars => StrandedOnlyByFaults'
<1> SUFFICES ASSUME TypeInv, JobsInv, StrandedOnlyByFaults, [Next]_vars, faults' = 0
             PROVE  NothingStranded'
  BY DEF StrandedOnlyByFaults
<1>1. faults \in Nat
  BY PipelineAssumption DEF TypeInv, FaultsOK
<1>2. ~JobError /\ ~Crash
  BY <1>1 DEF JobError, Crash
<1>3. faults = 0 /\ NothingStranded
  <2>1. UNCHANGED faults
    BY <1>2 DEF Next, ScheduleCrawls, PeriodicTick, ScheduleStart, ScheduleReturn,
         ScheduleEnqueue, CrawlFeed, CrawlStart, FetchDocument, FetchNotModified, FetchFails,
         UpsertFinding, GetFindingByExternalID, EnqueueEmbed, MarkFeedFetched, CrawlReturn,
         EmbedFinding, EmbedStart, EmbedCall, EmbedCallFails, EmbedSave, EnqueueMatch,
         EmbedReturn, MatchFinding, MatchStart, MatchFindingToTopics, MatchReturn,
         FeedChange, Publish, IntervalElapses, AddFeed, UpdateFeed, DeleteFeed, Subscribe,
         Unsubscribe, TopicChange, CreateTopic, UpdateTopicEmbedding, UpdateTopic,
         DeleteTopic, UpdateMatchState, vars
  <2> QED
    BY <2>1 DEF StrandedOnlyByFaults
<1>4. ASSUME NEW s \in ScheduleJob, ScheduleCrawls(s)
      PROVE  NothingStranded'
  <2>1. UNCHANGED <<finding, embed, matching>>
    BY <1>4 DEF ScheduleCrawls, PeriodicTick, ScheduleStart, ScheduleReturn,
                ScheduleEnqueue, rowVars
  <2>2. \A k \in CrawlJob : crawl[k].at = "enqueue" => crawl'[k] = crawl[k]
    BY <1>4 DEF ScheduleCrawls, PeriodicTick, ScheduleStart, ScheduleReturn,
                ScheduleEnqueue, TypeInv, CrawlOK
  <2> QED
    BY <1>3, <2>1, <2>2, StrandedFrame
<1>5. ASSUME NEW x \in Finding, MatchFinding(x)
      PROVE  NothingStranded'
  <2>1. UNCHANGED <<finding, crawl, embed>>
    BY <1>5 DEF MatchFinding, MatchStart, MatchFindingToTopics, MatchReturn, rowVars
  <2>2. InHand(matching'[x]) /\ \A y \in Finding : y # x => matching'[y] = matching[y]
    BY <1>5 DEF MatchFinding, MatchStart, MatchFindingToTopics, MatchReturn, Done, InHand,
                TypeInv, MatchingOK, GoodJob, JobRow
  <2> QED
    BY <1>3, <2>1, <2>2, StrandedFrame
<1>6. ASSUME \/ \E f \in Feed : FeedChange(f)
             \/ \E t \in Topic : TopicChange(t)
             \/ \E p \in Topic \X Finding : UpdateMatchState(p)
             \/ UNCHANGED vars
      PROVE  NothingStranded'
  <2>1. UNCHANGED <<crawl, embed, matching>>
    BY <1>6 DEF FeedChange, Publish, IntervalElapses, AddFeed, UpdateFeed, DeleteFeed,
                Subscribe, Unsubscribe, TopicChange, CreateTopic, UpdateTopicEmbedding,
                UpdateTopic, DeleteTopic, UpdateMatchState, jobVars, vars
  <2>2. \A x \in Finding : finding'[x] \in {finding[x], "none"}
    BY <1>6 DEF FeedChange, Publish, IntervalElapses, AddFeed, UpdateFeed, DeleteFeed,
                Subscribe, Unsubscribe, TopicChange, CreateTopic, UpdateTopicEmbedding,
                UpdateTopic, DeleteTopic, UpdateMatchState, rowVars, vars
  <2> QED
    BY <1>3, <2>1, <2>2, StrandedFrame
<1> QED
  BY <1>2, <1>3, <1>4, <1>5, <1>6, CrawlStranded, EmbedStranded DEF Next

\* Without a failed database call or a crash a finding is left behind only if the
\* embedder failed in every attempt of its job: failed fetches, overlapping crawls
\* and deletions strand nothing, and no match job is given up.
THEOREM NothingLeftBehind == Spec => []StrandedOnlyByFaults
<1>1. Init => StrandedOnlyByFaults
  BY DEF Init, StrandedOnlyByFaults, NothingStranded
<1> QED
  BY <1>1, StrandedStep, TypeInvariant, JobsInvariant, PTL DEF Spec

-----------------------------------------------------------------------------
(* ReviewSurvivesRematch.                                                  *)

\* At least once delivery of the match job does not undo a review.
THEOREM ReviewKept == Spec => ReviewSurvivesRematch
<1>1. ASSUME TypeInv, Next, matching' # matching
      PROVE  \A p \in Topic \X Finding : match[p] # "none" => match'[p] = match[p]
  <2>1. ASSUME NEW x \in Finding, MatchFindingToTopics(x)
        PROVE  \A p \in Topic \X Finding : match[p] # "none" => match'[p] = match[p]
    BY <2>1 DEF MatchFindingToTopics, InsertOrKeep
  <2>2. ASSUME \A x \in Finding : ~MatchFindingToTopics(x)
        PROVE  UNCHANGED match
    BY <1>1, <2>2 DEF Next, ScheduleCrawls, PeriodicTick, ScheduleStart, ScheduleReturn,
         ScheduleEnqueue, CrawlFeed, CrawlStart, FetchDocument, FetchNotModified, FetchFails,
         UpsertFinding, GetFindingByExternalID, EnqueueEmbed, MarkFeedFetched, CrawlReturn,
         EmbedFinding, EmbedStart, EmbedCall, EmbedCallFails, EmbedSave, EnqueueMatch,
         EmbedReturn, MatchFinding, MatchStart, MatchReturn, JobError, Crash,
         FeedChange, Publish, IntervalElapses, AddFeed, UpdateFeed, DeleteFeed, Subscribe,
         Unsubscribe, TopicChange, CreateTopic, UpdateTopicEmbedding, UpdateTopic,
         DeleteTopic, UpdateMatchState, rowVars, jobVars
  <2> QED
    BY <2>1, <2>2
<1>2. ASSUME TypeInv, [Next]_vars
      PROVE  [matching' # matching =>
                \A p \in Topic \X Finding : match[p] # "none" => match'[p] = match[p]]_vars
  BY <1>1, <1>2
<1> QED
  BY <1>2, TypeInvariant, PTL DEF Spec, ReviewSurvivesRematch

-----------------------------------------------------------------------------
(* RadarPipeline implements FindingLifecycle: every step of the pipeline   *)
(* is a step in the life of one finding, or of none.                       *)

lifeBar    == [x \in Finding |-> Life(x)]
matchesBar == {p \in Topic \X Finding : match[p] # "none"}

lifeVars == <<feedRow, finding, match>>

\* The mapping reads nothing else.
LEMMA LifeFrame == UNCHANGED lifeVars => UNCHANGED <<lifeBar, matchesBar>>
BY DEF lifeVars, lifeBar, matchesBar, Life

\* A new row starts the life of its finding; the other upserts change no life.
LEMMA UpsertRefines ==
  ASSUME TypeInv, NEW j \in CrawlJob, NEW i \in Item, UpsertFinding(j, i)
  PROVE  Lifecycle!Next \/ UNCHANGED Lifecycle!vars
<1>1. crawl[j].feed \in Feed
  BY RunningCrawl DEF UpsertFinding, TypeInv
<1>2. PICK x \in Finding : x = <<crawl[j].feed, i>>
  BY <1>1 DEF Finding
<1>3. UNCHANGED <<feedRow, match>>
  BY DEF UpsertFinding, feedVars
<1>4. CASE finding' = finding
  BY <1>3, <1>4, LifeFrame DEF lifeVars, lifeBar, matchesBar, Lifecycle!vars
<1>5. CASE finding' # finding
  <2>1. feedRow[x[1]] = "live" /\ finding[x] = "none" /\ finding' = [finding EXCEPT ![x] = "bare"]
    BY <1>1, <1>2, <1>5 DEF UpsertFinding, TypeInv, FindingOK
  <2>2. Life(x) = "unseen"
    BY <2>1 DEF Life
  <2>3. lifeBar' = [lifeBar EXCEPT ![x] = "found"]
    <3>1. \A y \in Finding : Life(y)' = IF y = x THEN "found" ELSE Life(y)
      BY <1>3, <2>1 DEF Life, TypeInv, FindingOK
    <3> QED
      BY <3>1 DEF lifeBar
  <2>4. UNCHANGED matchesBar
    BY <1>3 DEF matchesBar
  <2>5. Lifecycle!Discover(x)
    BY <2>2, <2>3, <2>4 DEF Lifecycle!Discover, lifeBar, matchesBar
  <2> QED
    BY <2>5 DEF Lifecycle!Next, Lifecycle!Finding, Finding
<1> QED
  BY <1>4, <1>5

\* Saving the embedding is the second stage.
LEMMA EmbedSaveRefines ==
  ASSUME TypeInv, SoundInv, JobsInv, NEW x \in Finding, EmbedSave(x)
  PROVE  Lifecycle!Next \/ UNCHANGED Lifecycle!vars
<1>1. UNCHANGED <<feedRow, match>>
  BY DEF EmbedSave, feedVars
<1>2. CASE finding[x] = "none"
  <2>1. finding' = finding
    BY <1>2 DEF EmbedSave
  <2> QED
    BY <1>1, <2>1, LifeFrame DEF lifeVars, lifeBar, matchesBar, Lifecycle!vars
<1>3. CASE finding[x] # "none"
  <2>1. finding[x] = "bare" /\ feedRow[x[1]] = "live" /\ finding' = [finding EXCEPT ![x] = "embedded"]
    BY <1>3 DEF EmbedSave, JobsInv, NoSecondEmbedding, SoundInv, FindingsLive, TypeInv, FindingOK
  <2>2. Life(x) = "found"
    BY <2>1 DEF Life
  <2>3. lifeBar' = [lifeBar EXCEPT ![x] = "embedded"]
    <3>1. \A y \in Finding : Life(y)' = IF y = x THEN "embedded" ELSE Life(y)
      BY <1>1, <2>1 DEF Life, TypeInv, FindingOK
    <3> QED
      BY <3>1 DEF lifeBar
  <2>4. UNCHANGED matchesBar
    BY <1>1 DEF matchesBar
  <2>5. Lifecycle!Embed(x)
    BY <2>2, <2>3, <2>4 DEF Lifecycle!Embed, lifeBar, matchesBar
  <2> QED
    BY <2>5 DEF Lifecycle!Next, Lifecycle!Finding, Finding
<1> QED
  BY <1>2, <1>3

\* The INSERT ... SELECT matches one embedded finding with any set of topics.
LEMMA MatchRefines ==
  ASSUME TypeInv, SoundInv, NEW x \in Finding, MatchFindingToTopics(x)
  PROVE  Lifecycle!Next \/ UNCHANGED Lifecycle!vars
<1> DEFINE T == {t \in Topic : Eligible(t, x)}
<1>1. UNCHANGED <<feedRow, finding>>
  BY DEF MatchFindingToTopics, feedVars
<1>2. UNCHANGED lifeBar
  BY <1>1 DEF lifeBar, Life
<1>3. matchesBar' = matchesBar \cup (T \X {x})
  <2>1. \A p \in Topic \X Finding :
          match'[p] # "none" <=> match[p] # "none" \/ (p[2] = x /\ Eligible(p[1], x))
    BY DEF MatchFindingToTopics, InsertOrKeep, TypeInv, MatchOK
  <2>2. \A p : p \in T \X {x} <=> p \in Topic \X Finding /\ p[2] = x /\ Eligible(p[1], x)
    OBVIOUS
  <2> QED
    BY <2>1, <2>2 DEF matchesBar
<1>4. CASE T = {}
  <2>1. UNCHANGED matchesBar
    BY <1>3, <1>4
  <2> QED
    BY <1>2, <2>1 DEF lifeBar, matchesBar, Lifecycle!vars
<1>5. CASE T # {}
  <2>1. finding[x] = "embedded" /\ feedRow[x[1]] = "live"
    BY <1>5 DEF Eligible, SoundInv, FindingsLive
  <2>2. Life(x) = "embedded"
    BY <2>1 DEF Life
  <2>3. T \in SUBSET Topic
    OBVIOUS
  <2>4. Lifecycle!Match(x)
    <3> HIDE DEF T
    <3> QED
      BY <1>2, <1>3, <2>2, <2>3 DEF Lifecycle!Match, lifeBar, matchesBar
  <2> QED
    BY <2>4 DEF Lifecycle!Next, Lifecycle!Finding, Finding
<1> QED
  BY <1>4, <1>5

\* Deleting a feed ends the lives of its findings, deleting a topic its matches.
LEMMA DeleteFeedRefines ==
  ASSUME TypeInv, NEW f \in Feed, DeleteFeed(f)
  PROVE  Lifecycle!Next
<1>1. \A x \in Finding : Life(x)' = IF x[1] = f THEN "gone" ELSE Life(x)
  BY DEF DeleteFeed, Life, TypeInv, FeedsOK, Finding
<1>2. lifeBar' = [x \in Finding |-> IF x[1] = f THEN "gone" ELSE lifeBar[x]]
  BY <1>1 DEF lifeBar
<1>3. matchesBar' = {p \in matchesBar : p[2][1] # f}
  BY DEF DeleteFeed, MatchesWithout, matchesBar
<1>4. Lifecycle!RetireFeed(f)
  BY <1>2, <1>3 DEF Lifecycle!RetireFeed, Lifecycle!Finding, lifeBar, matchesBar, Finding
<1> QED
  BY <1>4 DEF Lifecycle!Next

LEMMA DeleteTopicRefines ==
  ASSUME TypeInv, NEW t \in Topic, DeleteTopic(t)
  PROVE  Lifecycle!Next
<1>1. UNCHANGED lifeBar
  BY DEF DeleteTopic, feedVars, lifeBar, Life
<1>2. matchesBar' = {p \in matchesBar : p[1] # t}
  BY DEF DeleteTopic, matchesBar
<1>3. Lifecycle!RetireTopic(t)
  BY <1>1, <1>2 DEF Lifecycle!RetireTopic, lifeBar, matchesBar
<1> QED
  BY <1>3 DEF Lifecycle!Next

\* A review changes the state of a match, not which matches there are.
LEMMA ReviewRefines ==
  ASSUME TypeInv, NEW p \in Topic \X Finding, UpdateMatchState(p)
  PROVE  UNCHANGED Lifecycle!vars
<1>1. UNCHANGED <<feedRow, finding>>
  BY DEF UpdateMatchState, feedVars
<1>2. \A q \in Topic \X Finding : match'[q] # "none" <=> match[q] # "none"
  BY DEF UpdateMatchState, TypeInv, MatchOK
<1> QED
  BY <1>1, <1>2 DEF Lifecycle!vars, Life

LEMMA AddFeedRefines ==
  ASSUME TypeInv, NEW f \in Feed, AddFeed(f)
  PROVE  UNCHANGED Lifecycle!vars
<1>1. \A x \in Finding : Life(x)' = Life(x)
  BY DEF AddFeed, Life, TypeInv, FeedsOK, Finding
<1>2. UNCHANGED match
  BY DEF AddFeed
<1> QED
  BY <1>1, <1>2 DEF Lifecycle!vars

LEMMA StepRefines ==
  TypeInv /\ SoundInv /\ JobsInv /\ [Next]_vars => [Lifecycle!Next]_Lifecycle!vars
<1> SUFFICES ASSUME TypeInv, SoundInv, JobsInv, [Next]_vars
             PROVE  Lifecycle!Next \/ UNCHANGED Lifecycle!vars
  OBVIOUS
<1>1. ASSUME UNCHANGED lifeVars
      PROVE  UNCHANGED Lifecycle!vars
  BY <1>1, LifeFrame DEF lifeBar, matchesBar, Lifecycle!vars
<1>2. ASSUME NEW j \in CrawlJob, CrawlFeed(j), \A i \in Item : ~UpsertFinding(j, i)
      PROVE  UNCHANGED lifeVars
  BY <1>2 DEF CrawlFeed, CrawlStart, FetchDocument, FetchNotModified, FetchFails,
              GetFindingByExternalID, EnqueueEmbed, MarkFeedFetched, CrawlReturn,
              rowVars, feedVars, lifeVars
<1>3. ASSUME NEW x \in Finding, EmbedFinding(x), ~EmbedSave(x)
      PROVE  UNCHANGED lifeVars
  BY <1>3 DEF EmbedFinding, EmbedStart, EmbedCall, EmbedCallFails, EnqueueMatch, EmbedReturn,
              rowVars, feedVars, lifeVars
<1>4. ASSUME NEW x \in Finding, MatchFinding(x), ~MatchFindingToTopics(x)
      PROVE  UNCHANGED lifeVars
  BY <1>4 DEF MatchFinding, MatchStart, MatchReturn, rowVars, feedVars, lifeVars
<1>5. ASSUME NEW f \in Feed, FeedChange(f), ~DeleteFeed(f), ~AddFeed(f)
      PROVE  UNCHANGED lifeVars
  BY <1>5 DEF FeedChange, Publish, IntervalElapses, UpdateFeed, Subscribe, Unsubscribe,
              rowVars, feedVars, lifeVars
<1>6. ASSUME NEW t \in Topic, TopicChange(t), ~DeleteTopic(t)
      PROVE  UNCHANGED lifeVars
  BY <1>6 DEF TopicChange, CreateTopic, UpdateTopicEmbedding, UpdateTopic, feedVars, lifeVars
<1>7. ASSUME (\E s \in ScheduleJob : ScheduleCrawls(s)) \/ JobError \/ Crash \/ UNCHANGED vars
      PROVE  UNCHANGED lifeVars
  BY <1>7 DEF ScheduleCrawls, PeriodicTick, ScheduleStart, ScheduleReturn, ScheduleEnqueue,
              JobError, Crash, vars, rowVars, feedVars, lifeVars
<1> QED
  BY <1>1, <1>2, <1>3, <1>4, <1>5, <1>6, <1>7, UpsertRefines, EmbedSaveRefines, MatchRefines,
     DeleteFeedRefines, AddFeedRefines, DeleteTopicRefines, ReviewRefines DEF Next

\* The pipeline is an implementation of the life cycle: a finding is discovered
\* once, embedded once, matched only then, and gone for good with its feed.
THEOREM ImplementsLifecycle == Spec => RefinesLifecycle
<1>1. Init => Lifecycle!Init
  BY DEF Init, Lifecycle!Init, Lifecycle!Finding, Life, Finding
<1> QED
  BY <1>1, StepRefines, TypeInvariant, SoundInvariant, JobsInvariant, PTL
     DEF Spec, RefinesLifecycle, Lifecycle!Spec
=============================================================================
