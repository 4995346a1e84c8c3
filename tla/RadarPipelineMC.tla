-------------------------- MODULE RadarPipelineMC --------------------------
(* Small instances of RadarPipeline for TLC.                               *)
EXTENDS RadarPipeline, TLC

CONSTANTS f1, a, b, t1, t2, u1, u2, j1, j2

\* Every finding reaches the threshold of every topic.
AllSimilar == Topic \X (Feed \X Item)

\* The only feed is in the catalog, or is a personal feed of u2.
CatalogFeed == [f \in Feed |-> Catalog]
PrivateFeed == [f \in Feed |-> u2]
OneReader   == [t \in Topic |-> u1]
TwoReaders  == [t \in Topic |-> IF t = t1 THEN u1 ELSE u2]

CrawlSymmetry == Permutations(CrawlJob)
=============================================================================
