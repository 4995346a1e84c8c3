--------------------------- MODULE FindingLifecycle ---------------------------
(***************************************************************************)
(* What the radar promises about one finding and its matches, without      *)
(* jobs, workers or crawls: a finding is discovered once, gets its         *)
(* embedding once, is matched only then, and leaves for good, with every   *)
(* match, when its feed is deleted.                                        *)
(***************************************************************************)
CONSTANTS Feed, Item, Topic

Finding == Feed \X Item

VARIABLES
  life,    \* stage of each finding
  matches  \* the <<topic, finding>> pairs a reader can be shown

vars == <<life, matches>>

Init ==
  /\ life = [x \in Finding |-> "unseen"]
  /\ matches = {}

Discover(x) ==
  /\ life[x] = "unseen"
  /\ life' = [life EXCEPT ![x] = "found"]
  /\ UNCHANGED matches

Embed(x) ==
  /\ life[x] = "found"
  /\ life' = [life EXCEPT ![x] = "embedded"]
  /\ UNCHANGED matches

Match(x) ==
  /\ life[x] = "embedded"
  /\ \E T \in SUBSET Topic : matches' = matches \cup (T \X {x})
  /\ UNCHANGED life

RetireFeed(f) ==
  /\ life' = [x \in Finding |-> IF x[1] = f THEN "gone" ELSE life[x]]
  /\ matches' = {p \in matches : p[2][1] # f}

RetireTopic(t) ==
  /\ matches' = {p \in matches : p[1] # t}
  /\ UNCHANGED life

Next ==
  \/ \E x \in Finding : Discover(x) \/ Embed(x) \/ Match(x)
  \/ \E f \in Feed : RetireFeed(f)
  \/ \E t \in Topic : RetireTopic(t)

Spec == Init /\ [][Next]_vars
=============================================================================
