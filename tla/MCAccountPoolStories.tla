------------------------- MODULE MCAccountPoolStories -------------------------
(* Two instances of AccountPool in one run, told apart by a variable: every  *)
(* action while time stands still and the disk is good, and the durable      *)
(* behaviours of MCAccountPool, in which time passes and saves fail.         *)
EXTENDS MCAccountPool

VARIABLE story

StoriesInit == Init /\ story \in {"full", "durable"}

FullNext == Next /\ now' = now /\ ~saveFailed'

StoriesNext ==
  \/ story = "full" /\ FullNext /\ UNCHANGED story
  \/ story = "durable" /\ DurableNext /\ UNCHANGED story

StoriesSpec == StoriesInit /\ [][StoriesNext]_<<vars, story>>
=============================================================================
