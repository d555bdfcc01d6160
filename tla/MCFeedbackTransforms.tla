------------------------ MODULE MCFeedbackTransforms ------------------------
(***************************************************************************)
(* A small instance of FeedbackTransforms: ints of three bits and counts   *)
(* that do not fit them; conversations of up to two messages; three posts  *)
(* on two topics.                                                          *)
(***************************************************************************)
EXTENDS FeedbackTransforms

CONSTANTS t1, t2, t3

MCReview ==
  [country : {t1}, app_version : {t1, t2}, rating : {4}, likes : {0, 3, 4}, review : {t1, t2}]

Said == {[x \in {"User"} |-> t1], [x \in {"Support"} |-> t2],
         [x \in {"User", "Support"} |-> IF x = "User" THEN t2 ELSE t1]}

MCConversation ==
  [app_version : {t1}, conversation : UNION {[1..n -> Said] : n \in 0..2}]

MCPost ==
  {[id |-> 1, topic_id |-> 7, score |-> 4, readers_count |-> 2, cooked |-> t1],
   [id |-> 2, topic_id |-> 8, score |-> 4, readers_count |-> 1, cooked |-> t2],
   [id |-> 3, topic_id |-> 7, score |-> 0, readers_count |-> 9, cooked |-> t3]}
=============================================================================
