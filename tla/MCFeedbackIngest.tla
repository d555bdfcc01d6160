-------------------------- MODULE MCFeedbackIngest --------------------------
EXTENDS FeedbackIngest

CONSTANTS s1, t1, r1, c1, conv

MCStartOrder == <<s1>>
MCRouteOf == [s \in {s1} |-> r1]
MCTenantOf == [s \in {s1} |-> t1]
MCVersions == <<<<conv>>>>
MCRequests == {[route |-> r1, body |-> "reviews"]}
===============================================================================
