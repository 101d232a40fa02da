---------------------------- MODULE MCFeedRefresh ----------------------------
(* A podcast whose feed mixes episodes with and without a date, one with a   *)
(* single episode, and two threads that may try to refresh.                  *)
EXTENDS FeedRefresh, TLC

CONSTANTS pa, pb, t1, t2

MCPodcasts == {pa, pb}
MCPodcastIds == <<pa, pb>>
MCWorkers == {t1, t2}
MCKinds == pa :> {<<"linked", 1>>, <<"linked", None>>}
           @@ pb :> {<<"enclosed", None>>}
MCMaxPosts == pa :> 2 @@ pb :> 1
=============================================================================
