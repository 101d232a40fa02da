------------------------- MODULE MCStationSelection -------------------------
(* Two channels, of three and one podcasts, and a channel and a podcast of  *)
(* an earlier configuration.                                                *)
EXTENDS StationSelection, TLC

CONSTANTS news, music, retired, pa, pb, pc, pd, gone

MCChannels == {news, music, retired}
MCPodcasts == {pa, pb, pc, pd, gone}
MCChannelIds == <<news, music>>
MCPodcastIds == (news :> <<pa, pb, pc>>) @@ (music :> <<pd>>)

=============================================================================
