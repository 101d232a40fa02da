------------------------------ MODULE MCStation ------------------------------
(* Two configured channels, of two and one podcasts, and one that an earlier *)
(* configuration had.                                                        *)
EXTENDS Station, TLC

CONSTANTS news, music, retired, pa, pb, pc

MCChannels == {news, music, retired}
MCPodcasts == {pa, pb, pc}
MCChannelIds == <<news, music>>
MCPodcastIds == (news :> <<pa, pb>>) @@ (music :> <<pc>>)
=============================================================================
