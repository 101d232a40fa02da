-------------------------- MODULE StationSelection --------------------------
(***************************************************************************)
(* The selector at work: the operator moves between podcasts and channels  *)
(* while downloads arrive, so the set of playable podcasts grows between   *)
(* two moves.  heard is a history variable: it records, independently of   *)
(* the state the program keeps, which podcasts have been selected in the   *)
(* current round.                                                          *)
(***************************************************************************)
EXTENDS Selector

CONSTANTS
    MaxHistory,      \* bound: next is not asked with a longer history
    MaxInherited     \* bound: length of the history an earlier run left

ASSUME StationSelectionAssumption == MaxHistory \in Nat /\ MaxInherited \in Nat

VARIABLES
    shuffle,    \* station.shuffle_podcasts, fixed while the program runs
    sel,        \* the selection fields of RuntimeState
    playable,   \* the podcasts with a downloaded episode
    heard       \* podcasts selected since this round began

vars == <<shuffle, sel, playable, heard>>

Selection == [channel : Channels \cup {NoChannel},
              podcast : Podcasts \cup {NoPodcast},
              previous : Seq(Podcasts)]

\* What the selected podcast and the history name.
Heard(s) == Range(s.previous) \cup {s.podcast}

\* The history of a shuffled channel is one round: no podcast twice, the
\* selected one not among them, and all of them playable in the channel.
OneRound(s, S) ==
    LET here == PlayableIn(ActiveChannel(s), S) IN
    /\ \A i, j \in DOMAIN s.previous : s.previous[i] = s.previous[j] => i = j
    /\ s.podcast \notin Range(s.previous)
    /\ Range(s.previous) \subseteq here
    /\ s.previous # <<>> => s.podcast \in here

\* First boot, or the state.json of an earlier run, whose history is restored,
\* possibly under another configuration or another setting of shuffle.
Init ==
    /\ shuffle \in BOOLEAN
    /\ playable \in SUBSET Podcasts
    /\ \/ sel = [channel |-> NoChannel, podcast |-> NoPodcast, previous |-> <<>>]
       \/ sel \in [channel : Channels,
                   podcast : Podcasts \cup {NoPodcast},
                   previous : Histories(MaxInherited)]
    /\ heard = Heard(sel)

-----------------------------------------------------------------------------

\* Of an inherited history that is no round, only what it names is known.  In a
\* round a repetition begins another one, which already counts the podcast left.
Next ==
    /\ Len(sel.previous) < MaxHistory
    /\ sel' \in NextPodcast(sel, playable, shuffle)
    /\ heard' = LET p == Activate(sel, playable).podcast IN
                IF ~OneRound(sel, playable) THEN Heard(sel')
                ELSE IF sel.podcast # p THEN {sel'.podcast}
                ELSE IF sel'.podcast \in heard THEN {p, sel'.podcast}
                ELSE heard \cup {sel'.podcast}
    /\ UNCHANGED <<shuffle, playable>>

\* Going back forgets that the podcast left behind was heard.
Previous ==
    /\ sel' = PreviousPodcast(sel, playable)
    /\ heard' = IF ~OneRound(sel, playable) THEN Heard(sel')
                ELSE IF Len(sel'.previous) < Len(sel.previous)
                THEN (heard \ {sel.podcast}) \cup {sel'.podcast}
                ELSE {sel'.podcast}
    /\ UNCHANGED <<shuffle, playable>>

ChangeChannel(offset) ==
    /\ sel' = OffsetChannel(sel, offset, playable)
    /\ heard' = {sel'.podcast}
    /\ UNCHANGED <<shuffle, playable>>

SelectChannel(c) ==
    /\ sel' = EnterChannel(sel, c, playable)
    /\ heard' = {sel'.podcast}
    /\ UNCHANGED <<shuffle, playable>>

\* An unknown or unplayable podcast is refused and nothing changes.
SelectPodcast(p) ==
    LET s == Activate(sel, playable) IN
    /\ p \in PlayableIn(s.channel, playable)
    /\ sel' = [s EXCEPT !.podcast = p, !.previous = <<>>]
    /\ heard' = {p}
    /\ UNCHANGED <<shuffle, playable>>

\* A refresh stores the first episode of a podcast; none is ever withdrawn.
DownloadArrives(p) ==
    /\ p \notin playable
    /\ playable' = playable \cup {p}
    /\ UNCHANGED <<shuffle, sel, heard>>

Move ==
    \/ Next
    \/ Previous
    \/ \E offset \in {-1, 1} : ChangeChannel(offset)
    \/ \E c \in Range(ChannelIds) : SelectChannel(c)
    \/ \E p \in Podcasts : SelectPodcast(p)

Step == Move \/ \E p \in Podcasts : DownloadArrives(p)

Spec == Init /\ [][Step]_vars

-----------------------------------------------------------------------------
(* Properties.                                                             *)

\* The selection names known ids and the history is a sequence of podcasts.
TypeOK ==
    /\ shuffle \in BOOLEAN
    /\ sel \in Selection
    /\ playable \subseteq Podcasts
    /\ heard \subseteq Podcasts \cup {NoPodcast}

\* Whatever was selected before, and under whichever configuration, a move
\* ends on a podcast that can be played in the channel it ends on, and on no
\* podcast only when that channel has none: activate, next_podcast,
\* previous_podcast and the channel moves all agree on this.
MovesEndPlayable ==
    [][Move => IF PlayableIn(sel'.channel, playable) = {}
               THEN sel'.podcast = NoPodcast
               ELSE sel'.podcast \in PlayableIn(sel'.channel, playable)]_vars

\* /previous after /next returns to the podcast /next left, in either mode,
\* even when a new round of the shuffle has just forgotten the older history.
PreviousUndoesNext ==
    [][Next /\ sel.podcast \in PlayableIn(ActiveChannel(sel), playable)
        => PreviousPodcast(sel', playable).podcast = sel.podcast]_vars

\* SPEC 8.5: in a round of a shuffled channel a podcast is repeated only when
\* every playable podcast of the channel has been selected once, although the
\* code keeps only a history that going back also shortens.  A history that is
\* no round, which an unshuffled run or a configuration with other podcasts
\* leaves in state.json, may repeat one early, until it is cleared or used up.
NoEarlyRepeat ==
    [][Next /\ shuffle /\ OneRound(sel, playable)
        /\ sel'.podcast # sel.podcast /\ sel'.podcast \in heard
        => PlayableIn(sel'.channel, playable) \subseteq heard]_vars

\* In a shuffled channel a round stays a round, and so within the channel,
\* whatever is asked for and downloaded, the rounds an earlier run left included;
\* and when /next cuts the history, whatever it was, what it begins is a round.
HistoryIsOneRound ==
    [][shuffle /\ (OneRound(sel, playable) \/ (Next /\ Len(sel'.previous) < Len(sel.previous)))
        => /\ OneRound(sel', playable')
           /\ Len(sel'.previous) < Len(PodcastIds[ActiveChannel(sel')])]_vars

\* Without shuffle, asking /next as often as there are podcasts reaches every
\* playable podcast of the channel, from any selection and any history.
EveryPodcastHasItsTurn ==
    LET c == ActiveChannel(sel)
        after[k \in 0 .. Len(PodcastIds[c])] ==
            IF k = 0 THEN sel
            ELSE CHOOSE s \in NextPodcast(after[k - 1], playable, FALSE) : TRUE
    IN  ~shuffle => PlayableIn(c, playable) \subseteq {after[k].podcast : k \in DOMAIN after}
=============================================================================
