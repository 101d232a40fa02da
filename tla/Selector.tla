------------------------------ MODULE Selector ------------------------------
(***************************************************************************)
(* The selection rules of src/potcast/station.py: given the runtime state  *)
(* and the set of podcasts that have a downloaded episode, which channel   *)
(* and which podcast come next.  The rules are pure, so this module has no *)
(* variables: each operator maps a runtime state to the state that the     *)
(* method of StationSelector returns, and the shuffled choice, which the   *)
(* code takes from a random generator, maps it to the set of such states.  *)
(***************************************************************************)
EXTENDS Integers, Sequences, FiniteSetsExt, Functions

CONSTANTS
    Channels,      \* every channel id a runtime state may name
    Podcasts,      \* every podcast id a runtime state or download may name
    ChannelIds,    \* the configured channels, in YAML order
    PodcastIds,    \* the configured podcasts of each of them, in YAML order
    NoChannel,     \* current_channel_id is None
    NoPodcast      \* current_podcast_id is None

(***************************************************************************)
(* What _parse_channels accepts: at least one channel, at least one        *)
(* podcast in each, and no id used twice.  Channels and Podcasts may be    *)
(* larger than the configuration: state.json and downloads.json outlive an *)
(* edit of the YAML file.                                                  *)
(***************************************************************************)
ASSUME SelectorAssumption ==
    /\ ChannelIds \in Seq(Channels) /\ ChannelIds # <<>>
    /\ PodcastIds \in [Range(ChannelIds) -> Seq(Podcasts) \ {<<>>}]
    /\ \A i, j \in DOMAIN ChannelIds : ChannelIds[i] = ChannelIds[j] => i = j
    /\ \A c, d \in Range(ChannelIds) :
          \A i \in DOMAIN PodcastIds[c], j \in DOMAIN PodcastIds[d] :
             PodcastIds[c][i] = PodcastIds[d][j] => c = d /\ i = j
    /\ NoChannel \notin Channels
    /\ NoPodcast \notin Podcasts

\* _parse_channels: an id is configured once.
Configured(c) == Range(PodcastIds[c])

-----------------------------------------------------------------------------
(* The podcasts of a channel that can be played.                           *)

PlayableAt(c, playable) == {i \in DOMAIN PodcastIds[c] : PodcastIds[c][i] \in playable}

PlayableIn(c, playable) == {PodcastIds[c][i] : i \in PlayableAt(c, playable)}

FirstPlayable(c, playable) ==
    IF PlayableAt(c, playable) = {}
    THEN NoPodcast
    ELSE PodcastIds[c][Min(PlayableAt(c, playable))]

\* Mutant: the order stops at its end instead of going round.
FollowingWithoutWrap(i, S) ==
    LET later == {j \in S : j > i} IN IF later = {} THEN Max(S) ELSE Min(later)

\* The playable position after, or before, position i: the configured order
\* is a cycle.
Following(i, S) ==
    LET later == {j \in S : j > i} IN Min(IF later = {} THEN S ELSE later)

Preceding(i, S) ==
    LET earlier == {j \in S : j < i} IN Max(IF earlier = {} THEN S ELSE earlier)

PositionOf(c, p) == CHOOSE i \in DOMAIN PodcastIds[c] : PodcastIds[c][i] = p

-----------------------------------------------------------------------------
(* Activation: every operation first makes the state point at a configured *)
(* channel and, when there is one, at a playable podcast of it.            *)

\* A channel id that is not configured falls back to the first channel.
ActiveChannel(st) ==
    IF st.channel \in Range(ChannelIds) THEN st.channel ELSE ChannelIds[1]

Activate(st, playable) ==
    LET c == ActiveChannel(st) IN
    [st EXCEPT !.channel = c,
               !.podcast = IF @ \in PlayableIn(c, playable)
                           THEN @
                           ELSE FirstPlayable(c, playable)]

\* Mutant: the first configured podcast is taken, downloaded or not.
EnterChannelUnchecked(st, c, playable) ==
    [st EXCEPT !.channel = c, !.podcast = PodcastIds[c][1], !.previous = <<>>]

\* Mutant: the history of the channel left behind is kept.
EnterChannelWithHistory(st, c, playable) ==
    [st EXCEPT !.channel = c, !.podcast = FirstPlayable(c, playable)]

EnterChannel(st, c, playable) ==
    [st EXCEPT !.channel = c,
               !.podcast = FirstPlayable(c, playable),
               !.previous = <<>>]

OffsetChannel(st, offset, playable) ==
    LET i == CHOOSE i \in DOMAIN ChannelIds : ChannelIds[i] = ActiveChannel(st)
    IN  EnterChannel(st, ChannelIds[((i - 1 + offset) % Len(ChannelIds)) + 1], playable)

-----------------------------------------------------------------------------
(* Moving within a channel.                                                *)

\* The history drops an immediate repetition.
Remember(history, p) ==
    IF history # <<>> /\ history[Len(history)] = p THEN history ELSE Append(history, p)

\* The histories of at most n podcasts.  Whatever configuration they were made
\* under, no podcast follows itself.
Histories(n) ==
    {h \in UNION {[1 .. k -> Podcasts] : k \in 0 .. n} :
        \A i \in 1 .. Len(h) - 1 : h[i] # h[i + 1]}

NoneSelected(st) == [st EXCEPT !.podcast = NoPodcast, !.previous = <<>>]

\* Mutant: the position is stored in place of the id.
NextInOrderIndex(st, playable) ==
    LET c == st.channel IN
    [st EXCEPT !.podcast = Following(PositionOf(c, @), PlayableAt(c, playable)),
               !.previous = Remember(@, st.podcast)]

NextInOrder(st, playable) ==
    LET c == st.channel IN
    [st EXCEPT !.podcast = PodcastIds[c][Following(PositionOf(c, @), PlayableAt(c, playable))],
               !.previous = Remember(@, st.podcast)]

\* Mutant: any other podcast is chosen, whatever was heard.
NextShuffledAny(st, playable) ==
    LET other == PlayableIn(st.channel, playable) \ {st.podcast} IN
    IF other = {} THEN {st}
    ELSE {[st EXCEPT !.podcast = p, !.previous = Remember(@, st.podcast)] : p \in other}

\* Mutant: a new round starts with an empty history.
NextShuffledForgets(st, playable) ==
    LET heard == Range(st.previous) \cup {st.podcast}
        fresh == PlayableIn(st.channel, playable) \ heard
        other == PlayableIn(st.channel, playable) \ {st.podcast}
    IN  IF other = {} THEN {st}
        ELSE IF fresh # {}
        THEN {[st EXCEPT !.podcast = p, !.previous = Remember(@, st.podcast)] : p \in fresh}
        ELSE {[st EXCEPT !.podcast = p, !.previous = <<>>] : p \in other}

\* Prefer a podcast that is neither current nor in the history; when there is
\* none a new round starts, with the current podcast as its history.
NextShuffled(st, playable) ==
    LET heard == Range(st.previous) \cup {st.podcast}
        fresh == PlayableIn(st.channel, playable) \ heard
        other == PlayableIn(st.channel, playable) \ {st.podcast}
    IN  IF other = {} THEN {st}
        ELSE IF fresh # {}
        THEN {[st EXCEPT !.podcast = p, !.previous = Remember(@, st.podcast)] : p \in fresh}
        ELSE {[st EXCEPT !.podcast = p, !.previous = <<st.podcast>>] : p \in other}

\* The set of states next_podcast may return; shuffle is the setting
\* station.shuffle_podcasts.  When the podcast asked from is
\* not playable, activation has already moved, and that is the move.
NextPodcast(st, playable, shuffle) ==
    LET s == Activate(st, playable) IN
    IF PlayableAt(s.channel, playable) = {} THEN {NoneSelected(s)}
    ELSE IF s.podcast # st.podcast THEN {s}
    ELSE IF shuffle THEN NextShuffled(s, playable)
    ELSE {NextInOrder(s, playable)}

PreviousInOrder(st, playable) ==
    LET c == st.channel IN
    [st EXCEPT !.podcast = PodcastIds[c][Preceding(PositionOf(c, @), PlayableAt(c, playable))]]

\* Back to the latest podcast of the history that is still playable here, and
\* only without one to the configured order.
PreviousPodcast(st, playable) ==
    LET s == Activate(st, playable)
        back == {k \in DOMAIN s.previous : s.previous[k] \in PlayableIn(s.channel, playable)}
    IN  IF PlayableAt(s.channel, playable) = {} THEN NoneSelected(s)
        ELSE IF back # {}
        THEN [s EXCEPT !.podcast = s.previous[Max(back)],
                       !.previous = SubSeq(@, 1, Max(back) - 1)]
        ELSE IF s.podcast # st.podcast THEN s
        ELSE PreviousInOrder(s, playable)
=============================================================================
