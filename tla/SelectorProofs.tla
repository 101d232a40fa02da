--------------------------- MODULE SelectorProofs ---------------------------
(***************************************************************************)
(* Facts about the operators of Selector, for any configuration.           *)
(***************************************************************************)
EXTENDS Selector, NumberFacts, SequenceTheorems, TLAPS

\* A configured channel has a non-empty sequence of podcasts.
LEMMA ConfiguredChannel ==
    ASSUME NEW c \in Range(ChannelIds)
    PROVE  /\ c \in Channels
           /\ PodcastIds[c] \in Seq(Podcasts)
           /\ Len(PodcastIds[c]) \in Nat \ {0}
           /\ DOMAIN PodcastIds[c] = 1 .. Len(PodcastIds[c])
<1>1. c \in Channels
  <2>1. PICK i \in DOMAIN ChannelIds : c = ChannelIds[i]
    BY DEF Range
  <2>2. ChannelIds \in Seq(Channels)
    BY SelectorAssumption
  <2> QED
    BY <2>1, <2>2, ElementOfSeq, LenProperties
<1>2. PodcastIds[c] \in Seq(Podcasts) /\ PodcastIds[c] # <<>>
  BY SelectorAssumption
<1> QED
  BY <1>1, <1>2, EmptySeq, LenProperties

\* The active channel is always a configured one.
LEMMA ActiveChannelConfigured ==
    ASSUME NEW s
    PROVE  ActiveChannel(s) \in Range(ChannelIds)
<1>1. ChannelIds \in Seq(Channels) /\ ChannelIds # <<>>
  BY SelectorAssumption
<1>2. 1 \in DOMAIN ChannelIds
  BY <1>1, EmptySeq, LenProperties
<1> QED
  BY <1>2 DEF ActiveChannel, Range

\* A step in the cycle of channels leads to a configured channel.
LEMMA OffsetConfigured ==
    ASSUME NEW c \in Range(ChannelIds), NEW offset \in {-1, 1}
    PROVE  LET i == CHOOSE i \in DOMAIN ChannelIds : ChannelIds[i] = c
           IN  ChannelIds[((i - 1 + offset) % Len(ChannelIds)) + 1] \in Range(ChannelIds)
<1> DEFINE i == CHOOSE j \in DOMAIN ChannelIds : ChannelIds[j] = c
           n == Len(ChannelIds)
<1>1. n \in Nat /\ n > 0 /\ DOMAIN ChannelIds = 1 .. n
  BY SelectorAssumption, EmptySeq, LenProperties
<1>2. i \in 1 .. n
  BY <1>1 DEF Range
<1> HIDE DEF i, n
<1>3. (i - 1 + offset) % n \in 0 .. n - 1
  BY <1>1, <1>2
<1>4. ((i - 1 + offset) % n) + 1 \in 1 .. n
  BY <1>1, <1>3
<1> QED
  BY <1>1, <1>4 DEF Range, i, n

\* The playable positions are positions, and the podcasts there are podcasts.
LEMMA PlayableType ==
    ASSUME NEW c \in Range(ChannelIds), NEW playable
    PROVE  /\ PlayableAt(c, playable) \in SUBSET (1 .. Len(PodcastIds[c]))
           /\ PlayableAt(c, playable) \in SUBSET Nat
           /\ PlayableIn(c, playable) \subseteq Podcasts
           /\ PlayableIn(c, playable) \subseteq playable
           /\ PlayableIn(c, playable) \subseteq Configured(c)
           /\ PlayableIn(c, playable) = {} <=> PlayableAt(c, playable) = {}
<1>1. PodcastIds[c] \in Seq(Podcasts)
      /\ Len(PodcastIds[c]) \in Nat
      /\ DOMAIN PodcastIds[c] = 1 .. Len(PodcastIds[c])
  BY ConfiguredChannel
<1>2. \A i \in DOMAIN PodcastIds[c] : PodcastIds[c][i] \in Podcasts
  BY <1>1, ElementOfSeq
<1>3. PlayableAt(c, playable) \in SUBSET (1 .. Len(PodcastIds[c]))
  BY <1>1 DEF PlayableAt
<1>4. PlayableAt(c, playable) \in SUBSET Nat
  BY <1>1, <1>3
<1>5. PlayableIn(c, playable) \subseteq Podcasts /\ PlayableIn(c, playable) \subseteq playable
  BY <1>2 DEF PlayableAt, PlayableIn
<1>6. PlayableIn(c, playable) \subseteq Configured(c)
  BY DEF PlayableAt, PlayableIn, Configured, Range
<1>7. PlayableIn(c, playable) = {} <=> PlayableAt(c, playable) = {}
  BY DEF PlayableIn
<1> QED
  BY <1>3, <1>4, <1>5, <1>6, <1>7

\* A channel with a playable podcast starts with one.
LEMMA FirstPlayableIn ==
    ASSUME NEW c \in Range(ChannelIds), NEW playable
    PROVE  IF PlayableIn(c, playable) = {}
           THEN FirstPlayable(c, playable) = NoPodcast
           ELSE FirstPlayable(c, playable) \in PlayableIn(c, playable)
<1>1. PlayableAt(c, playable) \in SUBSET Nat
  BY PlayableType
<1>2. PlayableAt(c, playable) # {} => Min(PlayableAt(c, playable)) \in PlayableAt(c, playable)
  BY <1>1, MinIn
<1>3. PlayableIn(c, playable) = {} <=> PlayableAt(c, playable) = {}
  BY PlayableType
<1> QED
  BY <1>2, <1>3 DEF FirstPlayable, PlayableIn

\* The neighbours of a position in the cycle of playable positions are
\* playable positions.
LEMMA NeighboursIn ==
    ASSUME NEW n \in Nat, NEW S \in SUBSET (1 .. n), S # {}, NEW i \in Int
    PROVE  Following(i, S) \in S /\ Preceding(i, S) \in S
<1> DEFINE later == {j \in S : j > i}
           earlier == {j \in S : j < i}
           up == IF later = {} THEN S ELSE later
           down == IF earlier = {} THEN S ELSE earlier
<1>1. up \in SUBSET Nat /\ up # {} /\ up \subseteq S
  <2>1. up # {} /\ up \subseteq S
    OBVIOUS
  <2>2. S \in SUBSET Nat
    OBVIOUS
  <2> HIDE DEF up
  <2> QED
    BY <2>1, <2>2
<1>2. down \in SUBSET (1 .. n) /\ down # {} /\ down \subseteq S
  OBVIOUS
<1>3. Following(i, S) = Min(up) /\ Preceding(i, S) = Max(down)
  BY DEF Following, Preceding
<1> HIDE DEF up, down
<1>4. Min(up) \in up
  BY <1>1, MinIn
<1>5. Max(down) \in down
  BY <1>2, MaxIn
<1> QED
  BY <1>1, <1>2, <1>3, <1>4, <1>5

-----------------------------------------------------------------------------
(* The moves.  RuntimeState has more fields than the selection reads or    *)
(* writes, so what follows is stated for any state that has these three.   *)

\* A state with the fields of a selection.
Selecting(s) ==
    /\ {"channel", "podcast", "previous"} \subseteq DOMAIN s
    /\ s.previous \in Seq(Podcasts)

\* s with another selection, and nothing else changed.
Reselect(s, c, p, h) == [s EXCEPT !.channel = c, !.podcast = p, !.previous = h]

\* A podcast a move may end on in channel c: a playable one, or none when there
\* is none.
EndsOn(c, p, playable) ==
    IF PlayableIn(c, playable) = {} THEN p = NoPodcast ELSE p \in PlayableIn(c, playable)

\* t is s after a move: in a configured channel, on a podcast a move may end on,
\* with a history that is empty or one of the channel s was in, to which at most
\* playable podcasts were added.
Moved(s, t, playable) ==
    \E c \in Range(ChannelIds), p \in Podcasts \cup {NoPodcast}, h \in Seq(Podcasts) :
       /\ t = Reselect(s, c, p, h)
       /\ EndsOn(c, p, playable)
       /\ \/ h = <<>>
          \/ /\ c = ActiveChannel(s)
             /\ Range(h) \subseteq Range(s.previous) \cup PlayableIn(c, playable)

\* The fields of a reselected state.
LEMMA Reselected ==
    ASSUME NEW s, Selecting(s), NEW c, NEW p, NEW h \in Seq(Podcasts)
    PROVE  /\ Reselect(s, c, p, h).channel = c
           /\ Reselect(s, c, p, h).podcast = p
           /\ Reselect(s, c, p, h).previous = h
           /\ Selecting(Reselect(s, c, p, h))
BY DEF Reselect, Selecting

\* Of two selections the last one stays.
LEMMA ReselectedTwice ==
    ASSUME NEW s, Selecting(s), NEW c, NEW p, NEW h, NEW d, NEW q, NEW g
    PROVE  Reselect(Reselect(s, c, p, h), d, q, g) = Reselect(s, d, q, g)
BY DEF Reselect, Selecting

\* What a move leaves in the fields of the selection.
LEMMA MovedFields ==
    ASSUME NEW s, Selecting(s), NEW playable, NEW t, Moved(s, t, playable)
    PROVE  /\ Selecting(t)
           /\ t.channel \in Range(ChannelIds)
           /\ t.podcast \in Podcasts \cup {NoPodcast}
           /\ EndsOn(t.channel, t.podcast, playable)
           /\ \/ t.previous = <<>>
              \/ /\ t.channel = ActiveChannel(s)
                 /\ Range(t.previous) \subseteq
                       Range(s.previous) \cup PlayableIn(t.channel, playable)
BY Reselected DEF Moved

\* Activation is a move that keeps the history.
LEMMA ActivateMoves ==
    ASSUME NEW s, Selecting(s), NEW playable
    PROVE  /\ Moved(s, Activate(s, playable), playable)
           /\ Activate(s, playable) =
                 Reselect(s, ActiveChannel(s), Activate(s, playable).podcast, s.previous)
           /\ Activate(s, playable).podcast =
                 IF s.podcast \in PlayableIn(ActiveChannel(s), playable)
                 THEN s.podcast ELSE FirstPlayable(ActiveChannel(s), playable)
           /\ Activate(s, playable).channel = ActiveChannel(s)
           /\ Activate(s, playable).previous = s.previous
           /\ Selecting(Activate(s, playable))
<1> DEFINE c == ActiveChannel(s)
           a == Activate(s, playable)
           p == IF s.podcast \in PlayableIn(c, playable)
                THEN s.podcast ELSE FirstPlayable(c, playable)
<1>1. c \in Range(ChannelIds)
  BY ActiveChannelConfigured
<1>2. p \in Podcasts \cup {NoPodcast} /\ EndsOn(c, p, playable)
  BY <1>1, FirstPlayableIn, PlayableType DEF EndsOn
<1> HIDE DEF c
<1>3. a = Reselect(s, c, p, s.previous)
  BY DEF Activate, Reselect, Selecting, c
<1> HIDE DEF a, p
<1>4. s.previous \in Seq(Podcasts)
  BY DEF Selecting
<1>5. a.podcast = p /\ a.channel = c /\ a.previous = s.previous /\ Selecting(a)
  BY <1>3, <1>4, Reselected
<1>6. Moved(s, a, playable)
  BY <1>1, <1>2, <1>3, <1>4 DEF Moved, c
<1> QED
  BY <1>3, <1>5, <1>6 DEF a, c, p

\* When the channel has a playable podcast, activation ends on one.
LEMMA ActivatePlayable ==
    ASSUME NEW s, Selecting(s), NEW playable,
           PlayableAt(Activate(s, playable).channel, playable) # {}
    PROVE  Activate(s, playable).podcast \in
              PlayableIn(Activate(s, playable).channel, playable)
<1> DEFINE a == Activate(s, playable)
<1>1. Moved(s, a, playable)
  BY ActivateMoves
<1> HIDE DEF a
<1>2. a.channel \in Range(ChannelIds) /\ EndsOn(a.channel, a.podcast, playable)
  BY <1>1, MovedFields
<1> QED
  BY <1>2, PlayableType DEF EndsOn, a

\* Entering a configured channel, as select_channel does, is a move.
LEMMA EnterChannelMoves ==
    ASSUME NEW s, Selecting(s), NEW c \in Range(ChannelIds), NEW playable
    PROVE  Moved(s, EnterChannel(s, c, playable), playable)
<1> DEFINE p == FirstPlayable(c, playable)
<1>1. p \in Podcasts \cup {NoPodcast} /\ EndsOn(c, p, playable)
  BY FirstPlayableIn, PlayableType DEF EndsOn
<1>2. EnterChannel(s, c, playable) = Reselect(s, c, p, <<>>)
  BY DEF EnterChannel, Reselect
<1>3. <<>> \in Seq(Podcasts)
  OBVIOUS
<1> HIDE DEF p
<1> QED
  BY <1>1, <1>2, <1>3 DEF Moved

\* So are /channel/next and /channel/previous.
LEMMA OffsetChannelMoves ==
    ASSUME NEW s, Selecting(s), NEW offset \in {-1, 1}, NEW playable
    PROVE  Moved(s, OffsetChannel(s, offset, playable), playable)
<1>1. ActiveChannel(s) \in Range(ChannelIds)
  BY ActiveChannelConfigured
<1> QED
  BY <1>1, OffsetConfigured, EnterChannelMoves DEF OffsetChannel

\* Every other move selects within the channel that activation chose.
LEMMA MovesWithin ==
    ASSUME NEW s, Selecting(s), NEW playable,
           NEW p \in Podcasts \cup {NoPodcast}, NEW h \in Seq(Podcasts),
           EndsOn(ActiveChannel(s), p, playable),
           Range(h) \subseteq Range(s.previous) \cup PlayableIn(ActiveChannel(s), playable),
           NEW t, t = Reselect(Activate(s, playable), ActiveChannel(s), p, h)
    PROVE  /\ Moved(s, t, playable)
           /\ t.channel = ActiveChannel(s)
           /\ t.podcast = p
           /\ t.previous = h
<1>1. t = Reselect(s, ActiveChannel(s), p, h)
  BY ActivateMoves, ReselectedTwice
<1>2. ActiveChannel(s) \in Range(ChannelIds)
  BY ActiveChannelConfigured
<1> QED
  BY <1>1, <1>2, Reselected DEF Moved

\* So does selecting a playable podcast of the active channel.
LEMMA SelectPodcastMoves ==
    ASSUME NEW s, Selecting(s), NEW playable,
           NEW p \in PlayableIn(Activate(s, playable).channel, playable)
    PROVE  Moved(s, [Activate(s, playable) EXCEPT !.podcast = p, !.previous = <<>>], playable)
<1> DEFINE a == Activate(s, playable)
           t == [a EXCEPT !.podcast = p, !.previous = <<>>]
<1>1. p \in PlayableIn(ActiveChannel(s), playable) /\ p \in Podcasts
  BY ActivateMoves, ActiveChannelConfigured, PlayableType
<1>2. <<>> \in Seq(Podcasts) /\ Range(<<>>) = {}
  BY DEF Range
<1>3. Selecting(a) /\ a.channel = ActiveChannel(s)
  BY ActivateMoves
<1> HIDE DEF a
<1>4. t = Reselect(a, ActiveChannel(s), p, <<>>)
  BY <1>3 DEF Reselect, Selecting
<1> HIDE DEF t
<1>5. Moved(s, t, playable)
  BY <1>1, <1>2, <1>4, MovesWithin DEF EndsOn, a
<1> QED
  BY <1>5 DEF t, a

\* A channel without a playable podcast has none selected.
LEMMA NoneSelectedMoves ==
    ASSUME NEW s, Selecting(s), NEW playable,
           PlayableAt(Activate(s, playable).channel, playable) = {}
    PROVE  /\ Moved(s, NoneSelected(Activate(s, playable)), playable)
           /\ NoneSelected(Activate(s, playable)).podcast = NoPodcast
           /\ NoneSelected(Activate(s, playable)).previous = <<>>
<1> DEFINE a == Activate(s, playable)
           h == <<>>
           t == NoneSelected(a)
<1>1. EndsOn(ActiveChannel(s), NoPodcast, playable)
  BY ActivateMoves, ActiveChannelConfigured, PlayableType DEF EndsOn
<1>2. h \in Seq(Podcasts) /\ Range(h) = {}
  BY DEF Range
<1>3. Selecting(a) /\ a.channel = ActiveChannel(s)
  BY ActivateMoves
<1> HIDE DEF a
<1>4. t = Reselect(a, ActiveChannel(s), NoPodcast, h)
  BY <1>3 DEF NoneSelected, Reselect, Selecting
<1> HIDE DEF t, h
<1>5. Moved(s, t, playable) /\ t.podcast = NoPodcast /\ t.previous = h
  BY <1>1, <1>2, <1>4, MovesWithin DEF a
<1> QED
  BY <1>5 DEF t, a, h

\* A history is a sequence of podcasts.
LEMMA HistoriesTyped ==
    ASSUME NEW n \in Nat
    PROVE  Histories(n) \subseteq Seq(Podcasts)
<1> SUFFICES ASSUME NEW h \in Histories(n) PROVE h \in Seq(Podcasts)
  OBVIOUS
<1>1. PICK k \in 0 .. n : h \in [1 .. k -> Podcasts]
  BY DEF Histories
<1>2. k \in Nat
  BY <1>1
<1> QED
  BY <1>1, <1>2

\* What Remember adds to the history is the podcast remembered, at its end.
LEMMA Remembered ==
    ASSUME NEW h \in Seq(Podcasts), NEW p \in Podcasts
    PROVE  /\ Remember(h, p) \in Seq(Podcasts)
           /\ Len(Remember(h, p)) \in Nat \ {0}
           /\ Remember(h, p)[Len(Remember(h, p))] = p
           /\ Range(Remember(h, p)) = Range(h) \cup {p}
<1>1. CASE h # <<>> /\ h[Len(h)] = p
  <2>1. Remember(h, p) = h
    BY <1>1 DEF Remember
  <2>2. Len(h) \in Nat \ {0} /\ DOMAIN h = 1 .. Len(h)
    BY <1>1, EmptySeq, LenProperties
  <2>3. p \in Range(h)
    BY <1>1, <2>2 DEF Range
  <2> QED
    BY <1>1, <2>1, <2>2, <2>3
<1>2. CASE ~(h # <<>> /\ h[Len(h)] = p)
  <2> DEFINE g == Append(h, p)
  <2>1. Remember(h, p) = g
    BY <1>2 DEF Remember
  <2>2. Len(h) \in Nat /\ DOMAIN h = 1 .. Len(h)
    BY LenProperties
  <2>3. g \in Seq(Podcasts) /\ Len(g) = Len(h) + 1 /\ DOMAIN g = 1 .. Len(h) + 1
    BY LenProperties
  <2>4. \A i \in 1 .. Len(h) + 1 : g[i] = IF i <= Len(h) THEN h[i] ELSE p
    BY <2>2
  <2> HIDE DEF g
  <2>5. Range(g) = Range(h) \cup {p}
    BY <2>2, <2>3, <2>4 DEF Range
  <2> QED
    BY <2>1, <2>2, <2>3, <2>4, <2>5
<1> QED
  BY <1>1, <1>2

\* The position of a playable podcast is a position, and its neighbours in the
\* cycle hold playable podcasts.
LEMMA NeighboursPlayable ==
    ASSUME NEW c \in Range(ChannelIds), NEW playable, NEW p \in PlayableIn(c, playable)
    PROVE  LET i == PositionOf(c, p)
               S == PlayableAt(c, playable)
           IN  /\ PodcastIds[c][Following(i, S)] \in PlayableIn(c, playable)
               /\ PodcastIds[c][Preceding(i, S)] \in PlayableIn(c, playable)
<1> DEFINE i == PositionOf(c, p)
           S == PlayableAt(c, playable)
<1>1. Len(PodcastIds[c]) \in Nat /\ DOMAIN PodcastIds[c] = 1 .. Len(PodcastIds[c])
  BY ConfiguredChannel
<1>2. S \in SUBSET (1 .. Len(PodcastIds[c])) /\ S # {}
  BY PlayableType
<1>3. i \in Int
  <2>1. \E j \in DOMAIN PodcastIds[c] : PodcastIds[c][j] = p
    BY DEF PlayableIn, PlayableAt
  <2> QED
    BY <1>1, <2>1 DEF PositionOf
<1>4. Following(i, S) \in S /\ Preceding(i, S) \in S
  <2> HIDE DEF S, i
  <2> QED
    BY <1>1, <1>2, <1>3, NeighboursIn
<1> QED
  BY <1>4 DEF PlayableIn

\* next_podcast from a playable podcast, in the configured order.
LEMMA NextInOrderMoves ==
    ASSUME NEW s, Selecting(s), NEW playable,
           Activate(s, playable).podcast \in PlayableIn(ActiveChannel(s), playable)
    PROVE  LET a == Activate(s, playable)
               t == NextInOrder(a, playable)
           IN  /\ Moved(s, t, playable)
               /\ t.channel = ActiveChannel(s)
               /\ t.previous = Remember(s.previous, a.podcast)
<1> DEFINE a == Activate(s, playable)
           c == ActiveChannel(s)
           q == PodcastIds[c][Following(PositionOf(c, a.podcast), PlayableAt(c, playable))]
           h == Remember(s.previous, a.podcast)
<1>1. a.channel = c /\ a.previous = s.previous /\ Selecting(a)
  BY ActivateMoves
<1>2. c \in Range(ChannelIds)
  BY ActiveChannelConfigured
<1>3. PlayableIn(c, playable) \subseteq Podcasts
  BY <1>2, PlayableType
<1>4. q \in PlayableIn(c, playable)
  BY <1>2, NeighboursPlayable
<1>5. h \in Seq(Podcasts) /\ Range(h) = Range(s.previous) \cup {a.podcast}
  BY <1>3, Remembered DEF Selecting
<1>6. EndsOn(c, q, playable)
  BY <1>4 DEF EndsOn
<1> DEFINE t == NextInOrder(a, playable)
<1>7. t = Reselect(a, c, q, h)
  <2> HIDE DEF a
  <2> QED
    BY <1>1 DEF NextInOrder, Reselect, Selecting
<1> HIDE DEF a, q, h, t
<1>8. Moved(s, t, playable) /\ t.channel = c /\ t.previous = h
  <2>1. q \in Podcasts /\ Range(h) \subseteq Range(s.previous) \cup PlayableIn(c, playable)
    BY <1>3, <1>4, <1>5 DEF a
  <2> QED
    BY <1>5, <1>6, <1>7, <2>1, MovesWithin DEF a
<1> QED
  BY <1>8 DEF a, h, t

\* next_podcast from a playable podcast, shuffled: a podcast not heard in this
\* round, or any other one and a new round, or the only one again.
LEMMA NextShuffledMoves ==
    ASSUME NEW s, Selecting(s), NEW playable,
           Activate(s, playable).podcast \in PlayableIn(ActiveChannel(s), playable),
           NEW t \in NextShuffled(Activate(s, playable), playable)
    PROVE  LET p == Activate(s, playable).podcast
               S == PlayableIn(ActiveChannel(s), playable)
               fresh == S \ (Range(s.previous) \cup {p})
           IN  /\ Moved(s, t, playable)
               /\ t.channel = ActiveChannel(s)
               /\ \/ S \ {p} = {} /\ t.podcast = p /\ t.previous = s.previous
                  \/ t.podcast \in fresh /\ t.previous = Remember(s.previous, p)
                  \/ fresh = {} /\ t.podcast \in S \ {p} /\ t.previous = <<p>>
<1> DEFINE a == Activate(s, playable)
           c == ActiveChannel(s)
           S == PlayableIn(c, playable)
           fresh == S \ (Range(s.previous) \cup {a.podcast})
           h == Remember(s.previous, a.podcast)
           new == <<a.podcast>>
<1>1. /\ a.channel = c /\ a.previous = s.previous
      /\ Selecting(a) /\ Moved(s, a, playable) /\ s.previous \in Seq(Podcasts)
  BY ActivateMoves DEF Selecting
<1>2. S \subseteq Podcasts
  BY ActiveChannelConfigured, PlayableType
<1>3. h \in Seq(Podcasts) /\ Range(h) = Range(s.previous) \cup {a.podcast}
  BY <1>1, <1>2, Remembered
<1>4. new \in Seq(Podcasts) /\ Range(new) = {a.podcast}
  BY <1>2 DEF Range
<1>5. a.podcast \in S
  OBVIOUS
<1> HIDE DEF a
<1>6. \/ S \ {a.podcast} = {} /\ t = a
      \/ \E q \in fresh : t = [a EXCEPT !.podcast = q, !.previous = Remember(@, a.podcast)]
      \/ fresh = {} /\ \E q \in S \ {a.podcast} : t = [a EXCEPT !.podcast = q, !.previous = new]
  BY <1>1 DEF NextShuffled, a
<1>7. ASSUME NEW q, t = [a EXCEPT !.podcast = q, !.previous = Remember(@, a.podcast)]
      PROVE  t = Reselect(a, c, q, h)
  BY <1>1, <1>7 DEF Reselect, Selecting
<1> HIDE DEF h, new
<1>8. ASSUME NEW q, t = [a EXCEPT !.podcast = q, !.previous = new]
      PROVE  t = Reselect(a, c, q, new)
  BY <1>1, <1>8 DEF Reselect, Selecting
<1>9. CASE S \ {a.podcast} = {} /\ t = a
  BY <1>1, <1>9 DEF a
<1>10. CASE \E q \in fresh : t = Reselect(a, c, q, h)
  <2>1. PICK q \in fresh : t = Reselect(a, c, q, h)
    BY <1>10
  <2>2. q \in Podcasts /\ q \in S /\ EndsOn(c, q, playable)
    BY <1>2 DEF EndsOn
  <2>3. Range(h) \subseteq Range(s.previous) \cup S
    BY <1>3, <1>5
  <2> HIDE DEF c
  <2>4. Moved(s, t, playable) /\ t.channel = c /\ t.podcast = q /\ t.previous = h
    BY <1>3, <2>1, <2>2, <2>3, MovesWithin DEF a, c
  <2> QED
    BY <2>4 DEF h, a, c
<1>11. CASE fresh = {} /\ \E q \in S \ {a.podcast} : t = Reselect(a, c, q, new)
  <2>1. PICK q \in S \ {a.podcast} : t = Reselect(a, c, q, new)
    BY <1>11
  <2>2. q \in Podcasts /\ q \in S /\ EndsOn(c, q, playable)
    BY <1>2 DEF EndsOn
  <2>3. Range(new) \subseteq Range(s.previous) \cup S
    BY <1>4, <1>5
  <2> HIDE DEF c
  <2>4. Moved(s, t, playable) /\ t.channel = c /\ t.podcast = q /\ t.previous = new
    BY <1>4, <2>1, <2>2, <2>3, MovesWithin DEF a, c
  <2> QED
    BY <1>11, <2>4 DEF new, a, c
<1> QED
  BY <1>6, <1>7, <1>8, <1>9, <1>10, <1>11

\* next_podcast is a move within the active channel, in either order.
LEMMA NextPodcastMoves ==
    ASSUME NEW s, Selecting(s), NEW playable, NEW shuffle,
           NEW t \in NextPodcast(s, playable, shuffle)
    PROVE  Moved(s, t, playable)
<1> DEFINE a == Activate(s, playable)
           c == ActiveChannel(s)
<1>1. a.channel = c /\ Moved(s, a, playable)
  BY ActivateMoves
<1>2. CASE PlayableAt(c, playable) = {}
  BY <1>1, <1>2, NoneSelectedMoves DEF NextPodcast
<1>3. CASE PlayableAt(c, playable) # {}
  <2>1. a.podcast \in PlayableIn(c, playable)
    BY <1>1, <1>3, ActivatePlayable
  <2>2. t = a \/ t \in NextShuffled(a, playable) \/ t = NextInOrder(a, playable)
    BY <1>1, <1>3 DEF NextPodcast
  <2> HIDE DEF a, c
  <2> QED
    BY <1>1, <2>1, <2>2, NextShuffledMoves, NextInOrderMoves DEF a, c
<1> QED
  BY <1>2, <1>3

\* previous_podcast goes back to the latest playable podcast of the history and
\* forgets what followed it, or moves in the configured order without touching
\* the history.
LEMMA PreviousPodcastMoves ==
    ASSUME NEW s, Selecting(s), NEW playable
    PROVE  LET S == PlayableIn(ActiveChannel(s), playable)
               t == PreviousPodcast(s, playable)
               back == {k \in DOMAIN s.previous : s.previous[k] \in S}
           IN  /\ Moved(s, t, playable)
               /\ t.channel = ActiveChannel(s)
               /\ \/ S = {} /\ t.previous = <<>>
                  \/ /\ back # {}
                     /\ Max(back) \in back /\ \A k \in back : k <= Max(back)
                     /\ t.podcast = s.previous[Max(back)]
                     /\ t.previous = SubSeq(s.previous, 1, Max(back) - 1)
                  \/ back = {} /\ t.podcast \in S /\ t.previous = s.previous
<1> DEFINE a == Activate(s, playable)
           c == ActiveChannel(s)
           S == PlayableIn(c, playable)
           back == {k \in DOMAIN s.previous : s.previous[k] \in S}
           t == PreviousPodcast(s, playable)
<1>1. /\ a.channel = c /\ a.previous = s.previous
      /\ Selecting(a) /\ Moved(s, a, playable) /\ s.previous \in Seq(Podcasts)
  BY ActivateMoves DEF Selecting
<1>2. c \in Range(ChannelIds) /\ S \subseteq Podcasts
      /\ (S = {} <=> PlayableAt(c, playable) = {})
  BY ActiveChannelConfigured, PlayableType
<1>3. CASE S = {}
  <2>1. PlayableAt(a.channel, playable) = {}
    BY <1>1, <1>2, <1>3
  <2>2. t = NoneSelected(a)
    BY <2>1 DEF PreviousPodcast
  <2>3. t.channel = c
    BY <1>1, <2>2 DEF NoneSelected, Selecting
  <2> HIDE DEF t, a, c
  <2> QED
    BY <1>3, <2>1, <2>2, <2>3, NoneSelectedMoves DEF a, c, t
<1>4. CASE S # {} /\ back # {}
  <2> DEFINE k == Max(back)
             q == s.previous[k]
             h == SubSeq(s.previous, 1, k - 1)
  <2>1. Len(s.previous) \in Nat /\ DOMAIN s.previous = 1 .. Len(s.previous)
    BY <1>1, LenProperties
  <2>2. k \in back /\ \A j \in back : j <= k
    <3>1. back \in SUBSET (1 .. Len(s.previous))
      BY <2>1
    <3> HIDE DEF back
    <3> QED
      BY <1>4, <2>1, <3>1, MaxIn
  <2>3. t = [a EXCEPT !.podcast = a.previous[Max(back)],
                      !.previous = SubSeq(@, 1, Max(back) - 1)]
    BY <1>1, <1>2, <1>4 DEF PreviousPodcast
  <2> HIDE DEF k, a, t
  <2>4. t = Reselect(a, c, q, h)
    BY <1>1, <2>3 DEF Reselect, Selecting, k
  <2>5. q \in S /\ q \in Podcasts /\ EndsOn(c, q, playable)
    BY <1>2, <2>2 DEF EndsOn
  <2>6. h \in Seq(Podcasts) /\ Range(h) \subseteq Range(s.previous)
    <3>1. k \in 1 .. Len(s.previous)
      BY <2>1, <2>2
    <3>2. /\ h \in Seq(Podcasts) /\ Len(h) = k - 1 /\ DOMAIN h = 1 .. k - 1
          /\ \A i \in 1 .. k - 1 : h[i] = s.previous[i]
      BY <1>1, <2>1, <3>1, ElementOfSeq, SubSeqProperties, LenProperties
    <3> HIDE DEF h
    <3> QED
      BY <2>1, <3>1, <3>2 DEF Range
  <2> HIDE DEF h, q, c
  <2>7. Moved(s, t, playable) /\ t.channel = c /\ t.podcast = q /\ t.previous = h
    BY <2>4, <2>5, <2>6, MovesWithin DEF a, c
  <2> QED
    BY <1>4, <2>2, <2>7 DEF t, c, q, h, k
<1>5. CASE S # {} /\ back = {}
  <2>1. a.podcast \in S
    BY <1>1, <1>2, <1>5, ActivatePlayable
  <2>2. t = a \/ t = PreviousInOrder(a, playable)
    BY <1>1, <1>2, <1>5 DEF PreviousPodcast
  <2>3. CASE t = a
    BY <1>1, <1>5, <2>1, <2>3
  <2>4. CASE t = PreviousInOrder(a, playable)
    <3> DEFINE q == PodcastIds[c][Preceding(PositionOf(c, a.podcast), PlayableAt(c, playable))]
    <3>1. q \in S
      BY <1>2, <2>1, NeighboursPlayable
    <3> HIDE DEF a, t
    <3>2. t = Reselect(a, c, q, s.previous)
      BY <1>1, <2>4 DEF PreviousInOrder, Reselect, Selecting
    <3> HIDE DEF q
    <3>3. q \in Podcasts /\ EndsOn(c, q, playable)
      BY <1>2, <3>1 DEF EndsOn
    <3> HIDE DEF c
    <3>4. Moved(s, t, playable) /\ t.channel = c /\ t.podcast = q /\ t.previous = s.previous
      BY <1>1, <3>2, <3>3, MovesWithin DEF a, c
    <3> QED
      BY <1>5, <3>1, <3>4 DEF t, c
  <2> QED
    BY <2>2, <2>3, <2>4
<1> QED
  BY <1>3, <1>4, <1>5

=============================================================================
