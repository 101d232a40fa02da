----------------------- MODULE StationSelectionProofs -----------------------
(***************************************************************************)
(* Theorems about StationSelection, for every configuration and every      *)
(* order of moves and downloads: each move ends on something playable,     *)
(* /previous undoes /next, and a shuffled round is the history the program *)
(* keeps.                                                                  *)
(***************************************************************************)
EXTENDS StationSelection, SelectorProofs, FiniteSetTheorems

-----------------------------------------------------------------------------
(* Every operation is a move of the selector.                              *)

\* A selection is a state the selector's facts speak of, and a move keeps it one.
LEMMA MovedSelection ==
    ASSUME NEW s \in Selection
    PROVE  /\ Selecting(s)
           /\ \A t, S : Moved(s, t, S)
                 => t \in Selection /\ t.podcast \in Podcasts \cup {NoPodcast}
<1>1. Selecting(s)
  BY DEF Selection, Selecting
<1>2. ASSUME NEW t, NEW S, Moved(s, t, S)
      PROVE  t \in Selection /\ t.podcast \in Podcasts \cup {NoPodcast}
  <2>1. PICK c \in Range(ChannelIds), p \in Podcasts \cup {NoPodcast}, h \in Seq(Podcasts) :
           t = Reselect(s, c, p, h)
    BY <1>2 DEF Moved
  <2>2. c \in Channels
    BY ConfiguredChannel
  <2> QED
    BY <2>1, <2>2 DEF Reselect, Selection
<1> QED
  BY <1>1, <1>2

\* What the operator asks for is a move, whichever it is.
LEMMA MoveMoves ==
    ASSUME TypeOK, Move
    PROVE  Moved(sel, sel', playable)
<1>0. Selecting(sel)
  BY MovedSelection DEF TypeOK
<1>1. CASE Next
  BY <1>0, <1>1, NextPodcastMoves DEF Next
<1>2. CASE Previous
  BY <1>0, <1>2, PreviousPodcastMoves DEF Previous
<1>3. ASSUME NEW offset \in {-1, 1}, ChangeChannel(offset)
      PROVE  Moved(sel, sel', playable)
  BY <1>0, <1>3, OffsetChannelMoves DEF ChangeChannel
<1>4. ASSUME NEW c \in Range(ChannelIds), SelectChannel(c)
      PROVE  Moved(sel, sel', playable)
  BY <1>0, <1>4, EnterChannelMoves DEF SelectChannel
<1>5. ASSUME NEW p \in Podcasts, SelectPodcast(p)
      PROVE  Moved(sel, sel', playable)
  BY <1>0, <1>5, SelectPodcastMoves DEF SelectPodcast
<1> QED
  BY <1>1, <1>2, <1>3, <1>4, <1>5 DEF Move

\* What a selection names are podcasts.
LEMMA HeardTyped ==
    ASSUME NEW s \in Selection
    PROVE  Heard(s) \subseteq Podcasts \cup {NoPodcast}
<1>1. s.previous \in Seq(Podcasts)
  BY DEF Selection
<1>2. \A i \in DOMAIN s.previous : s.previous[i] \in Podcasts
  BY <1>1, ElementOfSeq, LenProperties
<1> QED
  BY <1>2 DEF Heard, Selection, Range

\* The selection and its history variable stay within their types.
THEOREM SelectionTyping == Spec => []TypeOK
<1>1. Init => TypeOK
  <2> SUFFICES ASSUME Init PROVE TypeOK
    OBVIOUS
  <2>1. <<>> \in Seq(Podcasts) /\ Histories(MaxInherited) \subseteq Seq(Podcasts)
    BY StationSelectionAssumption, HistoriesTyped
  <2>2. sel \in Selection
    <3>1. CASE sel = [channel |-> NoChannel, podcast |-> NoPodcast, previous |-> <<>>]
      BY <2>1, <3>1 DEF Selection
    <3>2. CASE sel \in [channel : Channels,
                       podcast : Podcasts \cup {NoPodcast},
                       previous : Histories(MaxInherited)]
      BY <2>1, <3>2 DEF Selection
    <3> QED
      BY <3>1, <3>2 DEF Init
  <2>3. heard \subseteq Podcasts \cup {NoPodcast}
    BY <2>2, HeardTyped DEF Init
  <2> QED
    BY <2>2, <2>3 DEF Init, TypeOK
<1>2. TypeOK /\ [Step]_vars => TypeOK'
  <2> SUFFICES ASSUME TypeOK, [Step]_vars PROVE TypeOK'
    OBVIOUS
  <2>0. sel \in Selection /\ sel.podcast \in Podcasts \cup {NoPodcast}
        /\ heard \subseteq Podcasts \cup {NoPodcast}
    BY DEF TypeOK, Selection
  <2>1. CASE Move
    <3>1. sel' \in Selection /\ sel'.podcast \in Podcasts \cup {NoPodcast}
      BY <2>0, <2>1, MoveMoves, MovedSelection
    <3>2. /\ Activate(sel, playable).podcast \in Podcasts \cup {NoPodcast}
          /\ Heard(sel') \subseteq Podcasts \cup {NoPodcast}
      BY <2>0, <3>1, HeardTyped, MovedSelection, ActivateMoves
    <3>3. heard' \subseteq Podcasts \cup {NoPodcast} /\ UNCHANGED <<shuffle, playable>>
      <4>1. CASE Next
        BY <2>0, <3>1, <3>2, <4>1 DEF Next
      <4>2. CASE Previous
        BY <2>0, <3>1, <3>2, <4>2 DEF Previous
      <4>3. CASE \/ \E offset \in {-1, 1} : ChangeChannel(offset)
                 \/ \E c \in Range(ChannelIds) : SelectChannel(c)
                 \/ \E p \in Podcasts : SelectPodcast(p)
        BY <3>1, <4>3 DEF ChangeChannel, SelectChannel, SelectPodcast
      <4> QED
        BY <2>1, <4>1, <4>2, <4>3 DEF Move
    <3> QED
      BY <3>1, <3>3 DEF TypeOK
  <2>2. CASE \E p \in Podcasts : DownloadArrives(p)
    BY <2>2 DEF DownloadArrives, TypeOK
  <2>3. CASE UNCHANGED vars
    BY <2>3 DEF vars, TypeOK
  <2> QED
    BY <2>1, <2>2, <2>3 DEF Step
<1> QED
  BY <1>1, <1>2, PTL DEF Spec

\* For every configuration, also one that has lost the selected channel or
\* podcast: a move ends on a podcast playable in the channel it ends on, and on
\* none only when that channel has none.
THEOREM MovesArePlayable == Spec => MovesEndPlayable
<1> DEFINE Playably == Move => IF PlayableIn(sel'.channel, playable) = {}
                               THEN sel'.podcast = NoPodcast
                               ELSE sel'.podcast \in PlayableIn(sel'.channel, playable)
<1>1. TypeOK => Playably
  <2> SUFFICES ASSUME TypeOK, Move
               PROVE  EndsOn(sel'.channel, sel'.podcast, playable)
    BY DEF EndsOn
  <2> QED
    BY MoveMoves, MovedSelection, MovedFields DEF TypeOK
<1>2. TypeOK /\ [Step]_vars => [Playably]_vars
  BY <1>1
<1>3. MovesEndPlayable <=> [][Playably]_vars
  BY DEF MovesEndPlayable
<1> HIDE DEF Playably
<1> QED
  BY <1>2, <1>3, SelectionTyping, PTL DEF Spec

-----------------------------------------------------------------------------
(* Going back.                                                             *)

\* After a move within a channel that remembered a playable podcast last,
\* previous_podcast returns to it.
LEMMA BackToRemembered ==
    ASSUME NEW s, Selecting(s), NEW S, s.previous # <<>>,
           s.previous[Len(s.previous)] \in PlayableIn(ActiveChannel(s), S)
    PROVE  PreviousPodcast(s, S).podcast = s.previous[Len(s.previous)]
<1> DEFINE n == Len(s.previous)
           back == {k \in DOMAIN s.previous :
                       s.previous[k] \in PlayableIn(ActiveChannel(s), S)}
<1>1. n \in Nat \ {0} /\ DOMAIN s.previous = 1 .. n
  BY EmptySeq, LenProperties DEF Selecting
<1>2. n \in back
  BY <1>1
<1>3. PlayableIn(ActiveChannel(s), S) # {}
  OBVIOUS
<1>4. /\ Max(back) \in back /\ \A k \in back : k <= Max(back)
      /\ PreviousPodcast(s, S).podcast = s.previous[Max(back)]
  BY <1>2, <1>3, PreviousPodcastMoves
<1>5. Max(back) = n
  <2>1. Max(back) \in 1 .. n /\ n <= Max(back)
    BY <1>1, <1>2, <1>4
  <2> QED
    BY <1>1, <2>1
<1> QED
  BY <1>4, <1>5

\* /previous after /next returns to the podcast /next left, for every channel and
\* history: next remembers it last, and a shuffled channel with nothing else to
\* play stays on it.
THEOREM PreviousIsUndo == Spec => PreviousUndoesNext
<1> DEFINE Undone == Next /\ sel.podcast \in PlayableIn(ActiveChannel(sel), playable)
                     => PreviousPodcast(sel', playable).podcast = sel.podcast
<1>1. TypeOK => Undone
  <2> SUFFICES ASSUME TypeOK, Next, sel.podcast \in PlayableIn(ActiveChannel(sel), playable)
               PROVE  PreviousPodcast(sel', playable).podcast = sel.podcast
    OBVIOUS
  <2> DEFINE a == Activate(sel, playable)
             c == ActiveChannel(sel)
             p == sel.podcast
             S == PlayableIn(c, playable)
  <2>1. Selecting(sel) /\ sel.previous \in Seq(Podcasts)
    BY MovedSelection DEF TypeOK, Selecting
  <2>2. Moved(sel, sel', playable) /\ Selecting(sel')
    BY <2>1, MoveMoves, MovedFields DEF Move
  <2>3. a.podcast = p /\ a.channel = c /\ a.podcast \in S
    BY <2>1, ActivateMoves
  <2>4. c \in Range(ChannelIds) /\ S \subseteq Podcasts /\ PlayableAt(c, playable) # {}
    BY ActiveChannelConfigured, PlayableType
  <2>5. sel' \in NextShuffled(a, playable) \/ sel' = NextInOrder(a, playable)
    BY <2>3, <2>4 DEF Next, NextPodcast
  <2> HIDE DEF a
  <2>6. /\ sel'.channel = c
        /\ \/ S \ {p} = {} /\ sel'.podcast = p /\ sel'.previous = sel.previous
           \/ sel'.previous = Remember(sel.previous, p)
           \/ sel'.previous = <<p>>
    BY <2>1, <2>3, <2>5, NextShuffledMoves, NextInOrderMoves DEF a
  <2>7. ActiveChannel(sel') = c
    BY <2>4, <2>6 DEF ActiveChannel
  <2>8. CASE S \ {p} = {} /\ sel'.podcast = p
    <3> DEFINE t == PreviousPodcast(sel', playable)
    <3>1. t.channel = c /\ EndsOn(t.channel, t.podcast, playable)
      BY <2>2, <2>7, PreviousPodcastMoves, MovedFields
    <3> HIDE DEF t
    <3>2. t.podcast \in S
      BY <2>3, <3>1 DEF EndsOn
    <3> QED
      BY <2>8, <3>2 DEF t
  <2>9. CASE sel'.previous = Remember(sel.previous, p)
    <3>1. sel'.previous # <<>> /\ sel'.previous[Len(sel'.previous)] = p
      <4>1. Len(sel'.previous) # 0 /\ sel'.previous[Len(sel'.previous)] = p
        BY <2>1, <2>4, <2>9, Remembered
      <4>2. Len(<<>>) = 0
        OBVIOUS
      <4> QED
        BY <4>1, <4>2
    <3> QED
      BY <2>2, <2>7, <3>1, BackToRemembered
  <2>10. CASE sel'.previous = <<p>>
    <3>1. sel'.previous # <<>> /\ sel'.previous[Len(sel'.previous)] = p
      BY <2>10
    <3> QED
      BY <2>2, <2>7, <3>1, BackToRemembered
  <2> QED
    BY <2>6, <2>8, <2>9, <2>10
<1>2. TypeOK /\ [Step]_vars => [Undone]_vars
  BY <1>1
<1>3. PreviousUndoesNext <=> [][Undone]_vars
  BY DEF PreviousUndoesNext
<1> HIDE DEF Undone
<1> QED
  BY <1>2, <1>3, SelectionTyping, PTL DEF Spec


-----------------------------------------------------------------------------
(* The rounds of a shuffled channel.                                       *)

\* No podcast is in the history twice.
Distinct(h) == \A i, j \in DOMAIN h : h[i] = h[j] => i = j

(***************************************************************************)
(* OneRound alone is not kept by a step: activation may change the podcast *)
(* and keep the history, which would break the round if it happened to a   *)
(* history that is not empty; it does not, because such a history belongs  *)
(* to a playable selection and nothing stops being playable.  And what has *)
(* been heard has to be what the history names, although moving back       *)
(* shortens it.                                                            *)
(***************************************************************************)
Round ==
    /\ shuffle
    /\ OneRound(sel, playable)
    /\ heard = Heard(sel)

\* A selection with no history begins a round.
LEMMA NewRound ==
    ASSUME NEW s, s.previous = <<>>, NEW S
    PROVE  OneRound(s, S) /\ Heard(s) = {s.podcast}
<1>1. Range(<<>>) = {} /\ DOMAIN <<>> = {}
  BY DEF Range
<1> QED
  BY <1>1 DEF OneRound, Heard

\* Remembering a podcast that is not in the history keeps it free of repetitions.
LEMMA RememberedDistinct ==
    ASSUME NEW h \in Seq(Podcasts), Distinct(h), NEW p \in Podcasts, p \notin Range(h)
    PROVE  Distinct(Remember(h, p))
<1> DEFINE g == Append(h, p)
<1>1. Len(h) \in Nat /\ DOMAIN h = 1 .. Len(h)
  BY LenProperties
<1>2. \A i \in 1 .. Len(h) : h[i] \in Range(h)
  BY <1>1 DEF Range
<1>3. Remember(h, p) = g
  <2>1. h # <<>> => h[Len(h)] # p
    BY <1>1, <1>2, EmptySeq
  <2> QED
    BY <2>1 DEF Remember
<1>4. DOMAIN g = 1 .. Len(h) + 1
      /\ \A i \in 1 .. Len(h) + 1 : g[i] = IF i <= Len(h) THEN h[i] ELSE p
  <2>1. g \in Seq(Podcasts) /\ Len(g) = Len(h) + 1 /\ DOMAIN g = 1 .. Len(h) + 1
    BY LenProperties
  <2> QED
    BY <1>1, <2>1
<1> HIDE DEF g
<1>5. \A i, j \in 1 .. Len(h) + 1 : g[i] = g[j] => i = j
  <2> SUFFICES ASSUME NEW i \in 1 .. Len(h) + 1, NEW j \in 1 .. Len(h) + 1, g[i] = g[j]
               PROVE  i = j
    OBVIOUS
  <2>1. CASE i <= Len(h) /\ j <= Len(h)
    BY <1>1, <1>4, <2>1 DEF Distinct
  <2>2. CASE ~(i <= Len(h) /\ j <= Len(h))
    BY <1>1, <1>2, <1>4, <2>2
  <2> QED
    BY <2>1, <2>2
<1> QED
  BY <1>3, <1>4, <1>5 DEF Distinct

\* Dropping the end of a history without repetitions drops exactly one podcast.
LEMMA WithoutLast ==
    ASSUME NEW h \in Seq(Podcasts), h # <<>>
    PROVE  LET n == Len(h)
               g == SubSeq(h, 1, n - 1)
           IN  /\ n \in Nat \ {0} /\ DOMAIN h = 1 .. n
               /\ g \in Seq(Podcasts) /\ Len(g) = n - 1
               /\ Range(h) = Range(g) \cup {h[n]}
               /\ Distinct(h) => Distinct(g) /\ h[n] \notin Range(g)
<1> DEFINE n == Len(h)
           g == SubSeq(h, 1, n - 1)
<1>1. n \in Nat \ {0} /\ DOMAIN h = 1 .. n
  BY EmptySeq, LenProperties
<1>2. \A i \in 1 .. n : h[i] \in Podcasts
  BY <1>1, ElementOfSeq
<1>3. /\ g \in Seq(Podcasts) /\ Len(g) = n - 1 /\ DOMAIN g = 1 .. n - 1
      /\ \A i \in 1 .. n - 1 : g[i] = h[i]
  BY <1>1, <1>2, SubSeqProperties, LenProperties
<1> HIDE DEF g, n
<1>4. Range(h) = Range(g) \cup {h[n]}
  BY <1>1, <1>3 DEF Range
<1>5. Distinct(h) => Distinct(g) /\ h[n] \notin Range(g)
  BY <1>1, <1>3 DEF Distinct, Range
<1> QED
  BY <1>1, <1>3, <1>4, <1>5 DEF g, n


\* A channel or a podcast that is asked for.
Choice ==
    \/ \E offset \in {-1, 1} : ChangeChannel(offset)
    \/ \E c \in Range(ChannelIds) : SelectChannel(c)
    \/ \E p \in Podcasts : SelectPodcast(p)

LEMMA ChoiceBegins ==
    ASSUME TypeOK, Choice
    PROVE  /\ sel'.previous = <<>> /\ heard' = {sel'.podcast}
           /\ UNCHANGED <<shuffle, playable>>
<1>1. CASE \/ \E offset \in {-1, 1} : ChangeChannel(offset)
           \/ \E k \in Range(ChannelIds) : SelectChannel(k)
  <2>1. \E c, S : sel' = EnterChannel(sel, c, S)
    BY <1>1 DEF ChangeChannel, SelectChannel, OffsetChannel
  <2>2. sel'.previous = <<>>
    BY <2>1 DEF EnterChannel, TypeOK, Selection
  <2> QED
    BY <1>1, <2>2 DEF ChangeChannel, SelectChannel
<1>2. CASE \E p \in Podcasts : SelectPodcast(p)
  <2> DEFINE a == Activate(sel, playable)
  <2>1. Selecting(a)
    BY MovedSelection, ActivateMoves DEF TypeOK
  <2>2. PICK p \in Podcasts : SelectPodcast(p)
    BY <1>2
  <2>3. sel' = [a EXCEPT !.podcast = p, !.previous = <<>>] /\ heard' = {p}
        /\ UNCHANGED <<shuffle, playable>>
    BY <2>2 DEF SelectPodcast
  <2> HIDE DEF a
  <2>4. sel'.podcast = p /\ sel'.previous = <<>>
    BY <2>1, <2>3 DEF Selecting
  <2> QED
    BY <2>3, <2>4
<1> QED
  BY <1>1, <1>2 DEF Choice

\* What OneRound says, with a name for the first part.
LEMMA RoundParts ==
    ASSUME NEW s, NEW S
    PROVE  OneRound(s, S) <=>
              /\ Distinct(s.previous)
              /\ s.podcast \notin Range(s.previous)
              /\ Range(s.previous) \subseteq PlayableIn(ActiveChannel(s), S)
              /\ s.previous # <<>> => s.podcast \in PlayableIn(ActiveChannel(s), S)
BY DEF OneRound, Distinct

\* What /next makes of a selection of a shuffled channel: it is activated, it
\* stays, it is added to the history, or it becomes the history of a new round.
LEMMA NextShuffledCases ==
    ASSUME TypeOK, shuffle, Next
    PROVE  LET c == ActiveChannel(sel)
               p == sel.podcast
               S == PlayableIn(c, playable)
           IN  \/ sel'.previous = <<>> /\ sel'.podcast = NoPodcast /\ S = {}
               \/ /\ p \notin S /\ S # {}
                  /\ sel' = Activate(sel, playable) /\ sel'.previous = sel.previous
                  /\ sel'.podcast # p
               \/ /\ p \in S /\ sel'.podcast \in S /\ ActiveChannel(sel') = c
                  /\ sel'.channel = c
                  /\ \/ S \ {p} = {} /\ sel'.podcast = p /\ sel'.previous = sel.previous
                     \/ /\ sel'.podcast \in S \ (Range(sel.previous) \cup {p})
                        /\ sel'.previous = Remember(sel.previous, p)
                     \/ /\ S \ (Range(sel.previous) \cup {p}) = {}
                        /\ sel'.podcast \in S \ {p} /\ sel'.previous = <<p>>
<1> DEFINE a == Activate(sel, playable)
           c == ActiveChannel(sel)
           p == sel.podcast
           S == PlayableIn(c, playable)
<1>1. Selecting(sel) /\ sel.previous \in Seq(Podcasts)
  BY MovedSelection DEF TypeOK, Selecting
<1>2. Moved(sel, sel', playable)
  BY MoveMoves DEF Move
<1>3. /\ a.channel = c /\ a.previous = sel.previous
      /\ a.podcast = (IF p \in S THEN p ELSE FirstPlayable(c, playable))
  BY <1>1, ActivateMoves
<1>4. c \in Range(ChannelIds) /\ S \subseteq Podcasts
      /\ (S = {} <=> PlayableAt(c, playable) = {})
  BY ActiveChannelConfigured, PlayableType
<1>5. sel' \in NextPodcast(sel, playable, shuffle)
  BY DEF Next
<1> HIDE DEF a
<1>6. CASE S = {}
  <2>1. sel' = NoneSelected(a)
    BY <1>3, <1>4, <1>5, <1>6 DEF NextPodcast, a
  <2> QED
    BY <1>1, <1>3, <1>4, <1>6, <2>1, NoneSelectedMoves DEF a
<1>7. CASE S # {} /\ a.podcast # p
  <2>1. sel' = a
    BY <1>3, <1>4, <1>5, <1>7 DEF NextPodcast, a
  <2> QED
    BY <1>3, <1>7, <2>1 DEF a
<1>8. CASE S # {} /\ a.podcast = p
  <2>1. p \in S /\ p \in Podcasts
    <3>1. a.podcast \in S
      BY <1>1, <1>3, <1>4, <1>8, ActivatePlayable DEF a
    <3> QED
      BY <1>4, <1>8, <3>1
  <2>2. sel' \in NextShuffled(a, playable)
    BY <1>3, <1>4, <1>5, <1>8 DEF NextPodcast, a
  <2>3. sel'.channel = c
    BY <1>1, <1>8, <2>1, <2>2, NextShuffledMoves DEF a
  <2>4. ActiveChannel(sel') = c /\ sel'.podcast \in S
    <3>1. EndsOn(c, sel'.podcast, playable)
      BY <1>1, <1>2, <2>3, MovedFields
    <3> QED
      BY <1>4, <1>8, <2>3, <3>1 DEF ActiveChannel, EndsOn
  <2>5. \/ S \ {p} = {} /\ sel'.podcast = p /\ sel'.previous = sel.previous
        \/ /\ sel'.podcast \in S \ (Range(sel.previous) \cup {p})
           /\ sel'.previous = Remember(sel.previous, p)
        \/ /\ S \ (Range(sel.previous) \cup {p}) = {}
           /\ sel'.podcast \in S \ {p} /\ sel'.previous = <<p>>
    BY <1>1, <1>8, <2>1, <2>2, NextShuffledMoves DEF a
  <2> QED
    BY <2>1, <2>3, <2>4, <2>5
<1> QED
  BY <1>6, <1>7, <1>8

\* /next keeps the history one round: it adds the podcast left to a history that
\* does not have it, or begins a round with it.
LEMMA NextKeepsRound ==
    ASSUME TypeOK, Round, Next
    PROVE  Round'
<1> DEFINE c == ActiveChannel(sel)
           p == sel.podcast
           q == Activate(sel, playable).podcast
           S == PlayableIn(c, playable)
           g == Remember(sel.previous, p)
<1>1. Selecting(sel) /\ sel.previous \in Seq(Podcasts)
  BY MovedSelection DEF TypeOK, Selecting
<1>2. q = IF p \in S THEN p ELSE FirstPlayable(c, playable)
  BY <1>1, ActivateMoves
<1>3. S \subseteq Podcasts /\ (S = {} => FirstPlayable(c, playable) = NoPodcast)
  BY ActiveChannelConfigured, PlayableType, FirstPlayableIn
<1>4. /\ shuffle /\ shuffle' = shuffle /\ playable' = playable
      /\ heard' = IF p # q THEN {sel'.podcast}
                  ELSE IF sel'.podcast \in heard THEN {q, sel'.podcast}
                  ELSE heard \cup {sel'.podcast}
  BY DEF Next, Round
<1>5. /\ Distinct(sel.previous) /\ p \notin Range(sel.previous)
      /\ Range(sel.previous) \subseteq S /\ (sel.previous # <<>> => p \in S)
      /\ heard = Range(sel.previous) \cup {p}
  BY RoundParts DEF Round, Heard
<1>6. sel.previous = <<>> => heard = {p}
  BY NewRound DEF Round
<1>7. ASSUME sel'.previous = <<>>, heard' = {sel'.podcast}
      PROVE  Round'
  BY <1>4, <1>7, NewRound DEF Round
<1> HIDE DEF q
<1>8. CASE sel'.previous = <<>> /\ sel'.podcast = NoPodcast /\ S = {}
  <2>1. q = NoPodcast /\ heard = {p}
    BY <1>2, <1>3, <1>5, <1>6, <1>8
  <2>2. heard' = {sel'.podcast}
    BY <1>4, <1>8, <2>1
  <2> QED
    BY <1>7, <1>8, <2>2
<1>9. CASE p \notin S /\ sel' = Activate(sel, playable) /\ sel'.previous = sel.previous
           /\ sel'.podcast # p
  <2>1. q # p
    BY <1>9 DEF q
  <2> QED
    BY <1>4, <1>5, <1>7, <1>9, <2>1
<1>10. CASE /\ p \in S /\ sel'.podcast \in S /\ ActiveChannel(sel') = c
            /\ \/ S \ {p} = {} /\ sel'.podcast = p /\ sel'.previous = sel.previous
               \/ /\ sel'.podcast \in S \ (Range(sel.previous) \cup {p})
                  /\ sel'.previous = g
               \/ /\ S \ (Range(sel.previous) \cup {p}) = {}
                  /\ sel'.podcast \in S \ {p} /\ sel'.previous = <<p>>
  <2>1. p \in S /\ p \in Podcasts /\ q = p
    BY <1>2, <1>3, <1>10
  <2>2. ASSUME Distinct(sel'.previous), sel'.podcast \notin Range(sel'.previous),
               Range(sel'.previous) \subseteq S, heard' = Range(sel'.previous) \cup {sel'.podcast}
        PROVE  Round'
    <3>1. OneRound(sel', playable)
      BY <1>10, <2>2, RoundParts
    <3> QED
      BY <1>4, <2>2, <3>1 DEF Round, Heard
  <2>3. CASE S \ {p} = {} /\ sel'.podcast = p /\ sel'.previous = sel.previous
    <3>1. Range(sel.previous) = {}
      BY <1>5, <2>3
    <3>2. heard' = {sel'.podcast}
      BY <1>4, <1>5, <2>1, <2>3, <3>1
    <3> QED
      BY <1>5, <2>2, <2>3, <3>1, <3>2
  <2>4. CASE sel'.podcast \in S \ (Range(sel.previous) \cup {p}) /\ sel'.previous = g
    <3>1. Distinct(g) /\ Range(g) = Range(sel.previous) \cup {p}
      BY <1>1, <1>5, <2>1, Remembered, RememberedDistinct
    <3>2. heard' = heard \cup {sel'.podcast}
      BY <1>4, <1>5, <2>1, <2>4
    <3> HIDE DEF g
    <3> QED
      BY <1>5, <2>1, <2>2, <2>4, <3>1, <3>2
  <2>5. CASE /\ S \ (Range(sel.previous) \cup {p}) = {}
             /\ sel'.podcast \in S \ {p} /\ sel'.previous = <<p>>
    <3>1. heard' = {p, sel'.podcast}
      BY <1>4, <1>5, <2>1, <2>5
    <3>2. Distinct(<<p>>) /\ Range(<<p>>) = {p}
      BY DEF Distinct, Range
    <3> QED
      BY <2>1, <2>2, <2>5, <3>1, <3>2
  <2> QED
    BY <1>10, <2>3, <2>4, <2>5
<1> QED
  BY <1>4, <1>8, <1>9, <1>10, NextShuffledCases

\* /previous keeps it one: every podcast of the history can be played, so it goes
\* back by exactly one.
LEMMA PreviousKeepsRound ==
    ASSUME TypeOK, Round, Previous
    PROVE  Round'
<1> DEFINE c == ActiveChannel(sel)
           S == PlayableIn(c, playable)
           h == sel.previous
           n == Len(h)
           back == {k \in DOMAIN h : h[k] \in S}
<1>1. Selecting(sel) /\ h \in Seq(Podcasts)
  BY MovedSelection DEF TypeOK, Selecting
<1>2. shuffle /\ shuffle' = shuffle /\ playable' = playable
  BY DEF Previous, Round
<1>3. /\ sel' = PreviousPodcast(sel, playable)
      /\ heard' = IF Len(sel'.previous) < n
                  THEN (heard \ {sel.podcast}) \cup {sel'.podcast} ELSE {sel'.podcast}
  BY DEF Previous, Round
<1>4. /\ Range(h) \subseteq S /\ (h # <<>> => sel.podcast \in S)
      /\ Distinct(h) /\ sel.podcast \notin Range(h)
      /\ heard = Range(h) \cup {sel.podcast}
  BY RoundParts DEF Round, Heard
<1>5. c \in Range(ChannelIds) /\ sel'.channel = c
  BY <1>1, <1>3, ActiveChannelConfigured, PreviousPodcastMoves
<1>6. ActiveChannel(sel') = c
  BY <1>5 DEF ActiveChannel
<1>7. \/ S = {} /\ sel'.previous = <<>>
      \/ /\ back # {} /\ Max(back) \in back /\ \A k \in back : k <= Max(back)
         /\ sel'.podcast = h[Max(back)]
         /\ sel'.previous = SubSeq(h, 1, Max(back) - 1)
      \/ back = {} /\ sel'.podcast \in S /\ sel'.previous = h
  BY <1>1, <1>3, PreviousPodcastMoves
<1>8. CASE h = <<>>
  <2>1. DOMAIN h = {} /\ n = 0
    BY <1>8
  <2>2. sel'.previous = <<>>
    BY <1>7, <1>8, <2>1
  <2>3. heard' = {sel'.podcast}
    BY <1>3, <2>1, <2>2
  <2> QED
    BY <1>2, <2>2, <2>3, NewRound DEF Round
<1>9. CASE h # <<>>
  <2> DEFINE g == SubSeq(h, 1, n - 1)
  <2>1. /\ n \in Nat \ {0} /\ DOMAIN h = 1 .. n
        /\ g \in Seq(Podcasts) /\ Len(g) = n - 1
        /\ Range(h) = Range(g) \cup {h[n]}
        /\ Distinct(h) => Distinct(g) /\ h[n] \notin Range(g)
    BY <1>1, <1>9, WithoutLast
  <2>2. n \in back /\ S # {}
    <3>1. h[n] \in S
      BY <1>4, <2>1
    <3> QED
      BY <2>1, <3>1
  <2>3. Max(back) \in back /\ \A k \in back : k <= Max(back)
    BY <1>7, <2>2
  <2>4. Max(back) = n
    <3>1. Max(back) \in 1 .. n /\ n <= Max(back)
      BY <2>1, <2>2, <2>3
    <3> QED
      BY <2>1, <3>1
  <2>5. sel'.podcast = h[n] /\ sel'.previous = g
    BY <1>7, <2>2, <2>4
  <2>6. heard' = (heard \ {sel.podcast}) \cup {sel'.podcast}
    BY <1>3, <2>1, <2>5
  <2> HIDE DEF g, n
  <2>7. Range(g) \subseteq S /\ h[n] \in S
    BY <1>4, <2>1
  <2>8. Distinct(g) /\ h[n] \notin Range(g)
    BY <1>4, <2>1
  <2>9. OneRound(sel', playable)
    BY <1>6, <2>5, <2>7, <2>8, RoundParts
  <2>10. heard' = Range(g) \cup {h[n]}
    <3> HIDE DEF h
    <3> QED
      BY <1>4, <2>1, <2>6, <2>5
  <2> QED
    BY <1>2, <2>5, <2>9, <2>10 DEF Round, Heard
<1> QED
  BY <1>8, <1>9

\* So does every other step: a channel or a podcast that is asked for begins a
\* round, and a download takes nothing away.
LEMMA StepKeepsRound ==
    ASSUME TypeOK, Round, [Step]_vars
    PROVE  Round'
<1>1. CASE Next
  BY <1>1, NextKeepsRound
<1>2. CASE Previous
  BY <1>2, PreviousKeepsRound
<1>3. CASE Choice
  BY <1>3, ChoiceBegins, NewRound DEF Round
<1>4. CASE \E p \in Podcasts : DownloadArrives(p)
  <2>1. playable \subseteq playable' /\ UNCHANGED <<shuffle, sel, heard>>
    BY <1>4 DEF DownloadArrives
  <2>2. PlayableIn(ActiveChannel(sel), playable) \subseteq PlayableIn(ActiveChannel(sel), playable')
    BY <2>1 DEF PlayableIn, PlayableAt
  <2>3. OneRound(sel, playable')
    BY <2>2 DEF Round, OneRound
  <2> QED
    BY <2>1, <2>3 DEF Round
<1>5. CASE UNCHANGED vars
  BY <1>5 DEF vars, Round
<1> QED
  BY <1>1, <1>2, <1>3, <1>4, <1>5 DEF Step, Move, Choice

\* The history of a shuffled channel names what has been heard of it.
LEMMA HistoryIsHeard == Spec => [](shuffle => heard = Heard(sel))
<1> DEFINE Known == shuffle => heard = Heard(sel)
<1>1. Init => Known
  BY DEF Init
<1>2. TypeOK /\ Known /\ [Step]_vars => Known'
  <2> SUFFICES ASSUME TypeOK, Known, [Step]_vars, shuffle' PROVE heard' = Heard(sel')
    OBVIOUS
  <2>1. shuffle
    BY DEF Step, Move, vars, Next, Previous, ChangeChannel, SelectChannel, SelectPodcast,
           DownloadArrives
  <2>2. CASE OneRound(sel, playable)
    BY <2>1, <2>2, StepKeepsRound DEF Round
  <2>3. CASE ~OneRound(sel, playable)
    <3>1. CASE Next \/ Previous
      BY <2>3, <3>1 DEF Next, Previous
    <3>2. CASE Choice
      BY <3>2, ChoiceBegins, NewRound
    <3>3. CASE \E p \in Podcasts : DownloadArrives(p)
      BY <2>1, <3>3 DEF DownloadArrives
    <3>4. CASE UNCHANGED vars
      BY <2>1, <3>4 DEF vars
    <3> QED
      BY <3>1, <3>2, <3>3, <3>4 DEF Step, Move, Choice
  <2> QED
    BY <2>2, <2>3
<1> QED
  BY <1>1, <1>2, SelectionTyping, PTL DEF Spec

\* Whatever the history was, a /next that cuts it begins a round.
LEMMA NextBeginsRound ==
    ASSUME TypeOK, shuffle, Next, Len(sel'.previous) < Len(sel.previous)
    PROVE  OneRound(sel', playable')
<1> DEFINE c == ActiveChannel(sel)
           p == sel.podcast
           S == PlayableIn(c, playable)
           g == Remember(sel.previous, p)
<1>0. sel.previous \in Seq(Podcasts) /\ playable' = playable
  BY DEF TypeOK, Selection, Next
<1>1. Len(sel.previous) \in Nat /\ sel'.previous # sel.previous
  BY <1>0, LenProperties
<1>2. CASE sel'.previous = <<>>
  BY <1>0, <1>2, NewRound
<1>3. CASE p \in S /\ sel'.previous = g
  <2>1. p \in Podcasts
    BY <1>3, ActiveChannelConfigured, PlayableType
  <2>2. g = sel.previous \/ g = Append(sel.previous, p)
    BY DEF Remember
  <2>3. Len(Append(sel.previous, p)) = Len(sel.previous) + 1
    BY <1>0, <2>1
  <2> QED
    BY <1>1, <1>3, <2>2, <2>3
<1>4. CASE /\ p \in S /\ ActiveChannel(sel') = c
           /\ sel'.podcast \in S \ {p} /\ sel'.previous = <<p>>
  <2>1. Distinct(<<p>>) /\ Range(<<p>>) = {p}
    BY DEF Distinct, Range
  <2>2. OneRound(sel', playable)
    BY <1>4, <2>1, RoundParts
  <2> QED
    BY <1>0, <2>2
<1> QED
  BY <1>1, <1>2, <1>3, <1>4, NextShuffledCases

\* Distinct podcasts of a channel have distinct positions in it, so a history
\* without the selected podcast and without repetitions is shorter than the channel.
LEMMA RoundFits ==
    ASSUME NEW c \in Range(ChannelIds), NEW h \in Seq(Podcasts), Distinct(h),
           Range(h) \subseteq Configured(c), NEW p \in Configured(c), p \notin Range(h)
    PROVE  Len(h) < Len(PodcastIds[c])
<1> DEFINE n == Len(PodcastIds[c])
           m == Len(h)
           at(i) == IF i <= m THEN h[i] ELSE p
           f == [i \in 1 .. m + 1 |-> PositionOf(c, at(i))]
<1>1. n \in Nat /\ DOMAIN PodcastIds[c] = 1 .. n
  BY ConfiguredChannel
<1>2. m \in Nat /\ DOMAIN h = 1 .. m
  BY LenProperties
<1>3. \A q \in Configured(c) : PositionOf(c, q) \in 1 .. n /\ PodcastIds[c][PositionOf(c, q)] = q
  <2> SUFFICES ASSUME NEW q \in Configured(c)
               PROVE  PositionOf(c, q) \in 1 .. n /\ PodcastIds[c][PositionOf(c, q)] = q
    OBVIOUS
  <2>1. \E i \in DOMAIN PodcastIds[c] : PodcastIds[c][i] = q
    BY DEF Configured, Range
  <2> QED
    BY <1>1, <2>1 DEF PositionOf
<1>4. \A i \in 1 .. m : h[i] \in Range(h)
  BY <1>2 DEF Range
<1>5. \A i \in 1 .. m + 1 : at(i) \in Configured(c)
  BY <1>2, <1>4
<1>6. \A i, j \in 1 .. m + 1 : at(i) = at(j) => i = j
  <2> SUFFICES ASSUME NEW i \in 1 .. m + 1, NEW j \in 1 .. m + 1, at(i) = at(j)
               PROVE  i = j
    OBVIOUS
  <2>1. CASE i <= m /\ j <= m
    BY <1>2, <2>1 DEF Distinct
  <2>2. CASE ~(i <= m /\ j <= m)
    BY <1>2, <1>4, <2>2
  <2> QED
    BY <2>1, <2>2
<1> HIDE DEF at, n, m
<1>7. f \in Injection(1 .. m + 1, 1 .. n)
  <2>1. f \in [1 .. m + 1 -> 1 .. n]
    BY <1>3, <1>5
  <2>2. \A i, j \in 1 .. m + 1 : f[i] = f[j] => i = j
    BY <1>3, <1>5, <1>6
  <2> HIDE DEF f
  <2>3. IsInjective(f)
    BY <2>1, <2>2 DEF IsInjective
  <2> QED
    BY <2>1, <2>3 DEF Injection
<1> HIDE DEF f
<1>8. IsFiniteSet(1 .. n) /\ Cardinality(1 .. n) = n
  BY <1>1, FS_Interval
<1>9. Cardinality(1 .. m + 1) = m + 1
  BY <1>2, FS_Interval
<1>10. m + 1 <= n
  BY <1>7, <1>8, <1>9, FS_Injection
<1> QED
  BY <1>1, <1>2, <1>10 DEF n, m

\* A round is shorter than its channel.
LEMMA RoundFitsChannel ==
    ASSUME NEW s \in Selection, NEW S, OneRound(s, S)
    PROVE  Len(s.previous) < Len(PodcastIds[ActiveChannel(s)])
<1> DEFINE c == ActiveChannel(s)
<1>1. c \in Range(ChannelIds) /\ PlayableIn(c, S) \subseteq Configured(c)
  BY ActiveChannelConfigured, PlayableType
<1>2. s.previous \in Seq(Podcasts)
  BY DEF Selection
<1>3. /\ Distinct(s.previous) /\ s.podcast \notin Range(s.previous)
      /\ Range(s.previous) \subseteq Configured(c)
      /\ (s.previous # <<>> => s.podcast \in Configured(c))
  BY <1>1, RoundParts
<1>4. PodcastIds[c] \in Seq(Podcasts) /\ PodcastIds[c] # <<>>
  BY <1>1, SelectorAssumption
<1> HIDE DEF c
<1>5. CASE s.previous = <<>>
  <2>1. Len(PodcastIds[c]) \in Nat \ {0} /\ Len(s.previous) = 0
    BY <1>4, <1>5, EmptySeq, LenProperties
  <2> QED
    BY <2>1 DEF c
<1>6. CASE s.previous # <<>>
  BY <1>1, <1>2, <1>3, <1>6, RoundFits DEF c
<1> QED
  BY <1>5, <1>6

\* For every configuration, every history an earlier run has left and every
\* sequence of moves and downloads: once the history of a shuffled channel is one
\* round it stays one, so that it names no podcast twice and never outgrows the
\* channel, and a /next that cuts the history begins one.
THEOREM HistoryIsARound == Spec => HistoryIsOneRound
<1> DEFINE Stays == shuffle /\ (OneRound(sel, playable)
                                \/ (Next /\ Len(sel'.previous) < Len(sel.previous)))
                    => /\ OneRound(sel', playable')
                       /\ Len(sel'.previous) < Len(PodcastIds[ActiveChannel(sel')])
           Known == shuffle => heard = Heard(sel)
<1>1. TypeOK /\ TypeOK' /\ Known /\ [Step]_vars => [Stays]_vars
  <2> SUFFICES ASSUME TypeOK, TypeOK', Known, [Step]_vars, shuffle,
                      OneRound(sel, playable) \/ (Next /\ Len(sel'.previous) < Len(sel.previous))
               PROVE  /\ OneRound(sel', playable')
                      /\ Len(sel'.previous) < Len(PodcastIds[ActiveChannel(sel')])
    OBVIOUS
  <2>1. OneRound(sel', playable')
    <3>1. CASE OneRound(sel, playable)
      BY <3>1, StepKeepsRound DEF Round
    <3>2. CASE Next /\ Len(sel'.previous) < Len(sel.previous)
      BY <3>2, NextBeginsRound
    <3> QED
      BY <3>1, <3>2
  <2>2. sel' \in Selection
    BY DEF TypeOK
  <2> QED
    BY <2>1, <2>2, RoundFitsChannel
<1>2. HistoryIsOneRound <=> [][Stays]_vars
  BY DEF HistoryIsOneRound
<1>3. Spec => []Known
  BY HistoryIsHeard
<1> HIDE DEF Stays, Known
<1> QED
  BY <1>1, <1>2, <1>3, SelectionTyping, PTL DEF Spec

\* For every configuration and every sequence of moves and downloads, in a round
\* of a shuffled channel, an inherited one included, /next repeats a podcast only
\* when every playable one of the channel has been selected.
THEOREM RepeatsAreLate == Spec => NoEarlyRepeat
<1> DEFINE Late == Next /\ shuffle /\ OneRound(sel, playable)
                        /\ sel'.podcast # sel.podcast /\ sel'.podcast \in heard
                   => PlayableIn(sel'.channel, playable) \subseteq heard
           Known == shuffle => heard = Heard(sel)
<1>1. TypeOK /\ Known => Late
  <2> SUFFICES ASSUME TypeOK, Known, Next, shuffle, OneRound(sel, playable),
                      sel'.podcast # sel.podcast, sel'.podcast \in heard
               PROVE  PlayableIn(sel'.channel, playable) \subseteq heard
    OBVIOUS
  <2> DEFINE p == sel.podcast
             S == PlayableIn(ActiveChannel(sel), playable)
  <2>1. heard = Range(sel.previous) \cup {p}
    BY DEF Heard
  <2>2. sel.previous # <<>> => p \in S
    BY RoundParts
  <2>3. p \in S
    <3>1. SUFFICES ASSUME p \notin S PROVE FALSE
      OBVIOUS
    <3>2. heard = {p}
      BY <2>2, <3>1, NewRound
    <3> QED
      BY <3>2
  <2>4. /\ sel'.channel = ActiveChannel(sel)
        /\ S \ (Range(sel.previous) \cup {p}) = {}
    BY <2>1, <2>3, NextShuffledCases
  <2> QED
    BY <2>1, <2>4
<1>2. TypeOK /\ Known /\ [Step]_vars => [Late]_vars
  BY <1>1
<1>3. NoEarlyRepeat <=> [][Late]_vars
  BY DEF NoEarlyRepeat
<1>4. Spec => []Known
  BY HistoryIsHeard
<1> HIDE DEF Late, Known
<1> QED
  BY <1>2, <1>3, <1>4, SelectionTyping, PTL DEF Spec

-----------------------------------------------------------------------------
(* Every podcast has its turn.                                             *)

\* What /next makes of a selection without shuffle.
Turn(s) == CHOOSE t \in NextPodcast(s, playable, FALSE) : TRUE

IsTurns(f, n) == f = [k \in 0 .. n |-> IF k = 0 THEN sel ELSE Turn(f[k - 1])]

\* The selection, and those that n times /next leads to.
Turns(n) == CHOOSE f : IsTurns(f, n)

\* How many positions of the cycle lie between i and j.
Ahead(n, i, j) == IF i <= j THEN j - i ELSE n - i + j

\* The recursion is well founded: a least number of turns that could not be
\* taken would follow on one that could.
LEMMA TurnsDefined ==
    ASSUME NEW n \in Nat
    PROVE  /\ Turns(n)[0] = sel
           /\ \A k \in 1 .. n : Turns(n)[k] = Turn(Turns(n)[k - 1])
           /\ IsTurns(Turns(n), n)
<1> DEFINE Bad == {m \in Nat : ~\E f : IsTurns(f, m)}
<1>1. Bad = {}
  <2> SUFFICES ASSUME Bad # {} PROVE FALSE
    OBVIOUS
  <2>1. Bad \in SUBSET Nat
    OBVIOUS
  <2> DEFINE m == Min(Bad)
  <2>2. m \in Bad /\ \A k \in Bad : m <= k
    <3> HIDE DEF Bad
    <3> QED
      BY <2>1, MinIn
  <2> HIDE DEF m
  <2>3. m # 0
    <3> DEFINE f == [k \in 0 .. 0 |-> sel]
    <3>1. IsTurns(f, 0)
      BY DEF IsTurns
    <3> QED
      BY <2>2, <3>1
  <2>4. m - 1 \in Nat /\ m - 1 \notin Bad
    <3>1. m - 1 \in Nat /\ ~(m <= m - 1)
      BY <2>1, <2>2, <2>3
    <3> HIDE DEF Bad
    <3> QED
      BY <2>2, <3>1
  <2>5. PICK f : IsTurns(f, m - 1)
    BY <2>4
  <2> DEFINE g == [k \in 0 .. m |-> IF k < m THEN f[k] ELSE Turn(f[m - 1])]
  <2>6. \A k \in 0 .. m - 1 : f[k] = IF k = 0 THEN sel ELSE Turn(f[k - 1])
    BY <2>5 DEF IsTurns
  <2>a. m \in Nat /\ m # 0
    BY <2>1, <2>2, <2>3
  <2>b. \A k \in 0 .. m : g[k] = IF k < m THEN f[k] ELSE Turn(f[m - 1])
    OBVIOUS
  <2>7. \A k \in 0 .. m : g[k] = IF k = 0 THEN sel ELSE Turn(g[k - 1])
    <3> HIDE DEF g
    <3> TAKE k \in 0 .. m
    <3>0. k \in Int /\ m \in Int
      BY <2>a
    <3>1. CASE k = 0
      <4>1. 0 \in 0 .. m /\ 0 < m /\ 0 \in 0 .. m - 1
        BY <2>a
      <4> QED
        BY <2>b, <2>6, <3>1, <4>1
    <3>2. CASE k # 0
      <4>1. k - 1 \in 0 .. m /\ k - 1 < m
        BY <2>a, <3>2
      <4>2. g[k - 1] = f[k - 1]
        BY <2>b, <4>1
      <4>3. CASE k = m
        <5>1. m \in 0 .. m /\ ~(m < m)
          BY <2>a
        <5>2. g[m] = Turn(f[m - 1])
          BY <2>b, <5>1
        <5> QED
          BY <3>2, <4>2, <4>3, <5>2
      <4>4. CASE k # m
        <5>1. k < m /\ k \in 0 .. m - 1
          BY <2>a, <4>4
        <5>2. g[k] = f[k]
          BY <2>b, <5>1
        <5>3. f[k] = Turn(f[k - 1])
          BY <2>6, <3>2, <5>1
        <5> QED
          BY <3>2, <4>2, <5>2, <5>3
      <4> QED
        BY <4>3, <4>4
    <3> QED
      BY <3>1, <3>2
  <2>8. IsTurns(g, m)
    BY <2>7 DEF IsTurns
  <2> QED
    BY <2>2, <2>8
<1>2. IsTurns(Turns(n), n)
  BY <1>1 DEF Turns
<1> DEFINE f == Turns(n)
<1> HIDE DEF f
<1>3. f = [k \in 0 .. n |-> IF k = 0 THEN sel ELSE Turn(f[k - 1])]
  BY <1>2 DEF IsTurns, f
<1>4. f[0] = sel /\ \A k \in 1 .. n : f[k] = Turn(f[k - 1])
  BY <1>3
<1> QED
  BY <1>2, <1>4 DEF f

\* The playable position that follows is nearer to every other one.
LEMMA FollowingNearer ==
    ASSUME NEW n \in Nat, NEW S \in SUBSET (1 .. n), NEW i \in S, NEW j \in S, i # j
    PROVE  /\ Following(i, S) \in S
           /\ Ahead(n, Following(i, S), j) < Ahead(n, i, j)
<1> DEFINE later == {k \in S : k > i}
           up == IF later = {} THEN S ELSE later
           f == Following(i, S)
<1>1. i \in 1 .. n /\ j \in 1 .. n /\ S \in SUBSET Nat /\ later \in SUBSET Nat
  <2>1. \A k \in S : k \in 1 .. n /\ k \in Nat
    OBVIOUS
  <2>2. S \subseteq Nat /\ later \subseteq S
    BY <2>1
  <2> QED
    BY <2>1, <2>2
<1>2. f = Min(up)
  BY DEF Following
<1> HIDE DEF f
<1>3. CASE later = {}
  <2>1. f \in S /\ f <= j
    BY <1>1, <1>2, <1>3, MinIn
  <2>2. j < i
    BY <1>1, <1>3
  <2>3. f \in 1 .. n
    BY <2>1
  <2> QED
    BY <1>1, <2>1, <2>2, <2>3 DEF Ahead, f
<1>4. CASE later # {}
  <2>1. f \in later /\ \A k \in later : f <= k
    <3>1. f = Min(later)
      BY <1>2, <1>4
    <3> HIDE DEF later
    <3> QED
      BY <1>1, <1>4, <3>1, MinIn
  <2>2. f \in S /\ f \in 1 .. n /\ i < f /\ (i < j => f <= j)
    BY <2>1
  <2>3. Ahead(n, f, j) < Ahead(n, i, j)
    BY <1>1, <2>2 DEF Ahead
  <2> QED
    BY <2>2, <2>3 DEF f
<1> QED
  BY <1>3, <1>4

\* One turn from a playable podcast leads to the one that follows.
LEMMA TurnFollows ==
    ASSUME NEW s, Selecting(s), NEW i \in PlayableAt(ActiveChannel(s), playable),
           s.podcast = PodcastIds[ActiveChannel(s)][i]
    PROVE  LET c == ActiveChannel(s) IN
           /\ Selecting(Turn(s)) /\ ActiveChannel(Turn(s)) = c
           /\ Turn(s).podcast = PodcastIds[c][Following(i, PlayableAt(c, playable))]
<1> DEFINE c == ActiveChannel(s)
           S == PlayableAt(c, playable)
           a == Activate(s, playable)
           t == NextInOrder(a, playable)
<1>1. c \in Range(ChannelIds) /\ i \in DOMAIN PodcastIds[c]
  BY ActiveChannelConfigured DEF PlayableAt
<1>2. s.podcast \in PlayableIn(c, playable)
  BY DEF PlayableIn
<1>3. a.podcast = s.podcast /\ a.channel = c /\ Selecting(a)
  BY <1>2, ActivateMoves
<1>4. PositionOf(c, a.podcast) = i
  <2>1. \A k \in DOMAIN PodcastIds[c] : PodcastIds[c][k] = PodcastIds[c][i] => k = i
    BY <1>1, SelectorAssumption
  <2> QED
    BY <1>1, <1>3, <2>1 DEF PositionOf
<1>5. Moved(s, t, playable) /\ t.channel = c
  BY <1>2, <1>3, NextInOrderMoves
<1>6. Selecting(t) /\ ActiveChannel(t) = c
  <2>1. Selecting(t)
    BY <1>5, MovedFields
  <2> QED
    BY <1>1, <1>5, <2>1 DEF ActiveChannel
<1> HIDE DEF a, c
<1>7. t.podcast = PodcastIds[c][Following(i, S)]
  BY <1>3, <1>4 DEF NextInOrder, Selecting
<1>8. NextPodcast(s, playable, FALSE) = {t}
  BY <1>2, <1>3 DEF NextPodcast, a, PlayableIn
<1>9. Turn(s) = t
  BY <1>8 DEF Turn
<1> QED
  BY <1>6, <1>7, <1>9 DEF c

\* One turn from anything else leads to the first playable podcast.
LEMMA TurnEnters ==
    ASSUME NEW s, Selecting(s), PlayableAt(ActiveChannel(s), playable) # {},
           s.podcast \notin PlayableIn(ActiveChannel(s), playable)
    PROVE  LET c == ActiveChannel(s) IN
           /\ Selecting(Turn(s)) /\ ActiveChannel(Turn(s)) = c
           /\ Turn(s).podcast = PodcastIds[c][Min(PlayableAt(c, playable))]
<1> DEFINE c == ActiveChannel(s)
           a == Activate(s, playable)
<1>1. c \in Range(ChannelIds)
  BY ActiveChannelConfigured
<1>2. a.podcast = FirstPlayable(c, playable) /\ a.channel = c /\ Selecting(a)
  BY ActivateMoves
<1>3. a.podcast \in PlayableIn(c, playable)
  BY <1>2, ActivatePlayable
<1>4. a.podcast = PodcastIds[c][Min(PlayableAt(c, playable))]
  BY <1>2 DEF FirstPlayable
<1>5. NextPodcast(s, playable, FALSE) = {a}
  BY <1>2, <1>3 DEF NextPodcast
<1>6. Turn(s) = a
  BY <1>5 DEF Turn
<1>7. ActiveChannel(a) = c
  BY <1>1, <1>2 DEF ActiveChannel
<1> QED
  BY <1>2, <1>4, <1>6, <1>7

\* From a playable position every other one is reached in as many turns as there
\* are positions between them, or fewer.
LEMMA TurnsReach ==
    ASSUME NEW n \in Nat, NEW c \in Range(ChannelIds),
           NEW k0 \in 0 .. n, Selecting(Turns(n)[k0]), ActiveChannel(Turns(n)[k0]) = c,
           NEW i0 \in PlayableAt(c, playable), Turns(n)[k0].podcast = PodcastIds[c][i0],
           NEW j \in PlayableAt(c, playable),
           k0 + Ahead(Len(PodcastIds[c]), i0, j) <= n
    PROVE  \E k \in 0 .. n : Turns(n)[k].podcast = PodcastIds[c][j]
<1> SUFFICES ASSUME \A k \in 0 .. n : Turns(n)[k].podcast # PodcastIds[c][j] PROVE FALSE
  OBVIOUS
<1> DEFINE l == Len(PodcastIds[c])
           S == PlayableAt(c, playable)
           d == Ahead(l, i0, j)
           s(k) == Turns(n)[k0 + k]
           P(k) == \E i \in S : /\ Selecting(s(k)) /\ ActiveChannel(s(k)) = c
                                /\ s(k).podcast = PodcastIds[c][i]
                                /\ Ahead(l, i, j) + k <= d
           Bad == {k \in 0 .. d : ~P(k)}
<1>1. l \in Nat /\ S \in SUBSET (1 .. l)
  BY ConfiguredChannel, PlayableType
<1>2. \A i \in S : Ahead(l, i, j) \in Nat /\ (Ahead(l, i, j) = 0 => i = j)
  BY <1>1 DEF Ahead
<1>3. d \in Nat /\ k0 + d <= n
  BY <1>2
<1> HIDE DEF l, S, d
<1>4. P(0)
  BY <1>3 DEF d, S
<1>5. ASSUME NEW k \in 0 .. d - 1, P(k) PROVE P(k + 1)
  <2>1. PICK i \in S : /\ Selecting(s(k)) /\ ActiveChannel(s(k)) = c
                       /\ s(k).podcast = PodcastIds[c][i]
                       /\ Ahead(l, i, j) + k <= d
    BY <1>5
  <2>2. k0 + k \in 0 .. n /\ k0 + (k + 1) \in 1 .. n /\ k0 + (k + 1) - 1 = k0 + k
    BY <1>3
  <2>3. i # j
    BY <2>1, <2>2
  <2>4. s(k + 1) = Turn(s(k))
    BY <2>2, TurnsDefined
  <2> DEFINE f == Following(i, S)
  <2>5. f \in S /\ Ahead(l, f, j) < Ahead(l, i, j)
    BY <1>1, <2>3, FollowingNearer DEF S
  <2>6. /\ Selecting(Turn(s(k))) /\ ActiveChannel(Turn(s(k))) = c
        /\ Turn(s(k)).podcast = PodcastIds[c][f]
    BY <2>1, TurnFollows DEF S
  <2>7. Ahead(l, f, j) + (k + 1) <= d
    BY <1>2, <1>3, <2>1, <2>5
  <2> HIDE DEF f, s
  <2> QED
    BY <2>4, <2>5, <2>6, <2>7
<1> HIDE DEF P
<1>6. Bad = {}
  <2> SUFFICES ASSUME Bad # {} PROVE FALSE
    OBVIOUS
  <2>1. Bad \in SUBSET Nat
    BY <1>3
  <2> DEFINE m == Min(Bad)
  <2>2. m \in Bad /\ \A k \in Bad : m <= k
    <3> HIDE DEF Bad
    <3> QED
      BY <2>1, MinIn
  <2> HIDE DEF m
  <2>3. m \in 0 .. d /\ ~P(m) /\ m # 0
    BY <1>4, <2>2
  <2>4. m - 1 \in 0 .. d - 1 /\ m - 1 \in 0 .. d /\ ~(m <= m - 1) /\ (m - 1) + 1 = m
    BY <1>3, <2>3
  <2>5. m - 1 \notin Bad
    <3> HIDE DEF Bad
    <3> QED
      BY <2>2, <2>4
  <2>6. P(m - 1)
    BY <2>4, <2>5
  <2>7. P((m - 1) + 1)
    BY <1>5, <2>4, <2>6
  <2> QED
    BY <2>3, <2>4, <2>7
<1>7. P(d)
  BY <1>3, <1>6
<1>8. PICK i \in S : s(d).podcast = PodcastIds[c][i] /\ Ahead(l, i, j) + d <= d
  BY <1>7 DEF P
<1>9. i = j
  BY <1>2, <1>3, <1>8
<1>10. k0 + d \in 0 .. n
  BY <1>3
<1> QED
  BY <1>8, <1>9, <1>10

\* Without shuffle, /next asked as often as the channel has podcasts reaches
\* every playable one, from any selection, in any configuration, whatever was
\* downloaded.
THEOREM EveryTurnComes == Spec => []EveryPodcastHasItsTurn
<1>1. TypeOK => EveryPodcastHasItsTurn
  <2> SUFFICES ASSUME TypeOK PROVE EveryPodcastHasItsTurn
    OBVIOUS
  <2> DEFINE c == ActiveChannel(sel)
             n == Len(PodcastIds[c])
             S == PlayableAt(c, playable)
  <2>1. c \in Range(ChannelIds) /\ n \in Nat \ {0} /\ S \in SUBSET (1 .. n) /\ S \in SUBSET Nat
    BY ActiveChannelConfigured, ConfiguredChannel, PlayableType
  <2>2. Selecting(sel)
    BY MovedSelection DEF TypeOK
  <2>3. Turns(n)[0] = sel /\ Turns(n)[1] = Turn(sel)
    BY <2>1, TurnsDefined
  <2>4. ASSUME NEW j \in S PROVE \E k \in 0 .. n : Turns(n)[k].podcast = PodcastIds[c][j]
    <3>1. CASE sel.podcast \in PlayableIn(c, playable)
      <4>1. PICK i \in S : sel.podcast = PodcastIds[c][i]
        BY <3>1 DEF PlayableIn
      <4>2. 0 + Ahead(n, i, j) <= n
        BY <2>1 DEF Ahead
      <4> HIDE DEF c, S
      <4> QED
        BY <2>1, <2>2, <2>3, <4>1, <4>2, TurnsReach DEF c, S
    <3>2. CASE sel.podcast \notin PlayableIn(c, playable)
      <4> DEFINE i == Min(S)
      <4>1. i \in S /\ i <= j
        BY <2>1, MinIn
      <4>2. Selecting(Turn(sel)) /\ ActiveChannel(Turn(sel)) = c /\ Turn(sel).podcast = PodcastIds[c][i]
        BY <2>2, <3>2, TurnEnters
      <4> HIDE DEF i
      <4>3. 1 + Ahead(n, i, j) <= n /\ 1 \in 0 .. n
        BY <2>1, <4>1 DEF Ahead
      <4> HIDE DEF c, S, n
      <4> QED
        BY <2>1, <2>3, <4>1, <4>2, <4>3, TurnsReach DEF S, n
    <3> QED
      BY <3>1, <3>2
  <2> DEFINE after == CHOOSE f : f = [k \in 0 .. n |-> IF k = 0 THEN sel
                                      ELSE CHOOSE s \in NextPodcast(f[k - 1], playable, FALSE) : TRUE]
  <2>5. after = Turns(n)
    BY DEF Turns, IsTurns, Turn
  <2>6. DOMAIN Turns(n) = 0 .. n
    <3>1. IsTurns(Turns(n), n)
      BY <2>1, TurnsDefined
    <3> QED
      BY <3>1 DEF IsTurns
  <2> HIDE DEF after
  <2>7. PlayableIn(c, playable) \subseteq {after[k].podcast : k \in DOMAIN after}
    BY <2>4, <2>5, <2>6 DEF PlayableIn
  <2> QED
    BY <2>7 DEF EveryPodcastHasItsTurn, after
<1> QED
  BY <1>1, SelectionTyping, PTL
=============================================================================
