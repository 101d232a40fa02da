------------------------ MODULE FeedAgreementProofs ------------------------
(***************************************************************************)
(* Theorems about FeedRefresh, of the podcasts whose feed has always come  *)
(* whole: downloads.json never goes back, and a refresh that has run to    *)
(* its end leaves metadata and media that agree and, in the parser's       *)
(* order, the newest episodes.                                             *)
(***************************************************************************)
EXTENDS FeedRefreshProofs

\* The episode that the parser finds in a publisher's whole feed.
LatestOf(s) == LatestEpisode(Served(s, EpisodesAt(s)))

\* A publisher numbers its posts in the order it publishes them.
Numbered(s) ==
    /\ \A i \in DOMAIN s : s[i].number <= Len(s)
    /\ \A i, j \in DOMAIN s : s[i].number = s[j].number => i = j

Episode(s, n) == \E i \in EpisodesAt(s) : s[i].number = n

\* The parser's order on the episodes of a feed, and none before them all.
NotNewer(s, m, n) ==
    m = None \/ (Episode(s, m) /\ Episode(s, n) /\ ~Older(s, n, m))

\* What may be said of an episode that was kept, some time ago: the parser has
\* found none older since, and if it is what the parser finds, its file is there.
\* The parser never again finds an episode that it does not find now.
Current(p, d) ==
    /\ NotNewer(posts[p], d, LatestOf(posts[p]))
    /\ d = LatestOf(posts[p]) /\ d # None => Stored(p, d) \in files

\* None of the episodes posted when the refresh began is newer.
AnswersTheRequest(p, d) ==
    \A n \in Nat : Episode(posts[p], n) /\ n <= asked[p] => NotNewer(posts[p], n, d)

\* What ok in feeds.json stands for.
Vouched(p, feed, d) ==
    feed.status = "ok" =>
        feed.episode = d /\ Stored(p, d) \in files /\ AnswersTheRequest(p, d)

\* The podcasts that a worker has been through.
Through(w) == IF w.at \in {"save_feeds", "save_downloads"} THEN w.i ELSE w.i - 1

\* A worker's copy of downloads.json is at least as new as the file, what it
\* has entered as ok is so, and what it downloads is newer than what it has.
WorkerAgrees(w) ==
    /\ w.at \in {"idle", "starting"} => w.i = 1
    /\ w.at \notin {"idle", "starting"} =>
          /\ \A p \in Podcasts \ cut :
                NotNewer(posts[p], downloads[p], w.downloads[p]) /\ Current(p, w.downloads[p])
          /\ \A j \in DOMAIN PodcastIds : j <= Through(w) /\ PodcastIds[j] \notin cut =>
                Vouched(PodcastIds[j], w.feeds[PodcastIds[j]], w.downloads[PodcastIds[j]])
    /\ w.at \in {"download", "remove"} /\ PodcastOf(w) \notin cut =>
          /\ NotNewer(posts[PodcastOf(w)], w.downloads[PodcastOf(w)], w.episode)
          /\ NotNewer(posts[PodcastOf(w)], w.episode, LatestOf(posts[PodcastOf(w)]))
          /\ AnswersTheRequest(PodcastOf(w), w.episode)
    /\ w.at = "save_downloads" => feeds = w.feeds

WorldAgrees ==
    \A p \in Podcasts :
        /\ Numbered(posts[p]) /\ asked[p] <= Len(posts[p])
        /\ p \notin cut => Current(p, downloads[p])

\* The properties are not inductive: what a finished refresh leaves was the
\* copy of a worker, made podcast by podcast, and a worker takes a download for
\* the episode it finds without looking for the file.
AgreeInv ==
    /\ WorldAgrees
    /\ \A t \in Workers : WorkerAgrees(worker[t])
    /\ FinishedRefresh => \A p \in Podcasts \ cut : Vouched(p, feeds[p], downloads[p])

-----------------------------------------------------------------------------
(* What the parser finds in a publisher's feed.                            *)

LEMMA Pair ==
    ASSUME NEW S, NEW a \in S, NEW b \in S
    PROVE  LET s == <<a>> \o (<<b>> \o <<>>) IN
           Len(<<a>>) = 1 /\ DOMAIN s = 1 .. 2 /\ s[1] = a /\ s[2] = b
<1>1. <<a>> \in Seq(S) /\ <<b>> \in Seq(S) /\ <<>> \in Seq(S)
  OBVIOUS
<1> QED
  BY <1>1

LEMMA Triple ==
    ASSUME NEW S, NEW a \in S, NEW b \in S, NEW c \in S
    PROVE  LET s == <<a>> \o (<<b>> \o <<c>>) IN
           Len(<<a>>) = 1 /\ DOMAIN s = 1 .. 3 /\ s[1] = a /\ s[2] = b /\ s[3] = c
<1>1. <<a>> \in Seq(S) /\ <<b>> \in Seq(S) /\ <<c>> \in Seq(S)
  OBVIOUS
<1> QED
  BY <1>1

\* A date among two fields is found, whichever of the two it is in.
LEMMA OneDate ==
    ASSUME NEW date \in Nat, NEW entry,
           entry.dates = <<None, date>> \/ entry.dates = <<date, None>>
    PROVE  PublishedAt(entry) = date
<1> DEFINE R == {i \in DOMAIN entry.dates : entry.dates[i] # None}
<1>1. Min({1}) = 1 /\ Min({2}) = 2
  BY MinIn
<1>2. CASE date = None
  <2>1. R = {}
    BY <1>2
  <2> QED
    BY <1>2, <2>1 DEF PublishedAt
<1>3. CASE date # None /\ entry.dates = <<None, date>>
  <2>1. R = {2} /\ entry.dates[2] = date
    BY <1>3 DEF None
  <2> QED
    BY <1>1, <2>1 DEF PublishedAt
<1>4. CASE date # None /\ entry.dates = <<date, None>>
  <2>1. R = {1} /\ entry.dates[1] = date
    BY <1>4 DEF None
  <2> QED
    BY <1>1, <2>1 DEF PublishedAt
<1> QED
  BY <1>2, <1>3, <1>4

LEMMA EntryOfPost ==
    ASSUME NEW post \in Posts
    PROVE  /\ Playable(EntryOf(post)) <=> post.kind # "video"
           /\ post.kind # "video" => Identity(EntryOf(post)) = post.number
           /\ post.kind # "video" => PublishedAt(EntryOf(post)) = post.date
<1> DEFINE audio == [supported |-> TRUE, url |-> post.number]
           video == [supported |-> FALSE, url |-> post.number]
           page == [supported |-> TRUE, url |-> post.number + 1, enclosure |-> FALSE]
           link == [supported |-> TRUE, url |-> post.number, enclosure |-> TRUE]
           entry == EntryOf(post)
<1>1. post.number \in Nat /\ post.number # None /\ post.kind \in PostKinds /\ post.date \in Nat
  BY DEF Posts, None
<1>2. CASE post.kind = "linked"
  <2>1. /\ entry.enclosures = <<video>> /\ entry.links = <<page>> \o <<link>>
        /\ entry.guid = None /\ entry.dates = <<None, post.date>>
    BY <1>2 DEF EntryOf
  <2> HIDE DEF entry, audio, video, page, link
  <2>2. /\ Len(entry.enclosures) = 1 /\ DOMAIN Listed(entry) = 1 .. 3
        /\ Listed(entry)[1] = video /\ Listed(entry)[2] = page /\ Listed(entry)[3] = link
    BY <2>1, Triple DEF Listed
  <2>3. SupportedAt(entry) = {3}
    BY <2>2 DEF SupportedAt, audio, video, page, link
  <2>4. Min({3}) = 3
    BY MinIn
  <2>5. MediaUrl(entry) = post.number
    BY <2>2, <2>3, <2>4 DEF MediaUrl, audio, link
  <2>6. PublishedAt(entry) = post.date
    BY <1>1, <2>1, OneDate
  <2> QED
    BY <1>1, <1>2, <2>1, <2>3, <2>5, <2>6 DEF Playable, Identity, entry
<1>3. CASE post.kind = "enclosed"
  <2>1. /\ entry.enclosures = <<audio>> /\ entry.links = <<page>> \o <<>>
        /\ entry.guid = post.number /\ entry.dates = <<post.date, None>>
    BY <1>3 DEF EntryOf
  <2> HIDE DEF entry, audio, video, page, link
  <2>2. /\ Len(entry.enclosures) = 1 /\ DOMAIN Listed(entry) = 1 .. 2
        /\ Listed(entry)[1] = audio /\ Listed(entry)[2] = page
    BY <2>1, Pair DEF Listed
  <2>3. SupportedAt(entry) = {1}
    BY <2>2 DEF SupportedAt, audio, video, page, link
  <2>4. Min({1}) = 1
    BY MinIn
  <2>5. MediaUrl(entry) = post.number
    BY <2>2, <2>3, <2>4 DEF MediaUrl, audio, link
  <2>6. PublishedAt(entry) = post.date
    BY <1>1, <2>1, OneDate
  <2> QED
    BY <1>1, <1>3, <2>1, <2>3, <2>5, <2>6 DEF Playable, Identity, entry
<1>4. CASE post.kind = "video"
  <2>1. entry.enclosures = <<video>> /\ entry.links = <<page>> \o <<>>
    BY <1>4 DEF EntryOf
  <2> HIDE DEF entry, audio, video, page, link
  <2>2. /\ Len(entry.enclosures) = 1 /\ DOMAIN Listed(entry) = 1 .. 2
        /\ Listed(entry)[1] = video /\ Listed(entry)[2] = page
    BY <2>1, Pair DEF Listed
  <2>3. SupportedAt(entry) = {}
    BY <2>2 DEF SupportedAt, audio, video, page, link
  <2> QED
    BY <1>4, <2>3 DEF Playable, entry
<1> QED
  BY <1>1, <1>2, <1>3, <1>4 DEF PostKinds

\* What there is at a place of a feed.
LEMMA PostAt ==
    ASSUME NEW s \in Seq(Posts)
    PROVE  /\ Len(s) \in Nat /\ DOMAIN s = 1 .. Len(s)
           /\ \A i \in DOMAIN s : /\ s[i] \in Posts /\ s[i].number \in Nat \ {0}
                                  /\ s[i].date \in Nat /\ i \in Nat
           /\ EpisodesAt(s) = {i \in DOMAIN s : s[i].kind # "video"}
<1>1. Len(s) \in Nat /\ DOMAIN s = 1 .. Len(s)
  BY LenProperties
<1>2. \A i \in DOMAIN s : s[i] \in Posts
  BY <1>1, ElementOfSeq
<1> QED
  BY <1>1, <1>2 DEF Posts, EpisodesAt

-----------------------------------------------------------------------------
(* The parser's order.                                                     *)

\* The order of two episodes is that of their dates, and of their places if they
\* have one date.
LEMMA OlderAt ==
    ASSUME NEW s \in Seq(Posts), Numbered(s), NEW i \in EpisodesAt(s), NEW j \in EpisodesAt(s)
    PROVE  Older(s, s[i].number, s[j].number)
              <=> s[i].date < s[j].date \/ (s[i].date = s[j].date /\ j < i)
<1>1. \A k, l \in EpisodesAt(s) : s[k].number = s[l].number => k = l
  BY PostAt DEF Numbered
<1> QED
  BY <1>1 DEF Older

\* The order is linear on the episodes of a feed.
LEMMA OrderFacts ==
    ASSUME NEW s \in Seq(Posts), Numbered(s)
    PROVE  /\ ~Episode(s, None)
           /\ \A n : Episode(s, n) => NotNewer(s, n, n) /\ n \in Nat /\ n <= Len(s)
           /\ \A m, n : NotNewer(s, m, n) /\ NotNewer(s, n, m) => m = n
           /\ \A l, m, n : NotNewer(s, l, m) /\ NotNewer(s, m, n) => NotNewer(s, l, n)
<1>1. \A i \in EpisodesAt(s) : i \in Nat /\ s[i].number \in Nat \ {0} /\ s[i].date \in Nat
                              /\ s[i].number <= Len(s)
  BY PostAt DEF Numbered
<1>2. ~Episode(s, None)
  BY <1>1 DEF Episode, None
<1>3. ASSUME NEW n, Episode(s, n) PROVE NotNewer(s, n, n) /\ n \in Nat /\ n <= Len(s)
  <2>1. PICK i \in EpisodesAt(s) : s[i].number = n
    BY <1>3 DEF Episode
  <2>2. ~Older(s, n, n)
    BY <1>1, <2>1, OlderAt
  <2> QED
    BY <1>1, <1>3, <2>1, <2>2 DEF NotNewer
<1>4. ASSUME NEW m, NEW n, NotNewer(s, m, n), NotNewer(s, n, m) PROVE m = n
  <2>1. CASE m = None \/ n = None
    BY <1>2, <1>4, <2>1 DEF NotNewer
  <2>2. CASE m # None /\ n # None
    <3>1. Episode(s, m) /\ Episode(s, n) /\ ~Older(s, m, n) /\ ~Older(s, n, m)
      BY <1>4, <2>2 DEF NotNewer
    <3>2. PICK i \in EpisodesAt(s), j \in EpisodesAt(s) : s[i].number = m /\ s[j].number = n
      BY <3>1 DEF Episode
    <3>3. ~(s[i].date < s[j].date \/ (s[i].date = s[j].date /\ j < i))
          /\ ~(s[j].date < s[i].date \/ (s[j].date = s[i].date /\ i < j))
      BY <3>1, <3>2, OlderAt
    <3>4. i = j
      BY <1>1, <3>3
    <3> QED
      BY <3>2, <3>4
  <2> QED
    BY <2>1, <2>2
<1>5. ASSUME NEW l, NEW m, NEW n, NotNewer(s, l, m), NotNewer(s, m, n) PROVE NotNewer(s, l, n)
  <2>1. CASE l = None
    BY <2>1 DEF NotNewer
  <2>2. CASE l # None
    <3>1. m # None
      BY <1>2, <1>5, <2>2 DEF NotNewer
    <3>2. Episode(s, l) /\ Episode(s, m) /\ Episode(s, n) /\ ~Older(s, m, l) /\ ~Older(s, n, m)
      BY <1>5, <2>2, <3>1 DEF NotNewer
    <3>3. PICK i \in EpisodesAt(s), j \in EpisodesAt(s), k \in EpisodesAt(s) :
             s[i].number = l /\ s[j].number = m /\ s[k].number = n
      BY <3>2 DEF Episode
    <3>4. ~(s[j].date < s[i].date \/ (s[j].date = s[i].date /\ i < j))
          /\ ~(s[k].date < s[j].date \/ (s[k].date = s[j].date /\ j < k))
      BY <3>2, <3>3, OlderAt
    <3>5. ~(s[k].date < s[i].date \/ (s[k].date = s[i].date /\ i < k))
      BY <1>1, <3>4
    <3>6. ~Older(s, n, l)
      BY <3>3, <3>5, OlderAt
    <3> QED
      BY <3>2, <3>6 DEF NotNewer
  <2> QED
    BY <2>1, <2>2
<1> QED
  BY <1>2, <1>3, <1>4, <1>5

\* In a whole feed the parser finds an episode that no other is newer than, and
\* none in a feed without episodes.
LEMMA LatestFound ==
    ASSUME NEW s \in Seq(Posts), Numbered(s)
    PROVE  /\ LatestOf(s) \in Nat
           /\ LatestOf(s) = None \/ Episode(s, LatestOf(s))
           /\ \A n : Episode(s, n) => NotNewer(s, n, LatestOf(s))
<1> DEFINE S == EpisodesAt(s)
           q == Served(s, S)
           C == Candidates(q)
<1>1. q \in Seq(Entries) /\ DOMAIN q = DOMAIN s
      /\ \A i \in DOMAIN s : q[i] = EntryOf(Arrived(s, S, i))
  BY ServedTyped
<1>2. S = {i \in DOMAIN s : s[i].kind # "video"}
  BY PostAt
<1> HIDE DEF q, S
<1>3. ASSUME NEW i \in DOMAIN s
      PROVE  /\ Playable(q[i]) <=> i \in S
             /\ i \in S => Identity(q[i]) = s[i].number /\ PublishedAt(q[i]) = s[i].date
  <2> DEFINE post == Arrived(s, S, i)
  <2>1. post \in Posts /\ (post.kind # "video" <=> i \in S)
        /\ post.number = s[i].number /\ post.date = s[i].date
    <3>1. /\ post \in Posts
          /\ post.number = s[i].number /\ post.date = s[i].date
          /\ post.kind = IF i \in S THEN s[i].kind ELSE "video"
      BY ArrivedTyped
    <3> QED
      BY <1>2, <3>1
  <2>2. q[i] = EntryOf(post)
    BY <1>1
  <2> HIDE DEF post
  <2> QED
    BY <2>1, <2>2, EntryOfPost
<1>4. C = S
  BY <1>1, <1>2, <1>3 DEF Candidates
<1>5. \A i \in S : Identity(q[i]) = s[i].number /\ PublishedAt(q[i]) = s[i].date
  BY <1>2, <1>3
<1>6. CASE C = {}
  <2>1. LatestOf(s) = None
    BY <1>1, <1>6, LatestIsNewest DEF LatestOf, q, S
  <2> QED
    BY <1>4, <1>6, <2>1 DEF None, Episode, S
<1>7. CASE C # {}
  <2>1. PICK i \in C :
           /\ LatestOf(s) = Identity(q[i])
           /\ \A j \in C :
                 /\ PublishedAt(q[j]) <= PublishedAt(q[i])
                 /\ j < i => PublishedAt(q[j]) < PublishedAt(q[i])
    BY <1>1, <1>7, LatestIsNewest DEF LatestOf, q, S
  <2>2. i \in S /\ LatestOf(s) = s[i].number
    BY <1>4, <1>5, <2>1
  <2>3. \A j \in S : s[j].date <= s[i].date /\ (j < i => s[j].date < s[i].date)
    BY <1>4, <1>5, <2>1
  <2>4. Episode(s, LatestOf(s)) /\ LatestOf(s) \in Nat
    BY <1>2, <2>2, PostAt DEF Episode, S
  <2>5. ASSUME NEW n, Episode(s, n) PROVE NotNewer(s, n, LatestOf(s))
    <3>1. PICK j \in S : s[j].number = n
      BY <2>5 DEF Episode, S
    <3>2. i \in Nat /\ j \in Nat /\ s[i].date \in Nat /\ s[j].date \in Nat
      BY <1>2, <2>2, <3>1, PostAt
    <3>3. ~(s[i].date < s[j].date \/ (s[i].date = s[j].date /\ j < i))
      BY <2>3, <3>1, <3>2
    <3>4. ~Older(s, LatestOf(s), n)
      BY <2>2, <3>1, <3>3, OlderAt DEF S
    <3> QED
      BY <2>4, <2>5, <3>4 DEF NotNewer
  <2> QED
    BY <2>4, <2>5
<1> QED
  BY <1>6, <1>7

\* A new post leaves the order of those before it as it is.
LEMMA OrderGrows ==
    ASSUME NEW s \in Seq(Posts), Numbered(s),
           NEW post \in Posts, post.number = Len(s) + 1,
           NEW u, u = <<post>> \o s \/ u = Append(s, post)
    PROVE  /\ u \in Seq(Posts) /\ Numbered(u) /\ Len(u) = Len(s) + 1
           /\ \A n : Episode(s, n) => Episode(u, n)
           /\ \A n : Episode(u, n) /\ n <= Len(s) => Episode(s, n)
           /\ \A m, n : NotNewer(s, m, n) => NotNewer(u, m, n)
<1>1. Len(s) \in Nat /\ DOMAIN s = 1 .. Len(s)
      /\ \A i \in DOMAIN s : s[i].number \in Nat /\ s[i].number <= Len(s)
  BY PostAt DEF Numbered
<1>2. u \in Seq(Posts) /\ Len(u) = Len(s) + 1
  <2> HIDE DEF Posts
  <2>1. <<post>> \o s \in Seq(Posts) /\ Append(s, post) \in Seq(Posts)
    OBVIOUS
  <2>2. Len(<<post>> \o s) = Len(s) + 1 /\ Len(Append(s, post)) = Len(s) + 1
    BY <1>1
  <2> QED
    BY <2>1, <2>2
<1>3. DOMAIN u = 1 .. Len(s) + 1
  BY <1>2, PostAt
<1>4. \E k \in {0, 1} :
         /\ \A i \in DOMAIN s : i + k \in DOMAIN u /\ u[i + k] = s[i]
         /\ \A j \in DOMAIN u :
               \/ u[j] = post /\ (j = 1 \/ j = Len(s) + 1)
               \/ j - k \in DOMAIN s /\ u[j] = s[j - k]
         /\ \A i, j \in DOMAIN u : u[i] = post /\ u[j] = post => i = j
  <2>1. \A i \in DOMAIN s : s[i] # post
    BY <1>1
  <2>2. CASE u = <<post>> \o s
    <3>1. u[1] = post /\ \A i \in DOMAIN s : i + 1 \in DOMAIN u /\ u[i + 1] = s[i]
      BY <1>1, <1>3, <2>2
    <3>2. \A j \in DOMAIN u : j = 1 \/ (j - 1 \in DOMAIN s /\ u[j] = s[j - 1])
      BY <1>1, <1>3, <3>1
    <3>3. \A i, j \in DOMAIN u : u[i] = post /\ u[j] = post => i = j
      BY <2>1, <3>2
    <3> QED
      BY <3>1, <3>2, <3>3
  <2>3. CASE u = Append(s, post)
    <3>1. u[Len(s) + 1] = post /\ \A i \in DOMAIN s : i + 0 \in DOMAIN u /\ u[i + 0] = s[i]
      BY <1>1, <1>3, <2>3
    <3>2. \A j \in DOMAIN u : j = Len(s) + 1 \/ (j - 0 \in DOMAIN s /\ u[j] = s[j - 0])
      BY <1>1, <1>3, <3>1
    <3>3. \A i, j \in DOMAIN u : u[i] = post /\ u[j] = post => i = j
      BY <1>1, <1>3, <2>1, <3>2
    <3> QED
      BY <3>1, <3>2, <3>3
  <2> QED
    BY <2>2, <2>3
<1>5. PICK k \in {0, 1} :
         /\ \A i \in DOMAIN s : i + k \in DOMAIN u /\ u[i + k] = s[i]
         /\ \A j \in DOMAIN u : u[j] = post \/ (j - k \in DOMAIN s /\ u[j] = s[j - k])
         /\ \A i, j \in DOMAIN u : u[i] = post /\ u[j] = post => i = j
  BY <1>4
<1>6. Numbered(u)
  <2>1. ASSUME NEW i \in DOMAIN u PROVE u[i].number <= Len(u)
    <3>1. CASE u[i] = post
      BY <1>1, <1>2, <3>1
    <3>2. CASE i - k \in DOMAIN s /\ u[i] = s[i - k]
      <4> DEFINE h == i - k
      <4>1. h \in DOMAIN s /\ u[i] = s[h]
        BY <3>2
      <4> HIDE DEF h
      <4> QED
        BY <1>1, <1>2, <4>1
    <3> QED
      BY <1>5, <3>1, <3>2
  <2>2. ASSUME NEW i \in DOMAIN u, NEW j \in DOMAIN u, u[i].number = u[j].number PROVE i = j
    <3>1. CASE u[i] = post
      <4>1. u[j] = post
        BY <1>1, <1>5, <2>2, <3>1
      <4> QED
        BY <1>5, <3>1, <4>1
    <3>2. CASE u[i] # post
      <4>1. i - k \in DOMAIN s /\ u[i] = s[i - k]
        BY <1>5, <3>2
      <4>2. u[j] # post
        BY <1>1, <2>2, <4>1
      <4>3. j - k \in DOMAIN s /\ u[j] = s[j - k]
        BY <1>5, <4>2
      <4>4. i - k = j - k
        BY <2>2, <4>1, <4>3 DEF Numbered
      <4> QED
        BY <1>3, <4>4
    <3> QED
      BY <3>1, <3>2
  <2> QED
    BY <2>1, <2>2 DEF Numbered
<1>7. \A i \in EpisodesAt(s) : i + k \in EpisodesAt(u) /\ u[i + k] = s[i] /\ i \in Nat
  BY <1>5, <1>1 DEF EpisodesAt
<1>8. \A n : Episode(s, n) => Episode(u, n)
  BY <1>7 DEF Episode
<1>9. ASSUME NEW n, Episode(u, n), n <= Len(s) PROVE Episode(s, n)
  <2>1. PICK j \in EpisodesAt(u) : u[j].number = n
    BY <1>9 DEF Episode
  <2>2. j \in DOMAIN u /\ u[j].kind # "video"
    BY <2>1 DEF EpisodesAt
  <2>3. u[j] # post
    BY <1>1, <1>9, <2>1
  <2>4. j - k \in DOMAIN s /\ u[j] = s[j - k]
    BY <1>5, <2>2, <2>3
  <2>5. j - k \in EpisodesAt(s)
    BY <2>2, <2>4 DEF EpisodesAt
  <2> QED
    BY <2>1, <2>4, <2>5 DEF Episode
<1>10. ASSUME NEW m, NEW n, NotNewer(s, m, n) PROVE NotNewer(u, m, n)
  <2>1. CASE m = None
    BY <2>1 DEF NotNewer
  <2>2. CASE m # None
    <3>1. Episode(s, m) /\ Episode(s, n) /\ ~Older(s, n, m)
      BY <1>10, <2>2 DEF NotNewer
    <3>2. PICK i \in EpisodesAt(s), j \in EpisodesAt(s) : s[i].number = n /\ s[j].number = m
      BY <3>1 DEF Episode
    <3>3. ~(s[i].date < s[j].date \/ (s[i].date = s[j].date /\ j < i))
      BY <3>1, <3>2, OlderAt
    <3> DEFINE g == i + k
               h == j + k
    <3>4. g \in EpisodesAt(u) /\ h \in EpisodesAt(u) /\ u[g] = s[i] /\ u[h] = s[j]
          /\ (h < g <=> j < i)
      BY <1>7
    <3> HIDE DEF g, h
    <3>5. ~Older(u, n, m)
      BY <1>2, <1>6, <3>2, <3>3, <3>4, OlderAt
    <3> QED
      BY <1>8, <3>1, <3>5 DEF NotNewer
  <2> QED
    BY <2>1, <2>2
<1> QED
  BY <1>2, <1>6, <1>8, <1>9, <1>10

-----------------------------------------------------------------------------
(* How a step keeps the agreement.                                         *)

\* What may be assumed of the worker that takes a step.
LEMMA Given ==
    ASSUME RefreshInv, AgreeInv, NEW t \in Workers
    PROVE  /\ worker[t] \in WorkerStates /\ WorkerSound(worker[t]) /\ WorkerAgrees(worker[t])
           /\ DiskTyped /\ WorldAgrees
           /\ PodcastOf(worker[t]) \in Podcasts
           /\ Working(t) => monitor.running
BY AtStart, PodcastOfTyped DEF AgreeInv

\* What is said of an episode stays so while the feeds do and its file is there.
LEMMA Unmoved ==
    ASSUME NEW p, NEW d, UNCHANGED <<posts, asked>>,
           Stored(p, d) \in files => Stored(p, d) \in files'
    PROVE  /\ Current(p, d) => Current(p, d)'
           /\ AnswersTheRequest(p, d) => AnswersTheRequest(p, d)'
           /\ \A feed : Vouched(p, feed, d) => Vouched(p, feed, d)'
<1>1. Current(p, d) => Current(p, d)'
  BY DEF Current, Stored
<1>2. AnswersTheRequest(p, d) => AnswersTheRequest(p, d)'
  BY DEF AnswersTheRequest
<1>3. ASSUME NEW feed, Vouched(p, feed, d) PROVE Vouched(p, feed, d)'
  BY <1>2, <1>3 DEF Vouched, Stored
<1> QED
  BY <1>1, <1>2, <1>3

LEMMA WorldUnmoved ==
    ASSUME WorldAgrees, UNCHANGED <<posts, asked, downloads>>, files \subseteq files',
           cut \subseteq cut'
    PROVE  WorldAgrees'
<1> SUFFICES ASSUME NEW p \in Podcasts
             PROVE  /\ Numbered(posts'[p]) /\ asked'[p] <= Len(posts'[p])
                    /\ p \notin cut' => Current(p, downloads[p])'
  BY DEF WorldAgrees
<1>1. /\ Numbered(posts[p]) /\ asked[p] <= Len(posts[p])
      /\ p \notin cut => Current(p, downloads[p])
  BY DEF WorldAgrees
<1>2. PICK d : d = downloads[p]
  OBVIOUS
<1>3. Current(p, d) => Current(p, d)'
  BY Unmoved
<1>4. Current(p, d)' => Current(p, downloads[p])'
  BY <1>2 DEF Current
<1> QED
  BY <1>1, <1>2, <1>3, <1>4

LEMMA WorkerUnmoved ==
    ASSUME NEW w, WorkerAgrees(w), UNCHANGED <<posts, asked, downloads, feeds>>,
           files \subseteq files', cut \subseteq cut'
    PROVE  WorkerAgrees(w)'
<1>1. ASSUME NEW p, NEW d
      PROVE  /\ Current(p, d) => Current(p, d)'
             /\ AnswersTheRequest(p, d) => AnswersTheRequest(p, d)'
             /\ \A feed : Vouched(p, feed, d) => Vouched(p, feed, d)'
  BY Unmoved
<1> QED
  BY <1>1 DEF WorkerAgrees, Through, PodcastOf

\* Only one worker is under way, and no refresh is finished while it is.
LEMMA StepAgrees ==
    ASSUME RefreshInv, AgreeInv, NEW t \in Workers, Working(t),
           NEW w, Step(t, w), WorldAgrees', WorkerAgrees(w)',
           FinishedRefresh' => \A p \in Podcasts \ cut' : Vouched(p, feeds[p], downloads[p])'
    PROVE  AgreeInv'
<1>1. worker \in [Workers -> WorkerStates] /\ worker' = [worker EXCEPT ![t] = w]
  BY DEF RefreshInv, TypeOK, Step
<1>2. worker'[t] = w /\ \A u \in Workers \ {t} : worker'[u] = worker[u]
  BY <1>1
<1>3. \A u \in Workers \ {t} : worker[u].at = "idle"
  BY DEF RefreshInv, OneRefresh, Working
<1>4. \A u \in Workers : WorkerAgrees(worker[u])'
  <2> TAKE u \in Workers
  <2>1. CASE u = t
    BY <1>2, <2>1 DEF WorkerAgrees, Through, PodcastOf, Vouched, Current, AnswersTheRequest
  <2>2. CASE u # t
    <3>1. WorkerAgrees(worker[u])
      BY DEF AgreeInv
    <3> QED
      BY <1>2, <1>3, <2>2, <3>1 DEF WorkerAgrees
  <2> QED
    BY <2>1, <2>2
<1>5. (\A p \in Podcasts \ cut' : Vouched(p, feeds[p], downloads[p])')
      => (\A p \in Podcasts \ cut : Vouched(p, feeds[p], downloads[p]))'
  OBVIOUS
<1> QED
  BY <1>4, <1>5 DEF AgreeInv

\* A step that only works on the worker's own state.
LEMMA OwnStepAgrees ==
    ASSUME RefreshInv, AgreeInv, NEW t \in Workers, Working(t), NEW w, Step(t, w),
           WorkerAgrees(w)', UNCHANGED <<monitor, feeds, downloads, files, posts, asked>>,
           cut \subseteq cut'
    PROVE  AgreeInv'
<1>1. WorldAgrees'
  BY Given, WorldUnmoved
<1>2. ~FinishedRefresh'
  BY Given DEF FinishedRefresh
<1> QED
  BY <1>1, <1>2, StepAgrees

\* A worker that is done with its podcast: what is said of the podcasts before
\* it is not disturbed, and what is said of this one is to be shown.
LEMMA ThroughOneMore ==
    ASSUME NEW w \in WorkerStates, NEW n \in WorkerStates, WorkerAgrees(w),
           w.at \in {"fetch", "download", "remove"}, n.at = "save_feeds", n.i = w.i,
           NEW p \in Podcasts, p = PodcastOf(w),
           \A q \in Podcasts \ {p} : n.feeds[q] = w.feeds[q] /\ n.downloads[q] = w.downloads[q],
           \A q \in Podcasts \ {p} : \A d \in Nat : Stored(q, d) \in files => Stored(q, d) \in files',
           UNCHANGED <<downloads, posts, asked>>, cut \subseteq cut',
           p \in cut' \/ (/\ NotNewer(posts[p], downloads[p], n.downloads[p])
                          /\ Current(p, n.downloads[p])'
                          /\ Vouched(p, n.feeds[p], n.downloads[p])')
    PROVE  WorkerAgrees(n)'
<1>1. \A q \in Podcasts : w.downloads[q] \in Nat
  BY DEF WorkerStates, DownloadTables
<1>2. ASSUME NEW q \in Podcasts \ cut'
      PROVE  NotNewer(posts[q], downloads[q], n.downloads[q])' /\ Current(q, n.downloads[q])'
  <2>1. CASE q = p
    BY <2>1
  <2>2. CASE q # p
    <3>1. NotNewer(posts[q], downloads[q], w.downloads[q]) /\ Current(q, w.downloads[q])
      BY <1>2 DEF WorkerAgrees
    <3>2. Current(q, w.downloads[q])'
      BY <1>1, <1>2, <2>2, <3>1, Unmoved
    <3> QED
      BY <1>2, <2>2, <3>1, <3>2
  <2> QED
    BY <2>1, <2>2
<1>3. ASSUME NEW j \in DOMAIN PodcastIds, j <= n.i, PodcastIds[j] \notin cut'
      PROVE  Vouched(PodcastIds[j], n.feeds[PodcastIds[j]], n.downloads[PodcastIds[j]])'
  <2> DEFINE q == PodcastIds[j]
  <2>1. PodcastIds \in Seq(Podcasts) /\ w.i \in DOMAIN PodcastIds /\ p = PodcastIds[w.i]
    BY FeedRefreshAssumption DEF WorkerStates, PodcastOf
  <2>2. q \in Podcasts /\ j \in Nat /\ w.i \in Nat
    BY <2>1, ElementOfSeq, LenProperties
  <2>3. CASE j = w.i
    BY <1>3, <2>1, <2>3
  <2>4. CASE j # w.i
    <3>1. q # p
      BY <2>1, <2>4, FeedRefreshAssumption
    <3>2. j <= Through(w)
      BY <1>3, <2>2, <2>4 DEF Through
    <3>3. Vouched(q, w.feeds[q], w.downloads[q])
      BY <1>3, <3>2 DEF WorkerAgrees
    <3>4. n.feeds[q] = w.feeds[q] /\ n.downloads[q] = w.downloads[q] /\ w.downloads[q] \in Nat
      BY <1>1, <2>2, <3>1
    <3>5. Stored(q, w.downloads[q]) \in files => Stored(q, w.downloads[q]) \in files'
      BY <2>2, <3>1, <3>4
    <3> HIDE DEF q
    <3>6. Vouched(q, w.feeds[q], w.downloads[q])'
      BY <3>3, <3>5, Unmoved
    <3>7. Vouched(q, n.feeds[q], n.downloads[q])'
      BY <3>4, <3>6
    <3> QED
      BY <3>7 DEF q
  <2> QED
    BY <2>3, <2>4
<1> QED
  BY <1>2, <1>3 DEF WorkerAgrees, Through

\* A podcast whose episode is kept, only its status being entered as other than
\* ok.
LEMMA NotOkAgrees ==
    ASSUME NEW w \in WorkerStates, NEW n \in WorkerStates, WorkerAgrees(w),
           w.at \in {"fetch", "download", "remove"}, n.at = "save_feeds", n.i = w.i,
           n.downloads = w.downloads, n.feeds[PodcastOf(w)].status # "ok",
           \A q \in Podcasts \ {PodcastOf(w)} : n.feeds[q] = w.feeds[q],
           UNCHANGED <<downloads, files, posts, asked>>, cut \subseteq cut'
    PROVE  WorkerAgrees(n)'
<1> DEFINE p == PodcastOf(w)
<1>1. p \in Podcasts
  BY PodcastOfTyped
<1>2. p \in cut \/ (NotNewer(posts[p], downloads[p], n.downloads[p]) /\ Current(p, n.downloads[p]))
  BY <1>1 DEF WorkerAgrees
<1>3. Current(p, n.downloads[p]) => Current(p, n.downloads[p])'
  BY Unmoved
<1>4. Vouched(p, n.feeds[p], n.downloads[p])'
  BY DEF Vouched
<1> HIDE DEF p
<1> QED
  BY <1>1, <1>2, <1>3, <1>4, ThroughOneMore DEF p

-----------------------------------------------------------------------------
(* Each action.                                                            *)

LEMMA BeginAgrees ==
    ASSUME RefreshInv, AgreeInv, NEW t \in Workers, Begin(t)
    PROVE  AgreeInv'
<1> DEFINE w == [worker[t] EXCEPT !.at = "starting"]
<1>1. /\ worker \in [Workers -> WorkerStates] /\ \A u \in Workers : ~Working(u)
      /\ \A u \in Workers : WorkerAgrees(worker[u])
      /\ DiskTyped /\ WorldAgrees
  BY Given DEF Begin, RefreshInv, TypeOK, OneRefresh, AgreeInv
<1>2. w \in WorkerStates /\ w.at = "starting" /\ w.i = worker[t].i
  BY <1>1 DEF WorkerStates, Places
<1>3. worker' = [worker EXCEPT ![t] = w] /\ monitor'.running
      /\ asked' = [p \in Podcasts |-> Len(posts[p])]
      /\ UNCHANGED <<feeds, downloads, files, posts, cut>>
  BY DEF Begin, Step
<1> HIDE DEF w
<1>4. worker'[t] = w /\ \A u \in Workers \ {t} : worker'[u] = worker[u]
  BY <1>1, <1>3
<1>5. ~FinishedRefresh'
  BY <1>3 DEF FinishedRefresh
<1>6. WorldAgrees'
  <2>1. \A p \in Podcasts : Len(posts[p]) \in Nat /\ asked'[p] = Len(posts[p])
    BY <1>1, <1>3, LenProperties DEF DiskTyped
  <2> QED
    BY <1>1, <1>3, <2>1 DEF WorldAgrees, Current, Stored
<1>7. \A u \in Workers : WorkerAgrees(worker[u])'
  <2> TAKE u \in Workers
  <2>1. CASE u = t
    BY <1>1, <1>2, <1>4, <2>1 DEF WorkerAgrees, Working
  <2>2. CASE u # t
    BY <1>1, <1>4, <2>2 DEF WorkerAgrees, Working
  <2> QED
    BY <2>1, <2>2
<1> QED
  BY <1>5, <1>6, <1>7 DEF AgreeInv

LEMMA EndsAgree ==
    ASSUME RefreshInv, AgreeInv, NEW t \in Workers, StartFails(t) \/ Abort(t)
    PROVE  AgreeInv'
<1>1. Working(t) /\ UNCHANGED <<feeds, downloads, files, posts, asked, cut>> /\ Step(t, IdleWorker)
      /\ monitor'.error \in {"refresh_start_failed", "refresh_failed"}
  BY DEF StartFails, Abort, Working, Finish, Done
<1>2. ~FinishedRefresh'
  BY <1>1, FeedRefreshAssumption DEF FinishedRefresh
<1>3. WorldAgrees'
  BY <1>1, Given, WorldUnmoved
<1>4. WorkerAgrees(IdleWorker)'
  BY DEF WorkerAgrees, IdleWorker
<1> QED
  BY <1>1, <1>2, <1>3, <1>4, StepAgrees

LEMMA LoadAgrees ==
    ASSUME RefreshInv, AgreeInv, NEW t \in Workers, Load(t)
    PROVE  AgreeInv'
<1>w. PICK w \in WorkerStates : w = worker[t]
  BY Given
<1>1. WorkerAgrees(w) /\ DiskTyped /\ WorldAgrees
      /\ w.at = "starting" /\ Step(t, Loaded(w)) /\ Working(t)
      /\ UNCHANGED <<monitor, feeds, downloads, files, posts, asked, cut>>
  BY <1>w, Given DEF Load, Working
<1>n. PICK n : n = Loaded(w)
  OBVIOUS
<1>2. n.at = "fetch" /\ n.i = 1 /\ n.downloads = downloads
  BY <1>1, <1>n DEF Loaded, WorkerStates, WorkerAgrees
<1>3. WorkerAgrees(n)
  <2>1. ASSUME NEW p \in Podcasts \ cut
        PROVE  NotNewer(posts[p], downloads[p], downloads[p]) /\ Current(p, downloads[p])
    <3>1. posts[p] \in Seq(Posts) /\ Numbered(posts[p]) /\ Current(p, downloads[p])
      BY <1>1, <2>1 DEF WorldAgrees, DiskTyped
    <3>2. downloads[p] = None \/ Episode(posts[p], downloads[p])
      BY <3>1 DEF Current, NotNewer
    <3> QED
      BY <3>1, <3>2, OrderFacts DEF NotNewer
  <2>2. \A j \in DOMAIN PodcastIds : j \in Nat /\ j >= 1
    BY FeedRefreshAssumption, LenProperties
  <2> QED
    BY <1>2, <2>1, <2>2 DEF WorkerAgrees, Through
<1>4. WorkerAgrees(n)'
  BY <1>1, <1>3, WorkerUnmoved
<1> QED
  BY <1>1, <1>n, <1>4, OwnStepAgrees

\* In a feed that arrives whole the parser finds the publisher's newest episode,
\* if the document is a feed at all.
LEMMA FoundIsLatest ==
    ASSUME NEW p \in Podcasts, NEW document \in Documents(p, EpisodesAt(posts[p]))
    PROVE  ParseFeed(document).latest \in {None, LatestOf(posts[p])}
<1>1. document.entries \in {<<>>, Served(posts[p], EpisodesAt(posts[p]))}
  BY DEF Documents
<1>2. Candidates(<<>>) = {}
  BY DEF Candidates
<1>3. LatestEpisode(<<>>) = None
  BY <1>2 DEF LatestEpisode
<1> QED
  BY <1>1, <1>3 DEF ParseFeed, LatestOf

LEMMA FetchAgrees ==
    ASSUME RefreshInv, AgreeInv, NEW t \in Workers, FetchFails(t) \/ Fetch(t)
    PROVE  AgreeInv'
<1>w. PICK w \in WorkerStates : w = worker[t]
  BY Given
<1> DEFINE p == PodcastOf(w)
<1>0. /\ WorkerSound(w) /\ WorkerAgrees(w) /\ DiskTyped /\ WorldAgrees
      /\ p \in Podcasts /\ w.at = "fetch" /\ Working(t)
      /\ UNCHANGED <<monitor, feeds, downloads, files, posts, asked>> /\ cut \subseteq cut'
  BY <1>w, Given DEF FetchFails, Fetch, Working
<1>1. ASSUME Step(t, Failed(w, "feed_failed")) PROVE AgreeInv'
  <2>1. "feed_failed" \in FeedStatuses
    BY DEF FeedStatuses
  <2>2. PICK f \in WorkerStates :
           /\ f = Failed(w, "feed_failed") /\ f.at = "save_feeds" /\ f.i = w.i
           /\ f.downloads = w.downloads /\ f.feeds[p].status = "feed_failed"
           /\ \A q \in Podcasts \ {p} : f.feeds[q] = w.feeds[q]
    BY <1>0, <2>1, FailedSound
  <2>3. WorkerAgrees(f)'
    BY <1>0, <2>2, NotOkAgrees
  <2> QED
    BY <1>0, <1>1, <2>2, <2>3, OwnStepAgrees
<1>2. ASSUME Step(t, NothingPlayable(w)) PROVE AgreeInv'
  <2>1. PICK n \in WorkerStates :
           /\ n = NothingPlayable(w) /\ n.at = "save_feeds" /\ n.i = w.i
           /\ n.downloads = w.downloads /\ n.feeds[p].status = "no_playable_episode"
           /\ \A q \in Podcasts \ {p} : n.feeds[q] = w.feeds[q]
    BY <1>0, NothingPlayableSound
  <2>2. WorkerAgrees(n)'
    BY <1>0, <2>1, NotOkAgrees
  <2> QED
    BY <1>0, <1>2, <2>1, <2>2, OwnStepAgrees
<1>p. posts[p] \in Seq(Posts) /\ Numbered(posts[p]) /\ asked[p] <= Len(posts[p])
  BY <1>0 DEF WorldAgrees, DiskTyped
<1>q. ASSUME p \notin cut
      PROVE  NotNewer(posts[p], downloads[p], w.downloads[p]) /\ Current(p, w.downloads[p])
  BY <1>0, <1>q DEF WorkerAgrees
<1>a. AnswersTheRequest(p, LatestOf(posts[p]))
  BY <1>p, LatestFound DEF AnswersTheRequest
<1>3. ASSUME NEW e \in Nat, p \in cut' \/ e = LatestOf(posts[p]),
             e # None, e = w.downloads[p], Step(t, Recorded(w, e))
      PROVE  AgreeInv'
  <2>1. PICK r \in WorkerStates :
           /\ r = Recorded(w, e) /\ r.at = "save_feeds" /\ r.i = w.i
           /\ r.downloads = [w.downloads EXCEPT ![p] = e] /\ r.feeds[p].episode = e
           /\ \A q \in Podcasts \ {p} : r.feeds[q] = w.feeds[q]
    BY <1>0, <1>3, RecordedSound
  <2>2. r.downloads[p] = e /\ \A q \in Podcasts \ {p} : r.downloads[q] = w.downloads[q]
    BY <1>0, <2>1 DEF WorkerStates, DownloadTables
  <2> HIDE DEF p
  <2>3. ASSUME p \notin cut'
        PROVE  /\ NotNewer(posts[p], downloads[p], r.downloads[p])
               /\ Current(p, r.downloads[p])' /\ Vouched(p, r.feeds[p], r.downloads[p])'
    <3>1. /\ e = LatestOf(posts[p]) /\ Current(p, e) /\ NotNewer(posts[p], downloads[p], e)
      BY <1>0, <1>3, <1>q, <2>3
    <3>2. Stored(p, e) \in files /\ AnswersTheRequest(p, e)
      BY <1>3, <1>a, <3>1 DEF Current
    <3>3. Current(p, e)' /\ AnswersTheRequest(p, e)'
      BY <1>0, <3>1, <3>2, Unmoved
    <3>4. Vouched(p, r.feeds[p], e)'
      BY <1>0, <2>1, <3>2, <3>3 DEF Vouched, Stored
    <3> QED
      BY <2>2, <3>1, <3>3, <3>4
  <2>4. WorkerAgrees(r)'
    BY <1>0, <2>1, <2>2, <2>3, ThroughOneMore DEF p
  <2> QED
    BY <1>0, <1>3, <2>1, <2>4, OwnStepAgrees
<1>4. ASSUME NEW e \in Nat, p \in cut' \/ e = LatestOf(posts[p]),
             Step(t, [w EXCEPT !.at = "download", !.episode = e])
      PROVE  AgreeInv'
  <2> DEFINE d == [w EXCEPT !.at = "download", !.episode = e]
  <2>1. d.at = "download" /\ d.i = w.i /\ d.feeds = w.feeds
        /\ d.downloads = w.downloads /\ d.episode = e
    BY <1>0 DEF WorkerStates
  <2>2. Step(t, d)
    BY <1>4
  <2> HIDE DEF d
  <2>3. PodcastOf(d) = p /\ Through(d) = Through(w)
    BY <1>0, <2>1 DEF PodcastOf, Through
  <2>4. WorkerAgrees(w)'
    BY <1>0, WorkerUnmoved
  <2> HIDE DEF p
  <2>5. ASSUME p \notin cut'
        PROVE  /\ NotNewer(posts[p], d.downloads[p], d.episode)'
               /\ NotNewer(posts[p], d.episode, LatestOf(posts[p]))'
               /\ AnswersTheRequest(p, d.episode)'
    <3>1. e = LatestOf(posts[p]) /\ Current(p, w.downloads[p])
      BY <1>0, <1>4, <1>q, <2>5
    <3>2. NotNewer(posts[p], w.downloads[p], e)
      BY <3>1 DEF Current
    <3>3. NotNewer(posts[p], e, LatestOf(posts[p]))
      BY <1>p, <3>1, LatestFound DEF NotNewer
    <3>4. AnswersTheRequest(p, e)'
      BY <1>0, <1>a, <3>1 DEF AnswersTheRequest
    <3> QED
      BY <1>0, <2>1, <3>2, <3>3, <3>4
  <2>6. WorkerAgrees(d)'
    BY <1>0, <2>1, <2>3, <2>4, <2>5 DEF WorkerAgrees
  <2> QED
    BY <1>0, <2>2, <2>6, OwnStepAgrees
<1>5. CASE Fetch(t)
  <2>1. PICK S \in SUBSET EpisodesAt(posts[p]) :
           /\ S = EpisodesAt(posts[p]) \/ p \in cut'
           /\ \E document \in Documents(p, S) :
                 LET e == ParseFeed(document).latest IN
                 \/ Step(t, Failed(w, "feed_failed"))
                 \/ Step(t, NothingPlayable(w))
                 \/ e # None /\ e = w.downloads[p] /\ Step(t, Recorded(w, e))
                 \/ e \notin {None, w.downloads[p]}
                    /\ Step(t, [w EXCEPT !.at = "download", !.episode = e])
    BY <1>w, <1>5 DEF Fetch
  <2>2. PICK document \in Documents(p, S) :
           LET e == ParseFeed(document).latest IN
           \/ Step(t, Failed(w, "feed_failed"))
           \/ Step(t, NothingPlayable(w))
           \/ e # None /\ e = w.downloads[p] /\ Step(t, Recorded(w, e))
           \/ e \notin {None, w.downloads[p]}
              /\ Step(t, [w EXCEPT !.at = "download", !.episode = e])
    BY <2>1
  <2>3. ParseFeed(document).latest \in Nat
    BY <1>0, DocumentsTyped
  <2>4. p \in cut' \/ ParseFeed(document).latest \in {None, LatestOf(posts[p])}
    BY <1>0, <2>1, FoundIsLatest
  <2> HIDE DEF p
  <2> QED
    BY <1>1, <1>2, <1>3, <1>4, <2>2, <2>3, <2>4
<1> QED
  BY <1>w, <1>1, <1>5 DEF FetchFails

LEMMA DownloadAgrees ==
    ASSUME RefreshInv, AgreeInv, NEW t \in Workers, Download(t)
    PROVE  AgreeInv'
<1>w. PICK w \in WorkerStates : w = worker[t]
  BY Given
<1> DEFINE p == PodcastOf(w)
<1>0. /\ WorkerSound(w) /\ WorkerAgrees(w) /\ DiskTyped /\ WorldAgrees
      /\ p \in Podcasts /\ w.at = "download" /\ Working(t)
      /\ UNCHANGED <<monitor, feeds, downloads, posts, asked, cut>> /\ files \subseteq files'
  BY <1>w, Given DEF Download, Working
<1>1. WorldAgrees'
  BY <1>0, WorldUnmoved
<1>2. ~FinishedRefresh'
  BY <1>0, Given DEF FinishedRefresh
<1>3. CASE UNCHANGED files /\ Step(t, Failed(w, "download_failed"))
  <2>1. "download_failed" \in FeedStatuses
    BY DEF FeedStatuses
  <2>2. PICK f \in WorkerStates :
           /\ f = Failed(w, "download_failed") /\ f.at = "save_feeds" /\ f.i = w.i
           /\ f.downloads = w.downloads /\ f.feeds[p].status = "download_failed"
           /\ \A q \in Podcasts \ {p} : f.feeds[q] = w.feeds[q]
    BY <1>0, <2>1, FailedSound
  <2>3. WorkerAgrees(f)'
    BY <1>0, <1>3, <2>2, NotOkAgrees
  <2> QED
    BY <1>0, <1>1, <1>2, <1>3, <2>2, <2>3, StepAgrees
<1>4. CASE Step(t, [w EXCEPT !.at = "remove"])
  <2> DEFINE d == [w EXCEPT !.at = "remove"]
  <2>1. d.at = "remove" /\ d.i = w.i /\ d.feeds = w.feeds
        /\ d.downloads = w.downloads /\ d.episode = w.episode
    BY <1>0 DEF WorkerStates
  <2>2. Step(t, d)
    BY <1>4
  <2> HIDE DEF d
  <2>3. PodcastOf(d) = p /\ Through(d) = Through(w)
    BY <1>0, <2>1 DEF PodcastOf, Through
  <2> HIDE DEF p
  <2>4. WorkerAgrees(d)
    BY <1>0, <2>1, <2>3 DEF WorkerAgrees, p
  <2>5. WorkerAgrees(d)'
    BY <1>0, <2>4, WorkerUnmoved
  <2> QED
    BY <1>0, <1>1, <1>2, <2>2, <2>5, StepAgrees
<1> QED
  BY <1>w, <1>3, <1>4 DEF Download

\* The file that is removed belongs to an episode that is not found again.
LEMMA RemoveAgrees ==
    ASSUME RefreshInv, AgreeInv, NEW t \in Workers, Remove(t)
    PROVE  AgreeInv'
<1>w. PICK w \in WorkerStates : w = worker[t]
  BY Given
<1> DEFINE p == PodcastOf(w)
           old == Stored(p, w.downloads[p])
           e == w.episode
<1>0. /\ WorkerSound(w) /\ WorkerAgrees(w) /\ DiskTyped /\ WorldAgrees
      /\ p \in Podcasts /\ w.at = "remove" /\ Working(t) /\ monitor.running
      /\ UNCHANGED <<monitor, feeds, downloads, posts, asked, cut>>
  BY <1>w, Given DEF Remove, Working
<1>1. ~FinishedRefresh'
  BY <1>0 DEF FinishedRefresh
<1>2. CASE UNCHANGED files /\ Step(t, Failed(w, "download_failed"))
  <2>1. "download_failed" \in FeedStatuses
    BY DEF FeedStatuses
  <2>2. PICK f \in WorkerStates :
           /\ f = Failed(w, "download_failed") /\ f.at = "save_feeds" /\ f.i = w.i
           /\ f.downloads = w.downloads /\ f.feeds[p].status = "download_failed"
           /\ \A q \in Podcasts \ {p} : f.feeds[q] = w.feeds[q]
    BY <1>0, <2>1, FailedSound
  <2>3. WorkerAgrees(f)'
    BY <1>0, <1>2, <2>2, NotOkAgrees
  <2>4. WorldAgrees'
    BY <1>0, <1>2, WorldUnmoved
  <2> QED
    BY <1>0, <1>1, <1>2, <2>2, <2>3, <2>4, StepAgrees
<1>3. CASE files' = files \ {old} /\ Step(t, Recorded(w, e))
  <2>1. /\ e \in Nat /\ w.downloads \in [Podcasts -> Nat] /\ w.downloads[p] \in Nat
        /\ downloads[p] \in Nat /\ e # w.downloads[p] /\ Stored(p, e) \in files
    BY <1>0 DEF WorkerStates, DownloadTables, DiskTyped, WorkerSound
  <2>2. posts[p] \in Seq(Posts) /\ Numbered(posts[p])
    BY <1>0 DEF DiskTyped, WorldAgrees
  <2>3. \A q \in Podcasts \ {p} : \A d \in Nat : Stored(q, d) \in files => Stored(q, d) \in files'
    BY <1>3 DEF Stored
  <2>4. Stored(p, e) \in files'
    BY <1>3, <2>1 DEF Stored
  <2> HIDE DEF p, e, old
  <2>5. ASSUME p \notin cut
        PROVE  /\ NotNewer(posts[p], downloads[p], w.downloads[p])
               /\ NotNewer(posts[p], w.downloads[p], e) /\ NotNewer(posts[p], e, LatestOf(posts[p]))
               /\ AnswersTheRequest(p, e)
    BY <1>0, <2>5 DEF WorkerAgrees, p, e
  <2>6. ASSUME p \notin cut
        PROVE  /\ NotNewer(posts[p], downloads[p], e)
               /\ w.downloads[p] # LatestOf(posts[p])
    BY <2>1, <2>2, <2>5, <2>6, OrderFacts
  <2>7. ASSUME p \notin cut, downloads[p] = LatestOf(posts[p]), downloads[p] # None PROVE FALSE
    <3> DEFINE l == LatestOf(posts[p])
    <3>1. /\ NotNewer(posts[p], l, w.downloads[p]) /\ NotNewer(posts[p], w.downloads[p], e)
          /\ NotNewer(posts[p], e, l)
      BY <2>5, <2>7
    <3> HIDE DEF l
    <3>2. NotNewer(posts[p], w.downloads[p], l)
      BY <2>2, <3>1, OrderFacts
    <3>3. l = w.downloads[p]
      BY <2>2, <3>1, <3>2, OrderFacts
    <3> QED
      BY <2>6, <2>7, <3>3 DEF l
  <2>8. WorldAgrees'
    <3> SUFFICES ASSUME NEW q \in Podcasts \ cut PROVE Current(q, downloads[q])'
      BY <1>0 DEF WorldAgrees
    <3>1. downloads[q] \in Nat /\ Current(q, downloads[q])
      BY <1>0 DEF DiskTyped, DownloadTables, WorldAgrees
    <3>2. CASE q = p
      BY <1>0, <2>7, <3>1, <3>2 DEF Current
    <3>3. CASE q # p
      BY <1>0, <2>3, <3>1, <3>3 DEF Current
    <3> QED
      BY <3>2, <3>3
  <2>9. PICK r \in WorkerStates :
           /\ r = Recorded(w, e) /\ r.at = "save_feeds" /\ r.i = w.i
           /\ r.downloads = [w.downloads EXCEPT ![p] = e] /\ r.feeds[p].episode = e
           /\ \A q \in Podcasts \ {p} : r.feeds[q] = w.feeds[q]
    BY <1>0, <2>1, RecordedSound DEF p
  <2>10. r.downloads[p] = e /\ \A q \in Podcasts \ {p} : r.downloads[q] = w.downloads[q]
    BY <1>0, <2>1, <2>9
  <2>11. ASSUME p \notin cut
         PROVE  /\ NotNewer(posts[p], downloads[p], r.downloads[p])
                /\ Current(p, r.downloads[p])' /\ Vouched(p, r.feeds[p], r.downloads[p])'
    <3>1. Current(p, e) /\ AnswersTheRequest(p, e)
      BY <2>1, <2>5, <2>11 DEF Current
    <3>2. Current(p, e)' /\ AnswersTheRequest(p, e)'
      BY <1>0, <2>4, <3>1, Unmoved
    <3>3. Vouched(p, r.feeds[p], e)'
      BY <1>0, <2>4, <2>9, <3>2 DEF Vouched, Stored
    <3> QED
      BY <2>6, <2>10, <2>11, <3>2, <3>3
  <2>12. WorkerAgrees(r)'
    BY <1>0, <2>3, <2>9, <2>10, <2>11, ThroughOneMore DEF p
  <2> QED
    BY <1>0, <1>1, <1>3, <2>8, <2>9, <2>12, StepAgrees
<1> QED
  BY <1>w, <1>2, <1>3 DEF Remove

LEMMA SaveFeedsAgrees ==
    ASSUME RefreshInv, AgreeInv, NEW t \in Workers, SaveFeeds(t)
    PROVE  AgreeInv'
<1>w. PICK w \in WorkerStates : w = worker[t]
  BY Given
<1> DEFINE s == [w EXCEPT !.at = "save_downloads"]
<1>0. /\ WorkerAgrees(w) /\ WorldAgrees /\ w.at = "save_feeds" /\ Working(t)
      /\ feeds' = w.feeds /\ Step(t, s)
      /\ UNCHANGED <<monitor, downloads, files, posts, asked, cut>>
  BY <1>w, Given DEF SaveFeeds, Working
<1>1. s.at = "save_downloads" /\ s.i = w.i /\ s.feeds = w.feeds /\ s.downloads = w.downloads
  BY DEF WorkerStates
<1> HIDE DEF s
<1>2. WorldAgrees'
  BY <1>0, WorldUnmoved
<1>3. ~FinishedRefresh'
  BY <1>0, Given DEF FinishedRefresh
<1>4. WorkerAgrees(s)'
  BY <1>0, <1>1 DEF WorkerAgrees, Current, Vouched, AnswersTheRequest, Through, PodcastOf, Stored
<1> QED
  BY <1>0, <1>2, <1>3, <1>4, StepAgrees

LEMMA SaveDownloadsAgrees ==
    ASSUME RefreshInv, AgreeInv, NEW t \in Workers, SaveDownloads(t)
    PROVE  AgreeInv' /\ \A p \in Podcasts \ cut' : NotNewer(posts[p], downloads[p], downloads'[p])
<1>w. PICK w \in WorkerStates : w = worker[t]
  BY Given
<1>0. /\ WorkerAgrees(w) /\ WorldAgrees /\ w.at = "save_downloads" /\ Working(t)
      /\ feeds = w.feeds /\ downloads' = w.downloads
      /\ UNCHANGED <<feeds, files, posts, asked, cut>>
      /\ w.i \in DOMAIN PodcastIds /\ monitor.running
  BY <1>w, Given DEF SaveDownloads, Working, WorkerAgrees, WorkerStates
<1>1. \A p \in Podcasts \ cut :
         NotNewer(posts[p], downloads[p], w.downloads[p]) /\ Current(p, w.downloads[p])
  BY <1>0 DEF WorkerAgrees
<1>2. \A p \in Podcasts \ cut' : NotNewer(posts[p], downloads[p], downloads'[p])
  BY <1>0, <1>1
<1>3. WorldAgrees'
  BY <1>0, <1>1 DEF WorldAgrees, Current, Stored
<1>4. DOMAIN PodcastIds = 1 .. Len(PodcastIds) /\ Len(PodcastIds) \in Nat
  <2>1. PodcastIds \in Seq(Podcasts)
    BY FeedRefreshAssumption
  <2> QED
    BY <2>1, LenProperties
<1>5. ASSUME UNCHANGED monitor, Step(t, [w EXCEPT !.at = "fetch", !.i = w.i + 1])
      PROVE  AgreeInv'
  <2> DEFINE n == [w EXCEPT !.at = "fetch", !.i = w.i + 1]
  <2>1. n.at = "fetch" /\ n.i = w.i + 1 /\ n.feeds = w.feeds /\ n.downloads = w.downloads
    BY DEF WorkerStates
  <2>2. Step(t, n)
    BY <1>5
  <2> HIDE DEF n
  <2>3. Through(n) = w.i /\ Through(w) = w.i
    BY <1>0, <1>4, <2>1 DEF Through
  <2>4. ASSUME NEW p \in Podcasts \ cut'
        PROVE  NotNewer(posts[p], downloads[p], n.downloads[p])' /\ Current(p, n.downloads[p])'
    <3>1. posts[p] \in Seq(Posts) /\ Numbered(posts[p]) /\ Current(p, w.downloads[p])
      BY <1>0, <1>1, <2>4, Given DEF DiskTyped, WorldAgrees
    <3>2. NotNewer(posts[p], w.downloads[p], w.downloads[p])
      BY <3>1, OrderFacts DEF Current, NotNewer
    <3>3. Current(p, w.downloads[p])'
      BY <1>0, <3>1, Unmoved
    <3> QED
      BY <1>0, <2>1, <3>2, <3>3
  <2>5. ASSUME NEW j \in DOMAIN PodcastIds, j <= w.i, PodcastIds[j] \notin cut'
        PROVE  Vouched(PodcastIds[j], n.feeds[PodcastIds[j]], n.downloads[PodcastIds[j]])'
    <3>1. Vouched(PodcastIds[j], n.feeds[PodcastIds[j]], n.downloads[PodcastIds[j]])
      BY <1>0, <2>1, <2>3, <2>5 DEF WorkerAgrees
    <3> QED
      BY <1>0, <3>1, Unmoved
  <2>6. WorkerAgrees(n)'
    BY <2>1, <2>3, <2>4, <2>5 DEF WorkerAgrees, Through
  <2>7. ~FinishedRefresh'
    BY <1>0, <1>5 DEF FinishedRefresh
  <2> QED
    BY <1>0, <1>3, <2>2, <2>6, <2>7, StepAgrees
<1>6. ASSUME w.i = Len(PodcastIds), Finish(t, ResultOf(w), NoResult) PROVE AgreeInv'
  <2>1. Step(t, IdleWorker) /\ WorkerAgrees(IdleWorker)'
    BY <1>6 DEF Finish, Done, WorkerAgrees, IdleWorker
  <2>2. ASSUME NEW p \in Podcasts \ cut' PROVE Vouched(p, feeds[p], downloads[p])'
    <3>1. PICK j \in DOMAIN PodcastIds : PodcastIds[j] = p
      BY <2>2, FeedRefreshAssumption
    <3>2. j <= Through(w)
      BY <1>0, <1>4, <1>6 DEF Through
    <3>3. Vouched(p, w.feeds[p], w.downloads[p])
      BY <1>0, <2>2, <3>1, <3>2 DEF WorkerAgrees
    <3>4. Vouched(p, w.feeds[p], w.downloads[p])'
      BY <1>0, <3>3, Unmoved
    <3> QED
      BY <1>0, <3>4 DEF Vouched, AnswersTheRequest, Stored
  <2> QED
    BY <1>0, <1>3, <2>1, <2>2, StepAgrees
<1> QED
  BY <1>w, <1>2, <1>5, <1>6 DEF SaveDownloads

\* What a new post, wherever it is put, changes of what is said of an episode.
LEMMA FeedGrows ==
    ASSUME NEW p, posts[p] \in Seq(Posts), Numbered(posts[p]), asked[p] <= Len(posts[p]),
           NEW post \in Posts, post.number = Len(posts[p]) + 1,
           NEW u, u = <<post>> \o posts[p] \/ u = Append(posts[p], post),
           posts'[p] = u, asked'[p] = asked[p], asked[p] \in Nat, UNCHANGED files,
           NEW d
    PROVE  /\ Current(p, d) => Current(p, d)'
           /\ AnswersTheRequest(p, d) => AnswersTheRequest(p, d)'
<1> DEFINE s == posts[p]
<1>1. /\ s \in Seq(Posts) /\ Numbered(s) /\ Len(s) \in Nat
      /\ u \in Seq(Posts) /\ Numbered(u) /\ Len(u) = Len(s) + 1
      /\ \A n : Episode(s, n) => Episode(u, n)
      /\ \A n : Episode(u, n) /\ n <= Len(s) => Episode(s, n)
      /\ \A m, n : NotNewer(s, m, n) => NotNewer(u, m, n)
  BY OrderGrows, LenProperties
<1>2. ASSUME AnswersTheRequest(p, d) PROVE AnswersTheRequest(p, d)'
  <2> SUFFICES ASSUME NEW n \in Nat, Episode(u, n), n <= asked[p] PROVE NotNewer(u, n, d)
    BY DEF AnswersTheRequest
  <2>1. Episode(s, n)
    BY <1>1
  <2> QED
    BY <1>1, <1>2, <2>1 DEF AnswersTheRequest
<1>3. ASSUME Current(p, d) PROVE Current(p, d)'
  <2> DEFINE l == LatestOf(s)
             m == LatestOf(u)
  <2>1. NotNewer(s, d, l) /\ (d = l /\ d # None => Stored(p, d) \in files)
    BY <1>3 DEF Current
  <2>2. l = None \/ Episode(s, l)
    BY <1>1, LatestFound
  <2>3. \A n : Episode(u, n) => NotNewer(u, n, m)
    BY <1>1, LatestFound
  <2> HIDE DEF l, m
  <2>4. d = None \/ (Episode(s, d) /\ Episode(s, l))
    BY <2>1 DEF NotNewer
  <2>5. NotNewer(u, d, m)
    BY <1>1, <2>3, <2>4 DEF NotNewer
  <2>6. ASSUME d = m, d # None PROVE Stored(p, d) \in files
    <3>1. NotNewer(u, d, l) /\ NotNewer(u, l, d)
      BY <1>1, <2>1, <2>3, <2>4, <2>6
    <3>2. d = l
      BY <1>1, <3>1, OrderFacts
    <3> QED
      BY <2>1, <2>6, <3>2
  <2> QED
    BY <2>5, <2>6 DEF Current, Stored, m
<1> QED
  BY <1>2, <1>3

LEMMA CrashAgrees ==
    ASSUME RefreshInv, AgreeInv, Crash
    PROVE  AgreeInv'
<1>1. worker' = [t \in Workers |-> IdleWorker]
      /\ UNCHANGED <<feeds, downloads, files, posts, asked, cut>>
      /\ monitor' = [running |-> FALSE, result |-> NoResult, error |-> NoResult]
  BY DEF Crash
<1>2. WorldAgrees'
  BY <1>1, WorldUnmoved DEF AgreeInv
<1>3. ~FinishedRefresh'
  BY <1>1 DEF FinishedRefresh
<1>4. \A t \in Workers : WorkerAgrees(worker[t])'
  BY <1>1 DEF WorkerAgrees, IdleWorker
<1> QED
  BY <1>2, <1>3, <1>4 DEF AgreeInv

LEMMA PublishAgrees ==
    ASSUME RefreshInv, AgreeInv, NEW p \in Podcasts, NEW kind \in Kinds[p],
           Publish(p, kind[1], kind[2])
    PROVE  AgreeInv'
<1>0. DiskTyped /\ WorldAgrees /\ \A t \in Workers : worker[t] \in WorkerStates /\ WorkerAgrees(worker[t])
  BY DEF RefreshInv, TypeOK, DiskTyped, AgreeInv
<1>1. UNCHANGED <<monitor, worker, feeds, downloads, files, asked, cut>>
  BY DEF Publish
<1> DEFINE s == posts[p]
           post == [number |-> Len(s) + 1, kind |-> kind[1], date |-> kind[2]]
<1>2. PICK u : posts' = [posts EXCEPT ![p] = u] /\ (u = <<post>> \o s \/ u = Append(s, post))
  BY DEF Publish
<1>3. /\ posts \in [Podcasts -> Seq(Posts)] /\ asked \in [Podcasts -> Nat]
      /\ \A q \in Podcasts : Numbered(posts[q]) /\ asked[q] <= Len(posts[q])
  BY <1>0 DEF DiskTyped, DownloadTables, WorldAgrees
<1>4. post \in Posts /\ post.number = Len(s) + 1
  <2>1. kind[1] \in PostKinds /\ kind[2] \in Nat
    BY FeedRefreshAssumption
  <2>2. Len(s) \in Nat
    BY <1>3, LenProperties
  <2> QED
    BY <2>1, <2>2 DEF Posts
<1>5. posts'[p] = u /\ \A q \in Podcasts \ {p} : posts'[q] = posts[q]
  BY <1>2, <1>3
<1> HIDE DEF post
<1>6. /\ u \in Seq(Posts) /\ Numbered(u) /\ Len(s) \in Nat /\ Len(u) = Len(s) + 1
      /\ \A m, n : NotNewer(s, m, n) => NotNewer(u, m, n)
      /\ \A n : Episode(s, n) => Episode(u, n)
  BY <1>2, <1>3, <1>4, OrderGrows, LenProperties
<1>7. ASSUME NEW q \in Podcasts, NEW d
      PROVE  /\ Current(q, d) => Current(q, d)'
             /\ AnswersTheRequest(q, d) => AnswersTheRequest(q, d)'
  <2>1. CASE q = p
    <3>1. asked'[p] = asked[p] /\ asked[p] \in Nat /\ s \in Seq(Posts) /\ UNCHANGED files
      BY <1>1, <1>3
    <3> QED
      BY <1>2, <1>3, <1>4, <1>5, <2>1, <3>1, FeedGrows
  <2>2. CASE q # p
    BY <1>1, <1>5, <2>2 DEF Current, AnswersTheRequest, Stored
  <2> QED
    BY <2>1, <2>2
<1>8. ASSUME NEW q \in Podcasts, NEW m, NEW n, NotNewer(posts[q], m, n)
      PROVE  NotNewer(posts'[q], m, n)
  BY <1>5, <1>6, <1>8
<1>9. ASSUME NEW q \in Podcasts, NEW feed, NEW d, Vouched(q, feed, d) PROVE Vouched(q, feed, d)'
  BY <1>1, <1>7, <1>9 DEF Vouched, Stored
<1>10. WorldAgrees'
  <2> SUFFICES ASSUME NEW q \in Podcasts
               PROVE  /\ Numbered(posts'[q]) /\ asked'[q] <= Len(posts'[q])
                      /\ q \notin cut' => Current(q, downloads[q])'
    BY DEF WorldAgrees
  <2>1. Numbered(posts'[q]) /\ asked'[q] <= Len(posts'[q])
    BY <1>1, <1>3, <1>5, <1>6
  <2>2. PICK d : d = downloads[q]
    OBVIOUS
  <2>3. q \notin cut => Current(q, d)'
    BY <1>0, <1>7, <2>2 DEF WorldAgrees
  <2>4. Current(q, d)' => Current(q, downloads[q])'
    BY <1>1, <2>2 DEF Current, Stored
  <2> QED
    BY <1>1, <2>1, <2>3, <2>4
<1>11. ASSUME NEW t \in Workers PROVE WorkerAgrees(worker[t])'
  <2>1. PICK w \in WorkerStates : w = worker[t]
    BY <1>0
  <2>2. WorkerAgrees(w) /\ PodcastOf(w) \in Podcasts
    BY <1>0, <2>1, PodcastOfTyped
  <2>3. ASSUME w.at \notin {"idle", "starting"}, NEW q \in Podcasts \ cut
        PROVE  NotNewer(posts[q], downloads[q], w.downloads[q])' /\ Current(q, w.downloads[q])'
    <3>1. NotNewer(posts[q], downloads[q], w.downloads[q]) /\ Current(q, w.downloads[q])
      BY <2>2, <2>3 DEF WorkerAgrees
    <3> QED
      BY <1>1, <1>7, <1>8, <3>1
  <2>4. ASSUME w.at \notin {"idle", "starting"}, NEW j \in DOMAIN PodcastIds,
               j <= Through(w), PodcastIds[j] \notin cut
        PROVE  Vouched(PodcastIds[j], w.feeds[PodcastIds[j]], w.downloads[PodcastIds[j]])'
    <3>1. Vouched(PodcastIds[j], w.feeds[PodcastIds[j]], w.downloads[PodcastIds[j]])
      BY <2>2, <2>4 DEF WorkerAgrees
    <3>2. PodcastIds[j] \in Podcasts
      BY FeedRefreshAssumption, ElementOfSeq, LenProperties
    <3> QED
      BY <1>9, <3>1, <3>2
  <2>5. ASSUME w.at \in {"download", "remove"}, PodcastOf(w) \notin cut
        PROVE  /\ NotNewer(posts[PodcastOf(w)], w.downloads[PodcastOf(w)], w.episode)'
               /\ NotNewer(posts[PodcastOf(w)], w.episode, LatestOf(posts[PodcastOf(w)]))'
               /\ AnswersTheRequest(PodcastOf(w), w.episode)'
    <3>1. PICK q \in Podcasts : q = PodcastOf(w)
      BY <2>2
    <3>2. /\ NotNewer(posts[q], w.downloads[q], w.episode)
          /\ NotNewer(posts[q], w.episode, LatestOf(posts[q]))
          /\ AnswersTheRequest(q, w.episode)
      BY <2>2, <2>5, <3>1 DEF WorkerAgrees
    <3>3. w.episode = None \/ Episode(posts'[q], w.episode)
      BY <1>5, <1>6, <3>2 DEF NotNewer
    <3>4. posts'[q] \in Seq(Posts) /\ Numbered(posts'[q])
      BY <1>3, <1>5, <1>6
    <3>5. NotNewer(posts'[q], w.episode, LatestOf(posts'[q]))
      BY <3>3, <3>4, LatestFound DEF NotNewer
    <3>6. NotNewer(posts'[q], w.downloads[q], w.episode) /\ AnswersTheRequest(q, w.episode)'
      BY <1>7, <1>8, <3>2
    <3> QED
      BY <3>1, <3>5, <3>6 DEF PodcastOf
  <2>6. WorkerAgrees(w)'
    BY <1>1, <2>2, <2>3, <2>4, <2>5 DEF WorkerAgrees, Through, PodcastOf
  <2>7. worker'[t] = w
    BY <1>1, <2>1
  <2> QED
    BY <2>6, <2>7 DEF WorkerAgrees, Current, Vouched, AnswersTheRequest, Through, PodcastOf, Stored
<1>12. FinishedRefresh' => \A q \in Podcasts \ cut' : Vouched(q, feeds[q], downloads[q])'
  <2> SUFFICES ASSUME FinishedRefresh, NEW q \in Podcasts \ cut
               PROVE  Vouched(q, feeds[q], downloads[q])'
    BY <1>1 DEF FinishedRefresh
  <2>1. PICK feed, d : feed = feeds[q] /\ d = downloads[q]
    OBVIOUS
  <2>2. Vouched(q, feed, d)'
    BY <1>9, <2>1 DEF AgreeInv
  <2> QED
    BY <1>1, <2>1, <2>2 DEF Vouched, AnswersTheRequest, Stored
<1>13. (\A q \in Podcasts \ cut' : Vouched(q, feeds[q], downloads[q])')
       => (\A q \in Podcasts \ cut : Vouched(q, feeds[q], downloads[q]))'
  OBVIOUS
<1> QED
  BY <1>10, <1>11, <1>12, <1>13 DEF AgreeInv

-----------------------------------------------------------------------------

LEMMA InitAgrees == Init => AgreeInv
<1> SUFFICES ASSUME Init PROVE AgreeInv
  OBVIOUS
<1>1. \A p \in Podcasts : posts[p] = <<>> /\ downloads[p] = 0 /\ asked[p] = 0
  BY DEF Init
<1>2. Numbered(<<>>) /\ Len(<<>>) = 0
  BY DEF Numbered
<1>3. WorldAgrees
  BY <1>1, <1>2 DEF WorldAgrees, Current, NotNewer, None
<1>4. \A t \in Workers : WorkerAgrees(worker[t])
  BY DEF Init, WorkerAgrees, IdleWorker
<1>5. ~FinishedRefresh
  BY DEF Init, FinishedRefresh
<1> QED
  BY <1>3, <1>4, <1>5 DEF AgreeInv

\* Only SaveDownloads writes downloads.json.
LEMMA NextAgrees ==
    RefreshInv /\ AgreeInv /\ [Next]_vars =>
        /\ AgreeInv'
        /\ \/ UNCHANGED downloads
           \/ \A p \in Podcasts \ cut' : NotNewer(posts[p], downloads[p], downloads'[p])
<1> SUFFICES ASSUME RefreshInv, AgreeInv, [Next]_vars
             PROVE  /\ AgreeInv'
                    /\ \/ UNCHANGED downloads
                       \/ \A p \in Podcasts \ cut' : NotNewer(posts[p], downloads[p], downloads'[p])
  OBVIOUS
<1>1. CASE UNCHANGED vars
  BY <1>1 DEF vars, AgreeInv, WorldAgrees, WorkerAgrees, FinishedRefresh, Current, Vouched,
              AnswersTheRequest, Through, PodcastOf, Stored
<1>2. ASSUME NEW t \in Workers, Begin(t) PROVE AgreeInv' /\ UNCHANGED downloads
  BY <1>2, BeginAgrees DEF Begin
<1>3. ASSUME NEW t \in Workers, StartFails(t) \/ Abort(t) PROVE AgreeInv' /\ UNCHANGED downloads
  BY <1>3, EndsAgree DEF StartFails, Abort
<1>4. ASSUME NEW t \in Workers, Work(t), ~SaveDownloads(t) PROVE AgreeInv' /\ UNCHANGED downloads
  <2>1. UNCHANGED downloads
    BY <1>4 DEF Work, Load, FetchFails, Fetch, Download, Remove, SaveFeeds
  <2> QED
    BY <1>4, <2>1, LoadAgrees, FetchAgrees, DownloadAgrees, RemoveAgrees, SaveFeedsAgrees DEF Work
<1>5. CASE Crash
  BY <1>5, CrashAgrees DEF Crash
<1>6. ASSUME NEW p \in Podcasts, NEW kind \in Kinds[p], Publish(p, kind[1], kind[2])
      PROVE  AgreeInv' /\ UNCHANGED downloads
  BY <1>6, PublishAgrees DEF Publish
<1> QED
  BY <1>1, <1>2, <1>3, <1>4, <1>5, <1>6, SaveDownloadsAgrees DEF Next

\* When a refresh has run to its end, the two metadata files and the media
\* agree about every podcast reported as ok and whose feed has always come
\* whole: for any number of threads that try to refresh, failures and crashes at
\* any step, and posts of any kind, date and order.  The proviso is what the
\* code needs, not what the proof does: see the comment of the property.
THEOREM FinishedAgrees == Spec => []FinishedRefreshAgrees
<1>1. AgreeInv => FinishedRefreshAgrees
  BY DEF AgreeInv, FinishedRefresh, FinishedRefreshAgrees, Vouched
<1> QED
  BY <1>1, InitRefresh, NextRefresh, InitAgrees, NextAgrees, PTL DEF Spec

\* While a feed comes whole downloads.json only goes forward: the copy that a
\* refresh writes back is nowhere behind the file, because nobody else wrote it
\* in the meantime and the parser finds nothing older than what it found before.
THEOREM DownloadsGoForward == Spec => NoStaleOverwrite
<1> DEFINE Forward == \A p \in Podcasts \ cut' :
                         /\ ~Older(posts[p], downloads'[p], downloads[p])
                         /\ downloads[p] # 0 => downloads'[p] # 0
<1>1. RefreshInv /\ AgreeInv /\ [Next]_vars => [Forward]_vars
  <2> SUFFICES ASSUME RefreshInv, AgreeInv, Next, NEW p \in Podcasts \ cut'
               PROVE  /\ ~Older(posts[p], downloads'[p], downloads[p])
                      /\ downloads[p] # 0 => downloads'[p] # 0
    BY DEF Forward
  <2>1. posts[p] \in Seq(Posts) /\ Numbered(posts[p])
    BY DEF AgreeInv, WorldAgrees, RefreshInv, TypeOK
  <2>2. ~Older(posts[p], downloads[p], downloads[p])
    <3>1. \A i \in EpisodesAt(posts[p]) : i \in Nat /\ posts[p][i].date \in Nat
      BY <2>1, PostAt
    <3> QED
      BY <2>1, <3>1, PostAt DEF Older, Numbered
  <2>3. CASE UNCHANGED downloads
    BY <2>2, <2>3
  <2>4. CASE NotNewer(posts[p], downloads[p], downloads'[p])
    <3>1. ~Episode(posts[p], None)
      BY <2>1, OrderFacts
    <3> QED
      BY <2>4, <3>1 DEF NotNewer, Older, Episode, None
  <2> QED
    BY <2>3, <2>4, NextAgrees
<1>2. NoStaleOverwrite <=> [][Forward]_vars
  BY DEF NoStaleOverwrite
<1> HIDE DEF Forward
<1> QED
  BY <1>1, <1>2, InitRefresh, NextRefresh, InitAgrees, NextAgrees, PTL DEF Spec

\* A refresh that has run to its end keeps, of every podcast it reports as ok
\* and whose feed has always come whole, an episode than which none of those
\* posted when it began is newer in the parser's order, whatever dates the posts
\* have or lack and at whichever end of the feed they were put.
THEOREM RefreshKeepsNewest == Spec => []NewestIsKept
<1>1. RefreshInv /\ AgreeInv => NewestIsKept
  <2> SUFFICES ASSUME RefreshInv, AgreeInv, FinishedRefresh,
                      NEW p \in Podcasts \ cut, feeds[p].status = "ok",
                      NEW n \in 1 .. asked[p], Older(posts[p], downloads[p], n)
               PROVE  FALSE
    BY DEF NewestIsKept
  <2>1. AnswersTheRequest(p, downloads[p])
    BY DEF AgreeInv, Vouched
  <2>2. Episode(posts[p], n) /\ n # None
    BY DEF Older, Episode, None
  <2>3. asked[p] \in Nat
    BY DEF RefreshInv, TypeOK, DownloadTables
  <2>4. NotNewer(posts[p], n, downloads[p])
    BY <2>1, <2>2, <2>3 DEF AnswersTheRequest
  <2> QED
    BY <2>2, <2>4 DEF NotNewer
<1> QED
  BY <1>1, InitRefresh, NextRefresh, InitAgrees, NextAgrees, PTL DEF Spec
=============================================================================
