------------------------- MODULE FeedRefreshProofs -------------------------
(***************************************************************************)
(* Theorems about FeedRefresh, for any podcasts, any number of threads and *)
(* any feeds: what the feed parser selects, the types, that one refresh    *)
(* runs at a time, and that no podcast ever loses its audio.               *)
(***************************************************************************)
EXTENDS FeedRefresh, NumberFacts, SequenceTheorems, TLAPS

-----------------------------------------------------------------------------
(* What the feed parser selects, for any feed.                              *)

\* The first supported enclosure is one of those listed, and has an address or
\* none.
LEMMA MediaUrlTyped ==
    ASSUME NEW entry \in Entries, SupportedAt(entry) # {}
    PROVE  /\ Min(SupportedAt(entry)) \in SupportedAt(entry)
           /\ \A i \in SupportedAt(entry) : Min(SupportedAt(entry)) <= i
           /\ MediaUrl(entry) \in Nat
<1> DEFINE E == Enclosures \cup Links
           q == Listed(entry)
<1>1. entry.enclosures \in Seq(E) /\ entry.links \in Seq(E)
  BY SeqMonotonic DEF Entries
<1>2. q \in Seq(E)
  BY <1>1 DEF Listed
<1>3. SupportedAt(entry) \in SUBSET Nat /\ SupportedAt(entry) \subseteq DOMAIN q
  <2>1. DOMAIN q \subseteq Nat
    BY <1>2, LenProperties
  <2> QED
    BY <2>1 DEF SupportedAt
<1>4. /\ Min(SupportedAt(entry)) \in SupportedAt(entry)
      /\ \A i \in SupportedAt(entry) : Min(SupportedAt(entry)) <= i
  BY <1>3, MinIn
<1>5. \A i \in DOMAIN q : q[i].url \in Nat
  <2> TAKE i \in DOMAIN q
  <2>1. q[i] \in E
    BY <1>2, ElementOfSeq, LenProperties
  <2> QED
    BY <2>1 DEF Enclosures, Links
<1> QED
  BY <1>3, <1>4, <1>5 DEF MediaUrl

LEMMA IdentityTyped ==
    ASSUME NEW entry \in Entries, Playable(entry)
    PROVE  Identity(entry) \in Nat \ {None}
BY MediaUrlTyped DEF Playable, Identity, Entries, None

LEMMA PublishedAtTyped ==
    ASSUME NEW entry \in Entries
    PROVE  PublishedAt(entry) \in Nat
<1> DEFINE readable == {i \in DOMAIN entry.dates : entry.dates[i] # None}
<1>1. entry.dates \in Seq(Nat)
  BY DEF Entries
<1>2. readable \in SUBSET Nat /\ readable \subseteq DOMAIN entry.dates
  BY <1>1, LenProperties
<1>3. CASE readable = {}
  BY <1>3 DEF PublishedAt, None
<1>4. CASE readable # {}
  <2> HIDE DEF readable
  <2>1. Min(readable) \in DOMAIN entry.dates
    BY <1>2, <1>4, MinIn
  <2>2. entry.dates[Min(readable)] \in Nat
    BY <1>1, <2>1, ElementOfSeq, LenProperties
  <2> QED
    BY <1>4, <2>2 DEF PublishedAt, readable
<1> QED
  BY <1>3, <1>4

\* parse_feed selects the newest playable episode: from a feed with a playable
\* entry one of the latest date, and of these the first; from any other none.
THEOREM LatestIsNewest ==
    ASSUME NEW entries \in Seq(Entries)
    PROVE  /\ Candidates(entries) = {} => LatestEpisode(entries) = None
           /\ Candidates(entries) # {} =>
                 \E i \in Candidates(entries) :
                    /\ LatestEpisode(entries) = Identity(entries[i])
                    /\ \A j \in Candidates(entries) :
                          /\ PublishedAt(entries[j]) <= PublishedAt(entries[i])
                          /\ j < i => PublishedAt(entries[j]) < PublishedAt(entries[i])
<1>1. CASE Candidates(entries) = {}
  BY <1>1 DEF LatestEpisode
<1>2. CASE Candidates(entries) # {}
  <2> DEFINE C == Candidates(entries)
             n == Len(entries)
             date == [i \in 1 .. n |-> PublishedAt(entries[i])]
             N == NewestAt(entries)
  <2>1. n \in Nat /\ C \in SUBSET (1 .. n)
    BY LenProperties DEF Candidates
  <2>2. \A i \in 1 .. n : PublishedAt(entries[i]) \in Nat
    BY PublishedAtTyped, ElementOfSeq
  <2>3. date \in [1 .. n -> Nat]
    BY <2>2
  <2>4. \A i \in C : date[i] = PublishedAt(entries[i])
    BY <2>1
  <2>5. \E i \in C : \A j \in C : date[j] <= date[i]
    <3> HIDE DEF date, C
    <3> QED
      BY <1>2, <2>1, <2>3, GreatestAmong DEF C
  <2>6. N # {} /\ N \subseteq C /\ N \in SUBSET Nat
    <3> HIDE DEF date
    <3>1. N # {}
      BY <2>4, <2>5 DEF NewestAt
    <3>2. N \subseteq C
      BY DEF NewestAt
    <3> QED
      BY <2>1, <3>1, <3>2
  <2> DEFINE i == Min(N)
  <2>7. i \in N /\ \A j \in N : i <= j
    <3> HIDE DEF N
    <3> QED
      BY <2>6, MinIn
  <2> HIDE DEF i
  <2>8. \A j \in C : PublishedAt(entries[j]) <= PublishedAt(entries[i])
    BY <2>7 DEF NewestAt
  <2>9. ASSUME NEW j \in C, j < i PROVE PublishedAt(entries[j]) < PublishedAt(entries[i])
    <3>1. j \notin N
      <4>1. i \in Nat /\ j \in Nat
        BY <2>1, <2>6, <2>7
      <4> HIDE DEF N
      <4> QED
        BY <2>7, <2>9, <4>1
    <3>2. PICK k \in C : ~(PublishedAt(entries[k]) <= PublishedAt(entries[j]))
      BY <3>1 DEF NewestAt
    <3>3. PublishedAt(entries[k]) <= PublishedAt(entries[i])
      BY <2>8
    <3>4. /\ PublishedAt(entries[i]) \in Nat /\ PublishedAt(entries[j]) \in Nat
          /\ PublishedAt(entries[k]) \in Nat
      BY <2>1, <2>2, <2>6, <2>7
    <3> QED
      BY <3>2, <3>3, <3>4
  <2>10. LatestEpisode(entries) = Identity(entries[i])
    BY <1>2 DEF LatestEpisode, i
  <2> QED
    BY <2>6, <2>7, <2>8, <2>9, <2>10
<1> QED
  BY <1>1, <1>2

\* What the parser says of a feed is an identity or none.
LEMMA LatestTyped ==
    ASSUME NEW entries \in Seq(Entries)
    PROVE  LatestEpisode(entries) \in Nat
<1>1. CASE Candidates(entries) = {}
  BY <1>1, LatestIsNewest DEF None
<1>2. CASE Candidates(entries) # {}
  <2>1. PICK i \in Candidates(entries) : LatestEpisode(entries) = Identity(entries[i])
    BY <1>2, LatestIsNewest
  <2>2. entries[i] \in Entries /\ Playable(entries[i])
    BY ElementOfSeq, LenProperties DEF Candidates
  <2> QED
    BY <2>1, <2>2, IdentityTyped
<1> QED
  BY <1>1, <1>2

-----------------------------------------------------------------------------
(* The invariant of the refresh.                                           *)

HasFile(p) == \E file \in files : file[1] = p

Working(t) == worker[t].at # "idle"

\* A worker has failed at most once for each podcast it has been through, its
\* copy of downloads.json names no podcast without a file, the episode it
\* downloads is not the one it has, and when it is about to remove the previous
\* file the new one is in place.
WorkerSound(w) ==
    /\ w.failed <= w.i
    /\ w.at \notin {"save_feeds", "save_downloads"} => w.failed < w.i
    /\ w.at \notin {"idle", "starting"} =>
          \A p \in Podcasts : w.downloads[p] # 0 => HasFile(p)
    /\ w.at \in {"download", "remove"} => w.episode # w.downloads[PodcastOf(w)]
    /\ w.at = "remove" => Stored(PodcastOf(w), w.episode) \in files

\* Only the refresh that has the slot is under way.
OneRefresh ==
    /\ \A t \in Workers : Working(t) => monitor.running
    /\ \A t, u \in Workers : Working(t) /\ Working(u) => t = u

\* NeverWithoutAudio is not inductive: downloads.json is overwritten with a
\* worker's copy, and a worker removes a file that downloads.json may still
\* name.
RefreshInv ==
    /\ TypeOK
    /\ OneRefresh
    /\ NeverWithoutAudio
    /\ \A t \in Workers : WorkerSound(worker[t])

Monitors == [running : BOOLEAN, result : Results, error : ErrorCodes]

\* What the others see of the disk and of the publishers is well typed.
DiskTyped ==
    /\ feeds \in FeedTables
    /\ downloads \in DownloadTables
    /\ files \subseteq Podcasts \X Nat
    /\ posts \in [Podcasts -> Seq(Posts)]
    /\ asked \in DownloadTables
    /\ cut \subseteq Podcasts

-----------------------------------------------------------------------------

LEMMA PodcastOfTyped ==
    ASSUME NEW w \in WorkerStates
    PROVE  PodcastOf(w) \in Podcasts /\ w.i \in Nat /\ w.i <= Len(PodcastIds)
<1>1. PodcastIds \in Seq(Podcasts)
  BY FeedRefreshAssumption
<1>2. w.i \in DOMAIN PodcastIds
  BY DEF WorkerStates
<1> QED
  BY <1>1, <1>2, ElementOfSeq, LenProperties DEF PodcastOf

LEMMA IdleWorkerSound ==
    IdleWorker \in WorkerStates /\ WorkerSound(IdleWorker) /\ IdleWorker.at = "idle"
<1>1. 1 \in DOMAIN PodcastIds /\ Len(PodcastIds) \in Nat
  <2>1. PodcastIds \in Seq(Podcasts) /\ PodcastIds # <<>>
    BY FeedRefreshAssumption
  <2> QED
    BY <2>1
<1>2. [p \in Podcasts |-> [status |-> "unknown", episode |-> 0]] \in FeedTables
  BY DEF FeedTables, FeedStatuses
<1>3. [p \in Podcasts |-> 0] \in DownloadTables
  BY DEF DownloadTables
<1>4. IdleWorker \in WorkerStates
  BY <1>1, <1>2, <1>3 DEF IdleWorker, WorkerStates, Places
<1>5. WorkerSound(IdleWorker)
  BY DEF IdleWorker, WorkerSound
<1> QED
  BY <1>4, <1>5 DEF IdleWorker

\* A step of the one worker under way leaves the invariant to what is said of
\* its own state and of the disk.
LEMMA StepSound ==
    ASSUME RefreshInv, NEW t \in Workers, Working(t),
           NEW w \in WorkerStates, Step(t, w),
           w.at # "idle" => monitor'.running, monitor' \in Monitors,
           DiskTyped', NeverWithoutAudio', WorkerSound(w)'
    PROVE  RefreshInv'
<1>1. worker \in [Workers -> WorkerStates]
  BY DEF RefreshInv, TypeOK
<1>2. worker' = [worker EXCEPT ![t] = w]
  BY DEF Step
<1>3. worker'[t] = w /\ \A u \in Workers \ {t} : worker'[u] = worker[u]
  BY <1>1, <1>2
<1>4. \A u \in Workers \ {t} : worker[u].at = "idle"
  BY DEF RefreshInv, OneRefresh, Working
<1>5. worker' \in [Workers -> WorkerStates]
  BY <1>1, <1>2
<1>6. TypeOK'
  BY <1>5 DEF TypeOK, DiskTyped, Monitors
<1>7. OneRefresh'
  BY <1>3, <1>4 DEF OneRefresh, Working
<1>8. \A u \in Workers : WorkerSound(worker[u])'
  <2> TAKE u \in Workers
  <2>1. CASE u = t
    BY <1>3, <2>1 DEF WorkerSound, PodcastOf
  <2>2. CASE u # t
    <3>1. WorkerSound(worker[u])
      BY DEF RefreshInv
    <3> QED
      BY <1>3, <1>4, <2>2, <3>1 DEF WorkerSound
  <2> QED
    BY <2>1, <2>2
<1> QED
  BY <1>6, <1>7, <1>8 DEF RefreshInv

\* A refresh that ends, in whichever way.
LEMMA FinishSound ==
    ASSUME RefreshInv, NEW t \in Workers, Working(t),
           NEW result \in Results, NEW error \in ErrorCodes, Finish(t, result, error),
           DiskTyped', NeverWithoutAudio'
    PROVE  RefreshInv'
<1>1. Step(t, IdleWorker) /\ monitor' \in Monitors
  BY DEF Finish, Done, Monitors
<1>2. WorkerSound(IdleWorker)'
  BY DEF WorkerSound, IdleWorker
<1> QED
  BY <1>1, <1>2, IdleWorkerSound, StepSound

-----------------------------------------------------------------------------
(* The steps of a refresh.                                                 *)

\* What holds of the worker that takes a step.
LEMMA AtStart ==
    ASSUME RefreshInv, NEW t \in Workers
    PROVE  /\ worker[t] \in WorkerStates /\ WorkerSound(worker[t])
           /\ DiskTyped /\ NeverWithoutAudio /\ monitor \in Monitors
           /\ Working(t) => monitor.running
BY DEF RefreshInv, TypeOK, DiskTyped, Monitors, OneRefresh

LEMMA FailedSound ==
    ASSUME NEW w \in WorkerStates, WorkerSound(w), NEW status \in FeedStatuses,
           w.at \in {"fetch", "download", "remove"}
    PROVE  /\ Failed(w, status) \in WorkerStates /\ WorkerSound(Failed(w, status))
           /\ Failed(w, status).at = "save_feeds"
           /\ Failed(w, status).downloads = w.downloads
           /\ Failed(w, status).failed = w.failed + 1 /\ Failed(w, status).i = w.i
           /\ Failed(w, status).feeds[PodcastOf(w)].status = status
           /\ \A q \in Podcasts \ {PodcastOf(w)} : Failed(w, status).feeds[q] = w.feeds[q]
<1> DEFINE f == Failed(w, status)
           p == PodcastOf(w)
           table == [w.feeds EXCEPT ![p].status = status]
<1>1. p \in Podcasts /\ w.i \in Nat /\ w.i <= Len(PodcastIds) /\ w.failed \in Nat
      /\ w.failed < w.i /\ w.feeds \in FeedTables /\ w.downloads \in DownloadTables
  BY PodcastOfTyped DEF WorkerStates, WorkerSound
<1>2. /\ table \in FeedTables /\ table[p].status = status
      /\ \A q \in Podcasts \ {p} : table[q] = w.feeds[q]
  BY <1>1 DEF FeedTables
<1>3. f = [w EXCEPT !.at = "save_feeds", !.failed = w.failed + 1, !.feeds = table]
  BY DEF Failed, WorkerStates
<1>4. w.failed + 1 \in 0 .. Len(PodcastIds)
  <2>1. Len(PodcastIds) \in Nat
    BY FeedRefreshAssumption, LenProperties
  <2> QED
    BY <1>1, <2>1
<1> HIDE DEF table
<1>5. f \in WorkerStates /\ f.at = "save_feeds" /\ f.failed = w.failed + 1 /\ f.i = w.i
      /\ f.downloads = w.downloads /\ f.feeds = table
  BY <1>2, <1>3, <1>4 DEF WorkerStates, Places
<1> HIDE DEF f
<1>6. WorkerSound(f)
  BY <1>1, <1>5 DEF WorkerSound
<1> QED
  BY <1>2, <1>5, <1>6 DEF f

LEMMA RecordedSound ==
    ASSUME NEW w \in WorkerStates, WorkerSound(w), NEW e \in Nat,
           w.at \in {"fetch", "remove"}
    PROVE  /\ Recorded(w, e) \in WorkerStates
           /\ Recorded(w, e).at = "save_feeds"
           /\ Recorded(w, e).failed = w.failed /\ Recorded(w, e).i = w.i
           /\ Recorded(w, e).downloads = [w.downloads EXCEPT ![PodcastOf(w)] = e]
           /\ Recorded(w, e).feeds[PodcastOf(w)].episode = e
           /\ \A q \in Podcasts \ {PodcastOf(w)} : Recorded(w, e).feeds[q] = w.feeds[q]
<1> DEFINE p == PodcastOf(w)
           table == [w.feeds EXCEPT ![p] = [status |-> "ok", episode |-> e]]
           kept == [w.downloads EXCEPT ![p] = e]
<1>1. p \in Podcasts /\ w.feeds \in FeedTables /\ w.downloads \in DownloadTables
  BY PodcastOfTyped DEF WorkerStates
<1>2. /\ table \in FeedTables /\ kept \in DownloadTables /\ table[p].episode = e
      /\ \A q \in Podcasts \ {p} : table[q] = w.feeds[q]
  BY <1>1 DEF FeedTables, FeedStatuses, DownloadTables
<1>3. Recorded(w, e) = [w EXCEPT !.at = "save_feeds", !.feeds = table, !.downloads = kept]
  BY DEF Recorded, WorkerStates
<1> HIDE DEF table, kept
<1>4. [w EXCEPT !.at = "save_feeds", !.feeds = table, !.downloads = kept] \in WorkerStates
  BY <1>2 DEF WorkerStates, Places
<1> QED
  BY <1>2, <1>3, <1>4 DEF kept, WorkerStates

LEMMA NothingPlayableSound ==
    ASSUME NEW w \in WorkerStates, WorkerSound(w), w.at = "fetch"
    PROVE  /\ NothingPlayable(w) \in WorkerStates /\ WorkerSound(NothingPlayable(w))
           /\ NothingPlayable(w).at = "save_feeds" /\ NothingPlayable(w).i = w.i
           /\ NothingPlayable(w).downloads = w.downloads
           /\ NothingPlayable(w).feeds[PodcastOf(w)].status = "no_playable_episode"
           /\ \A q \in Podcasts \ {PodcastOf(w)} : NothingPlayable(w).feeds[q] = w.feeds[q]
<1> DEFINE p == PodcastOf(w)
           table == [w.feeds EXCEPT ![p] = [status |-> "no_playable_episode", episode |-> 0]]
           n == [w EXCEPT !.at = "save_feeds", !.feeds = table]
<1>1. p \in Podcasts /\ w.feeds \in FeedTables
  BY PodcastOfTyped DEF WorkerStates
<1>2. /\ table \in FeedTables /\ table[p].status = "no_playable_episode"
      /\ \A q \in Podcasts \ {p} : table[q] = w.feeds[q]
  BY <1>1 DEF FeedTables, FeedStatuses
<1>3. NothingPlayable(w) = n
  BY DEF NothingPlayable, WorkerStates
<1> HIDE DEF table
<1>4. n \in WorkerStates /\ n.at = "save_feeds" /\ n.failed = w.failed /\ n.i = w.i
      /\ n.downloads = w.downloads /\ n.feeds = table
  BY <1>2 DEF WorkerStates, Places
<1> HIDE DEF n
<1>5. WorkerSound(n)
  BY <1>4 DEF WorkerSound
<1> QED
  BY <1>2, <1>3, <1>4, <1>5

\* A step that only works on the worker's own state.
LEMMA OwnStepSound ==
    ASSUME RefreshInv, NEW t \in Workers, Working(t), NEW w \in WorkerStates,
           WorkerSound(w), Step(t, w),
           UNCHANGED <<monitor, feeds, downloads, files, posts, asked>>,
           cut' \subseteq Podcasts
    PROVE  RefreshInv'
<1>1. DiskTyped /\ NeverWithoutAudio /\ monitor \in Monitors /\ monitor.running
  BY AtStart
<1>2. DiskTyped' /\ NeverWithoutAudio' /\ monitor' \in Monitors /\ monitor'.running
  BY <1>1 DEF DiskTyped, NeverWithoutAudio
<1>3. WorkerSound(w)'
  BY DEF WorkerSound, HasFile, PodcastOf, Stored
<1> QED
  BY <1>2, <1>3, StepSound

\* What a server answers has the shape of a feed.
LEMMA EntryTyped ==
    ASSUME NEW post \in Posts
    PROVE  EntryOf(post) \in Entries
<1>1. post.number \in Nat /\ post.number # 0 /\ post.number + 1 \in Nat /\ post.date \in Nat
  BY DEF Posts
<1> DEFINE audio == [supported |-> TRUE, url |-> post.number]
           video == [supported |-> FALSE, url |-> post.number]
           page == [supported |-> TRUE, url |-> post.number + 1, enclosure |-> FALSE]
           link == [supported |-> TRUE, url |-> post.number, enclosure |-> TRUE]
<1>2. audio \in Enclosures /\ video \in Enclosures /\ page \in Links /\ link \in Links
  BY <1>1 DEF Enclosures, Links
<1> HIDE DEF audio, video, page, link
<1>3. <<>> \in Seq(Links) /\ <<page>> \in Seq(Links) /\ <<link>> \in Seq(Links)
      /\ <<audio>> \in Seq(Enclosures) /\ <<video>> \in Seq(Enclosures)
  BY <1>2
<1> DEFINE more == IF post.kind = "linked" THEN <<link>> ELSE <<>>
           links == <<page>> \o more
           enclosures == IF post.kind = "enclosed" THEN <<audio>> ELSE <<video>>
           guid == IF post.kind = "linked" THEN None ELSE post.number
           dates == IF post.kind = "linked" THEN <<None, post.date>> ELSE <<post.date, None>>
<1>4. more \in Seq(Links)
  BY <1>3
<1> HIDE DEF more
<1>5. links \in Seq(Links)
  BY <1>3, <1>4
<1>6. enclosures \in Seq(Enclosures)
  BY <1>3
<1>7. dates \in Seq(Nat) /\ guid \in Nat
  BY <1>1 DEF None
<1>8. EntryOf(post) = [enclosures |-> enclosures, links |-> links, guid |-> guid,
                       dates |-> dates]
  BY DEF EntryOf, audio, video, page, link, more
<1> HIDE DEF enclosures, links, guid, dates
<1> QED
  BY <1>5, <1>6, <1>7, <1>8 DEF Entries

\* A post of which the episode does not arrive is one without audio.
Arrived(s, S, i) == IF i \in S THEN s[i] ELSE [s[i] EXCEPT !.kind = "video"]

LEMMA ArrivedTyped ==
    ASSUME NEW s \in Seq(Posts), NEW S, NEW i \in DOMAIN s
    PROVE  /\ s[i] \in Posts /\ Arrived(s, S, i) \in Posts
           /\ Arrived(s, S, i).number = s[i].number /\ Arrived(s, S, i).date = s[i].date
           /\ Arrived(s, S, i).kind = IF i \in S THEN s[i].kind ELSE "video"
<1>1. s[i] \in Posts
  BY ElementOfSeq, LenProperties
<1>2. "video" \in PostKinds
  BY DEF PostKinds
<1> QED
  BY <1>1, <1>2 DEF Arrived, Posts

LEMMA ServedTyped ==
    ASSUME NEW s \in Seq(Posts), NEW S
    PROVE  /\ Served(s, S) \in Seq(Entries) /\ DOMAIN Served(s, S) = DOMAIN s
           /\ \A i \in DOMAIN s : Served(s, S)[i] = EntryOf(Arrived(s, S, i))
<1>1. DOMAIN s = 1 .. Len(s) /\ Len(s) \in Nat
  BY LenProperties
<1>2. \A i \in 1 .. Len(s) : EntryOf(Arrived(s, S, i)) \in Entries
  BY <1>1, EntryTyped, ArrivedTyped
<1>3. Served(s, S) = [i \in 1 .. Len(s) |-> EntryOf(Arrived(s, S, i))]
  BY <1>1 DEF Served, Arrived
<1>4. Served(s, S) \in Seq(Entries)
  BY <1>1, <1>2, <1>3, IsASeq
<1> QED
  BY <1>1, <1>3, <1>4

LEMMA DocumentsTyped ==
    ASSUME DiskTyped, NEW p \in Podcasts, NEW S, NEW document \in Documents(p, S)
    PROVE  ParseFeed(document).latest \in Nat
<1>1. posts[p] \in Seq(Posts)
  BY DEF DiskTyped
<1>2. Served(posts[p], S) \in Seq(Entries) /\ <<>> \in Seq(Entries)
  BY <1>1, ServedTyped
<1>3. document.entries \in {<<>>, Served(posts[p], S)}
  BY DEF Documents
<1>4. LatestEpisode(document.entries) \in Nat
  BY <1>2, <1>3, LatestTyped
<1> QED
  BY <1>4 DEF ParseFeed, None

-----------------------------------------------------------------------------
(* Each action.                                                            *)

LEMMA BeginSound ==
    ASSUME RefreshInv, NEW t \in Workers, Begin(t)
    PROVE  RefreshInv'
<1> DEFINE w == [worker[t] EXCEPT !.at = "starting"]
<1>1. /\ worker \in [Workers -> WorkerStates] /\ ~monitor.running
      /\ \A u \in Workers : ~Working(u)
      /\ \A u \in Workers : WorkerSound(worker[u])
      /\ DiskTyped /\ NeverWithoutAudio
  BY AtStart DEF Begin, RefreshInv, TypeOK, OneRefresh
<1>2. w \in WorkerStates /\ w.at = "starting" /\ w.failed = worker[t].failed
      /\ w.i = worker[t].i
  BY <1>1 DEF WorkerStates, Places
<1>3. worker' = [worker EXCEPT ![t] = w]
      /\ monitor' = [running |-> TRUE, result |-> NoResult, error |-> NoResult]
      /\ asked' = [p \in Podcasts |-> Len(posts[p])]
      /\ UNCHANGED <<feeds, downloads, files, posts, cut>>
  BY DEF Begin, Step
<1>4. asked' \in DownloadTables
  <2>1. \A p \in Podcasts : Len(posts[p]) \in Nat
    BY <1>1, LenProperties DEF DiskTyped
  <2> QED
    BY <1>3, <2>1 DEF DownloadTables
<1>5. DiskTyped' /\ NeverWithoutAudio'
  BY <1>1, <1>3, <1>4 DEF DiskTyped, NeverWithoutAudio
<1> HIDE DEF w
<1>6. worker' \in [Workers -> WorkerStates] /\ worker'[t] = w
      /\ \A u \in Workers \ {t} : worker'[u] = worker[u]
  BY <1>1, <1>2, <1>3
<1>7. TypeOK'
  BY <1>3, <1>5, <1>6 DEF TypeOK, DiskTyped, Results, ErrorCodes
<1>8. OneRefresh'
  BY <1>1, <1>3, <1>6 DEF OneRefresh, Working
<1>9. \A u \in Workers : WorkerSound(worker[u])'
  <2> TAKE u \in Workers
  <2>1. CASE u = t
    BY <1>1, <1>2, <1>6, <2>1 DEF WorkerSound, Working
  <2>2. CASE u # t
    BY <1>1, <1>6, <2>2 DEF WorkerSound, Working
  <2> QED
    BY <2>1, <2>2
<1> QED
  BY <1>5, <1>7, <1>8, <1>9 DEF RefreshInv

LEMMA EndsSound ==
    ASSUME RefreshInv, NEW t \in Workers, StartFails(t) \/ Abort(t)
    PROVE  RefreshInv'
<1>1. Working(t) /\ UNCHANGED <<feeds, downloads, files, posts, asked, cut>>
  BY DEF StartFails, Abort, Working
<1>2. \/ Finish(t, "failed", "refresh_start_failed")
      \/ Finish(t, "failed", "refresh_failed")
  BY DEF StartFails, Abort
<1>3. DiskTyped' /\ NeverWithoutAudio'
  BY <1>1, AtStart DEF DiskTyped, NeverWithoutAudio
<1> QED
  BY <1>1, <1>2, <1>3, FinishSound DEF Results, ErrorCodes

LEMMA FetchSound ==
    ASSUME RefreshInv, NEW t \in Workers, Load(t) \/ FetchFails(t) \/ Fetch(t)
    PROVE  RefreshInv'
<1> DEFINE w == worker[t]
           p == PodcastOf(w)
<1>0. /\ w \in WorkerStates /\ WorkerSound(w) /\ DiskTyped /\ NeverWithoutAudio
      /\ p \in Podcasts /\ UNCHANGED <<monitor, feeds, downloads, files, posts, asked>>
      /\ cut' \subseteq Podcasts
  <2>1. /\ w \in WorkerStates /\ WorkerSound(w) /\ DiskTyped /\ NeverWithoutAudio
        /\ p \in Podcasts
    BY AtStart, PodcastOfTyped
  <2>2. UNCHANGED <<monitor, feeds, downloads, files, posts, asked>>
    BY DEF Load, FetchFails, Fetch
  <2>3. cut' = cut \/ cut' = cut \cup {p}
    BY DEF Load, FetchFails, Fetch
  <2> QED
    BY <2>1, <2>2, <2>3 DEF DiskTyped
<1>1. CASE Load(t)
  <2>1. w.at = "starting" /\ Step(t, Loaded(w)) /\ Working(t)
    BY <1>1 DEF Load, Working
  <2>2. /\ Loaded(w) \in WorkerStates /\ Loaded(w).at = "fetch"
        /\ Loaded(w).failed = w.failed /\ Loaded(w).i = w.i
        /\ Loaded(w).downloads = downloads
    BY <1>0 DEF Loaded, WorkerStates, Places, DiskTyped
  <2>3. WorkerSound(Loaded(w))
    BY <1>0, <2>1, <2>2 DEF WorkerSound, NeverWithoutAudio, HasFile
  <2> QED
    BY <1>0, <2>1, <2>2, <2>3, OwnStepSound
<1>2. ASSUME w.at = "fetch", Step(t, Failed(w, "feed_failed")) PROVE RefreshInv'
  <2>1. Working(t) /\ "feed_failed" \in FeedStatuses
    BY <1>2 DEF Working, FeedStatuses
  <2> QED
    BY <1>0, <1>2, <2>1, FailedSound, OwnStepSound
<1>3. CASE FetchFails(t)
  BY <1>2, <1>3 DEF FetchFails
<1>4. CASE Fetch(t)
  <2>1. w.at = "fetch" /\ Working(t)
    BY <1>4 DEF Fetch, Working
  <2>0. PICK S \in SUBSET EpisodesAt(posts[p]) : \E document \in Documents(p, S) :
           LET e == ParseFeed(document).latest IN
           \/ Step(t, Failed(w, "feed_failed"))
           \/ Step(t, NothingPlayable(w))
           \/ e # None /\ e = w.downloads[p] /\ Step(t, Recorded(w, e))
           \/ e \notin {None, w.downloads[p]}
              /\ Step(t, [w EXCEPT !.at = "download", !.episode = e])
    BY <1>4 DEF Fetch
  <2>2. PICK document \in Documents(p, S) :
           LET e == ParseFeed(document).latest IN
           \/ Step(t, Failed(w, "feed_failed"))
           \/ Step(t, NothingPlayable(w))
           \/ e # None /\ e = w.downloads[p] /\ Step(t, Recorded(w, e))
           \/ e \notin {None, w.downloads[p]}
              /\ Step(t, [w EXCEPT !.at = "download", !.episode = e])
    BY <2>0
  <2> DEFINE e == ParseFeed(document).latest
  <2>3. e \in Nat
    BY <1>0, DocumentsTyped
  <2> HIDE DEF e
  <2>4. CASE Step(t, NothingPlayable(w))
    BY <1>0, <2>1, <2>4, NothingPlayableSound, OwnStepSound
  <2>5. CASE e # None /\ e = w.downloads[p] /\ Step(t, Recorded(w, e))
    <3>1. Recorded(w, e).downloads = w.downloads
      <4>1. w.downloads \in [Podcasts -> Nat]
        BY <1>0 DEF WorkerStates, DownloadTables
      <4> QED
        BY <1>0, <2>1, <2>3, <2>5, <4>1, RecordedSound
    <3>2. WorkerSound(Recorded(w, e))
      BY <1>0, <2>1, <2>3, <3>1, RecordedSound DEF WorkerSound
    <3> QED
      BY <1>0, <2>1, <2>3, <2>5, <3>2, RecordedSound, OwnStepSound
  <2>6. CASE e # w.downloads[p] /\ Step(t, [w EXCEPT !.at = "download", !.episode = e])
    <3> DEFINE d == [w EXCEPT !.at = "download", !.episode = e]
    <3>1. d \in WorkerStates /\ d.at = "download" /\ d.failed = w.failed /\ d.i = w.i
          /\ d.downloads = w.downloads /\ d.episode = e
      BY <1>0, <2>3 DEF WorkerStates, Places
    <3> HIDE DEF d
    <3>2. WorkerSound(d)
      <4>1. PodcastOf(d) = p
        BY <3>1 DEF PodcastOf
      <4> QED
        BY <1>0, <2>1, <2>6, <3>1, <4>1 DEF WorkerSound
    <3>3. Step(t, d)
      BY <2>6 DEF d
    <3> QED
      BY <1>0, <2>1, <3>1, <3>2, <3>3, OwnStepSound
  <2> QED
    BY <1>2, <2>1, <2>2, <2>4, <2>5, <2>6 DEF e
<1> QED
  BY <1>1, <1>3, <1>4

\* The new file is written before the old one is removed.
LEMMA DownloadSound ==
    ASSUME RefreshInv, NEW t \in Workers, Download(t)
    PROVE  RefreshInv'
<1> DEFINE w == worker[t]
           p == PodcastOf(w)
<1>0. /\ w \in WorkerStates /\ WorkerSound(w) /\ DiskTyped /\ NeverWithoutAudio
      /\ p \in Podcasts /\ w.at = "download" /\ Working(t) /\ monitor.running
      /\ monitor \in Monitors /\ UNCHANGED <<monitor, feeds, downloads, posts, asked, cut>>
  BY AtStart, PodcastOfTyped DEF Download, Working
<1>1. CASE UNCHANGED files /\ Step(t, Failed(w, "download_failed"))
  <2>1. "download_failed" \in FeedStatuses
    BY DEF FeedStatuses
  <2> QED
    BY <1>0, <1>1, <2>1, FailedSound, OwnStepSound DEF DiskTyped
<1>2. CASE /\ files' = files \cup {Stored(p, w.episode)}
           /\ Step(t, [w EXCEPT !.at = "remove"])
  <2>0. [w EXCEPT !.at = "remove"] \in WorkerStates
    BY <1>0 DEF WorkerStates, Places
  <2>1. PICK d \in WorkerStates :
           /\ d = [w EXCEPT !.at = "remove"]
           /\ d.at = "remove" /\ d.failed = w.failed /\ d.i = w.i
           /\ d.downloads = w.downloads /\ d.episode = w.episode
    BY <1>0, <2>0 DEF WorkerStates
  <2>2. Stored(p, w.episode) \in Podcasts \X Nat
    BY <1>0 DEF Stored, WorkerStates
  <2>3. DiskTyped' /\ NeverWithoutAudio'
    BY <1>0, <1>2, <2>2 DEF DiskTyped, NeverWithoutAudio
  <2>4. WorkerSound(d)'
    <3>1. PodcastOf(d) = p
      BY <2>1 DEF PodcastOf
    <3>2. \A q \in Podcasts : d.downloads[q] # 0 => HasFile(q)'
      BY <1>0, <1>2, <2>1 DEF WorkerSound, HasFile
    <3>3. d.failed < d.i /\ d.failed <= d.i
      BY <1>0, <2>1 DEF WorkerSound
    <3>4. Stored(p, d.episode) \in files' /\ d.episode # d.downloads[p]
      BY <1>0, <1>2, <2>1 DEF WorkerSound
    <3>5. PodcastOf(d)' = p
      BY <3>1 DEF PodcastOf
    <3> QED
      BY <2>1, <3>2, <3>3, <3>4, <3>5 DEF WorkerSound
  <2>5. Step(t, d)
    BY <1>2, <2>1
  <2> QED
    BY <1>0, <2>1, <2>3, <2>4, <2>5, StepSound
<1> QED
  BY <1>0, <1>1, <1>2 DEF Download

\* Removing the old file leaves the podcast the new one.
LEMMA RemoveSound ==
    ASSUME RefreshInv, NEW t \in Workers, Remove(t)
    PROVE  RefreshInv'
<1> DEFINE w == worker[t]
           p == PodcastOf(w)
           old == Stored(p, w.downloads[p])
<1>0. /\ w \in WorkerStates /\ WorkerSound(w) /\ DiskTyped /\ NeverWithoutAudio
      /\ p \in Podcasts /\ w.at = "remove" /\ Working(t) /\ monitor.running
      /\ monitor \in Monitors /\ UNCHANGED <<monitor, feeds, downloads, posts, asked, cut>>
  BY AtStart, PodcastOfTyped DEF Remove, Working
<1>1. CASE UNCHANGED files /\ Step(t, Failed(w, "download_failed"))
  <2>1. "download_failed" \in FeedStatuses
    BY DEF FeedStatuses
  <2> QED
    BY <1>0, <1>1, <2>1, FailedSound, OwnStepSound DEF DiskTyped
<1>2. CASE files' = files \ {old} /\ Step(t, Recorded(w, w.episode))
  <2> DEFINE e == w.episode
  <2>1. e \in Nat /\ w.downloads \in [Podcasts -> Nat]
    BY <1>0 DEF WorkerStates, DownloadTables
  <2>2. Stored(p, e) \in files' /\ Stored(p, e)[1] = p
    BY <1>0, <1>2 DEF WorkerSound, Stored
  <2>3. \A q \in Podcasts : HasFile(q) => HasFile(q)'
    <3> TAKE q \in Podcasts
    <3>1. CASE q = p
      BY <2>2, <3>1 DEF HasFile
    <3>2. CASE q # p
      <4>1. old[1] = p
        BY DEF Stored
      <4> HIDE DEF old
      <4> QED
        BY <1>2, <3>2, <4>1 DEF HasFile
    <3> QED
      BY <3>1, <3>2
  <2>4. DiskTyped' /\ NeverWithoutAudio'
    BY <1>0, <1>2, <2>3 DEF DiskTyped, NeverWithoutAudio, HasFile
  <2>5. PICK r \in WorkerStates :
           /\ r = Recorded(w, e) /\ r.at = "save_feeds"
           /\ r.failed = w.failed /\ r.i = w.i
           /\ r.downloads = [w.downloads EXCEPT ![p] = e]
    BY <1>0, <2>1, RecordedSound
  <2>6. \A q \in Podcasts : r.downloads[q] # 0 => HasFile(q)'
    <3> TAKE q \in Podcasts
    <3>1. CASE q = p
      BY <2>2, <3>1 DEF HasFile
    <3>2. CASE q # p
      BY <1>0, <2>1, <2>3, <2>5, <3>2 DEF WorkerSound
    <3> QED
      BY <3>1, <3>2
  <2>7. WorkerSound(r)'
    BY <1>0, <2>5, <2>6 DEF WorkerSound
  <2>8. Step(t, r)
    BY <1>2, <2>5
  <2> QED
    BY <1>0, <2>4, <2>5, <2>7, <2>8, StepSound
<1> QED
  BY <1>0, <1>1, <1>2 DEF Remove

LEMMA SavesSound ==
    ASSUME RefreshInv, NEW t \in Workers, SaveFeeds(t) \/ SaveDownloads(t)
    PROVE  RefreshInv'
<1> DEFINE w == worker[t]
<1>0. /\ w \in WorkerStates /\ WorkerSound(w) /\ DiskTyped /\ NeverWithoutAudio
      /\ w.at \in {"save_feeds", "save_downloads"} /\ Working(t) /\ monitor.running
      /\ monitor \in Monitors /\ UNCHANGED <<files, posts, asked, cut>>
      /\ w.i \in Nat /\ w.failed \in Nat
  BY AtStart, PodcastOfTyped DEF SaveFeeds, SaveDownloads, Working, WorkerStates
<1>1. CASE SaveFeeds(t)
  <2>0. [w EXCEPT !.at = "save_downloads"] \in WorkerStates
    BY <1>0 DEF WorkerStates, Places
  <2>1. PICK s \in WorkerStates :
           /\ s = [w EXCEPT !.at = "save_downloads"]
           /\ s.at = "save_downloads" /\ s.failed = w.failed /\ s.i = w.i
           /\ s.downloads = w.downloads
    BY <1>0, <2>0 DEF WorkerStates
  <2>2. feeds' = w.feeds /\ UNCHANGED <<monitor, downloads>> /\ Step(t, s)
    BY <1>1, <2>1 DEF SaveFeeds
  <2>3. DiskTyped' /\ NeverWithoutAudio'
    BY <1>0, <2>2 DEF DiskTyped, NeverWithoutAudio, WorkerStates
  <2>4. WorkerSound(s)'
    BY <1>0, <2>1 DEF WorkerSound, HasFile
  <2> QED
    BY <1>0, <2>1, <2>2, <2>3, <2>4, StepSound
<1>2. CASE SaveDownloads(t)
  <2>1. downloads' = w.downloads /\ UNCHANGED feeds
    BY <1>2 DEF SaveDownloads
  <2>2. DiskTyped' /\ NeverWithoutAudio'
    BY <1>0, <2>1 DEF DiskTyped, NeverWithoutAudio, WorkerStates, WorkerSound, HasFile
  <2>3. CASE /\ w.i < Len(PodcastIds) /\ UNCHANGED monitor
             /\ Step(t, [w EXCEPT !.at = "fetch", !.i = w.i + 1])
    <3>1. w.i + 1 \in DOMAIN PodcastIds
      <4>1. PodcastIds \in Seq(Podcasts)
        BY FeedRefreshAssumption
      <4>2. DOMAIN PodcastIds = 1 .. Len(PodcastIds) /\ Len(PodcastIds) \in Nat
        BY <4>1, LenProperties
      <4> QED
        BY <1>0, <2>3, <4>2
    <3>0. [w EXCEPT !.at = "fetch", !.i = w.i + 1] \in WorkerStates
      BY <1>0, <3>1 DEF WorkerStates, Places
    <3>2. PICK n \in WorkerStates :
             /\ n = [w EXCEPT !.at = "fetch", !.i = w.i + 1]
             /\ n.at = "fetch" /\ n.failed = w.failed /\ n.i = w.i + 1
             /\ n.downloads = w.downloads
      BY <1>0, <3>0 DEF WorkerStates
    <3>3. Step(t, n)
      BY <2>3, <3>2
    <3>4. WorkerSound(n)'
      BY <1>0, <3>2 DEF WorkerSound, HasFile
    <3> QED
      BY <1>0, <2>2, <2>3, <3>2, <3>3, <3>4, StepSound
  <2>4. CASE Finish(t, ResultOf(w), NoResult)
    <3>1. ResultOf(w) \in Results /\ NoResult \in ErrorCodes
      BY DEF ResultOf, Results, ErrorCodes
    <3> QED
      BY <1>0, <2>2, <2>4, <3>1, FinishSound
  <2> QED
    BY <1>2, <2>3, <2>4 DEF SaveDownloads
<1> QED
  BY <1>1, <1>2

LEMMA WorldSound ==
    ASSUME RefreshInv,
           Crash \/ \E p \in Podcasts : \E kind \in Kinds[p] : Publish(p, kind[1], kind[2])
    PROVE  RefreshInv'
<1>0. TypeOK /\ DiskTyped /\ NeverWithoutAudio
  BY DEF RefreshInv, TypeOK, DiskTyped
<1>1. CASE Crash
  <2>1. worker' = [t \in Workers |-> IdleWorker] /\ UNCHANGED <<feeds, downloads, files, posts, asked, cut>>
        /\ monitor' = [running |-> FALSE, result |-> NoResult, error |-> NoResult]
    BY <1>1 DEF Crash
  <2>2. TypeOK'
    BY <1>0, <2>1, IdleWorkerSound DEF TypeOK, Results, ErrorCodes
  <2>3. OneRefresh'
    BY <2>1, IdleWorkerSound DEF OneRefresh, Working
  <2>4. \A t \in Workers : WorkerSound(worker[t])'
    BY <2>1 DEF WorkerSound, IdleWorker
  <2>5. NeverWithoutAudio'
    BY <1>0, <2>1 DEF NeverWithoutAudio
  <2> QED
    BY <2>2, <2>3, <2>4, <2>5 DEF RefreshInv
<1>2. CASE \E p \in Podcasts : \E kind \in Kinds[p] : Publish(p, kind[1], kind[2])
  <2>0. PICK p \in Podcasts : \E kind \in Kinds[p] : Publish(p, kind[1], kind[2])
    BY <1>2
  <2>1. PICK kind \in Kinds[p] : Publish(p, kind[1], kind[2])
    BY <2>0
  <2>2. UNCHANGED <<monitor, worker, feeds, downloads, files, asked, cut>>
    BY <2>1 DEF Publish
  <2> DEFINE post == [number |-> Len(posts[p]) + 1, kind |-> kind[1], date |-> kind[2]]
  <2>3. posts[p] \in Seq(Posts) /\ Len(posts[p]) \in Nat
    BY <1>0, LenProperties DEF DiskTyped
  <2>4. post \in Posts
    <3>1. kind[1] \in PostKinds /\ kind[2] \in Nat
      BY FeedRefreshAssumption
    <3> QED
      BY <2>3, <3>1 DEF Posts
  <2>5. \/ posts' = [posts EXCEPT ![p] = <<post>> \o posts[p]]
        \/ posts' = [posts EXCEPT ![p] = Append(posts[p], post)]
    BY <2>1 DEF Publish
  <2> HIDE DEF post
  <2>6. <<post>> \o posts[p] \in Seq(Posts) /\ Append(posts[p], post) \in Seq(Posts)
    BY <2>3, <2>4
  <2>7. posts' \in [Podcasts -> Seq(Posts)]
    BY <1>0, <2>5, <2>6 DEF DiskTyped
  <2>8. TypeOK'
    BY <1>0, <2>2, <2>7 DEF TypeOK
  <2> QED
    BY <2>2, <2>8 DEF RefreshInv, OneRefresh, Working, NeverWithoutAudio, WorkerSound,
                       HasFile, PodcastOf
<1> QED
  BY <1>1, <1>2

-----------------------------------------------------------------------------

LEMMA InitRefresh == Init => RefreshInv
<1> SUFFICES ASSUME Init PROVE RefreshInv
  OBVIOUS
<1>1. \A p \in Podcasts : <<>> \in Seq(Posts)
  OBVIOUS
<1>2. feeds \in FeedTables /\ downloads \in DownloadTables /\ asked \in DownloadTables
      /\ posts \in [Podcasts -> Seq(Posts)]
  BY <1>1 DEF Init, FeedTables, FeedStatuses, DownloadTables
<1>3. TypeOK
  BY <1>2, IdleWorkerSound DEF Init, TypeOK, Results, ErrorCodes
<1>4. OneRefresh /\ \A t \in Workers : WorkerSound(worker[t])
  BY IdleWorkerSound DEF Init, OneRefresh, Working
<1>5. NeverWithoutAudio
  BY DEF Init, NeverWithoutAudio
<1> QED
  BY <1>3, <1>4, <1>5 DEF RefreshInv

LEMMA NextRefresh == RefreshInv /\ [Next]_vars => RefreshInv'
<1> SUFFICES ASSUME RefreshInv, [Next]_vars PROVE RefreshInv'
  OBVIOUS
<1>1. CASE UNCHANGED vars
  BY <1>1 DEF vars, RefreshInv, TypeOK, OneRefresh, Working, NeverWithoutAudio,
              WorkerSound, HasFile, PodcastOf
<1>2. ASSUME NEW t \in Workers, Begin(t) PROVE RefreshInv'
  BY <1>2, BeginSound
<1>3. ASSUME NEW t \in Workers, StartFails(t) \/ Abort(t) PROVE RefreshInv'
  BY <1>3, EndsSound
<1>4. ASSUME NEW t \in Workers, Work(t) PROVE RefreshInv'
  BY <1>4, FetchSound, DownloadSound, RemoveSound, SavesSound DEF Work
<1>5. CASE Crash \/ \E p \in Podcasts : \E kind \in Kinds[p] : Publish(p, kind[1], kind[2])
  BY <1>5, WorldSound
<1> QED
  BY <1>1, <1>2, <1>3, <1>4, <1>5 DEF Next

\* Type correctness of the refresh for any feeds and any number of threads.
THEOREM RefreshTyping == Spec => []TypeOK
<1>1. RefreshInv => TypeOK
  BY DEF RefreshInv
<1> QED
  BY <1>1, InitRefresh, NextRefresh, PTL DEF Spec

\* At most one refresh is under way, and only while the slot is taken: the lock
\* in _begin_refresh and _finish_refresh is enough.
THEOREM OneRefreshAtATime == Spec => []OneRefresh
<1>1. RefreshInv => OneRefresh
  BY DEF RefreshInv
<1> QED
  BY <1>1, InitRefresh, NextRefresh, PTL DEF Spec

\* A podcast that has been downloaded keeps a file, whatever fails or crashes.
THEOREM AudioIsKept == Spec => []NeverWithoutAudio
<1>1. RefreshInv => NeverWithoutAudio
  BY DEF RefreshInv
<1> QED
  BY <1>1, InitRefresh, NextRefresh, PTL DEF Spec
=============================================================================
