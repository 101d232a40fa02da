---------------------------- MODULE FeedRefresh ----------------------------
(***************************************************************************)
(* FeedRefreshService of src/potcast/feed_refresh.py with the              *)
(* AtomicEpisodeDownloader of src/potcast/downloader.py, and the disk they *)
(* write: feeds.json, downloads.json and the media files.  A refresh runs  *)
(* in a thread of its own, over copies of the two metadata files, while    *)
(* feeds publish new episodes, documents arrive cut short, writes fail and *)
(* the program crashes.                                                    *)
(*                                                                         *)
(* A publisher numbers its posts in the order it publishes them, and an    *)
(* episode's identity, guid or address, is the number of its post.  The    *)
(* path of a media file is derived from the podcast and the identity, so   *)
(* it is modelled as that pair; temporary files are left out.              *)
(***************************************************************************)
EXTENDS Feeds

CONSTANTS
    Workers,        \* bound: refreshes that may be started at once
    Podcasts,       \* the configured podcast ids
    PodcastIds,     \* the same, in the order of _podcasts
    Kinds,          \* the kinds and dates of the posts in each podcast's feed
    MaxPosts,       \* bound: posts in each feed
    NoResult        \* last_result or last_error_code is None

\* An episode behind a video enclosure, only linked, with neither guid nor date
\* of publication; a post without audio; an episode in an enclosure.
PostKinds == {"linked", "video", "enclosed"}

ASSUME FeedRefreshAssumption ==
    /\ PodcastIds \in Seq(Podcasts) /\ PodcastIds # <<>>
    /\ \A p \in Podcasts : \E i \in DOMAIN PodcastIds : PodcastIds[i] = p
    /\ \A i, j \in DOMAIN PodcastIds : PodcastIds[i] = PodcastIds[j] => i = j
    /\ Kinds \in [Podcasts -> SUBSET (PostKinds \X Nat)]
    /\ MaxPosts \in [Podcasts -> Nat]
    /\ NoResult \notin {"ok", "failed", "refresh_start_failed", "refresh_failed"}

VARIABLES
    monitor,     \* _monitor_status: the slot a refresh takes, and its result
    worker,      \* each refresh thread: where it is and its local variables
    feeds,       \* feeds.json
    downloads,   \* downloads.json: the episode kept of each podcast
    files,       \* the media files on disk
    posts,       \* each publisher's feed, from its top: numbers, kinds and dates
    asked,       \* history: how many posts there were when the last refresh began
    cut          \* history: the podcasts whose feed ever came without an episode

vars == <<monitor, worker, feeds, downloads, files, posts, asked, cut>>

FeedStatuses == {"unknown", "ok", "feed_failed", "no_playable_episode", "download_failed"}

FeedTables == [Podcasts -> [status : FeedStatuses, episode : Nat]]

\* A post without a date has date None; several may have one date.
Posts == [number : Nat \ {0}, kind : PostKinds, date : Nat]

DownloadTables == [Podcasts -> Nat]

Places == {"idle", "starting", "fetch", "download", "remove", "save_feeds", "save_downloads"}

Results == {"ok", "failed", NoResult}

ErrorCodes == {"refresh_start_failed", "refresh_failed", NoResult}

-----------------------------------------------------------------------------
(* A worker's local variables: the podcast it is at, its copies of the two *)
(* files, the episode it is downloading and failed_count.                  *)

WorkerStates ==
    [at : Places, i : DOMAIN PodcastIds, failed : 0 .. Len(PodcastIds), episode : Nat,
     feeds : FeedTables, downloads : DownloadTables]

IdleWorker ==
    [at |-> "idle", i |-> 1, failed |-> 0, episode |-> 0,
     feeds |-> [p \in Podcasts |-> [status |-> "unknown", episode |-> 0]],
     downloads |-> [p \in Podcasts |-> 0]]

PodcastOf(w) == PodcastIds[w.i]

Stored(p, e) == <<p, e>>

\* _refresh_all starts from what is on disk.
Loaded(w) ==
    [w EXCEPT !.at = "fetch", !.feeds = feeds, !.downloads = downloads]

\* _failed_feed_metadata: the last known episode is kept.
Failed(w, status) ==
    [w EXCEPT !.at = "save_feeds",
              !.failed = @ + 1,
              !.feeds[PodcastOf(w)].status = status]

\* Mutant: the new episode is not entered into downloads.
RecordedFeedOnly(w, e) ==
    [w EXCEPT !.at = "save_feeds",
              !.feeds[PodcastOf(w)] = [status |-> "ok", episode |-> e]]

\* The episode is the one downloaded, now or before.
Recorded(w, e) ==
    [w EXCEPT !.at = "save_feeds",
              !.feeds[PodcastOf(w)] = [status |-> "ok", episode |-> e],
              !.downloads[PodcastOf(w)] = e]

NothingPlayable(w) ==
    [w EXCEPT !.at = "save_feeds",
              !.feeds[PodcastOf(w)] = [status |-> "no_playable_episode", episode |-> 0]]

\* Every podcast failed, and there is at least one.
ResultOf(w) == IF w.failed = Len(PodcastIds) THEN "failed" ELSE "ok"

Step(t, w) == worker' = [worker EXCEPT ![t] = w]

\* The thread returns and its locals are gone.
Done(t) == Step(t, IdleWorker)

-----------------------------------------------------------------------------
(* The slot: _begin_refresh and _finish_refresh, each under the lock.      *)

\* Every refresh has a thread of its own; which one is of no account.
FreeThread == CHOOSE t \in Workers : worker[t].at = "idle"

\* Mutant: a running refresh does not keep another one out.
BeginAnyway(t) ==
    /\ worker[t].at = "idle" /\ t = FreeThread
    /\ monitor' = [running |-> TRUE, result |-> NoResult, error |-> NoResult]
    /\ Step(t, [worker[t] EXCEPT !.at = "starting"])
    /\ asked' = [p \in Podcasts |-> Len(posts[p])]
    /\ UNCHANGED <<feeds, downloads, files, posts, cut>>

\* A trigger that finds a refresh running is rejected and is no step.
Begin(t) ==
    /\ worker[t].at = "idle" /\ t = FreeThread
    /\ ~monitor.running
    /\ monitor' = [running |-> TRUE, result |-> NoResult, error |-> NoResult]
    /\ Step(t, [worker[t] EXCEPT !.at = "starting"])
    /\ asked' = [p \in Podcasts |-> Len(posts[p])]
    /\ UNCHANGED <<feeds, downloads, files, posts, cut>>

Finish(t, result, error) ==
    /\ monitor' = [running |-> FALSE, result |-> result, error |-> error]
    /\ Done(t)

StartFails(t) ==
    /\ worker[t].at = "starting"
    /\ Finish(t, "failed", "refresh_start_failed")
    /\ UNCHANGED <<feeds, downloads, files, posts, asked, cut>>

\* Mutant: the exception ends the thread and nobody hears of it.
AbortSilently(t) ==
    /\ worker[t].at \in {"starting", "fetch", "save_feeds", "save_downloads"}
    /\ Done(t)
    /\ UNCHANGED <<monitor, feeds, downloads, files, posts, asked, cut>>

\* An exception that reaches _run_started_refresh: a metadata file that cannot
\* be read or written, or a parser that raises.
Abort(t) ==
    /\ worker[t].at \in {"starting", "fetch", "save_feeds", "save_downloads"}
    /\ Finish(t, "failed", "refresh_failed")
    /\ UNCHANGED <<feeds, downloads, files, posts, asked, cut>>

-----------------------------------------------------------------------------
(* One podcast after the other.                                            *)

Load(t) ==
    /\ worker[t].at = "starting"
    /\ Step(t, Loaded(worker[t]))
    /\ UNCHANGED <<monitor, feeds, downloads, files, posts, asked, cut>>

FetchFails(t) ==
    /\ worker[t].at = "fetch"
    /\ Step(t, Failed(worker[t], "feed_failed"))
    /\ UNCHANGED <<monitor, feeds, downloads, files, posts, asked, cut>>

\* What feedparser makes of a post; the address of its audio is its number.
EntryOf(post) ==
    LET audio == [supported |-> TRUE, url |-> post.number]
        video == [supported |-> FALSE, url |-> post.number]
        page == [supported |-> TRUE, url |-> post.number + 1, enclosure |-> FALSE]
        link == [supported |-> TRUE, url |-> post.number, enclosure |-> TRUE]
    IN  [enclosures |-> IF post.kind = "enclosed" THEN <<audio>> ELSE <<video>>,
         links |-> <<page>> \o (IF post.kind = "linked" THEN <<link>> ELSE <<>>),
         guid |-> IF post.kind = "linked" THEN None ELSE post.number,
         dates |-> IF post.kind = "linked" THEN <<None, post.date>> ELSE <<post.date, None>>]

\* The posts that are episodes.
EpisodesAt(s) == {i \in DOMAIN s : s[i].kind # "video"}

\* A feed of which the episodes outside S do not arrive: the document is cut
\* short, a cache serves an older one, or they are withdrawn.  To the parser an
\* entry that is missing is what one without audio is.
Served(s, S) ==
    [i \in DOMAIN s |-> EntryOf(IF i \in S THEN s[i] ELSE [s[i] EXCEPT !.kind = "video"])]

\* The server may also answer with something that is no feed, or is an empty one.
Documents(p, S) == [bozo : BOOLEAN, entries : {<<>>, Served(posts[p], S)}]

\* Parsing the feed, and comparing its newest playable episode with the one
\* downloaded, of which only the identity is looked at.
Fetch(t) ==
    LET w == worker[t]
        p == PodcastOf(w)
    IN  /\ w.at = "fetch"
        /\ \E S \in SUBSET EpisodesAt(posts[p]) :
              /\ cut' = IF S = EpisodesAt(posts[p]) THEN cut ELSE cut \cup {p}
              /\ \E document \in Documents(p, S) :
                    LET e == ParseFeed(document).latest IN
                    \/ ~ParseFeed(document).ok /\ Step(t, Failed(w, "feed_failed"))
                    \/ ParseFeed(document).ok /\ e = None /\ Step(t, NothingPlayable(w))
                    \/ e # None /\ e = w.downloads[p] /\ Step(t, Recorded(w, e))
                    \/ e \notin {None, w.downloads[p]}
                       /\ Step(t, [w EXCEPT !.at = "download", !.episode = e])
        /\ UNCHANGED <<monitor, feeds, downloads, files, posts, asked>>

\* Mutant: the previous file makes room for the new one first.
DownloadMakingRoom(t) ==
    LET w == worker[t]
        kept == files \ {Stored(PodcastOf(w), w.downloads[PodcastOf(w)])}
    IN  /\ w.at = "download"
        /\ \/ /\ files' = kept \cup {Stored(PodcastOf(w), w.episode)}
              /\ Step(t, [w EXCEPT !.at = "remove"])
           \/ /\ files' = kept
              /\ Step(t, Failed(w, "download_failed"))
        /\ UNCHANGED <<monitor, feeds, downloads, posts, asked, cut>>

\* replace_episode up to os.replace; a failure leaves no trace.
Download(t) ==
    LET w == worker[t] IN
    /\ w.at = "download"
    /\ \/ /\ files' = files \cup {Stored(PodcastOf(w), w.episode)}
          /\ Step(t, [w EXCEPT !.at = "remove"])
       \/ /\ Step(t, Failed(w, "download_failed"))
          /\ UNCHANGED files
    /\ UNCHANGED <<monitor, feeds, downloads, posts, asked, cut>>

\* _remove_previous: a file that is missing is fine, one that cannot be
\* removed fails the download although the new file is in place.
Remove(t) ==
    LET w == worker[t]
        p == PodcastOf(w)
        old == Stored(p, w.downloads[p])
    IN  /\ w.at = "remove"
        /\ \/ /\ files' = files \ {old}
              /\ Step(t, Recorded(w, w.episode))
           \/ /\ old \in files
              /\ Step(t, Failed(w, "download_failed"))
              /\ UNCHANGED files
        /\ UNCHANGED <<monitor, feeds, downloads, posts, asked, cut>>

SaveFeeds(t) ==
    /\ worker[t].at = "save_feeds"
    /\ feeds' = worker[t].feeds
    /\ Step(t, [worker[t] EXCEPT !.at = "save_downloads"])
    /\ UNCHANGED <<monitor, downloads, files, posts, asked, cut>>

\* Mutant: one podcast too many.
SaveDownloadsPastTheEnd(t) ==
    LET w == worker[t] IN
    /\ w.at = "save_downloads"
    /\ downloads' = w.downloads
    /\ Step(t, [w EXCEPT !.at = "fetch", !.i = @ + 1])
    /\ UNCHANGED <<monitor, feeds, files, posts, asked, cut>>

SaveDownloads(t) ==
    LET w == worker[t] IN
    /\ w.at = "save_downloads"
    /\ downloads' = w.downloads
    /\ \/ /\ w.i < Len(PodcastIds)
          /\ Step(t, [w EXCEPT !.at = "fetch", !.i = @ + 1])
          /\ UNCHANGED monitor
       \/ /\ w.i = Len(PodcastIds)
          /\ Finish(t, ResultOf(w), NoResult)
    /\ UNCHANGED <<feeds, files, posts, asked, cut>>

-----------------------------------------------------------------------------
(* The world.                                                              *)

\* Publishers add posts at the top of the feed or at its end, with whatever date.
Publish(p, kind, date) ==
    /\ Len(posts[p]) < MaxPosts[p]
    /\ LET post == [number |-> Len(posts[p]) + 1, kind |-> kind, date |-> date] IN
       \/ posts' = [posts EXCEPT ![p] = <<post>> \o @]
       \/ posts' = [posts EXCEPT ![p] = Append(@, post)]
    /\ UNCHANGED <<monitor, worker, feeds, downloads, files, asked, cut>>

\* The program ends anywhere and is started again; the disk stays.
Crash ==
    /\ monitor' = [running |-> FALSE, result |-> NoResult, error |-> NoResult]
    /\ worker' = [t \in Workers |-> IdleWorker]
    /\ UNCHANGED <<feeds, downloads, files, posts, asked, cut>>

Init ==
    /\ monitor = [running |-> FALSE, result |-> NoResult, error |-> NoResult]
    /\ worker = [t \in Workers |-> IdleWorker]
    /\ feeds = [p \in Podcasts |-> [status |-> "unknown", episode |-> 0]]
    /\ downloads = [p \in Podcasts |-> 0]
    /\ files = {}
    /\ posts = [p \in Podcasts |-> <<>>]
    /\ asked = [p \in Podcasts |-> 0]
    /\ cut = {}

Work(t) ==
    \/ Load(t)
    \/ FetchFails(t)
    \/ Fetch(t)
    \/ Download(t)
    \/ Remove(t)
    \/ SaveFeeds(t)
    \/ SaveDownloads(t)

Next ==
    \/ \E t \in Workers : Begin(t) \/ StartFails(t) \/ Abort(t) \/ Work(t)
    \/ \E p \in Podcasts : \E kind \in Kinds[p] : Publish(p, kind[1], kind[2])
    \/ Crash

Spec == Init /\ [][Next]_vars

\* A thread that waits for a server.  The timeouts of the two requests are of
\* inactivity, so a server that keeps sending holds the thread for as long as it
\* likes.
Receiving == \E t \in Workers : worker[t].at \in {"fetch", "download"}

\* A refresh thread takes the steps that wait for nobody.
OwnStep(t) == worker[t].at \notin {"fetch", "download"} /\ (Work(t) \/ Abort(t))

FairSpec == Spec /\ \A t \in Workers : WF_vars(OwnStep(t))

-----------------------------------------------------------------------------
(* Properties.                                                             *)

\* Every table and every worker stays within its type; a refresh counts at
\* most one failure per podcast.
TypeOK ==
    /\ monitor \in [running : BOOLEAN, result : Results, error : ErrorCodes]
    /\ worker \in [Workers -> WorkerStates]
    /\ feeds \in FeedTables
    /\ downloads \in DownloadTables
    /\ files \subseteq Podcasts \X Nat
    /\ posts \in [Podcasts -> Seq(Posts)]
    /\ asked \in DownloadTables
    /\ cut \subseteq Podcasts

\* Once a podcast has been downloaded, some complete file of it is on disk at
\* every instant: in the middle of a replacement, after a failed one, and
\* after a crash anywhere, whatever documents the servers send.
NeverWithoutAudio ==
    \A p \in Podcasts : downloads[p] # 0 => \E file \in files : file[1] = p

FinishedRefresh == ~monitor.running /\ monitor.result # NoResult /\ monitor.error = NoResult

\* When a refresh has run to its end, whatever crashes and failed writes came
\* before it, the two metadata files and the media on disk agree about every
\* podcast it reports as ok and whose feed has always come whole.  Without the
\* last it is not so: after a crash between _remove_previous and the write of
\* downloads.json, a feed that shows the previous episode as its newest once more
\* is reported as ok, with the file gone.
FinishedRefreshAgrees ==
    FinishedRefresh =>
        \A p \in Podcasts \ cut : feeds[p].status = "ok" =>
           feeds[p].episode = downloads[p] /\ Stored(p, downloads[p]) \in files

\* The order of _episode_sort_key and max, of the episodes numbered m and n of a
\* feed: an earlier date, or no date, is older, and of one date the later entry.
Older(s, m, n) ==
    \E i, j \in EpisodesAt(s) :
        /\ s[i].number = m /\ s[j].number = n
        /\ s[i].date < s[j].date \/ (s[i].date = s[j].date /\ j < i)

\* A refresh that has run to its end and reports a podcast as ok, of a feed that
\* has always come whole, keeps an episode that is older than none of those that
\* were posted when it began: dated or not, at either end of the feed, and
\* published in between or not.  Older is the parser's order, in which a feed
\* without dates has its newest episode at the top.
NewestIsKept ==
    FinishedRefresh =>
        \A p \in Podcasts \ cut : feeds[p].status = "ok" =>
           \A n \in 1 .. asked[p] : ~Older(posts[p], downloads[p], n)

\* While a feed comes whole downloads.json never goes back to an older episode of
\* it, and never to none: no refresh writes a copy that another one has overtaken.
NoStaleOverwrite ==
    [][\A p \in Podcasts \ cut' :
          /\ ~Older(posts[p], downloads'[p], downloads[p])
          /\ downloads[p] # 0 => downloads'[p] # 0]_vars

\* Provided that no server keeps a thread for ever, the slot is given back,
\* whichever way a refresh ends, so feeds do not stop being refreshed.
SlotReleased ==
    []<>~Receiving => (monitor.running ~> ~monitor.running)
=============================================================================
