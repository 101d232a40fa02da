------------------------------- MODULE Feeds -------------------------------
(***************************************************************************)
(* parse_feed of src/potcast/feeds.py: from the entries of a feed to its   *)
(* newest playable episode.  feedparser has already made mappings of the   *)
(* XML; a text is a positive number here, and so is a date.  Titles and    *)
(* durations, which decide nothing, are left out.                          *)
(***************************************************************************)
EXTENDS Naturals, Sequences, FiniteSetsExt

\* A field that is missing, blank, of another type or, for a date, unreadable.
None == 0

\* An enclosure: whether its type is one of SUPPORTED_MEDIA_TYPES, and its href
\* or url.  A link is one if its rel is "enclosure".
Enclosures == [supported : BOOLEAN, url : Nat]
Links == [supported : BOOLEAN, url : Nat, enclosure : BOOLEAN]

\* dates are published_parsed, updated_parsed, created_parsed and the texts of
\* the same fields, in this order.
Entries ==
    [enclosures : Seq(Enclosures), links : Seq(Links), guid : Nat, dates : Seq(Nat)]

-----------------------------------------------------------------------------

\* The enclosures of an entry, and after them its links.
Listed(entry) == entry.enclosures \o entry.links

SupportedAt(entry) ==
    {i \in DOMAIN Listed(entry) :
        /\ i > Len(entry.enclosures) => Listed(entry)[i].enclosure
        /\ Listed(entry)[i].supported}

\* The first supported enclosure decides: when it has no address, a later one
\* is not looked at.
MediaUrl(entry) == Listed(entry)[Min(SupportedAt(entry))].url

Playable(entry) == SupportedAt(entry) # {} /\ MediaUrl(entry) # None

Identity(entry) == IF entry.guid # None THEN entry.guid ELSE MediaUrl(entry)

\* The first date that can be read; an entry without one sorts before all.
PublishedAt(entry) ==
    LET readable == {i \in DOMAIN entry.dates : entry.dates[i] # None} IN
    IF readable = {} THEN None ELSE entry.dates[Min(readable)]

Candidates(entries) == {i \in DOMAIN entries : Playable(entries[i])}

NewestAt(entries) ==
    {i \in Candidates(entries) :
        \A j \in Candidates(entries) : PublishedAt(entries[j]) <= PublishedAt(entries[i])}

\* Mutant: of entries of one date the last.
LastOfTheNewest(entries) ==
    IF Candidates(entries) = {} THEN None ELSE Identity(entries[Max(NewestAt(entries))])

\* max() over the playable entries: of those of the latest date the first.
LatestEpisode(entries) ==
    IF Candidates(entries) = {} THEN None ELSE Identity(entries[Min(NewestAt(entries))])

\* A document that is no feed at all; one with errors and entries is used.
Malformed(document) == document.bozo /\ document.entries = <<>>

ParseFeed(document) ==
    [ok |-> ~Malformed(document),
     latest |-> IF Malformed(document) THEN None ELSE LatestEpisode(document.entries)]
=============================================================================
