----------------------------- MODULE FeedReading -----------------------------
(***************************************************************************)
(* Content sources and the checks that read them: an administrator keeps   *)
(* the list (contentSourceService.ts), a check lists the enabled feeds and *)
(* reads one after the other (contentIngestionService.ts) - request by     *)
(* request (feedFetcher.ts), then entry by entry (feedParser.ts).          *)
(*                                                                         *)
(* Checks overlap, outlive the row they listed, and may die at any step.   *)
(* What a website answers is any response at all; it always answers or     *)
(* the timer of the request does.  A name is looked up before the request, *)
(* which looks it up once more: where that leads is left open here, for    *)
(* nothing in this code depends on it.                                     *)
(*                                                                         *)
(* An item is told by its identity and by the link the feed gave, its      *)
(* canonicalUrl, which nothing rewrites.  Staff delete items as they please *)
(* (contentService.ts); that those in use are kept is not told apart.  The *)
(* dates one call of finish takes count as one instant, and the instants   *)
(* of two calls as distinct.                                               *)
(***************************************************************************)
EXTENDS SourceUrls, Sequences, FiniteSets, FiniteSetsExt, Functions

CONSTANTS Sources,        \* 1..n, in the order of their names
          Checks,         \* calls of runIngestion
          Typed,          \* URLs an administrator types
          Locations,      \* URLs a website redirects to
          Lookups,        \* sets of addresses a name may resolve to
          Bodies,         \* bodies a website may serve
          MAX_REDIRECTS,
          MAX_NEW_ITEMS_PER_SOURCE,
          MaxSourceEdits        \* bound on what the administrator does

ASSUME ReadingAssumption ==
    /\ Sources \subseteq Nat /\ IsFiniteSet(Sources) /\ IsFiniteSet(Checks)
    /\ {MAX_REDIRECTS, MAX_NEW_ITEMS_PER_SOURCE, MaxSourceEdits} \subseteq Nat

(* What the feeds list, and the links among it that are given as articles:  *)
(* not the feed's own address, not an attachment.                           *)
EntriesOf(kind) == UNION {Range(b.entries) : b \in {x \in Bodies : x.kind = kind}}
AtomLinks == UNION {Range(e.links) : e \in EntriesOf("atom")}
ArticleLinks == {e.link : e \in EntriesOf("rss")} \cup {e.place : e \in EntriesOf("rss")}
                  \cup {l.href : l \in {k \in AtomLinks : k.rel \notin {"self", "enclosure"}}}

(* Feeds list in some order; URLs are read by the parser of the platform,   *)
(* and a name resolves to addresses.                                        *)
ASSUME BodiesAssumption ==
    /\ \A b \in Bodies : b.kind \in {"rss", "atom"} => b.entries \in Seq(Range(b.entries))
    /\ \A e \in EntriesOf("atom") : e.links \in Seq(Range(e.links))
ASSUME HostsAssumption ==
    /\ \A url \in Typed \cup Locations \cup ArticleLinks : url = NoUrl \/ IsHost(url.host)
    /\ \A lookup \in Lookups : \A a \in lookup : IsHost(a) /\ a.form # "name"

VARIABLES
    sources,   \* [Sources -> ContentSource row, or NoSource]
    stocked,   \* [Sources -> identities of its ContentItems]
    deleted,   \* history: [Sources -> how many of its ContentItems staff deleted]
    runs,      \* [Checks -> [Sources -> ContentIngestionRun row, or NoRun]]
    reader,    \* [Checks -> what the call is doing]
    ticks,     \* calls of finish so far, the clock of the dates below
    edits      \* what the administrator did so far

readVars == <<sources, stocked, deleted, runs, reader, ticks, edits>>

NoSource == [there |-> FALSE]
NoRun == [status |-> "none", created |-> 0]
Idle == [at |-> "idle"]

ReadInit ==
    /\ sources = [s \in Sources |-> NoSource]
    /\ stocked = [s \in Sources |-> {}]
    /\ deleted = [s \in Sources |-> 0]
    /\ runs = [c \in Checks |-> [s \in Sources |-> NoRun]]
    /\ reader = [c \in Checks |-> Idle]
    /\ ticks = 0 /\ edits = 0

(***************************************************************************)
(* The list of sources.                                                    *)
(***************************************************************************)
(* A feed needs an address that may be asked; a manual source has none.     *)
validateSourceInput(kind, url) ==
    \/ kind = "FEED" /\ validateSourceUrl(url)
    \/ kind = "MANUAL_EXTERNAL" /\ url = NoUrl

Edit(s, row) ==
    /\ edits < MaxSourceEdits /\ edits' = edits + 1
    /\ sources' = [sources EXCEPT ![s] = row]
    /\ UNCHANGED <<stocked, deleted, runs, reader, ticks>>

createSource(s, kind, url) ==
    /\ ~sources[s].there /\ \A t \in Sources : t < s => sources[t].there
    /\ validateSourceInput(kind, url)
    /\ Edit(s, [there |-> TRUE, kind |-> kind, url |-> url, on |-> TRUE,
                checked |-> 0, succeeded |-> 0, error |-> FALSE])

updateSource(s, kind, url) ==
    /\ sources[s].there /\ validateSourceInput(kind, url)
    /\ Edit(s, [sources[s] EXCEPT !.kind = kind, !.url = url])

setSourceEnabled(s, on) ==
    /\ sources[s].there
    /\ Edit(s, [sources[s] EXCEPT !.on = on])

deleteContent(s, y) ==
    /\ y \in stocked[s]
    /\ edits < MaxSourceEdits /\ edits' = edits + 1
    /\ stocked' = [stocked EXCEPT ![s] = @ \ {y}]
    /\ deleted' = [deleted EXCEPT ![s] = @ + 1]
    /\ UNCHANGED <<sources, runs, reader, ticks>>

(***************************************************************************)
(* A check.                                                                *)
(***************************************************************************)
Does(c, step) == reader' = [reader EXCEPT ![c] = step]

Fetchable == {s \in Sources : sources[s].there /\ sources[s].on /\ sources[s].kind = "FEED"}
InOrder(set) ==
    {q \in [1..Cardinality(set) -> set] : \A i, j \in 1..Cardinality(set) : i < j => q[i] < q[j]}
listFetchableSources(ids) ==
    {[i \in DOMAIN q |-> [id |-> q[i], url |-> sources[q[i]].url]] : q \in InOrder(Fetchable \cap ids)}

(* The rows are read once; what changes in them later is not seen.          *)
runIngestion(c, ids) ==
    /\ reader[c] = Idle
    /\ \E listed \in listFetchableSources(ids) :
         Does(c, IF listed = <<>> THEN [at |-> "over", verdict |-> "NO_SOURCES", todo |-> <<>>, lines |-> <<>>]
                 ELSE [at |-> "next", todo |-> listed, lines |-> <<>>])
    /\ UNCHANGED <<sources, stocked, deleted, runs, ticks, edits>>

OpenRun(c) ==
    /\ reader[c].at = "next" /\ reader[c].todo # <<>>
    /\ runs' = [runs EXCEPT ![c][Head(reader[c].todo).id] = [status |-> "RUNNING", created |-> 0]]
    /\ Does(c, [at |-> "hop", todo |-> reader[c].todo, lines |-> reader[c].lines,
                url |-> Head(reader[c].todo).url, hop |-> 0])
    /\ UNCHANGED <<sources, stocked, deleted, ticks, edits>>

Counts == [discovered |-> 0, created |-> 0, duplicates |-> 0, skipped |-> 0]
(* The call of finish takes its dates before its transaction is begun.      *)
ToFinish(c, status, counts) ==
    /\ ticks' = ticks + 1
    /\ Does(c, [at |-> "finish", todo |-> reader[c].todo, lines |-> reader[c].lines,
                status |-> status, counts |-> counts, date |-> ticks + 1])

Hops(c) == reader[c].hop

(* Mutant of Allowed: only the address staff typed is judged.               *)
AllowedAtFirst(c, addresses) ==
    reader[c].hop > 0 \/ (validateSourceUrl(reader[c].url) /\ resolvesPublicly(reader[c].url.host, addresses))
(* Every address on the way is judged, by its form and by what it resolves to. *)
Allowed(c, addresses) ==
    validateSourceUrl(reader[c].url) /\ resolvesPublicly(reader[c].url.host, addresses)

LookUp(c, addresses) ==
    /\ reader[c].at = "hop"
    /\ IF Hops(c) > MAX_REDIRECTS \/ ~Allowed(c, addresses)
       THEN ToFinish(c, "FAILED", Counts)
       ELSE /\ Does(c, [at |-> "judged", todo |-> reader[c].todo, lines |-> reader[c].lines,
                        url |-> reader[c].url, hop |-> Hops(c), addresses |-> addresses])
            /\ UNCHANGED ticks
    /\ UNCHANGED <<sources, stocked, deleted, runs, edits>>

Ask(c) ==
    /\ reader[c].at = "judged"
    /\ Does(c, [at |-> "asked", todo |-> reader[c].todo, lines |-> reader[c].lines,
                url |-> reader[c].url, hop |-> Hops(c), addresses |-> reader[c].addresses])
    /\ UNCHANGED <<sources, stocked, deleted, runs, ticks, edits>>

Redirected(c, location) ==
    /\ reader[c].at = "asked"
    /\ Does(c, [at |-> "hop", todo |-> reader[c].todo, lines |-> reader[c].lines,
                url |-> location, hop |-> reader[c].hop + 1])
    /\ UNCHANGED <<sources, stocked, deleted, runs, ticks, edits>>

(* No answer in time, an error, a redirect to nowhere, a web page, too much *)
(* of a feed, or a body that breaks off: one line of the summary.           *)
Refused(c) ==
    /\ reader[c].at = "asked"
    /\ ToFinish(c, "FAILED", Counts)
    /\ UNCHANGED <<sources, stocked, deleted, runs, edits>>

(***************************************************************************)
(* What a feed lists.  An RSS entry is [link, guid, permalink]; an Atom    *)
(* entry is [links, id], its links a sequence of [rel, href].              *)
(***************************************************************************)
atomLink(links) ==
    LET usable == {i \in DOMAIN links : links[i].href # NoUrl}
        article == {i \in usable : links[i].rel = "alternate"}
        other == {i \in usable : links[i].rel \notin {"alternate", "self", "enclosure"}}
    IN IF article # {} THEN links[Min(article)].href
       ELSE IF other # {} THEN links[Min(other)].href ELSE NoUrl

parseRss(entry) ==
    [ext |-> entry.guid,
     link |-> IF entry.link # NoUrl THEN entry.link
              ELSE IF entry.permalink THEN entry.place ELSE NoUrl]
parseAtom(entry) == [ext |-> entry.id, link |-> atomLink(entry.links)]

(* A document type is refused; the rest is one of the two formats.          *)
parseFeed(body) ==
    CASE body.kind = "rss"  -> [i \in DOMAIN body.entries |-> parseRss(body.entries[i])]
      [] body.kind = "atom" -> [i \in DOMAIN body.entries |-> parseAtom(body.entries[i])]

Lists(c, at, items, counts) ==
    [at |-> at, todo |-> reader[c].todo, lines |-> reader[c].lines, items |-> items, counts |-> counts]
Answered(c, body) ==
    /\ reader[c].at = "asked"
    /\ IF body.kind \notin {"rss", "atom"}
       THEN ToFinish(c, "FAILED", Counts)
       ELSE /\ Does(c, Lists(c, "items", parseFeed(body), [Counts EXCEPT !.discovered = Len(body.entries)]))
            /\ UNCHANGED ticks
    /\ UNCHANGED <<sources, stocked, deleted, runs, edits>>

(***************************************************************************)
(* Storing what is new.                                                    *)
(***************************************************************************)
Current(c) == Head(reader[c].todo).id
Item(c) == Head(reader[c].items)
Tallied(c, field) == Lists(c, "items", Tail(reader[c].items), [reader[c].counts EXCEPT ![field] = @ + 1])

SameArticle(x, y) == (x.ext # NoId /\ x.ext = y.ext) \/ (x.norm # NoUrl /\ x.norm = y.norm)
Known(s, identity) == \E y \in stocked[s] : SameArticle(identity, y)

Storable(c, item) ==
    /\ reader[c].counts.created < MAX_NEW_ITEMS_PER_SOURCE
    /\ isIdentifiable(articleIdentity(item))
    /\ item.link # NoUrl => validateSourceUrl(item.link)

Look(c) ==
    /\ reader[c].at = "items" /\ reader[c].items # <<>>
    /\ Does(c, IF ~Storable(c, Item(c)) THEN Tallied(c, "skipped")
               ELSE IF Known(Current(c), articleIdentity(Item(c))) THEN Tallied(c, "duplicates")
               ELSE Lists(c, "store", reader[c].items, reader[c].counts))
    /\ UNCHANGED <<sources, stocked, deleted, runs, ticks, edits>>

(* The unique indexes refuse a row another check stored in between.         *)
Outcome(c) == IF Known(Current(c), articleIdentity(Item(c))) THEN "duplicates" ELSE "created"
Filed(item) == [ext |-> item.ext, norm |-> normalizeArticleUrl(item.link), link |-> item.link]
Store(c) ==
    /\ reader[c].at = "store"
    /\ IF Known(Current(c), articleIdentity(Item(c))) THEN UNCHANGED stocked
       ELSE stocked' = [stocked EXCEPT ![Current(c)] = @ \cup {Filed(Item(c))}]
    /\ Does(c, Tallied(c, Outcome(c)))
    /\ UNCHANGED <<sources, deleted, runs, ticks, edits>>

AllRead(c) ==
    /\ reader[c].at = "items" /\ reader[c].items = <<>>
    /\ ToFinish(c, "SUCCESS", reader[c].counts)
    /\ UNCHANGED <<sources, stocked, deleted, runs, edits>>

(***************************************************************************)
(* The run and its source, in one transaction, with the dates taken when   *)
(* finish was called: of two checks the earlier may commit last.  Then the *)
(* batch.                                                                  *)
(***************************************************************************)
Told(row, status, date) ==
    IF status = "SUCCESS" THEN [row EXCEPT !.checked = date, !.succeeded = date, !.error = FALSE]
    ELSE [row EXCEPT !.checked = date, !.error = TRUE]

Onwards(c) == Tail(reader[c].todo)

FinishRun(c) ==
    /\ reader[c].at = "finish"
    /\ runs' = [runs EXCEPT ![c][Current(c)] =
                   [status |-> reader[c].status, created |-> reader[c].counts.created]]
    /\ sources' = [sources EXCEPT ![Current(c)] = Told(@, reader[c].status, reader[c].date)]
    /\ Does(c, [at |-> "next", todo |-> Onwards(c),
                lines |-> Append(reader[c].lines, [id |-> Current(c), status |-> reader[c].status])])
    /\ UNCHANGED <<stocked, deleted, ticks, edits>>

Verdict(lines) ==
    LET failed == {i \in DOMAIN lines : lines[i].status = "FAILED"} IN
    IF failed = {} THEN "SUCCESS" ELSE IF failed = DOMAIN lines THEN "FAILED" ELSE "PARTIAL"

CloseBatch(c) ==
    /\ reader[c].at = "next" /\ reader[c].todo = <<>>
    /\ Does(c, [at |-> "over", verdict |-> Verdict(reader[c].lines),
                todo |-> <<>>, lines |-> reader[c].lines])
    /\ UNCHANGED <<sources, stocked, deleted, runs, ticks, edits>>

(* The process ends: the run stays RUNNING, and nothing closes it later.    *)
Die(c) ==
    /\ reader[c].at \notin {"idle", "over", "dead"}
    /\ Does(c, [at |-> "dead"])
    /\ UNCHANGED <<sources, stocked, deleted, runs, ticks, edits>>

ReadStep(c) ==
    \/ OpenRun(c)
    \/ \E addresses \in Lookups : LookUp(c, addresses)
    \/ Ask(c)
    \/ \E location \in Locations : Redirected(c, location)
    \/ Refused(c)
    \/ \E body \in Bodies : Answered(c, body)
    \/ Look(c)
    \/ Store(c)
    \/ AllRead(c)
    \/ FinishRun(c)
    \/ CloseBatch(c)

ReadNext ==
    \/ \E s \in Sources, kind \in {"FEED", "MANUAL_EXTERNAL"}, url \in Typed \cup {NoUrl} :
          createSource(s, kind, url) \/ updateSource(s, kind, url)
    \/ \E s \in Sources, on \in BOOLEAN : setSourceEnabled(s, on)
    \/ \E s \in Sources : \E y \in stocked[s] : deleteContent(s, y)
    \/ \E c \in Checks, ids \in SUBSET Sources : runIngestion(c, ids)
    \/ \E c \in Checks : ReadStep(c) \/ Die(c)

(* A call goes on while its process lives: the request has a timer, the     *)
(* database answers.  Nobody has to start a check, and it may die.          *)
ReadFairness == \A c \in Checks : WF_readVars(ReadStep(c))
ReadSpec == ReadInit /\ [][ReadNext]_readVars /\ ReadFairness

(***************************************************************************)
(* Properties.                                                             *)
(***************************************************************************)
(* The special-purpose IPv4 blocks, by their first sixteen bits.            *)
ReservedBlocks == {<<0, 255>>, <<2560, 2815>>, <<25664, 25727>>, <<32512, 32767>>,
                   <<43518, 43518>>, <<44048, 44063>>, <<49320, 49320>>, <<57344, 65535>>}
InPublic(host) ==
    CASE host.form = "name" -> host.class = "public"
      [] host.form = "v6" -> host.class = "global"
      [] OTHER -> LET prefix == IF host.form = "groups" THEN host.high
                                ELSE host.quad[1] * 256 + host.quad[2]
                  IN \A block \in ReservedBlocks : prefix \notin block[1]..block[2]

(* A request is only made of an address judged public: the one the          *)
(* administrator typed, the one any redirect led to and everything its name *)
(* resolved to when it was judged, in whatever notation it is written       *)
(* (fetchFeed, resolvesPublicly).                                           *)
WhatIsAskedWasJudged ==
    \A c \in Checks : reader[c].at \in {"judged", "asked"} =>
        /\ InPublic(reader[c].url.host)
        /\ reader[c].url.host.form = "name" => \A a \in reader[c].addresses : InPublic(a)

(* What a feed lists is stored with a link a person may follow: a web       *)
(* address out of public space, given as an article's and not as the feed's *)
(* own (ingestOne, atomLink).                                               *)
StoredLinksAreArticles ==
    \A s \in Sources : \A y \in stocked[s] : y.link # NoUrl =>
        /\ y.link.scheme \in {"http", "https"} /\ InPublic(y.link.host)
        /\ y.link \in ArticleLinks

(* Finished runs never claim more new articles than the source has and      *)
(* staff deleted, though two checks read the same feed at once (ingestOne).  *)
Summed(tally) == UNION {{c} \X (1..tally[c]) : c \in DOMAIN tally}
Claims(s) == Summed([c \in Checks |-> runs[c][s].created])
RunsClaimNoMoreThanStored == \A s \in Sources : Cardinality(Claims(s)) <= Cardinality(stocked[s]) + deleted[s]

(* Whichever check commits last, a source shows an error exactly when the   *)
(* check whose date it bears failed: the date of its last success is then    *)
(* that of another check (finish, contentSource row).                        *)
DatesTellOneCheck ==
    \A s \in Sources : sources[s].there /\ sources[s].checked > 0 =>
        (sources[s].error <=> sources[s].succeeded # sources[s].checked)

(* A check judges whatever a feed lists or redirects to before it follows,   *)
(* and says of its sources what really happened to them.                     *)
ChecksAreSafeAndTrue ==
    WhatIsAskedWasJudged /\ StoredLinksAreArticles /\ RunsClaimNoMoreThanStored /\ DatesTellOneCheck

(***************************************************************************)
(* The inductive invariant.                                                 *)
(***************************************************************************)
ReadBodies == {b \in Bodies : b.kind \in {"rss", "atom"}}
Parsed == UNION {Range(parseFeed(b)) : b \in ReadBodies}
Listing == [id : Sources, url : Typed \cup {NoUrl}]
Tally == [discovered : Nat, created : Nat, duplicates : Nat, skipped : Nat]
Urls == Typed \cup Locations \cup {NoUrl}

(* What a check knows at each place, and that its rows are still there.     *)
Informed(d) ==
    /\ d.at \in {"next", "hop", "judged", "asked", "items", "store", "finish"} =>
         d.todo \in Seq(Listing) /\ \A i \in DOMAIN d.todo : sources[d.todo[i].id].there
    /\ d.at \in {"hop", "judged", "asked", "items", "store", "finish"} => d.todo # <<>>
    /\ d.at \in {"hop", "judged", "asked"} => d.url \in Urls
    /\ d.at \in {"items", "store"} => d.items \in Seq(Parsed)
    /\ d.at \in {"items", "store", "finish"} => d.counts \in Tally
    /\ d.at = "finish" => d.status \in {"SUCCESS", "FAILED"}
    /\ d.at = "store" => d.items # <<>> /\ (Head(d.items).link # NoUrl => validateSourceUrl(Head(d.items).link))
                         /\ isIdentifiable(articleIdentity(Head(d.items)))
ReadersAreInformed == \A c \in Checks : Informed(reader[c])

(* The dates of a row are of the past.                                      *)
RowFields(row) == [there |-> row.there, kind |-> row.kind, url |-> row.url, on |-> row.on,
                   checked |-> row.checked, succeeded |-> row.succeeded, error |-> row.error]
RowOK(row, now) ==
    /\ row = RowFields(row)
    /\ row.checked \in 0..now /\ row.succeeded \in 0..now
    /\ row.url \in Typed \cup {NoUrl}
    /\ row.checked > 0 => (row.error <=> row.succeeded # row.checked)
ReadTypeOK ==
    /\ ticks \in Nat
    /\ reader = [c \in Checks |-> reader[c]] /\ sources = [s \in Sources |-> sources[s]]
    /\ stocked = [s \in Sources |-> stocked[s]] /\ \A s \in Sources : IsFiniteSet(stocked[s])
    /\ deleted \in [Sources -> Nat]
    /\ runs \in [Checks -> [Sources -> [status : {"none", "RUNNING", "SUCCESS", "FAILED"}, created : Nat]]]
    /\ \A s \in Sources : sources[s].there => RowOK(sources[s], ticks)

(* The date a check has taken and not yet committed is of the past and its   *)
(* own: no other check has it, and no source shows it as a success.          *)
OwnDate(c) ==
    /\ reader[c].date \in 1..ticks
    /\ \A s \in Sources : sources[s].there => sources[s].succeeded # reader[c].date
    /\ \A b \in Checks \ {c} : reader[b].at = "finish" => reader[b].date # reader[c].date
DatesAreTheirOwn == \A c \in Checks : reader[c].at = "finish" => OwnDate(c)

(* A check that reads a source has so far claimed nothing of it; what it    *)
(* will claim is credited to it as it stores.                               *)
Reading(c, s) == reader[c].at \in {"hop", "judged", "asked", "items", "store", "finish"} /\ Current(c) = s
Credit(c, s) == IF Reading(c, s)
                THEN IF reader[c].at \in {"hop", "judged", "asked"} THEN 0 ELSE reader[c].counts.created
                ELSE runs[c][s].created
ClaimsComeLast == \A c \in Checks, s \in Sources : Reading(c, s) => runs[c][s].created = 0
Credited(s) == Summed([c \in Checks |-> Credit(c, s)])
CreditsAreStored == \A s \in Sources : Cardinality(Credited(s)) <= Cardinality(stocked[s]) + deleted[s]

ReadInv == /\ ReadTypeOK /\ ReadersAreInformed /\ DatesAreTheirOwn /\ ClaimsComeLast /\ CreditsAreStored
           /\ WhatIsAskedWasJudged /\ StoredLinksAreArticles
=============================================================================
