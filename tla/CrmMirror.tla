------------------------------ MODULE CrmMirror ------------------------------
(***************************************************************************)
(* One pull of the four Monday boards into the local projection            *)
(* (crmSyncService.ts syncCrmFromMonday, crmRepository.ts,                 *)
(* crmProjection.ts, mondayCrmSource.ts).                                  *)
(*                                                                         *)
(* Pulls of the scheduler and of staff may overlap; a board is fetched in  *)
(* pages, stored item by item, and what was not seen is archived at the    *)
(* end.  Monday changes meanwhile, and a response may stop short.          *)
(***************************************************************************)
EXTENDS Integers, FiniteSets, Sequences

CONSTANTS Pulls,              \* processes that pull: the worker, a member of staff
          Companies, Contacts, Products, Owned,   \* Monday items of each board
          Owner,              \* [Contacts \cup Owned -> the company item it names]
          Email,               \* normalized email of the companies and contacts that have one
          SmallBoard,         \* SMALL_BOARD_THRESHOLD
          Share,              \* one over MAX_ARCHIVE_FRACTION
          MaxUpsets           \* bound: edits in Monday, short answers and failures

Records == Companies \cup Contacts \cup Products \cup Owned
Addresses == {Email[i] : i \in DOMAIN Email}
ASSUME MirrorAssumption ==
    /\ Owner \in [Contacts \cup Owned -> Companies] /\ DOMAIN Email \subseteq Companies \cup Contacts
    /\ SmallBoard \in Nat /\ Share \in Nat \ {0} /\ MaxUpsets \in Nat

(* Companies and contacts first, so that relations resolve to local rows.   *)
BoardOrder == <<Companies, Contacts, Products, Owned>>

VARIABLES
    monday,      \* [Records -> version of the item, 0 when it is not there]
    upsets,      \* how many edits in Monday, short answers and failures there were
    mirror,      \* [Records -> local row, or NoCopy]
    contactLinks,       \* CompanyContact rows
    mailbox,     \* [Addresses -> CommunicationAddress: "none", "new" or "decided"]
    pull         \* what each pull is doing

mirrorVars == <<monday, upsets, mirror, contactLinks, mailbox, pull>>

NoCopy == [v |-> 0, live |-> FALSE, owner |-> FALSE]
Off == [at |-> "off"]

MirrorInit ==
    /\ monday \in [Records -> 0..1] /\ upsets = 0
    /\ mirror = [i \in Records |-> NoCopy]
    /\ contactLinks = {} /\ mailbox = [a \in Addresses |-> "none"]
    /\ pull = [p \in Pulls |-> Off]

Board(p) == BoardOrder[pull[p].board]
Known(i) == mirror[i] # NoCopy
Live(set) == {i \in set : Known(i) /\ mirror[i].live}
Turns(p, step) == pull' = [pull EXCEPT ![p] = step]

Edit(i, v) ==
    /\ upsets < MaxUpsets /\ upsets' = upsets + 1
    /\ monday' = [monday EXCEPT ![i] = v] /\ v # monday[i]
    /\ UNCHANGED <<mirror, contactLinks, mailbox, pull>>

Decide(a) ==
    /\ mailbox[a] = "new" /\ mailbox' = [mailbox EXCEPT ![a] = "decided"]
    /\ UNCHANGED <<monday, upsets, mirror, contactLinks, pull>>

StartPull(p) ==
    /\ pull[p] = Off
    /\ Turns(p, [at |-> "fetch", board |-> 1, names |-> {}])
    /\ UNCHANGED <<monday, upsets, mirror, contactLinks, mailbox>>

(* The next board, after the links once both their boards are done. *)
Advance(p, names) ==
    IF pull[p].board = 4 THEN Off
    ELSE [at |-> IF pull[p].board = 2 THEN "link" ELSE "fetch", board |-> pull[p].board + 1,
          names |-> names]

There(i) == monday[i] # 0
(* The ids that owned products will refer to are read once, before them.    *)
FetchBoard(p, short) ==
    LET read == {i \in Board(p) : There(i)} \ short IN
    /\ pull[p].at = "fetch"
    /\ short \subseteq {i \in Board(p) : There(i)}
    /\ IF short = {} THEN UNCHANGED upsets ELSE upsets < MaxUpsets /\ upsets' = upsets + 1
    /\ Turns(p, [at |-> "item", board |-> pull[p].board, names |-> pull[p].names,
                 snap |-> [i \in read |-> monday[i]], todo |-> read,
                 ids |-> {c \in Companies : Known(c)}])
    /\ UNCHANGED <<monday, mirror, contactLinks, mailbox>>

(* No answer, or the right to pull is gone: the board is FAILED, the next   *)
(* one is tried all the same.                                               *)
FailBoard(p) ==
    /\ pull[p].at \in {"fetch", "item", "archive"} /\ upsets < MaxUpsets /\ upsets' = upsets + 1
    /\ Turns(p, Advance(p, pull[p].names))
    /\ UNCHANGED <<monday, mirror, contactLinks, mailbox>>

(* Mutant of Upserted: an archived row that is back is not brought back. *)
UpsertKeepingArchive(i, v, ids) ==
    [v |-> v, live |-> ~Known(i) \/ mirror[i].live, owner |-> i \in DOMAIN Owner /\ Owner[i] \in ids]
Upserted(i, v, ids) == [v |-> v, live |-> TRUE, owner |-> i \in DOMAIN Owner /\ Owner[i] \in ids]

(* Items are stored in the order of the answer. *)
NextItem(d) == CHOOSE i \in d.todo : TRUE
UpsertItem(p, i) ==
    LET d == pull[p] IN
    /\ d.at = "item" /\ d.todo # {} /\ i = NextItem(d)
    /\ mirror' = [mirror EXCEPT ![i] = Upserted(i, d.snap[i], d.ids)]
    /\ IF i \in DOMAIN Email /\ mailbox[Email[i]] = "none"
       THEN Turns(p, [d EXCEPT !.at = "address", !.names = @ \cup {i}])
       ELSE Turns(p, [d EXCEPT !.todo = @ \ {i}, !.names = @ \cup {i}])
    /\ UNCHANGED <<monday, upsets, contactLinks, mailbox>>

FailItem(p, i) ==
    LET d == pull[p] IN
    /\ d.at = "item" /\ d.todo # {} /\ i = NextItem(d) /\ upsets < MaxUpsets /\ upsets' = upsets + 1
    /\ Turns(p, [d EXCEPT !.todo = @ \ {i}, !.names = @ \cup {i}])
    /\ UNCHANGED <<monday, mirror, contactLinks, mailbox>>

(* Mutant of Created: the row is written over when somebody was faster. *)
CreatedAnew(state) == "new"
Created(state) == IF state = "none" THEN "new" ELSE state
(* The address of the item just stored was not there a moment ago.  Any     *)
(* error of its creation is taken for a race lost to another pull: the item *)
(* counts as stored, with its address or without.                           *)
EnsureAddress(p, i) ==
    /\ pull[p].at = "address" /\ i = NextItem(pull[p])
    /\ mailbox' = [mailbox EXCEPT ![Email[i]] = Created(@)]
    /\ Turns(p, [pull[p] EXCEPT !.at = "item", !.todo = @ \ {i}])
    /\ UNCHANGED <<monday, upsets, mirror, contactLinks>>
MissAddress(p, i) ==
    /\ pull[p].at = "address" /\ i = NextItem(pull[p]) /\ upsets < MaxUpsets /\ upsets' = upsets + 1
    /\ Turns(p, [pull[p] EXCEPT !.at = "item", !.todo = @ \ {i}])
    /\ UNCHANGED <<monday, mirror, contactLinks, mailbox>>

Missing(p) == Live(Board(p)) \ DOMAIN pull[p].snap
Guard(stored, gone) == gone = 0 \/ stored < SmallBoard \/ gone * Share <= stored

(* The counts, and later the update that archives whatever is missing then. *)
CountMissing(p) ==
    LET d == pull[p] IN
    /\ d.at = "item" /\ d.todo = {}
    /\ Turns(p, [at |-> "archive", board |-> d.board, names |-> d.names, snap |-> d.snap,
                 may |-> Guard(Cardinality(Live(Board(p))), Cardinality(Missing(p)))])
    /\ UNCHANGED <<monday, upsets, mirror, contactLinks, mailbox>>

ArchiveMissing(p) ==
    /\ pull[p].at = "archive"
    /\ mirror' = [i \in Records |-> IF pull[p].may /\ i \in Missing(p)
                                    THEN [mirror[i] EXCEPT !.live = FALSE] ELSE mirror[i]]
    /\ Turns(p, Advance(p, pull[p].names))
    /\ UNCHANGED <<monday, upsets, contactLinks, mailbox>>

(* What either board asserts, between rows that are both stored when the    *)
(* ids are read; then each link is looked for, and created if not found.    *)
Asserted(p) ==
    {l \in {<<Owner[t], t>> : t \in Contacts} :
       (l[1] \in pull[p].names \/ l[2] \in pull[p].names) /\ Known(l[1]) /\ Known(l[2])}
Linking(d, links) ==
    IF links = {} THEN [at |-> "fetch", board |-> d.board, names |-> d.names]
    ELSE [at |-> "find", board |-> d.board, names |-> d.names, links |-> links]
NextLink(d) == CHOOSE l \in d.links : TRUE
LinkContacts(p) ==
    /\ pull[p].at = "link"
    /\ Turns(p, Linking(pull[p], Asserted(p)))
    /\ UNCHANGED <<monday, upsets, mirror, contactLinks, mailbox>>
FindLink(p) ==
    LET d == pull[p]  l == NextLink(d) IN
    /\ d.at = "find"
    /\ Turns(p, IF l \in contactLinks THEN Linking(d, d.links \ {l}) ELSE [d EXCEPT !.at = "create"])
    /\ UNCHANGED <<monday, upsets, mirror, contactLinks, mailbox>>
(* The link that another pull was faster to create is refused, outside any  *)
(* try: the whole pull ends there, its last two boards unread.              *)
CreateLink(p) ==
    LET d == pull[p]  l == NextLink(d) IN
    /\ d.at = "create" /\ contactLinks' = contactLinks \cup {l}
    /\ Turns(p, IF l \in contactLinks THEN Off ELSE Linking(d, d.links \ {l}))
    /\ UNCHANGED <<monday, upsets, mirror, mailbox>>
(* An error outside the boards' own try, or the end of the process.         *)
AbandonPull(p) ==
    /\ pull[p] # Off /\ upsets < MaxUpsets /\ upsets' = upsets + 1
    /\ Turns(p, Off)
    /\ UNCHANGED <<monday, mirror, contactLinks, mailbox>>

PullStep(p) ==
    \/ StartPull(p) \/ FetchBoard(p, {}) \/ CountMissing(p) \/ ArchiveMissing(p)
    \/ LinkContacts(p) \/ FindLink(p) \/ CreateLink(p)
    \/ \E i \in Records : UpsertItem(p, i)
    \/ \E i \in DOMAIN Email : EnsureAddress(p, i)

MirrorNext ==
    \/ \E i \in Records, v \in 0..2 : Edit(i, v)
    \/ \E a \in Addresses : Decide(a)
    \/ \E p \in Pulls : \/ PullStep(p) \/ FailBoard(p) \/ AbandonPull(p)
                        \/ \E i \in Records : FailItem(p, i)
                        \/ \E i \in DOMAIN Email : MissAddress(p, i)
                        \/ \E short \in SUBSET Records \ {{}} : FetchBoard(p, short)

(* The scheduler starts a pull at every interval; a pull goes on.           *)
MirrorSpec == MirrorInit /\ [][MirrorNext]_mirrorVars /\ \A p \in Pulls : WF_mirrorVars(PullStep(p))

-----------------------------------------------------------------------------
(* What staff decided about an address is never undone by a pull, also when *)
(* two pulls find the address missing at the same moment.                   *)
DecisionsOutliveThePull ==
    [][\A a \in Addresses : mailbox[a] = "decided" => mailbox'[a] = "decided"]_mirrorVars

(* When Monday rests and answers, the projection comes to agree with it:    *)
(* rows, archived marks, the company of an owned product, the links of      *)
(* contacts and the rows of their addresses, whatever was lost to short     *)
(* answers, failures and overlapping pulls before, an address whose error   *)
(* was swallowed and a pull ended by a link already made among them.  Only  *)
(* what the guard refuses to archive stays.                                 *)
Agrees ==
    /\ \A i \in Records : There(i) =>
          /\ mirror[i].live /\ mirror[i].v = monday[i]
          /\ i \in Owned /\ There(Owner[i]) => mirror[i].owner
          /\ i \in Contacts /\ There(Owner[i]) => <<Owner[i], i>> \in contactLinks
          /\ i \in DOMAIN Email => mailbox[Email[i]] # "none"
    /\ \A n \in 1..4 : LET gone == {i \in Live(BoardOrder[n]) : ~There(i)} IN
          gone = {} \/ ~Guard(Cardinality(Live(BoardOrder[n])), Cardinality(gone))
MirrorConverges == <>[]Agrees

(* What refers to a row refers to one that is stored, however the pulls     *)
(* overlap: the links, those about to be created among them, and the owners.*)
IsLink(l) == \E t \in Contacts : l = <<Owner[t], t>> /\ Known(t) /\ Known(Owner[t])
ReferencesAreStored ==
    /\ \A l \in contactLinks : IsLink(l)
    /\ \A p \in Pulls : pull[p].at \in {"find", "create"} => \A l \in pull[p].links : IsLink(l)
    /\ \A i \in DOMAIN Owner : mirror[i].owner => Known(Owner[i])

(* Every address has its row or none: what the mailbox holds is a function. *)
MailboxIsWhole == mailbox = [a \in Addresses |-> mailbox[a]]
=============================================================================
