------------------------ MODULE EmailInfrastructure ------------------------
(***************************************************************************)
(* What has to be in place before a customer message may leave             *)
(* (emailInfrastructureService.ts, domainAuth.ts, integrations/email,      *)
(* publicUrl.ts, getCustomerReleaseStatus of productionDispatchService.ts).*)
(*                                                                         *)
(* Switches, keys and the public address live in the environment and only  *)
(* change with a restart, which loses the checks under way.  The state of  *)
(* the sending domain is Resend's: an administrator's check asks for the   *)
(* list of domains, then for one of them, and stores the answer; the gate  *)
(* reads what was stored, for a day.                                       *)
(***************************************************************************)
EXTENDS Naturals, FiniteSets, Sequences, SequencesExt

CONSTANTS Admins,
          Domains,                 \* what Resend may hold of the sending domain
          Environments,            \* the settings a server may be started with
          Day, Pulse,              \* how long a stored verdict and a heartbeat are good for
          MaxHours, MaxChanges       \* bounds

Absent == [status |-> "absent", records |-> {}]
Mechanisms == {"SPF", "DKIM"}
ASSUME InfrastructureAssumption ==
    /\ Absent \in Domains
    /\ \A d \in Domains : \A r \in d.records : r.purpose \in Mechanisms /\ r.verified \in BOOLEAN
    /\ {Day, Pulse, MaxHours, MaxChanges} \subseteq Nat

VARIABLES
    env,       \* the environment of the running server
    domain,    \* what Resend holds now
    row,       \* ProviderDomainSnapshot
    checks,    \* [administrator -> the check under way]
    beat,      \* the scheduler's last heartbeat
    hours, changes

infraVars == <<env, domain, row, checks, beat, hours, changes>>

NoCheck == [at |-> "nothing"]
NoRow == [at |-> 0, status |-> "unchecked", spf |-> "UNKNOWN", dkim |-> "UNKNOWN", held |-> FALSE]

-----------------------------------------------------------------------------
(* The public address: https on a host others can reach, or a local one     *)
(* while developing; nothing is repaired.                                   *)
NoOrigin == [protocol |-> "none", host |-> "none", bare |-> TRUE]
isLocalOrPrivateHost(o) == o.host \in {"localhost", "private"}
validatePublicAppUrl(o, developing) ==
    /\ o.protocol \in {"https", "http"} /\ o.bare
    /\ IF o.protocol = "http" THEN developing /\ isLocalOrPrivateHost(o) ELSE ~isLocalOrPrivateHost(o)
DevelopmentOnly(o) == validatePublicAppUrl(o, TRUE) /\ isLocalOrPrivateHost(o)
PublicUnsubscribeReady == validatePublicAppUrl(env.origin, ~env.live) /\ ~DevelopmentOnly(env.origin)
unsubscribeUrlFor == IF validatePublicAppUrl(env.origin, ~env.live) THEN env.origin ELSE NoOrigin

-----------------------------------------------------------------------------
(* Mutant of recordState: one verified record is enough. *)
recordSome(records, purpose) ==
    IF \E r \in records : r.purpose = purpose /\ r.verified THEN "VERIFIED" ELSE "NOT_VERIFIED"
(* A mechanism holds only if Resend says so of each of its records. *)
recordState(records, purpose) ==
    LET relevant == {r \in records : r.purpose = purpose} IN
    IF relevant = {} THEN "UNKNOWN"
    ELSE IF \A r \in relevant : r.verified THEN "VERIFIED" ELSE "NOT_VERIFIED"

interpretDomainReport(status, records) ==
    [status |-> status,
     spf  |-> IF status = "verified" THEN "VERIFIED" ELSE recordState(records, "SPF"),
     dkim |-> IF status = "verified" THEN "VERIFIED" ELSE recordState(records, "DKIM")]

(* The adapter in force: anything half configured is the disabled one. *)
getProductionEmailProvider == IF env.resend /\ env.key # "none" THEN "RESEND" ELSE "DISABLED"
Configured == getProductionEmailProvider = "RESEND" /\ env.key = "real"

(* getCustomerReleaseStatus: every reason not to let a customer message out. *)
Blockers ==
    {b \in {"scheduler", "switches", "process", "provider", "domain", "review", "public"} :
        \/ b = "scheduler" /\ (~env.scheduler \/ beat = 0 \/ hours - beat > Pulse)
        \/ b = "switches" /\ ~(env.delivery /\ env.mode)
        \/ b = "process" /\ ~env.built
        \/ b = "provider" /\ ~(Configured /\ env.delivery)
        \/ b = "domain" /\ (row.spf # "VERIFIED" \/ row.dkim # "VERIFIED" \/ row = NoRow \/ hours - row.at > Day)
        \/ b = "review" /\ ~env.reviewed
        \/ b = "public" /\ ~(PublicUnsubscribeReady /\ env.secret = "whsec")}
ReleaseEnabled == Blockers = {}

(* The facts of the email-infrastructure page. *)
mechanismFactState(state) ==
    IF state = "VERIFIED" THEN "OK" ELSE IF state = "UNKNOWN" THEN "UNKNOWN" ELSE "ACTION_REQUIRED"
ProviderFact == IF Configured THEN "OK" ELSE "ACTION_REQUIRED"
DomainFact == IF row.status = "verified" THEN "OK" ELSE IF row # NoRow THEN "ACTION_REQUIRED" ELSE "UNKNOWN"
(* Any origin but the http://localhost one is called reachable. *)
WebhookFact == IF validatePublicAppUrl(env.origin, TRUE) /\ env.origin.host # "localhost" THEN "OK" ELSE "UNKNOWN"
SecretFact == IF env.secret # "none" THEN "OK" ELSE "ACTION_REQUIRED"
SendingFact == IF env.delivery THEN "OK" ELSE "LOCKED"
PageSaysReady ==
    /\ ProviderFact = "OK" /\ WebhookFact = "OK" /\ SendingFact = "OK" /\ SecretFact = "OK"
    /\ mechanismFactState(row.spf) = "OK" /\ mechanismFactState(row.dkim) = "OK"

-----------------------------------------------------------------------------
InfraInit ==
    /\ env \in Environments /\ domain \in Domains
    /\ row = NoRow /\ checks = [a \in Admins |-> NoCheck]
    /\ beat = 0 /\ hours = 1 /\ changes = 0

Does(a, c) == checks' = [checks EXCEPT ![a] = c]

DomainMoves(d) ==
    /\ changes < MaxChanges /\ changes' = changes + 1
    /\ d # domain /\ domain' = d
    /\ UNCHANGED <<env, row, checks, beat, hours>>
HourPasses ==
    /\ hours < MaxHours /\ hours' = hours + 1
    /\ UNCHANGED <<env, domain, row, checks, beat, changes>>
SchedulerTick ==
    /\ env.scheduler /\ beat # hours /\ beat' = hours
    /\ UNCHANGED <<env, domain, row, checks, hours, changes>>
RestartWith(e) ==
    /\ changes < MaxChanges /\ changes' = changes + 1
    /\ env' = e /\ checks' = [a \in Admins |-> NoCheck]
    /\ UNCHANGED <<domain, row, beat, hours>>

(* refreshDomainStatus.  The disabled adapter cannot ask, and a key that is *)
(* not one asks nothing: both are refusals, and nothing is stored.          *)
CheckDomain(a) ==
    /\ checks[a] = NoCheck /\ Configured
    /\ Does(a, [at |-> "list"])
    /\ UNCHANGED <<env, domain, row, beat, hours, changes>>

(* domains.list: the domain, or an error that reads as not knowing it. *)
ListDomains(a, answered) ==
    /\ checks[a].at = "list"
    /\ Does(a, IF answered /\ domain # Absent THEN [at |-> "get", match |-> domain] ELSE NoCheck)
    /\ UNCHANGED <<env, domain, row, beat, hours, changes>>

(* What Resend has said of the mechanisms, record by record. *)
ToldToHold(status, records) ==
    \/ status = "verified"
    \/ \A p \in Mechanisms :
          /\ \E r \in records : r.purpose = p
          /\ \A r \in records : r.purpose = p => r.verified
(* domains.get: by now the domain may have changed or gone, and an error    *)
(* leaves the status the list gave, with no records.                        *)
GetDomain(a, answered) ==
    LET c == checks[a]
        told == answered /\ domain # Absent
        status == IF told THEN domain.status ELSE c.match.status
        records == IF told THEN domain.records ELSE {}
    IN
    /\ c.at = "get"
    /\ Does(a, [at |-> "store", answer |-> interpretDomainReport(status, records),
                held |-> ToldToHold(status, records)])
    /\ UNCHANGED <<env, domain, row, beat, hours, changes>>

StoreVerdict(a) ==
    LET c == checks[a] IN
    /\ c.at = "store"
    /\ row' = [at |-> hours, status |-> c.answer.status, spf |-> c.answer.spf, dkim |-> c.answer.dkim,
               held |-> c.held]
    /\ Does(a, NoCheck)
    /\ UNCHANGED <<env, domain, beat, hours, changes>>

InfraNext ==
    \/ \E d \in Domains : DomainMoves(d)
    \/ HourPasses \/ SchedulerTick
    \/ \E e \in Environments : RestartWith(e)
    \/ \E a \in Admins :
          \/ CheckDomain(a) \/ StoreVerdict(a)
          \/ \E answered \in BOOLEAN : ListDomains(a, answered) \/ GetDomain(a, answered)
InfraSpec == InfraInit /\ [][InfraNext]_infraVars

-----------------------------------------------------------------------------
(* The gate is open only on a verdict Resend gave: both mechanisms held,    *)
(* record by record, when it was asked, whatever failed or moved between    *)
(* its two answers and the storing; the page then claims no less, and every *)
(* message can carry an unsubscribe address its reader can open.            *)
OpenGateWasReported ==
    ReleaseEnabled =>
        /\ row.held
        /\ PageSaysReady
        /\ unsubscribeUrlFor # NoOrigin /\ unsubscribeUrlFor.protocol = "https"
        /\ ~isLocalOrPrivateHost(unsubscribeUrlFor)

(***************************************************************************)
(* The inductive invariant.                                                 *)
(***************************************************************************)
InfraTypeOK ==
    /\ env \in Environments /\ domain \in Domains
    /\ checks = [a \in Admins |-> checks[a]]
    /\ {hours, beat, changes} \subseteq Nat
(* What is stored, or about to be, as a verdict on both was told as one.     *)
BothVerified(v) == v.spf = "VERIFIED" /\ v.dkim = "VERIFIED"
VerdictsWereTold ==
    /\ BothVerified(row) => row.held
    /\ \A a \in Admins : checks[a].at = "store" /\ BothVerified(checks[a].answer) => checks[a].held
InfraInv == InfraTypeOK /\ VerdictsWereTold

-----------------------------------------------------------------------------
(* planSpfMerge: the provider's include goes in front of a closing all.  It *)
(* counts as present when its text occurs anywhere in the record: in a part *)
(* that is the include, or in one that merely contains it ("containing").   *)
planSpfMerge(existing, include, containing) ==
    IF existing = <<>> THEN <<"v=spf1", include, "all">>
    ELSE IF Range(existing) \cap containing # {} THEN existing
    ELSE IF Len(existing) > 1 /\ Last(existing) = "all" THEN Front(existing) \o <<include, "all">>
    ELSE Append(existing, include)

(* Following the advice twice changes nothing more; what was there stays    *)
(* there in its order, with the include as the one addition; a closing all  *)
(* stays last.  The provider is let in, except by a record with a longer    *)
(* part that contains the include's text: that one is left as it is.        *)
MergeIsSound(records, include, containing) ==
    \A s \in records :
        LET m == planSpfMerge(s, include, containing) IN
        /\ planSpfMerge(m, include, containing) = m
        /\ (s # <<>> /\ Range(s) \cap containing = {}) => \E k \in 1..Len(m) : m[k] = include /\ RemoveAt(m, k) = s
        /\ \/ include \in Range(m)
           \/ m = s /\ \E part \in Range(s) : part \in containing \ {include}
        /\ (s = <<>> \/ (Len(s) > 1 /\ Last(s) = "all")) => Last(m) = "all"
=============================================================================
