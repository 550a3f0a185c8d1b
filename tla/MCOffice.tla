------------------------------ MODULE MCOffice ------------------------------
(***************************************************************************)
(* Small instances for TLC of the office around the newsletters: the        *)
(* reconciliation of the CRM, signing in, administering accounts, the rules *)
(* of segments, and the check of the email domain.  They share no state     *)
(* here: the scenario drawn at the start says which one moves (four are of  *)
(* the reconciliation, see MCCrmReconciliation), while the others rest in   *)
(* one initial state of theirs.                                             *)
(***************************************************************************)
EXTENDS MCCrmReconciliation, SignIn, StaffAccounts, Segments, EmailInfrastructure

CONSTANTS p3, dev,
          ana, s1, axis, beta, kim, lea, m1, m2

\* What the provider may answer of the domain, and how the app may be set up.
Spf(ok) == [purpose |-> "SPF", name |-> "send", verified |-> ok]
Dkim(n, ok) == [purpose |-> "DKIM", name |-> n, verified |-> ok]
MCDomains ==
    {Absent,
     [status |-> "pending", records |-> {Spf(TRUE), Dkim("k1", TRUE), Dkim("k2", FALSE)}],
     [status |-> "pending", records |-> {Spf(TRUE), Dkim("k1", TRUE), Dkim("k2", TRUE)}],
     [status |-> "verified", records |-> {}],
     [status |-> "pending", records |-> {}]}
Public == [protocol |-> "https", host |-> "public", bare |-> TRUE]
Private == [protocol |-> "http", host |-> "private", bare |-> TRUE]
Ready == [live |-> TRUE, built |-> TRUE, origin |-> Public, secret |-> "whsec", resend |-> TRUE, key |-> "real",
          scheduler |-> TRUE, delivery |-> TRUE, mode |-> TRUE, reviewed |-> TRUE]
MCEnvironments ==
    {Ready, [Ready EXCEPT !.live = FALSE, !.origin = Private], [Ready EXCEPT !.key = "sample"]}
ASSUME \A n \in 0..3 : MergeIsSound([1..n -> {"a", "inc", "inc.longer", "all"}], "inc", {"inc", "inc.longer"})

\* What the builder is used for, the mirrored CRM, and segments to begin with.
Cond(field, operator, accepts, day) == [field |-> field, operator |-> operator, accepts |-> accepts, day |-> day]
MCOffered == {Cond("product.type", "IS", {"gps"}, NoDate), Cond("product.type", "IS_NOT", {"gps"}, NoDate),
              Cond("subscriptionUntil", "WITHIN_NEXT_DAYS", {}, 3),
              Cond("company.classification", "IS", {"dealer"}, NoDate),
              Cond("contact.jobTitle", "IS_NOT_EMPTY", {}, NoDate),
              Cond("communication.unsubscribed", "IS_NO", {}, NoDate)}
Gps(until) == [name |-> "g1", type |-> "gps", until |-> until]
Drone(until) == [name |-> "d1", type |-> "drone", until |-> until]
Mirrored(a, b) ==
  [company |-> (axis :> [status |-> "ACTIVE", label |-> "dealer", archived |-> FALSE, mail |-> m1, owned |-> a]) @@
               (beta :> [status |-> "UNKNOWN", label |-> Empty, archived |-> FALSE, mail |-> m2, owned |-> b]),
   contact |-> (kim :> [title |-> "ceo", archived |-> FALSE, mail |-> m1, links |-> {axis, beta}]) @@
               (lea :> [title |-> Empty, archived |-> FALSE, mail |-> Empty, links |-> {}])]
Rules(conditions, groups) == [emptySegmentDefinition EXCEPT !.conditions = conditions, !.groups = groups]
Gps3 == Cond("product.type", "IS", {"gps"}, NoDate)
Soon == Cond("subscriptionUntil", "WITHIN_NEXT_DAYS", {}, 3)
MCOpenings == {Rules({Gps3}, {}), Rules({Gps3, Soon}, {}),
               Rules({}, {[match |-> "ANY", conditions |-> {Gps3, Soon}]}),
               Rules({Cond("communication.unsubscribed", "IS_NO", {}, NoDate)}, {})}
MCWorlds == {Mirrored({Gps(9), Drone(1)}, {Gps(1)}), Mirrored({Drone(1)}, {Gps(NoDate)})}

MCInit ==
    /\ scenario \in {"schedule", "notice", "retry", "overlap", "signin", "staff", "rules", "domain"}
    /\ CrmInit
    /\ SignInInit /\ (scenario # "signin" => hosted /\ \A i \in Identities : account[i] = "active")
    /\ StaffInit  /\ (scenario # "staff" => users[StandIn] = Nobody)
    /\ SegmentsInit  /\ (scenario # "rules" => draft = emptySegmentDefinition /\ crm.company[axis].owned = {Drone(1)})
    /\ InfraInit  /\ (scenario # "domain" => env = Ready /\ domain = Absent)

InCrm == CrmStep /\ UNCHANGED <<scenario, signInVars, staffVars, rulesVars, infraVars>>
SignInStep == scenario = "signin" /\ SignInNext /\ UNCHANGED <<scenario, vars, staffVars, rulesVars, infraVars>>
StaffStep == scenario = "staff" /\ StaffNext /\ UNCHANGED <<scenario, vars, signInVars, rulesVars, infraVars>>
RulesStep == scenario = "rules" /\ SegmentsNext /\ UNCHANGED <<scenario, vars, signInVars, staffVars, infraVars>>
DomainStep == scenario = "domain" /\ InfraNext /\ UNCHANGED <<scenario, vars, signInVars, staffVars, rulesVars>>

MCNext == InCrm \/ SignInStep \/ StaffStep \/ RulesStep \/ DomainStep
MCSpec == MCInit /\ [][MCNext]_<<scenario, vars, signInVars, staffVars, rulesVars, infraVars>>

(* Executions are interchangeable, and so are sign-in requests, and people. *)
Interchangeable == Permutations({w1, w2})
=============================================================================
