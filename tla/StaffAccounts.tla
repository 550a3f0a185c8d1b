---------------------------- MODULE StaffAccounts ----------------------------
(***************************************************************************)
(* Staff accounts (userService.ts, bootstrapService.ts, authorization.ts,   *)
(* session.ts): who may administer them, the one-time door for the first    *)
(* administrator, and the guard that keeps the last one.                    *)
(*                                                                         *)
(* Each service asks who is acting, reads the row it is about, counts the   *)
(* other administrators where that matters, hashes a password, and then     *)
(* writes in a transaction.  Nothing is locked between these steps.         *)
(***************************************************************************)
EXTENDS Integers, FiniteSets

CONSTANTS Humans,     \* people who have or may get an account
          StandIn,    \* DEV_STAND_IN_EMAIL, a row of nobody's
          MaxTasks    \* bound: requests, all together

ASSUME StaffAssumption == {StandIn, "none", "unusable"} \cap Humans = {} /\ StandIn # "none" /\ MaxTasks \in Nat

People == Humans \cup {StandIn}
Role == {"ADMIN", "MANAGER"}
Nobody == [role |-> "none", active |-> FALSE, system |-> FALSE, mustChange |-> FALSE, chosenBy |-> "none"]
NoTask == [op |-> "none"]

VARIABLES
    users,      \* [People -> User row, or Nobody]; chosenBy: whose secret the password is
    task,       \* [Humans -> the request each waits for]
    overtaken,  \* history: those whose removal was decided before another one was committed
    raced,      \* history: such a removal was committed all the same
    opened,     \* history: there has been an administrator
    tasks       \* requests so far

staffVars == <<users, task, overtaken, raced, opened, tasks>>

StaffInit ==
    /\ \E row \in {Nobody, [role |-> "MANAGER", active |-> TRUE, system |-> FALSE,
                            mustChange |-> FALSE, chosenBy |-> StandIn]} :
         users = [p \in People |-> IF p = StandIn THEN row ELSE Nobody]
    /\ task = [p \in Humans |-> NoTask]
    /\ overtaken = {} /\ raced = FALSE /\ opened = FALSE /\ tasks = 0

(***************************************************************************)
(* Who may act: the row is read again for every request.                    *)
(***************************************************************************)
Exists(p) == users[p] # Nobody
SignedIn(p) == users[p].active /\ ~users[p].system
can(p) == SignedIn(p) /\ ~users[p].mustChange /\ users[p].role = "ADMIN"   \* MANAGE_USERS
Administrators == {p \in People : users[p].role = "ADMIN" /\ users[p].active /\ ~users[p].system}
(* Mutant of Others: the account itself counts. *)
OthersAndItself(t) == Administrators
Others(t) == Administrators \ {t}

BeginTask(p, t) ==
    /\ task[p] = NoTask /\ tasks < MaxTasks /\ tasks' = tasks + 1
    /\ task' = [task EXCEPT ![p] = t] /\ overtaken' = overtaken \ {p}
    /\ UNCHANGED <<users, raced, opened>>
Continue(p, t) ==
    /\ task' = [task EXCEPT ![p] = t] /\ overtaken' = overtaken \ {p}
    /\ UNCHANGED <<users, raced, opened, tasks>>

createStaffAccount(p, t, role) ==
    /\ can(p) /\ ~Exists(t)
    /\ BeginTask(p, [op |-> "create", target |-> t, role |-> role, at |-> "commit"])
Removal(removes) == IF removes THEN "count" ELSE "commit"
setStaffRole(p, t, role) ==
    /\ can(p) /\ Exists(t) /\ ~users[t].system /\ users[t].role # role
    /\ BeginTask(p, [op |-> "role", target |-> t, role |-> role, at |-> Removal(users[t].role = "ADMIN")])
setStaffActive(p, t, on) ==
    /\ can(p) /\ Exists(t) /\ ~users[t].system /\ users[t].active # on
    /\ ~on => t # p
    /\ BeginTask(p, [op |-> "active", target |-> t, on |-> on,
                 at |-> Removal(~on /\ users[t].role = "ADMIN")])
resetStaffPassword(p, t) ==
    /\ can(p) /\ Exists(t) /\ ~users[t].system
    /\ BeginTask(p, [op |-> "reset", target |-> t, at |-> "commit"])
(* Open also to those who hold no capability until they have done so.       *)
changeOwnPassword(p) ==
    /\ SignedIn(p)
    /\ BeginTask(p, [op |-> "own", target |-> p, at |-> "commit"])

assertNotLastAdministrator(p) ==
    /\ task[p].op \in {"role", "active"} /\ task[p].at = "count"
    /\ Continue(p, IF Others(task[p].target) = {} THEN NoTask ELSE [task[p] EXCEPT !.at = "decided"])

(***************************************************************************)
(* The transactions.  Each names the columns it writes.                     *)
(***************************************************************************)
NewRow(role, chosenBy, mustChange) ==
    [role |-> role, active |-> TRUE, system |-> FALSE, mustChange |-> mustChange, chosenBy |-> chosenBy]
(* Mutant of Updated: a reset leaves the obligation to change it alone. *)
UpdatedQuietly(p, w, row) ==
    CASE w.op = "role"   -> [row EXCEPT !.role = w.role]
      [] w.op = "active" -> [row EXCEPT !.active = w.on]
      [] w.op = "reset"  -> [row EXCEPT !.chosenBy = p]
      [] w.op = "own"    -> [row EXCEPT !.chosenBy = p, !.mustChange = FALSE]
      [] OTHER           -> IF row = Nobody THEN NewRow(w.role, p, w.op = "create") ELSE row
Updated(p, w, row) ==
    CASE w.op = "role"   -> [row EXCEPT !.role = w.role]
      [] w.op = "active" -> [row EXCEPT !.active = w.on]
      [] w.op = "reset"  -> [row EXCEPT !.chosenBy = p, !.mustChange = TRUE]
      [] w.op = "own"    -> [row EXCEPT !.chosenBy = p, !.mustChange = FALSE]
      [] OTHER           -> IF row = Nobody THEN NewRow(w.role, p, w.op = "create") ELSE row
(* A removal that is decided: also a deactivation that was not counted,     *)
(* because its target was no administrator when it was read.  What it       *)
(* counted may be gone once another removal is committed before it.         *)
Removes(w) ==
    \/ w.op = "role" /\ w.role = "MANAGER" /\ w.at = "decided"
    \/ w.op = "active" /\ ~w.on /\ w.at \in {"commit", "decided"}
    \/ w.op = "bootstrap" /\ w.at = "retire"
Removed(p) ==
    /\ overtaken' = (overtaken \cup {q \in Humans : Removes(task[q])}) \ {p}
    /\ raced' = (raced \/ p \in overtaken)
Commit(p) ==
    LET w == task[p] IN
    /\ w # NoTask /\ w.at \in {"commit", "decided"}
    /\ users' = [users EXCEPT ![w.target] = Updated(p, w, users[w.target])]
    /\ task' = [task EXCEPT ![p] = IF w.op = "bootstrap" /\ ~Exists(w.target)
                                     THEN [w EXCEPT !.at = "retire"] ELSE NoTask]
    /\ IF Removes(w) THEN Removed(p) ELSE overtaken' = overtaken \ {p} /\ UNCHANGED raced
    /\ opened' = (opened \/ w.op = "bootstrap")
    /\ UNCHANGED tasks

(***************************************************************************)
(* The first administrator: counted before the form is parsed, and again in *)
(* the transaction that creates the row; the stand-in is retired after it.  *)
(***************************************************************************)
bootstrapFirstAdministrator(p) ==
    /\ Administrators = {} /\ ~Exists(p)
    /\ BeginTask(p, [op |-> "bootstrap", target |-> p, role |-> "ADMIN", at |-> "gate"])
hasRealAdministrator(p) ==
    /\ task[p].op = "bootstrap" /\ task[p].at = "gate"
    /\ Continue(p, IF Administrators # {} THEN NoTask ELSE [task[p] EXCEPT !.at = "commit"])
Retired(row) == [row EXCEPT !.system = TRUE, !.active = FALSE, !.chosenBy = "unusable"]
retireDevelopmentStandIn(p) ==
    /\ task[p].op = "bootstrap" /\ task[p].at = "retire"
    /\ users' = [users EXCEPT ![StandIn] = IF Exists(StandIn) /\ (~@.system \/ @.active) THEN Retired(@) ELSE @]
    /\ task' = [task EXCEPT ![p] = NoTask]
    /\ Removed(p)
    /\ UNCHANGED <<opened, tasks>>

(* The process dies under a request: what it committed stays.               *)
DropTask(p) == task[p] # NoTask /\ Continue(p, NoTask)

StaffNext ==
    \E p \in Humans :
      \/ \E t \in Humans, role \in Role : createStaffAccount(p, t, role)
      \/ \E t \in People :
           \/ \E role \in Role : setStaffRole(p, t, role)
           \/ \E on \in BOOLEAN : setStaffActive(p, t, on)
           \/ resetStaffPassword(p, t)
      \/ changeOwnPassword(p) \/ assertNotLastAdministrator(p) \/ Commit(p)
      \/ bootstrapFirstAdministrator(p) \/ hasRealAdministrator(p) \/ retireDevelopmentStandIn(p)
      \/ DropTask(p)

StaffSpec == StaffInit /\ [][StaffNext]_staffVars

(***************************************************************************)
(* Properties.                                                              *)
(***************************************************************************)
(* As userService.ts:184, its refusal at 333 and bootstrapService.ts    *)
(* 22-23 ("once one exists ... both refuse, permanently") have it: whatever *)
(* is demoted, deactivated or retired, there is an administrator once there *)
(* has been one.                                                            *)
LastAdministratorStays == opened => Administrators # {}

(* What the count of userService.ts:184-192 does guarantee, which nothing    *)
(* holds until the write: the last administrator goes only with a removal   *)
(* that was counted before another removal was committed and committed      *)
(* after it.                                                                *)
OnlyARaceTakesTheLast == opened /\ Administrators = {} => raced

(* ADR-0024: an account whose password someone else chose may do nothing    *)
(* but replace it, in whatever order resets and the owner's own changes     *)
(* commit.                                                                  *)
IssuedSecretsAreReplaced ==
    \A p \in Humans : users[p].chosenBy \in Humans \ {p} => users[p].mustChange

(* No removal alone takes the last administrator, and nobody keeps a secret *)
(* another person chose.                                                    *)
AccountsStaySound == OnlyARaceTakesTheLast /\ IssuedSecretsAreReplaced

(***************************************************************************)
(* The inductive invariant.                                                 *)
(***************************************************************************)
UserRow == [role : Role, active : BOOLEAN, system : BOOLEAN, mustChange : BOOLEAN,
            chosenBy : People \cup {"unusable"}]
TaskType ==
    [op : {"none"}]
      \cup [op : {"create"}, target : Humans, role : Role, at : {"commit"}]
      \cup [op : {"role"}, target : People, role : Role, at : {"count", "decided", "commit"}]
      \cup [op : {"active"}, target : People, on : BOOLEAN, at : {"count", "decided", "commit"}]
      \cup [op : {"reset"}, target : People, at : {"commit"}]
      \cup [op : {"own"}, target : Humans, at : {"commit"}]
      \cup [op : {"bootstrap"}, target : Humans, role : {"ADMIN"}, at : {"gate", "commit", "retire"}]
StaffTypeOK ==
    /\ users \in [People -> {Nobody} \cup UserRow]
    /\ task \in [Humans -> TaskType]
    /\ overtaken \subseteq Humans /\ raced \in BOOLEAN /\ opened \in BOOLEAN /\ tasks \in Nat

(* What a request knows of its target: rows are never deleted, and only a    *)
(* demotion or a deactivation is counted.                                   *)
TasksAreKnown ==
    \A p \in Humans :
      /\ task[p].op \in {"own", "bootstrap"} => task[p].target = p
      /\ task[p].op \in {"role", "active", "reset", "own"} => Exists(task[p].target)
      /\ task[p].op = "role" => (task[p].role = "MANAGER" <=> task[p].at \in {"count", "decided"})
      /\ task[p].op = "active" /\ task[p].on => task[p].at = "commit"
(* Until there has been an administrator there is nobody, and the door for   *)
(* the first is the only one.                                               *)
NobodyBefore ==
    ~opened => \A p \in Humans :
                 ~Exists(p) /\ (task[p] # NoTask => task[p].op = "bootstrap" /\ task[p].at # "retire")
(* Each removal that is decided spares another administrator, unless it was  *)
(* overtaken; one that was has not been committed.                          *)
RemovedBy(p) == IF task[p].op = "bootstrap" THEN StandIn ELSE task[p].target
RemovalsSpareOne ==
    opened /\ ~raced =>
      /\ Administrators # {}
      /\ \A p \in Humans \ overtaken : Removes(task[p]) => Others(RemovedBy(p)) # {}
StaffInv ==
    /\ StaffTypeOK /\ TasksAreKnown /\ NobodyBefore /\ RemovalsSpareOne /\ IssuedSecretsAreReplaced
=============================================================================
